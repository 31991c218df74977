--------------------------- MODULE DocumentProofs ---------------------------
(***************************************************************************)
(* Theorems about the documents of the Core language, whoever reads them:  *)
(* bang normalize and bang project, over any source files and edits.       *)
(***************************************************************************)
EXTENDS Authoring, Project, FiniteSums

(* h is the function by which FlattenSeq appends the sequences of ss.      *)
Flattens(h, ss) ==
  h = [i \in 1..Len(ss) |-> IF i = 1 THEN ss[i] ELSE h[i - 1] \o ss[i]]

(* st tells where each sequence of ss starts in the whole.                 *)
Starts(st, ss) ==
  /\ DOMAIN st = 1..(Len(ss) + 1) /\ st[1] = 0
  /\ \A i \in 1..Len(ss) : st[i + 1] = st[i] + Len(ss[i])

(* Every element of a sequence of ss is in its place in f, and nothing     *)
(* else is in f.                                                           *)
InPlace(st, ss, f) ==
  /\ Starts(st, ss)
  /\ \A i \in 1..(Len(ss) + 1) : st[i] \in Nat
  /\ Len(f) = st[Len(ss) + 1]
  /\ \A i \in 1..Len(ss) : \A j \in 1..Len(ss[i]) :
       st[i] + j \in 1..Len(f) /\ f[st[i] + j] = ss[i][j]
  /\ \A m \in 1..Len(f) : \E i \in 1..Len(ss) : \E j \in 1..Len(ss[i]) : m = st[i] + j

(* Appending two lists.                                                    *)
LEMMA Appended ==
  ASSUME NEW S, NEW s \in Seq(S), NEW t \in Seq(S)
  PROVE  /\ s \o t \in Seq(S) /\ Len(s \o t) = Len(s) + Len(t)
         /\ \A j \in 1..Len(s) : (s \o t)[j] = s[j]
         /\ \A j \in 1..Len(t) : (s \o t)[Len(s) + j] = t[j]
         /\ \A m \in 1..Len(s \o t) : m \in 1..Len(s) \/ \E j \in 1..Len(t) : m = Len(s) + j
  <1>0. Len(s) \in Nat /\ Len(t) \in Nat
    OBVIOUS
  <1>1. s \o t \in Seq(S) /\ Len(s \o t) = Len(s) + Len(t)
    OBVIOUS
  <1>2. \A j \in 1..Len(s) : (s \o t)[j] = s[j]
    BY <1>0
  <1>3. ASSUME NEW j \in 1..Len(t) PROVE (s \o t)[Len(s) + j] = t[j]
    <2>1. Len(s) + j \in 1..(Len(s) + Len(t)) /\ ~(Len(s) + j <= Len(s)) /\ Len(s) + j - Len(s) = j
      BY <1>0
    <2> QED BY <2>1
  <1>4. ASSUME NEW m \in 1..Len(s \o t), m \notin 1..Len(s)
        PROVE  \E j \in 1..Len(t) : m = Len(s) + j
    <2>1. m - Len(s) \in 1..Len(t) /\ m = Len(s) + (m - Len(s))
      BY <1>0, <1>1, <1>4
    <2> QED BY <2>1
  <1> QED BY <1>1, <1>2, <1>3, <1>4

(* There is a function that appends the sequences, one after the other.    *)
LEMMA FlattensExists ==
  ASSUME NEW S, NEW ss \in Seq(Seq(S))
  PROVE  \E h \in [1..Len(ss) -> Seq(S)] : Flattens(h, ss)
  <1> DEFINE N == Len(ss)
             Body(h, i) == IF i = 1 THEN ss[i] ELSE h[i - 1] \o ss[i]
             P(k) == k <= N => \E h \in [1..N -> Seq(S)] : \A i \in 1..k : h[i] = Body(h, i)
  <1>0. N \in Nat /\ \A i \in 1..N : ss[i] \in Seq(S)
    OBVIOUS
  <1>1. P(0)
    <2>1. [i \in 1..N |-> <<>>] \in [1..N -> Seq(S)]
      OBVIOUS
    <2> QED BY <2>1
  <1>2. ASSUME NEW k \in Nat, P(k) PROVE P(k + 1)
    <2> SUFFICES ASSUME k + 1 <= N
                 PROVE  \E h \in [1..N -> Seq(S)] : \A i \in 1..(k + 1) : h[i] = Body(h, i)
      OBVIOUS
    <2>1. PICK h \in [1..N -> Seq(S)] : \A i \in 1..k : h[i] = Body(h, i)
      <3>1. k <= N
        BY <1>0
      <3> QED BY <3>1, <1>2
    <2> DEFINE g == [h EXCEPT ![k + 1] = Body(h, k + 1)]
    <2>2. Body(h, k + 1) \in Seq(S)
      <3>1. k + 1 \in 1..N
        BY <1>0
      <3>2. CASE k + 1 = 1
        BY <3>1, <3>2, <1>0
      <3>3. CASE k + 1 # 1
        <4>1. k \in 1..N
          BY <3>3, <1>0
        <4>2. h[k] \in Seq(S) /\ ss[k + 1] \in Seq(S)
          BY <4>1, <3>1, <1>0
        <4>3. h[k] \o ss[k + 1] \in Seq(S)
          BY <4>2
        <4> QED BY <4>3, <3>3
      <3> QED BY <3>2, <3>3
    <2>3. g \in [1..N -> Seq(S)]
      BY <2>2
    <2>4. \A i \in 1..(k + 1) : g[i] = Body(g, i)
      <3> SUFFICES ASSUME NEW i \in 1..(k + 1) PROVE g[i] = Body(g, i)
        OBVIOUS
      <3>0. k + 1 \in 1..N /\ DOMAIN h = 1..N
        BY <1>0
      <3>1. CASE i = k + 1
        <4>1. g[i] = Body(h, i)
          BY <3>0, <3>1
        <4>2. i # 1 => g[i - 1] = h[i - 1]
          BY <3>0, <3>1
        <4> QED BY <4>1, <4>2
      <3>2. CASE i # k + 1
        <4>1. i \in 1..k /\ i \in 1..N
          BY <3>2, <3>0
        <4>2. g[i] = h[i]
          BY <3>2, <4>1, <3>0
        <4>3. i # 1 => g[i - 1] = h[i - 1]
          BY <4>1, <3>0
        <4> QED BY <4>1, <4>2, <4>3, <2>1
      <3> QED BY <3>1, <3>2
    <2> HIDE DEF g, Body
    <2> QED BY <2>3, <2>4
  <1>3. P(N)
    <2> HIDE DEF P, N
    <2> DEFINE T == {k \in Nat : P(k)}
    <2>1. 0 \in T /\ \A k \in Nat : k \in T => k + 1 \in T
      BY <1>1, <1>2
    <2>2. Nat \subseteq T
      <3> HIDE DEF T
      <3> QED BY <2>1, SetInduction
    <2> QED BY <2>2, <1>0
  <1>4. PICK h \in [1..N -> Seq(S)] : \A i \in 1..N : h[i] = Body(h, i)
    BY <1>3, <1>0
  <1>5. h = [i \in 1..N |-> Body(h, i)]
    BY <1>4
  <1> QED BY <1>4, <1>5 DEF Flattens

(* Flattening a list of lists: a list, each of the lists in its place, in  *)
(* this order, and nothing else.                                           *)
LEMMA FlattenPlaces ==
  ASSUME NEW S, NEW ss \in Seq(Seq(S))
  PROVE  FlattenSeq(ss) \in Seq(S) /\ \E st : InPlace(st, ss, FlattenSeq(ss))
  <1> DEFINE N == Len(ss)
             F == FlattenSeq(ss)
  <1>0. N \in Nat /\ \A i \in 1..N : ss[i] \in Seq(S) /\ Len(ss[i]) \in Nat
    OBVIOUS
  <1>1. CASE N = 0
    <2>1. ss = <<>> /\ F = <<>>
      BY <1>1 DEF FlattenSeq
    <2> DEFINE st == [i \in 1..1 |-> 0]
    <2>2. Starts(st, ss) /\ st[1] = 0
      BY <1>1 DEF Starts
    <2> HIDE DEF st, F
    <2>3. F \in Seq(S) /\ Len(F) = 0
      BY <2>1
    <2>4. \A i \in 1..(N + 1) : st[i] \in Nat
      BY <1>1, <2>2
    <2>5. 1..Len(F) = {} /\ 1..N = {} /\ N + 1 = 1
      BY <2>3, <1>1
    <2>6. InPlace(st, ss, F)
      BY <2>2, <2>3, <2>4, <2>5 DEF InPlace
    <2> QED BY <2>3, <2>6 DEF F
  <1>2. CASE N # 0
    <2> DEFINE h == CHOOSE h : Flattens(h, ss)
    <2>1. F = h[N] /\ Flattens(h, ss)
      <3>1. \E g : Flattens(g, ss)
        BY FlattensExists
      <3>2. Flattens(h, ss)
        BY <3>1
      <3>3. F = h[N]
        BY <1>2 DEF FlattenSeq, Flattens
      <3> QED BY <3>2, <3>3
    <2> HIDE DEF h, F
    <2>2. h[1] = ss[1] /\ \A i \in 2..N : h[i] = h[i - 1] \o ss[i]
      <3>1. DOMAIN h = 1..N
        BY <2>1 DEF Flattens
      <3>2. \A i \in 1..N : h[i] = IF i = 1 THEN ss[i] ELSE h[i - 1] \o ss[i]
        BY <2>1 DEF Flattens
      <3>3. 1 \in 1..N
        BY <1>0, <1>2
      <3>4. ASSUME NEW i \in 2..N PROVE h[i] = h[i - 1] \o ss[i]
        <4>1. i \in 1..N /\ i # 1
          BY <1>0
        <4> QED BY <4>1, <3>2
      <3> QED BY <3>2, <3>3, <3>4
    <2> DEFINE st == [i \in 1..(N + 1) |-> IF i = 1 THEN 0 ELSE Len(h[i - 1])]
               Placed(k) ==
                 /\ h[k] \in Seq(S) /\ st[k] \in Nat /\ Len(h[k]) = st[k] + Len(ss[k])
                 /\ \A i \in 1..k : \A j \in 1..Len(ss[i]) :
                      st[i] + j \in 1..Len(h[k]) /\ h[k][st[i] + j] = ss[i][j]
                 /\ \A m \in 1..Len(h[k]) :
                      \E i \in 1..k : \E j \in 1..Len(ss[i]) : m = st[i] + j
    <2>s. st[1] = 0 /\ \A i \in 1..N : st[i + 1] = Len(h[i])
      <3>1. 1 \in 1..(N + 1)
        BY <1>0
      <3>2. ASSUME NEW i \in 1..N PROVE st[i + 1] = Len(h[i])
        <4>1. i + 1 \in 1..(N + 1) /\ i + 1 # 1 /\ i + 1 - 1 = i
          BY <1>0
        <4> QED BY <4>1
      <3> QED BY <3>1, <3>2
    <2>d. DOMAIN st = 1..(N + 1)
      OBVIOUS
    <2> HIDE DEF st
    <2>3. Placed(1)
      <3>1. h[1] = ss[1] /\ st[1] = 0 /\ ss[1] \in Seq(S) /\ Len(ss[1]) \in Nat
        BY <2>2, <2>s, <1>0, <1>2
      <3>2. \A j \in 1..Len(ss[1]) :
              st[1] + j \in 1..Len(h[1]) /\ h[1][st[1] + j] = ss[1][j]
        BY <3>1
      <3>3. \A m \in 1..Len(h[1]) : \E j \in 1..Len(ss[1]) : m = st[1] + j
        <4> TAKE m \in 1..Len(h[1])
        <4>1. m \in 1..Len(ss[1]) /\ m = st[1] + m
          BY <3>1
        <4> QED BY <4>1
      <3>4. 1..1 = {1}
        OBVIOUS
      <3>5. h[1] \in Seq(S) /\ st[1] \in Nat /\ Len(h[1]) = st[1] + Len(ss[1])
        BY <3>1
      <3> QED BY <3>2, <3>3, <3>4, <3>5
    <2>4. ASSUME NEW a \in Nat, a \in 1..N, a + 1 <= N, Placed(a) PROVE Placed(a + 1)
      <3> DEFINE b == a + 1
      <3>1. b \in 1..N /\ b \in 2..N /\ b - 1 = a
        BY <2>4, <1>0
      <3>3. h[b] = h[a] \o ss[b] /\ st[b] = Len(h[a])
        BY <3>1, <2>2, <2>s, <2>4
      <3>4. ss[b] \in Seq(S) /\ h[a] \in Seq(S)
        BY <3>1, <2>4, <1>0
      <3>5. h[b] \in Seq(S) /\ Len(h[b]) = st[b] + Len(ss[b])
        BY <3>3, <3>4, Appended
      <3>a. /\ \A j \in 1..Len(h[a]) : h[b][j] = h[a][j]
            /\ \A j \in 1..Len(ss[b]) : h[b][Len(h[a]) + j] = ss[b][j]
            /\ \A m \in 1..Len(h[b]) : m \in 1..Len(h[a]) \/ \E j \in 1..Len(ss[b]) : m = Len(h[a]) + j
        <4> DEFINE u == h[a]
                   v == ss[b]
        <4>1. u \in Seq(S) /\ v \in Seq(S) /\ h[b] = u \o v
          BY <3>3, <3>4
        <4> HIDE DEF u, v
        <4>2. /\ \A j \in 1..Len(u) : (u \o v)[j] = u[j]
              /\ \A j \in 1..Len(v) : (u \o v)[Len(u) + j] = v[j]
              /\ \A m \in 1..Len(u \o v) : m \in 1..Len(u) \/ \E j \in 1..Len(v) : m = Len(u) + j
          BY <4>1, Appended
        <4> QED BY <4>1, <4>2 DEF u, v
      <3>n. Len(h[a]) \in Nat /\ Len(ss[b]) \in Nat
        BY <3>4
      <3>6. ASSUME NEW i \in 1..b, NEW j \in 1..Len(ss[i])
            PROVE  st[i] + j \in 1..Len(h[b]) /\ h[b][st[i] + j] = ss[i][j]
        <4>1. CASE i = b
          <5>1. Len(h[a]) + j \in 1..(Len(h[a]) + Len(ss[b]))
            <6> DEFINE x == Len(h[a])
                       y == Len(ss[b])
            <6>1. x \in Nat /\ y \in Nat /\ j \in 1..y
              BY <3>n, <4>1
            <6> HIDE DEF x, y
            <6>2. x + j \in 1..(x + y)
              BY <6>1
            <6> QED BY <6>2 DEF x, y
          <5>2. h[b][Len(h[a]) + j] = ss[b][j]
            BY <3>a, <4>1
          <5> QED BY <5>1, <5>2, <4>1, <3>3, <3>5
        <4>2. CASE i # b
          <5>1. i \in 1..a
            BY <4>2, <2>4
          <5>2. st[i] + j \in 1..Len(h[a]) /\ h[a][st[i] + j] = ss[i][j]
            BY <5>1, <2>4
          <5>3. st[i] + j \in 1..(Len(h[a]) + Len(ss[b]))
            <6> DEFINE x == Len(h[a])
                       y == Len(ss[b])
                       z == st[i] + j
            <6>1. x \in Nat /\ y \in Nat /\ z \in 1..x
              BY <3>n, <5>2
            <6> HIDE DEF x, y, z
            <6>2. z \in 1..(x + y)
              BY <6>1
            <6> QED BY <6>2 DEF x, y, z
          <5>4. h[b][st[i] + j] = h[a][st[i] + j]
            BY <5>2, <3>a
          <5> QED BY <5>2, <5>3, <5>4, <3>3, <3>5
        <4> QED BY <4>1, <4>2
      <3>7. ASSUME NEW m \in 1..Len(h[b])
            PROVE  \E i \in 1..b : \E j \in 1..Len(ss[i]) : m = st[i] + j
        <4>1. CASE m \in 1..Len(h[a])
          <5>2. PICK i \in 1..a : \E j \in 1..Len(ss[i]) : m = st[i] + j
            BY <4>1, <2>4
          <5>3. i \in 1..b
            BY <2>4
          <5> QED BY <5>2, <5>3
        <4>2. CASE m \notin 1..Len(h[a])
          <5>1. PICK j \in 1..Len(ss[b]) : m = Len(h[a]) + j
            BY <4>2, <3>a
          <5>2. b \in 1..b
            BY <3>1
          <5> QED BY <5>1, <5>2, <3>3
        <4> QED BY <4>1, <4>2
      <3>8. st[b] \in Nat
        BY <3>3, <3>n
      <3> QED BY <3>5, <3>6, <3>7, <3>8
    <2> HIDE DEF Placed, N
    <2>5. \A k \in 1..N : Placed(k)
      <3> DEFINE T == {k \in Nat : k + 1 <= N => Placed(k + 1)}
      <3>1. 0 \in T
        BY <2>3
      <3>2. ASSUME NEW k \in Nat, k \in T PROVE k + 1 \in T
        <4> DEFINE a == k + 1
        <4>1. a \in Nat /\ (a + 1 <= N => a \in 1..N /\ Placed(a))
          BY <3>2, <1>0
        <4> HIDE DEF a
        <4>2. a + 1 <= N => Placed(a + 1)
          BY <4>1, <2>4
        <4> QED BY <4>1, <4>2 DEF a
      <3>3. Nat \subseteq T
        <4> HIDE DEF T
        <4> QED BY <3>1, <3>2, SetInduction
      <3> SUFFICES ASSUME NEW k \in 1..N PROVE Placed(k)
        OBVIOUS
      <3>4. k - 1 \in Nat /\ k - 1 + 1 = k /\ k <= N
        BY <1>0
      <3> QED BY <3>3, <3>4
    <2>6. N \in 1..N
      BY <1>0, <1>2
    <2> USE DEF N
    <2>7. Starts(st, ss)
      <3>1. ASSUME NEW i \in 1..N PROVE st[i + 1] = st[i] + Len(ss[i])
        BY <2>5, <2>s DEF Placed
      <3> QED BY <3>1, <2>s, <2>d DEF Starts
    <2>8. \A i \in 1..(N + 1) : st[i] \in Nat
      <3> SUFFICES ASSUME NEW i \in 1..(N + 1) PROVE st[i] \in Nat
        OBVIOUS
      <3>1. CASE i \in 1..N
        BY <2>5, <3>1 DEF Placed
      <3>2. CASE i = N + 1
        <4>1. st[i] = Len(h[N]) /\ h[N] \in Seq(S)
          BY <3>2, <2>s, <2>6, <2>5 DEF Placed
        <4> QED BY <4>1
      <3> QED BY <3>1, <3>2, <1>0
    <2>9. Len(F) = st[N + 1]
      BY <2>6, <2>s, <2>1
    <2>10. /\ F \in Seq(S)
           /\ \A i \in 1..N : \A j \in 1..Len(ss[i]) :
                st[i] + j \in 1..Len(F) /\ F[st[i] + j] = ss[i][j]
           /\ \A m \in 1..Len(F) : \E i \in 1..N : \E j \in 1..Len(ss[i]) : m = st[i] + j
      BY <2>5, <2>6, <2>1 DEF Placed
    <2>11. InPlace(st, ss, F)
      BY <2>7, <2>8, <2>9, <2>10 DEF InPlace
    <2> QED BY <2>10, <2>11 DEF F
  <1> QED BY <1>1, <1>2

(* A sequence of anything is a list.                                       *)
LEMMA SeqIsList == ASSUME NEW S, NEW s \in Seq(S) PROVE IsList(s) /\ Members(s) \subseteq S
  <1>1. Members(s) \subseteq S
    BY DEF Members
  <1>2. Len(s) \in Nat /\ s = [i \in 1..Len(s) |-> s[i]] /\ \A i \in 1..Len(s) : s[i] \in Members(s)
    BY DEF Members
  <1>3. s \in Seq(Members(s))
    BY <1>2
  <1> QED BY <1>1, <1>3 DEF IsList

(* What is used of a list.                                                 *)
LEMMA ListFacts ==
  ASSUME NEW s, IsList(s)
  PROVE  /\ Len(s) \in Nat /\ DOMAIN s = 1..Len(s) /\ s = [i \in DOMAIN s |-> s[i]]
         /\ \A i \in DOMAIN s : s[i] \in Members(s)
         /\ \A x \in Members(s) : \E i \in DOMAIN s : x = s[i]
  BY DEF IsList, Members

(* A function on 1..n is a list.                                           *)
LEMMA FunctionIsList ==
  ASSUME NEW n \in Nat, NEW s, DOMAIN s = 1..n, s = [i \in DOMAIN s |-> s[i]]
  PROVE  IsList(s) /\ Len(s) = n
  <1>1. \A i \in 1..n : s[i] \in Members(s)
    BY DEF Members
  <1>2. s \in Seq(Members(s)) /\ Len(s) = n
    BY <1>1
  <1> QED BY <1>2 DEF IsList

(* Appending two lists, and one element to a list.                         *)
LEMMA AppendedLists ==
  ASSUME NEW s, IsList(s), NEW t, IsList(t)
  PROVE  IsList(s \o t) /\ Members(s \o t) = Members(s) \cup Members(t)
  <1> DEFINE S == Members(s) \cup Members(t)
  <1>1. s \in Seq(S) /\ t \in Seq(S)
    <2>1. s \in Seq(Members(s)) /\ t \in Seq(Members(t)) /\ Members(s) \subseteq S /\ Members(t) \subseteq S
      BY DEF IsList
    <2> HIDE DEF S
    <2> QED BY <2>1
  <1> HIDE DEF S
  <1>2. /\ s \o t \in Seq(S) /\ Len(s \o t) = Len(s) + Len(t)
        /\ \A j \in 1..Len(s) : (s \o t)[j] = s[j]
        /\ \A j \in 1..Len(t) : (s \o t)[Len(s) + j] = t[j]
        /\ \A m \in 1..Len(s \o t) : m \in 1..Len(s) \/ \E j \in 1..Len(t) : m = Len(s) + j
    BY <1>1, Appended
  <1>d. DOMAIN s = 1..Len(s) /\ DOMAIN t = 1..Len(t) /\ Len(s) \in Nat /\ Len(t) \in Nat
    BY <1>1
  <1> DEFINE u == s \o t
  <1>e. DOMAIN u = 1..Len(u) /\ Len(u) = Len(s) + Len(t)
    BY <1>2
  <1> HIDE DEF u
  <1>3. ASSUME NEW x \in Members(u) PROVE x \in Members(s) \cup Members(t)
    <2>1. PICK m \in 1..Len(u) : x = u[m]
      BY <1>e, <1>3 DEF Members
    <2>2. CASE m \in 1..Len(s)
      BY <2>1, <2>2, <1>2, <1>d DEF Members, u
    <2>3. CASE \E j \in 1..Len(t) : m = Len(s) + j
      BY <2>1, <2>3, <1>2, <1>d DEF Members, u
    <2> QED BY <2>2, <2>3, <1>2 DEF u
  <1>4. ASSUME NEW x \in Members(s) PROVE x \in Members(u)
    <2>1. PICK j \in 1..Len(s) : x = s[j]
      BY <1>d, <1>4 DEF Members
    <2>2. j \in 1..Len(u) /\ u[j] = x
      BY <2>1, <1>2, <1>d, <1>e DEF u
    <2> QED BY <2>2, <1>e DEF Members
  <1>5. ASSUME NEW x \in Members(t) PROVE x \in Members(u)
    <2>1. PICK j \in 1..Len(t) : x = t[j]
      BY <1>d, <1>5 DEF Members
    <2>2. Len(s) + j \in 1..Len(u)
      BY <2>1, <1>d, <1>e
    <2>3. u[Len(s) + j] = x
      BY <2>1, <1>2 DEF u
    <2> QED BY <2>2, <2>3, <1>e DEF Members
  <1>6. IsList(u)
    BY <1>2, SeqIsList DEF u
  <1> QED BY <1>3, <1>4, <1>5, <1>6 DEF u

(* One element more.                                                       *)
LEMMA AppendedOne ==
  ASSUME NEW s, IsList(s), NEW x
  PROVE  IsList(Append(s, x)) /\ Members(Append(s, x)) = Members(s) \cup {x}
  <1>1. IsList(<<x>>) /\ Members(<<x>>) = {x}
    BY DEF IsList, Members
  <1>2. Append(s, x) = s \o <<x>>
    BY DEF IsList
  <1> QED BY <1>1, <1>2, AppendedLists

(* A flattened list of lists has their members.                            *)
LEMMA FlattenedLists ==
  ASSUME NEW ss, IsList(ss), \A i \in DOMAIN ss : IsList(ss[i])
  PROVE  /\ IsList(FlattenSeq(ss))
         /\ Members(FlattenSeq(ss)) = UNION {Members(ss[i]) : i \in DOMAIN ss}
  <1> DEFINE S == UNION {Members(ss[i]) : i \in DOMAIN ss}
             F == FlattenSeq(ss)
  <1>0. Len(ss) \in Nat /\ DOMAIN ss = 1..Len(ss) /\ ss = [i \in DOMAIN ss |-> ss[i]]
    BY ListFacts
  <1>1. ASSUME NEW i \in DOMAIN ss PROVE ss[i] \in Seq(S)
    <2>1. ss[i] \in Seq(Members(ss[i])) /\ Members(ss[i]) \subseteq S
      BY DEF IsList
    <2> HIDE DEF S
    <2> QED BY <2>1
  <1> HIDE DEF S
  <1>2. ss \in Seq(Seq(S))
    BY <1>0, <1>1
  <1>p. F \in Seq(S) /\ \E st : InPlace(st, ss, F)
    BY <1>2, FlattenPlaces
  <1> HIDE DEF F
  <1>3. PICK st : InPlace(st, ss, F)
    BY <1>p
  <1>4. \A i \in DOMAIN ss : DOMAIN ss[i] = 1..Len(ss[i])
    BY ListFacts
  <1>5. ASSUME NEW i \in DOMAIN ss, NEW x \in Members(ss[i]) PROVE x \in Members(F)
    <2>1. PICK j \in 1..Len(ss[i]) : x = ss[i][j]
      BY <1>4, <1>5 DEF Members
    <2>2. st[i] + j \in DOMAIN F /\ F[st[i] + j] = x
      <3>1. st[i] + j \in 1..Len(F) /\ F[st[i] + j] = ss[i][j]
        BY <2>1, <1>0, <1>3 DEF InPlace
      <3>2. DOMAIN F = 1..Len(F)
        BY <1>p
      <3> QED BY <3>1, <3>2, <2>1
    <2> QED BY <2>2 DEF Members
  <1>6. ASSUME NEW x \in Members(F) PROVE x \in S
    BY <1>p, <1>6, SeqIsList
  <1>7. IsList(F)
    BY <1>p, SeqIsList
  <1> QED BY <1>5, <1>6, <1>7 DEF F, S
-----------------------------------------------------------------------------
(* The declarations of decoded files make a decoded document.              *)
LEMMA MergedDecodes ==
  ASSUME NEW files, IsList(files), \A f \in DOMAIN files : Decodes(files[f])
  PROVE  Decodes(FlattenSeq(files))
  <1>1. \A f \in DOMAIN files : IsList(files[f])
    BY DEF Decodes
  <1>2. /\ IsList(FlattenSeq(files))
        /\ Members(FlattenSeq(files)) = UNION {Members(files[f]) : f \in DOMAIN files}
    BY <1>1, FlattenedLists
  <1> QED BY <1>2 DEF Decodes

(* A list of one element.                                                  *)
LEMMA OneMember == ASSUME NEW s, IsList(s), Len(s) = 1 PROVE Members(s) = {s[1]}
  BY ListFacts DEF Members

(* A list of two elements.                                                 *)
LEMMA TwoMembers == ASSUME NEW s, IsList(s), Len(s) = 2 PROVE Members(s) = {s[1], s[2]}
  BY ListFacts DEF Members

(* The machines that a target takes keep the invariants with the           *)
(* implementation it has for them.                                         *)
LEMMA AtLeastZero ==
  ASSUME NEW machine, IsList(machine.invariants), Len(machine.invariants) = 1, NEW f,
         machine.invariants[1].proposition = AtLeast(StateField(f), Zero),
         NEW n \in Int
  PROVE  KeepsInvariants(machine, n) <=> n >= 0
  <1>1. Members(machine.invariants) = {machine.invariants[1]}
    BY OneMember
  <1>2. Satisfied(AtLeast(StateField(f), Zero), n, n) <=> n >= 0
    BY DEF Satisfied, ValueIn, AtLeast, StateField, Zero
  <1> QED BY <1>1, <1>2 DEF KeepsInvariants

(* An initializer that asks for a nonnegative parameter gets one.          *)
LEMMA StartsNonnegative ==
  ASSUME NEW initializer, NEW p, initializer.requires = <<AtLeast(Parameter(p), Zero)>>,
         NEW n \in Int, Enabled(initializer, n, n)
  PROVE  n >= 0
  <1>1. Members(initializer.requires) = {AtLeast(Parameter(p), Zero)}
    BY DEF Members
  <1>2. Satisfied(AtLeast(Parameter(p), Zero), n, n) <=> n >= 0
    BY DEF Satisfied, ValueIn, AtLeast, Parameter, Zero
  <1> QED BY <1>1, <1>2 DEF Enabled

(* A transition that asks for what is there leaves no less than nothing.   *)
LEMMA TakesWhatIsThere ==
  ASSUME NEW operation, NEW p, NEW f,
         {AtLeast(Parameter(p), Zero), AtLeast(StateField(f), Parameter(p))}
           \subseteq Members(operation.requires),
         NEW field \in Int, NEW amount \in Int, Enabled(operation, field, amount)
  PROVE  field - amount >= 0
  <1>1. Satisfied(AtLeast(StateField(f), Parameter(p)), field, amount) <=> field >= amount
    BY DEF Satisfied, ValueIn, AtLeast, Parameter, StateField
  <1>2. Satisfied(AtLeast(StateField(f), Parameter(p)), field, amount)
    BY DEF Enabled
  <1> QED BY <1>1, <1>2

(* Both together discharge the one invariant.                              *)
LEMMA DischargedBy ==
  ASSUME NEW machine, NEW operation, NEW f, NEW p, NEW q,
         IsList(machine.invariants), Len(machine.invariants) = 1,
         machine.invariants[1].proposition = AtLeast(StateField(f), Zero),
         machine.initializers[1].requires = <<AtLeast(Parameter(q), Zero)>>,
         {AtLeast(Parameter(p), Zero), AtLeast(StateField(f), Parameter(p))}
           \subseteq Members(operation.requires)
  PROVE  Discharged(machine, operation)
  <1>1. \A n \in Int : KeepsInvariants(machine, n) <=> n >= 0
    BY AtLeastZero
  <1>2. \A n \in SmallIntegers : n \in Int
    BY DEF SmallIntegers
  <1>3. ASSUME NEW n \in SmallIntegers, Enabled(machine.initializers[1], n, n)
        PROVE  KeepsInvariants(machine, n)
    <2>1. n >= 0
      BY <1>2, <1>3, StartsNonnegative
    <2> QED BY <2>1, <1>1, <1>2
  <1>4. ASSUME NEW field \in SmallIntegers, NEW amount \in SmallIntegers,
               Enabled(operation, field, amount)
        PROVE  KeepsInvariants(machine, field - amount)
    <2>1. field - amount >= 0 /\ field - amount \in Int
      BY <1>2, <1>4, TakesWhatIsThere
    <2> QED BY <2>1, <1>1
  <1> QED BY <1>3, <1>4 DEF Discharged

(* A realization of a checked document is of a transition of the machine   *)
(* it names.                                                               *)
LEMMA SameId ==
  ASSUME NEW s, UniqueIds(s), NEW x \in Members(s), NEW y \in Members(s), x.id = y.id
  PROVE  x = y
  BY DEF UniqueIds, Members

(* A realization is of a transition.                                       *)
LEMMA RealizesATransition ==
  ASSUME NEW document, ValidateCore(document),
         NEW d \in OfKind(document, "operationRealization"), NEW m \in MachineOf(document, d)
  PROVE  d.operation \in Ids(m.transitions)
  <1>1. UniqueIds(document) /\ ValidDeclaration(d, document)
    BY DEF ValidateCore, OfKind
  <1>2. d.kind = "operationRealization"
    BY DEF OfKind
  <1>3. ValidRealization(d, document)
    BY <1>1, <1>2 DEF ValidDeclaration
  <1>4. PICK n \in OfKind(document, "stateMachine") : n.id = d.machine /\ d.operation \in Ids(n.transitions)
    BY <1>3 DEF ValidRealization
  <1>5. n = m
    BY <1>1, <1>4, SameId DEF MachineOf, OfKind
  <1> QED BY <1>4, <1>5

(* Of a checked document a target takes only what its implementation       *)
(* discharges.                                                             *)
LEMMA DecodedDischarges ==
  ASSUME NEW document, Decodes(document), ValidateCore(document)
  PROVE  ObligationsMet(document)
  <1> SUFFICES ASSUME NEW d \in OfKind(document, "operationRealization")
               PROVE  /\ ImplementedBy(document, d) # {} =>
                           \E m \in MachineOf(document, d) : \E o \in OperationOf(m, d) : Discharged(m, o)
                      /\ ImplementedBy(document, d) \cap {"effect", "gleam"} # {} =>
                           ~EffectEntity(document, d) /\ ~GleamEntity(document, d)
    BY DEF ObligationsMet
  <1>1. IsList(d.requires)
    BY DEF Decodes, DecodesDeclaration, OfKind
  <1>2. ASSUME NEW m \in MachineOf(document, d)
        PROVE  /\ IsList(m.invariants)
               /\ \A o \in OperationOf(m, d) : IsList(o.requires)
               /\ IsList(m.transitions)
    <2>1. m \in Members(document) /\ m.kind = "stateMachine"
      BY <1>2 DEF MachineOf, OfKind
    <2>2. DecodesDeclaration(m)
      BY <2>1 DEF Decodes
    <2>3. /\ IsList(m.invariants)
          /\ \A operations \in {m.initializers, m.transitions} :
               /\ DecodesOperations(operations)
               /\ \A o \in Members(operations) : IsList(o.requires)
      BY <2>1, <2>2 DEF DecodesDeclaration
    <2> QED BY <2>3 DEF OperationOf, DecodesOperations
  <1>3. ASSUME EffectSingleUse(document, d)
        PROVE  \E m \in MachineOf(document, d) : \E o \in OperationOf(m, d) : Discharged(m, o)
    <2>0. PICK m \in MachineOf(document, d) : \E o \in OperationOf(m, d) : Spendable(m, o)
      BY <1>3 DEF EffectSingleUse
    <2>1. PICK o \in OperationOf(m, d) : Spendable(m, o)
      BY <2>0
    <2>2. /\ Len(m.invariants) = 1
          /\ m.invariants[1].proposition = AtLeast(StateField(m.fields[1]), Zero)
      BY <2>1 DEF Spendable
    <2>3. m.initializers[1].requires = <<AtLeast(Parameter(m.initializers[1].parameters[1]), Zero)>>
      BY <2>1 DEF Spendable, SpendableFrom
    <2>4. {AtLeast(Parameter(o.parameters[1]), Zero),
           AtLeast(StateField(m.fields[1]), Parameter(o.parameters[1]))} \subseteq Members(o.requires)
      BY <2>1 DEF Spendable, SpendableBy
    <2>5. Discharged(m, o)
      BY <2>2, <2>3, <2>4, <1>2, DischargedBy
    <2> QED BY <2>5
  <1>4. ASSUME GleamExactOne(document, d)
        PROVE  \E m \in MachineOf(document, d) : \E o \in OperationOf(m, d) : Discharged(m, o)
    <2>0. PICK m \in MachineOf(document, d) : \E o \in OperationOf(m, d) :
            GleamMachine(m) /\ GleamTransition(m, o)
      BY <1>4 DEF GleamExactOne
    <2>1. PICK o \in OperationOf(m, d) : GleamMachine(m) /\ GleamTransition(m, o)
      BY <2>0
    <2>2. /\ Len(m.invariants) = 1
          /\ m.invariants[1].proposition = AtLeast(StateField(m.fields[1]), Zero)
      BY <2>1 DEF GleamTransition
    <2>3. m.initializers[1].requires = <<AtLeast(Parameter(m.initializers[1].parameters[1]), Zero)>>
      <3>1. /\ Len(m.initializers) = 1 /\ Len(m.initializers[1].requires) = 1
            /\ m.initializers[1].requires[1] = AtLeast(Parameter(m.initializers[1].parameters[1]), Zero)
        BY <2>1 DEF GleamMachine
      <3>2. IsList(m.initializers) /\ IsList(m.initializers[1].requires)
        <4>1. m \in Members(document) /\ m.kind = "stateMachine"
          BY <2>1 DEF MachineOf, OfKind
        <4>2. DecodesDeclaration(m)
          BY <4>1 DEF Decodes
        <4>3. /\ DecodesOperations(m.initializers)
              /\ \A o1 \in Members(m.initializers) : IsList(o1.requires)
          BY <4>1, <4>2 DEF DecodesDeclaration
        <4>4. IsList(m.initializers) /\ m.initializers[1] \in Members(m.initializers)
          BY <4>3, <3>1, OneMember DEF DecodesOperations
        <4> QED BY <4>3, <4>4
      <3> QED BY <3>1, <3>2 DEF IsList
    <2>4. {AtLeast(Parameter(o.parameters[1]), Zero),
           AtLeast(StateField(m.fields[1]), Parameter(o.parameters[1]))} \subseteq Members(o.requires)
      BY <2>1 DEF GleamTransition
    <2>5. Discharged(m, o)
      BY <2>2, <2>3, <2>4, <1>2, DischargedBy
    <2> QED BY <2>5
  <1>5. ASSUME GleamEntity(document, d)
        PROVE  \E m \in MachineOf(document, d) : \E o \in OperationOf(m, d) : Discharged(m, o)
    <2>1. PICK m \in MachineOf(document, d) : AccountMachine(m) /\ AccountTransition(m)
      BY <1>5 DEF GleamEntity
    <2> DEFINE o == m.transitions[1]
    <2>d. IsList(m.transitions) /\ IsList(o.requires) /\ IsList(m.initializers)
      <3>1. m \in Members(document) /\ m.kind = "stateMachine"
        BY <2>1 DEF MachineOf, OfKind
      <3>2. DecodesDeclaration(m)
        BY <3>1 DEF Decodes
      <3>3. /\ DecodesOperations(m.initializers) /\ DecodesOperations(m.transitions)
            /\ \A o1 \in Members(m.transitions) : IsList(o1.requires)
        BY <3>1, <3>2 DEF DecodesDeclaration
      <3>4. IsList(m.transitions) /\ o \in Members(m.transitions)
        BY <3>3, <2>1, OneMember DEF DecodesOperations, AccountTransition
      <3> QED BY <3>3, <3>4 DEF DecodesOperations
    <2>2. o \in OperationOf(m, d)
      <3>1. Members(m.transitions) = {o}
        BY <2>d, <2>1, OneMember DEF AccountTransition
      <3>2. d.operation \in Ids(m.transitions)
        BY RealizesATransition
      <3>3. \A i \in DOMAIN m.transitions : m.transitions[i] \in Members(m.transitions)
        BY DEF Members
      <3> QED BY <3>1, <3>2, <3>3 DEF OperationOf, Ids
    <2> DEFINE f == [id |-> "balance", type |-> "Integer"]
               p == [id |-> "amount", type |-> "Integer"]
               q == [id |-> "initialBalance", type |-> "Integer"]
    <2>3. /\ m.invariants = <<[id |-> "nonnegativeBalance",
                               proposition |-> AtLeast([kind |-> "stateField", id |-> "balance"], Zero)]>>
          /\ {AtLeast([kind |-> "parameter", id |-> "amount"], Zero),
              AtLeast([kind |-> "stateField", id |-> "balance"],
                      [kind |-> "parameter", id |-> "amount"])} \subseteq Members(o.requires)
      BY <2>1 DEF AccountTransition
    <2>4. m.initializers[1].requires = <<AtLeast([kind |-> "parameter", id |-> "initialBalance"], Zero)>>
      BY <2>1 DEF AccountMachine
    <2>5. /\ StateField(f) = [kind |-> "stateField", id |-> "balance"]
          /\ Parameter(p) = [kind |-> "parameter", id |-> "amount"]
          /\ Parameter(q) = [kind |-> "parameter", id |-> "initialBalance"]
      BY DEF StateField, Parameter
    <2>6. Len(m.invariants) = 1 /\ m.invariants[1].proposition = AtLeast(StateField(f), Zero)
      BY <2>3, <2>5
    <2> HIDE DEF f, p, q, o
    <2>7. {AtLeast(Parameter(p), Zero), AtLeast(StateField(f), Parameter(p))} \subseteq Members(o.requires)
      BY <2>3, <2>5
    <2>8. m.initializers[1].requires = <<AtLeast(Parameter(q), Zero)>>
      BY <2>4, <2>5
    <2>9. Discharged(m, o)
      BY <2>6, <2>7, <2>8, <1>2, DischargedBy
    <2> QED BY <2>2, <2>9
  <1>6. ASSUME RequiresOneUse(d)
        PROVE  ~EffectEntity(document, d) /\ ~GleamEntity(document, d)
    <2>1. d.requires[1].quantity = 1 /\ d.requires[1] \in Members(d.requires)
      BY <1>1, <1>6, OneMember DEF RequiresOneUse
    <2>2. ~EffectRealization(document, d)
      BY <2>1 DEF EffectRealization, Unbounded
    <2>3. d.requires # <<[capability |-> "DebitAccount", quantity |-> Unbounded]>>
      BY <2>1 DEF Unbounded
    <2> QED BY <2>2, <2>3 DEF EffectEntity, GleamEntity
  <1>7. RequiresOneUse(d) \/ (~EffectSingleUse(document, d) /\ ~GleamExactOne(document, d))
    BY DEF EffectSingleUse, GleamExactOne
  <1> QED BY <1>3, <1>4, <1>5, <1>6, <1>7 DEF ImplementedBy
-----------------------------------------------------------------------------
(* What a project compilation knows of the files it read: each decodes, and *)
(* once there is an answer of the theory all are read and were accepted.    *)
TheoryAnswered == theory # NotRead \/ projectStage \in {"theory", "artifact"}

DischargeInv ==
  /\ IsList(filesRead) /\ \A f \in DOMAIN filesRead : Decodes(filesRead[f])
  /\ TheoryAnswered => AllRead /\ ValidateCore(Document)

(* Only a document that validation accepts gets as far as the theory.      *)
LEMMA CompiledIsValid ==
  ASSUME NEW document, NEW sourceOf, NEW s,
         LET c == Compiled(document, sourceOf, s)
         IN c.theory # NotRead \/ c.stage \in {"theory", "artifact"}
  PROVE  ValidateCore(document)
  <1>1. SUFFICES ASSUME ~ValidateCore(document) PROVE FALSE
    OBVIOUS
  <1>2. Compiled(document, sourceOf, s) = [stage |-> "core-validation", theory |-> NotRead]
    BY <1>1 DEF Compiled
  <1> QED BY <1>2

(* Reading a file: it decodes, and there was no answer yet.                *)
LEMMA LoadDischarges ==
  ASSUME DischargeInv, LoadProjectSource
  PROVE  DischargeInv'
  <1>1. ~AllRead
    BY DEF LoadProjectSource, AllRead, DischargeInv
  <1>2. ~TheoryAnswered /\ UNCHANGED theory
    BY <1>1 DEF DischargeInv, LoadProjectSource
  <1> DEFINE file == projectFiles[project.sources[Len(filesRead) + 1].path]
  <1>3. CASE file = Garbled \/ ~Decodes(file)
    <2>1. projectStage' = "source-decode" /\ UNCHANGED filesRead
      BY <1>3 DEF LoadProjectSource, Fails
    <2> QED BY <2>1, <1>2 DEF DischargeInv, TheoryAnswered
  <1>4. CASE ~(file = Garbled \/ ~Decodes(file))
    <2>1. filesRead' = Append(filesRead, file) /\ UNCHANGED projectStage
      BY <1>4 DEF LoadProjectSource
    <2>2. Decodes(file)
      BY <1>4
    <2> HIDE DEF file
    <2>3. IsList(filesRead') /\ Members(filesRead') = Members(filesRead) \cup {file}
      BY <2>1, AppendedOne DEF DischargeInv
    <2>4. \A x \in Members(filesRead') : Decodes(x)
      BY <2>2, <2>3 DEF DischargeInv, Members
    <2>5. \A f \in DOMAIN filesRead' : Decodes(filesRead'[f])
      BY <2>4 DEF Members
    <2> QED BY <2>1, <2>3, <2>5, <1>2 DEF DischargeInv, TheoryAnswered
  <1> QED BY <1>3, <1>4

(* The artifact is compiled from what was read.                            *)
LEMMA CompileDischarges ==
  ASSUME DischargeInv, CompileArtifact
  PROVE  DischargeInv'
  <1>1. AllRead /\ UNCHANGED <<project, filesRead>>
    BY DEF CompileArtifact
  <1>2. /\ projectStage' = Compiled(Document, SourceOf, project).stage
        /\ theory' = Compiled(Document, SourceOf, project).theory
    BY DEF CompileArtifact
  <1>3. TheoryAnswered' => ValidateCore(Document)
    BY <1>2, CompiledIsValid DEF TheoryAnswered
  <1>4. AllRead' /\ Document' = Document
    BY <1>1 DEF AllRead, Document
  <1>5. ValidateCore(Document)' <=> ValidateCore(Document)
    BY <1>4
  <1> QED BY <1>1, <1>3, <1>4, <1>5 DEF DischargeInv

(* No other step reads a file or asks the theory.                          *)
LEMMA OthersDischarge ==
  ASSUME DischargeInv, [ProjectNext]_projecting, ~LoadProjectSource, ~CompileArtifact
  PROVE  DischargeInv'
  <1>1. UNCHANGED <<filesRead, theory>>
    BY DEF ProjectNext, projecting, compilation, ReadSelection, ReadManifest, VerifyMaterial,
           ClassifyTargets, Report, EditProject
  <1>2. projectStage' \in {"theory", "artifact"} => projectStage' = projectStage
    BY DEF ProjectNext, projecting, ReadSelection, ReadManifest, VerifyMaterial,
           ClassifyTargets, ClassifiedAs, Report, EditProject, Fails
  <1>3. UNCHANGED project \/ project = NotRead
    BY DEF ProjectNext, projecting, compilation, ReadSelection, ReadManifest, VerifyMaterial,
           ClassifyTargets, Report, EditProject
  <1>4. TheoryAnswered' => TheoryAnswered
    BY <1>1, <1>2 DEF TheoryAnswered
  <1>5. TheoryAnswered => project # NotRead
    BY DEF DischargeInv, AllRead
  <1>6. TheoryAnswered => AllRead' /\ Document' = Document
    BY <1>1, <1>3, <1>5 DEF DischargeInv, AllRead, Document
  <1> QED BY <1>1, <1>4, <1>6 DEF DischargeInv

(* It holds of every compilation.                                          *)
LEMMA ProjectDischarges == ProjectSpec => []DischargeInv
  <1>1. ProjectInit => DischargeInv
    <2> SUFFICES ASSUME ProjectInit PROVE DischargeInv
      OBVIOUS
    <2>1. filesRead = <<>> /\ ~TheoryAnswered
      BY DEF ProjectInit, TheoryAnswered
    <2> QED BY <2>1 DEF DischargeInv, IsList
  <1>2. DischargeInv /\ [ProjectNext]_projecting => DischargeInv'
    BY LoadDischarges, CompileDischarges, OthersDischarge
  <1> QED BY <1>1, <1>2, PTL DEF ProjectSpec

(* Whatever a repository holds, however it is edited, and whoever compiles *)
(* it: a machine that a target implements has its obligations met by that  *)
(* implementation, and no realization is taken both as of one use and as   *)
(* of any number (the Effect and Gleam recognizers, validateCore).         *)
THEOREM ProjectionsDischargeObligationsAlways ==
  ProjectSpec => []ProjectionsDischargeObligations
  <1>1. DischargeInv => ProjectionsDischargeObligations
    <2> SUFFICES ASSUME DischargeInv, TheoryAnswered PROVE ObligationsMet(Document)
      BY DEF ProjectionsDischargeObligations, TheoryAnswered
    <2>1. Decodes(Document)
      BY MergedDecodes DEF DischargeInv, Document
    <2> QED BY <2>1, DecodedDischarges DEF DischargeInv
  <1> QED BY <1>1, ProjectDischarges, PTL
-----------------------------------------------------------------------------
(* A list of drafts is sound when no address is there twice and every      *)
(* dependency is on one of R.                                              *)
Apart(s) == \A i, j \in DOMAIN s : s[i].address = s[j].address => i = j
Grounded(s, R) == \A x \in Members(s) : \A dep \in x.deps : dep.target \in R
Sound(s, R) == IsList(s) /\ Apart(s) /\ Grounded(s, R)

(* Where the addresses of a list of drafts are: of declaration k, id; with  *)
(* tags; under one name.                                                   *)
OfRoot(s, k, id) ==
  \A x \in Members(s) : /\ x.address[1] = k /\ x.address[2] = id
                        /\ Len(x.address) \in {2, 4, 6}
Tagged(s, k, id, tags) ==
  \A x \in Members(s) : /\ x.address[1] = k /\ x.address[2] = id /\ x.address[3] \in tags
                        /\ Len(x.address) \in {4, 6}
Under(s, k, id, tag, name) ==
  \A x \in Members(s) : /\ x.address[1] = k /\ x.address[2] = id /\ x.address[3] = tag
                        /\ x.address[4] = name /\ Len(x.address) \in {4, 6}

(* Four and two.                                                           *)
LEMMA FourAndTwo ==
  ASSUME NEW S, NEW s \in Seq(S), NEW u \in Seq(S)
  PROVE  Len(s) = 4 /\ Len(u) = 2 =>
           /\ s \o u \in Seq(S) /\ Len(s \o u) = 6
           /\ \A j \in 1..4 : (s \o u)[j] = s[j]
           /\ \A j \in 1..2 : (s \o u)[4 + j] = u[j]
  <1> DEFINE w == s \o u
  <1>1. /\ w \in Seq(S) /\ Len(w) = Len(s) + Len(u)
        /\ \A j \in 1..Len(s) : w[j] = s[j]
        /\ \A j \in 1..Len(u) : w[Len(s) + j] = u[j]
    BY Appended
  <1> HIDE DEF w
  <1> SUFFICES ASSUME Len(s) = 4, Len(u) = 2
               PROVE  /\ w \in Seq(S) /\ Len(w) = 6
                      /\ \A j \in 1..4 : w[j] = s[j]
                      /\ \A j \in 1..2 : w[4 + j] = u[j]
    BY DEF w
  <1>2. \A j \in 1..2 : w[4 + j] = u[j]
    BY <1>1
  <1>3. \A j \in 1..4 : w[j] = s[j]
    BY <1>1
  <1> QED BY <1>1, <1>2, <1>3

(* The address of a part of a part.                                        *)
LEMMA SubIs ==
  ASSUME NEW a, NEW b, NEW c, NEW e, NEW t, NEW n
  PROVE  Sub(<<a, b, c, e>>, t, n) = <<a, b, c, e, t, n>>
  <1> DEFINE S == {a, b, c, e, t, n}
             s == <<a, b, c, e>>
             u == <<t, n>>
  <1>1. s \in Seq(S) /\ u \in Seq(S) /\ Len(s) = 4 /\ Len(u) = 2
    OBVIOUS
  <1>2. /\ s \o u \in Seq(S) /\ Len(s \o u) = 6
        /\ \A j \in 1..4 : (s \o u)[j] = s[j]
        /\ \A j \in 1..2 : (s \o u)[4 + j] = u[j]
    <2> HIDE DEF s, u, S
    <2> QED BY <1>1, FourAndTwo
  <1>3. /\ (s \o u)[1] = a /\ (s \o u)[2] = b /\ (s \o u)[3] = c /\ (s \o u)[4] = e
        /\ (s \o u)[5] = t /\ (s \o u)[6] = n
    BY <1>2
  <1>4. s \o u = <<a, b, c, e, t, n>>
    <2> DEFINE w == s \o u
    <2>1. w \in Seq(S) /\ Len(w) = 6 /\ w[1] = a /\ w[2] = b /\ w[3] = c /\ w[4] = e /\ w[5] = t /\ w[6] = n
      BY <1>2, <1>3
    <2> HIDE DEF w
    <2> DEFINE v == <<a, b, c, e, t, n>>
    <2>2. v \in Seq(S) /\ Len(v) = 6 /\ v[1] = a /\ v[2] = b /\ v[3] = c /\ v[4] = e /\ v[5] = t /\ v[6] = n
      OBVIOUS
    <2> HIDE DEF v
    <2>3. \A i \in 1..6 : w[i] = v[i]
      <3>1. 1..6 = {1, 2, 3, 4, 5, 6}
        OBVIOUS
      <3> QED BY <2>1, <2>2, <3>1
    <2>4. w = [i \in 1..6 |-> w[i]] /\ v = [i \in 1..6 |-> v[i]]
      BY <2>1, <2>2
    <2>5. w = v
      BY <2>3, <2>4
    <2> QED BY <2>5 DEF w, v
  <1> QED BY <1>4 DEF Sub

(* A single draft, at an address.                                          *)
DraftedAt(s, a, R) ==
  /\ Sound(s, R) /\ \A x \in Members(s) : x.address = a
  /\ \E x \in Members(s) : x.address = a

(* One draft is at its address.                                            *)
LEMMA DraftIsAt ==
  ASSUME NEW a, NEW k, NEW said, NEW d, NEW deps, NEW R, \A dep \in deps : dep.target \in R
  PROVE  DraftedAt(Draft(a, k, said, d, deps), a, R)
  <1> DEFINE x == [address |-> a, kind |-> k, semantic |-> said, declaration |-> d.id, deps |-> deps]
  <1>0. x.deps = deps /\ x.address = a
    OBVIOUS
  <1> HIDE DEF x
  <1>1. Draft(a, k, said, d, deps) = <<x>>
    BY DEF Draft, x
  <1>2. IsList(<<x>>) /\ Members(<<x>>) = {x} /\ DOMAIN <<x>> = {1}
    BY DEF IsList, Members
  <1>3. Sound(<<x>>, R)
    BY <1>0, <1>2 DEF Sound, Apart, Grounded
  <1> QED BY <1>0, <1>1, <1>2, <1>3 DEF DraftedAt

(* Two lists with no address in common.                                    *)
LEMMA JoinSound ==
  ASSUME NEW R, NEW s, Sound(s, R), NEW t, Sound(t, R),
         \A x \in Members(s), y \in Members(t) : x.address # y.address
  PROVE  Sound(s \o t, R) /\ Members(s \o t) = Members(s) \cup Members(t)
  <1> DEFINE u == s \o t
  <1>1. IsList(u) /\ Members(u) = Members(s) \cup Members(t)
    BY AppendedLists DEF Sound
  <1>2. /\ Len(u) = Len(s) + Len(t) /\ Len(s) \in Nat /\ Len(t) \in Nat
        /\ \A j \in 1..Len(s) : u[j] = s[j]
        /\ \A j \in 1..Len(t) : u[Len(s) + j] = t[j]
        /\ \A m \in 1..Len(u) : m \in 1..Len(s) \/ \E j \in 1..Len(t) : m = Len(s) + j
    <2> DEFINE S == Members(s) \cup Members(t)
    <2>1. s \in Seq(S) /\ t \in Seq(S)
      <3>1. s \in Seq(Members(s)) /\ t \in Seq(Members(t)) /\ Members(s) \subseteq S /\ Members(t) \subseteq S
        BY DEF Sound, IsList
      <3> HIDE DEF S
      <3> QED BY <3>1
    <2> HIDE DEF S
    <2> QED BY <2>1, Appended
  <1>3. DOMAIN u = 1..Len(u) /\ DOMAIN s = 1..Len(s) /\ DOMAIN t = 1..Len(t)
    BY <1>1, ListFacts DEF Sound
  <1>m. (\A i \in DOMAIN s : s[i] \in Members(s)) /\ (\A i \in DOMAIN t : t[i] \in Members(t))
    BY DEF Members
  <1> HIDE DEF u
  <1>4. ASSUME NEW i \in DOMAIN u, NEW j \in DOMAIN u, u[i].address = u[j].address PROVE i = j
    <2>1. CASE i \in 1..Len(s) /\ j \in 1..Len(s)
      BY <2>1, <1>2, <1>3, <1>4 DEF Sound, Apart
    <2>2. CASE i \in 1..Len(s) /\ j \notin 1..Len(s)
      <3>1. PICK n \in 1..Len(t) : j = Len(s) + n
        BY <2>2, <1>2, <1>3
      <3>2. u[i] \in Members(s) /\ u[j] \in Members(t)
        BY <2>2, <3>1, <1>2, <1>3, <1>m
      <3> QED BY <3>2, <1>4
    <2>3. CASE i \notin 1..Len(s) /\ j \in 1..Len(s)
      <3>1. PICK n \in 1..Len(t) : i = Len(s) + n
        BY <2>3, <1>2, <1>3
      <3>2. u[j] \in Members(s) /\ u[i] \in Members(t)
        BY <2>3, <3>1, <1>2, <1>3, <1>m
      <3> QED BY <3>2, <1>4
    <2>4. CASE i \notin 1..Len(s) /\ j \notin 1..Len(s)
      <3>1. PICK n \in 1..Len(t) : i = Len(s) + n
        BY <2>4, <1>2, <1>3
      <3>2. PICK m \in 1..Len(t) : j = Len(s) + m
        BY <2>4, <1>2, <1>3
      <3>3. t[n].address = t[m].address
        BY <3>1, <3>2, <1>2, <1>4
      <3>4. n = m
        BY <3>3, <1>3 DEF Sound, Apart
      <3> QED BY <3>1, <3>2, <3>4
    <2> QED BY <2>1, <2>2, <2>3, <2>4
  <1>5. Grounded(u, R)
    BY <1>1 DEF Sound, Grounded
  <1> QED BY <1>1, <1>4, <1>5 DEF Sound, Apart, u

(* A list of lists with no address in common.                              *)
LEMMA FlattenSound ==
  ASSUME NEW R, NEW ss, IsList(ss), \A i \in DOMAIN ss : Sound(ss[i], R),
         \A i, j \in DOMAIN ss : i # j =>
           \A x \in Members(ss[i]), y \in Members(ss[j]) : x.address # y.address
  PROVE  /\ Sound(FlattenSeq(ss), R)
         /\ Members(FlattenSeq(ss)) = UNION {Members(ss[i]) : i \in DOMAIN ss}
  <1> DEFINE S == UNION {Members(ss[i]) : i \in DOMAIN ss}
             F == FlattenSeq(ss)
  <1>0. \A i \in DOMAIN ss : IsList(ss[i])
    BY DEF Sound
  <1>1. IsList(F) /\ Members(F) = S
    BY <1>0, FlattenedLists
  <1>2. F \in Seq(S) /\ \E st : InPlace(st, ss, F)
    <2>1. ASSUME NEW i \in DOMAIN ss PROVE ss[i] \in Seq(S)
      <3>1. ss[i] \in Seq(Members(ss[i])) /\ Members(ss[i]) \subseteq S
        BY <1>0 DEF IsList
      <3> HIDE DEF S
      <3> QED BY <3>1
    <2> HIDE DEF S
    <2>2. Len(ss) \in Nat /\ DOMAIN ss = 1..Len(ss) /\ ss = [i \in DOMAIN ss |-> ss[i]]
      BY ListFacts
    <2>3. ss \in Seq(Seq(S))
      BY <2>1, <2>2
    <2> QED BY <2>3, FlattenPlaces
  <1> HIDE DEF F, S
  <1>3. PICK st : InPlace(st, ss, F)
    BY <1>2
  <1>4. DOMAIN ss = 1..Len(ss) /\ DOMAIN F = 1..Len(F)
    BY <1>1, ListFacts
  <1>5. \A i \in DOMAIN ss : DOMAIN ss[i] = 1..Len(ss[i])
    BY <1>0, ListFacts
  <1>6. ASSUME NEW m \in DOMAIN F, NEW n \in DOMAIN F, F[m].address = F[n].address PROVE m = n
    <2>0. \A k \in DOMAIN F : \E i \in DOMAIN ss : \E j \in DOMAIN ss[i] :
            k = st[i] + j /\ F[k] = ss[i][j]
      <3> TAKE k \in DOMAIN F
      <3>1. PICK i \in 1..Len(ss) : \E j \in 1..Len(ss[i]) : k = st[i] + j
        BY <1>3, <1>4 DEF InPlace
      <3>2. PICK j \in 1..Len(ss[i]) : k = st[i] + j
        BY <3>1
      <3>3. F[st[i] + j] = ss[i][j]
        BY <1>3 DEF InPlace
      <3> QED BY <3>2, <3>3, <1>4, <1>5
    <2>a. PICK i \in DOMAIN ss : \E j \in DOMAIN ss[i] : m = st[i] + j /\ F[m] = ss[i][j]
      BY <2>0
    <2>1. PICK j \in DOMAIN ss[i] : m = st[i] + j /\ F[m] = ss[i][j]
      BY <2>a
    <2>b. PICK i2 \in DOMAIN ss : \E j2 \in DOMAIN ss[i2] : n = st[i2] + j2 /\ F[n] = ss[i2][j2]
      BY <2>0
    <2>2. PICK j2 \in DOMAIN ss[i2] : n = st[i2] + j2 /\ F[n] = ss[i2][j2]
      BY <2>b
    <2>3. ss[i][j] \in Members(ss[i]) /\ ss[i2][j2] \in Members(ss[i2])
      BY DEF Members
    <2>4. i = i2
      BY <2>1, <2>2, <2>3, <1>6
    <2>5. j = j2
      BY <2>1, <2>2, <2>4, <1>6 DEF Sound, Apart
    <2> QED BY <2>1, <2>2, <2>4, <2>5
  <1>7. Grounded(F, R)
    BY <1>1 DEF Grounded, Sound, S
  <1> QED BY <1>1, <1>6, <1>7 DEF Sound, Apart, F, S
-----------------------------------------------------------------------------
(* A part and its parts, in either order.                                  *)
LEMMA HeadSound ==
  ASSUME NEW R, NEW k, NEW id, NEW tag, NEW name,
         NEW h, Sound(h, R), \A x \in Members(h) : x.address = <<k, id, tag, name>>,
         NEW s, Sound(s, R), Under(s, k, id, tag, name), \A x \in Members(s) : Len(x.address) = 6
  PROVE  /\ Sound(h \o s, R) /\ Sound(s \o h, R)
         /\ Members(h \o s) = Members(h) \cup Members(s)
         /\ Members(s \o h) = Members(h) \cup Members(s)
         /\ Under(h \o s, k, id, tag, name) /\ Under(s \o h, k, id, tag, name)
  <1>1. \A x \in Members(h) : /\ x.address[1] = k /\ x.address[2] = id /\ x.address[3] = tag
                              /\ x.address[4] = name /\ Len(x.address) = 4
    OBVIOUS
  <1>2. \A x \in Members(h), y \in Members(s) : x.address # y.address /\ y.address # x.address
    BY <1>1
  <1>3. /\ Sound(h \o s, R) /\ Members(h \o s) = Members(h) \cup Members(s)
        /\ Sound(s \o h, R) /\ Members(s \o h) = Members(s) \cup Members(h)
    BY <1>2, JoinSound
  <1>4. Under(h, k, id, tag, name)
    BY <1>1 DEF Under
  <1> QED BY <1>3, <1>4 DEF Under

(* A list with parts of some tags.                                         *)
Parts(s, k, id, T, R) == Sound(s, R) /\ Tagged(s, k, id, T)

(* Two lists with parts of different tags.                                 *)
Differ(s, t, k, id, T, U, W, R) ==
  Parts(s, k, id, T, R) /\ Parts(t, k, id, U, R) /\ T \cap U = {} /\ W = T \cup U

(* Parts of different tags.                                                *)
LEMMA TagsSound ==
  ASSUME NEW R, NEW k, NEW id, NEW T, NEW U, NEW W, NEW s, NEW t,
         Differ(s, t, k, id, T, U, W, R)
  PROVE  Parts(s \o t, k, id, W, R) /\ Members(s \o t) = Members(s) \cup Members(t)
  <1>1. \A x \in Members(s), y \in Members(t) : x.address # y.address
    BY DEF Tagged, Parts, Differ
  <1>2. Sound(s \o t, R) /\ Members(s \o t) = Members(s) \cup Members(t)
    BY <1>1, JoinSound DEF Parts, Differ
  <1> QED BY <1>2 DEF Tagged, Parts, Differ

(* The parts of a declaration and the declaration.                         *)
LEMMA RootSound ==
  ASSUME NEW R, NEW k, NEW id, NEW T, NEW s, Parts(s, k, id, T, R),
         NEW r, Sound(r, R), \A x \in Members(r) : x.address = <<k, id>>
  PROVE  /\ Sound(s \o r, R) /\ Members(s \o r) = Members(s) \cup Members(r)
         /\ OfRoot(s \o r, k, id)
  <1>1. \A x \in Members(r) : x.address[1] = k /\ x.address[2] = id /\ Len(x.address) = 2
    OBVIOUS
  <1>2. \A x \in Members(s), y \in Members(r) : x.address # y.address
    BY <1>1 DEF Tagged, Parts
  <1>3. Sound(s \o r, R) /\ Members(s \o r) = Members(s) \cup Members(r)
    BY <1>2, JoinSound DEF Parts
  <1> QED BY <1>1, <1>3 DEF Tagged, Parts, OfRoot

-----------------------------------------------------------------------------
(* What a document's declarations and their parts may depend on.           *)
PartsNamed(x) ==
  CASE x.kind = "theory" -> {Part(x, "sort", s) : s \in Ids(x.sorts)}
                            \cup {Part(x, "operation", o) : o \in Ids(x.operations)}
    [] x.kind = "theoryBridge" -> {Part(x, "sharedSort", s) : s \in Ids(x.sharedSorts)}
    [] x.kind = "stateMachine" ->
         {Sub(Part(x, "state", x.state), "field", f) : f \in Ids(x.fields)}
         \cup {Part(x, Relation(x, o), o.id) : o \in Members(Operations(x))}
         \cup {Part(x, "invariant", i) : i \in Ids(x.invariants)}
    [] x.kind = "operationRealization" ->
         {Part(x, "operation", "operation"), Part(x, "disabled", x.disabled)}
         \cup {Part(x, "requirement", r.capability) : r \in Members(x.requires)}
    [] OTHER -> {}

References(document) ==
  {Root(x) : x \in Members(document)} \cup UNION {PartsNamed(x) : x \in Members(document)}

(* The drafts of a declaration: sound, of this declaration, and there for  *)
(* whoever depends on it.                                                  *)
DraftedFor(s, d, document) ==
  /\ Sound(s, References(document)) /\ OfRoot(s, d.kind, d.id)
  /\ {Root(d)} \cup PartsNamed(d) \subseteq {x.address : x \in Members(s)}

(* The types that validation knows are there.                              *)
LEMMA TypesKnown ==
  ASSUME NEW document, NEW id \in KnownTypes(document) \cup {x.id : x \in OfKind(document, "data")}
  PROVE  \A dep \in TypeDependency(id, document) : dep.target \in References(document)
  <1>1. CASE id \in BuiltInTypes
    BY <1>1 DEF TypeDependency
  <1>2. CASE id \notin BuiltInTypes /\ \E x \in OfKind(document, "data") : x.id = id
    <2>1. TypeDependency(id, document) = {[type |-> "data-reference", target |-> <<"data", id>>]}
      BY <1>2 DEF TypeDependency, Dep
    <2>2. <<"data", id>> \in References(document)
      BY <1>2 DEF References, Root, OfKind
    <2> QED BY <2>1, <2>2
  <1>3. CASE id \notin BuiltInTypes /\ ~\E x \in OfKind(document, "data") : x.id = id
    <2>0. \E x \in OfKind(document, "refinement") : x.id = id
      BY <1>3 DEF KnownTypes
    <2>1. TypeDependency(id, document) = {[type |-> "type-reference", target |-> <<"refinement", id>>]}
      BY <1>3, <2>0 DEF TypeDependency, Dep
    <2>2. <<"refinement", id>> \in References(document)
      BY <2>0 DEF References, Root, OfKind
    <2> QED BY <2>1, <2>2
  <1> QED BY <1>1, <1>2, <1>3
-----------------------------------------------------------------------------
(* The list of what is made of each element of a list.                     *)
LEMMA MadeOfEach ==
  ASSUME NEW s, IsList(s), NEW ss, DOMAIN ss = DOMAIN s, ss = [i \in DOMAIN ss |-> ss[i]]
  PROVE  IsList(ss)
  BY ListFacts, FunctionIsList

(* Lists of one draft each, for the elements of s, under one part.         *)
Leaves(ss, s, k, id, tag, name, u, v, R) ==
  /\ IsList(s) /\ DOMAIN ss = DOMAIN s /\ ss = [i \in DOMAIN ss |-> ss[i]]
  /\ \A i \in DOMAIN s : DraftedAt(ss[i], Sub(<<k, id, tag, name>>, u[i], v[i]), R)
  /\ \A i, j \in DOMAIN s : u[i] = u[j] /\ v[i] = v[j] => i = j

(* Drafts under one part, one for each element of a list.                  *)
LEMMA LeavesAt ==
  ASSUME NEW R, NEW k, NEW id, NEW tag, NEW name, NEW s, NEW u, NEW v, NEW ss,
         Leaves(ss, s, k, id, tag, name, u, v, R)
  PROVE  /\ Sound(FlattenSeq(ss), R)
         /\ Members(FlattenSeq(ss)) = UNION {Members(ss[i]) : i \in DOMAIN ss}
         /\ Under(FlattenSeq(ss), k, id, tag, name)
         /\ \A x \in Members(FlattenSeq(ss)) : Len(x.address) = 6
  <1>0. IsList(ss)
    BY MadeOfEach DEF Leaves
  <1>1. \A i \in DOMAIN ss : /\ Sound(ss[i], R)
                            /\ \A x \in Members(ss[i]) : x.address = <<k, id, tag, name, u[i], v[i]>>
    BY SubIs DEF DraftedAt, Leaves
  <1>2. ASSUME NEW i \in DOMAIN ss, NEW j \in DOMAIN ss, i # j,
               NEW x \in Members(ss[i]), NEW y \in Members(ss[j])
        PROVE  x.address # y.address
    <2>1. x.address[5] = u[i] /\ x.address[6] = v[i] /\ y.address[5] = u[j] /\ y.address[6] = v[j]
      BY <1>1
    <2> QED BY <2>1, <1>2 DEF Leaves
  <1>3. /\ Sound(FlattenSeq(ss), R)
        /\ Members(FlattenSeq(ss)) = UNION {Members(ss[i]) : i \in DOMAIN ss}
    BY <1>0, <1>1, <1>2, FlattenSound
  <1>4. ASSUME NEW x \in Members(FlattenSeq(ss))
        PROVE  /\ x.address[1] = k /\ x.address[2] = id /\ x.address[3] = tag
               /\ x.address[4] = name /\ Len(x.address) = 6
    <2>1. PICK i \in DOMAIN ss : x \in Members(ss[i])
      BY <1>3
    <2>2. x.address = <<k, id, tag, name, u[i], v[i]>>
      BY <2>1, <1>1
    <2> QED BY <2>2
  <1> QED BY <1>3, <1>4 DEF Under

(* A list with a part and what is under it.                                *)
PartIn(s, k, id, tag, name, R) ==
  /\ Sound(s, R) /\ Under(s, k, id, tag, name)
  /\ \E x \in Members(s) : x.address = <<k, id, tag, name>>

(* A part with the drafts under it, after it or before it.                 *)
LEMMA HeadAt ==
  ASSUME NEW R, NEW k, NEW id, NEW tag, NEW name, NEW h, DraftedAt(h, <<k, id, tag, name>>, R),
         NEW s, Sound(s, R), Under(s, k, id, tag, name), \A x \in Members(s) : Len(x.address) = 6
  PROVE  PartIn(h \o s, k, id, tag, name, R) /\ PartIn(s \o h, k, id, tag, name, R)
  <1>1. /\ Sound(h \o s, R) /\ Sound(s \o h, R)
        /\ Members(h \o s) = Members(h) \cup Members(s)
        /\ Members(s \o h) = Members(h) \cup Members(s)
        /\ Under(h \o s, k, id, tag, name) /\ Under(s \o h, k, id, tag, name)
    BY HeadSound DEF DraftedAt
  <1>2. \E x \in Members(h) : x.address = <<k, id, tag, name>>
    BY DEF DraftedAt
  <1> QED BY <1>1, <1>2 DEF PartIn

(* Lists for the elements of s, each with a part of one of some tags and   *)
(* what is under it.                                                       *)
Keyed(ss, s, k, id, tag, key, T, R) ==
  /\ IsList(s) /\ DOMAIN ss = DOMAIN s /\ ss = [i \in DOMAIN ss |-> ss[i]]
  /\ \A i \in DOMAIN s : tag[i] \in T /\ PartIn(ss[i], k, id, tag[i], key[i], R)
  /\ \A i, j \in DOMAIN s : key[i] = key[j] => i = j

(* There is a part for each element.                                       *)
HasParts(drafts, s, k, id, tag, key) ==
  \A i \in DOMAIN s : \E x \in Members(drafts) : x.address = <<k, id, tag[i], key[i]>>

(* Parts with different names, each with what is under it.                 *)
LEMMA KeyedAt ==
  ASSUME NEW R, NEW k, NEW id, NEW tag, NEW key, NEW T, NEW s, NEW ss,
         Keyed(ss, s, k, id, tag, key, T, R)
  PROVE  Parts(FlattenSeq(ss), k, id, T, R) /\ HasParts(FlattenSeq(ss), s, k, id, tag, key)
  <1>0. IsList(ss)
    BY MadeOfEach DEF Keyed
  <1>1. ASSUME NEW i \in DOMAIN ss, NEW j \in DOMAIN ss, i # j,
               NEW x \in Members(ss[i]), NEW y \in Members(ss[j])
        PROVE  x.address # y.address
    <2>1. x.address[4] = key[i] /\ y.address[4] = key[j]
      BY <1>1 DEF Under, Keyed, PartIn
    <2> QED BY <1>1, <2>1 DEF Keyed
  <1>2. \A i \in DOMAIN ss : Sound(ss[i], R)
    BY DEF Keyed, PartIn
  <1>3. /\ Sound(FlattenSeq(ss), R)
        /\ Members(FlattenSeq(ss)) = UNION {Members(ss[i]) : i \in DOMAIN ss}
    BY <1>0, <1>1, <1>2, FlattenSound
  <1>4. Tagged(FlattenSeq(ss), k, id, T)
    BY <1>3 DEF Under, Tagged, Keyed, PartIn
  <1>5. ASSUME NEW i \in DOMAIN s
        PROVE  \E x \in Members(FlattenSeq(ss)) : x.address = <<k, id, tag[i], key[i]>>
    <2>1. PICK x \in Members(ss[i]) : x.address = <<k, id, tag[i], key[i]>>
      BY DEF Keyed, PartIn
    <2>2. i \in DOMAIN ss
      BY DEF Keyed
    <2> QED BY <1>3, <2>1, <2>2
  <1> QED BY <1>3, <1>4, <1>5 DEF Parts, HasParts

(* Lists for the elements of s, each with a part named for the element and *)
(* what is under it.                                                       *)
Level(ss, s, k, id, tag, R) ==
  /\ IsList(s) /\ DOMAIN ss = DOMAIN s /\ ss = [i \in DOMAIN ss |-> ss[i]] /\ UniqueIds(s)
  /\ \A i \in DOMAIN s : PartIn(ss[i], k, id, tag, s[i].id, R)

(* The parts of one tag, each with what is under it.                       *)
LEMMA LevelAt ==
  ASSUME NEW R, NEW k, NEW id, NEW tag, NEW s, NEW ss, Level(ss, s, k, id, tag, R)
  PROVE  /\ Parts(FlattenSeq(ss), k, id, {tag}, R)
         /\ {<<k, id, tag, n>> : n \in Ids(s)} \subseteq {x.address : x \in Members(FlattenSeq(ss))}
  <1> DEFINE key == [i \in DOMAIN s |-> s[i].id]
             t == [i \in DOMAIN s |-> tag]
             T == {tag}
  <1>1. \A i \in DOMAIN s : key[i] = s[i].id /\ t[i] = tag /\ tag \in T
    OBVIOUS
  <1> HIDE DEF key, t, T
  <1>2. Keyed(ss, s, k, id, t, key, T, R)
    BY <1>1 DEF Level, Keyed, UniqueIds
  <1>3. Parts(FlattenSeq(ss), k, id, T, R)
    BY <1>2, KeyedAt
  <1>k. HasParts(FlattenSeq(ss), s, k, id, t, key)
    BY <1>2, KeyedAt
  <1>4. ASSUME NEW n \in Ids(s)
        PROVE  \E x \in Members(FlattenSeq(ss)) : x.address = <<k, id, tag, n>>
    <2>1. PICK i \in DOMAIN s : n = s[i].id
      BY DEF Ids
    <2> QED BY <2>1, <1>1, <1>k DEF HasParts
  <1>5. {<<k, id, tag, n>> : n \in Ids(s)} \subseteq {x.address : x \in Members(FlattenSeq(ss))}
    BY <1>4
  <1> QED BY <1>3, <1>5 DEF T

(* A part with nothing under it.                                           *)
LEMMA BarePart ==
  ASSUME NEW R, NEW k, NEW id, NEW tag, NEW name, NEW h, DraftedAt(h, <<k, id, tag, name>>, R)
  PROVE  PartIn(h, k, id, tag, name, R)
  BY DEF DraftedAt, Under, PartIn

(* And as one of several parts of the declaration.                         *)
LEMMA BareParts ==
  ASSUME NEW R, NEW k, NEW id, NEW tag, NEW name, NEW h, DraftedAt(h, <<k, id, tag, name>>, R)
  PROVE  Parts(h, k, id, {tag}, R)
  BY DEF DraftedAt, Parts, Tagged

(* A declaration after its parts.                                          *)
LEMMA RootAt ==
  ASSUME NEW document, NEW d, NEW T, NEW s, Parts(s, d.kind, d.id, T, References(document)),
         PartsNamed(d) \subseteq {x.address : x \in Members(s)},
         NEW r, DraftedAt(r, Root(d), References(document))
  PROVE  DraftedFor(s \o r, d, document)
  <1> DEFINE R == References(document)
  <1>1. /\ Sound(s \o r, R) /\ Members(s \o r) = Members(s) \cup Members(r)
        /\ OfRoot(s \o r, d.kind, d.id)
    BY RootSound DEF DraftedAt, Root
  <1>2. Root(d) \in {x.address : x \in Members(s \o r)}
    BY <1>1 DEF DraftedAt
  <1>3. PartsNamed(d) \subseteq {x.address : x \in Members(s \o r)}
    BY <1>1
  <1> QED BY <1>1, <1>2, <1>3 DEF DraftedFor
-----------------------------------------------------------------------------
(* What validation and decoding give of one declaration.                   *)
LEMMA CheckedDeclaration ==
  ASSUME NEW document, Decodes(document), ValidateCore(document), NEW d \in Members(document)
  PROVE  DecodesDeclaration(d) /\ ValidDeclaration(d, document)
  BY DEF Decodes, ValidateCore

(* The types in a list of parameters.                                      *)
LEMMA ParameterTypesKnown ==
  ASSUME NEW document, NEW s, {p.type : p \in Members(s)} \subseteq KnownTypes(document)
  PROVE  \A dep \in TypeDependencies(s, document) : dep.target \in References(document)
  BY TypesKnown DEF TypeDependencies

(* The data types that a data type refers to.                              *)
LEMMA DataTypesKnown ==
  ASSUME NEW document, NEW type, ValidDataType(type, {x.id : x \in OfKind(document, "data")})
  PROVE  \A dep \in DataTypeDependencies(type, document) : dep.target \in References(document)
  <1>1. ASSUME NEW node \in Members(type), node.kind = "reference"
        PROVE  \A dep \in TypeDependency(node.ref, document) : dep.target \in References(document)
    <2>1. node.ref \in {x.id : x \in OfKind(document, "data")}
      BY <1>1 DEF ValidDataType
    <2> QED BY <2>1, TypesKnown
  <1> QED BY <1>1 DEF DataTypeDependencies

(* The parameters of a part, of known types.                               *)
LEMMA ParametersAt ==
  ASSUME NEW document, NEW k, NEW id, NEW tag, NEW name, NEW d, NEW s, IsList(s), UniqueIds(s),
         {p.type : p \in Members(s)} \subseteq KnownTypes(document)
  PROVE  /\ Sound(ParameterDrafts(<<k, id, tag, name>>, s, d, document), References(document))
         /\ Under(ParameterDrafts(<<k, id, tag, name>>, s, d, document), k, id, tag, name)
         /\ \A x \in Members(ParameterDrafts(<<k, id, tag, name>>, s, d, document)) :
              Len(x.address) = 6 /\ x.address[5] = "parameter"
  <1> DEFINE R == References(document)
             a == <<k, id, tag, name>>
             Leaf(p) == Draft(Sub(a, "parameter", p.id), "parameter", p, d, TypeDependency(p.type, document))
             S == [i \in DOMAIN s |-> Leaf(s[i])]
             u == [i \in DOMAIN s |-> "parameter"]
             v == [i \in DOMAIN s |-> s[i].id]
  <1>1. ParameterDrafts(a, s, d, document) = FlattenSeq(S)
    BY DEF ParameterDrafts, Each
  <1>2. ASSUME NEW i \in DOMAIN s PROVE DraftedAt(S[i], Sub(a, u[i], v[i]), R)
    <2>1. s[i].type \in KnownTypes(document)
      BY DEF Members
    <2>2. \A dep \in TypeDependency(s[i].type, document) : dep.target \in R
      BY <2>1, TypesKnown
    <2>3. DraftedAt(Leaf(s[i]), Sub(a, "parameter", s[i].id), R)
      BY <2>2, DraftIsAt
    <2> QED BY <2>3
  <1>3. \A i, j \in DOMAIN s : u[i] = u[j] /\ v[i] = v[j] => i = j
    BY DEF UniqueIds
  <1>4. DOMAIN S = DOMAIN s /\ S = [i \in DOMAIN S |-> S[i]]
    OBVIOUS
  <1>5. \A i \in DOMAIN s : u[i] = "parameter"
    OBVIOUS
  <1> HIDE DEF S, u, v, R
  <1>l. Leaves(S, s, k, id, tag, name, u, v, R)
    BY <1>2, <1>3, <1>4 DEF Leaves
  <1>6. /\ Sound(FlattenSeq(S), R)
        /\ Members(FlattenSeq(S)) = UNION {Members(S[i]) : i \in DOMAIN S}
        /\ Under(FlattenSeq(S), k, id, tag, name)
        /\ \A x \in Members(FlattenSeq(S)) : Len(x.address) = 6
    BY <1>l, LeavesAt
  <1>7. ASSUME NEW x \in Members(FlattenSeq(S)) PROVE x.address[5] = "parameter"
    <2>1. PICK i \in DOMAIN s : x \in Members(S[i])
      BY <1>4, <1>6
    <2>2. x.address = <<k, id, tag, name, u[i], v[i]>>
      BY <2>1, <1>2, SubIs DEF DraftedAt
    <2> QED BY <2>2, <1>5
  <1> QED BY <1>1, <1>6, <1>7 DEF R

(* A data declaration.                                                     *)
LEMMA DataDrafted ==
  ASSUME NEW document, Decodes(document), ValidateCore(document),
         NEW d \in Members(document), d.kind = "data"
  PROVE  DraftedFor(DataDrafts(d, document), d, document)
  <1> DEFINE R == References(document)
             Leaf(c, f) == Draft(Sub(Part(d, "constructor", c.id), "field", f.id), "field", f, d,
                                 DataTypeDependencies(f.type, document))
             Below(c) == [j \in DOMAIN c.fields |-> Leaf(c, c.fields[j])]
             Head_(c) == Draft(Part(d, "constructor", c.id), "constructor", c, d, {})
             S == [i \in DOMAIN d.constructors |->
                     Head_(d.constructors[i]) \o FlattenSeq(Below(d.constructors[i]))]
             Needs == UNION {UNION {DataTypeDependencies(f.type, document) : f \in Members(c.fields)} :
                             c \in Members(d.constructors)}
             root == Draft(Root(d), d.kind, d, d, Needs)
  <1>1. DataDrafts(d, document) = FlattenSeq(S) \o root
    BY DEF DataDrafts, Each
  <1>2. /\ IsList(d.constructors) /\ UniqueIds(d.constructors)
        /\ \A c \in Members(d.constructors) :
             /\ IsList(c.fields) /\ UniqueIds(c.fields)
             /\ \A f \in Members(c.fields) :
                  ValidDataType(f.type, {x.id : x \in OfKind(document, "data")})
    BY CheckedDeclaration DEF DecodesDeclaration, ValidDeclaration, ValidData
  <1>3. \A c \in Members(d.constructors) : \A f \in Members(c.fields) :
          \A dep \in DataTypeDependencies(f.type, document) : dep.target \in R
    BY <1>2, DataTypesKnown
  <1>4. ASSUME NEW c \in Members(d.constructors)
        PROVE  PartIn(Head_(c) \o FlattenSeq(Below(c)), "data", d.id, "constructor", c.id, R)
    <2> DEFINE a == <<"data", d.id, "constructor", c.id>>
               L == Below(c)
               u == [j \in DOMAIN c.fields |-> "field"]
               v == [j \in DOMAIN c.fields |-> c.fields[j].id]
    <2>1. Part(d, "constructor", c.id) = a
      BY DEF Part
    <2>2. DraftedAt(Head_(c), a, R)
      BY <2>1, DraftIsAt
    <2>3. ASSUME NEW j \in DOMAIN c.fields PROVE DraftedAt(L[j], Sub(a, u[j], v[j]), R)
      <3>1. \A dep \in DataTypeDependencies(c.fields[j].type, document) : dep.target \in R
        BY <1>3 DEF Members
      <3>2. DraftedAt(Leaf(c, c.fields[j]), Sub(a, "field", c.fields[j].id), R)
        BY <3>1, <2>1, DraftIsAt
      <3> QED BY <3>2
    <2>4. \A i, j \in DOMAIN c.fields : u[i] = u[j] /\ v[i] = v[j] => i = j
      BY <1>2 DEF UniqueIds
    <2>5. DOMAIN L = DOMAIN c.fields /\ L = [i \in DOMAIN L |-> L[i]] /\ IsList(c.fields)
      BY <1>2
    <2> HIDE DEF L, u, v
    <2>l. Leaves(L, c.fields, "data", d.id, "constructor", c.id, u, v, R)
      BY <2>3, <2>4, <2>5 DEF Leaves
    <2>6. /\ Sound(FlattenSeq(L), R) /\ Under(FlattenSeq(L), "data", d.id, "constructor", c.id)
          /\ \A x \in Members(FlattenSeq(L)) : Len(x.address) = 6
      BY <2>l, LeavesAt
    <2>7. PartIn(Head_(c) \o FlattenSeq(L), "data", d.id, "constructor", c.id, R)
      <3> DEFINE h == Head_(c)
                 f == FlattenSeq(L)
      <3>1. DraftedAt(h, a, R) /\ Sound(f, R) /\ Under(f, "data", d.id, "constructor", c.id)
            /\ \A x \in Members(f) : Len(x.address) = 6
        BY <2>2, <2>6
      <3> HIDE DEF h, f
      <3>2. PartIn(h \o f, "data", d.id, "constructor", c.id, R)
        BY <3>1, HeadAt
      <3> QED BY <3>2 DEF h, f
    <2> QED BY <2>7 DEF L
  <1>5. DOMAIN S = DOMAIN d.constructors /\ S = [i \in DOMAIN S |-> S[i]]
    OBVIOUS
  <1>6. \A i \in DOMAIN d.constructors :
           PartIn(S[i], "data", d.id, "constructor", d.constructors[i].id, R)
    <2> TAKE i \in DOMAIN d.constructors
    <2>1. d.constructors[i] \in Members(d.constructors)
      BY DEF Members
    <2>2. S[i] = Head_(d.constructors[i]) \o FlattenSeq(Below(d.constructors[i]))
      OBVIOUS
    <2> HIDE DEF S, Head_, Below
    <2> QED BY <2>1, <2>2, <1>4
  <1>7. DraftedAt(root, Root(d), R)
    <2>1. \A dep \in Needs : dep.target \in R
      BY <1>3
    <2> HIDE DEF Needs, R
    <2> QED BY <2>1, DraftIsAt
  <1>8. PartsNamed(d) = {}
    BY DEF PartsNamed
  <1> HIDE DEF S, root
  <1>l. Level(S, d.constructors, "data", d.id, "constructor", R)
    BY <1>2, <1>5, <1>6 DEF Level
  <1>9. Parts(FlattenSeq(S), "data", d.id, {"constructor"}, R)
    BY <1>l, LevelAt
  <1> QED BY <1>1, <1>7, <1>8, <1>9, RootAt
(* A service.                                                              *)
LEMMA ServiceDrafted ==
  ASSUME NEW document, Decodes(document), ValidateCore(document),
         NEW d \in Members(document), d.kind = "service"
  PROVE  DraftedFor(ServiceDrafts(d, document), d, document)
  <1> DEFINE R == References(document)
             Needs(o) == TypeDependencies(o.parameters, document) \cup TypeDependency(o.result, document)
             At_(o) == Part(d, "operation", o.id)
             Head_(o) == Draft(At_(o), "operation", o, d, Needs(o))
             Below(o) == ParameterDrafts(At_(o), o.parameters, d, document)
             S == [i \in DOMAIN d.operations |-> Head_(d.operations[i]) \o Below(d.operations[i])]
             All == UNION {Needs(o) : o \in Members(d.operations)}
             root == Draft(Root(d), d.kind, d, d, All)
  <1>1. ServiceDrafts(d, document) = FlattenSeq(S) \o root
    BY DEF ServiceDrafts, Each
  <1>2. /\ IsList(d.operations) /\ UniqueIds(d.operations)
        /\ \A o \in Members(d.operations) :
             /\ IsList(o.parameters) /\ UniqueIds(o.parameters)
             /\ {p.type : p \in Members(o.parameters)} \subseteq KnownTypes(document)
             /\ o.result \in KnownTypes(document)
    <2>1. DecodesDeclaration(d) /\ ValidDeclaration(d, document)
      BY CheckedDeclaration
    <2>2. DecodesOperations(d.operations)
      BY <2>1 DEF DecodesDeclaration
    <2>3. ValidService(d, KnownTypes(document))
      BY <2>1 DEF ValidDeclaration
    <2>4. \A o \in Members(d.operations) :
            /\ UniqueIds(o.parameters) /\ o.result \in KnownTypes(document)
            /\ {p.type : p \in Members(o.parameters)} \subseteq KnownTypes(document)
      BY <2>3 DEF ValidService
    <2> QED BY <2>2, <2>3, <2>4 DEF DecodesOperations, ValidService
  <1>3. ASSUME NEW o \in Members(d.operations)
        PROVE  \A dep \in Needs(o) : dep.target \in R
    <2>1. \A dep \in TypeDependencies(o.parameters, document) : dep.target \in R
      BY <1>2, ParameterTypesKnown
    <2>2. \A dep \in TypeDependency(o.result, document) : dep.target \in R
      BY <1>2, TypesKnown
    <2> QED BY <2>1, <2>2
  <1>4. ASSUME NEW o \in Members(d.operations)
        PROVE  PartIn(Head_(o) \o Below(o), "service", d.id, "operation", o.id, R)
    <2> DEFINE a == <<"service", d.id, "operation", o.id>>
               h == Head_(o)
               f == Below(o)
    <2>1. At_(o) = a
      BY DEF Part
    <2>2. DraftedAt(h, a, R)
      <3> HIDE DEF Needs, R
      <3> QED BY <2>1, <1>3, DraftIsAt
    <2>3. f = ParameterDrafts(<<"service", d.id, "operation", o.id>>, o.parameters, d, document)
      BY <2>1
    <2>4. /\ Sound(f, R) /\ Under(f, "service", d.id, "operation", o.id)
          /\ \A x \in Members(f) : Len(x.address) = 6
      BY <2>3, <1>2, ParametersAt
    <2> HIDE DEF h, f
    <2>5. PartIn(h \o f, "service", d.id, "operation", o.id, R)
      BY <2>2, <2>4, HeadAt
    <2> QED BY <2>5 DEF h, f
  <1>5. DOMAIN S = DOMAIN d.operations /\ S = [i \in DOMAIN S |-> S[i]]
    OBVIOUS
  <1>6. \A i \in DOMAIN d.operations :
           PartIn(S[i], "service", d.id, "operation", d.operations[i].id, R)
    <2> TAKE i \in DOMAIN d.operations
    <2>1. d.operations[i] \in Members(d.operations)
      BY DEF Members
    <2>2. S[i] = Head_(d.operations[i]) \o Below(d.operations[i])
      OBVIOUS
    <2> HIDE DEF S, Head_, Below
    <2> QED BY <2>1, <2>2, <1>4
  <1>7. DraftedAt(root, Root(d), R)
    <2>1. \A dep \in All : dep.target \in R
      <3> HIDE DEF Needs
      <3> QED BY <1>3
    <2> HIDE DEF All, R
    <2> QED BY <2>1, DraftIsAt
  <1>8. PartsNamed(d) = {}
    BY DEF PartsNamed
  <1> HIDE DEF S, root
  <1>l. Level(S, d.operations, "service", d.id, "operation", R)
    BY <1>2, <1>5, <1>6 DEF Level
  <1>9. Parts(FlattenSeq(S), "service", d.id, {"operation"}, R)
    BY <1>l, LevelAt
  <1> QED BY <1>1, <1>7, <1>8, <1>9, RootAt

(* A declaration with no parts, and a refinement.                          *)
LEMMA OtherDrafted ==
  ASSUME NEW document, NEW d \in Members(document), PartsNamed(d) = {}
  PROVE  DraftedFor(Draft(Root(d), d.kind, d, d, {}), d, document)
  <1> DEFINE root == Draft(Root(d), d.kind, d, d, {})
             R == References(document)
  <1>1. DraftedAt(root, Root(d), R)
    BY DraftIsAt
  <1> HIDE DEF root
  <1>2. Sound(root, R) /\ (\A x \in Members(root) : x.address = <<d.kind, d.id>>)
    BY <1>1 DEF DraftedAt, Root
  <1>3. \A x \in Members(root) : /\ x.address[1] = d.kind /\ x.address[2] = d.id
                                 /\ Len(x.address) = 2
    BY <1>2
  <1>4. OfRoot(root, d.kind, d.id)
    BY <1>3 DEF OfRoot
  <1>5. DraftedFor(root, d, document)
    BY <1>1, <1>2, <1>4 DEF DraftedFor, DraftedAt
  <1> QED BY <1>5 DEF root

(* A refinement.                                                           *)
LEMMA RefinementDrafted ==
  ASSUME NEW document, NEW d \in Members(document), d.kind = "refinement", NEW said
  PROVE  DraftedFor(Draft(Part(d, "predicate", "predicate"), "predicate", said, d, {})
                    \o Draft(Root(d), d.kind, d, d, {}), d, document)
  <1> DEFINE h == Draft(Part(d, "predicate", "predicate"), "predicate", said, d, {})
             root == Draft(Root(d), d.kind, d, d, {})
             R == References(document)
  <1>1. DraftedAt(root, Root(d), R) /\ DraftedAt(h, Part(d, "predicate", "predicate"), R)
    BY DraftIsAt
  <1>2. DraftedAt(h, <<d.kind, d.id, "predicate", "predicate">>, R)
    BY <1>1 DEF Part
  <1> HIDE DEF h, root
  <1>3. Parts(h, d.kind, d.id, {"predicate"}, R)
    BY <1>2, BareParts
  <1>4. PartsNamed(d) = {}
    BY DEF PartsNamed
  <1>5. DraftedFor(h \o root, d, document)
    BY <1>1, <1>3, <1>4, RootAt
  <1> QED BY <1>5 DEF h, root
-----------------------------------------------------------------------------
(* The sorts and operations of a theory of the document.                   *)
LEMMA PartsOfTheory ==
  ASSUME NEW document, NEW t \in Members(document), t.kind = "theory"
  PROVE  /\ \A s \in Ids(t.sorts) : <<"theory", t.id, "sort", s>> \in References(document)
         /\ \A o \in Ids(t.operations) : <<"theory", t.id, "operation", o>> \in References(document)
  <1>1. PartsNamed(t) = {Part(t, "sort", s) : s \in Ids(t.sorts)}
                        \cup {Part(t, "operation", o) : o \in Ids(t.operations)}
    BY DEF PartsNamed
  <1>2. PartsNamed(t) \subseteq References(document)
    BY DEF References
  <1> QED BY <1>1, <1>2 DEF Part

(* The sorts in a list of parameters.                                      *)
LEMMA SortsKnown ==
  ASSUME NEW document, NEW t \in Members(document), t.kind = "theory",
         NEW s, {p.sort : p \in Members(s)} \subseteq Ids(t.sorts)
  PROVE  \A dep \in SortDependencies(t.id, s) : dep.target \in References(document)
  BY PartsOfTheory DEF SortDependencies, Dep

(* The operations applied in a term that has a sort.                       *)
LEMMA ApplicationsKnown ==
  ASSUME NEW document, NEW t \in Members(document), t.kind = "theory",
         NEW law, NEW term, TermSort(t, law, term) # "none", NEW a \in Applications(term)
  PROVE  \A dep \in TermDependency(t.id, a) : dep.target \in References(document)
  <1>1. a \in Members(term) /\ a.kind # "variable"
    BY DEF Applications
  <1>2. NodeSort(t, law, a) # "none"
    BY <1>1 DEF TermSort
  <1>3. a.id \in Ids(t.operations)
    BY <1>1, <1>2 DEF NodeSort
  <1> QED BY <1>3, PartsOfTheory DEF TermDependency, Dep

(* The parameters of a part, of sorts of their theory.                     *)
LEMMA SortParametersAt ==
  ASSUME NEW document, NEW tag, NEW name, NEW d \in Members(document), d.kind = "theory",
         NEW s, IsList(s), UniqueIds(s), {p.sort : p \in Members(s)} \subseteq Ids(d.sorts)
  PROVE  /\ Sound(SortParameterDrafts(<<"theory", d.id, tag, name>>, s, d), References(document))
         /\ Under(SortParameterDrafts(<<"theory", d.id, tag, name>>, s, d), "theory", d.id, tag, name)
         /\ \A x \in Members(SortParameterDrafts(<<"theory", d.id, tag, name>>, s, d)) :
              Len(x.address) = 6
  <1> DEFINE R == References(document)
             k == "theory"
             id == d.id
             a == <<k, id, tag, name>>
             Leaf(p) == Draft(Sub(a, "parameter", p.id), "parameter", p, d, SortDependencies(d.id, <<p>>))
             S == [i \in DOMAIN s |-> Leaf(s[i])]
             u == [i \in DOMAIN s |-> "parameter"]
             v == [i \in DOMAIN s |-> s[i].id]
  <1>1. SortParameterDrafts(a, s, d) = FlattenSeq(S)
    BY DEF SortParameterDrafts, Each
  <1>2. ASSUME NEW i \in DOMAIN s PROVE DraftedAt(S[i], Sub(a, u[i], v[i]), R)
    <2>1. s[i].sort \in Ids(d.sorts)
      BY DEF Members
    <2>2. {p.sort : p \in Members(<<s[i]>>)} \subseteq Ids(d.sorts)
      BY <2>1 DEF Members
    <2>3. \A dep \in SortDependencies(d.id, <<s[i]>>) : dep.target \in R
      BY <2>2, SortsKnown
    <2>4. DraftedAt(Leaf(s[i]), Sub(a, "parameter", s[i].id), R)
      BY <2>3, DraftIsAt
    <2> QED BY <2>4
  <1>3. \A i, j \in DOMAIN s : u[i] = u[j] /\ v[i] = v[j] => i = j
    BY DEF UniqueIds
  <1>4. DOMAIN S = DOMAIN s /\ S = [i \in DOMAIN S |-> S[i]]
    OBVIOUS
  <1> HIDE DEF S, u, v, R, k, id
  <1>l. Leaves(S, s, k, id, tag, name, u, v, R)
    BY <1>2, <1>3, <1>4 DEF Leaves
  <1>6. /\ Sound(FlattenSeq(S), R) /\ Under(FlattenSeq(S), k, id, tag, name)
        /\ \A x \in Members(FlattenSeq(S)) : Len(x.address) = 6
    BY <1>l, LeavesAt
  <1> QED BY <1>1, <1>6 DEF R, k, id

(* A theory.                                                               *)
LEMMA TheoryDrafted ==
  ASSUME NEW document, Decodes(document), ValidateCore(document),
         NEW d \in Members(document), d.kind = "theory"
  PROVE  DraftedFor(TheoryDrafts(d), d, document)
  <1> DEFINE R == References(document)
             Sort(s) == Draft(Part(d, "sort", s.id), "sort", s, d, {})
             Needs(o) == SortDependencies(d.id, o.parameters) \cup
                         Dep("theory-reference", <<"theory", d.id, "sort", o.result>>)
             AtO(o) == Part(d, "operation", o.id)
             HeadO(o) == Draft(AtO(o), "operation", o, d, Needs(o))
             BelowO(o) == SortParameterDrafts(AtO(o), o.parameters, d)
             Applied(law) == UNION {TermDependency(d.id, a) :
                             a \in Applications(law.left) \cup Applications(law.right)}
             AtL(l) == Part(d, "law", l.id)
             States(l) == SortDependencies(d.id, l.parameters) \cup Applied(l)
             HeadL(l) == Draft(AtL(l), "law", l, d, States(l))
             BelowL(l) == SortParameterDrafts(AtL(l), l.parameters, d)
             A == [i \in DOMAIN d.sorts |-> Sort(d.sorts[i])]
             B == [i \in DOMAIN d.operations |-> BelowO(d.operations[i]) \o HeadO(d.operations[i])]
             C == [i \in DOMAIN d.laws |-> HeadL(d.laws[i]) \o BelowL(d.laws[i])]
             root == Draft(Root(d), d.kind, d, d, {})
  <1>1. TheoryDrafts(d) = ((FlattenSeq(A) \o FlattenSeq(B)) \o FlattenSeq(C)) \o root
    BY DEF TheoryDrafts, Each
  <1>v. DecodesDeclaration(d) /\ ValidTheory(d)
    BY CheckedDeclaration DEF ValidDeclaration
  <1>2. /\ IsList(d.sorts) /\ DecodesOperations(d.operations) /\ DecodesLaws(d.laws)
    BY <1>v DEF DecodesDeclaration
  <1>3. /\ UniqueIds(d.sorts) /\ UniqueIds(d.operations) /\ UniqueIds(d.laws)
        /\ \A o \in Members(d.operations) :
             /\ UniqueIds(o.parameters) /\ o.result \in Ids(d.sorts)
             /\ {p.sort : p \in Members(o.parameters)} \subseteq Ids(d.sorts)
        /\ \A l \in Members(d.laws) :
             /\ UniqueIds(l.parameters) /\ {p.sort : p \in Members(l.parameters)} \subseteq Ids(d.sorts)
             /\ TermSort(d, l, l.left) # "none" /\ TermSort(d, l, l.right) # "none"
    BY <1>v DEF ValidTheory
  <1>4. /\ IsList(d.operations) /\ IsList(d.laws)
        /\ \A o \in Members(d.operations) : IsList(o.parameters)
        /\ \A l \in Members(d.laws) : IsList(l.parameters)
    BY <1>2 DEF DecodesOperations, DecodesLaws
  <1>a. Parts(FlattenSeq(A), "theory", d.id, {"sort"}, R)
        /\ {<<"theory", d.id, "sort", n>> : n \in Ids(d.sorts)} \subseteq {x.address : x \in Members(FlattenSeq(A))}
    <2>1. ASSUME NEW s \in Members(d.sorts)
          PROVE  PartIn(Sort(s), "theory", d.id, "sort", s.id, R)
      <3>1. DraftedAt(Sort(s), <<"theory", d.id, "sort", s.id>>, R)
        BY DraftIsAt DEF Part
      <3> DEFINE h == Sort(s)
      <3>2. DraftedAt(h, <<"theory", d.id, "sort", s.id>>, R)
        BY <3>1
      <3> HIDE DEF h
      <3>3. PartIn(h, "theory", d.id, "sort", s.id, R)
        BY <3>2, BarePart
      <3> QED BY <3>3 DEF h
    <2>2. \A i \in DOMAIN d.sorts :
             PartIn(A[i], "theory", d.id, "sort", d.sorts[i].id, R)
      <3> TAKE i \in DOMAIN d.sorts
      <3>1. d.sorts[i] \in Members(d.sorts) /\ A[i] = Sort(d.sorts[i])
        BY DEF Members
      <3> HIDE DEF A, Sort
      <3> QED BY <3>1, <2>1
    <2>3. DOMAIN A = DOMAIN d.sorts /\ A = [i \in DOMAIN A |-> A[i]]
      OBVIOUS
    <2> HIDE DEF A
    <2>4. Level(A, d.sorts, "theory", d.id, "sort", R)
      BY <1>2, <1>3, <2>2, <2>3 DEF Level
    <2> QED BY <2>4, LevelAt
  <1>b. Parts(FlattenSeq(B), "theory", d.id, {"operation"}, R)
        /\ {<<"theory", d.id, "operation", n>> : n \in Ids(d.operations)} \subseteq {x.address : x \in Members(FlattenSeq(B))}
    <2>1. ASSUME NEW o \in Members(d.operations)
          PROVE  PartIn(BelowO(o) \o HeadO(o), "theory", d.id, "operation", o.id, R)
      <3> DEFINE a == <<"theory", d.id, "operation", o.id>>
                 h == HeadO(o)
                 f == BelowO(o)
      <3>1. AtO(o) = a
        BY DEF Part
      <3>2. \A dep \in Needs(o) : dep.target \in R
        <4>1. \A dep \in SortDependencies(d.id, o.parameters) : dep.target \in R
          BY <1>3, SortsKnown
        <4>2. <<"theory", d.id, "sort", o.result>> \in R
          BY <1>3, PartsOfTheory
        <4> QED BY <4>1, <4>2 DEF Dep
      <3>3. DraftedAt(h, a, R)
        <4> HIDE DEF Needs, R
        <4> QED BY <3>1, <3>2, DraftIsAt
      <3>4. f = SortParameterDrafts(<<"theory", d.id, "operation", o.id>>, o.parameters, d)
        BY <3>1
      <3>5. /\ Sound(f, R) /\ Under(f, "theory", d.id, "operation", o.id)
            /\ \A x \in Members(f) : Len(x.address) = 6
        BY <3>4, <1>3, <1>4, SortParametersAt
      <3> HIDE DEF h, f
      <3>6. PartIn(f \o h, "theory", d.id, "operation", o.id, R)
        BY <3>3, <3>5, HeadAt
      <3> QED BY <3>6 DEF h, f
    <2>2. \A i \in DOMAIN d.operations :
             PartIn(B[i], "theory", d.id, "operation", d.operations[i].id, R)
      <3> TAKE i \in DOMAIN d.operations
      <3>1. d.operations[i] \in Members(d.operations) /\ B[i] = BelowO(d.operations[i]) \o HeadO(d.operations[i])
        BY DEF Members
      <3> HIDE DEF B, BelowO, HeadO
      <3> QED BY <3>1, <2>1
    <2>3. DOMAIN B = DOMAIN d.operations /\ B = [i \in DOMAIN B |-> B[i]]
      OBVIOUS
    <2> HIDE DEF B
    <2>4. Level(B, d.operations, "theory", d.id, "operation", R)
      BY <1>3, <1>4, <2>2, <2>3 DEF Level
    <2> QED BY <2>4, LevelAt
  <1>c. Parts(FlattenSeq(C), "theory", d.id, {"law"}, R)
    <2>1. ASSUME NEW l \in Members(d.laws)
          PROVE  PartIn(HeadL(l) \o BelowL(l), "theory", d.id, "law", l.id, R)
      <3> DEFINE a == <<"theory", d.id, "law", l.id>>
                 h == HeadL(l)
                 f == BelowL(l)
      <3>1. AtL(l) = a
        BY DEF Part
      <3>2. \A dep \in States(l) : dep.target \in R
        <4>1. \A dep \in SortDependencies(d.id, l.parameters) : dep.target \in R
          BY <1>3, SortsKnown
        <4>2. \A x \in Applications(l.left) \cup Applications(l.right) :
                \A dep \in TermDependency(d.id, x) : dep.target \in R
          BY <1>3, ApplicationsKnown
        <4> QED BY <4>1, <4>2
      <3>3. DraftedAt(h, a, R)
        <4> HIDE DEF States, R
        <4> QED BY <3>1, <3>2, DraftIsAt
      <3>4. f = SortParameterDrafts(<<"theory", d.id, "law", l.id>>, l.parameters, d)
        BY <3>1
      <3>5. /\ Sound(f, R) /\ Under(f, "theory", d.id, "law", l.id)
            /\ \A x \in Members(f) : Len(x.address) = 6
        BY <3>4, <1>3, <1>4, SortParametersAt
      <3> HIDE DEF h, f
      <3>6. PartIn(h \o f, "theory", d.id, "law", l.id, R)
        BY <3>3, <3>5, HeadAt
      <3> QED BY <3>6 DEF h, f
    <2>2. \A i \in DOMAIN d.laws :
             PartIn(C[i], "theory", d.id, "law", d.laws[i].id, R)
      <3> TAKE i \in DOMAIN d.laws
      <3>1. d.laws[i] \in Members(d.laws) /\ C[i] = HeadL(d.laws[i]) \o BelowL(d.laws[i])
        BY DEF Members
      <3> HIDE DEF C, BelowL, HeadL
      <3> QED BY <3>1, <2>1
    <2>3. DOMAIN C = DOMAIN d.laws /\ C = [i \in DOMAIN C |-> C[i]]
      OBVIOUS
    <2> HIDE DEF C
    <2>4. Level(C, d.laws, "theory", d.id, "law", R)
      BY <1>3, <1>4, <2>2, <2>3 DEF Level
    <2> QED BY <2>4, LevelAt
  <1> DEFINE FA == FlattenSeq(A)
             FB == FlattenSeq(B)
             FC == FlattenSeq(C)
             AB == FA \o FB
             ABC == AB \o FC
             T1 == {"sort"}
             T2 == {"operation"}
             T3 == {"law"}
             T4 == {"sort", "operation"}
             T5 == {"sort", "operation", "law"}
  <1>t. T1 \cap T2 = {} /\ T4 \cap T3 = {} /\ T4 = T1 \cup T2 /\ T5 = T4 \cup T3
    OBVIOUS
  <1>f. /\ Parts(FA, "theory", d.id, T1, R)
        /\ Parts(FB, "theory", d.id, T2, R)
        /\ Parts(FC, "theory", d.id, T3, R)
    BY <1>a, <1>b, <1>c
  <1> HIDE DEF A, B, C, FA, FB, FC, T1, T2, T3, T4, T5
  <1>5. Parts(AB, "theory", d.id, T4, R) /\ Members(AB) = Members(FA) \cup Members(FB)
    <2>1. Differ(FA, FB, "theory", d.id, T1, T2, T4, R)
      BY <1>f, <1>t DEF Differ
    <2> QED BY <2>1, TagsSound
  <1> HIDE DEF AB
  <1>6. Parts(ABC, "theory", d.id, T5, R) /\ Members(ABC) = Members(AB) \cup Members(FC)
    <2>1. Differ(AB, FC, "theory", d.id, T4, T3, T5, R)
      BY <1>5, <1>f, <1>t DEF Differ
    <2> QED BY <2>1, TagsSound
  <1>7. PartsNamed(d) \subseteq {x.address : x \in Members(ABC)}
    <2>1. PartsNamed(d) = {<<"theory", d.id, "sort", n>> : n \in Ids(d.sorts)}
                          \cup {<<"theory", d.id, "operation", n>> : n \in Ids(d.operations)}
      BY DEF PartsNamed, Part
    <2>2. Members(FA) \subseteq Members(ABC) /\ Members(FB) \subseteq Members(ABC)
      BY <1>5, <1>6
    <2>3. /\ {x.address : x \in Members(FA)} \subseteq {x.address : x \in Members(ABC)}
          /\ {x.address : x \in Members(FB)} \subseteq {x.address : x \in Members(ABC)}
      BY <2>2
    <2> HIDE DEF ABC
    <2> QED BY <2>1, <2>3, <1>a, <1>b DEF FA, FB
  <1>8. DraftedAt(root, Root(d), R)
    BY DraftIsAt
  <1> HIDE DEF root, ABC
  <1>9. DraftedFor(ABC \o root, d, document)
    BY <1>6, <1>7, <1>8, RootAt
  <1> QED BY <1>1, <1>9 DEF ABC, AB, FA, FB, FC
-----------------------------------------------------------------------------
(* The theory that each participant of a bridge stands for.                *)
JoinedTheories(bridge, theories) ==
  [id \in Ids(bridge.participants) |->
     CHOOSE t \in theories : t.id = Named(bridge.participants, id).theory]

(* The element of a list with an id.                                       *)
LEMMA NamedIs ==
  ASSUME NEW s, NEW id \in Ids(s)
  PROVE  Named(s, id) \in Members(s) /\ Named(s, id).id = id
  <1>1. \E x \in Members(s) : x.id = id
    BY DEF Ids, Members
  <1> QED BY <1>1 DEF Named

(* A participant of a checked bridge stands for a theory of the document.  *)
LEMMA ParticipantsStand ==
  ASSUME NEW document, NEW d, ValidBridge(d, OfKind(document, "theory")),
         NEW id \in Ids(d.participants)
  PROVE  /\ JoinedTheories(d, OfKind(document, "theory"))[id] \in Members(document)
         /\ JoinedTheories(d, OfKind(document, "theory"))[id].kind = "theory"
         /\ JoinedTheories(d, OfKind(document, "theory"))[id].id = Named(d.participants, id).theory
  <1> DEFINE T == OfKind(document, "theory")
             p == Named(d.participants, id)
  <1>1. p \in Members(d.participants)
    BY NamedIs
  <1>2. \E t \in T : t.id = p.theory
    BY <1>1 DEF ValidBridge
  <1>3. JoinedTheories(d, T)[id] = CHOOSE t \in T : t.id = p.theory
    BY DEF JoinedTheories
  <1>4. JoinedTheories(d, T)[id] \in T /\ JoinedTheories(d, T)[id].id = p.theory
    BY <1>2, <1>3
  <1> QED BY <1>4 DEF OfKind

(* A member of a shared sort is a sort of the theory of a participant.     *)
LEMMA MembersStand ==
  ASSUME NEW document, NEW d, d.kind = "theoryBridge", DecodesDeclaration(d),
         ValidBridge(d, OfKind(document, "theory")),
         NEW s \in Members(d.sharedSorts), NEW m \in Members(s.members)
  PROVE  <<"theory", Named(d.participants, m.participant).theory, "sort", m.sort>> \in References(document)
  <1> DEFINE theoryOf == JoinedTheories(d, OfKind(document, "theory"))
             Sorts(p) == {x.sort : x \in {y \in Members(s.members) : y.participant = p}}
             P == Ids(d.participants)
  <1>1. /\ Len(d.participants) = 2 /\ UniqueIds(d.participants)
        /\ ValidSharedSort(d, theoryOf, s)
    BY DEF ValidBridge, JoinedTheories
  <1>2. /\ Len(s.members) = 2
        /\ Unique([i \in DOMAIN s.members |-> s.members[i].participant])
        /\ \A p \in P : Sorts(p) # {} /\ Sorts(p) \subseteq Ids(theoryOf[p].sorts)
    BY <1>1 DEF ValidSharedSort
  <1>3. IsList(d.participants) /\ IsList(s.members)
    BY DEF DecodesDeclaration
  <1> DEFINE p1 == d.participants[1].id
             p2 == d.participants[2].id
             m1 == s.members[1]
             m2 == s.members[2]
  <1>4. DOMAIN d.participants = {1, 2} /\ DOMAIN s.members = {1, 2}
    <2>1. 1..2 = {1, 2}
      OBVIOUS
    <2> QED BY <2>1, <1>1, <1>2, <1>3, ListFacts
  <1>5. P = {p1, p2} /\ p1 # p2 /\ Members(s.members) = {m1, m2}
    BY <1>1, <1>4 DEF Ids, UniqueIds, Members
  <1>6. m1.participant # m2.participant
    <2> DEFINE f == [i \in DOMAIN s.members |-> s.members[i].participant]
    <2>1. Unique(f)
      BY <1>2
    <2>2. DOMAIN f = {1, 2} /\ f[1] = m1.participant /\ f[2] = m2.participant
      BY <1>4
    <2> HIDE DEF f
    <2>3. f[1] # f[2]
      BY <2>1, <2>2 DEF Unique
    <2> QED BY <2>2, <2>3
  <1>7. \A p \in P : p \in {m1.participant, m2.participant}
    BY <1>2, <1>5
  <1>8. m.participant \in P
    BY <1>5, <1>6, <1>7
  <1>9. m.sort \in Ids(theoryOf[m.participant].sorts)
    BY <1>2, <1>8
  <1>10. /\ theoryOf[m.participant] \in Members(document)
         /\ theoryOf[m.participant].kind = "theory"
         /\ theoryOf[m.participant].id = Named(d.participants, m.participant).theory
    BY <1>8, ParticipantsStand
  <1> HIDE DEF theoryOf
  <1> QED BY <1>9, <1>10, PartsOfTheory

(* An operation applied in a law of a bridge is one of a participant's     *)
(* theory.                                                                 *)
LEMMA BridgedApplicationsKnown ==
  ASSUME NEW document, NEW d, ValidBridge(d, OfKind(document, "theory")),
         NEW law, NEW term,
         BridgeTermSort(d, JoinedTheories(d, OfKind(document, "theory")), law, term) # "none",
         NEW a \in Applications(term)
  PROVE  \A dep \in TermDependency(Named(d.participants, a.participant).theory, a) :
           dep.target \in References(document)
  <1> DEFINE theoryOf == JoinedTheories(d, OfKind(document, "theory"))
  <1>1. a \in Members(term) /\ a.kind # "variable"
    BY DEF Applications
  <1>2. BridgeNodeSort(d, theoryOf, law, a) # "none"
    BY <1>1 DEF BridgeTermSort
  <1>3. a.participant \in DOMAIN theoryOf /\ a.id \in Ids(theoryOf[a.participant].operations)
    BY <1>1, <1>2 DEF BridgeNodeSort
  <1>4. a.participant \in Ids(d.participants)
    BY <1>3 DEF JoinedTheories
  <1>5. /\ theoryOf[a.participant] \in Members(document)
        /\ theoryOf[a.participant].kind = "theory"
        /\ theoryOf[a.participant].id = Named(d.participants, a.participant).theory
    BY <1>4, ParticipantsStand
  <1> HIDE DEF theoryOf
  <1>6. <<"theory", Named(d.participants, a.participant).theory, "operation", a.id>> \in References(document)
    BY <1>3, <1>5, PartsOfTheory
  <1> QED BY <1>6 DEF TermDependency, Dep
(* A bridge.                                                               *)
LEMMA BridgeDrafted ==
  ASSUME NEW document, Decodes(document), ValidateCore(document),
         NEW d \in Members(document), d.kind = "theoryBridge"
  PROVE  DraftedFor(BridgeDrafts(d), d, document)
  <1> DEFINE R == References(document)
             theories == OfKind(document, "theory")
             TheoryOf(participant) == Named(d.participants, participant).theory
             Joins(p) == Dep("participant-theory", <<"theory", p.theory>>)
             Member(m) == Dep("shared-sort-member",
                              <<"theory", TheoryOf(m.participant), "sort", m.sort>>)
             Sorted(p) == Dep("shared-sort-member", Part(d, "sharedSort", p.sort))
             Applied(law) == UNION {TermDependency(TheoryOf(a.participant), a) :
                                    a \in Applications(law.left) \cup Applications(law.right)}
             Shares(s) == UNION {Member(m) : m \in Members(s.members)}
             States(law) == (UNION {Sorted(p) : p \in Members(law.parameters)}) \cup Applied(law)
             Joined(p) == Draft(Part(d, "participant", p.id), "participant", p, d, Joins(p))
             HeadS(s) == Draft(Part(d, "sharedSort", s.id), "sharedSort", s, d, Shares(s))
             LeafS(s, m) == Draft(Sub(Part(d, "sharedSort", s.id), m.participant, m.sort),
                                  "sharedSortMember", m, d, Member(m))
             BelowS(s) == [i \in DOMAIN s.members |-> LeafS(s, s.members[i])]
             HeadL(l) == Draft(Part(d, "law", l.id), "law", l, d, States(l))
             LeafL(l, p) == Draft(Sub(Part(d, "law", l.id), "parameter", p.id), "parameter", p, d, Sorted(p))
             BelowL(l) == [i \in DOMAIN l.parameters |-> LeafL(l, l.parameters[i])]
             A == [i \in DOMAIN d.participants |-> Joined(d.participants[i])]
             B == [i \in DOMAIN d.sharedSorts |-> HeadS(d.sharedSorts[i]) \o FlattenSeq(BelowS(d.sharedSorts[i]))]
             C == [i \in DOMAIN d.laws |-> HeadL(d.laws[i]) \o FlattenSeq(BelowL(d.laws[i]))]
             Needs == UNION ({Joins(p) : p \in Members(d.participants)}
                             \cup {Shares(s) : s \in Members(d.sharedSorts)}
                             \cup {States(l) : l \in Members(d.laws)})
             root == Draft(Root(d), d.kind, d, d, Needs)
  <1>1. BridgeDrafts(d) = ((FlattenSeq(A) \o FlattenSeq(B)) \o FlattenSeq(C)) \o root
    BY DEF BridgeDrafts, Each
  <1>v. DecodesDeclaration(d) /\ ValidBridge(d, theories)
    BY CheckedDeclaration DEF ValidDeclaration
  <1>2. /\ IsList(d.participants) /\ IsList(d.sharedSorts) /\ DecodesLaws(d.laws)
        /\ \A s \in Members(d.sharedSorts) : IsList(s.members)
    BY <1>v DEF DecodesDeclaration
  <1>3. /\ UniqueIds(d.participants) /\ UniqueIds(d.sharedSorts) /\ UniqueIds(d.laws)
        /\ \A p \in Members(d.participants) : \E t \in theories : t.id = p.theory
    BY <1>v DEF ValidBridge
  <1>4. /\ IsList(d.laws) /\ \A l \in Members(d.laws) : IsList(l.parameters)
    BY <1>2 DEF DecodesOperations, DecodesLaws
  <1>5. \A s \in Members(d.sharedSorts) :
          Unique([i \in DOMAIN s.members |-> s.members[i].participant])
    BY <1>v DEF ValidBridge, ValidSharedSort
  <1>6. \A l \in Members(d.laws) :
          /\ UniqueIds(l.parameters) /\ {p.sort : p \in Members(l.parameters)} \subseteq Ids(d.sharedSorts)
          /\ BridgeTermSort(d, JoinedTheories(d, theories), l, l.left) # "none"
          /\ BridgeTermSort(d, JoinedTheories(d, theories), l, l.right) # "none"
    <2> TAKE l \in Members(d.laws)
    <2> DEFINE J(term) == BridgeTermSort(d, JoinedTheories(d, theories), l, term)
    <2>1. /\ UniqueIds(l.parameters) /\ {p.sort : p \in Members(l.parameters)} \subseteq Ids(d.sharedSorts)
          /\ J(l.left) # "none" /\ J(l.left) = J(l.right)
      BY <1>v DEF ValidBridge, JoinedTheories
    <2> QED BY <2>1
  <1>p. ASSUME NEW p \in Members(d.participants) PROVE \A dep \in Joins(p) : dep.target \in R
    <2>1. PICK t \in theories : t.id = p.theory
      BY <1>3
    <2>2. <<"theory", p.theory>> \in R
      BY <2>1 DEF OfKind, References, Root
    <2> QED BY <2>2 DEF Dep
  <1>m. ASSUME NEW s \in Members(d.sharedSorts), NEW m \in Members(s.members)
        PROVE  \A dep \in Member(m) : dep.target \in R
    BY <1>v, MembersStand DEF Dep
  <1>s. ASSUME NEW l \in Members(d.laws), NEW p \in Members(l.parameters)
        PROVE  \A dep \in Sorted(p) : dep.target \in R
    <2>1. p.sort \in Ids(d.sharedSorts)
      BY <1>6
    <2>2. PartsNamed(d) = {Part(d, "sharedSort", x) : x \in Ids(d.sharedSorts)}
      BY DEF PartsNamed
    <2>3. Part(d, "sharedSort", p.sort) \in R
      BY <2>1, <2>2 DEF References
    <2> QED BY <2>3 DEF Dep
  <1>n. ASSUME NEW l \in Members(d.laws) PROVE \A dep \in States(l) : dep.target \in R
    <2>1. \A x \in Applications(l.left) \cup Applications(l.right) :
            \A dep \in TermDependency(TheoryOf(x.participant), x) : dep.target \in R
      BY <1>v, <1>6, BridgedApplicationsKnown
    <2>2. \A dep \in Applied(l) : dep.target \in R
      BY <2>1
    <2>3. \A p \in Members(l.parameters) : \A dep \in Sorted(p) : dep.target \in R
      BY <1>s
    <2>4. States(l) = (UNION {Sorted(p) : p \in Members(l.parameters)}) \cup Applied(l)
      OBVIOUS
    <2> HIDE DEF Applied, Sorted, States, R
    <2>5. \A dep \in UNION {Sorted(p) : p \in Members(l.parameters)} : dep.target \in R
      BY <2>3
    <2>6. ASSUME NEW dep \in States(l) PROVE dep.target \in R
      <3>1. dep \in UNION {Sorted(p) : p \in Members(l.parameters)} \/ dep \in Applied(l)
        BY <2>4
      <3> QED BY <3>1, <2>2, <2>5
    <2> QED BY <2>6
  <1>h. ASSUME NEW s \in Members(d.sharedSorts) PROVE \A dep \in Shares(s) : dep.target \in R
    <2> HIDE DEF Member
    <2> QED BY <1>m
  <1>a. Parts(FlattenSeq(A), "theoryBridge", d.id, {"participant"}, R)
    <2>1. ASSUME NEW p \in Members(d.participants)
          PROVE  PartIn(Joined(p), "theoryBridge", d.id, "participant", p.id, R)
      <3> DEFINE h == Joined(p)
      <3>1. DraftedAt(h, <<"theoryBridge", d.id, "participant", p.id>>, R)
        <4> HIDE DEF Joins, R
        <4> QED BY <1>p, DraftIsAt DEF Part
      <3> HIDE DEF h
      <3>2. PartIn(h, "theoryBridge", d.id, "participant", p.id, R)
        BY <3>1, BarePart
      <3> QED BY <3>2 DEF h
    <2>2. \A i \in DOMAIN d.participants :
             PartIn(A[i], "theoryBridge", d.id, "participant", d.participants[i].id, R)
      <3> TAKE i \in DOMAIN d.participants
      <3>1. d.participants[i] \in Members(d.participants) /\ A[i] = Joined(d.participants[i])
        BY DEF Members
      <3> HIDE DEF A, Joined
      <3> QED BY <3>1, <2>1
    <2>3. DOMAIN A = DOMAIN d.participants /\ A = [i \in DOMAIN A |-> A[i]]
      OBVIOUS
    <2> HIDE DEF A
    <2>4. Level(A, d.participants, "theoryBridge", d.id, "participant", R)
      BY <1>2, <1>3, <2>2, <2>3 DEF Level
    <2> QED BY <2>4, LevelAt
  <1>b. Parts(FlattenSeq(B), "theoryBridge", d.id, {"sharedSort"}, R)
        /\ {<<"theoryBridge", d.id, "sharedSort", n>> : n \in Ids(d.sharedSorts)} \subseteq {x.address : x \in Members(FlattenSeq(B))}
    <2>1. ASSUME NEW s \in Members(d.sharedSorts)
          PROVE  PartIn(HeadS(s) \o FlattenSeq(BelowS(s)), "theoryBridge", d.id, "sharedSort", s.id, R)
      <3> DEFINE a == <<"theoryBridge", d.id, "sharedSort", s.id>>
                 h == HeadS(s)
                 L == BelowS(s)
                 f == FlattenSeq(L)
                 u == [i \in DOMAIN s.members |-> s.members[i].participant]
                 v == [i \in DOMAIN s.members |-> s.members[i].sort]
      <3>1. Part(d, "sharedSort", s.id) = a
        BY DEF Part
      <3>2. DraftedAt(h, a, R)
        <4> HIDE DEF Shares, R
        <4> QED BY <3>1, <1>h, DraftIsAt
      <3>3. ASSUME NEW i \in DOMAIN s.members PROVE DraftedAt(L[i], Sub(a, u[i], v[i]), R)
        <4>1. \A dep \in Member(s.members[i]) : dep.target \in R
          BY <1>m DEF Members
        <4>2. DraftedAt(LeafS(s, s.members[i]), Sub(a, s.members[i].participant, s.members[i].sort), R)
          <5> HIDE DEF Member, R
          <5> QED BY <3>1, <4>1, DraftIsAt
        <4> QED BY <4>2
      <3>4. \A i, j \in DOMAIN s.members : u[i] = u[j] /\ v[i] = v[j] => i = j
        <4>1. Unique(u)
          BY <1>5
        <4>2. DOMAIN u = DOMAIN s.members
          OBVIOUS
        <4> HIDE DEF u, v
        <4> QED BY <4>1, <4>2 DEF Unique
      <3>5. DOMAIN L = DOMAIN s.members /\ L = [i \in DOMAIN L |-> L[i]]
        OBVIOUS
      <3> HIDE DEF L, u, v
      <3>6. Leaves(L, s.members, "theoryBridge", d.id, "sharedSort", s.id, u, v, R)
        BY <1>2, <3>3, <3>4, <3>5 DEF Leaves
      <3>7. /\ Sound(f, R) /\ Under(f, "theoryBridge", d.id, "sharedSort", s.id)
            /\ \A x \in Members(f) : Len(x.address) = 6
        BY <3>6, LeavesAt
      <3> HIDE DEF h, f
      <3>8. PartIn(h \o f, "theoryBridge", d.id, "sharedSort", s.id, R)
        BY <3>2, <3>7, HeadAt
      <3> QED BY <3>8 DEF h, f, L
    <2>2. \A i \in DOMAIN d.sharedSorts :
             PartIn(B[i], "theoryBridge", d.id, "sharedSort", d.sharedSorts[i].id, R)
      <3> TAKE i \in DOMAIN d.sharedSorts
      <3>1. /\ d.sharedSorts[i] \in Members(d.sharedSorts)
            /\ B[i] = HeadS(d.sharedSorts[i]) \o FlattenSeq(BelowS(d.sharedSorts[i]))
        BY DEF Members
      <3> HIDE DEF B, BelowS, HeadS
      <3> QED BY <3>1, <2>1
    <2>3. DOMAIN B = DOMAIN d.sharedSorts /\ B = [i \in DOMAIN B |-> B[i]]
      OBVIOUS
    <2> HIDE DEF B
    <2>4. Level(B, d.sharedSorts, "theoryBridge", d.id, "sharedSort", R)
      BY <1>2, <1>3, <2>2, <2>3 DEF Level
    <2> QED BY <2>4, LevelAt
  <1>c. Parts(FlattenSeq(C), "theoryBridge", d.id, {"law"}, R)
    <2>1. ASSUME NEW l \in Members(d.laws)
          PROVE  PartIn(HeadL(l) \o FlattenSeq(BelowL(l)), "theoryBridge", d.id, "law", l.id, R)
      <3> DEFINE a == <<"theoryBridge", d.id, "law", l.id>>
                 h == HeadL(l)
                 L == BelowL(l)
                 f == FlattenSeq(L)
                 u == [i \in DOMAIN l.parameters |-> "parameter"]
                 v == [i \in DOMAIN l.parameters |-> l.parameters[i].id]
      <3>1. Part(d, "law", l.id) = a
        BY DEF Part
      <3>2. DraftedAt(h, a, R)
        <4> HIDE DEF States, R
        <4> QED BY <3>1, <1>n, DraftIsAt
      <3>3. ASSUME NEW i \in DOMAIN l.parameters PROVE DraftedAt(L[i], Sub(a, u[i], v[i]), R)
        <4>1. \A dep \in Sorted(l.parameters[i]) : dep.target \in R
          BY <1>s DEF Members
        <4>2. DraftedAt(LeafL(l, l.parameters[i]), Sub(a, "parameter", l.parameters[i].id), R)
          <5> HIDE DEF Sorted, R
          <5> QED BY <3>1, <4>1, DraftIsAt
        <4> QED BY <4>2
      <3>4. \A i, j \in DOMAIN l.parameters : u[i] = u[j] /\ v[i] = v[j] => i = j
        BY <1>6 DEF UniqueIds
      <3>5. DOMAIN L = DOMAIN l.parameters /\ L = [i \in DOMAIN L |-> L[i]]
        OBVIOUS
      <3> HIDE DEF L, u, v
      <3>6. Leaves(L, l.parameters, "theoryBridge", d.id, "law", l.id, u, v, R)
        BY <1>4, <3>3, <3>4, <3>5 DEF Leaves
      <3>7. /\ Sound(f, R) /\ Under(f, "theoryBridge", d.id, "law", l.id)
            /\ \A x \in Members(f) : Len(x.address) = 6
        BY <3>6, LeavesAt
      <3> HIDE DEF h, f
      <3>8. PartIn(h \o f, "theoryBridge", d.id, "law", l.id, R)
        BY <3>2, <3>7, HeadAt
      <3> QED BY <3>8 DEF h, f, L
    <2>2. \A i \in DOMAIN d.laws : PartIn(C[i], "theoryBridge", d.id, "law", d.laws[i].id, R)
      <3> TAKE i \in DOMAIN d.laws
      <3>1. d.laws[i] \in Members(d.laws) /\ C[i] = HeadL(d.laws[i]) \o FlattenSeq(BelowL(d.laws[i]))
        BY DEF Members
      <3> HIDE DEF C, BelowL, HeadL
      <3> QED BY <3>1, <2>1
    <2>3. DOMAIN C = DOMAIN d.laws /\ C = [i \in DOMAIN C |-> C[i]]
      OBVIOUS
    <2> HIDE DEF C
    <2>4. Level(C, d.laws, "theoryBridge", d.id, "law", R)
      BY <1>3, <1>4, <2>2, <2>3 DEF Level
    <2> QED BY <2>4, LevelAt
  <1>8. DraftedAt(root, Root(d), R)
    <2>1. \A dep \in Needs : dep.target \in R
      <3> HIDE DEF Joins, Shares, States
      <3> QED BY <1>p, <1>h, <1>n
    <2> HIDE DEF Needs, R
    <2> QED BY <2>1, DraftIsAt
  <1> DEFINE FA == FlattenSeq(A)
             FB == FlattenSeq(B)
             FC == FlattenSeq(C)
             AB == FA \o FB
             ABC == AB \o FC
             T1 == {"participant"}
             T2 == {"sharedSort"}
             T3 == {"law"}
             T4 == {"participant", "sharedSort"}
             T5 == {"participant", "sharedSort", "law"}
  <1>t. T1 \cap T2 = {} /\ T4 \cap T3 = {} /\ T4 = T1 \cup T2 /\ T5 = T4 \cup T3
    OBVIOUS
  <1>f. /\ Parts(FA, "theoryBridge", d.id, T1, R) /\ Parts(FB, "theoryBridge", d.id, T2, R)
        /\ Parts(FC, "theoryBridge", d.id, T3, R)
    BY <1>a, <1>b, <1>c
  <1>q. PartsNamed(d) \subseteq {x.address : x \in Members(FB)}
    <2>1. PartsNamed(d) = {<<"theoryBridge", d.id, "sharedSort", n>> : n \in Ids(d.sharedSorts)}
      BY DEF PartsNamed, Part
    <2> HIDE DEF B
    <2> QED BY <2>1, <1>b
  <1> HIDE DEF A, B, C, FA, FB, FC, T1, T2, T3, T4, T5
  <1>9. Parts(AB, "theoryBridge", d.id, T4, R) /\ Members(AB) = Members(FA) \cup Members(FB)
    <2>1. Differ(FA, FB, "theoryBridge", d.id, T1, T2, T4, R)
      BY <1>f, <1>t DEF Differ
    <2> QED BY <2>1, TagsSound
  <1> HIDE DEF AB
  <1>10. Parts(ABC, "theoryBridge", d.id, T5, R) /\ Members(ABC) = Members(AB) \cup Members(FC)
    <2>1. Differ(AB, FC, "theoryBridge", d.id, T4, T3, T5, R)
      BY <1>9, <1>f, <1>t DEF Differ
    <2> QED BY <2>1, TagsSound
  <1>11. PartsNamed(d) \subseteq {x.address : x \in Members(ABC)}
    <2>1. Members(FB) \subseteq Members(ABC)
      BY <1>9, <1>10
    <2>2. {x.address : x \in Members(FB)} \subseteq {x.address : x \in Members(ABC)}
      BY <2>1
    <2> HIDE DEF ABC
    <2> QED BY <2>2, <1>q
  <1> HIDE DEF root, ABC
  <1>12. DraftedFor(ABC \o root, d, document)
    BY <1>8, <1>10, <1>11, RootAt
  <1> QED BY <1>1, <1>12 DEF ABC, AB, FA, FB, FC
-----------------------------------------------------------------------------
(* A transition of a checked machine: an operation, and no initializer.    *)
LEMMA TransitionOfMachine ==
  ASSUME NEW m, DecodesDeclaration(m), m.kind = "stateMachine", UniqueIds(Operations(m)),
         NEW o \in Members(m.transitions)
  PROVE  o \in Members(Operations(m)) /\ o.id \notin Ids(m.initializers)
  <1> DEFINE S == Members(m.initializers) \cup Members(m.transitions)
             a == m.initializers
             b == m.transitions
  <1>1. IsList(a) /\ IsList(b)
    <2>1. DecodesOperations(m.initializers) /\ DecodesOperations(m.transitions)
      BY DEF DecodesDeclaration
    <2> QED BY <2>1 DEF DecodesOperations
  <1>2. a \in Seq(S) /\ b \in Seq(S)
    <2>1. Members(a) \subseteq S /\ Members(b) \subseteq S
      OBVIOUS
    <2> HIDE DEF S
    <2> QED BY <1>1, <2>1 DEF IsList
  <1>3. /\ a \o b \in Seq(S) /\ Len(a \o b) = Len(a) + Len(b)
        /\ \A j \in 1..Len(a) : (a \o b)[j] = a[j]
        /\ \A j \in 1..Len(b) : (a \o b)[Len(a) + j] = b[j]
    <2> HIDE DEF S, a, b
    <2> QED BY <1>2, Appended
  <1> DEFINE w == a \o b
  <1>4. Len(a) \in Nat /\ Len(b) \in Nat /\ DOMAIN a = 1..Len(a) /\ DOMAIN b = 1..Len(b) /\ DOMAIN w = 1..Len(w)
    <2> HIDE DEF S, a, b
    <2> QED BY <1>1, <1>3, ListFacts
  <1>5. PICK j \in 1..Len(b) : o = b[j]
    BY <1>4 DEF Members
  <1> HIDE DEF a, b, S
  <1>6. Len(a) + j \in DOMAIN w /\ w[Len(a) + j] = o
    <2>1. Len(a) + j \in 1..(Len(a) + Len(b))
      BY <1>4
    <2> QED BY <2>1, <1>3, <1>4, <1>5
  <1>7. ASSUME NEW i \in 1..Len(a) PROVE a[i].id # o.id
    <2>1. i \in DOMAIN w /\ w[i] = a[i] /\ i # Len(a) + j
      BY <1>3, <1>4
    <2>2. UniqueIds(w)
      BY DEF Operations, a, b
    <2> HIDE DEF w
    <2> QED BY <2>1, <2>2, <1>6 DEF UniqueIds
  <1>8. w = Operations(m)
    BY DEF Operations, a, b
  <1>9. o \in Members(w)
    <2> HIDE DEF w
    <2> QED BY <1>6 DEF Members
  <1>10. o.id \notin Ids(a)
    BY <1>7, <1>4 DEF Ids
  <1> QED BY <1>8, <1>9, <1>10 DEF a

(* A requirement of a realization.                                         *)
LEMMA RealizationDrafted ==
  ASSUME NEW document, Decodes(document), ValidateCore(document),
         NEW d \in Members(document), d.kind = "operationRealization"
  PROVE  DraftedFor(RealizationDrafts(d), d, document)
  <1> DEFINE R == References(document)
             k == "operationRealization"
             operation == Part(d, "operation", "operation")
             disabled == Part(d, "disabled", d.disabled)
             Requires(r) == Part(d, "requirement", r.capability)
             Of == Dep("state-operation", <<"stateMachine", d.machine, "transition", d.operation>>)
             Needs(r) == Dep("capability-requirement", <<"capability", r.capability>>)
             One(r) == Draft(Requires(r), "capabilityRequirement", r, d, Needs(r))
             h == Draft(operation, "operation", [machine |-> d.machine, operation |-> d.operation], d, Of)
             S == [i \in DOMAIN d.requires |-> One(d.requires[i])]
             e == Draft(disabled, "disabled", [id |-> d.disabled], d, {})
             All == UNION {Dep("construct-member", a) :
                           a \in {operation, disabled} \cup {Requires(r) : r \in Members(d.requires)}}
             root == Draft(Root(d), d.kind, [id |-> d.id], d, All)
  <1>1. RealizationDrafts(d) = ((h \o FlattenSeq(S)) \o e) \o root
    BY DEF RealizationDrafts, Each
  <1>v. DecodesDeclaration(d) /\ ValidRealization(d, document)
    BY CheckedDeclaration DEF ValidDeclaration
  <1>2. IsList(d.requires)
    BY <1>v DEF DecodesDeclaration
  <1>3. Unique([i \in DOMAIN d.requires |-> d.requires[i].capability])
    BY <1>v DEF ValidRealization
  <1>4. \A r \in Members(d.requires) : <<"capability", r.capability>> \in R
    <2> TAKE r \in Members(d.requires)
    <2>1. PICK c \in OfKind(document, "capability") : c.id = r.capability
      BY <1>v DEF ValidRealization
    <2> QED BY <2>1 DEF OfKind, References, Root
  <1>5. <<"stateMachine", d.machine, "transition", d.operation>> \in R
    <2>1. PICK m \in OfKind(document, "stateMachine") :
            m.id = d.machine /\ d.operation \in Ids(m.transitions)
      BY <1>v DEF ValidRealization
    <2>2. m \in Members(document) /\ m.kind = "stateMachine"
      BY DEF OfKind
    <2>3. PICK o \in Members(m.transitions) : o.id = d.operation
      BY <2>1 DEF Ids, Members
    <2>4. DecodesDeclaration(m) /\ ValidDeclaration(m, document)
      BY <2>2, CheckedDeclaration
    <2>5. UniqueIds(Operations(m))
      BY <2>2, <2>4 DEF ValidDeclaration, ValidMachine
    <2>6. o \in Members(Operations(m)) /\ o.id \notin Ids(m.initializers)
      BY <2>2, <2>4, <2>5, TransitionOfMachine
    <2>7. Part(m, Relation(m, o), o.id) = <<"stateMachine", d.machine, "transition", d.operation>>
      BY <2>1, <2>2, <2>3, <2>6 DEF Part, Relation
    <2>8. Part(m, Relation(m, o), o.id) \in PartsNamed(m)
      BY <2>2, <2>6 DEF PartsNamed
    <2> QED BY <2>2, <2>7, <2>8 DEF References
  <1>6. /\ operation = <<k, d.id, "operation", "operation">> /\ disabled = <<k, d.id, "disabled", d.disabled>>
        /\ \A r \in Members(d.requires) : Requires(r) = <<k, d.id, "requirement", r.capability>>
    BY DEF Part
  <1>7. Parts(h, k, d.id, {"operation"}, R) /\ operation \in {x.address : x \in Members(h)}
    <2>1. \A dep \in Of : dep.target \in R
      BY <1>5 DEF Dep
    <2>2. DraftedAt(h, operation, R)
      <3> HIDE DEF Of, operation, R
      <3> QED BY <2>1, DraftIsAt
    <2>3. DraftedAt(h, <<k, d.id, "operation", "operation">>, R)
      BY <2>2, <1>6
    <2> HIDE DEF h, k, operation
    <2>4. Parts(h, k, d.id, {"operation"}, R)
      BY <2>3, BareParts
    <2> QED BY <2>2, <2>4 DEF DraftedAt
  <1>8. Parts(e, k, d.id, {"disabled"}, R) /\ disabled \in {x.address : x \in Members(e)}
    <2>2. DraftedAt(e, disabled, R)
      <3> HIDE DEF disabled, R
      <3> QED BY DraftIsAt
    <2>3. DraftedAt(e, <<k, d.id, "disabled", d.disabled>>, R)
      BY <2>2, <1>6
    <2> HIDE DEF e, k, disabled
    <2>4. Parts(e, k, d.id, {"disabled"}, R)
      BY <2>3, BareParts
    <2> QED BY <2>2, <2>4 DEF DraftedAt
  <1>9. /\ Parts(FlattenSeq(S), k, d.id, {"requirement"}, R)
        /\ \A r \in Members(d.requires) : \E x \in Members(FlattenSeq(S)) : x.address = Requires(r)
    <2> DEFINE key == [i \in DOMAIN d.requires |-> d.requires[i].capability]
               tag == [i \in DOMAIN d.requires |-> "requirement"]
               T == {"requirement"}
    <2>1. ASSUME NEW r \in Members(d.requires)
          PROVE  PartIn(One(r), k, d.id, "requirement", r.capability, R)
      <3> DEFINE one == One(r)
      <3>1. \A dep \in Needs(r) : dep.target \in R
        BY <1>4 DEF Dep
      <3>2. DraftedAt(one, Requires(r), R)
        <4> HIDE DEF Needs, R, Requires
        <4> QED BY <3>1, DraftIsAt
      <3>3. DraftedAt(one, <<k, d.id, "requirement", r.capability>>, R)
        BY <3>2, <1>6
      <3> HIDE DEF one, k
      <3>4. PartIn(one, k, d.id, "requirement", r.capability, R)
        BY <3>3, BarePart
      <3> QED BY <3>4 DEF one
    <2>2. ASSUME NEW i \in DOMAIN d.requires
          PROVE  tag[i] \in T /\ PartIn(S[i], k, d.id, tag[i], key[i], R)
      <3>1. d.requires[i] \in Members(d.requires)
        BY DEF Members
      <3>2. S[i] = One(d.requires[i]) /\ tag[i] = "requirement" /\ key[i] = d.requires[i].capability
            /\ tag[i] \in T
        OBVIOUS
      <3> HIDE DEF S, tag, key, T, One
      <3> QED BY <3>1, <3>2, <2>1
    <2>3. DOMAIN S = DOMAIN d.requires /\ S = [i \in DOMAIN S |-> S[i]]
      OBVIOUS
    <2>4. \A i, j \in DOMAIN d.requires : key[i] = key[j] => i = j
      <3>1. DOMAIN key = DOMAIN d.requires /\ Unique(key)
        BY <1>3
      <3> HIDE DEF key
      <3> QED BY <3>1 DEF Unique
    <2>5. \A i \in DOMAIN d.requires : tag[i] = "requirement" /\ key[i] = d.requires[i].capability
      OBVIOUS
    <2> HIDE DEF S, key, tag, T
    <2>6. Keyed(S, d.requires, k, d.id, tag, key, T, R)
      BY <1>2, <2>2, <2>3, <2>4 DEF Keyed
    <2>7. Parts(FlattenSeq(S), k, d.id, T, R)
      BY <2>6, KeyedAt
    <2>k. HasParts(FlattenSeq(S), d.requires, k, d.id, tag, key)
      BY <2>6, KeyedAt
    <2>8. ASSUME NEW r \in Members(d.requires)
          PROVE  \E x \in Members(FlattenSeq(S)) : x.address = Requires(r)
      <3>1. PICK i \in DOMAIN d.requires : r = d.requires[i]
        BY DEF Members
      <3>2. Requires(r) = <<k, d.id, tag[i], key[i]>>
        BY <3>1, <2>5, <1>6
      <3> HIDE DEF Requires
      <3> QED BY <3>1, <3>2, <2>k DEF HasParts
    <2> QED BY <2>7, <2>8 DEF T
  <1> DEFINE F == FlattenSeq(S)
             HS == h \o F
             HSE == HS \o e
             T1 == {"operation"}
             T2 == {"requirement"}
             T3 == {"disabled"}
             T4 == {"operation", "requirement"}
             T5 == {"operation", "requirement", "disabled"}
  <1>t. T1 \cap T2 = {} /\ T4 \cap T3 = {} /\ T4 = T1 \cup T2 /\ T5 = T4 \cup T3
    OBVIOUS
  <1>f. Parts(h, k, d.id, T1, R) /\ Parts(F, k, d.id, T2, R) /\ Parts(e, k, d.id, T3, R)
    BY <1>7, <1>8, <1>9
  <1>p. PartsNamed(d) = {operation, disabled} \cup {Requires(r) : r \in Members(d.requires)}
    BY DEF PartsNamed
  <1>r. DraftedAt(root, Root(d), R)
    <2>1. \A dep \in All : dep.target \in R
      <3>1. PartsNamed(d) \subseteq R
        BY DEF References
      <3> HIDE DEF operation, disabled, Requires, R
      <3> QED BY <3>1, <1>p DEF Dep
    <2> HIDE DEF All, R
    <2> QED BY <2>1, DraftIsAt
  <1>g. \A r \in Members(d.requires) : Requires(r) \in {x.address : x \in Members(F)}
    BY <1>9
  <1>u. operation \in {x.address : x \in Members(h)} /\ disabled \in {x.address : x \in Members(e)}
    BY <1>7, <1>8
  <1>z. HSE = ((h \o FlattenSeq(S)) \o e) /\ d.kind = k
    OBVIOUS
  <1> HIDE DEF h, F, e, S, T1, T2, T3, T4, T5, k, operation, disabled, Requires, root
  <1>10. Parts(HS, k, d.id, T4, R) /\ Members(HS) = Members(h) \cup Members(F)
    <2>1. Differ(h, F, k, d.id, T1, T2, T4, R)
      BY <1>f, <1>t DEF Differ
    <2> QED BY <2>1, TagsSound
  <1> HIDE DEF HS
  <1>11. Parts(HSE, k, d.id, T5, R) /\ Members(HSE) = Members(HS) \cup Members(e)
    <2>1. Differ(HS, e, k, d.id, T4, T3, T5, R)
      BY <1>10, <1>f, <1>t DEF Differ
    <2> QED BY <2>1, TagsSound
  <1> HIDE DEF HSE
  <1>12. PartsNamed(d) \subseteq {x.address : x \in Members(HSE)}
    <2> DEFINE V == {x.address : x \in Members(HSE)}
    <2>1. /\ \A y \in {x.address : x \in Members(h)} : y \in V
          /\ \A y \in {x.address : x \in Members(F)} : y \in V
          /\ \A y \in {x.address : x \in Members(e)} : y \in V
      BY <1>10, <1>11
    <2> HIDE DEF V
    <2>2. PartsNamed(d) \subseteq V
      BY <2>1, <1>p, <1>g, <1>u
    <2> QED BY <2>2 DEF V
  <1>13. DraftedFor(HSE \o root, d, document)
    BY <1>r, <1>11, <1>12, <1>z, RootAt
  <1> QED BY <1>1, <1>13, <1>z
(* A finite model.                                                         *)
LEMMA ModelDrafted ==
  ASSUME NEW document, Decodes(document), ValidateCore(document),
         NEW d \in Members(document), d.kind = "finiteModel"
  PROVE  DraftedFor(ModelDrafts(d), d, document)
  <1> DEFINE R == References(document)
             Carried(c) == Dep("theory-reference", <<"theory", d.theory, "sort", c.id>>)
             Interprets(o) == Dep("theory-reference", <<"theory", d.theory, "operation", o.id>>)
             HeadC(c) == Draft(Part(d, "carrier", c.id), "carrier", c, d, Carried(c))
             LeafC(c, e) == Draft(Sub(Part(d, "carrier", c.id), "element", e), "element", [id |-> e], d, Carried(c))
             BelowC(c) == [i \in DOMAIN c.elements |-> LeafC(c, c.elements[i])]
             HeadO(o) == Draft(Part(d, "operation", o.id), "operation", o, d, Interprets(o))
             LeafO(o, r) == Draft(Sub(Part(d, "operation", o.id), "row", r.arguments), "row", r, d, Interprets(o))
             BelowO(o) == [i \in DOMAIN o.rows |-> LeafO(o, o.rows[i])]
             A == [i \in DOMAIN d.carriers |-> HeadC(d.carriers[i]) \o FlattenSeq(BelowC(d.carriers[i]))]
             B == [i \in DOMAIN d.operations |-> HeadO(d.operations[i]) \o FlattenSeq(BelowO(d.operations[i]))]
             Needs == Dep("model-theory", <<"theory", d.theory>>)
             root == Draft(Root(d), d.kind, d, d, Needs)
  <1>1. ModelDrafts(d) = (FlattenSeq(A) \o FlattenSeq(B)) \o root
    BY DEF ModelDrafts, Each
  <1>v. DecodesDeclaration(d) /\ \E t \in OfKind(document, "theory") : t.id = d.theory /\ ValidModel(d, t)
    BY CheckedDeclaration DEF ValidDeclaration
  <1>2. /\ IsList(d.carriers) /\ IsList(d.operations)
        /\ \A c \in Members(d.carriers) : IsList(c.elements)
        /\ \A o \in Members(d.operations) : IsList(o.rows)
    BY <1>v DEF DecodesDeclaration
  <1>3. PICK t \in OfKind(document, "theory") : t.id = d.theory /\ ValidModel(d, t)
    BY <1>v
  <1>4. t \in Members(document) /\ t.kind = "theory"
    BY DEF OfKind
  <1>5. /\ UniqueIds(d.carriers) /\ UniqueIds(d.operations)
        /\ Ids(d.carriers) = Ids(t.sorts) /\ Ids(d.operations) = Ids(t.operations)
        /\ \A c \in Members(d.carriers) : Unique(c.elements)
    BY <1>3 DEF ValidModel
  <1>6. ASSUME NEW o \in Members(d.operations)
        PROVE  Unique([i \in DOMAIN o.rows |-> o.rows[i].arguments])
    <2>1. o.id \in Ids(d.operations)
      BY DEF Ids, Members
    <2>2. PICK op \in Members(t.operations) : op.id = o.id
      BY <2>1, <1>5 DEF Ids, Members
    <2>3. Named(d.operations, op.id) \in Members(d.operations) /\ Named(d.operations, op.id).id = o.id
      BY <2>1, <2>2, NamedIs
    <2>4. Named(d.operations, op.id) = o
      BY <2>3, <1>5 DEF UniqueIds, Members
    <2> DEFINE rows == Named(d.operations, op.id).rows
    <2>5. Unique([i \in DOMAIN rows |-> rows[i].arguments])
      BY <1>3 DEF ValidModel
    <2> QED BY <2>4, <2>5
  <1>c. ASSUME NEW c \in Members(d.carriers) PROVE \A dep \in Carried(c) : dep.target \in R
    <2>1. c.id \in Ids(t.sorts)
      BY <1>5 DEF Ids, Members
    <2>2. <<"theory", d.theory, "sort", c.id>> \in R
      BY <2>1, <1>3, <1>4, PartsOfTheory
    <2> QED BY <2>2 DEF Dep
  <1>o. ASSUME NEW o \in Members(d.operations) PROVE \A dep \in Interprets(o) : dep.target \in R
    <2>1. o.id \in Ids(t.operations)
      BY <1>5 DEF Ids, Members
    <2>2. <<"theory", d.theory, "operation", o.id>> \in R
      BY <2>1, <1>3, <1>4, PartsOfTheory
    <2> QED BY <2>2 DEF Dep
  <1>a. Parts(FlattenSeq(A), "finiteModel", d.id, {"carrier"}, R)
    <2>1. ASSUME NEW c \in Members(d.carriers)
          PROVE  PartIn(HeadC(c) \o FlattenSeq(BelowC(c)), "finiteModel", d.id, "carrier", c.id, R)
      <3> DEFINE a == <<"finiteModel", d.id, "carrier", c.id>>
                 h == HeadC(c)
                 L == BelowC(c)
                 f == FlattenSeq(L)
                 u == [i \in DOMAIN c.elements |-> "element"]
                 v == [i \in DOMAIN c.elements |-> c.elements[i]]
      <3>1. Part(d, "carrier", c.id) = a
        BY DEF Part
      <3>2. DraftedAt(h, a, R)
        <4> HIDE DEF Carried, R
        <4> QED BY <3>1, <1>c, DraftIsAt
      <3>3. ASSUME NEW i \in DOMAIN c.elements PROVE DraftedAt(L[i], Sub(a, u[i], v[i]), R)
        <4>2. DraftedAt(LeafC(c, c.elements[i]), Sub(a, "element", c.elements[i]), R)
          <5> HIDE DEF Carried, R
          <5> QED BY <3>1, <1>c, DraftIsAt
        <4> QED BY <4>2
      <3>4. \A i, j \in DOMAIN c.elements : u[i] = u[j] /\ v[i] = v[j] => i = j
        BY <1>5 DEF Unique
      <3>5. DOMAIN L = DOMAIN c.elements /\ L = [i \in DOMAIN L |-> L[i]]
        OBVIOUS
      <3> HIDE DEF L, u, v
      <3>6. Leaves(L, c.elements, "finiteModel", d.id, "carrier", c.id, u, v, R)
        BY <1>2, <3>3, <3>4, <3>5 DEF Leaves
      <3>7. /\ Sound(f, R) /\ Under(f, "finiteModel", d.id, "carrier", c.id)
            /\ \A x \in Members(f) : Len(x.address) = 6
        BY <3>6, LeavesAt
      <3> HIDE DEF h, f
      <3>8. PartIn(h \o f, "finiteModel", d.id, "carrier", c.id, R)
        BY <3>2, <3>7, HeadAt
      <3> QED BY <3>8 DEF h, f, L
    <2>2. \A i \in DOMAIN d.carriers :
             PartIn(A[i], "finiteModel", d.id, "carrier", d.carriers[i].id, R)
      <3> TAKE i \in DOMAIN d.carriers
      <3>1. /\ d.carriers[i] \in Members(d.carriers)
            /\ A[i] = HeadC(d.carriers[i]) \o FlattenSeq(BelowC(d.carriers[i]))
        BY DEF Members
      <3> HIDE DEF A, BelowC, HeadC
      <3> QED BY <3>1, <2>1
    <2>3. DOMAIN A = DOMAIN d.carriers /\ A = [i \in DOMAIN A |-> A[i]]
      OBVIOUS
    <2> HIDE DEF A
    <2>4. Level(A, d.carriers, "finiteModel", d.id, "carrier", R)
      BY <1>2, <1>5, <2>2, <2>3 DEF Level
    <2> QED BY <2>4, LevelAt
  <1>b. Parts(FlattenSeq(B), "finiteModel", d.id, {"operation"}, R)
    <2>1. ASSUME NEW o \in Members(d.operations)
          PROVE  PartIn(HeadO(o) \o FlattenSeq(BelowO(o)), "finiteModel", d.id, "operation", o.id, R)
      <3> DEFINE a == <<"finiteModel", d.id, "operation", o.id>>
                 h == HeadO(o)
                 L == BelowO(o)
                 f == FlattenSeq(L)
                 u == [i \in DOMAIN o.rows |-> "row"]
                 v == [i \in DOMAIN o.rows |-> o.rows[i].arguments]
      <3>1. Part(d, "operation", o.id) = a
        BY DEF Part
      <3>2. DraftedAt(h, a, R)
        <4> HIDE DEF Interprets, R
        <4> QED BY <3>1, <1>o, DraftIsAt
      <3>3. ASSUME NEW i \in DOMAIN o.rows PROVE DraftedAt(L[i], Sub(a, u[i], v[i]), R)
        <4>2. DraftedAt(LeafO(o, o.rows[i]), Sub(a, "row", o.rows[i].arguments), R)
          <5> HIDE DEF Interprets, R
          <5> QED BY <3>1, <1>o, DraftIsAt
        <4> QED BY <4>2
      <3>4. \A i, j \in DOMAIN o.rows : u[i] = u[j] /\ v[i] = v[j] => i = j
        <4>1. Unique(v) /\ DOMAIN v = DOMAIN o.rows
          BY <1>6
        <4> HIDE DEF u, v
        <4> QED BY <4>1 DEF Unique
      <3>5. DOMAIN L = DOMAIN o.rows /\ L = [i \in DOMAIN L |-> L[i]]
        OBVIOUS
      <3> HIDE DEF L, u, v
      <3>6. Leaves(L, o.rows, "finiteModel", d.id, "operation", o.id, u, v, R)
        BY <1>2, <3>3, <3>4, <3>5 DEF Leaves
      <3>7. /\ Sound(f, R) /\ Under(f, "finiteModel", d.id, "operation", o.id)
            /\ \A x \in Members(f) : Len(x.address) = 6
        BY <3>6, LeavesAt
      <3> HIDE DEF h, f
      <3>8. PartIn(h \o f, "finiteModel", d.id, "operation", o.id, R)
        BY <3>2, <3>7, HeadAt
      <3> QED BY <3>8 DEF h, f, L
    <2>2. \A i \in DOMAIN d.operations :
             PartIn(B[i], "finiteModel", d.id, "operation", d.operations[i].id, R)
      <3> TAKE i \in DOMAIN d.operations
      <3>1. /\ d.operations[i] \in Members(d.operations)
            /\ B[i] = HeadO(d.operations[i]) \o FlattenSeq(BelowO(d.operations[i]))
        BY DEF Members
      <3> HIDE DEF B, BelowO, HeadO
      <3> QED BY <3>1, <2>1
    <2>3. DOMAIN B = DOMAIN d.operations /\ B = [i \in DOMAIN B |-> B[i]]
      OBVIOUS
    <2> HIDE DEF B
    <2>4. Level(B, d.operations, "finiteModel", d.id, "operation", R)
      BY <1>2, <1>5, <2>2, <2>3 DEF Level
    <2> QED BY <2>4, LevelAt
  <1>8. DraftedAt(root, Root(d), R)
    <2>1. \A dep \in Needs : dep.target \in R
      <3>1. <<"theory", d.theory>> \in R
        BY <1>3, <1>4 DEF References, Root
      <3> QED BY <3>1 DEF Dep
    <2> HIDE DEF Needs, R
    <2> QED BY <2>1, DraftIsAt
  <1> DEFINE FA == FlattenSeq(A)
             FB == FlattenSeq(B)
             AB == FA \o FB
             T1 == {"carrier"}
             T2 == {"operation"}
             T4 == {"carrier", "operation"}
  <1>t. T1 \cap T2 = {} /\ T4 = T1 \cup T2
    OBVIOUS
  <1>f. Parts(FA, "finiteModel", d.id, T1, R) /\ Parts(FB, "finiteModel", d.id, T2, R)
    BY <1>a, <1>b
  <1>q. PartsNamed(d) = {}
    BY DEF PartsNamed
  <1> HIDE DEF A, B, FA, FB, T1, T2, T4
  <1>9. Parts(AB, "finiteModel", d.id, T4, R)
    <2>1. Differ(FA, FB, "finiteModel", d.id, T1, T2, T4, R)
      BY <1>f, <1>t DEF Differ
    <2> QED BY <2>1, TagsSound
  <1> HIDE DEF root, AB
  <1>12. DraftedFor(AB \o root, d, document)
    BY <1>8, <1>9, <1>q, RootAt
  <1> QED BY <1>1, <1>12 DEF AB, FA, FB
-----------------------------------------------------------------------------
(* The fields that a checked predicate reads are the machine's.            *)
LEMMA PredicatesKnown ==
  ASSUME NEW document, NEW m \in Members(document), m.kind = "stateMachine",
         NEW parameters, NEW available, NEW p, ValidPredicate(m, parameters, available, p)
  PROVE  \A dep \in PredicateDependencies(m, p) : dep.target \in References(document)
  <1>1. ASSUME NEW side \in {p.left, p.right}, side.kind = "stateField"
        PROVE  Sub(Part(m, "state", m.state), "field", side.id) \in References(document)
    <2>1. StateValueType(m, parameters, available, side) = "Integer"
      BY DEF ValidPredicate
    <2>2. side.id \in Ids(m.fields)
      BY <1>1, <2>1 DEF StateValueType
    <2>3. Sub(Part(m, "state", m.state), "field", side.id) \in PartsNamed(m)
      BY <2>2 DEF PartsNamed
    <2> QED BY <2>3 DEF References
  <1> QED BY <1>1 DEF PredicateDependencies, Dep

(* An operation of a machine, with its parameters and what it requires.    *)
LEMMA OperationDrafted ==
  ASSUME NEW document, NEW R, R = References(document), NEW k, NEW id, NEW tag, NEW name, NEW d, NEW o,
         IsList(o.parameters), UniqueIds(o.parameters),
         {p.type : p \in Members(o.parameters)} \subseteq KnownTypes(document),
         IsList(o.requires), Unique(o.requires), NEW needs, \A dep \in needs : dep.target \in R,
         \A r \in Members(o.requires) : \A dep \in PredicateDependencies(d, r) : dep.target \in R
  PROVE  PartIn((Draft(<<k, id, tag, name>>, "stateOperation", o, d, needs)
                 \o ParameterDrafts(<<k, id, tag, name>>, o.parameters, d, document))
                \o FlattenSeq([i \in DOMAIN o.requires |->
                     Draft(Sub(<<k, id, tag, name>>, "requirement", o.requires[i]), "requirement",
                           o.requires[i], d, PredicateDependencies(d, o.requires[i]))]),
                k, id, tag, name, R)
  <1> DEFINE a == <<k, id, tag, name>>
             h == Draft(a, "stateOperation", o, d, needs)
             p == ParameterDrafts(a, o.parameters, d, document)
             Leaf(r) == Draft(Sub(a, "requirement", r), "requirement", r, d, PredicateDependencies(d, r))
             L == [i \in DOMAIN o.requires |-> Leaf(o.requires[i])]
             u == [i \in DOMAIN o.requires |-> "requirement"]
             v == [i \in DOMAIN o.requires |-> o.requires[i]]
             q == FlattenSeq(L)
  <1>1. FlattenSeq([i \in DOMAIN o.requires |->
          Draft(Sub(a, "requirement", o.requires[i]), "requirement",
                o.requires[i], d, PredicateDependencies(d, o.requires[i]))]) = q
    OBVIOUS
  <1>2. DraftedAt(h, a, R)
    <2> HIDE DEF a
    <2> QED BY DraftIsAt
  <1>3. /\ Sound(p, R) /\ Under(p, k, id, tag, name)
        /\ \A x \in Members(p) : Len(x.address) = 6 /\ x.address[5] = "parameter"
    BY ParametersAt
  <1>4. ASSUME NEW i \in DOMAIN o.requires PROVE DraftedAt(L[i], Sub(a, u[i], v[i]), R)
    <2>1. \A dep \in PredicateDependencies(d, o.requires[i]) : dep.target \in R
      BY DEF Members
    <2>2. DraftedAt(Leaf(o.requires[i]), Sub(a, "requirement", o.requires[i]), R)
      <3> HIDE DEF a
      <3> QED BY <2>1, DraftIsAt
    <2> QED BY <2>2
  <1>5. \A i, j \in DOMAIN o.requires : u[i] = u[j] /\ v[i] = v[j] => i = j
    BY DEF Unique
  <1>6. DOMAIN L = DOMAIN o.requires /\ L = [i \in DOMAIN L |-> L[i]]
    OBVIOUS
  <1>7. \A i \in DOMAIN o.requires : u[i] = "requirement"
    OBVIOUS
  <1> HIDE DEF L, u, v
  <1>8. Leaves(L, o.requires, k, id, tag, name, u, v, R)
    BY <1>4, <1>5, <1>6 DEF Leaves
  <1>9. /\ Sound(q, R) /\ Under(q, k, id, tag, name)
        /\ Members(q) = UNION {Members(L[i]) : i \in DOMAIN L}
        /\ \A x \in Members(q) : Len(x.address) = 6
    BY <1>8, LeavesAt
  <1>10. ASSUME NEW x \in Members(q) PROVE x.address[5] = "requirement"
    <2>1. PICK i \in DOMAIN o.requires : x \in Members(L[i])
      BY <1>6, <1>9
    <2>2. x.address = <<k, id, tag, name, u[i], v[i]>>
      BY <2>1, <1>4, SubIs DEF DraftedAt
    <2> QED BY <2>2, <1>7
  <1>11. \A x \in Members(p), y \in Members(q) : x.address # y.address
    <2> TAKE x \in Members(p), y \in Members(q)
    <2>1. x.address[5] = "parameter" /\ y.address[5] = "requirement"
      BY <1>3, <1>10
    <2> QED BY <2>1
  <1>12. \A x \in Members(h) : x.address = a /\ Len(a) = 4
    BY <1>2 DEF DraftedAt
  <1> HIDE DEF h, p, q
  <1>13. PartIn(h \o p, k, id, tag, name, R) /\ Members(h \o p) = Members(h) \cup Members(p)
    <2>1. PartIn(h \o p, k, id, tag, name, R)
      BY <1>2, <1>3, HeadAt
    <2>2. \A x \in Members(h), y \in Members(p) : x.address # y.address
      BY <1>3, <1>12
    <2>3. Members(h \o p) = Members(h) \cup Members(p)
      BY <1>2, <1>3, <2>2, JoinSound DEF DraftedAt
    <2> QED BY <2>1, <2>3
  <1> DEFINE hp == h \o p
  <1>14. \A x \in Members(hp), y \in Members(q) : x.address # y.address
    <2> TAKE x \in Members(hp), y \in Members(q)
    <2>1. CASE x \in Members(h)
      BY <2>1, <1>12, <1>9
    <2>2. CASE x \in Members(p)
      BY <2>2, <1>11
    <2> QED BY <2>1, <2>2, <1>13
  <1>15. Sound(hp, R) /\ Sound(q, R)
    BY <1>13, <1>9 DEF PartIn
  <1>16. PartIn(hp, k, id, tag, name, R)
    BY <1>13
  <1> HIDE DEF hp
  <1>17. Sound(hp \o q, R) /\ Members(hp \o q) = Members(hp) \cup Members(q)
    BY <1>14, <1>15, JoinSound
  <1>18. Under(hp \o q, k, id, tag, name) /\ \E x \in Members(hp \o q) : x.address = <<k, id, tag, name>>
    BY <1>9, <1>16, <1>17 DEF PartIn, Under
  <1>19. PartIn(hp \o q, k, id, tag, name, R)
    BY <1>17, <1>18 DEF PartIn
  <1> QED BY <1>1, <1>19 DEF hp, h, p
-----------------------------------------------------------------------------
(* A part and what is under it are parts of one tag.                       *)
LEMMA OnePart ==
  ASSUME NEW R, NEW k, NEW id, NEW tag, NEW name, NEW s, PartIn(s, k, id, tag, name, R)
  PROVE  Parts(s, k, id, {tag}, R)
  BY DEF PartIn, Parts, Under, Tagged

(* What validation and decoding give of a machine.                         *)
LEMMA CheckedMachine ==
  ASSUME NEW document, Decodes(document), ValidateCore(document),
         NEW d \in Members(document), d.kind = "stateMachine"
  PROVE  /\ IsList(d.fields) /\ UniqueIds(d.fields)
         /\ {f.type : f \in Members(d.fields)} \subseteq KnownTypes(document)
         /\ IsList(d.invariants) /\ UniqueIds(d.invariants)
         /\ IsList(Operations(d)) /\ UniqueIds(Operations(d))
         /\ \A o \in Members(Operations(d)) :
              /\ IsList(o.parameters) /\ UniqueIds(o.parameters)
              /\ IsList(o.requires) /\ Unique(o.requires)
              /\ {p.type : p \in Members(o.parameters)} \subseteq KnownTypes(document)
  <1>1. DecodesDeclaration(d) /\ ValidDeclaration(d, document)
    BY CheckedDeclaration
  <1>2. /\ IsList(d.fields) /\ IsList(d.invariants)
        /\ DecodesOperations(d.initializers) /\ DecodesOperations(d.transitions)
        /\ \A o \in Members(d.initializers) : IsList(o.requires)
        /\ \A o \in Members(d.transitions) : IsList(o.requires)
    BY <1>1 DEF DecodesDeclaration
  <1>3. /\ UniqueIds(d.fields) /\ UniqueIds(d.invariants) /\ UniqueIds(Operations(d))
        /\ {f.type : f \in Members(d.fields)} \subseteq KnownTypes(document)
        /\ \A o \in Members(Operations(d)) :
             /\ UniqueIds(o.parameters) /\ Unique(o.requires)
             /\ {p.type : p \in Members(o.parameters)} \subseteq KnownTypes(document)
    BY <1>1 DEF ValidDeclaration, ValidMachine
  <1>4. IsList(Operations(d)) /\ Members(Operations(d)) = Members(d.initializers) \cup Members(d.transitions)
    BY <1>2, AppendedLists DEF DecodesOperations, Operations
  <1>5. \A o \in Members(Operations(d)) : IsList(o.parameters) /\ IsList(o.requires)
    BY <1>2, <1>4 DEF DecodesOperations
  <1> QED BY <1>2, <1>3, <1>4, <1>5

(* What a checked machine's operations and invariants read is there.       *)
LEMMA MachineReadsKnown ==
  ASSUME NEW document, Decodes(document), ValidateCore(document),
         NEW d \in Members(document), d.kind = "stateMachine"
  PROVE  /\ \A o \in Members(Operations(d)) : \A r \in Members(o.requires) :
              \A dep \in PredicateDependencies(d, r) : dep.target \in References(document)
         /\ \A i \in Members(d.invariants) :
              \A dep \in PredicateDependencies(d, i.proposition) : dep.target \in References(document)
  <1>1. ValidMachine(d, KnownTypes(document))
    BY CheckedDeclaration DEF ValidDeclaration
  <1>2. ASSUME NEW o \in Members(Operations(d)), NEW r \in Members(o.requires)
        PROVE  \A dep \in PredicateDependencies(d, r) : dep.target \in References(document)
    <2>1. ValidPredicate(d, o.parameters, o.id \in Ids(d.transitions), r)
      BY <1>1 DEF ValidMachine
    <2> QED BY <2>1, PredicatesKnown
  <1>3. ASSUME NEW i \in Members(d.invariants)
        PROVE  \A dep \in PredicateDependencies(d, i.proposition) : dep.target \in References(document)
    <2>1. ValidPredicate(d, <<>>, TRUE, i.proposition)
      BY <1>1 DEF ValidMachine
    <2> QED BY <2>1, PredicatesKnown
  <1> QED BY <1>2, <1>3

(* The drafts of a machine's state, of its operations and its invariants.  *)
StateDrafts(d, document, a) ==
  Draft(a, "state", [id |-> d.state, fields |-> d.fields], d, {})
  \o FlattenSeq([i \in DOMAIN d.fields |->
       Draft(Sub(a, "field", d.fields[i].id), "field", d.fields[i], d,
             TypeDependency(d.fields[i].type, document))])

NeedsOf(d, o, document) ==
  TypeDependencies(o.parameters, document)
  \cup UNION {PredicateDependencies(d, r) : r \in Members(o.requires)}

OperationDraftsAt(a, d, o, document) ==
  (Draft(a, "stateOperation", o, d, NeedsOf(d, o, document))
   \o ParameterDrafts(a, o.parameters, d, document))
  \o FlattenSeq([i \in DOMAIN o.requires |->
       Draft(Sub(a, "requirement", o.requires[i]), "requirement",
             o.requires[i], d, PredicateDependencies(d, o.requires[i]))])

OperationsDrafts(d, document) ==
  FlattenSeq([i \in DOMAIN Operations(d) |->
    OperationDraftsAt(Part(d, Relation(d, Operations(d)[i]), Operations(d)[i].id),
                      d, Operations(d)[i], document)])

InvariantsDrafts(d) ==
  FlattenSeq([j \in DOMAIN d.invariants |->
    Draft(Part(d, "invariant", d.invariants[j].id), "invariant", d.invariants[j], d,
          PredicateDependencies(d, d.invariants[j].proposition))])

(* The state of a machine and its fields.                                  *)
LEMMA StateDrafted ==
  ASSUME NEW document, NEW R, R = References(document), NEW d,
         IsList(d.fields), UniqueIds(d.fields),
         {f.type : f \in Members(d.fields)} \subseteq KnownTypes(document),
         NEW k, NEW id, NEW name
  PROVE  /\ Parts(StateDrafts(d, document, <<k, id, "state", name>>), k, id, {"state"}, R)
         /\ \A f \in Ids(d.fields) :
              \E x \in Members(StateDrafts(d, document, <<k, id, "state", name>>)) :
                x.address = Sub(<<k, id, "state", name>>, "field", f)
  <1> DEFINE a == <<k, id, "state", name>>
             said == [id |-> d.state, fields |-> d.fields]
             h == Draft(a, "state", said, d, {})
             Leaf(f) == Draft(Sub(a, "field", f.id), "field", f, d, TypeDependency(f.type, document))
             L == [i \in DOMAIN d.fields |-> Leaf(d.fields[i])]
             u == [i \in DOMAIN d.fields |-> "field"]
             v == [i \in DOMAIN d.fields |-> d.fields[i].id]
             q == FlattenSeq(L)
  <1>2. DraftedAt(h, a, R)
    <2> HIDE DEF a
    <2> QED BY DraftIsAt
  <1>4. ASSUME NEW i \in DOMAIN d.fields PROVE DraftedAt(L[i], Sub(a, u[i], v[i]), R)
    <2>0. d.fields[i].type \in KnownTypes(document)
      BY DEF Members
    <2>1. \A dep \in TypeDependency(d.fields[i].type, document) : dep.target \in R
      BY <2>0, TypesKnown
    <2>2. DraftedAt(Leaf(d.fields[i]), Sub(a, "field", d.fields[i].id), R)
      <3> HIDE DEF a
      <3> QED BY <2>1, DraftIsAt
    <2> QED BY <2>2
  <1>5. \A i, j \in DOMAIN d.fields : u[i] = u[j] /\ v[i] = v[j] => i = j
    BY DEF UniqueIds
  <1>6. DOMAIN L = DOMAIN d.fields /\ L = [i \in DOMAIN L |-> L[i]]
    OBVIOUS
  <1>7. \A i \in DOMAIN d.fields : u[i] = "field" /\ v[i] = d.fields[i].id
    OBVIOUS
  <1> HIDE DEF L, u, v
  <1>8. Leaves(L, d.fields, k, id, "state", name, u, v, R)
    BY <1>4, <1>5, <1>6 DEF Leaves
  <1>9. /\ Sound(q, R) /\ Under(q, k, id, "state", name)
        /\ Members(q) = UNION {Members(L[i]) : i \in DOMAIN L}
        /\ \A x \in Members(q) : Len(x.address) = 6
    BY <1>8, LeavesAt
  <1>10. ASSUME NEW f \in Ids(d.fields) PROVE \E x \in Members(q) : x.address = Sub(a, "field", f)
    <2>1. PICK i \in DOMAIN d.fields : f = d.fields[i].id
      BY DEF Ids
    <2>2. DraftedAt(L[i], Sub(a, u[i], v[i]), R)
      BY <1>4
    <2>3. PICK x \in Members(L[i]) : x.address = Sub(a, u[i], v[i])
      BY <2>2 DEF DraftedAt
    <2>4. Sub(a, u[i], v[i]) = Sub(a, "field", f)
      BY <2>1, <1>7
    <2> HIDE DEF a, q
    <2> QED BY <2>3, <2>4, <1>6, <1>9
  <1>11. \A x \in Members(h), y \in Members(q) : x.address # y.address
    <2>1. \A x \in Members(h) : Len(x.address) = 4
      BY <1>2 DEF DraftedAt
    <2> HIDE DEF h, q
    <2> QED BY <2>1, <1>9
  <1>12. Members(h \o q) = Members(h) \cup Members(q)
    <2> HIDE DEF h, q
    <2> QED BY <1>2, <1>9, <1>11, JoinSound DEF DraftedAt
  <1>13. Parts(h \o q, k, id, {"state"}, R)
    <2> HIDE DEF h, q
    <2>1. PartIn(h \o q, k, id, "state", name, R)
      BY <1>2, <1>9, HeadAt
    <2> QED BY <2>1, OnePart
  <1> DEFINE s == h \o q
  <1>14. \A f \in Ids(d.fields) : \E x \in Members(s) : x.address = Sub(a, "field", f)
    <2> HIDE DEF h, q, a
    <2> QED BY <1>10, <1>12
  <1>15. s = StateDrafts(d, document, a)
    BY DEF StateDrafts, h, q, L
  <1> QED BY <1>13, <1>14, <1>15

(* The operations of a machine.                                            *)
LEMMA OperationsDrafted ==
  ASSUME NEW document, NEW R, R = References(document), NEW d,
         IsList(Operations(d)), UniqueIds(Operations(d)),
         \A o \in Members(Operations(d)) :
           /\ IsList(o.parameters) /\ UniqueIds(o.parameters)
           /\ IsList(o.requires) /\ Unique(o.requires)
           /\ {p.type : p \in Members(o.parameters)} \subseteq KnownTypes(document),
         \A o \in Members(Operations(d)) : \A dep \in NeedsOf(d, o, document) : dep.target \in R,
         \A o \in Members(Operations(d)) : \A r \in Members(o.requires) :
           \A dep \in PredicateDependencies(d, r) : dep.target \in R
  PROVE  /\ Parts(OperationsDrafts(d, document), d.kind, d.id, {"initializer", "transition"}, R)
         /\ \A o \in Members(Operations(d)) : \E x \in Members(OperationsDrafts(d, document)) :
              x.address = Part(d, Relation(d, o), o.id)
  <1> DEFINE k == d.kind
             id == d.id
             At(o) == <<k, id, Relation(d, o), o.id>>
             Made(o) == OperationDraftsAt(At(o), d, o, document)
             ops == Operations(d)
             S == [i \in DOMAIN ops |-> Made(ops[i])]
             tag == [i \in DOMAIN ops |-> Relation(d, ops[i])]
             key == [i \in DOMAIN ops |-> ops[i].id]
             T == {"initializer", "transition"}
  <1>1. FlattenSeq(S) = OperationsDrafts(d, document) /\ \A o : At(o) = Part(d, Relation(d, o), o.id)
    BY DEF OperationsDrafts, Part
  <1>2. ASSUME NEW o \in Members(Operations(d))
        PROVE  PartIn(Made(o), k, id, Relation(d, o), o.id, R)
    <2> DEFINE t == Relation(d, o)
               n == o.id
               needs == NeedsOf(d, o, document)
    <2>1. \A dep \in needs : dep.target \in R
      OBVIOUS
    <2> HIDE DEF t, n, needs, k, id
    <2>2. PartIn((Draft(<<k, id, t, n>>, "stateOperation", o, d, needs)
                  \o ParameterDrafts(<<k, id, t, n>>, o.parameters, d, document))
                 \o FlattenSeq([i \in DOMAIN o.requires |->
                      Draft(Sub(<<k, id, t, n>>, "requirement", o.requires[i]), "requirement",
                            o.requires[i], d, PredicateDependencies(d, o.requires[i]))]), k, id, t, n, R)
      BY <2>1, OperationDrafted
    <2> QED BY <2>2 DEF t, n, needs, OperationDraftsAt
  <1>3. ASSUME NEW i \in DOMAIN ops
        PROVE  tag[i] \in T /\ PartIn(S[i], k, id, tag[i], key[i], R)
    <2>1. ops[i] \in Members(ops)
      BY DEF Members
    <2>2. S[i] = Made(ops[i]) /\ tag[i] = Relation(d, ops[i]) /\ key[i] = ops[i].id
      OBVIOUS
    <2>3. Relation(d, ops[i]) \in T
      BY DEF Relation
    <2> HIDE DEF S, Made, tag, key, T
    <2> QED BY <2>1, <2>2, <2>3, <1>2
  <1>4. DOMAIN S = DOMAIN ops /\ S = [i \in DOMAIN S |-> S[i]]
    OBVIOUS
  <1>5. \A i, j \in DOMAIN ops : key[i] = key[j] => i = j
    BY DEF UniqueIds
  <1>6. \A i \in DOMAIN ops : tag[i] = Relation(d, ops[i]) /\ key[i] = ops[i].id
    OBVIOUS
  <1> HIDE DEF S, tag, key, T
  <1>7. Keyed(S, ops, k, id, tag, key, T, R)
    BY <1>3, <1>4, <1>5 DEF Keyed
  <1>8. Parts(FlattenSeq(S), k, id, T, R)
    BY <1>7, KeyedAt
  <1>9. HasParts(FlattenSeq(S), ops, k, id, tag, key)
    BY <1>7, KeyedAt
  <1>10. ASSUME NEW o \in Members(Operations(d))
         PROVE  \E x \in Members(FlattenSeq(S)) : x.address = At(o)
    <2>1. PICK i \in DOMAIN ops : o = ops[i]
      BY DEF Members
    <2>2. At(o) = <<k, id, tag[i], key[i]>>
      BY <2>1, <1>6
    <2> HIDE DEF At
    <2> QED BY <2>1, <2>2, <1>9 DEF HasParts
  <1> QED BY <1>1, <1>8, <1>10 DEF T

(* The invariants of a machine.                                            *)
LEMMA InvariantsDrafted ==
  ASSUME NEW document, NEW R, R = References(document), NEW d,
         IsList(d.invariants), UniqueIds(d.invariants),
         \A i \in Members(d.invariants) :
           \A dep \in PredicateDependencies(d, i.proposition) : dep.target \in R
  PROVE  /\ Parts(InvariantsDrafts(d), d.kind, d.id, {"invariant"}, R)
         /\ {<<d.kind, d.id, "invariant", n>> : n \in Ids(d.invariants)}
              \subseteq {x.address : x \in Members(InvariantsDrafts(d))}
  <1> DEFINE k == d.kind
             id == d.id
             One(i) == Draft(<<k, id, "invariant", i.id>>, "invariant", i, d,
                             PredicateDependencies(d, i.proposition))
             S == [j \in DOMAIN d.invariants |-> One(d.invariants[j])]
  <1>1. FlattenSeq(S) = InvariantsDrafts(d)
    BY DEF InvariantsDrafts, Part
  <1>2. ASSUME NEW j \in DOMAIN d.invariants
        PROVE  PartIn(S[j], k, id, "invariant", d.invariants[j].id, R)
    <2> DEFINE i == d.invariants[j]
               n == i.id
               a == <<k, id, "invariant", n>>
               deps == PredicateDependencies(d, i.proposition)
    <2>1. \A dep \in deps : dep.target \in R
      BY DEF Members
    <2>2. S[j] = Draft(a, "invariant", i, d, deps)
      OBVIOUS
    <2> HIDE DEF deps, i, S
    <2>3. DraftedAt(Draft(a, "invariant", i, d, deps), a, R)
      <3> HIDE DEF a
      <3> QED BY <2>1, DraftIsAt
    <2> HIDE DEF n
    <2>4. PartIn(S[j], k, id, "invariant", n, R)
      BY <2>2, <2>3, BarePart
    <2> QED BY <2>4 DEF n, i
  <1>3. DOMAIN S = DOMAIN d.invariants /\ S = [i \in DOMAIN S |-> S[i]]
    OBVIOUS
  <1> HIDE DEF S, k, id
  <1>4. Level(S, d.invariants, k, id, "invariant", R)
    BY <1>2, <1>3 DEF Level
  <1>5. /\ Parts(FlattenSeq(S), k, id, {"invariant"}, R)
        /\ {<<k, id, "invariant", n>> : n \in Ids(d.invariants)}
             \subseteq {x.address : x \in Members(FlattenSeq(S))}
    BY <1>4, LevelAt
  <1> QED BY <1>1, <1>5 DEF k, id
(* A state machine.                                                        *)
LEMMA MachineDrafted ==
  ASSUME NEW document, Decodes(document), ValidateCore(document),
         NEW d \in Members(document), d.kind = "stateMachine"
  PROVE  DraftedFor(MachineDrafts(d, document), d, document)
  <1> DEFINE R == References(document)
             k == d.kind
             state == <<k, d.id, "state", d.state>>
             At(o) == <<k, d.id, Relation(d, o), o.id>>
             A == StateDrafts(d, document, state)
             B == OperationsDrafts(d, document)
             C == InvariantsDrafts(d)
             All == TypeDependencies(d.fields, document)
                    \cup UNION ({NeedsOf(d, o, document) : o \in Members(Operations(d))}
                                \cup {PredicateDependencies(d, i.proposition) : i \in Members(d.invariants)})
             root == Draft(Root(d), d.kind, d, d, All)
             T1 == {"state"}
             T2 == {"initializer", "transition"}
             T3 == {"invariant"}
             T4 == {"state", "initializer", "transition"}
             T5 == {"state", "initializer", "transition", "invariant"}
  <1>1. MachineDrafts(d, document) = ((A \o B) \o C) \o root
    BY DEF MachineDrafts, Part, Each, StateDrafts, OperationsDrafts, InvariantsDrafts,
           OperationDraftsAt, NeedsOf
  <1>2. /\ IsList(d.fields) /\ UniqueIds(d.fields)
        /\ {f.type : f \in Members(d.fields)} \subseteq KnownTypes(document)
        /\ IsList(d.invariants) /\ UniqueIds(d.invariants)
        /\ IsList(Operations(d)) /\ UniqueIds(Operations(d))
        /\ \A o \in Members(Operations(d)) :
             /\ IsList(o.parameters) /\ UniqueIds(o.parameters)
             /\ IsList(o.requires) /\ Unique(o.requires)
             /\ {p.type : p \in Members(o.parameters)} \subseteq KnownTypes(document)
    BY CheckedMachine
  <1>3. /\ \A o \in Members(Operations(d)) : \A r \in Members(o.requires) :
             \A dep \in PredicateDependencies(d, r) : dep.target \in R
        /\ \A i \in Members(d.invariants) :
             \A dep \in PredicateDependencies(d, i.proposition) : dep.target \in R
    BY MachineReadsKnown
  <1>4. \A o \in Members(Operations(d)) : \A dep \in NeedsOf(d, o, document) : dep.target \in R
    <2> TAKE o \in Members(Operations(d))
    <2>1. \A dep \in TypeDependencies(o.parameters, document) : dep.target \in R
      BY <1>2, ParameterTypesKnown
    <2> QED BY <2>1, <1>3 DEF NeedsOf
  <1>5. \A dep \in All : dep.target \in R
    <2>1. \A dep \in TypeDependencies(d.fields, document) : dep.target \in R
      BY <1>2, ParameterTypesKnown
    <2> HIDE DEF R
    <2> QED BY <2>1, <1>3, <1>4
  <1>a. /\ Parts(A, k, d.id, T1, R)
        /\ \A f \in Ids(d.fields) : \E x \in Members(A) : x.address = Sub(state, "field", f)
    BY <1>2, StateDrafted
  <1>b. /\ Parts(B, k, d.id, T2, R)
        /\ \A o \in Members(Operations(d)) : \E x \in Members(B) : x.address = At(o)
    BY <1>2, <1>3, <1>4, OperationsDrafted DEF Part
  <1>c. /\ Parts(C, k, d.id, T3, R)
        /\ {<<k, d.id, "invariant", n>> : n \in Ids(d.invariants)} \subseteq {x.address : x \in Members(C)}
    BY <1>2, <1>3, InvariantsDrafted
  <1>t. T1 \cap T2 = {} /\ T4 \cap T3 = {} /\ T4 = T1 \cup T2 /\ T5 = T4 \cup T3
    OBVIOUS
  <1>p. PartsNamed(d) = ({Sub(state, "field", f) : f \in Ids(d.fields)}
                         \cup {At(o) : o \in Members(Operations(d))})
                        \cup {<<k, d.id, "invariant", n>> : n \in Ids(d.invariants)}
    BY DEF PartsNamed, Part
  <1>r. DraftedAt(root, Root(d), R)
    <2> HIDE DEF All, R
    <2> QED BY <1>5, DraftIsAt
  <1>k. d.kind = k
    OBVIOUS
  <1> DEFINE AB == A \o B
             ABC == AB \o C
  <1>z. ABC = (A \o B) \o C
    OBVIOUS
  <1> HIDE DEF A, B, C, T1, T2, T3, T4, T5, R, root, k, state, At
  <1>6. Parts(AB, k, d.id, T4, R) /\ Members(AB) = Members(A) \cup Members(B)
    <2>1. Differ(A, B, k, d.id, T1, T2, T4, R)
      BY <1>a, <1>b, <1>t DEF Differ
    <2> QED BY <2>1, TagsSound
  <1> HIDE DEF AB
  <1>7. Parts(ABC, k, d.id, T5, R) /\ Members(ABC) = Members(AB) \cup Members(C)
    <2>1. Differ(AB, C, k, d.id, T4, T3, T5, R)
      BY <1>6, <1>c, <1>t DEF Differ
    <2> QED BY <2>1, TagsSound
  <1> HIDE DEF ABC
  <1>8. PartsNamed(d) \subseteq {x.address : x \in Members(ABC)}
    <2> DEFINE V == {x.address : x \in Members(ABC)}
    <2>1. /\ \A x \in Members(A) : x.address \in V
          /\ \A x \in Members(B) : x.address \in V
          /\ \A y \in {x.address : x \in Members(C)} : y \in V
      BY <1>6, <1>7
    <2> HIDE DEF V
    <2>2. \A f \in Ids(d.fields) : Sub(state, "field", f) \in V
      BY <2>1, <1>a
    <2>3. \A o \in Members(Operations(d)) : At(o) \in V
      BY <2>1, <1>b
    <2>4. {<<k, d.id, "invariant", n>> : n \in Ids(d.invariants)} \subseteq V
      BY <2>1, <1>c
    <2>5. PartsNamed(d) \subseteq V
      BY <2>2, <2>3, <2>4, <1>p
    <2> QED BY <2>5 DEF V
  <1>9. DraftedFor(ABC \o root, d, document)
    BY <1>7, <1>8, <1>r, <1>k, RootAt DEF R
  <1> QED BY <1>1, <1>9, <1>z
-----------------------------------------------------------------------------
(* Every declaration.                                                      *)
LEMMA DeclarationDrafted ==
  ASSUME NEW document, Decodes(document), ValidateCore(document), NEW d \in Members(document)
  PROVE  DraftedFor(DraftsOf(d, document), d, document)
  <1> DEFINE Some == {"data", "service", "refinement", "theory", "theoryBridge", "stateMachine",
                      "operationRealization", "finiteModel"}
  <1>1. CASE d.kind = "data"
    BY <1>1, DataDrafted DEF DraftsOf
  <1>2. CASE d.kind = "service"
    BY <1>2, ServiceDrafted DEF DraftsOf
  <1>3. CASE d.kind = "refinement"
    BY <1>3, RefinementDrafted DEF DraftsOf
  <1>4. CASE d.kind = "theory"
    BY <1>4, TheoryDrafted DEF DraftsOf
  <1>5. CASE d.kind = "theoryBridge"
    BY <1>5, BridgeDrafted DEF DraftsOf
  <1>6. CASE d.kind = "stateMachine"
    BY <1>6, MachineDrafted DEF DraftsOf
  <1>7. CASE d.kind = "operationRealization"
    BY <1>7, RealizationDrafted DEF DraftsOf
  <1>8. CASE d.kind = "finiteModel"
    BY <1>8, ModelDrafted DEF DraftsOf
  <1>9. CASE d.kind \notin Some
    <2>1. PartsNamed(d) = {}
      BY <1>9 DEF PartsNamed
    <2>2. DraftsOf(d, document) = Draft(Root(d), d.kind, d, d, {})
      BY <1>9 DEF DraftsOf
    <2> QED BY <2>1, <2>2, OtherDrafted
  <1> QED BY <1>1, <1>2, <1>3, <1>4, <1>5, <1>6, <1>7, <1>8, <1>9

(* What SetToSeq lists: each element of the set once.                      *)
LEMMA SetListed ==
  ASSUME NEW S, IsFiniteSet(S)
  PROVE  /\ IsList(SetToSeq(S)) /\ Unique(SetToSeq(S)) /\ Members(SetToSeq(S)) \subseteq S
  <1> DEFINE n == Cardinality(S)
             s == SetToSeq(S)
  <1>1. n \in Nat /\ \E f \in [1..n -> S] : IsInjective(f)
    <2>1. n \in Nat /\ ExistsBijection(1..n, S)
      BY FS_CardinalityType
    <2> HIDE DEF n
    <2> QED BY <2>1 DEF ExistsBijection, Bijection, Injection
  <1>2. s \in [1..n -> S] /\ IsInjective(s)
    <2>1. s = CHOOSE f \in [1..n -> S] : IsInjective(f)
      BY DEF SetToSeq
    <2> HIDE DEF s, n
    <2> QED BY <2>1, <1>1
  <1> HIDE DEF n, s
  <1>3. IsList(s)
    BY <1>1, <1>2, FunctionIsList
  <1>4. Unique(s) /\ Members(s) \subseteq S
    BY <1>2 DEF Unique, IsInjective, Members
  <1> QED BY <1>3, <1>4 DEF s

(* A list has finitely many members.                                       *)
LEMMA MembersFinite ==
  ASSUME NEW s, IsList(s)
  PROVE  IsFiniteSet(Members(s))
  <1>1. s \in Surjection(DOMAIN s, Members(s))
    <2>1. s = [i \in DOMAIN s |-> s[i]] /\ \A i \in DOMAIN s : s[i] \in Members(s)
      BY ListFacts
    <2>2. s \in [DOMAIN s -> Members(s)]
      BY <2>1
    <2> QED BY <2>2 DEF Surjection, Members
  <1>2. IsFiniteSet(DOMAIN s)
    BY ListFacts, FS_Interval
  <1> QED BY <1>1, <1>2, FS_Surjection

(* The obligations of a machine.                                           *)
ObligationsOf(m) ==
  {[machine |-> m.id, operation |-> o.id, invariant |-> i.id,
    relation |-> IF o.id \in Ids(m.initializers) THEN "establishes" ELSE "preserves"] :
   o \in Members(Operations(m)), i \in Members(m.invariants)}

(* They are finitely many.                                                 *)
LEMMA ObligationsFinite ==
  ASSUME NEW document, Decodes(document), ValidateCore(document)
  PROVE  /\ IsFiniteSet(StateInvariantObligations(document))
         /\ StateInvariantObligations(document)
              = UNION {ObligationsOf(m) : m \in OfKind(document, "stateMachine")}
  <1>1. StateInvariantObligations(document)
              = UNION {ObligationsOf(m) : m \in OfKind(document, "stateMachine")}
    BY DEF StateInvariantObligations, ObligationsOf
  <1>2. ASSUME NEW m \in OfKind(document, "stateMachine") PROVE IsFiniteSet(ObligationsOf(m))
    <2> DEFINE A == Members(Operations(m))
               B == Members(m.invariants)
               Made(p) == [machine |-> m.id, operation |-> p[1].id, invariant |-> p[2].id,
                           relation |-> IF p[1].id \in Ids(m.initializers)
                                        THEN "establishes" ELSE "preserves"]
               f == [p \in A \X B |-> Made(p)]
    <2>1. m \in Members(document) /\ m.kind = "stateMachine"
      BY DEF OfKind
    <2>2. IsFiniteSet(A) /\ IsFiniteSet(B)
      BY <2>1, CheckedMachine, MembersFinite
    <2>3. IsFiniteSet(A \X B)
      <3> HIDE DEF A, B
      <3> QED BY <2>2, FS_Product
    <2>4. ObligationsOf(m) \subseteq {Made(p) : p \in A \X B}
      <3>1. ASSUME NEW o \in A, NEW i \in B
            PROVE  [machine |-> m.id, operation |-> o.id, invariant |-> i.id,
                    relation |-> IF o.id \in Ids(m.initializers) THEN "establishes" ELSE "preserves"]
                     \in {Made(p) : p \in A \X B}
        <4>1. <<o, i>> \in A \X B /\ <<o, i>>[1] = o /\ <<o, i>>[2] = i
          OBVIOUS
        <4>2. Made(<<o, i>>) \in {Made(p) : p \in A \X B}
          <5> HIDE DEF Made, A, B
          <5> QED BY <4>1
        <4> QED BY <4>1, <4>2
      <3> DEFINE V == {Made(p) : p \in A \X B}
      <3> HIDE DEF V
      <3>2. ASSUME NEW x \in ObligationsOf(m) PROVE x \in V
        <4>1. \E o \in A : \E i \in B :
                x = [machine |-> m.id, operation |-> o.id, invariant |-> i.id,
                     relation |-> IF o.id \in Ids(m.initializers) THEN "establishes" ELSE "preserves"]
          BY DEF ObligationsOf
        <4>2. PICK o \in A : \E i \in B :
                x = [machine |-> m.id, operation |-> o.id, invariant |-> i.id,
                     relation |-> IF o.id \in Ids(m.initializers) THEN "establishes" ELSE "preserves"]
          BY <4>1
        <4>3. PICK i \in B :
                x = [machine |-> m.id, operation |-> o.id, invariant |-> i.id,
                     relation |-> IF o.id \in Ids(m.initializers) THEN "establishes" ELSE "preserves"]
          BY <4>2
        <4> QED BY <4>3, <3>1 DEF V
      <3> QED BY <3>2 DEF V
    <2>5. f \in Surjection(A \X B, {Made(p) : p \in A \X B})
      <3> HIDE DEF A, B, Made
      <3> QED BY DEF Surjection
    <2> HIDE DEF f, Made, A, B
    <2> QED BY <2>3, <2>4, <2>5, FS_Surjection, FS_Subset
  <1>3. IsFiniteSet({ObligationsOf(m) : m \in OfKind(document, "stateMachine")})
    <2> DEFINE M == OfKind(document, "stateMachine")
               T == {ObligationsOf(m) : m \in M}
               f == [m \in M |-> ObligationsOf(m)]
    <2>1. IsFiniteSet(M)
      <3>1. IsFiniteSet(Members(document))
        BY MembersFinite DEF Decodes
      <3> QED BY <3>1, FS_Subset DEF OfKind
    <2> HIDE DEF M
    <2>2. f \in Surjection(M, T)
      BY DEF Surjection
    <2> HIDE DEF f, T
    <2>3. IsFiniteSet(T)
      BY <2>1, <2>2, FS_Surjection
    <2> QED BY <2>3 DEF T, M
  <1>4. IsFiniteSet(UNION {ObligationsOf(m) : m \in OfKind(document, "stateMachine")})
    <2> DEFINE T == {ObligationsOf(m) : m \in OfKind(document, "stateMachine")}
    <2>1. \A x \in T : IsFiniteSet(x)
      BY <1>2
    <2>2. IsFiniteSet(T)
      BY <1>3
    <2> HIDE DEF T
    <2>3. IsFiniteSet(UNION T)
      BY <2>1, <2>2, FS_UNION
    <2> QED BY <2>3 DEF T
  <1> QED BY <1>1, <1>4
(* The tag of an obligation's operation.                                   *)
TagOf(o) == IF o.relation = "establishes" THEN "initializer" ELSE "transition"

(* The draft of an obligation.                                             *)
ObligationDraft(o, document) ==
  Draft(<<"obligation", o.machine, o.operation, o.relation, o.invariant>>, "obligation",
        [o |-> o, operation |-> Named(Operations(Named(document, o.machine)), o.operation),
         invariant |-> Named(Named(document, o.machine).invariants, o.invariant)],
        Named(document, o.machine),
        Dep("obligation-machine", Root(Named(document, o.machine)))
        \cup Dep("obligation-operation", Part(Named(document, o.machine), TagOf(o), o.operation))
        \cup Dep("obligation-invariant", Part(Named(document, o.machine), "invariant", o.invariant)))

(* The machine of an obligation, with its parts.                           *)
LEMMA ObligationKnown ==
  ASSUME NEW document, Decodes(document), ValidateCore(document),
         NEW o \in StateInvariantObligations(document)
  PROVE  /\ Root(Named(document, o.machine)) \in References(document)
         /\ Part(Named(document, o.machine), TagOf(o), o.operation) \in References(document)
         /\ Part(Named(document, o.machine), "invariant", o.invariant) \in References(document)
         /\ o = [machine |-> o.machine, operation |-> o.operation,
                 invariant |-> o.invariant, relation |-> o.relation]
         /\ o.relation \in {"establishes", "preserves"}
         /\ Named(document, o.machine) \in OfKind(document, "stateMachine")
  <1>1. PICK m \in OfKind(document, "stateMachine") : o \in ObligationsOf(m)
    BY ObligationsFinite
  <1>2. m \in Members(document) /\ m.kind = "stateMachine"
    BY DEF OfKind
  <1>3. PICK p \in Members(Operations(m)) : \E i \in Members(m.invariants) :
          o = [machine |-> m.id, operation |-> p.id, invariant |-> i.id,
               relation |-> IF p.id \in Ids(m.initializers) THEN "establishes" ELSE "preserves"]
    BY <1>1 DEF ObligationsOf
  <1>4. PICK i \in Members(m.invariants) :
          o = [machine |-> m.id, operation |-> p.id, invariant |-> i.id,
               relation |-> IF p.id \in Ids(m.initializers) THEN "establishes" ELSE "preserves"]
    BY <1>3
  <1>5. /\ o.machine = m.id /\ o.operation = p.id /\ o.invariant = i.id
        /\ o.relation = (IF p.id \in Ids(m.initializers) THEN "establishes" ELSE "preserves")
        /\ o = [machine |-> o.machine, operation |-> o.operation,
                invariant |-> o.invariant, relation |-> o.relation]
    BY <1>4
  <1>6. Named(document, o.machine) = m
    <2>1. m.id \in Ids(document)
      BY <1>2 DEF Ids, Members
    <2>2. Named(document, m.id) \in Members(document) /\ Named(document, m.id).id = m.id
      BY <2>1, NamedIs
    <2>3. UniqueIds(document)
      BY DEF ValidateCore
    <2> QED BY <1>2, <1>5, <2>2, <2>3 DEF UniqueIds, Members
  <1>7. Root(m) \in References(document)
    BY <1>2 DEF References
  <1>8. Part(m, TagOf(o), o.operation) \in References(document)
    <2>1. TagOf(o) = Relation(m, p)
      BY <1>5 DEF TagOf, Relation
    <2>2. Part(m, Relation(m, p), p.id) \in PartsNamed(m)
      BY <1>2 DEF PartsNamed
    <2> QED BY <1>2, <1>5, <2>1, <2>2 DEF References
  <1>9. Part(m, "invariant", o.invariant) \in References(document)
    <2>1. i.id \in Ids(m.invariants)
      BY DEF Ids, Members
    <2>2. Part(m, "invariant", i.id) \in PartsNamed(m)
      BY <1>2, <2>1 DEF PartsNamed
    <2> QED BY <1>2, <1>5, <2>2 DEF References
  <1> QED BY <1>1, <1>5, <1>6, <1>7, <1>8, <1>9

(* The obligations of a checked document.                                  *)
LEMMA ObligationsDrafted ==
  ASSUME NEW document, Decodes(document), ValidateCore(document)
  PROVE  /\ Sound(ObligationDrafts(document), References(document))
         /\ \A x \in Members(ObligationDrafts(document)) : Len(x.address) = 5
         /\ \A x \in Members(ObligationDrafts(document)) :
              \E o \in StateInvariantObligations(document) :
                x.declaration = Named(document, o.machine).id
  <1> DEFINE R == References(document)
             O == StateInvariantObligations(document)
             s == SetToSeq(O)
             One(o) == ObligationDraft(o, document)
             At(o) == <<"obligation", o.machine, o.operation, o.relation, o.invariant>>
             S == [i \in DOMAIN s |-> One(s[i])]
  <1>1. ObligationDrafts(document) = FlattenSeq(S)
    BY DEF ObligationDrafts, Each, ObligationDraft, TagOf
  <1>2. IsList(s) /\ Unique(s) /\ Members(s) \subseteq O
    <2>1. IsFiniteSet(O)
      BY ObligationsFinite
    <2> HIDE DEF O
    <2> QED BY <2>1, SetListed
  <1>3. ASSUME NEW o \in O
        PROVE  /\ DraftedAt(One(o), At(o), R)
               /\ \A x \in Members(One(o)) : x.declaration = Named(document, o.machine).id
    <2> DEFINE m == Named(document, o.machine)
               deps == Dep("obligation-machine", Root(m))
                       \cup Dep("obligation-operation", Part(m, TagOf(o), o.operation))
                       \cup Dep("obligation-invariant", Part(m, "invariant", o.invariant))
               said == [o |-> o, operation |-> Named(Operations(m), o.operation),
                        invariant |-> Named(m.invariants, o.invariant)]
    <2>1. \A dep \in deps : dep.target \in R
      BY ObligationKnown DEF Dep
    <2>2. One(o) = Draft(At(o), "obligation", said, m, deps)
      BY DEF ObligationDraft
    <2> HIDE DEF deps, said, At, m
    <2>3. DraftedAt(Draft(At(o), "obligation", said, m, deps), At(o), R)
      BY <2>1, DraftIsAt
    <2>4. \A x \in Members(Draft(At(o), "obligation", said, m, deps)) : x.declaration = m.id
      BY DEF Draft, Members
    <2> HIDE DEF One
    <2> QED BY <2>2, <2>3, <2>4 DEF m
  <1>4. ASSUME NEW i \in DOMAIN s
        PROVE  s[i] \in O /\ S[i] = One(s[i])
    <2>1. s[i] \in Members(s)
      BY DEF Members
    <2> HIDE DEF One, O, s
    <2> QED BY <2>1, <1>2
  <1>5. ASSUME NEW o \in O, NEW p \in O, At(o) = At(p)
        PROVE  o = p
    <2>1. /\ o.machine = p.machine /\ o.operation = p.operation
          /\ o.relation = p.relation /\ o.invariant = p.invariant
      BY <1>5
    <2>2. /\ o = [machine |-> o.machine, operation |-> o.operation,
                  invariant |-> o.invariant, relation |-> o.relation]
          /\ p = [machine |-> p.machine, operation |-> p.operation,
                  invariant |-> p.invariant, relation |-> p.relation]
      BY ObligationKnown
    <2> QED BY <2>1, <2>2
  <1>6. DOMAIN S = DOMAIN s /\ S = [i \in DOMAIN S |-> S[i]]
    OBVIOUS
  <1>7. \A o : Len(At(o)) = 5
    OBVIOUS
  <1> HIDE DEF S, s, O, One, At
  <1>8. IsList(S)
    BY <1>2, <1>6, MadeOfEach
  <1>9. ASSUME NEW i \in DOMAIN S, NEW j \in DOMAIN S, i # j,
               NEW x \in Members(S[i]), NEW y \in Members(S[j])
        PROVE  x.address # y.address
    <2>1. s[i] \in O /\ s[j] \in O /\ x.address = At(s[i]) /\ y.address = At(s[j])
      BY <1>3, <1>4, <1>6 DEF DraftedAt
    <2>2. s[i] # s[j]
      BY <1>2, <1>6, <1>9 DEF Unique
    <2> QED BY <2>1, <2>2, <1>5
  <1>10. \A i \in DOMAIN S : Sound(S[i], R)
    BY <1>3, <1>4, <1>6 DEF DraftedAt
  <1>11. /\ Sound(FlattenSeq(S), R)
         /\ Members(FlattenSeq(S)) = UNION {Members(S[i]) : i \in DOMAIN S}
    <2> HIDE DEF R
    <2> QED BY <1>8, <1>9, <1>10, FlattenSound
  <1>12. ASSUME NEW x \in Members(FlattenSeq(S))
         PROVE  /\ Len(x.address) = 5
                /\ \E o \in O : x.declaration = Named(document, o.machine).id
    <2>1. PICK i \in DOMAIN S : x \in Members(S[i])
      BY <1>11
    <2>2. s[i] \in O /\ x.address = At(s[i]) /\ x.declaration = Named(document, s[i].machine).id
      BY <2>1, <1>3, <1>4, <1>6 DEF DraftedAt
    <2> QED BY <2>2, <1>7
  <1> QED BY <1>1, <1>11, <1>12 DEF O
(* The drafts of a checked document: no address is there twice, and every  *)
(* dependency and everything a dependency could be on is there.            *)
LEMMA DocumentDrafted ==
  ASSUME NEW document, Decodes(document), ValidateCore(document)
  PROVE  /\ Sound(BuildDrafts(document), References(document))
         /\ \A r \in References(document) : \E x \in Members(BuildDrafts(document)) : x.address = r
  <1> DEFINE R == References(document)
             S == [i \in DOMAIN document |-> DraftsOf(document[i], document)]
             F == FlattenSeq(S)
             O == ObligationDrafts(document)
  <1>1. BuildDrafts(document) = F \o O
    BY DEF BuildDrafts, Each
  <1>2. IsList(document) /\ UniqueIds(document)
    BY DEF Decodes, ValidateCore
  <1>3. \A i \in DOMAIN document :
           DraftedFor(S[i], document[i], document) /\ document[i] \in Members(document)
    <2> TAKE i \in DOMAIN document
    <2>1. document[i] \in Members(document) /\ S[i] = DraftsOf(document[i], document)
      BY DEF Members
    <2> HIDE DEF S
    <2> QED BY <2>1, DeclarationDrafted
  <1>4. DOMAIN S = DOMAIN document /\ S = [i \in DOMAIN S |-> S[i]]
    OBVIOUS
  <1> HIDE DEF S
  <1>5. IsList(S)
    BY <1>2, <1>4, MadeOfEach
  <1>6. ASSUME NEW i \in DOMAIN S, NEW j \in DOMAIN S, i # j,
               NEW x \in Members(S[i]), NEW y \in Members(S[j])
        PROVE  x.address # y.address
    <2>1. x.address[2] = document[i].id /\ y.address[2] = document[j].id
      BY <1>3, <1>4 DEF DraftedFor, OfRoot
    <2>2. document[i].id # document[j].id
      BY <1>2, <1>4, <1>6 DEF UniqueIds
    <2> QED BY <2>1, <2>2
  <1>7. \A i \in DOMAIN S : Sound(S[i], R)
    BY <1>3, <1>4 DEF DraftedFor
  <1>8. Sound(F, R) /\ Members(F) = UNION {Members(S[i]) : i \in DOMAIN S}
    <2> HIDE DEF R
    <2> QED BY <1>5, <1>6, <1>7, FlattenSound
  <1>9. \A x \in Members(F) : Len(x.address) # 5
    <2> TAKE x \in Members(F)
    <2>1. PICK i \in DOMAIN S : x \in Members(S[i])
      BY <1>8
    <2>2. Len(x.address) \in {2, 4, 6}
      BY <2>1, <1>3, <1>4 DEF DraftedFor, OfRoot
    <2> QED BY <2>2
  <1>10. Sound(O, R) /\ \A x \in Members(O) : Len(x.address) = 5
    BY ObligationsDrafted
  <1>11. Sound(F \o O, R) /\ Members(F \o O) = Members(F) \cup Members(O)
    <2>1. \A x \in Members(F), y \in Members(O) : x.address # y.address
      BY <1>9, <1>10
    <2> HIDE DEF F, O, R
    <2> QED BY <2>1, <1>8, <1>10, JoinSound
  <1>12. ASSUME NEW d \in Members(document), NEW r \in {Root(d)} \cup PartsNamed(d)
         PROVE  \E x \in Members(F) : x.address = r
    <2>1. PICK i \in DOMAIN document : d = document[i]
      BY DEF Members
    <2>2. r \in {x.address : x \in Members(S[i])}
      BY <2>1, <1>3 DEF DraftedFor
    <2> QED BY <2>1, <2>2, <1>4, <1>8
  <1>13. ASSUME NEW r \in R PROVE \E x \in Members(F) : x.address = r
    <2>1. PICK d \in Members(document) : r = Root(d) \/ r \in PartsNamed(d)
      BY DEF References
    <2> HIDE DEF F
    <2> QED BY <2>1, <1>12
  <1>14. \A r \in R : \E x \in Members(F \o O) : x.address = r
    <2> HIDE DEF F, O, R
    <2> QED BY <1>11, <1>13
  <1> QED BY <1>1, <1>11, <1>14

(* As many addresses as drafts.                                            *)
LEMMA AddressesCounted ==
  ASSUME NEW s, IsList(s), Apart(s)
  PROVE  Cardinality(Addresses(s)) = Len(s) /\ IsFiniteSet(Addresses(s))
  <1> DEFINE n == Len(s)
             f == [i \in 1..n |-> s[i].address]
             T == Addresses(s)
  <1>1. n \in Nat /\ DOMAIN s = 1..n
    BY ListFacts
  <1>2. f \in Bijection(1..n, T)
    <2>1. f \in [1..n -> T] /\ \A t \in T : \E i \in 1..n : f[i] = t
      BY <1>1 DEF Addresses
    <2>2. \A i, j \in 1..n : f[i] = f[j] => i = j
      BY <1>1 DEF Apart
    <2> HIDE DEF f, T, n
    <2>3. DOMAIN f = 1..n
      BY <2>1
    <2> QED BY <2>1, <2>2, <2>3 DEF Bijection, Injection, Surjection, IsInjective
  <1>3. ExistsBijection(1..n, T)
    BY <1>2 DEF ExistsBijection
  <1> HIDE DEF f, T, n
  <1>4. Cardinality(T) = n
    BY <1>1, <1>3, FS_CountingElements
  <1>5. IsFiniteSet(T)
    BY <1>1, <1>3, FS_NatBijection
  <1> QED BY <1>4, <1>5 DEF T, n

(* The drafts of a checked document do not clash.                          *)
LEMMA DraftsStand ==
  ASSUME NEW document, Decodes(document), ValidateCore(document)
  PROVE  ~DraftsClash(BuildDrafts(document))
  <1> DEFINE s == BuildDrafts(document)
             R == References(document)
  <1>1. Sound(s, R) /\ \A r \in R : \E x \in Members(s) : x.address = r
    BY DocumentDrafted
  <1> HIDE DEF s, R
  <1>2. Cardinality(Addresses(s)) = Len(s)
    BY <1>1, AddressesCounted DEF Sound
  <1>3. ASSUME NEW dep \in UNION {s[i].deps : i \in DOMAIN s}
        PROVE  dep.target \in Addresses(s)
    <2>1. PICK i \in DOMAIN s : dep \in s[i].deps
      OBVIOUS
    <2>2. dep.target \in R
      BY <2>1, <1>1 DEF Sound, Grounded, Members
    <2> QED BY <2>2, <1>1 DEF Addresses, Members
  <1> QED BY <1>2, <1>3 DEF DraftsClash, s
-----------------------------------------------------------------------------
(* Lists start one after the other.                                        *)
LEMMA StartsGrow ==
  ASSUME NEW st, NEW ss, NEW f, InPlace(st, ss, f), Len(ss) \in Nat,
         \A i \in 1..Len(ss) : Len(ss[i]) \in Nat,
         NEW i \in 1..Len(ss), NEW j \in 1..Len(ss), i < j
  PROVE  st[i] + Len(ss[i]) <= st[j]
  <1> DEFINE N == Len(ss)
             P(k) == i + 1 + k <= N => st[i] + Len(ss[i]) <= st[i + 1 + k]
  <1>1. P(0)
    <2>1. st[i + 1] = st[i] + Len(ss[i]) /\ st[i] \in Nat
      BY DEF InPlace, Starts
    <2>2. i + 1 + 0 = i + 1 /\ st[i] + Len(ss[i]) \in Nat
      BY <2>1
    <2> QED BY <2>1, <2>2
  <1>2. ASSUME NEW k \in Nat, P(k) PROVE P(k + 1)
    <2> SUFFICES ASSUME i + 1 + (k + 1) <= N PROVE st[i] + Len(ss[i]) <= st[i + 1 + (k + 1)]
      OBVIOUS
    <2> DEFINE m == i + 1 + k
    <2>1. m \in 1..N /\ m + 1 = i + 1 + (k + 1) /\ m + 1 \in 1..(N + 1) /\ m <= N
      OBVIOUS
    <2>2. st[i] + Len(ss[i]) <= st[m]
      BY <1>2, <2>1
    <2> HIDE DEF m
    <2>3. st[m + 1] = st[m] + Len(ss[m]) /\ st[m] \in Nat /\ Len(ss[m]) \in Nat /\ st[i] \in Nat
          /\ Len(ss[i]) \in Nat
      BY <2>1 DEF InPlace, Starts
    <2>4. st[i] + Len(ss[i]) <= st[m + 1]
      BY <2>2, <2>3
    <2> QED BY <2>1, <2>4
  <1> DEFINE T == {k \in Nat : P(k)}
  <1>3. 0 \in T /\ \A k \in Nat : k \in T => k + 1 \in T
    <2> HIDE DEF P
    <2> QED BY <1>1, <1>2
  <1>4. Nat \subseteq T
    <2> HIDE DEF T
    <2> QED BY <1>3, SetInduction
  <1>5. j - i - 1 \in Nat /\ i + 1 + (j - i - 1) = j
    OBVIOUS
  <1>6. P(j - i - 1)
    <2> HIDE DEF P
    <2> QED BY <1>4, <1>5
  <1> QED BY <1>5, <1>6

(* No place is taken twice.                                                *)
LEMMA PlacesDiffer ==
  ASSUME NEW st, NEW ss, NEW f, InPlace(st, ss, f), Len(ss) \in Nat,
         \A i \in 1..Len(ss) : Len(ss[i]) \in Nat,
         NEW i \in 1..Len(ss), NEW a \in 1..Len(ss[i]),
         NEW j \in 1..Len(ss), NEW b \in 1..Len(ss[j]), st[i] + a = st[j] + b
  PROVE  i = j /\ a = b
  <1>1. st[i] \in Nat /\ st[j] \in Nat /\ Len(ss[i]) \in Nat /\ Len(ss[j]) \in Nat
    BY DEF InPlace
  <1>2. ~(i < j)
    <2> SUFFICES ASSUME i < j PROVE FALSE
      OBVIOUS
    <2>1. st[i] + Len(ss[i]) <= st[j]
      BY StartsGrow
    <2> QED BY <1>1, <2>1
  <1>3. ~(j < i)
    <2> SUFFICES ASSUME j < i PROVE FALSE
      OBVIOUS
    <2>1. st[j] + Len(ss[j]) <= st[i]
      BY StartsGrow
    <2> QED BY <1>1, <2>1
  <1>4. i = j
    BY <1>2, <1>3
  <1> QED BY <1>1, <1>4

(* A flattened list of lists, place by place.                              *)
LEMMA FlattenedPlaces ==
  ASSUME NEW ss, IsList(ss), \A i \in DOMAIN ss : IsList(ss[i])
  PROVE  \E st : InPlace(st, ss, FlattenSeq(ss))
  <1> DEFINE S == UNION {Members(ss[i]) : i \in DOMAIN ss}
  <1>1. ASSUME NEW i \in DOMAIN ss PROVE ss[i] \in Seq(S)
    <2>1. ss[i] \in Seq(Members(ss[i])) /\ Members(ss[i]) \subseteq S
      BY DEF IsList
    <2> HIDE DEF S
    <2> QED BY <2>1
  <1> HIDE DEF S
  <1>2. Len(ss) \in Nat /\ DOMAIN ss = 1..Len(ss) /\ ss = [i \in DOMAIN ss |-> ss[i]]
    BY ListFacts
  <1>3. ss \in Seq(Seq(S))
    BY <1>1, <1>2
  <1> QED BY <1>3, FlattenPlaces

(* Lists that name the declarations of files one by one.                   *)
NamesEach(P, files) ==
  /\ DOMAIN P = DOMAIN files /\ P = [f \in DOMAIN P |-> P[f]]
  /\ \A f \in DOMAIN files :
       /\ DOMAIN P[f] = DOMAIN files[f] /\ P[f] = [i \in DOMAIN P[f] |-> P[f][i]]
       /\ \A i \in DOMAIN files[f] : P[f][i].id = files[f][i].id

(* Then the flattened list names each declaration once.                    *)
LEMMA NamedOnce ==
  ASSUME NEW files, IsList(files), \A f \in DOMAIN files : IsList(files[f]),
         UniqueIds(FlattenSeq(files)), NEW P, NamesEach(P, files)
  PROVE  UniqueIds(FlattenSeq(P)) /\ Ids(FlattenSeq(P)) = Ids(FlattenSeq(files))
  <1> DEFINE F == FlattenSeq(files)
             G == FlattenSeq(P)
  <1>2. Len(files) \in Nat /\ DOMAIN files = 1..Len(files)
    BY ListFacts
  <1>3. \A f \in DOMAIN files : /\ Len(files[f]) \in Nat /\ DOMAIN files[f] = 1..Len(files[f])
    BY ListFacts
  <1>4. ASSUME NEW f \in DOMAIN files
        PROVE  /\ IsList(P[f]) /\ Len(P[f]) = Len(files[f])
               /\ \A i \in 1..Len(files[f]) : P[f][i].id = files[f][i].id
    <2> DEFINE Q == P[f]
    <2>1. DOMAIN Q = 1..Len(files[f]) /\ Q = [i \in DOMAIN Q |-> Q[i]]
      BY <1>3 DEF NamesEach
    <2>2. \A i \in 1..Len(files[f]) : Q[i].id = files[f][i].id
      BY <1>3 DEF NamesEach
    <2> HIDE DEF Q
    <2>3. IsList(Q) /\ Len(Q) = Len(files[f])
      BY <2>1, <1>3, FunctionIsList
    <2> QED BY <2>2, <2>3 DEF Q
  <1>5. IsList(P) /\ Len(P) = Len(files) /\ DOMAIN P = DOMAIN files
    <2>1. DOMAIN P = 1..Len(files) /\ P = [f \in DOMAIN P |-> P[f]]
      BY <1>2 DEF NamesEach
    <2> QED BY <2>1, <1>2, FunctionIsList
  <1>6. IsList(F) /\ IsList(G)
    BY <1>4, <1>5, FlattenedLists
  <1>7. (\E st : InPlace(st, files, F)) /\ (\E st : InPlace(st, P, G))
    BY <1>4, <1>5, FlattenedPlaces
  <1> HIDE DEF F, G
  <1>8. PICK sf : InPlace(sf, files, F)
    BY <1>7
  <1>9. PICK sg : InPlace(sg, P, G)
    BY <1>7
  <1>10. DOMAIN F = 1..Len(F) /\ DOMAIN G = 1..Len(G)
    BY <1>6, ListFacts
  <1>11. ASSUME NEW m \in DOMAIN G
         PROVE  \E f \in 1..Len(files) : \E i \in 1..Len(files[f]) :
                  /\ m = sg[f] + i /\ sf[f] + i \in DOMAIN F /\ G[m].id = F[sf[f] + i].id
    <2>1. PICK f \in 1..Len(P) : \E i \in 1..Len(P[f]) : m = sg[f] + i
      BY <1>9, <1>10 DEF InPlace
    <2>2. PICK i \in 1..Len(P[f]) : m = sg[f] + i
      BY <2>1
    <2>3. f \in 1..Len(files) /\ f \in DOMAIN files /\ i \in 1..Len(files[f])
      BY <1>2, <1>4, <1>5
    <2>4. G[sg[f] + i] = P[f][i]
      BY <1>9 DEF InPlace
    <2>5. sf[f] + i \in 1..Len(F) /\ F[sf[f] + i] = files[f][i]
      BY <1>8, <2>3 DEF InPlace
    <2> QED BY <2>2, <2>3, <2>4, <2>5, <1>4, <1>10
  <1>12. UniqueIds(G)
    <2> SUFFICES ASSUME NEW m \in DOMAIN G, NEW n \in DOMAIN G, G[m].id = G[n].id PROVE m = n
      BY DEF UniqueIds
    <2>1. PICK f \in 1..Len(files) : \E i \in 1..Len(files[f]) :
                  /\ m = sg[f] + i /\ sf[f] + i \in DOMAIN F /\ G[m].id = F[sf[f] + i].id
      BY <1>11
    <2>2. PICK i \in 1..Len(files[f]) :
                  /\ m = sg[f] + i /\ sf[f] + i \in DOMAIN F /\ G[m].id = F[sf[f] + i].id
      BY <2>1
    <2>3. PICK g \in 1..Len(files) : \E j \in 1..Len(files[g]) :
                  /\ n = sg[g] + j /\ sf[g] + j \in DOMAIN F /\ G[n].id = F[sf[g] + j].id
      BY <1>11
    <2>4. PICK j \in 1..Len(files[g]) :
                  /\ n = sg[g] + j /\ sf[g] + j \in DOMAIN F /\ G[n].id = F[sf[g] + j].id
      BY <2>3
    <2>5. sf[f] + i = sf[g] + j
      <3>1. UniqueIds(F)
        BY DEF F
      <3> DEFINE x == sf[f] + i
                 y == sf[g] + j
      <3>2. x \in DOMAIN F /\ y \in DOMAIN F /\ F[x].id = F[y].id
        BY <2>2, <2>4
      <3> HIDE DEF x, y
      <3>3. x = y
        BY <3>1, <3>2 DEF UniqueIds
      <3> QED BY <3>3 DEF x, y
    <2>6. f = g /\ i = j
      BY <2>5, <1>2, <1>3, <1>8, PlacesDiffer
    <2> QED BY <2>2, <2>4, <2>6
  <1>13. Ids(G) \subseteq Ids(F)
    BY <1>11 DEF Ids
  <1>14. ASSUME NEW n \in DOMAIN F PROVE F[n].id \in Ids(G)
    <2>1. PICK f \in 1..Len(files) : \E i \in 1..Len(files[f]) : n = sf[f] + i
      BY <1>8, <1>10 DEF InPlace
    <2>2. PICK i \in 1..Len(files[f]) : n = sf[f] + i
      BY <2>1
    <2>3. f \in DOMAIN files /\ f \in 1..Len(P) /\ i \in 1..Len(P[f])
      BY <1>2, <1>4, <1>5
    <2>4. F[n] = files[f][i]
      BY <2>2, <1>8 DEF InPlace
    <2>5. sg[f] + i \in 1..Len(G) /\ G[sg[f] + i] = P[f][i]
      BY <2>3, <1>9 DEF InPlace
    <2>6. P[f][i].id = files[f][i].id
      BY <2>3, <1>4
    <2> QED BY <2>4, <2>5, <2>6, <1>10 DEF Ids
  <1>15. Ids(G) = Ids(F)
    BY <1>13, <1>14 DEF Ids
  <1> QED BY <1>12, <1>15 DEF F, G

(* The provenance of merged files names each declaration once.             *)
LEMMA ProvenanceStands ==
  ASSUME NEW files, IsList(files), \A f \in DOMAIN files : IsList(files[f]),
         UniqueIds(FlattenSeq(files))
  PROVE  UniqueIds(ProvenanceOf(files)) /\ Ids(ProvenanceOf(files)) = Ids(FlattenSeq(files))
  <1> DEFINE P == [f \in DOMAIN files |->
                    [i \in DOMAIN files[f] |-> [id |-> files[f][i].id, path |-> f]]]
  <1>1. ProvenanceOf(files) = FlattenSeq(P)
    BY DEF ProvenanceOf
  <1>2. NamesEach(P, files)
    BY DEF NamesEach
  <1> HIDE DEF P
  <1> QED BY <1>1, <1>2, NamedOnce

(* What validation accepts is normalized.                                  *)
LEMMA NormalizationStands ==
  ASSUME NEW files, IsList(files), \A f \in DOMAIN files : Decodes(files[f]),
         ValidateCore(MergeDocuments(files))
  PROVE  ~NormalizationFails(MergeDocuments(files), ProvenanceOf(files))
  <1>1. \A f \in DOMAIN files : IsList(files[f])
    BY DEF Decodes
  <1>2. UniqueIds(FlattenSeq(files))
    BY DEF ValidateCore, MergeDocuments
  <1>3. UniqueIds(ProvenanceOf(files)) /\ Ids(ProvenanceOf(files)) = Ids(MergeDocuments(files))
    BY <1>1, <1>2, ProvenanceStands DEF MergeDocuments
  <1>4. Decodes(MergeDocuments(files))
    BY MergedDecodes DEF MergeDocuments
  <1>5. ~DraftsClash(BuildDrafts(MergeDocuments(files)))
    BY <1>4, DraftsStand
  <1> QED BY <1>3, <1>5 DEF NormalizationFails
-----------------------------------------------------------------------------
(* Dependencies among the constructs there are, which are finitely many.   *)
Closes(deps) ==
  /\ IsFiniteSet(DOMAIN deps)
  /\ \A a \in DOMAIN deps : \A dep \in deps[a] : dep.target \in DOMAIN deps

(* A set that holds whatever its members depend on.                        *)
Closed(deps, c) == c \subseteq DOMAIN deps /\ \A a \in c : \A dep \in deps[a] : dep.target \in c

(* r is the least closed set with s in it.                                 *)
Least(deps, s, r) ==
  /\ s \subseteq r /\ Closed(deps, r)
  /\ \A c \in SUBSET DOMAIN deps : Closed(deps, c) /\ s \subseteq c => r \subseteq c

(* g is a function as Reach defines it.                                    *)
Reaches(g, deps) ==
  g = [s \in SUBSET DOMAIN deps |->
        IF Extended(deps, s) = s THEN s ELSE g[Extended(deps, s)]]

(* Extending a set.                                                        *)
LEMMA ExtendedIs ==
  ASSUME NEW deps, Closes(deps), NEW s \in SUBSET DOMAIN deps
  PROVE  /\ s \subseteq Extended(deps, s) /\ Extended(deps, s) \subseteq DOMAIN deps
         /\ Extended(deps, s) = s <=> Closed(deps, s)
         /\ \A c \in SUBSET DOMAIN deps :
              Closed(deps, c) /\ s \subseteq c => Extended(deps, s) \subseteq c
  BY DEF Extended, Closes, Closed

(* There is such a function: it gives the least closed sets.               *)
LEMMA ReachExists ==
  ASSUME NEW deps, Closes(deps)
  PROVE  \E g : Reaches(g, deps)
  <1> DEFINE D == DOMAIN deps
             Meet(s) == {a \in D : \A c \in SUBSET D : Closed(deps, c) /\ s \subseteq c => a \in c}
             g == [s \in SUBSET D |-> Meet(s)]
  <1>1. ASSUME NEW s \in SUBSET D
        PROVE  g[s] = IF Extended(deps, s) = s THEN s ELSE g[Extended(deps, s)]
    <2>0. Extended(deps, s) \in SUBSET D
      BY ExtendedIs
    <2>1. CASE Extended(deps, s) = s
      <3>1. Closed(deps, s)
        BY <2>1, ExtendedIs
      <3>2. Meet(s) = s
        BY <3>1
      <3> QED BY <2>1, <3>2
    <2>2. CASE Extended(deps, s) # s
      <3>1. \A c \in SUBSET D : Closed(deps, c) => (s \subseteq c <=> Extended(deps, s) \subseteq c)
        BY ExtendedIs
      <3>2. Meet(s) = Meet(Extended(deps, s))
        BY <3>1
      <3> HIDE DEF Meet
      <3> QED BY <2>0, <2>2, <3>2
    <2> QED BY <2>1, <2>2
  <1>2. g = [s \in SUBSET D |-> g[s]]
    OBVIOUS
  <1> HIDE DEF g
  <1>3. g = [s \in SUBSET D |-> IF Extended(deps, s) = s THEN s ELSE g[Extended(deps, s)]]
    BY <1>1, <1>2
  <1> QED BY <1>3 DEF Reaches

(* Whatever function it is, it gives the least closed sets.                *)
LEMMA ReachesLeast ==
  ASSUME NEW deps, Closes(deps), NEW g, Reaches(g, deps), NEW s \in SUBSET DOMAIN deps
  PROVE  Least(deps, s, g[s])
  <1> DEFINE D == DOMAIN deps
             P(n) == \A t \in SUBSET D : Cardinality(D \ t) <= n => Least(deps, t, g[t])
  <1>0. \A t \in SUBSET D : IsFiniteSet(D \ t) /\ Cardinality(D \ t) \in Nat
    BY FS_Subset, FS_CardinalityType DEF Closes
  <1>1. \A t \in SUBSET D : Closed(deps, t) => Least(deps, t, g[t])
    <2> TAKE t \in SUBSET D
    <2> SUFFICES ASSUME Closed(deps, t) PROVE Least(deps, t, g[t])
      OBVIOUS
    <2>1. g[t] = t
      BY ExtendedIs DEF Reaches
    <2> QED BY <2>1 DEF Least
  <1>2. ASSUME NEW t \in SUBSET D, ~Closed(deps, t)
        PROVE  /\ Extended(deps, t) \in SUBSET D
               /\ Cardinality(D \ Extended(deps, t)) < Cardinality(D \ t)
               /\ Least(deps, Extended(deps, t), g[Extended(deps, t)]) => Least(deps, t, g[t])
    <2> DEFINE e == Extended(deps, t)
    <2>1. e \in SUBSET D /\ t \subseteq e /\ e # t
      BY <1>2, ExtendedIs
    <2>2. \A c \in SUBSET D : Closed(deps, c) /\ t \subseteq c => e \subseteq c
      BY ExtendedIs
    <2>3. g[t] = g[e]
      BY <2>1 DEF Reaches
    <2> HIDE DEF e
    <2>4. Cardinality(D \ e) < Cardinality(D \ t)
      <3>1. D \ e \subseteq D \ t /\ D \ e # D \ t
        BY <2>1
      <3>2. IsFiniteSet(D \ t)
        BY <1>0
      <3> DEFINE A == D \ e
                 B == D \ t
      <3> HIDE DEF A, B
      <3>3. Cardinality(A) < Cardinality(B)
        BY <3>1, <3>2, FS_Subset, FS_CardinalityType DEF A, B
      <3> QED BY <3>3 DEF A, B
    <2>5. Least(deps, e, g[e]) => Least(deps, t, g[t])
      BY <2>1, <2>2, <2>3 DEF Least
    <2> QED BY <2>1, <2>4, <2>5 DEF e
  <1>3. P(0)
    <2> SUFFICES ASSUME NEW t \in SUBSET D, Cardinality(D \ t) <= 0 PROVE Least(deps, t, g[t])
      OBVIOUS
    <2>1. Cardinality(D \ t) = 0
      BY <1>0
    <2>2. D \ t = {}
      BY <2>1, <1>0, FS_EmptySet
    <2>3. Closed(deps, t)
      BY <2>2 DEF Closed, Closes
    <2> QED BY <2>3, <1>1
  <1>4. ASSUME NEW n \in Nat, P(n) PROVE P(n + 1)
    <2> SUFFICES ASSUME NEW t \in SUBSET D, Cardinality(D \ t) <= n + 1 PROVE Least(deps, t, g[t])
      OBVIOUS
    <2>1. CASE Closed(deps, t)
      BY <2>1, <1>1
    <2>2. CASE ~Closed(deps, t)
      <3> DEFINE e == Extended(deps, t)
      <3>1. /\ e \in SUBSET D /\ Cardinality(D \ e) < Cardinality(D \ t)
            /\ Least(deps, e, g[e]) => Least(deps, t, g[t])
        BY <2>2, <1>2
      <3> HIDE DEF e
      <3>2. Cardinality(D \ e) \in Nat /\ Cardinality(D \ t) \in Nat
        BY <3>1, <1>0
      <3>3. Cardinality(D \ e) <= n
        BY <3>1, <3>2
      <3> QED BY <3>1, <3>3, <1>4
    <2> QED BY <2>1, <2>2
  <1>5. \A n \in Nat : P(n)
    <2> DEFINE T == {n \in Nat : P(n)}
    <2>1. 0 \in T /\ \A n \in Nat : n \in T => n + 1 \in T
      <3> HIDE DEF P
      <3> QED BY <1>3, <1>4
    <2>2. Nat \subseteq T
      <3> HIDE DEF T
      <3> QED BY <2>1, SetInduction
    <2> HIDE DEF P
    <2> QED BY <2>2
  <1>6. Cardinality(D \ s) \in Nat
    BY <1>0
  <1> QED BY <1>5, <1>6

(* What a construct reaches is the least closed set with it.               *)
LEMMA ReachIsLeast ==
  ASSUME NEW deps, Closes(deps), NEW s \in SUBSET DOMAIN deps
  PROVE  Least(deps, s, Reach(deps, s))
  <1> DEFINE g == CHOOSE g : Reaches(g, deps)
  <1>1. Reach(deps, s) = g[s]
    BY DEF Reach, Reaches
  <1>2. Reaches(g, deps)
    BY ReachExists
  <1> HIDE DEF g
  <1> QED BY <1>1, <1>2, ReachesLeast
-----------------------------------------------------------------------------
(* What a normalized document is.                                          *)
Normal(n) ==
  /\ n = [a \in DOMAIN n |-> n[a]]
  /\ Closes(DirectOf(n))
  /\ \A a \in DOMAIN n :
       /\ n[a].closure = ClosureFor(a, DirectOf(n))
       /\ n[a] = [fingerprint |-> n[a].fingerprint, direct |-> n[a].direct,
                  closure |-> n[a].closure, provenance |-> n[a].provenance]

(* A checked document is normalized to that.                               *)
LEMMA NormalizedIsNormal ==
  ASSUME NEW document, Decodes(document), ValidateCore(document), NEW provenance
  PROVE  Normal(NormalizeCore(document, provenance))
  <1> DEFINE s == BuildDrafts(document)
             at == DraftAt(s)
             path == [a \in DOMAIN at |-> Named(provenance, at[a].declaration).path]
             deps == [a \in DOMAIN at |-> at[a].deps]
             n == NormalizeCore(document, provenance)
  <1>1. DOMAIN at = Addresses(s) /\ IsFiniteSet(Addresses(s))
    <2>1. IsList(s) /\ Apart(s)
      BY DocumentDrafted DEF Sound
    <2> HIDE DEF s
    <2> QED BY <2>1, AddressesCounted DEF DraftAt
  <1>2. ASSUME NEW a \in DOMAIN at PROVE \A dep \in at[a].deps : dep.target \in DOMAIN at
    <2>1. ~DraftsClash(s)
      BY DraftsStand
    <2> HIDE DEF s
    <2>2. \E i \in DOMAIN s : s[i].address = a
      BY <1>1 DEF Addresses
    <2>3. PICK i \in DOMAIN s : at[a] = s[i]
      BY <2>2, <1>1 DEF DraftAt
    <2> HIDE DEF at
    <2> QED BY <2>1, <2>3, <1>1 DEF DraftsClash
  <1>3. n = [a \in DOMAIN at |-> NormalizedNode(at[a], path, ClosureFor(a, deps))]
    BY DEF NormalizeCore, NormalizedDrafts, NormalizedNodes
  <1> HIDE DEF n, at, s, path
  <1>4. DOMAIN n = DOMAIN at /\ n = [a \in DOMAIN n |-> n[a]]
    BY <1>3
  <1>5. ASSUME NEW a \in DOMAIN n
        PROVE  /\ n[a].direct = at[a].deps /\ n[a].closure = ClosureFor(a, deps)
               /\ n[a] = [fingerprint |-> n[a].fingerprint, direct |-> n[a].direct,
                          closure |-> n[a].closure, provenance |-> n[a].provenance]
    <2>1. n[a] = NormalizedNode(at[a], path, ClosureFor(a, deps))
      BY <1>3, <1>4
    <2> HIDE DEF deps
    <2> QED BY <2>1 DEF NormalizedNode
  <1>6. DirectOf(n) = deps
    BY <1>4, <1>5 DEF DirectOf
  <1>7. Closes(deps)
    BY <1>1, <1>2 DEF Closes
  <1> QED BY <1>4, <1>5, <1>6, <1>7 DEF Normal, n

(* A reused construct is taken as it was: what the incremental candidate   *)
(* says is what the clean one says.                                        *)
LEMMA ReuseIsClean ==
  ASSUME NEW nb, Normal(nb), NEW nc, Normal(nc)
  PROVE  CleanParity(nb, nc, CompareNormalizedCore(nb, nc))
  <1> DEFINE r == CompareNormalizedCore(nb, nc)
             n == IncrementalCandidate(nb, nc, r)
  <1>1. ASSUME NEW a \in DOMAIN nc
        PROVE  n[a] = nc[a]
    <2>0. r[a] = Compared(nb, nc, a, Preliminary(nb, nc, a), ChangedPremises(nb, nc, a))
      BY DEF CompareNormalizedCore
    <2>n. n[a] = IF r[a].status = "reused"
                 THEN [nb[a] EXCEPT !.provenance = nc[a].provenance] ELSE nc[a]
      BY DEF IncrementalCandidate
    <2> HIDE DEF r, n
    <2>1. CASE r[a].status # "reused"
      BY <2>1, <2>n
    <2>2. CASE r[a].status = "reused"
      <3> DEFINE first == Preliminary(nb, nc, a)
                 premises == ChangedPremises(nb, nc, a)
      <3>1. /\ first = "reused" /\ nb[a].direct = nc[a].direct /\ nb[a].closure = nc[a].closure
        <4> HIDE DEF first, premises
        <4>1. Compared(nb, nc, a, first, premises).status = "reused"
          BY <2>0, <2>2 DEF first, premises
        <4> QED BY <4>1 DEF Compared
      <3>2. a \in DOMAIN nb /\ nb[a].fingerprint = nc[a].fingerprint
        BY <3>1 DEF Preliminary
      <3>3. /\ nb[a] = [fingerprint |-> nb[a].fingerprint, direct |-> nb[a].direct,
                        closure |-> nb[a].closure, provenance |-> nb[a].provenance]
            /\ nc[a] = [fingerprint |-> nc[a].fingerprint, direct |-> nc[a].direct,
                        closure |-> nc[a].closure, provenance |-> nc[a].provenance]
        BY <3>2 DEF Normal
      <3> DEFINE f == nb[a].fingerprint
                 d == nb[a].direct
                 c == nb[a].closure
                 p == nb[a].provenance
                 q == nc[a].provenance
      <3>4. /\ nb[a] = [fingerprint |-> f, direct |-> d, closure |-> c, provenance |-> p]
            /\ nc[a] = [fingerprint |-> f, direct |-> d, closure |-> c, provenance |-> q]
        BY <3>1, <3>2, <3>3
      <3>5. [nb[a] EXCEPT !.provenance = q] = nc[a]
        <4> HIDE DEF f, d, c, p, q
        <4> QED BY <3>4
      <3> QED BY <3>5, <2>2, <2>n
    <2> QED BY <2>1, <2>2
  <1>2. DOMAIN n = DOMAIN nc /\ n = [a \in DOMAIN n |-> n[a]] /\ nc = [a \in DOMAIN nc |-> nc[a]]
    BY DEF IncrementalCandidate, Normal
  <1> HIDE DEF n
  <1>3. n = nc
    BY <1>1, <1>2
  <1> QED BY <1>3 DEF CleanParity, n

(* What a construct rests on: itself, and what its own premises and theirs *)
(* are on.                                                                 *)
RestsIn(n, a, r) ==
  /\ a \in r /\ r \subseteq DOMAIN n
  /\ \A x \in r : \A dep \in n[x].direct : dep.target \in r
  /\ \A x \in r : x = a \/ \E dep \in n[a].closure : dep.target = x
  /\ n[a].closure = {dep \in UNION {n[x].direct : x \in r} : dep.target # a}
  /\ \A c \in SUBSET DOMAIN n :
       a \in c /\ (\A x \in c : \A dep \in n[x].direct : dep.target \in c) => r \subseteq c

(* It is what it reaches.                                                  *)
LEMMA RestsOn ==
  ASSUME NEW n, Normal(n), NEW a \in DOMAIN n
  PROVE  RestsIn(n, a, Reach(DirectOf(n), {a}))
  <1> DEFINE deps == DirectOf(n)
             r == Reach(DirectOf(n), {a})
  <1>1. DOMAIN deps = DOMAIN n /\ \A x \in DOMAIN n : deps[x] = n[x].direct
    BY DEF DirectOf
  <1>2. Closes(deps)
    BY DEF Normal
  <1>3. Least(deps, {a}, r)
    <2> HIDE DEF deps
    <2>1. {a} \in SUBSET DOMAIN deps
      BY <1>1
    <2>2. Least(deps, {a}, Reach(deps, {a}))
      BY <1>2, <2>1, ReachIsLeast
    <2> QED BY <2>2 DEF deps
  <1>4. n[a].closure = {dep \in UNION {deps[x] : x \in r} : dep.target # a}
    BY DEF Normal, ClosureFor
  <1> HIDE DEF deps, r
  <1>5. /\ a \in r /\ r \subseteq DOMAIN n
        /\ \A x \in r : \A dep \in n[x].direct : dep.target \in r
    BY <1>1, <1>3 DEF Least, Closed
  <1>6. n[a].closure = {dep \in UNION {n[x].direct : x \in r} : dep.target # a}
    <2>1. {deps[x] : x \in r} = {n[x].direct : x \in r}
      BY <1>1, <1>5
    <2> QED BY <1>4, <2>1
  <1>7. ASSUME NEW c \in SUBSET DOMAIN n, a \in c,
               \A x \in c : \A dep \in n[x].direct : dep.target \in c
        PROVE  r \subseteq c
    BY <1>1, <1>3, <1>7 DEF Least, Closed
  <1>8. ASSUME NEW x \in r PROVE x = a \/ \E dep \in n[a].closure : dep.target = x
    <2> DEFINE c == {y \in r : y = a \/ \E dep \in n[a].closure : dep.target = y}
    <2>1. \A y \in c : \A dep \in n[y].direct : dep.target \in c
      BY <1>5, <1>6
    <2>2. c \in SUBSET DOMAIN n /\ a \in c
      BY <1>5
    <2>3. \A y \in c : y = a \/ \E dep \in n[a].closure : dep.target = y
      OBVIOUS
    <2> HIDE DEF c
    <2>4. r \subseteq c
      BY <2>1, <2>2, <1>7
    <2> QED BY <2>3, <2>4
  <1> QED BY <1>5, <1>6, <1>7, <1>8 DEF RestsIn, r

(* The comparison is exact.                                                *)
LEMMA ReuseExact ==
  ASSUME NEW nb, Normal(nb), NEW nc, Normal(nc), NEW a \in DOMAIN nc,
         NEW r, r = Reach(DirectOf(nc), {a}),
         NEW status, status = CompareNormalizedCore(nb, nc)[a].status
  PROVE  /\ status = "reused" =>
              Same(nb, nc, a) /\ \A x \in r : Says(nb, nc, x)
         /\ (\A x \in r : Same(nb, nc, x)) => status = "reused"
  <1> DEFINE first == Preliminary(nb, nc, a)
             premises == ChangedPremises(nb, nc, a)
  <1>0. status = Compared(nb, nc, a, first, premises).status
    BY DEF CompareNormalizedCore
  <1>1. status = "reused" <=>
          /\ first = "reused" /\ premises = {} /\ nb[a].direct = nc[a].direct
          /\ nb[a].closure = nc[a].closure
    <2> HIDE DEF first, premises
    <2> QED BY <1>0 DEF Compared
  <1>2. ASSUME NEW x PROVE Preliminary(nb, nc, x) = "reused" <=> Says(nb, nc, x)
    BY DEF Preliminary, Says
  <1>3. RestsIn(nc, a, r)
    BY RestsOn
  <1>4. ASSUME status = "reused"
        PROVE  Same(nb, nc, a) /\ \A x \in r : Says(nb, nc, x)
    <2>1. first = "reused" /\ premises = {} /\ nb[a].direct = nc[a].direct
      BY <1>1, <1>4
    <2>2. Says(nb, nc, a)
      BY <1>2, <2>1
    <2>3. \A dep \in nc[a].closure : Says(nb, nc, dep.target)
      BY <1>2, <2>1 DEF ChangedPremises
    <2>4. Same(nb, nc, a)
      BY <2>1, <2>2 DEF Same, Says
    <2>5. \A x \in r : Says(nb, nc, x)
      <3>1. \A x \in r : x = a \/ \E dep \in nc[a].closure : dep.target = x
        BY <1>3 DEF RestsIn
      <3> QED BY <3>1, <2>2, <2>3
    <2> QED BY <2>4, <2>5
  <1>5. ASSUME \A x \in r : Same(nb, nc, x)
        PROVE  status = "reused"
    <2> DEFINE q == Reach(DirectOf(nb), {a})
    <2>0. a \in DOMAIN nb /\ r \subseteq DOMAIN nb /\ \A x \in r : nb[x].direct = nc[x].direct
      BY <1>3, <1>5 DEF Same, RestsIn
    <2>1. RestsIn(nb, a, q)
      BY <2>0, RestsOn
    <2> HIDE DEF q, first, premises
    <2>2. q \subseteq r
      <3>1. \A x \in r : \A dep \in nb[x].direct : dep.target \in r
        BY <1>3, <2>0 DEF RestsIn
      <3> QED BY <1>3, <2>0, <2>1, <3>1 DEF RestsIn
    <2>3. r \subseteq q
      <3>1. \A x \in q : \A dep \in nc[x].direct : dep.target \in q
        BY <2>0, <2>1, <2>2 DEF RestsIn
      <3>2. q \subseteq DOMAIN nc /\ a \in q
        BY <1>3, <2>1, <2>2 DEF RestsIn
      <3> QED BY <1>3, <3>1, <3>2 DEF RestsIn
    <2>4. q = r
      BY <2>2, <2>3
    <2>5. nb[a].closure = nc[a].closure
      <3>1. {nb[x].direct : x \in r} = {nc[x].direct : x \in r}
        BY <2>0
      <3>2. nb[a].closure = {dep \in UNION {nb[x].direct : x \in r} : dep.target # a}
        BY <2>1, <2>4 DEF RestsIn
      <3>3. nc[a].closure = {dep \in UNION {nc[x].direct : x \in r} : dep.target # a}
        BY <1>3 DEF RestsIn
      <3> QED BY <3>1, <3>2, <3>3
    <2>6. \A x \in r : Preliminary(nb, nc, x) = "reused"
      BY <1>2, <1>5 DEF Same, Says
    <2>7. \A dep \in nc[a].direct \cup nc[a].closure : dep.target \in r
      <3>1. a \in r /\ \A x \in r : \A dep \in nc[x].direct : dep.target \in r
        BY <1>3 DEF RestsIn
      <3>2. nc[a].closure = {dep \in UNION {nc[x].direct : x \in r} : dep.target # a}
        BY <1>3 DEF RestsIn
      <3>3. \A dep \in nc[a].closure : \E x \in r : dep \in nc[x].direct
        BY <3>2
      <3> QED BY <3>1, <3>3
    <2>8. premises = {}
      <3>1. nb[a].direct = nc[a].direct /\ r \subseteq DOMAIN nc
        BY <2>0, <1>3 DEF RestsIn
      <3> QED BY <3>1, <2>5, <2>6, <2>7 DEF ChangedPremises, premises
    <2>9. first = "reused" /\ nb[a].direct = nc[a].direct
      BY <2>0, <2>6, <1>3 DEF RestsIn, first
    <2> QED BY <1>1, <2>5, <2>8, <2>9
  <1> QED BY <1>4, <1>5
-----------------------------------------------------------------------------
(* The value of a node, from those of the nodes before it.                 *)
NodeValue(g, term, n, assignment, model) ==
  IF term[n].kind = "variable" THEN assignment[term[n].id]
  ELSE ResultAt(RowsOf(model, term[n].id),
                [i \in DOMAIN term[n].arguments |-> g[term[n].arguments[i]]])

(* g is a function as EvaluateTerm defines it.                             *)
Values(g, term, assignment, model) ==
  g = [n \in DOMAIN term |-> NodeValue(g, term, n, assignment, model)]

(* The arguments of a node come before it.                                 *)
LEMMA ArgumentsBefore ==
  ASSUME NEW term, IsTerm(term)
  PROVE  /\ Len(term) \in Nat /\ DOMAIN term = 1..Len(term) /\ Len(term) # 0
         /\ \A n \in DOMAIN term : term[n].kind # "variable" =>
              /\ IsList(term[n].arguments)
              /\ \A i \in DOMAIN term[n].arguments : term[n].arguments[i] \in 1..(n - 1)
  <1>1. IsList(term) /\ term # <<>>
    BY DEF IsTerm, IsTree
  <1>2. Len(term) \in Nat /\ DOMAIN term = 1..Len(term)
    BY <1>1, ListFacts
  <1>3. Len(term) # 0
    <2>1. term \in Seq(Members(term))
      BY <1>1 DEF IsList
    <2> QED BY <1>1, <2>1
  <1>4. ASSUME NEW n \in DOMAIN term, term[n].kind # "variable"
        PROVE  /\ IsList(term[n].arguments)
               /\ \A i \in DOMAIN term[n].arguments : term[n].arguments[i] \in 1..(n - 1)
    <2>1. term[n].kind = "application" /\ IsList(term[n].arguments)
      BY <1>4 DEF IsTerm, Members
    <2>2. PartsOf(term[n]) \subseteq 1..(n - 1)
      BY DEF IsTerm, IsTree
    <2>3. Members(term[n].arguments) \subseteq 1..(n - 1)
      BY <2>1, <2>2 DEF PartsOf
    <2> QED BY <2>1, <2>3 DEF Members
  <1> QED BY <1>2, <1>3, <1>4

(* Two functions that agree before a node give it the same value.          *)
LEMMA SameValue ==
  ASSUME NEW term, IsTerm(term), NEW n \in DOMAIN term, NEW assignment, NEW model,
         NEW g, NEW h, \A m \in 1..(n - 1) : g[m] = h[m]
  PROVE  NodeValue(g, term, n, assignment, model) = NodeValue(h, term, n, assignment, model)
  <1>1. CASE term[n].kind = "variable"
    BY <1>1 DEF NodeValue
  <1>2. CASE term[n].kind # "variable"
    <2>1. \A i \in DOMAIN term[n].arguments : g[term[n].arguments[i]] = h[term[n].arguments[i]]
      BY <1>2, ArgumentsBefore
    <2>2. [i \in DOMAIN term[n].arguments |-> g[term[n].arguments[i]]]
            = [i \in DOMAIN term[n].arguments |-> h[term[n].arguments[i]]]
      BY <2>1
    <2> QED BY <1>2, <2>2 DEF NodeValue
  <1> QED BY <1>1, <1>2

(* There is such a function.                                               *)
LEMMA ValuesExist ==
  ASSUME NEW term, IsTerm(term), NEW assignment, NEW model
  PROVE  \E g : Values(g, term, assignment, model)
  <1> DEFINE N == Len(term)
             Val(g, n) == NodeValue(g, term, n, assignment, model)
             P(k) == k <= N => \E g : \A n \in 1..k : g[n] = Val(g, n)
  <1>0. N \in Nat /\ DOMAIN term = 1..N
    BY ArgumentsBefore
  <1>1. P(0)
    OBVIOUS
  <1>2. ASSUME NEW k \in Nat, P(k) PROVE P(k + 1)
    <2> SUFFICES ASSUME k + 1 <= N PROVE \E g : \A n \in 1..(k + 1) : g[n] = Val(g, n)
      OBVIOUS
    <2>1. k <= N /\ k + 1 \in 1..N
      BY <1>0
    <2>2. PICK h : \A n \in 1..k : h[n] = Val(h, n)
      BY <1>2, <2>1
    <2> DEFINE g == [n \in 1..(k + 1) |-> IF n = k + 1 THEN Val(h, n) ELSE h[n]]
    <2>3. (\A n \in 1..k : g[n] = h[n]) /\ g[k + 1] = Val(h, k + 1)
      <3>1. \A n \in 1..k : n \in 1..(k + 1) /\ n # k + 1
        OBVIOUS
      <3>2. k + 1 \in 1..(k + 1)
        OBVIOUS
      <3> HIDE DEF Val
      <3> QED BY <3>1, <3>2
    <2> HIDE DEF g
    <2>4. ASSUME NEW n \in 1..(k + 1) PROVE g[n] = Val(g, n)
      <3>1. n \in DOMAIN term
        BY <2>1, <1>0
      <3>2. \A m \in 1..(n - 1) : g[m] = h[m]
        <4>1. \A m \in 1..(n - 1) : m \in 1..k
          OBVIOUS
        <4> QED BY <4>1, <2>3
      <3>3. Val(g, n) = Val(h, n)
        BY <3>1, <3>2, SameValue
      <3>4. CASE n = k + 1
        BY <3>3, <3>4, <2>3
      <3>5. CASE n # k + 1
        <4>1. n \in 1..k
          BY <3>5
        <4> HIDE DEF Val
        <4> QED BY <4>1, <3>3, <2>2, <2>3
      <3> QED BY <3>4, <3>5
    <2> QED BY <2>4
  <1>3. P(N)
    <2> HIDE DEF P, N
    <2> DEFINE T == {k \in Nat : P(k)}
    <2>1. 0 \in T /\ \A k \in Nat : k \in T => k + 1 \in T
      BY <1>1, <1>2
    <2>2. Nat \subseteq T
      <3> HIDE DEF T
      <3> QED BY <2>1, SetInduction
    <2> QED BY <2>2, <1>0
  <1>4. PICK h : \A n \in 1..N : h[n] = Val(h, n)
    BY <1>3, <1>0
  <1> DEFINE g == [n \in DOMAIN term |-> h[n]]
  <1>5. ASSUME NEW n \in DOMAIN term PROVE g[n] = Val(g, n)
    <2>1. \A m \in 1..(n - 1) : g[m] = h[m]
      BY <1>0
    <2> HIDE DEF g
    <2>2. Val(g, n) = Val(h, n)
      BY <2>1, SameValue
    <2>3. h[n] = Val(h, n)
      BY <1>0, <1>4
    <2>4. g[n] = h[n]
      BY DEF g
    <2> QED BY <2>2, <2>3, <2>4
  <1>6. g = [n \in DOMAIN term |-> g[n]]
    OBVIOUS
  <1> HIDE DEF g
  <1>7. g = [n \in DOMAIN term |-> Val(g, n)]
    BY <1>5, <1>6
  <1> QED BY <1>7 DEF Values
(* A checked model has a row for every tuple of its carriers.              *)
LEMMA RowFound ==
  ASSUME NEW model, NEW theory_, ValidModel(model, theory_), NEW op \in Members(theory_.operations),
         NEW tuple \in Arguments(model, op.parameters)
  PROVE  ResultAt(RowsOf(model, op.id), tuple) \in CarrierOf(model, op.result)
  <1> DEFINE o == Named(model.operations, op.id)
             rows == o.rows
             at == [i \in DOMAIN rows |-> rows[i].arguments]
             found == {r \in RowsOf(model, op.id) : r.arguments = tuple}
  <1>1. /\ Members(at) = Arguments(model, op.parameters)
        /\ \A r \in Members(rows) : r.result \in CarrierOf(model, op.result)
    BY DEF ValidModel
  <1>2. o \in Members(model.operations) /\ o.id = op.id
    <2>1. op.id \in Ids(theory_.operations)
      BY DEF Ids, Members
    <2>2. op.id \in Ids(model.operations)
      BY <2>1 DEF ValidModel
    <2> QED BY <2>2, NamedIs
  <1>3. RowsOf(model, op.id) = Members(rows)
    <2>1. \A x \in Members(model.operations) : x.id = op.id => x = o
      <3>1. UniqueIds(model.operations)
        BY DEF ValidModel
      <3> HIDE DEF o
      <3> QED BY <3>1, <1>2 DEF UniqueIds, Members
    <2> HIDE DEF o
    <2>2. {x \in Members(model.operations) : x.id = op.id} = {o}
      BY <2>1, <1>2
    <2>3. {Members(x.rows) : x \in {o}} = {Members(rows)}
      OBVIOUS
    <2> QED BY <2>2, <2>3 DEF RowsOf
  <1>4. found # {}
    <2>1. PICK i \in DOMAIN at : at[i] = tuple
      BY <1>1 DEF Members
    <2>2. i \in DOMAIN rows /\ rows[i].arguments = tuple
      BY <2>1
    <2>3. rows[i] \in Members(rows)
      BY <2>2 DEF Members
    <2> HIDE DEF rows
    <2> QED BY <2>2, <2>3, <1>3
  <1>5. \A r \in found : r.result \in CarrierOf(model, op.result)
    <2> HIDE DEF rows
    <2> QED BY <1>1, <1>3
  <1>6. ResultAt(RowsOf(model, op.id), tuple) = (CHOOSE r \in found : TRUE).result
    BY <1>4 DEF ResultAt
  <1> HIDE DEF found
  <1> QED BY <1>4, <1>5, <1>6

(* An assignment of a law's parameters to elements of their sorts.         *)
Assigns(assignment, law, model) ==
  \A id \in Ids(law.parameters) :
    assignment[id] \in CarrierOf(model, Named(law.parameters, id).sort)

(* What is asked of a node and a term that has a sort.                     *)
NodeStands(theory_, law, term, node) ==
  /\ NodeSort(theory_, law, node) # "none"
  /\ node.kind = "variable" \/ Applies(theory_, law, term, node)

(* Every node has a value of its sort.                                     *)
LEMMA ValuesSorted ==
  ASSUME NEW model, NEW theory_, ValidModel(model, theory_),
         \A op \in Members(theory_.operations) : IsList(op.parameters),
         NEW law, NEW assignment, Assigns(assignment, law, model),
         NEW term, IsTerm(term), \A node \in Members(term) : NodeStands(theory_, law, term, node),
         NEW g, Values(g, term, assignment, model)
  PROVE  \A n \in DOMAIN term : g[n] \in CarrierOf(model, NodeSort(theory_, law, term[n]))
  <1> DEFINE N == Len(term)
             S(n) == CarrierOf(model, NodeSort(theory_, law, term[n]))
             P(k) == \A n \in 1..k : n <= N => g[n] \in S(n)
  <1>0. N \in Nat /\ DOMAIN term = 1..N
    BY ArgumentsBefore
  <1>v. \A n \in DOMAIN term : g[n] = NodeValue(g, term, n, assignment, model)
    BY DEF Values
  <1>1. P(0)
    OBVIOUS
  <1>2. ASSUME NEW k \in Nat, P(k), k + 1 <= N PROVE g[k + 1] \in S(k + 1)
    <2> DEFINE n == k + 1
               node == term[n]
    <2>1. n \in DOMAIN term /\ n \in Nat /\ n - 1 = k
      BY <1>0, <1>2
    <2>2. node \in Members(term) /\ NodeStands(theory_, law, term, node)
      BY <2>1 DEF Members
    <2>3. CASE node.kind = "variable"
      <3>1. node.id \in Ids(law.parameters)
            /\ NodeSort(theory_, law, node) = Named(law.parameters, node.id).sort
        BY <2>2, <2>3 DEF NodeStands, NodeSort, VariableSort
      <3>2. g[n] = assignment[node.id]
        BY <2>1, <2>3, <1>v DEF NodeValue
      <3> HIDE DEF n, node
      <3> QED BY <3>1, <3>2 DEF Assigns, n, node
    <2>4. CASE node.kind # "variable"
      <3> DEFINE op == Named(theory_.operations, node.id)
                 tuple == [i \in DOMAIN node.arguments |-> g[node.arguments[i]]]
      <3>1. /\ node.id \in Ids(theory_.operations) /\ NodeSort(theory_, law, node) = op.result
            /\ Applies(theory_, law, term, node)
        BY <2>2, <2>4 DEF NodeStands, NodeSort
      <3>2. op \in Members(theory_.operations) /\ op.id = node.id
        BY <3>1, NamedIs
      <3>3. /\ Len(node.arguments) = Len(op.parameters)
            /\ \A i \in DOMAIN node.arguments :
                 NodeSort(theory_, law, term[node.arguments[i]]) = op.parameters[i].sort
        BY <3>1 DEF Applies
      <3>4. /\ IsList(node.arguments)
            /\ \A i \in DOMAIN node.arguments : node.arguments[i] \in 1..(n - 1)
        BY <2>1, <2>4, ArgumentsBefore
      <3>5. DOMAIN node.arguments = DOMAIN op.parameters
        BY <3>2, <3>3, <3>4, ListFacts
      <3> HIDE DEF op
      <3>6. \A i \in DOMAIN node.arguments : g[node.arguments[i]] \in CarrierOf(model, op.parameters[i].sort)
        <4> TAKE i \in DOMAIN node.arguments
        <4> DEFINE m == node.arguments[i]
        <4>1. m \in 1..k /\ m <= N
          <5>1. m \in 1..(n - 1)
            BY <3>4
          <5> HIDE DEF m, n
          <5> QED BY <5>1, <2>1, <1>0, <1>2
        <4>2. g[m] \in S(m)
          <5> HIDE DEF m, S
          <5> QED BY <4>1, <1>2
        <4>3. NodeSort(theory_, law, term[m]) = op.parameters[i].sort
          BY <3>3
        <4> QED BY <4>2, <4>3
      <3>7. tuple \in Arguments(model, op.parameters)
        <4> DEFINE all == UNION {CarrierOf(model, p.sort) : p \in Members(op.parameters)}
        <4>1. \A i \in DOMAIN op.parameters : CarrierOf(model, op.parameters[i].sort) \subseteq all
          BY DEF Members
        <4>2. Arguments(model, op.parameters)
                = {t \in [DOMAIN op.parameters -> all] :
                     \A i \in DOMAIN op.parameters : t[i] \in CarrierOf(model, op.parameters[i].sort)}
          BY DEF Arguments
        <4>3. \A i \in DOMAIN op.parameters : tuple[i] \in CarrierOf(model, op.parameters[i].sort)
          BY <3>5, <3>6
        <4>4. DOMAIN tuple = DOMAIN op.parameters /\ tuple = [i \in DOMAIN tuple |-> tuple[i]]
          BY <3>5
        <4> HIDE DEF all, tuple
        <4> QED BY <4>1, <4>2, <4>3, <4>4
      <3>8. ResultAt(RowsOf(model, op.id), tuple) \in CarrierOf(model, op.result)
        <4> HIDE DEF tuple
        <4> QED BY <3>2, <3>7, RowFound
      <3>9. g[n] = ResultAt(RowsOf(model, op.id), tuple)
        BY <2>1, <2>4, <3>2, <1>v DEF NodeValue
      <3> QED BY <3>1, <3>8, <3>9 DEF op
    <2> QED BY <2>3, <2>4
  <1>3. ASSUME NEW k \in Nat, P(k) PROVE P(k + 1)
    <2>1. \A n \in 1..(k + 1) : n \in 1..k \/ n = k + 1
      OBVIOUS
    <2> HIDE DEF S
    <2> QED BY <2>1, <1>2, <1>3
  <1>4. P(N)
    <2> HIDE DEF P, N
    <2> DEFINE T == {k \in Nat : P(k)}
    <2>1. 0 \in T /\ \A k \in Nat : k \in T => k + 1 \in T
      BY <1>1, <1>3
    <2>2. Nat \subseteq T
      <3> HIDE DEF T
      <3> QED BY <2>1, SetInduction
    <2> QED BY <2>2, <1>0
  <1> QED BY <1>0, <1>4

(* A term of a checked law has a value of its sort.                        *)
LEMMA TermEvaluates ==
  ASSUME NEW model, NEW theory_, ValidModel(model, theory_),
         \A op \in Members(theory_.operations) : IsList(op.parameters),
         NEW law, NEW assignment, Assigns(assignment, law, model),
         NEW term, IsTerm(term), TermSort(theory_, law, term) # "none"
  PROVE  EvaluateTerm(term, assignment, model) \in CarrierOf(model, TermSort(theory_, law, term))
  <1> DEFINE g == CHOOSE g : Values(g, term, assignment, model)
  <1>1. EvaluateTerm(term, assignment, model) = g[Len(term)]
    BY DEF EvaluateTerm, Values, NodeValue
  <1>2. Values(g, term, assignment, model)
    BY ValuesExist
  <1> HIDE DEF g
  <1>3. \A node \in Members(term) : NodeStands(theory_, law, term, node)
    BY DEF TermSort, NodeStands
  <1>4. TermSort(theory_, law, term) = NodeSort(theory_, law, term[Len(term)])
    BY DEF TermSort, Whole
  <1>5. Len(term) \in DOMAIN term
    BY ArgumentsBefore
  <1> QED BY <1>1, <1>2, <1>3, <1>4, <1>5, ValuesSorted
(* A tuple of the carriers assigns a law's parameters.                     *)
LEMMA TupleAssigns ==
  ASSUME NEW model, NEW law, UniqueIds(law.parameters),
         NEW tuple \in Arguments(model, law.parameters),
         NEW assignment,
         assignment = [id \in Ids(law.parameters) |->
                        tuple[CHOOSE k \in DOMAIN law.parameters : law.parameters[k].id = id]]
  PROVE  Assigns(assignment, law, model)
  <1> SUFFICES ASSUME NEW id \in Ids(law.parameters)
               PROVE  assignment[id] \in CarrierOf(model, Named(law.parameters, id).sort)
    BY DEF Assigns
  <1> DEFINE k == CHOOSE k \in DOMAIN law.parameters : law.parameters[k].id = id
  <1>1. k \in DOMAIN law.parameters /\ law.parameters[k].id = id
    BY DEF Ids
  <1>2. assignment[id] = tuple[k]
    OBVIOUS
  <1> HIDE DEF k
  <1>3. Named(law.parameters, id) = law.parameters[k]
    <2>1. Named(law.parameters, id) \in Members(law.parameters) /\ Named(law.parameters, id).id = id
      BY NamedIs
    <2> DEFINE x == Named(law.parameters, id)
    <2> HIDE DEF x
    <2>2. x = law.parameters[k]
      BY <1>1, <2>1 DEF UniqueIds, Members, x
    <2> QED BY <2>2 DEF x
  <1>4. tuple[k] \in CarrierOf(model, law.parameters[k].sort)
    BY <1>1 DEF Arguments
  <1> QED BY <1>2, <1>3, <1>4

(* A checked model evaluates every law.                                    *)
LEMMA ModelEvaluates ==
  ASSUME NEW document, Decodes(document), ValidateCore(document),
         NEW m \in OfKind(document, "finiteModel"), NEW t \in OfKind(document, "theory"),
         t.id = m.theory, NEW e \in EvaluateFiniteModel(m, t)
  PROVE  "omitted" \notin {e[2], e[3]}
  <1>1. m \in Members(document) /\ t \in Members(document) /\ m.kind = "finiteModel" /\ t.kind = "theory"
    BY DEF OfKind
  <1>2. /\ DecodesDeclaration(m) /\ DecodesDeclaration(t)
        /\ ValidDeclaration(m, document) /\ ValidDeclaration(t, document)
    BY <1>1, CheckedDeclaration
  <1>3. ValidModel(m, t)
    <2>1. PICK u \in OfKind(document, "theory") : u.id = m.theory /\ ValidModel(m, u)
      BY <1>1, <1>2 DEF ValidDeclaration
    <2>2. u = t
      BY <2>1 DEF ValidateCore, UniqueIds, OfKind, Members
    <2> QED BY <2>1, <2>2
  <1>4. ValidTheory(t) /\ DecodesOperations(t.operations) /\ DecodesLaws(t.laws)
    BY <1>1, <1>2 DEF ValidDeclaration, DecodesDeclaration
  <1>5. \A op \in Members(t.operations) : IsList(op.parameters)
    BY <1>4 DEF DecodesOperations
  <1> DEFINE Assign(law, tuple) == [id \in Ids(law.parameters) |->
               tuple[CHOOSE k \in DOMAIN law.parameters : law.parameters[k].id = id]]
             Result(i, tuple) ==
               <<i, EvaluateTerm(t.laws[i].left, Assign(t.laws[i], tuple), m),
                    EvaluateTerm(t.laws[i].right, Assign(t.laws[i], tuple), m)>>
  <1>0. EvaluateFiniteModel(m, t) =
          UNION {{Result(j, tuple) : tuple \in Arguments(m, t.laws[j].parameters)} : j \in DOMAIN t.laws}
    BY DEF EvaluateFiniteModel
  <1> HIDE DEF Result
  <1>6. PICK i \in DOMAIN t.laws : \E tuple \in Arguments(m, t.laws[i].parameters) :
          e = Result(i, tuple)
    BY <1>0
  <1> USE DEF Result
  <1>7. PICK tuple \in Arguments(m, t.laws[i].parameters) : e = Result(i, tuple)
    BY <1>6
  <1> DEFINE law == t.laws[i]
             assignment == Assign(law, tuple)
  <1>8. law \in Members(t.laws)
    BY DEF Members
  <1>9. /\ UniqueIds(law.parameters) /\ IsTerm(law.left) /\ IsTerm(law.right)
        /\ TermSort(t, law, law.left) # "none" /\ TermSort(t, law, law.right) # "none"
    BY <1>4, <1>8 DEF ValidTheory, DecodesLaws
  <1>10. e[2] = EvaluateTerm(law.left, assignment, m) /\ e[3] = EvaluateTerm(law.right, assignment, m)
    BY <1>7
  <1>11. Assigns(assignment, law, m)
    <2> HIDE DEF law
    <2> QED BY <1>7, <1>9, TupleAssigns DEF law
  <1> HIDE DEF law, assignment
  <1>12. /\ e[2] \in CarrierOf(m, TermSort(t, law, law.left))
         /\ e[3] \in CarrierOf(m, TermSort(t, law, law.right))
    BY <1>3, <1>5, <1>9, <1>10, <1>11, TermEvaluates
  <1>13. \A sort : "omitted" \notin CarrierOf(m, sort)
    <2>1. \A c \in Members(m.carriers) : "omitted" \notin Members(c.elements)
      BY <1>1, <1>2 DEF DecodesDeclaration
    <2> QED BY <2>1 DEF CarrierOf
  <1> QED BY <1>12, <1>13

(* A bridge of a checked document joins theories that are there.           *)
LEMMA GraphCloses ==
  ASSUME NEW document, ValidateCore(document), NEW edge \in TheoryGraph(document).edges
  PROVE  edge.ends \subseteq TheoryGraph(document).nodes
  <1>1. PICK b \in OfKind(document, "theoryBridge") :
          edge.ends = {p.theory : p \in Members(b.participants)}
    BY DEF TheoryGraph
  <1>2. ValidBridge(b, OfKind(document, "theory"))
    BY DEF ValidateCore, ValidDeclaration, OfKind
  <1>3. \A p \in Members(b.participants) : \E t \in OfKind(document, "theory") : t.id = p.theory
    BY <1>2 DEF ValidBridge
  <1>4. TheoryGraph(document).nodes = {t.id : t \in OfKind(document, "theory")}
    BY DEF TheoryGraph
  <1> QED BY <1>1, <1>3, <1>4
-----------------------------------------------------------------------------
(* A part of a list is a list of some of its members.                      *)
LEMMA PartIsList ==
  ASSUME NEW s, IsList(s), NEW m \in Nat \ {0}, NEW n \in Nat, n <= Len(s)
  PROVE  IsList(SubSeq(s, m, n)) /\ Members(SubSeq(s, m, n)) \subseteq Members(s)
  <1> DEFINE S == Members(s)
             u == SubSeq(s, m, n)
  <1>1. s \in Seq(S) /\ \A j \in 1..Len(s) : s[j] \in S
    BY DEF IsList, Members
  <1> HIDE DEF S
  <1>2. u \in Seq(S)
    BY <1>1
  <1> HIDE DEF u
  <1>3. \A i \in DOMAIN u : u[i] \in S
    BY <1>2
  <1>4. Members(u) \subseteq S
    BY <1>3 DEF Members
  <1>5. u \in Seq(Members(u))
    BY <1>2 DEF Members
  <1> QED BY <1>4, <1>5 DEF IsList, S, u

(* What the command knows of what it has read: every file decodes, and a   *)
(* comparison is of two checked documents.                                 *)
FilesDecode(files) == IsList(files) /\ \A f \in DOMAIN files : Decodes(files[f])
Checked(files) == FilesDecode(files) /\ ValidateCore(MergeDocuments(files))

AuthoringInv ==
  /\ FilesDecode(loading)
  /\ verdict.stage \notin {"normalization", "clean-parity"}
  /\ verdict.stage = "compared" =>
       /\ AllLoaded /\ Checked(Baseline) /\ Checked(Candidate)
       /\ verdict.results = CompareNormalizedCore(Normalized(Baseline), Normalized(Candidate))

(* Both documents are made of files that decode.                           *)
LEMMA SidesDecode ==
  ASSUME FilesDecode(loading), AllLoaded
  PROVE  FilesDecode(Baseline) /\ FilesDecode(Candidate)
  <1>1. \A x \in Members(loading) : Decodes(x)
    BY DEF FilesDecode, Members
  <1>2. Len(BaselineSources) \in Nat
    BY BaselineAssumption DEF IsList
  <1>3. Len(loading) \in Nat /\ Len(BaselineSources) <= Len(loading)
    BY <1>2 DEF AllLoaded, FilesDecode, IsList
  <1>4. IsList(Baseline) /\ Members(Baseline) \subseteq Members(loading)
    <2>1. IsList(loading) /\ 1 \in Nat \ {0}
      BY DEF FilesDecode
    <2> QED BY <1>2, <1>3, <2>1, PartIsList DEF Baseline
  <1>5. IsList(Candidate) /\ Members(Candidate) \subseteq Members(loading)
    <2>1. IsList(loading) /\ Len(BaselineSources) + 1 \in Nat \ {0} /\ Len(loading) <= Len(loading)
      BY <1>2, <1>3 DEF FilesDecode
    <2> QED BY <1>2, <1>3, <2>1, PartIsList DEF Candidate
  <1> QED BY <1>1, <1>4, <1>5 DEF FilesDecode, Members

(* Checked files are normalized, and the document is then a normal one.    *)
LEMMA CheckedNormalizes ==
  ASSUME NEW files, Checked(files)
  PROVE  /\ ~NormalizationFails(MergeDocuments(files), ProvenanceOf(files))
         /\ Normal(Normalized(files))
         /\ Decodes(MergeDocuments(files))
  <1>1. Decodes(MergeDocuments(files))
    BY MergedDecodes DEF MergeDocuments, Checked, FilesDecode
  <1> QED BY <1>1, NormalizationStands, NormalizedIsNormal DEF Checked, FilesDecode, Normalized

(* Reading a file: it decodes, and there was no verdict yet.               *)
LEMMA LoadAuthors ==
  ASSUME AuthoringInv, LoadSource
  PROVE  AuthoringInv'
  <1> DEFINE file == FileAt(Len(loading) + 1)
  <1>1. CASE file = Undecodable \/ ~Decodes(file)
    <2>1. verdict' = [stage |-> "source-decode"] /\ UNCHANGED loading
      BY <1>1 DEF LoadSource, FailedAt
    <2>2. verdict'.stage = "source-decode"
      BY <2>1
    <2> QED BY <2>1, <2>2 DEF AuthoringInv, FilesDecode
  <1>2. CASE ~(file = Undecodable \/ ~Decodes(file))
    <2>1. loading' = Append(loading, file) /\ UNCHANGED verdict /\ verdict = [stage |-> "pending"]
      BY <1>2 DEF LoadSource, Pending
    <2>2. Decodes(file)
      BY <1>2
    <2> HIDE DEF file
    <2>3. IsList(loading') /\ Members(loading') = Members(loading) \cup {file}
      BY <2>1, AppendedOne DEF AuthoringInv, FilesDecode
    <2>4. \A f \in DOMAIN loading' : Decodes(loading'[f])
      BY <2>2, <2>3 DEF AuthoringInv, FilesDecode, Members
    <2>5. verdict'.stage = "pending"
      BY <2>1
    <2> QED BY <2>3, <2>4, <2>5 DEF AuthoringInv, FilesDecode
  <1> QED BY <1>1, <1>2

(* The verdict on what was read.                                           *)
LEMMA CompileAuthors ==
  ASSUME AuthoringInv, CompileNormalization
  PROVE  AuthoringInv'
  <1> DEFINE b == Baseline
             c == Candidate
  <1>1. FilesDecode(b) /\ FilesDecode(c)
    BY SidesDecode DEF AuthoringInv, CompileNormalization
  <1>2. UNCHANGED loading /\ AllLoaded
    BY DEF CompileNormalization
  <1>3. UNCHANGED <<Baseline, Candidate>> /\ AllLoaded'
    BY <1>2 DEF Baseline, Candidate, AllLoaded
  <1>4. CASE ~ValidateCore(MergeDocuments(b)) \/ ~ValidateCore(MergeDocuments(c))
    <2>1. verdict' = FailedAt("core-validation")
      BY <1>4 DEF CompileNormalization
    <2>2. verdict'.stage = "core-validation"
      BY <2>1 DEF FailedAt
    <2> QED BY <1>2, <2>2 DEF AuthoringInv, FilesDecode
  <1>5. CASE ValidateCore(MergeDocuments(b)) /\ ValidateCore(MergeDocuments(c))
    <2>1. Checked(b) /\ Checked(c)
      BY <1>1, <1>5 DEF Checked
    <2>2. /\ ~NormalizationFails(MergeDocuments(b), ProvenanceOf(b)) /\ Normal(Normalized(b))
          /\ ~NormalizationFails(MergeDocuments(c), ProvenanceOf(c)) /\ Normal(Normalized(c))
      BY <2>1, CheckedNormalizes
    <2>3. verdict' = Comparison(Normalized(b), Normalized(c))
      BY <1>5, <2>2 DEF CompileNormalization
    <2> DEFINE nb == Normalized(b)
               nc == Normalized(c)
    <2>4. verdict' = [stage |-> "compared", results |-> CompareNormalizedCore(nb, nc)]
      <3> HIDE DEF nb, nc
      <3>1. CleanParity(nb, nc, CompareNormalizedCore(nb, nc))
        BY <2>2, ReuseIsClean DEF nb, nc
      <3>2. verdict' = Comparison(nb, nc)
        BY <2>3 DEF nb, nc
      <3> QED BY <3>1, <3>2 DEF Comparison, ComparedAs
    <2>5. /\ verdict'.stage = "compared"
          /\ verdict'.results = CompareNormalizedCore(Normalized(Baseline), Normalized(Candidate))
      BY <2>4
    <2>6. /\ verdict'.results = CompareNormalizedCore(Normalized(Baseline), Normalized(Candidate))'
          /\ Checked(Baseline)' /\ Checked(Candidate)'
      BY <1>3, <2>1, <2>5
    <2> QED BY <1>2, <1>3, <2>5, <2>6 DEF AuthoringInv, FilesDecode
  <1> QED BY <1>4, <1>5

(* An edit reads nothing and gives no verdict.                             *)
LEMMA OthersAuthor ==
  ASSUME AuthoringInv, UNCHANGED <<loading, verdict>>
  PROVE  AuthoringInv'
  <1>1. UNCHANGED <<Baseline, Candidate, AllLoaded>>
    BY DEF Baseline, Candidate, AllLoaded
  <1>2. /\ (Checked(Baseline) /\ Checked(Candidate))' <=> (Checked(Baseline) /\ Checked(Candidate))
        /\ CompareNormalizedCore(Normalized(Baseline), Normalized(Candidate))'
             = CompareNormalizedCore(Normalized(Baseline), Normalized(Candidate))
    BY <1>1
  <1> QED BY <1>1, <1>2 DEF AuthoringInv, FilesDecode

(* It holds of every run of the command.                                   *)
LEMMA AuthoringAlways ==
  AuthoringSpec => []AuthoringInv
  <1>1. AuthoringInit => AuthoringInv
    BY DEF AuthoringInit, AuthoringInv, FilesDecode, IsList, Pending
  <1>2. AuthoringInv /\ [AuthoringNext]_authoring => AuthoringInv'
    <2> SUFFICES ASSUME AuthoringInv, [AuthoringNext]_authoring PROVE AuthoringInv'
      OBVIOUS
    <2>1. CASE EditSource \/ UNCHANGED authoring
      BY <2>1, OthersAuthor DEF EditSource, authoring
    <2> QED BY <2>1, LoadAuthors, CompileAuthors DEF AuthoringNext
  <1> QED BY <1>1, <1>2, PTL DEF AuthoringSpec

(* Whatever the two source sets hold and however the candidate is edited:  *)
(* a reused construct and all it rests on are said as in the baseline, and  *)
(* one said as before of the same premises is reused                       *)
(* (compareNormalizedCore).                                                *)
THEOREM ReuseIsExactAlways == AuthoringSpec => []ReuseIsExact
  <1>1. AuthoringInv => ReuseIsExact
    <2> SUFFICES ASSUME AuthoringInv, verdict.stage = "compared"
                 PROVE  \E n \in {<<Normalized(Baseline), Normalized(Candidate)>>} :
                          ReusedExactly(n[1], n[2], DirectOf(n[2]))
      BY DEF ReuseIsExact
    <2> DEFINE nb == Normalized(Baseline)
               nc == Normalized(Candidate)
    <2>1. Normal(nb) /\ Normal(nc) /\ verdict.results = CompareNormalizedCore(nb, nc)
      BY CheckedNormalizes DEF AuthoringInv
    <2> HIDE DEF nb, nc
    <2>2. ASSUME NEW a \in DOMAIN nc
          PROVE  /\ verdict.results[a].status = "reused" =>
                      Same(nb, nc, a) /\ \A x \in Reach(DirectOf(nc), {a}) : Says(nb, nc, x)
                 /\ (\A x \in Reach(DirectOf(nc), {a}) : Same(nb, nc, x))
                      => verdict.results[a].status = "reused"
      BY <2>1, ReuseExact
    <2>3. ReusedExactly(nb, nc, DirectOf(nc))
      BY <2>2 DEF ReusedExactly
    <2> QED BY <2>3 DEF nb, nc
  <1> QED BY <1>1, AuthoringAlways, PTL

(* A document that is accepted is complete for every later reader          *)
(* (validateCore; normalizeCore, compareNormalizedCore, evaluateFiniteModel *)
(* and buildTheoryGraph have no failure left).                             *)
THEOREM CheckedDocumentsAreCompleteAlways == AuthoringSpec => []CheckedDocumentsAreComplete
  <1>1. AuthoringInv => CheckedDocumentsAreComplete
    <2> SUFFICES ASSUME AuthoringInv PROVE CheckedDocumentsAreComplete
      OBVIOUS
    <2>1. CASE verdict.stage # "compared"
      BY <2>1 DEF AuthoringInv, CheckedDocumentsAreComplete
    <2>2. CASE verdict.stage = "compared"
      <3> DEFINE d == MergeDocuments(Candidate)
      <3>1. Decodes(d) /\ ValidateCore(d)
        BY <2>2, CheckedNormalizes DEF AuthoringInv, Checked
      <3> HIDE DEF d
      <3>2. ASSUME NEW m \in OfKind(d, "finiteModel"), NEW t \in OfKind(d, "theory"), t.id = m.theory
            PROVE  \A e \in EvaluateFiniteModel(m, t) : "omitted" \notin {e[2], e[3]}
        BY <3>1, <3>2, ModelEvaluates
      <3>3. \A e \in TheoryGraph(d).edges : e.ends \subseteq TheoryGraph(d).nodes
        BY <3>1, GraphCloses
      <3> QED BY <2>2, <3>2, <3>3 DEF AuthoringInv, CheckedDocumentsAreComplete, d
    <2> QED BY <2>1, <2>2
  <1> QED BY <1>1, AuthoringAlways, PTL
-----------------------------------------------------------------------------
(* A list of one draft, and what it says.                                  *)
Saying(s, address, semantic) ==
  IsList(s) /\ Members(s) # {} /\ \A x \in Members(s) : x.address = address /\ x.semantic = semantic

(* A draft says what it was made to say.                                   *)
LEMMA DraftSays ==
  ASSUME NEW a, NEW k, NEW said, NEW d, NEW deps
  PROVE  Saying(Draft(a, k, said, d, deps), a, said)
  <1> DEFINE x == [address |-> a, kind |-> k, semantic |-> said, declaration |-> d.id, deps |-> deps]
  <1>1. x.address = a /\ x.semantic = said
    OBVIOUS
  <1> HIDE DEF x
  <1>2. Draft(a, k, said, d, deps) = <<x>>
    BY DEF Draft, x
  <1>3. IsList(<<x>>) /\ Members(<<x>>) = {x}
    BY DEF IsList, Members
  <1> QED BY <1>1, <1>2, <1>3 DEF Saying

(* What the drafts of a realization say of the operation it is of and of   *)
(* each of its requirements.                                               *)
SaysRealization(drafts, d) ==
  /\ \E x \in drafts : /\ x.address = Part(d, "operation", "operation")
                       /\ x.semantic = [machine |-> d.machine, operation |-> d.operation]
  /\ \A r \in Members(d.requires) : \E x \in drafts :
       x.address = Part(d, "requirement", r.capability) /\ x.semantic = r
  /\ \A x \in drafts : Len(x.address) = 4 /\ x.address[3] = "requirement" =>
       \E r \in Members(d.requires) : x.address = Part(d, "requirement", r.capability)

(* They say it.                                                            *)
LEMMA RealizationSays ==
  ASSUME NEW d, IsList(d.requires)
  PROVE  SaysRealization(Members(RealizationDrafts(d)), d)
  <1> DEFINE operation == Part(d, "operation", "operation")
             disabled == Part(d, "disabled", d.disabled)
             Requires(r) == Part(d, "requirement", r.capability)
             Of == Dep("state-operation", <<"stateMachine", d.machine, "transition", d.operation>>)
             Needs(r) == Dep("capability-requirement", <<"capability", r.capability>>)
             One(r) == Draft(Requires(r), "capabilityRequirement", r, d, Needs(r))
             of == [machine |-> d.machine, operation |-> d.operation]
             h == Draft(operation, "operation", of, d, Of)
             S == [i \in DOMAIN d.requires |-> One(d.requires[i])]
             e == Draft(disabled, "disabled", [id |-> d.disabled], d, {})
             All == UNION {Dep("construct-member", a) :
                           a \in {operation, disabled} \cup {Requires(r) : r \in Members(d.requires)}}
             root == Draft(Root(d), d.kind, [id |-> d.id], d, All)
             F == FlattenSeq(S)
  <1>1. RealizationDrafts(d) = ((h \o F) \o e) \o root
    BY DEF RealizationDrafts, Each
  <1>2. /\ Saying(h, operation, of) /\ Saying(e, disabled, [id |-> d.disabled])
        /\ Saying(root, Root(d), [id |-> d.id])
    <2> HIDE DEF operation, disabled, of, Of, All
    <2> QED BY DraftSays
  <1>3. ASSUME NEW i \in DOMAIN d.requires
        PROVE  Saying(S[i], Requires(d.requires[i]), d.requires[i])
    <2>1. S[i] = One(d.requires[i])
      OBVIOUS
    <2> HIDE DEF S, Requires, Needs
    <2> QED BY <2>1, DraftSays
  <1>4. DOMAIN S = DOMAIN d.requires /\ S = [i \in DOMAIN S |-> S[i]]
    OBVIOUS
  <1>5. /\ Len(operation) = 4 /\ operation[3] = "operation" /\ disabled[3] = "disabled"
        /\ Len(Root(d)) = 2
    BY DEF Part, Root
  <1> HIDE DEF S, h, e, root, F, operation, disabled, of, Requires
  <1>6. IsList(S)
    BY <1>4, MadeOfEach
  <1>7. IsList(F) /\ Members(F) = UNION {Members(S[i]) : i \in DOMAIN S}
    BY <1>3, <1>4, <1>6, FlattenedLists DEF Saying, F
  <1>8. /\ IsList(h \o F) /\ Members(h \o F) = Members(h) \cup Members(F)
        /\ IsList((h \o F) \o e) /\ Members((h \o F) \o e) = Members(h \o F) \cup Members(e)
        /\ Members(((h \o F) \o e) \o root) = Members((h \o F) \o e) \cup Members(root)
    BY <1>2, <1>7, AppendedLists DEF Saying
  <1> DEFINE M == Members(RealizationDrafts(d))
  <1>9. M = Members(h) \cup Members(F) \cup Members(e) \cup Members(root)
    BY <1>1, <1>8
  <1> HIDE DEF M
  <1>10. \E x \in M : x.address = operation /\ x.semantic = of
    BY <1>2, <1>9 DEF Saying
  <1>11. ASSUME NEW r \in Members(d.requires)
         PROVE  \E x \in M : x.address = Requires(r) /\ x.semantic = r
    <2>1. PICK i \in DOMAIN d.requires : r = d.requires[i]
      BY DEF Members
    <2>2. PICK x \in Members(S[i]) : x.address = Requires(r) /\ x.semantic = r
      BY <1>3, <2>1 DEF Saying
    <2>3. x \in Members(F)
      BY <1>4, <1>7, <2>2
    <2> QED BY <1>9, <2>2, <2>3
  <1>12. ASSUME NEW x \in M, Len(x.address) = 4, x.address[3] = "requirement"
         PROVE  \E r \in Members(d.requires) : x.address = Requires(r)
    <2>1. x \in Members(F)
      BY <1>2, <1>5, <1>9, <1>12 DEF Saying
    <2>2. PICK i \in DOMAIN S : x \in Members(S[i])
      BY <1>7, <2>1
    <2>3. x.address = Requires(d.requires[i]) /\ d.requires[i] \in Members(d.requires)
      BY <1>3, <1>4, <2>2 DEF Saying, Members
    <2> QED BY <2>3
  <1> QED BY <1>10, <1>11, <1>12 DEF SaysRealization, M, operation, Requires, of

(* Where the drafts of a document come from.                               *)
LEMMA DraftsOfDocument ==
  ASSUME NEW document, Decodes(document), ValidateCore(document)
  PROVE  /\ \A d \in Members(document) :
              Members(DraftsOf(d, document)) \subseteq Members(BuildDrafts(document))
         /\ \A x \in Members(BuildDrafts(document)) :
              Len(x.address) = 5 \/ \E d \in Members(document) : x \in Members(DraftsOf(d, document))
  <1> DEFINE S == [i \in DOMAIN document |-> DraftsOf(document[i], document)]
             F == FlattenSeq(S)
             O == ObligationDrafts(document)
  <1>1. BuildDrafts(document) = F \o O
    BY DEF BuildDrafts, Each
  <1>2. \A i \in DOMAIN document : IsList(S[i])
    <2> TAKE i \in DOMAIN document
    <2>1. document[i] \in Members(document) /\ S[i] = DraftsOf(document[i], document)
      BY DEF Members
    <2> HIDE DEF S
    <2> QED BY <2>1, DeclarationDrafted DEF DraftedFor, Sound
  <1>3. DOMAIN S = DOMAIN document /\ S = [i \in DOMAIN S |-> S[i]]
    OBVIOUS
  <1>4. \A i \in DOMAIN document : S[i] = DraftsOf(document[i], document)
    OBVIOUS
  <1> HIDE DEF S
  <1>5. IsList(S)
    BY <1>3, MadeOfEach DEF Decodes
  <1>6. IsList(F) /\ Members(F) = UNION {Members(S[i]) : i \in DOMAIN S}
    BY <1>2, <1>3, <1>5, FlattenedLists
  <1>7. IsList(O) /\ \A x \in Members(O) : Len(x.address) = 5
    BY ObligationsDrafted DEF Sound
  <1> HIDE DEF F, O
  <1>8. Members(BuildDrafts(document)) = Members(F) \cup Members(O)
    BY <1>1, <1>6, <1>7, AppendedLists
  <1>9. ASSUME NEW d \in Members(document)
        PROVE  Members(DraftsOf(d, document)) \subseteq Members(F)
    <2>1. PICK i \in DOMAIN document : d = document[i]
      BY DEF Members
    <2>2. S[i] = DraftsOf(d, document) /\ i \in DOMAIN S
      BY <2>1, <1>3, <1>4
    <2> QED BY <2>2, <1>6
  <1>10. ASSUME NEW x \in Members(F)
         PROVE  \E d \in Members(document) : x \in Members(DraftsOf(d, document))
    <2>1. PICK i \in DOMAIN S : x \in Members(S[i])
      BY <1>6
    <2>2. document[i] \in Members(document) /\ S[i] = DraftsOf(document[i], document)
      BY <1>3, <1>4, <2>1 DEF Members
    <2> QED BY <2>1, <2>2
  <1> QED BY <1>7, <1>8, <1>9, <1>10

(* What a normalized document says: its addresses are those of its drafts, *)
(* and at each it says what the draft says.                                *)
LEMMA NormalizedSays ==
  ASSUME NEW document, Decodes(document), ValidateCore(document), NEW provenance
  PROVE  /\ DOMAIN NormalizeCore(document, provenance) = Addresses(BuildDrafts(document))
         /\ \A x \in Members(BuildDrafts(document)) :
              /\ x.address \in Addresses(BuildDrafts(document))
              /\ NormalizeCore(document, provenance)[x.address].fingerprint = x.semantic
  <1> DEFINE s == BuildDrafts(document)
             at == DraftAt(s)
             path == [a \in DOMAIN at |-> Named(provenance, at[a].declaration).path]
             deps == [a \in DOMAIN at |-> at[a].deps]
             n == NormalizeCore(document, provenance)
  <1>1. IsList(s) /\ Apart(s)
    BY DocumentDrafted DEF Sound
  <1>2. n = [a \in DOMAIN at |-> NormalizedNode(at[a], path, ClosureFor(a, deps))]
    BY DEF NormalizeCore, NormalizedDrafts, NormalizedNodes
  <1> HIDE DEF n, s, path, deps
  <1>3. DOMAIN at = Addresses(s)
    BY DEF DraftAt
  <1>4. ASSUME NEW x \in Members(s)
        PROVE  x.address \in Addresses(s) /\ n[x.address].fingerprint = x.semantic
    <2>1. PICK i \in DOMAIN s : x = s[i]
      BY DEF Members
    <2>2. x.address \in Addresses(s)
      BY <2>1 DEF Addresses
    <2>3. at[x.address] = s[CHOOSE j \in DOMAIN s : s[j].address = x.address]
      BY <2>2 DEF DraftAt
    <2>4. (CHOOSE j \in DOMAIN s : s[j].address = x.address) = i
      BY <2>1, <1>1 DEF Apart
    <2>5. at[x.address] = x
      BY <2>1, <2>3, <2>4
    <2> HIDE DEF at
    <2>6. n[x.address] = NormalizedNode(x, path, ClosureFor(x.address, deps))
      BY <1>2, <1>3, <2>2, <2>5
    <2> QED BY <2>2, <2>6 DEF NormalizedNode
  <1>5. DOMAIN n = Addresses(s)
    BY <1>2, <1>3
  <1> QED BY <1>4, <1>5 DEF n, s

(* The theory's answer about requirement r of realization d.               *)
Answer(d, r, a) ==
  [tag |-> IF r.quantity = 1 THEN "Applicable" ELSE "NotApplicable",
   requirementAddress |-> a, invalidators |-> Provenance(d, "transition", a),
   obligations |-> IF r.quantity = 1 THEN Obligations ELSE {}]

(* The requirement that an address names, the answer about it, and what    *)
(* the normalized document says of it.                                     *)
Names(document, n, a, d, r) ==
  /\ d \in OfKind(document, "operationRealization") /\ r \in Members(d.requires)
  /\ a = Part(d, "requirement", r.capability)
  /\ ConsumeExactOne(document, DOMAIN n, a) = Answer(d, r, a)
  /\ n[a].fingerprint = r
  /\ n[Part(d, "operation", "operation")].fingerprint = [machine |-> d.machine, operation |-> d.operation]

(* Where the operation of a realization is: among the transitions of its   *)
(* machine, and so not among the initializers.                             *)
LEMMA BoundToTransition ==
  ASSUME NEW document, Decodes(document), ValidateCore(document),
         NEW d \in OfKind(document, "operationRealization")
  PROVE  OperationBindings(document, d) = {"transition"}
  <1>1. d \in Members(document) /\ ValidRealization(d, document)
    BY CheckedDeclaration DEF OfKind, ValidDeclaration
  <1>2. PICK m \in OfKind(document, "stateMachine") :
          m.id = d.machine /\ d.operation \in Ids(m.transitions)
    BY <1>1 DEF ValidRealization
  <1>3. m \in Members(document) /\ m.kind = "stateMachine"
    BY DEF OfKind
  <1>4. \A x \in OfKind(document, "stateMachine") : x.id = d.machine => x = m
    BY <1>2 DEF ValidateCore, UniqueIds, OfKind, Members
  <1>5. d.operation \notin Ids(m.initializers)
    <2>1. PICK o \in Members(m.transitions) : o.id = d.operation
      BY <1>2 DEF Ids, Members
    <2>2. DecodesDeclaration(m) /\ ValidDeclaration(m, document)
      BY <1>3, CheckedDeclaration
    <2>3. UniqueIds(Operations(m))
      BY <1>3, <2>2 DEF ValidDeclaration, ValidMachine
    <2> QED BY <1>3, <2>1, <2>2, <2>3, TransitionOfMachine
  <1>6. "transition" \in OperationBindings(document, d)
    BY <1>2 DEF OperationBindings
  <1>7. "initializer" \notin OperationBindings(document, d)
    BY <1>4, <1>5 DEF OperationBindings
  <1>8. OperationBindings(document, d) \subseteq {"initializer", "transition"}
    BY DEF OperationBindings
  <1> QED BY <1>6, <1>7, <1>8

(* The premises of an answer have addresses.                               *)
LEMMA PremisesAddressed ==
  ASSUME NEW document, Decodes(document), ValidateCore(document),
         NEW d \in OfKind(document, "operationRealization"), NEW r \in Members(d.requires)
  PROVE  Provenance(d, "transition", Part(d, "requirement", r.capability))
           \subseteq Addresses(BuildDrafts(document))
  <1> DEFINE A == Addresses(BuildDrafts(document))
             a == Part(d, "requirement", r.capability)
             t == <<"stateMachine", d.machine, "transition", d.operation>>
             c == <<"capability", r.capability>>
  <1>1. d \in Members(document) /\ d.kind = "operationRealization"
    BY DEF OfKind
  <1>2. ValidRealization(d, document)
    BY <1>1, CheckedDeclaration DEF ValidDeclaration
  <1>3. \A x \in References(document) : x \in A
    BY DocumentDrafted DEF Addresses, Members
  <1>4. Root(d) \in A /\ \A x \in PartsNamed(d) : x \in A
    BY <1>1, <1>3 DEF References
  <1>5. Part(d, "operation", "operation") \in A /\ a \in A
    <2>1. Part(d, "operation", "operation") \in PartsNamed(d) /\ a \in PartsNamed(d)
      BY <1>1 DEF PartsNamed
    <2> QED BY <1>4, <2>1
  <1>6. c \in A
    <2>1. PICK x \in OfKind(document, "capability") : x.id = r.capability
      BY <1>2 DEF ValidRealization
    <2>2. c \in References(document)
      BY <2>1 DEF OfKind, References, Root
    <2> QED BY <1>3, <2>2
  <1>7. t \in A
    <2>1. PICK m \in OfKind(document, "stateMachine") :
            m.id = d.machine /\ d.operation \in Ids(m.transitions)
      BY <1>2 DEF ValidRealization
    <2>2. m \in Members(document) /\ m.kind = "stateMachine"
      BY DEF OfKind
    <2>3. PICK o \in Members(m.transitions) : o.id = d.operation
      BY <2>1 DEF Ids, Members
    <2>4. DecodesDeclaration(m) /\ ValidDeclaration(m, document)
      BY <2>2, CheckedDeclaration
    <2>5. UniqueIds(Operations(m))
      BY <2>2, <2>4 DEF ValidDeclaration, ValidMachine
    <2>6. o \in Members(Operations(m)) /\ o.id \notin Ids(m.initializers)
      BY <2>2, <2>3, <2>4, <2>5, TransitionOfMachine
    <2>7. Part(m, Relation(m, o), o.id) = t
      BY <2>1, <2>2, <2>3, <2>6 DEF Part, Relation
    <2>8. Part(m, Relation(m, o), o.id) \in PartsNamed(m)
      BY <2>2, <2>6 DEF PartsNamed
    <2> QED BY <1>3, <2>2, <2>7, <2>8 DEF References
  <1>8. a[4] = r.capability
    BY DEF Part
  <1>9. Provenance(d, "transition", a) = {Root(d), Part(d, "operation", "operation"), t, c, a}
    BY <1>8 DEF Provenance
  <1> HIDE DEF A, t, c
  <1>10. {Root(d), Part(d, "operation", "operation"), t, c, a} \subseteq A
    BY <1>4, <1>5, <1>6, <1>7
  <1> QED BY <1>9, <1>10 DEF A

(* There is an answer for each requirement.                                *)
LEMMA RequirementAnswered ==
  ASSUME NEW document, Decodes(document), ValidateCore(document),
         NEW d \in OfKind(document, "operationRealization"), NEW r \in Members(d.requires)
  PROVE  ConsumeExactOne(document, Addresses(BuildDrafts(document)), Part(d, "requirement", r.capability))
           = Answer(d, r, Part(d, "requirement", r.capability))
  <1> DEFINE A == Addresses(BuildDrafts(document))
             a == Part(d, "requirement", r.capability)
  <1>1. d \in Members(document) /\ d.kind = "operationRealization"
    BY DEF OfKind
  <1>2. ValidRealization(d, document) /\ d.id # "none"
    BY <1>1, CheckedDeclaration DEF ValidDeclaration, Decodes
  <1>3. a[4] = r.capability /\ RealizationOf(a) = d.id
    BY <1>1 DEF Part, RealizationOf
  <1>4. RealizationAt(document, a) = {d}
    <2>1. \A x \in OfKind(document, "operationRealization") : x.id = d.id => x = d
      BY DEF ValidateCore, UniqueIds, OfKind, Members
    <2> HIDE DEF a
    <2> QED BY <1>3, <2>1 DEF RealizationAt
  <1>5. PICK k \in DOMAIN d.requires : r = d.requires[k]
    BY DEF Members
  <1>6. RequirementsAt(d, a) = {k}
    <2> DEFINE key == [i \in DOMAIN d.requires |-> d.requires[i].capability]
    <2>1. Unique(key)
      BY <1>2 DEF ValidRealization
    <2>2. \A i \in DOMAIN d.requires : d.requires[i].capability = d.requires[k].capability => i = k
      BY <2>1 DEF Unique
    <2> HIDE DEF a
    <2> QED BY <1>3, <1>5, <2>2 DEF RequirementsAt
  <1>7. OperationBindings(document, d) = {"transition"}
    BY BoundToTransition
  <1>8. \E c \in OfKind(document, "capability") : c.id = a[4]
    BY <1>2, <1>3 DEF ValidRealization
  <1>9. Provenance(d, "transition", a) \subseteq A
    BY PremisesAddressed
  <1> HIDE DEF a, A
  <1>10. ConsumeExactOne(document, A, a) = ResolveRequirement(document, A, a, d, {k})
    BY <1>4, <1>6 DEF ConsumeExactOne
  <1>11. Cardinality({k}) = 1
    BY FS_Singleton
  <1>12. ResolveRequirement(document, A, a, d, {k}) = TheoryResult(r, a, Provenance(d, "transition", a), A)
    <2>1. (CHOOSE i \in {k} : TRUE) = k
      OBVIOUS
    <2>2. ~(Cardinality({k}) > 1) /\ {k} # {}
      BY <1>11
    <2> QED BY <1>5, <1>7, <1>8, <2>1, <2>2 DEF ResolveRequirement
  <1>13. TheoryResult(r, a, Provenance(d, "transition", a), A) = Answer(d, r, a)
    BY <1>9 DEF TheoryResult, Answer
  <1> QED BY <1>10, <1>12, <1>13 DEF a, A

(* Whatever address of a checked document names a requirement.             *)
LEMMA RequirementNamed ==
  ASSUME NEW document, Decodes(document), ValidateCore(document), NEW provenance,
         NEW n, n = NormalizeCore(document, provenance),
         NEW a \in DOMAIN n, RealizationOf(a) # "none"
  PROVE  \E d, r : Names(document, n, a, d, r)
  <1> DEFINE B == BuildDrafts(document)
  <1>1. /\ DOMAIN n = Addresses(B)
        /\ \A x \in Members(B) : n[x.address].fingerprint = x.semantic
    BY NormalizedSays
  <1> HIDE DEF B
  <1>2. PICK x \in Members(B) : x.address = a
    BY <1>1 DEF Addresses, Members
  <1>3. Len(a) = 4 /\ a[1] = "operationRealization" /\ a[3] = "requirement"
    BY DEF RealizationOf
  <1>4. PICK d \in Members(document) : x \in Members(DraftsOf(d, document))
    BY <1>2, <1>3, DraftsOfDocument DEF B
  <1>5. d.kind = "operationRealization"
    BY <1>2, <1>3, <1>4, DeclarationDrafted DEF DraftedFor, OfRoot
  <1>6. d \in OfKind(document, "operationRealization") /\ DraftsOf(d, document) = RealizationDrafts(d)
    BY <1>5 DEF OfKind, DraftsOf
  <1>7. SaysRealization(Members(RealizationDrafts(d)), d)
    <2>1. IsList(d.requires)
      BY <1>5, CheckedDeclaration DEF DecodesDeclaration
    <2> QED BY <2>1, RealizationSays
  <1>8. PICK r \in Members(d.requires) : a = Part(d, "requirement", r.capability)
    BY <1>2, <1>3, <1>4, <1>6, <1>7 DEF SaysRealization
  <1>9. Members(RealizationDrafts(d)) \subseteq Members(B)
    BY <1>6, DraftsOfDocument DEF B
  <1>10. n[a].fingerprint = r
    <2>1. PICK y \in Members(RealizationDrafts(d)) :
            y.address = Part(d, "requirement", r.capability) /\ y.semantic = r
      BY <1>7 DEF SaysRealization
    <2> QED BY <1>1, <1>8, <1>9, <2>1
  <1>11. n[Part(d, "operation", "operation")].fingerprint = [machine |-> d.machine, operation |-> d.operation]
    <2>1. PICK y \in Members(RealizationDrafts(d)) :
            /\ y.address = Part(d, "operation", "operation")
            /\ y.semantic = [machine |-> d.machine, operation |-> d.operation]
      BY <1>7 DEF SaysRealization
    <2> QED BY <1>1, <1>9, <2>1
  <1>12. ConsumeExactOne(document, DOMAIN n, a) = Answer(d, r, a)
    BY <1>1, <1>6, <1>8, RequirementAnswered DEF B
  <1> QED BY <1>6, <1>8, <1>10, <1>11, <1>12 DEF Names

(* What a reused construct is: there before and after, and said the same.  *)
LEMMA ReusedSaysSame ==
  ASSUME NEW nb, NEW nc, NEW a,
         a \in DOMAIN nb \cup DOMAIN nc,
         CompareNormalizedCore(nb, nc)[a].status = "reused"
  PROVE  a \in DOMAIN nb /\ a \in DOMAIN nc /\ nb[a].fingerprint = nc[a].fingerprint
  <1> DEFINE first == Preliminary(nb, nc, a)
             premises == ChangedPremises(nb, nc, a)
  <1>1. Compared(nb, nc, a, first, premises).status = "reused"
    BY DEF CompareNormalizedCore
  <1> HIDE DEF first, premises
  <1>2. first = "reused"
    BY <1>1 DEF Compared
  <1> QED BY <1>2 DEF Preliminary, first

(* Two documents that say the same of an answer's premises give the same   *)
(* answer.                                                                 *)
LEMMA SameAnswer ==
  ASSUME NEW a, NEW db, NEW nb, NEW d, NEW r, Names(db, nb, a, d, r),
         NEW dc, NEW nc, NEW e, NEW s, Names(dc, nc, a, e, s),
         \A i \in Answer(d, r, a).invalidators : nb[i].fingerprint = nc[i].fingerprint
  PROVE  Answer(e, s, a) = Answer(d, r, a)
  <1>1. d.kind = "operationRealization" /\ e.kind = "operationRealization"
    BY DEF Names, OfKind
  <1>2. d.id = e.id
    BY DEF Names, Part
  <1>3. Part(d, "operation", "operation") = Part(e, "operation", "operation") /\ Root(d) = Root(e)
    BY <1>1, <1>2 DEF Part, Root
  <1>4. Answer(d, r, a).invalidators = Provenance(d, "transition", a)
    BY DEF Answer
  <1>5. a \in Provenance(d, "transition", a)
        /\ Part(d, "operation", "operation") \in Provenance(d, "transition", a)
    BY DEF Provenance
  <1>6. r = s
    BY <1>4, <1>5 DEF Names
  <1>7. [machine |-> d.machine, operation |-> d.operation] = [machine |-> e.machine, operation |-> e.operation]
    BY <1>3, <1>4, <1>5 DEF Names
  <1>8. d.machine = e.machine /\ d.operation = e.operation
    BY <1>7
  <1>9. Provenance(d, "transition", a) = Provenance(e, "transition", a)
    BY <1>3, <1>8 DEF Provenance
  <1> QED BY <1>6, <1>9 DEF Answer

(* The addresses before and after, read off the comparison.                *)
AllBut(r, status) == {a \in DOMAIN r : r[a].status # status}

(* They are those of the two documents.                                    *)
LEMMA BeforeAndAfter ==
  ASSUME NEW nb, NEW nc, NEW r, r = CompareNormalizedCore(nb, nc)
  PROVE  AllBut(r, "added") = DOMAIN nb /\ AllBut(r, "removed") = DOMAIN nc
  <1>1. DOMAIN r = DOMAIN nb \cup DOMAIN nc
    BY DEF CompareNormalizedCore
  <1>p. ASSUME NEW a
        PROVE  /\ Preliminary(nb, nc, a) = "added" <=> a \notin DOMAIN nb
               /\ Preliminary(nb, nc, a) = "removed" <=> a \in DOMAIN nb /\ a \notin DOMAIN nc
    BY DEF Preliminary
  <1>2. ASSUME NEW a \in DOMAIN r
        PROVE  /\ r[a].status = "added" <=> a \notin DOMAIN nb
               /\ r[a].status = "removed" <=> a \notin DOMAIN nc
    <2> DEFINE first == Preliminary(nb, nc, a)
               premises == ChangedPremises(nb, nc, a)
    <2>1. r[a].status = Compared(nb, nc, a, first, premises).status
      BY <1>1 DEF CompareNormalizedCore
    <2>2. /\ first = "added" <=> a \notin DOMAIN nb
          /\ first = "removed" <=> a \notin DOMAIN nc
      BY <1>1, <1>p
    <2> HIDE DEF first, premises
    <2>3. /\ Compared(nb, nc, a, first, premises).status = "added" <=> first = "added"
          /\ Compared(nb, nc, a, first, premises).status = "removed" <=> first = "removed"
      BY DEF Compared
    <2> QED BY <2>1, <2>2, <2>3
  <1> QED BY <1>1, <1>2 DEF AllBut

(* An answer of the theory names all that could change it: when none of    *)
(* its invalidators changed, the edited document has the same answer, and   *)
(* a checked document has an answer for every requirement                  *)
(* (consumeExactOneCapabilityExecution).                                   *)
THEOREM InvalidatorsSufficeAlways == AuthoringSpec => []InvalidatorsSuffice
  <1>1. AuthoringInv => InvalidatorsSuffice
    <2> SUFFICES ASSUME AuthoringInv, verdict.stage = "compared" PROVE InvalidatorsSuffice
      BY DEF InvalidatorsSuffice
    <2> DEFINE db == MergeDocuments(Baseline)
               dc == MergeDocuments(Candidate)
               nb == Normalized(Baseline)
               nc == Normalized(Candidate)
               r == verdict.results
    <2>1. /\ Decodes(db) /\ ValidateCore(db) /\ nb = NormalizeCore(db, ProvenanceOf(Baseline))
          /\ Decodes(dc) /\ ValidateCore(dc) /\ nc = NormalizeCore(dc, ProvenanceOf(Candidate))
          /\ r = CompareNormalizedCore(nb, nc)
      BY CheckedNormalizes DEF AuthoringInv, Checked, Normalized
    <2> HIDE DEF db, dc, nb, nc, r
    <2>2. AllBut(r, "added") = DOMAIN nb /\ AllBut(r, "removed") = DOMAIN nc
      BY <2>1, BeforeAndAfter
    <2>3. ASSUME NEW a \in DOMAIN nc, RealizationOf(a) # "none"
          PROVE  ConsumeExactOne(dc, DOMAIN nc, a).tag # "failed"
      <3>1. PICK d, q : Names(dc, nc, a, d, q)
        BY <2>1, <2>3, RequirementNamed
      <3> QED BY <3>1 DEF Names, Answer
    <2>4. ASSUME NEW a \in DOMAIN nb, RealizationOf(a) # "none", NEW old,
                 old = ConsumeExactOne(db, DOMAIN nb, a)
          PROVE  /\ old.tag # "failed"
                 /\ (\A i \in old.invalidators : r[i].status = "reused")
                      => ConsumeExactOne(dc, DOMAIN nc, a) = old
      <3>1. PICK d, q : Names(db, nb, a, d, q)
        BY <2>1, <2>4, RequirementNamed
      <3>2. old = Answer(d, q, a)
        BY <2>4, <3>1 DEF Names
      <3>3. old.tag # "failed"
        BY <3>2 DEF Answer
      <3>4. ASSUME \A i \in old.invalidators : r[i].status = "reused"
            PROVE  ConsumeExactOne(dc, DOMAIN nc, a) = old
        <4>1. old.invalidators \subseteq DOMAIN nb
          <5>1. /\ d \in OfKind(db, "operationRealization") /\ q \in Members(d.requires)
                /\ a = Part(d, "requirement", q.capability)
            BY <3>1 DEF Names
          <5>2. Provenance(d, "transition", a) \subseteq Addresses(BuildDrafts(db))
            BY <2>1, <5>1, PremisesAddressed
          <5>3. DOMAIN nb = Addresses(BuildDrafts(db))
            BY <2>1, NormalizedSays
          <5> QED BY <3>2, <5>2, <5>3 DEF Answer
        <4>2. \A i \in old.invalidators : i \in DOMAIN nc /\ nb[i].fingerprint = nc[i].fingerprint
          BY <2>1, <3>4, <4>1, ReusedSaysSame
        <4>3. a \in old.invalidators
          BY <3>2 DEF Answer, Provenance
        <4>4. PICK e, s : Names(dc, nc, a, e, s)
          BY <2>1, <2>4, <4>2, <4>3, RequirementNamed
        <4>5. Answer(e, s, a) = Answer(d, q, a)
          BY <3>1, <3>2, <4>2, <4>4, SameAnswer
        <4> QED BY <3>2, <4>4, <4>5 DEF Names
      <3> QED BY <3>3, <3>4
    <2>5. ResultsStand(r, DOMAIN nb, DOMAIN nc)
      BY <2>4 DEF ResultsStand, RequirementsOf, db, dc
    <2>6. \A a \in RequirementsOf(DOMAIN nc) : ConsumeExactOne(dc, DOMAIN nc, a).tag # "failed"
      BY <2>3 DEF RequirementsOf
    <2> QED BY <2>2, <2>5, <2>6 DEF InvalidatorsSuffice, AllBut, r, dc
  <1> QED BY <1>1, AuthoringAlways, PTL
-----------------------------------------------------------------------------
(* What a selection is once it is read.                                    *)
Selected(s) ==
  HasValidShape(s) /\ HasResolvedReferences(s) /\ HasOneProfilePerTarget(s)

(* Its two targets are of the two adapters, and each has one profile.      *)
PairedAs(s, e, g) ==
  /\ s.profiles[e].id # s.profiles[g].id /\ s.profiles[e].target # s.profiles[g].target
  /\ Named(s.targets, s.profiles[e].target).adapter = "effect-typescript"
  /\ Named(s.targets, s.profiles[g].target).adapter = "gleam-beam"

(* One of the two profiles is of the Effect target, the other of Gleam's.  *)
LEMMA ProfilesPair ==
  ASSUME NEW s, Selected(s)
  PROVE  PairedAs(s, 1, 2) \/ PairedAs(s, 2, 1)
  <1> DEFINE T == s.targets
             P == s.profiles
  <1>1. /\ IsList(T) /\ Len(T) = 2 /\ UniqueIds(T)
        /\ {t.adapter : t \in Members(T)} = {"effect-typescript", "gleam-beam"}
        /\ IsList(P) /\ Len(P) = 2 /\ UniqueIds(P)
        /\ \A p \in Members(P) : p.target \in Ids(T)
        /\ \A t \in Members(T) : Cardinality({i \in DOMAIN P : P[i].target = t.id}) = 1
    BY DEF Selected, HasValidShape, HasResolvedReferences, HasOneProfilePerTarget
  <1> HIDE DEF T, P
  <1>2. /\ DOMAIN T = 1..2 /\ DOMAIN P = 1..2
        /\ Members(T) = {T[1], T[2]} /\ Members(P) = {P[1], P[2]}
    BY <1>1, ListFacts, TwoMembers
  <1>3. T[1].id # T[2].id /\ P[1].id # P[2].id
    BY <1>1, <1>2 DEF UniqueIds
  <1>4. \/ T[1].adapter = "effect-typescript" /\ T[2].adapter = "gleam-beam"
        \/ T[2].adapter = "effect-typescript" /\ T[1].adapter = "gleam-beam"
    BY <1>1, <1>2
  <1>5. /\ P[1].target = T[1].id \/ P[1].target = T[2].id
        /\ P[2].target = T[1].id \/ P[2].target = T[2].id
    BY <1>1, <1>2 DEF Ids, Members
  <1>6. ASSUME NEW t \in Members(T)
        PROVE  \E i \in 1..2 : P[i].target = t.id
    <2>1. {i \in DOMAIN P : P[i].target = t.id} # {}
      BY <1>1, FS_EmptySet
    <2> QED BY <1>2, <2>1
  <1>7. P[1].target # P[2].target
    BY <1>2, <1>3, <1>5, <1>6
  <1>8. Named(T, T[1].id) = T[1] /\ Named(T, T[2].id) = T[2]
    <2>1. ASSUME NEW i \in 1..2 PROVE Named(T, T[i].id) = T[i]
      <3>1. T[i].id \in Ids(T)
        BY <1>2 DEF Ids
      <3>2. Named(T, T[i].id) \in Members(T) /\ Named(T, T[i].id).id = T[i].id
        BY <3>1, NamedIs
      <3> QED BY <1>2, <1>3, <3>2
    <2> QED BY <2>1
  <1> QED BY <1>3, <1>4, <1>5, <1>7, <1>8 DEF PairedAs, T, P

(* Where each declaration of the files read comes from.                    *)
SourcesOf(files, named) ==
  FlattenSeq([f \in DOMAIN files |->
    [i \in DOMAIN files[f] |-> [id |-> files[f][i].id, path |-> named[f].path]]])

(* The files read of a project are normalized too.                         *)
LEMMA SourcesStand ==
  ASSUME NEW files, FilesDecode(files), ValidateCore(FlattenSeq(files)), NEW named
  PROVE  /\ Decodes(FlattenSeq(files))
         /\ ~NormalizationFails(FlattenSeq(files), SourcesOf(files, named))
         /\ UniqueIds(SourcesOf(files, named))
         /\ \A x \in Members(SourcesOf(files, named)) :
              \E f \in DOMAIN files : x.path = named[f].path
  <1> DEFINE P == [f \in DOMAIN files |->
                    [i \in DOMAIN files[f] |-> [id |-> files[f][i].id, path |-> named[f].path]]]
             G == FlattenSeq(P)
             F == FlattenSeq(files)
  <1>1. IsList(files) /\ \A f \in DOMAIN files : IsList(files[f]) /\ Decodes(files[f])
    BY DEF FilesDecode, Decodes
  <1>2. SourcesOf(files, named) = G
    BY DEF SourcesOf
  <1>3. NamesEach(P, files)
    BY DEF NamesEach
  <1>4. ASSUME NEW f \in DOMAIN files
        PROVE  IsList(P[f]) /\ \A x \in Members(P[f]) : x.path = named[f].path
    <2> DEFINE Q == [i \in DOMAIN files[f] |-> [id |-> files[f][i].id, path |-> named[f].path]]
    <2>1. P[f] = Q /\ DOMAIN Q = DOMAIN files[f] /\ Q = [i \in DOMAIN Q |-> Q[i]]
      OBVIOUS
    <2>2. \A x \in Members(Q) : x.path = named[f].path
      BY DEF Members
    <2> HIDE DEF P, Q
    <2>3. IsList(Q)
      BY <1>1, <2>1, MadeOfEach
    <2> QED BY <2>1, <2>2, <2>3
  <1>5. DOMAIN P = DOMAIN files /\ P = [f \in DOMAIN P |-> P[f]]
    OBVIOUS
  <1> HIDE DEF P
  <1>6. IsList(P)
    BY <1>1, <1>5, MadeOfEach
  <1>7. Members(G) = UNION {Members(P[f]) : f \in DOMAIN P}
    BY <1>4, <1>5, <1>6, FlattenedLists
  <1>8. UniqueIds(F)
    BY DEF ValidateCore
  <1>9. UniqueIds(G) /\ Ids(G) = Ids(F)
    BY <1>1, <1>3, <1>8, NamedOnce
  <1>10. Decodes(F)
    BY <1>1, MergedDecodes
  <1> HIDE DEF F, G
  <1>11. ~NormalizationFails(F, G)
    <2>1. ~DraftsClash(BuildDrafts(F))
      BY <1>10, DraftsStand DEF F
    <2> QED BY <1>9, <2>1 DEF NormalizationFails
  <1>12. ASSUME NEW x \in Members(G)
         PROVE  \E f \in DOMAIN files : x.path = named[f].path
    <2>1. PICK f \in DOMAIN P : x \in Members(P[f])
      BY <1>7
    <2> QED BY <1>4, <1>5, <2>1
  <1> QED BY <1>2, <1>9, <1>10, <1>11, <1>12 DEF F

(* The theory applies: to a requirement of one use, of the address         *)
(* selected.                                                               *)
AppliesTo(document, answer, address) ==
  \E d \in OfKind(document, "operationRealization") : \E r \in Members(d.requires) :
    /\ address = Part(d, "requirement", r.capability) /\ r.quantity = 1
    /\ answer = Answer(d, r, address) /\ RealizationOf(address) = d.id

(* What the compilation of checked files can end in.                       *)
LEMMA CompiledStands ==
  ASSUME NEW files, FilesDecode(files), NEW s, Selected(s), NEW c,
         c = Compiled(FlattenSeq(files), SourcesOf(files, s.sources), s)
  PROVE  /\ c.stage \in {"core-validation", "theory", "target", "pending"}
         /\ c.theory # NotRead /\ c.stage # "theory"
              => AppliesTo(FlattenSeq(files), c.theory, s.theory.requirement)
  <1> DEFINE D == FlattenSeq(files)
             so == SourcesOf(files, s.sources)
             a == s.theory.requirement
             result == ConsumeExactOne(D, Addresses(BuildDrafts(D)), a)
  <1>1. CASE ~ValidateCore(D)
    <2>1. c = [stage |-> "core-validation", theory |-> NotRead]
      BY <1>1 DEF Compiled
    <2> QED BY <2>1
  <1>2. CASE ValidateCore(D) /\ ~IsOwned(D, so, s)
    <2>1. ~NormalizationFails(D, so)
      BY <1>2, SourcesStand
    <2>2. c = [stage |-> "theory", theory |-> NotRead]
      BY <1>2, <2>1 DEF Compiled
    <2> QED BY <2>2
  <1>3. CASE ValidateCore(D) /\ IsOwned(D, so, s)
    <2>1. ~NormalizationFails(D, so) /\ Decodes(D)
      BY <1>3, SourcesStand
    <2>2. c = [stage |-> ConsumedAs(result, s), theory |-> result]
      BY <1>3, <2>1 DEF Compiled
    <2>3. PICK d \in OfKind(D, "operationRealization") : d.id = RealizationOf(a)
      BY <1>3 DEF IsOwned, RealizationAt
    <2>4. d \in Members(D) /\ d.kind = "operationRealization"
      BY DEF OfKind
    <2>5. d.id # "none"
      BY <2>1, <2>4 DEF Decodes
    <2>6. Len(a) = 4 /\ a[1] = "operationRealization" /\ a[3] = "requirement" /\ a[2] = d.id
      BY <2>3, <2>5 DEF RealizationOf
    <2>7. IsList(a)
      BY DEF Selected, HasValidShape
    <2> HIDE DEF a, D, so
    <2>8. CASE \E r \in Members(d.requires) : r.capability = a[4]
      <3>1. PICK r \in Members(d.requires) : r.capability = a[4]
        BY <2>8
      <3>2. a = Part(d, "requirement", r.capability)
        <4>1. a = <<a[1], a[2], a[3], a[4]>>
          <5> DEFINE S == Members(a)
          <5>1. a \in Seq(S)
            BY <2>7 DEF IsList
          <5> HIDE DEF S
          <5> QED BY <5>1, <2>6
        <4> QED BY <2>4, <2>6, <3>1, <4>1 DEF Part
      <3>3. result = Answer(d, r, a)
        <4>1. ConsumeExactOne(D, Addresses(BuildDrafts(D)), Part(d, "requirement", r.capability))
                = Answer(d, r, Part(d, "requirement", r.capability))
          BY <1>3, <2>1, RequirementAnswered
        <4> QED BY <3>2, <4>1
      <3> HIDE DEF result
      <3>4. CASE r.quantity = 1
        <4>1. AppliesTo(D, result, a)
          BY <3>2, <3>3, <3>4, <2>3 DEF AppliesTo
        <4>2. result.tag = "Applicable"
          BY <3>3, <3>4 DEF Answer
        <4>3. ConsumedAs(result, s) \in {"target", "pending"}
          BY <4>2 DEF ConsumedAs
        <4> QED BY <2>2, <4>1, <4>3 DEF D, a
      <3>5. CASE r.quantity # 1
        <4>1. result.tag = "NotApplicable"
          BY <3>3, <3>5 DEF Answer
        <4>2. ConsumedAs(result, s) = "theory"
          BY <4>1 DEF ConsumedAs
        <4> QED BY <2>2, <4>2
      <3> QED BY <3>4, <3>5
    <2>9. CASE ~\E r \in Members(d.requires) : r.capability = a[4]
      <3>1. RealizationAt(D, a) = {d}
        <4>1. \A x \in OfKind(D, "operationRealization") : x.id = d.id => x = d
          BY <1>3 DEF ValidateCore, UniqueIds, OfKind, Members
        <4> QED BY <2>3, <4>1 DEF RealizationAt
      <3>2. RequirementsAt(d, a) = {}
        BY <2>9 DEF RequirementsAt, Members
      <3>3. result = ResolveRequirement(D, Addresses(BuildDrafts(D)), a, d, {})
        BY <3>1, <3>2 DEF ConsumeExactOne
      <3>4. result = TheoryFailure("unknown-requirement-address")
        BY <3>3, FS_EmptySet DEF ResolveRequirement
      <3> HIDE DEF result
      <3>5. ConsumedAs(result, s) = "theory"
        BY <3>4 DEF ConsumedAs, TheoryFailure
      <3> QED BY <2>2, <3>5
    <2> QED BY <2>8, <2>9
  <1> QED BY <1>1, <1>2, <1>3

(* The two calls, and the two on the grant of the defect, are those of a   *)
(* counter of one use.                                                     *)
LEMMA ManifestExplained ==
  ASSUME NEW m, ValidManifest(m)
  PROVE  /\ CounterExplains(m.observation.calls)
         /\ CounterExplains(<<m.observation.defect.first, m.observation.defect.reuse>>)
  <1> DEFINE o == m.observation
             c == o.calls
             x == o.defect.first
             y == o.defect.reuse
  <1>1. CallsShowOneUse(o) /\ DefectKeepsConsumed(o)
    BY DEF ValidManifest
  <1>2. IsList(c) /\ Len(c) = 2
    BY <1>1 DEF CallsShowOneUse
  <1>3. DOMAIN c = 1..2
    BY <1>2, ListFacts
  <1>4. /\ c[1].grant = c[2].grant /\ c[1].uses = 1 /\ c[2].uses = 0
        /\ c[1].outcome = Outcome("Success", 6, 0, 1) /\ c[1].balance = 10 /\ c[1].amount = 4
        /\ c[2].outcome = Outcome("CapabilityUseRejected", 6, 0, 1)
    BY <1>1 DEF CallsShowOneUse, CallIs
  <1>5. /\ x.grant = y.grant /\ x.uses = 1 /\ y.uses = 0
        /\ x.outcome = Outcome("Defect", x.balance, 0, 1)
        /\ y.outcome.tag = "CapabilityUseRejected"
        /\ y.outcome.remaining = 0 /\ y.outcome.implementationCalls = 1
    BY <1>1 DEF DefectKeepsConsumed, CallIs
  <1> HIDE DEF c, x, y
  <1>6. CounterExplains(c)
    BY <1>3, <1>4 DEF CounterExplains, Outcome
  <1>7. CounterExplains(<<x, y>>)
    <2> DEFINE p == <<x, y>>
    <2>1. DOMAIN p = 1..2 /\ p[1] = x /\ p[2] = y
      OBVIOUS
    <2> HIDE DEF p
    <2>2. CounterExplains(p)
      BY <1>5, <2>1 DEF CounterExplains, Outcome
    <2> QED BY <2>2 DEF p
  <1> QED BY <1>6, <1>7 DEF c, x, y

(* A profile, and what an applicable theory makes of it.                   *)
Supporting(p, address) ==
  /\ p.requirementAddress = address /\ p.realization = RealizationOf(address)
  /\ p.assessments = [o \in Obligations |-> Supports(o)] /\ p.targetRejected = FALSE

Rejecting(p, address) ==
  /\ p.requirementAddress = address /\ p.realization = RealizationOf(address)
  /\ p.assessments = [o \in Obligations |->
       [disposition |-> "rejected", evidence |-> {"unsupported-by-target"}]]
  /\ p.targetRejected = TRUE

(* What the Effect target supports is qualified.                           *)
LEMMA SupportedQualifies ==
  ASSUME NEW d, NEW r, NEW a, r.quantity = 1, NEW p, Supporting(p, a)
  PROVE  ClassifyExactOne(p, Answer(d, r, a)) = [tag |-> "Qualified", profile |-> p]
  <1> DEFINE t == Answer(d, r, a)
  <1>1. t.tag = "Applicable" /\ t.obligations = Obligations /\ t.requirementAddress = a
    BY DEF Answer
  <1> HIDE DEF t
  <1>2. DOMAIN p.assessments = Obligations
    BY DEF Supporting
  <1>3. ASSUME NEW o \in Obligations
        PROVE  /\ p.assessments[o].disposition = "supported"
               /\ p.assessments[o].evidence = {"structurally-derived"} \cup
                    (IF o = "check-before-consumption" THEN {}
                     ELSE {"runtime-checked", "assumed-truthful"})
    BY DEF Supporting, Supports
  <1>4. AssessmentsHold(p.assessments)
    <2>1. ASSUME NEW o \in Obligations PROVE AssessmentHolds(p.assessments[o])
      <3> DEFINE x == p.assessments[o]
      <3>1. /\ x.disposition = "supported" /\ x.evidence # {}
            /\ x.evidence \cap {"unsupported-by-target", "unresolved"} = {}
        BY <1>3
      <3> HIDE DEF x
      <3>2. AssessmentHolds(x)
        BY <3>1 DEF AssessmentHolds
      <3> QED BY <3>2 DEF x
    <2> QED BY <1>2, <2>1 DEF AssessmentsHold
  <1>5. ~Disposed(p, "rejected") /\ ~Disposed(p, "unresolved")
    BY <1>2, <1>3 DEF Disposed
  <1>6. ProfileHolds(p)
    BY <1>4, <1>5 DEF ProfileHolds, Supporting
  <1>7. HasQualification(p)
    <2>1. "no-restore-after-start" \in Obligations
      BY DEF Obligations
    <2>2. "runtime-checked" \in p.assessments["no-restore-after-start"].evidence
      BY <1>3, <2>1
    <2> QED BY <1>2, <2>1, <2>2 DEF HasQualification
  <1>8. Classified(p) = "Qualified"
    BY <1>5, <1>7 DEF Classified
  <1>9. ClassificationHolds("Qualified", p)
    BY <1>3, <1>5, <1>6, <1>7 DEF ClassificationHolds, Supporting
  <1> QED BY <1>1, <1>6, <1>8, <1>9 DEF ClassifyExactOne, Supporting, t

(* What the Gleam target refuses is rejected.                              *)
LEMMA RefusedIsRejected ==
  ASSUME NEW d, NEW r, NEW a, r.quantity = 1, NEW p, Rejecting(p, a)
  PROVE  ClassifyExactOne(p, Answer(d, r, a)) = [tag |-> "Rejected", profile |-> p]
  <1> DEFINE t == Answer(d, r, a)
  <1>1. t.tag = "Applicable" /\ t.obligations = Obligations /\ t.requirementAddress = a
    BY DEF Answer
  <1> HIDE DEF t
  <1>2. DOMAIN p.assessments = Obligations
    BY DEF Rejecting
  <1>3. ASSUME NEW o \in Obligations
        PROVE  /\ p.assessments[o].disposition = "rejected"
               /\ p.assessments[o].evidence = {"unsupported-by-target"}
    BY DEF Rejecting
  <1>4. AssessmentsHold(p.assessments)
    <2>1. ASSUME NEW o \in Obligations PROVE AssessmentHolds(p.assessments[o])
      <3> DEFINE x == p.assessments[o]
      <3>1. x.disposition = "rejected" /\ "unsupported-by-target" \in x.evidence
        BY <1>3
      <3> HIDE DEF x
      <3>2. AssessmentHolds(x)
        BY <3>1 DEF AssessmentHolds
      <3> QED BY <3>2 DEF x
    <2> QED BY <1>2, <2>1 DEF AssessmentsHold
  <1>5. Disposed(p, "rejected") /\ ~Disposed(p, "unresolved")
    <2>1. "no-restore-after-start" \in Obligations
      BY DEF Obligations
    <2> QED BY <1>2, <1>3, <2>1 DEF Disposed
  <1>6. ProfileHolds(p)
    BY <1>4, <1>5 DEF ProfileHolds, Rejecting
  <1>8. Classified(p) = "Rejected"
    BY <1>5 DEF Classified
  <1>9. ClassificationHolds("Rejected", p)
    BY <1>5, <1>6 DEF ClassificationHolds, Rejecting
  <1> QED BY <1>1, <1>6, <1>8, <1>9 DEF ClassifyExactOne, Rejecting, t

(* What the Effect adapter takes as of one use, the Gleam entity of any    *)
(* number of uses does not.                                                *)
LEMMA ContractStands ==
  ASSUME NEW document, Decodes(document), ValidateCore(document),
         NEW d \in OfKind(document, "operationRealization"), EffectSingleUse(document, d)
  PROVE  ~GleamEntity(document, d)
  <1>1. "effect" \in ImplementedBy(document, d)
    BY DEF ImplementedBy
  <1>2. ImplementedBy(document, d) \cap {"effect", "gleam"} # {}
    BY <1>1
  <1> QED BY <1>2, DecodedDischarges DEF ObligationsMet
-----------------------------------------------------------------------------
(* What a project compilation knows besides: the selection was checked,    *)
(* the theory applies to what it names, the evidence is valid and, while   *)
(* nothing was edited, cites the file that was compiled.                   *)
Classed(results, address) ==
  /\ results[1].tag = "Qualified" /\ results[1].profile.target = "effect-typescript"
  /\ results[2].tag = "Rejected" /\ results[2].profile.target = "gleam-beam"
  /\ \A i \in 1..2 : /\ results[i].profile.requirementAddress = address
                     /\ results[i].profile.realization = RealizationOf(address)

FilesAreCurrent ==
  \A f \in DOMAIN filesRead : filesRead[f] = projectFiles[project.sources[f].path]

CitesTheCompiled ==
  /\ ValidManifest(evidence.manifest)
  /\ projectEdits = 0 => LoadedFrom(evidence.manifest.core) = evidence.cites

SelectionInv ==
  /\ projectEdits \in Nat
  /\ project = NotRead => filesRead = <<>>
  /\ project # NotRead => Selected(project)
  /\ projectEdits = 0 => FilesAreCurrent

AnswerInv ==
  /\ theory # NotRead /\ projectStage # "theory" =>
       AppliesTo(Document, theory, project.theory.requirement)
  /\ evidence # NotRead => theory # NotRead /\ projectStage # "theory" /\ CitesTheCompiled
  /\ materialsRead # 0 => evidence # NotRead
  /\ classifications # <<>> =>
       evidence # NotRead /\ Classed(classifications, theory.requirementAddress)
  /\ projectStage \notin {"artifact", "classification", "contract", "report"}
  /\ projectStage = "reported" => classifications # <<>>

ReportInv == DischargeInv /\ SelectionInv /\ AnswerInv

(* Until the theory answers there is nothing that rests on its answer.     *)
LEMMA NothingYet ==
  ASSUME AnswerInv, theory = NotRead
  PROVE  evidence = NotRead /\ materialsRead = 0 /\ classifications = <<>>
  BY DEF AnswerInv

(* The answer needs everything read, of a checked document.                *)
LEMMA AnsweredOf ==
  ASSUME DischargeInv, theory # NotRead
  PROVE  /\ project # NotRead /\ Len(filesRead) = Len(project.sources)
         /\ FilesDecode(filesRead) /\ ValidateCore(Document)
  BY DEF DischargeInv, TheoryAnswered, AllRead, FilesDecode

(* The selection is read, and refused when it does not check.              *)
LEMMA SelectionReports ==
  ASSUME ReportInv, ReadSelection
  PROVE  SelectionInv' /\ AnswerInv'
  <1>1. theory = NotRead
    BY AnsweredOf DEF ReportInv, ReadSelection
  <1>2. evidence = NotRead /\ materialsRead = 0 /\ classifications = <<>>
    BY <1>1, NothingYet DEF ReportInv
  <1>3. filesRead = <<>> /\ projectEdits \in Nat
    BY DEF ReportInv, SelectionInv, ReadSelection
  <1>4. UNCHANGED <<projectFiles, projectEdits, filesRead, theory, evidence, materialsRead, classifications>>
    BY DEF ReadSelection, repository
  <1>5. \/ project' = selectionFile /\ Selected(selectionFile) /\ projectStage' = "pending"
        \/ project' = project /\ projectStage' = "project"
    BY DEF ReadSelection, Selected, Fails
  <1>6. SelectionInv'
    BY <1>3, <1>4, <1>5 DEF SelectionInv, FilesAreCurrent, ReportInv
  <1>7. projectStage' \in {"pending", "project"}
    BY <1>5
  <1> QED BY <1>1, <1>2, <1>4, <1>6, <1>7 DEF AnswerInv

(* A file is read as it is now.                                            *)
LEMMA SourceReports ==
  ASSUME ReportInv, LoadProjectSource
  PROVE  SelectionInv' /\ AnswerInv'
  <1>1. theory = NotRead
    BY AnsweredOf DEF ReportInv, LoadProjectSource
  <1>2. evidence = NotRead /\ materialsRead = 0 /\ classifications = <<>>
    BY <1>1, NothingYet DEF ReportInv
  <1>3. UNCHANGED <<projectFiles, projectEdits, project, theory, evidence, materialsRead, classifications>>
    BY DEF LoadProjectSource, repository
  <1> DEFINE file == projectFiles[project.sources[Len(filesRead) + 1].path]
  <1>4. /\ projectStage' \in {"pending", "source-decode"}
        /\ UNCHANGED filesRead \/ filesRead' = Append(filesRead, file)
    BY DEF LoadProjectSource, Fails
  <1>5. IsList(filesRead) /\ project # NotRead
    BY DEF ReportInv, DischargeInv, LoadProjectSource
  <1>6. FilesAreCurrent => FilesAreCurrent'
    <2>1. CASE UNCHANGED filesRead
      BY <1>3, <2>1 DEF FilesAreCurrent
    <2>2. CASE filesRead' = Append(filesRead, file)
      <3> DEFINE s == filesRead
                 t == Append(s, file)
      <3>1. DOMAIN t = 1..(Len(s) + 1) /\ Len(s) \in Nat /\ DOMAIN s = 1..Len(s)
            /\ t[Len(s) + 1] = file /\ \A f \in DOMAIN s : t[f] = s[f]
        <4> HIDE DEF file
        <4>1. s \in Seq(Members(s) \cup {file})
          <5>1. s \in Seq(Members(s))
            BY <1>5 DEF IsList
          <5> HIDE DEF s
          <5> QED BY <5>1
        <4> DEFINE S == Members(s) \cup {file}
        <4>2. s \in Seq(S) /\ file \in S
          BY <4>1
        <4> HIDE DEF S, s
        <4> QED BY <4>2
      <3>2. filesRead' = t /\ DOMAIN filesRead = 1..Len(s)
        BY <2>2, <3>1
      <3>3. ASSUME FilesAreCurrent, NEW f \in 1..(Len(s) + 1)
            PROVE  t[f] = projectFiles[project.sources[f].path]
        <4> HIDE DEF t
        <4>1. CASE f = Len(s) + 1
          BY <3>1, <4>1
        <4>2. CASE f \in 1..Len(s)
          BY <3>1, <3>3, <4>2 DEF FilesAreCurrent
        <4> QED BY <3>1, <4>1, <4>2
      <3> HIDE DEF t, s
      <3> QED BY <1>3, <3>1, <3>2, <3>3 DEF FilesAreCurrent
    <2> QED BY <1>4, <2>1, <2>2
  <1>7. SelectionInv'
    BY <1>3, <1>5, <1>6 DEF ReportInv, SelectionInv
  <1> QED BY <1>1, <1>2, <1>3, <1>4, <1>7 DEF AnswerInv

(* The theory is asked of the files that were read.                        *)
LEMMA ArtifactReports ==
  ASSUME ReportInv, CompileArtifact
  PROVE  SelectionInv' /\ AnswerInv'
  <1>1. theory = NotRead /\ AllRead
    BY DEF CompileArtifact
  <1>2. evidence = NotRead /\ materialsRead = 0 /\ classifications = <<>>
    BY <1>1, NothingYet DEF ReportInv
  <1>3. UNCHANGED <<projectFiles, projectEdits, project, filesRead, evidence, materialsRead, classifications>>
    BY DEF CompileArtifact, repository
  <1>4. SelectionInv'
    BY <1>3 DEF ReportInv, SelectionInv, FilesAreCurrent
  <1>5. PICK c : /\ c = Compiled(Document, SourceOf, project)
                 /\ projectStage' = c.stage /\ theory' = c.theory
    BY DEF CompileArtifact
  <1>6. /\ c.stage \in {"core-validation", "theory", "target", "pending"}
        /\ c.theory # NotRead /\ c.stage # "theory"
             => AppliesTo(Document, c.theory, project.theory.requirement)
    <2>1. Selected(project) /\ FilesDecode(filesRead)
      BY <1>1 DEF ReportInv, SelectionInv, AllRead, DischargeInv, FilesDecode
    <2>2. Document = FlattenSeq(filesRead) /\ SourceOf = SourcesOf(filesRead, project.sources)
      BY DEF Document, SourceOf, SourcesOf
    <2> QED BY <1>5, <2>1, <2>2, CompiledStands
  <1>7. UNCHANGED Document
    BY <1>3 DEF Document
  <1> QED BY <1>2, <1>3, <1>4, <1>5, <1>6, <1>7 DEF AnswerInv

(* The path that the evidence cites is of a file that was read, and only   *)
(* of one.                                                                 *)
LEMMA CitedWasRead ==
  ASSUME ReportInv, theory # NotRead, NEW path \in {SourceOf[i].path : i \in DOMAIN SourceOf},
         projectEdits = 0
  PROVE  LoadedFrom(path) = projectFiles[path]
  <1>1. /\ Len(filesRead) = Len(project.sources) /\ FilesDecode(filesRead)
        /\ ValidateCore(Document) /\ project # NotRead
    BY AnsweredOf DEF ReportInv
  <1>2. Document = FlattenSeq(filesRead) /\ SourceOf = SourcesOf(filesRead, project.sources)
    BY DEF Document, SourceOf, SourcesOf
  <1>3. \E f \in DOMAIN filesRead : path = project.sources[f].path
    <2>1. \A x \in Members(SourcesOf(filesRead, project.sources)) :
            \E f \in DOMAIN filesRead : x.path = project.sources[f].path
      BY <1>1, <1>2, SourcesStand
    <2>2. PICK i \in DOMAIN SourceOf : path = SourceOf[i].path
      OBVIOUS
    <2>3. SourceOf[i] \in Members(SourcesOf(filesRead, project.sources))
      BY <1>2 DEF Members
    <2> QED BY <2>1, <2>2, <2>3
  <1> DEFINE g == CHOOSE f \in DOMAIN filesRead : project.sources[f].path = path
  <1>4. g \in DOMAIN filesRead /\ project.sources[g].path = path
    BY <1>3
  <1>5. FilesAreCurrent
    BY DEF ReportInv, SelectionInv
  <1>6. LoadedFrom(path) = filesRead[g]
    BY DEF LoadedFrom
  <1> HIDE DEF g
  <1> QED BY <1>4, <1>5, <1>6 DEF FilesAreCurrent

(* The manifest is accepted for what it says, and cites a file that was    *)
(* compiled.                                                               *)
LEMMA ManifestReports ==
  ASSUME ReportInv, ReadManifest
  PROVE  SelectionInv' /\ AnswerInv'
  <1>1. projectStage = "pending" /\ theory # NotRead /\ evidence = NotRead
    BY DEF ReadManifest
  <1>2. materialsRead = 0 /\ classifications = <<>>
    BY <1>1 DEF ReportInv, AnswerInv
  <1>3. UNCHANGED <<projectFiles, projectEdits, project, filesRead, theory, materialsRead, classifications>>
    BY DEF ReadManifest, repository
  <1>4. SelectionInv'
    BY <1>3 DEF ReportInv, SelectionInv, FilesAreCurrent
  <1>5. projectStage' \in {"pending", "evidence"}
    BY <1>1 DEF ReadManifest, Fails
  <1>6. evidence' # NotRead => CitesTheCompiled'
    <2>1. CASE UNCHANGED evidence
      BY <1>1, <2>1
    <2>2. CASE evidence' # evidence
      <3>1. PICK m \in Manifests :
              /\ ValidManifest(m) /\ m.core \in {SourceOf[i].path : i \in DOMAIN SourceOf}
              /\ \E bytes \in {projectFiles[m.core], LoadedFrom(m.core)} :
                   evidence' = [manifest |-> m, cites |-> bytes]
        BY <2>2 DEF ReadManifest
      <3>2. evidence'.manifest = m /\ evidence'.cites \in {projectFiles[m.core], LoadedFrom(m.core)}
        BY <3>1
      <3>3. projectEdits = 0 => LoadedFrom(m.core) = projectFiles[m.core]
        BY <1>1, <3>1, CitedWasRead
      <3>4. LoadedFrom(m.core)' = LoadedFrom(m.core)
        BY <1>3 DEF LoadedFrom
      <3>5. projectEdits' = 0 => LoadedFrom(m.core) = evidence'.cites
        BY <1>3, <3>2, <3>3
      <3>6. projectEdits' = 0 => (LoadedFrom(evidence.manifest.core) = evidence.cites)'
        BY <3>2, <3>4, <3>5 DEF LoadedFrom
      <3> QED BY <3>1, <3>2, <3>6 DEF CitesTheCompiled
    <2> QED BY <2>1, <2>2
  <1>7. Document' = Document
    BY <1>3 DEF Document
  <1> QED BY <1>1, <1>2, <1>3, <1>4, <1>5, <1>6, <1>7 DEF ReportInv, AnswerInv

(* A step that neither reads a selection, a source or the evidence nor     *)
(* edits keeps what is known of them.                                      *)
LEMMA KnownStays ==
  ASSUME ReportInv, UNCHANGED <<projectFiles, projectEdits, project, filesRead, theory, evidence>>
  PROVE  /\ SelectionInv' /\ Document' = Document
         /\ CitesTheCompiled => CitesTheCompiled'
  <1>1. SelectionInv'
    BY DEF ReportInv, SelectionInv, FilesAreCurrent
  <1>2. Document' = Document
    BY DEF Document
  <1>3. CitesTheCompiled' <=> CitesTheCompiled
    BY DEF CitesTheCompiled, LoadedFrom
  <1> QED BY <1>1, <1>2, <1>3

(* A material is digested again.                                           *)
LEMMA MaterialReports ==
  ASSUME ReportInv, VerifyMaterial
  PROVE  SelectionInv' /\ AnswerInv'
  <1>1. projectStage = "pending" /\ evidence # NotRead
    BY DEF VerifyMaterial
  <1>2. UNCHANGED <<projectFiles, projectEdits, project, filesRead, theory, evidence, classifications>>
    BY DEF VerifyMaterial, repository
  <1>3. projectStage' \in {"pending", "evidence"}
    BY <1>1 DEF VerifyMaterial, Fails
  <1>4. SelectionInv' /\ Document' = Document /\ (CitesTheCompiled => CitesTheCompiled')
    BY <1>2, KnownStays
  <1> QED BY <1>1, <1>2, <1>3, <1>4 DEF ReportInv, AnswerInv

(* Each target is classified by its own profile.                           *)
LEMMA TargetsReport ==
  ASSUME ReportInv, ClassifyTargets
  PROVE  SelectionInv' /\ AnswerInv'
  <1>1. projectStage = "pending" /\ classifications = <<>> /\ materialsRead = Len(MaterialOrder)
    BY DEF ClassifyTargets
  <1>2. evidence # NotRead /\ theory # NotRead /\ CitesTheCompiled
    <2>1. materialsRead # 0
      BY <1>1 DEF MaterialOrder
    <2> QED BY <2>1 DEF ReportInv, AnswerInv
  <1>3. UNCHANGED <<projectFiles, projectEdits, project, filesRead, theory, evidence, materialsRead>>
    BY DEF ClassifyTargets, repository
  <1>4. SelectionInv' /\ Document' = Document /\ CitesTheCompiled'
    BY <1>2, <1>3, KnownStays
  <1> DEFINE a == project.theory.requirement
             p == EffectProfile
             q == GleamProfile
  <1>5. PICK d, r : /\ a = Part(d, "requirement", r.capability) /\ r.quantity = 1
                    /\ theory = Answer(d, r, a) /\ RealizationOf(a) = d.id
    BY <1>1, <1>2 DEF ReportInv, AnswerInv, AppliesTo
  <1>6. theory.requirementAddress = a
    BY <1>5 DEF Answer
  <1>7. Supporting(p, a) /\ p.target = "effect-typescript"
    BY <1>6 DEF EffectProfile, Profile, Supporting
  <1>8. Rejecting(q, a) /\ q.target = "gleam-beam"
    BY <1>6 DEF GleamProfile, Profile, Rejecting
  <1> HIDE DEF a, p, q
  <1>9. /\ ClassifyExactOne(p, theory) = [tag |-> "Qualified", profile |-> p]
        /\ ClassifyExactOne(q, theory) = [tag |-> "Rejected", profile |-> q]
    BY <1>5, <1>7, <1>8, SupportedQualifies, RefusedIsRejected
  <1>10. \/ projectStage' = "target" /\ UNCHANGED classifications
         \/ /\ projectStage' = "pending"
            /\ classifications' = <<[tag |-> "Qualified", profile |-> p], [tag |-> "Rejected", profile |-> q]>>
    <2>1. PICK e \in RealizationAt(Document, theory.requirementAddress) :
            IF ~EffectSingleUse(Document, e) THEN Fails("target") /\ UNCHANGED classifications
            ELSE IF GleamEntity(Document, e) THEN Fails("contract") /\ UNCHANGED classifications
            ELSE ClassifiedAs(ClassifyExactOne(p, theory), ClassifyExactOne(q, theory))
      BY DEF ClassifyTargets, p, q
    <2>2. EffectSingleUse(Document, e) => ~GleamEntity(Document, e)
      <3>1. e \in OfKind(Document, "operationRealization")
        BY DEF RealizationAt
      <3>2. Decodes(Document) /\ ValidateCore(Document)
        BY <1>2, AnsweredOf, MergedDecodes DEF ReportInv, FilesDecode, Document
      <3> QED BY <3>1, <3>2, ContractStands
    <2>3. \/ Fails("target") /\ UNCHANGED classifications
          \/ ClassifiedAs(ClassifyExactOne(p, theory), ClassifyExactOne(q, theory))
      BY <2>1, <2>2
    <2> DEFINE x == [tag |-> "Qualified", profile |-> p]
               y == [tag |-> "Rejected", profile |-> q]
    <2>4. x.tag = "Qualified" /\ y.tag = "Rejected"
      OBVIOUS
    <2>5. \/ Fails("target") /\ UNCHANGED classifications
          \/ ClassifiedAs(x, y)
      BY <1>9, <2>3
    <2> HIDE DEF x, y
    <2>6. \/ projectStage' = "target" /\ UNCHANGED classifications
          \/ projectStage' = "pending" /\ classifications' = <<x, y>>
      BY <1>1, <2>4, <2>5 DEF Fails, ClassifiedAs
    <2> QED BY <2>6 DEF x, y
  <1>11. classifications' # <<>> => Classed(classifications', a)
    <2>1. CASE UNCHANGED classifications
      BY <1>1, <2>1
    <2>2. CASE classifications' = <<[tag |-> "Qualified", profile |-> p], [tag |-> "Rejected", profile |-> q]>>
      BY <2>2, <1>7, <1>8 DEF Classed, Supporting, Rejecting
    <2> QED BY <1>10, <2>1, <2>2
  <1>12. Classed(classifications', a) => Classed(classifications, theory.requirementAddress)'
    <2>1. theory'.requirementAddress = a
      BY <1>3, <1>6
    <2> QED BY <2>1
  <1>13. projectStage' \in {"pending", "target"}
    BY <1>10
  <1> QED BY <1>1, <1>2, <1>3, <1>4, <1>11, <1>12, <1>13 DEF ReportInv, AnswerInv

(* The profiles as they are reported: the Effect target's, then Gleam's.   *)
ReportedAs(r, s, results, e, g) ==
  /\ r = [i \in 1..2 |-> r[i]]
  /\ r[1] = [id |-> s.profiles[e].id, target |-> s.profiles[e].target,
             theory |-> s.profiles[e].theory, evidence |-> s.profiles[e].evidence,
             result |-> results[1]]
  /\ r[2] = [id |-> s.profiles[g].id, target |-> s.profiles[g].target,
             theory |-> s.profiles[g].theory, evidence |-> s.profiles[g].evidence,
             result |-> results[2]]

(* That is their order, whichever the selection lists first.               *)
LEMMA ProfilesReported ==
  ASSUME NEW e, NEW g, <<e, g>> \in {<<1, 2>>, <<2, 1>>}, PairedAs(project, e, g)
  PROVE  ReportedAs(ReportedProfiles, project, classifications, e, g)
  <1>1. /\ AdapterOf(project.profiles[e].target) = "effect-typescript"
        /\ AdapterOf(project.profiles[g].target) = "gleam-beam"
    BY DEF PairedAs, AdapterOf
  <1> DEFINE first == AdapterOf(project.profiles[1].target) = "effect-typescript"
                      \/ AdapterOf(project.profiles[2].target) = "gleam-beam"
             p(i) == project.profiles[IF first THEN i ELSE 3 - i]
             One(i) == [id |-> p(i).id, target |-> p(i).target, theory |-> p(i).theory,
                        evidence |-> p(i).evidence,
                        result |-> classifications[IF AdapterOf(p(i).target) = "effect-typescript"
                                                   THEN 1 ELSE 2]]
             r == ReportedProfiles
  <1>2. r = [i \in 1..2 |-> One(i)]
    BY DEF ReportedProfiles
  <1>3. p(1) = project.profiles[e] /\ p(2) = project.profiles[g]
    <2>1. CASE e = 1 /\ g = 2
      <3>1. first
        BY <1>1, <2>1
      <3> HIDE DEF first
      <3> QED BY <2>1, <3>1
    <2>2. CASE e = 2 /\ g = 1
      <3>1. ~first
        BY <1>1, <2>2
      <3> HIDE DEF first
      <3> QED BY <2>2, <3>1
    <2> QED BY <2>1, <2>2
  <1>4. One(1) = [id |-> project.profiles[e].id, target |-> project.profiles[e].target,
                  theory |-> project.profiles[e].theory, evidence |-> project.profiles[e].evidence,
                  result |-> classifications[1]]
    <2> HIDE DEF p
    <2> QED BY <1>1, <1>3
  <1>5. One(2) = [id |-> project.profiles[g].id, target |-> project.profiles[g].target,
                  theory |-> project.profiles[g].theory, evidence |-> project.profiles[g].evidence,
                  result |-> classifications[2]]
    <2> HIDE DEF p
    <2> QED BY <1>1, <1>3
  <1> HIDE DEF One, r
  <1>6. r = [i \in 1..2 |-> r[i]] /\ r[1] = One(1) /\ r[2] = One(2)
    BY <1>2
  <1> QED BY <1>4, <1>5, <1>6 DEF ReportedAs, r

(* What was classified is consistent when it is reported.                  *)
LEMMA ReportStands ==
  ASSUME ReportInv, classifications # <<>>
  PROVE  ReportIsConsistent(ReportedProfiles)
  <1> DEFINE a == theory.requirementAddress
             r == ReportedProfiles
  <1>1. Classed(classifications, a) /\ theory # NotRead
    BY DEF ReportInv, AnswerInv
  <1>2. /\ project # NotRead /\ FilesDecode(filesRead) /\ ValidateCore(Document)
    BY <1>1, AnsweredOf DEF ReportInv
  <1>3. UniqueIds(SourceOf)
    <2>1. Document = FlattenSeq(filesRead) /\ SourceOf = SourcesOf(filesRead, project.sources)
      BY DEF Document, SourceOf, SourcesOf
    <2> QED BY <1>2, <2>1, SourcesStand
  <1>4. Selected(project)
    BY <1>2 DEF ReportInv, SelectionInv
  <1>5. PICK e, g : <<e, g>> \in {<<1, 2>>, <<2, 1>>} /\ PairedAs(project, e, g)
    BY <1>4, ProfilesPair
  <1>6. ReportedAs(r, project, classifications, e, g)
    BY <1>5, ProfilesReported
  <1>7. \A i \in {e, g} : /\ project.profiles[i].theory = project.theory.id
                          /\ project.profiles[i].evidence = project.evidence
    <2>1. IsList(project.profiles) /\ Len(project.profiles) = 2
      BY <1>4 DEF Selected, HasValidShape
    <2>2. project.profiles[e] \in Members(project.profiles)
          /\ project.profiles[g] \in Members(project.profiles)
      BY <1>5, <2>1, ListFacts DEF Members
    <2> QED BY <1>4, <2>2 DEF Selected, HasResolvedReferences
  <1> HIDE DEF r, a
  <1>8. DOMAIN r = 1..2 /\ Members(r) = {r[1], r[2]}
    <2>1. DOMAIN r = 1..2
      BY <1>6 DEF ReportedAs
    <2> QED BY <2>1 DEF Members
  <1>9. /\ r[1].target # r[2].target /\ r[1].id # r[2].id
        /\ r[1].result = classifications[1] /\ r[2].result = classifications[2]
        /\ AdapterOf(r[1].target) = "effect-typescript" /\ AdapterOf(r[2].target) = "gleam-beam"
        /\ \A i \in 1..2 : r[i].theory = project.theory.id /\ r[i].evidence = project.evidence
    BY <1>5, <1>6, <1>7 DEF ReportedAs, PairedAs, AdapterOf
  <1>10. Unique([i \in 1..2 |-> r[i].target]) /\ UniqueIds(r)
    BY <1>8, <1>9 DEF Unique, UniqueIds
  <1>11. ASSUME NEW i \in 1..2
         PROVE  /\ r[i].theory = project.theory.id /\ r[i].evidence = project.evidence
                /\ AdapterOf(r[i].target) = r[i].result.profile.target
                /\ r[i].result.profile.requirementAddress = a
                /\ r[i].result.profile.realization = RealizationOf(a)
    BY <1>1, <1>9 DEF Classed
  <1>12. /\ r[1].result.profile.target = "effect-typescript"
         /\ r[2].result.profile.target = "gleam-beam"
    BY <1>1, <1>9 DEF Classed
  <1> QED BY <1>3, <1>8, <1>10, <1>11, <1>12 DEF ReportIsConsistent, r, a

(* The report, after the trace and the policy.                             *)
LEMMA ReportReports ==
  ASSUME ReportInv, Report
  PROVE  SelectionInv' /\ AnswerInv'
  <1>1. projectStage = "pending" /\ classifications # <<>>
    BY DEF Report
  <1>2. /\ UNCHANGED <<projectFiles, projectEdits, project, filesRead, theory, evidence>>
        /\ UNCHANGED <<materialsRead, classifications>>
    BY DEF Report, repository, compilation
  <1>3. projectStage' \in {"channel", "policy", "reported"}
    BY <1>1, ReportStands DEF Report
  <1>4. SelectionInv' /\ Document' = Document /\ (CitesTheCompiled => CitesTheCompiled')
    BY <1>2, KnownStays
  <1> QED BY <1>1, <1>2, <1>3, <1>4 DEF ReportInv, AnswerInv

(* An edit reads nothing; what was read may no longer be what is there.    *)
LEMMA EditReports ==
  ASSUME ReportInv, EditProject
  PROVE  SelectionInv' /\ AnswerInv'
  <1>1. /\ UNCHANGED <<project, filesRead, theory, evidence, materialsRead, classifications>>
        /\ UNCHANGED projectStage
    BY DEF EditProject, compilation
  <1>2. projectEdits' \in Nat /\ projectEdits' # 0
    BY DEF EditProject, ReportInv, SelectionInv
  <1>3. SelectionInv'
    BY <1>1, <1>2 DEF ReportInv, SelectionInv
  <1>4. Document' = Document
    BY <1>1 DEF Document
  <1>5. CitesTheCompiled => CitesTheCompiled'
    BY <1>1, <1>2 DEF CitesTheCompiled
  <1> QED BY <1>1, <1>3, <1>4, <1>5 DEF ReportInv, AnswerInv

(* Nothing happens.                                                        *)
LEMMA IdleReports ==
  ASSUME ReportInv, UNCHANGED projecting
  PROVE  SelectionInv' /\ AnswerInv'
  <1>1. /\ UNCHANGED <<projectFiles, projectEdits, project, filesRead, theory, evidence>>
        /\ UNCHANGED <<materialsRead, classifications, projectStage>>
    BY DEF projecting, repository, compilation
  <1>2. SelectionInv' /\ Document' = Document /\ (CitesTheCompiled => CitesTheCompiled')
    BY <1>1, KnownStays
  <1> QED BY <1>1, <1>2 DEF ReportInv, AnswerInv

(* The checks that only a fault of the compiler itself could fail never    *)
(* fail, and a report rests on a requirement of one use in the document    *)
(* that was compiled, on calls that a counter of one use explains and,     *)
(* when nothing was edited meanwhile, on evidence of the very file that    *)
(* was compiled (compileProject, classifyExactOne, makeProjectReport).     *)
THEOREM ProjectReportsStandAlways == ProjectSpec => []ProjectReportsStand
  <1>1. ProjectInit => SelectionInv /\ AnswerInv
    <2> SUFFICES ASSUME ProjectInit PROVE SelectionInv /\ AnswerInv
      OBVIOUS
    <2>1. /\ projectEdits = 0 /\ project = NotRead /\ filesRead = <<>> /\ theory = NotRead
          /\ evidence = NotRead /\ materialsRead = 0 /\ classifications = <<>>
          /\ projectStage = "pending"
      BY DEF ProjectInit
    <2> QED BY <2>1 DEF SelectionInv, AnswerInv, FilesAreCurrent
  <1>2. DischargeInv /\ (SelectionInv /\ AnswerInv) /\ [ProjectNext]_projecting
          => (SelectionInv /\ AnswerInv)'
    <2> SUFFICES ASSUME ReportInv, [ProjectNext]_projecting PROVE SelectionInv' /\ AnswerInv'
      BY DEF ReportInv
    <2> QED BY SelectionReports, SourceReports, ArtifactReports, ManifestReports, MaterialReports,
               TargetsReport, ReportReports, EditReports, IdleReports DEF ProjectNext
  <1>3. DischargeInv /\ (SelectionInv /\ AnswerInv) => ProjectReportsStand
    <2> SUFFICES ASSUME ReportInv PROVE ProjectReportsStand
      BY DEF ReportInv
    <2> SUFFICES ASSUME projectStage = "reported" PROVE ReportRests
      BY DEF ReportInv, AnswerInv, ProjectReportsStand
    <2>1. /\ classifications # <<>> /\ evidence # NotRead /\ theory # NotRead /\ CitesTheCompiled
          /\ Classed(classifications, theory.requirementAddress)
          /\ AppliesTo(Document, theory, project.theory.requirement)
      BY DEF ReportInv, AnswerInv
    <2>2. [t \in 1..2 |-> classifications[t].tag] = <<"Qualified", "Rejected">>
      BY <2>1 DEF Classed
    <2>3. \E d \in RealizationAt(Document, project.theory.requirement) :
            \E r \in Members(d.requires) : r.quantity = 1 /\ r.capability = project.theory.requirement[4]
      <3>1. PICK d \in OfKind(Document, "operationRealization") : \E r \in Members(d.requires) :
              /\ project.theory.requirement = Part(d, "requirement", r.capability) /\ r.quantity = 1
              /\ RealizationOf(project.theory.requirement) = d.id
        BY <2>1 DEF AppliesTo
      <3>2. PICK r \in Members(d.requires) :
              /\ project.theory.requirement = Part(d, "requirement", r.capability) /\ r.quantity = 1
              /\ RealizationOf(project.theory.requirement) = d.id
        BY <3>1
      <3>3. project.theory.requirement[4] = r.capability
        BY <3>2 DEF Part
      <3> QED BY <3>2, <3>3 DEF RealizationAt
    <2>4. LET seen == evidence.manifest.observation
          IN CounterExplains(seen.calls) /\ CounterExplains(<<seen.defect.first, seen.defect.reuse>>)
      BY <2>1, ManifestExplained DEF CitesTheCompiled
    <2> QED BY <2>1, <2>2, <2>3, <2>4 DEF ReportRests, CitesTheCompiled
  <1>4. ProjectSpec => []DischargeInv
    BY ProjectDischarges
  <1> QED BY <1>1, <1>2, <1>3, <1>4, PTL DEF ProjectSpec
=============================================================================
