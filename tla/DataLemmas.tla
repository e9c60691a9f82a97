----------------------------- MODULE DataLemmas -----------------------------
(***************************************************************************)
(* Facts about the data that the modules share. Lists: the smallest index  *)
(* of a set, the list without the entry at an index (the effect of         *)
(* dlist_delete), and what the entries of a kind say, as a set, when lists *)
(* are appended to, taken from and joined. Times: that the arithmetic of   *)
(* Timespec is exact and carries.                                          *)
(***************************************************************************)
EXTENDS Timespec, SequencesExt, SequenceTheorems, WellFoundedInduction, TLAPS

\* A set of naturals that is not empty has a smallest element, and Min is one:
\* the first matching index that a loop over a dlist stops at.
LEMMA MinProperties ==
    ASSUME NEW S \in SUBSET Nat, S # {}
    PROVE  Min(S) \in S /\ \A y \in S : Min(S) <= y
<1>1. PICK x \in S : \A y \in S : ~ (<<y, x>> \in OpToRel(<, Nat))
  BY NatLessThanWellFounded, WFMin, Zenon
<1>2. \A y \in S : <<y, x>> \in OpToRel(<, Nat) <=> y < x
  BY DEF OpToRel
<1>3. \A y \in S : ~ (y < x)
  BY <1>1, <1>2, Zenon
<1>4. \A y \in S : x <= y
  BY <1>3
<1>. QED  BY <1>4 DEF Min

\* Deleting the entry at i keeps the entries before it and moves the ones after
\* it up by one: the effect of dlist_delete(list, i) and dlist_remove(list, i).
LEMMA DeleteProperties ==
    ASSUME NEW S, NEW s \in Seq(S), NEW i \in 1..Len(s)
    PROVE  /\ RemoveAt(s, i) \in Seq(S)
           /\ Len(RemoveAt(s, i)) = Len(s) - 1
           /\ \A k \in 1..(Len(s) - 1) :
                 RemoveAt(s, i)[k] = IF k < i THEN s[k] ELSE s[k + 1]
<1>. DEFINE a == SubSeq(s, 1, i - 1)
            b == SubSeq(s, i + 1, Len(s))
<1>0. /\ Len(s) \in Nat
      /\ \A k \in 1..Len(s) : s[k] \in S
  BY LenProperties
<1>1. /\ a \in Seq(S)
      /\ Len(a) = i - 1
      /\ \A k \in 1..(i - 1) : a[k] = s[k]
  <2>1. \A k \in 1..(i - 1) : s[k] \in S
    BY <1>0
  <2>2. /\ a \in Seq(S)
        /\ Len(a) = IF 1 <= i - 1 THEN i - 1 - 1 + 1 ELSE 0
        /\ \A k \in 1..(i - 1 - 1 + 1) : a[k] = s[1 + k - 1]
    BY <1>0, <2>1, SubSeqProperties, i - 1 \in Int, 1 \in Int
  <2>. QED  BY <1>0, <2>2
<1>2. /\ b \in Seq(S)
      /\ Len(b) = Len(s) - i
      /\ \A k \in 1..(Len(s) - i) : b[k] = s[i + k]
  <2>1. \A k \in (i + 1)..Len(s) : s[k] \in S
    BY <1>0
  <2>2. /\ b \in Seq(S)
        /\ Len(b) = IF i + 1 <= Len(s) THEN Len(s) - (i + 1) + 1 ELSE 0
        /\ \A k \in 1..(Len(s) - (i + 1) + 1) : b[k] = s[(i + 1) + k - 1]
    BY <1>0, <2>1, SubSeqProperties, i + 1 \in Int, Len(s) \in Int
  <2>. QED  BY <1>0, <2>2
<1>3. RemoveAt(s, i) = a \o b
  BY DEF RemoveAt
<1>. HIDE DEF a, b
<1>4. /\ a \o b \in Seq(S)
      /\ Len(a \o b) = Len(a) + Len(b)
      /\ \A k \in 1..(Len(a) + Len(b)) :
            (a \o b)[k] = IF k <= Len(a) THEN a[k] ELSE b[k - Len(a)]
  BY <1>1, <1>2, ConcatProperties
<1>5. Len(a) + Len(b) = Len(s) - 1
  BY <1>0, <1>1, <1>2
<1>6. ASSUME NEW k \in 1..(Len(s) - 1)
      PROVE  (a \o b)[k] = IF k < i THEN s[k] ELSE s[k + 1]
  <2>1. CASE k < i
    BY <1>0, <1>1, <1>4, <1>5, <2>1
  <2>2. CASE ~(k < i)
    <3>1. (a \o b)[k] = b[k - (i - 1)]
      BY <1>0, <1>1, <1>4, <1>5, <2>2
    <3>2. k - (i - 1) \in 1..(Len(s) - i)
      BY <1>0, <2>2
    <3>3. b[k - (i - 1)] = s[i + (k - (i - 1))]
      BY <1>2, <3>2
    <3>. QED  BY <2>2, <3>1, <3>3, <1>0
  <2>. QED  BY <2>1, <2>2
<1>. QED  BY <1>3, <1>4, <1>5, <1>6

\* Induction over the turns of a loop: h[i] is in S[i] at first and after each.
LEMMA AfterEachTurn ==
    ASSUME NEW n \in Nat, NEW h, NEW S, h[0] \in S[0],
           \A i \in 1..n : h[i - 1] \in S[i - 1] => h[i] \in S[i]
    PROVE  \A i \in 0..n : h[i] \in S[i]
<1> DEFINE Bad == {i \in 0..n : h[i] \notin S[i]}
<1>1. SUFFICES ASSUME Bad # {} PROVE FALSE
  OBVIOUS
<1> HIDE DEF Bad
<1>2. PICK i \in Bad : \A k \in Bad : i <= k
  <2>1. Bad \in SUBSET Nat
    BY DEF Bad
  <2>2. QED BY <1>1, <2>1, MinProperties
<1>3. i \in 0..n /\ h[i] \notin S[i]
  BY <1>2 DEF Bad
<1>4. i # 0
  BY <1>3
<1>5. i \in 1..n /\ i - 1 \in 0..n /\ ~(i <= i - 1)
  BY <1>3, <1>4
<1>6. h[i - 1] \in S[i - 1]
  BY <1>2, <1>5 DEF Bad
<1>7. QED BY <1>3, <1>5, <1>6

\* A loop of n turns that starts with b and stays in S has a function of its turns.
HasTurns(n, S, b, step) ==
    \E g \in [0..n -> S] : /\ g[0] = b
                           /\ \A i \in 1..n : g[i] = step[i][g[i - 1]]

LEMMA LoopHasTurns ==
    ASSUME NEW n \in Nat, NEW S, NEW b \in S, NEW step \in [1..n -> [S -> S]]
    PROVE  HasTurns(n, S, b, step)
<1> DEFINE Turns(m, g) == g[0] = b /\ \A i \in 1..m : g[i] = step[i][g[i - 1]]
           h == [m \in 0..n |-> IF \E g \in [0..m -> S] : Turns(m, g) THEN 1 ELSE 0]
           one == [m \in 0..n |-> {1}]
<1>1. h[0] \in one[0]
  <2> DEFINE g == [i \in 0..0 |-> b]
  <2>1. g \in [0..0 -> S] /\ g[0] = b /\ 1..0 = {}
    OBVIOUS
  <2> HIDE DEF g
  <2>2. Turns(0, g)
    BY <2>1
  <2>3. \E gg \in [0..0 -> S] : Turns(0, gg)
    BY <2>1, <2>2
  <2> HIDE DEF Turns
  <2>4. QED BY <2>3
<1>2. ASSUME NEW m \in 1..n, h[m - 1] \in one[m - 1] PROVE h[m] \in one[m]
  <2>1. m - 1 \in 0..n /\ m \in 0..n /\ m - 1 \in 0..(m - 1) /\ m \notin 0..(m - 1) /\ 0 # m
    OBVIOUS
  <2>2. \E g \in [0..(m - 1) -> S] : Turns(m - 1, g)
    <3> HIDE DEF Turns
    <3>1. QED BY <1>2, <2>1
  <2>3. PICK g \in [0..(m - 1) -> S] : Turns(m - 1, g)
    BY <2>2
  <2> DEFINE k == [i \in 0..m |-> IF i = m THEN step[m][g[m - 1]] ELSE g[i]]
  <2>4. step[m][g[m - 1]] \in S
    BY <2>1
  <2>5. \A i \in 0..m : i # m => i \in 0..(m - 1)
    OBVIOUS
  <2>6. k \in [0..m -> S]
    BY <2>4, <2>5
  <2>7. k[0] = b
    BY <2>1, <2>3
  <2>8. ASSUME NEW i \in 1..m PROVE k[i] = step[i][k[i - 1]]
    <3>1. i \in 0..m /\ i - 1 \in 0..m /\ i - 1 # m
      OBVIOUS
    <3>2. k[i - 1] = g[i - 1]
      BY <3>1
    <3>3. CASE i = m
      BY <3>1, <3>2, <3>3
    <3>4. CASE i # m
      <4>1. i \in 1..(m - 1)
        BY <3>4
      <4>2. g[i] = step[i][g[i - 1]]
        BY <2>3, <4>1
      <4>3. k[i] = g[i]
        BY <3>1, <3>4
      <4>4. QED BY <3>2, <4>2, <4>3
    <3>5. QED BY <3>3, <3>4
  <2> HIDE DEF k
  <2>9. Turns(m, k)
    BY <2>7, <2>8
  <2>10. \E gg \in [0..m -> S] : Turns(m, gg)
    BY <2>6, <2>9
  <2> HIDE DEF Turns
  <2>11. QED BY <2>1, <2>10
<1>3. \A m \in 0..n : h[m] \in one[m]
  <2> HIDE DEF h, one
  <2>1. QED BY <1>1, <1>2, AfterEachTurn
<1>4. n \in 0..n /\ h[n] = 1
  BY <1>3
<1>5. \E g \in [0..n -> S] : Turns(n, g)
  <2> HIDE DEF Turns
  <2>1. QED BY <1>4
<1>6. QED BY <1>5 DEF HasTurns

-----------------------------------------------------------------------------
\* What is appended to and taken from a queue.
LEMMA AppendedTo ==
    ASSUME NEW S, NEW q \in Seq(S), NEW e \in S
    PROVE  /\ Append(q, e) \in Seq(S)
           /\ Len(Append(q, e)) = Len(q) + 1
           /\ \A k \in 1..Len(Append(q, e)) :
                 \/ k \in 1..Len(q) /\ Append(q, e)[k] = q[k] /\ q[k] \in S
                 \/ k = Len(q) + 1 /\ Append(q, e)[k] = e
           /\ \A k \in 1..Len(q) : Append(q, e)[k] = q[k]
OBVIOUS

LEMMA TakenFrom ==
    ASSUME NEW S, NEW q \in Seq(S), q # <<>>
    PROVE  /\ Head(q) \in S /\ Head(q) = q[1] /\ 1 \in 1..Len(q)
           /\ Tail(q) \in Seq(S)
           /\ Len(Tail(q)) = Len(q) - 1
           /\ \A k \in 1..Len(Tail(q)) :
                 k + 1 \in 1..Len(q) /\ k + 1 > 1 /\ Tail(q)[k] = q[k + 1]
OBVIOUS

-----------------------------------------------------------------------------
\* What v says of the entries of s that are in F.
Said(s, F, v) == {v[s[k]] : k \in {j \in 1..Len(s) : s[j] \in F}}

\* v says something else of each entry of s that is in F.
Once(s, F, v) ==
    \A i, j \in 1..Len(s) : s[i] \in F /\ s[j] \in F /\ v[s[i]] = v[s[j]] => i = j

LEMMA SaidIff ==
    \A s, F, v, x : x \in Said(s, F, v) <=> \E k \in 1..Len(s) : s[k] \in F /\ x = v[s[k]]
BY DEF Said

LEMMA SaidOfNone == ASSUME NEW F, NEW v PROVE Said(<<>>, F, v) = {} /\ Once(<<>>, F, v)
BY DEF Said, Once

LEMMA SaidAppend ==
    ASSUME NEW S, NEW s \in Seq(S), NEW e \in S, NEW F, NEW v
    PROVE  /\ e \in F => Said(Append(s, e), F, v) = Said(s, F, v) \cup {v[e]}
           /\ e \notin F => Said(Append(s, e), F, v) = Said(s, F, v)
           /\ Once(s, F, v) /\ (e \in F => v[e] \notin Said(s, F, v))
                 => Once(Append(s, e), F, v)
<1> DEFINE t == Append(s, e)
<1>1. /\ Len(s) \in Nat /\ Len(t) = Len(s) + 1 /\ t[Len(s) + 1] = e
      /\ \A k \in 1..Len(s) : t[k] = s[k]
  BY AppendedTo
<1> HIDE DEF t
<1>2. e \in F => Said(t, F, v) = Said(s, F, v) \cup {v[e]}
  BY <1>1 DEF Said
<1>3. e \notin F => Said(t, F, v) = Said(s, F, v)
  BY <1>1 DEF Said
<1>4. Once(s, F, v) /\ (e \in F => v[e] \notin Said(s, F, v)) => Once(t, F, v)
  BY <1>1 DEF Said, Once
<1>5. QED BY <1>2, <1>3, <1>4 DEF t

LEMMA SaidTail ==
    ASSUME NEW S, NEW s \in Seq(S), s # <<>>, NEW F, NEW v
    PROVE  /\ Said(Tail(s), F, v) \subseteq Said(s, F, v)
           /\ Head(s) \notin F => Said(Tail(s), F, v) = Said(s, F, v)
           /\ Head(s) \in F => v[Head(s)] \in Said(s, F, v)
           /\ Head(s) \in F => Said(s, F, v) = Said(Tail(s), F, v) \cup {v[Head(s)]}
           /\ Once(s, F, v) => /\ Once(Tail(s), F, v)
                               /\ Head(s) \in F => v[Head(s)] \notin Said(Tail(s), F, v)
<1> DEFINE t == Tail(s)
<1>1. /\ Len(s) \in Nat /\ Len(s) > 0 /\ Len(t) = Len(s) - 1 /\ Head(s) = s[1]
      /\ \A k \in 1..Len(t) : k + 1 \in 1..Len(s) /\ t[k] = s[k + 1]
  BY TakenFrom
<1>2. \A k \in 1..Len(s) : k # 1 => k - 1 \in 1..Len(t) /\ t[k - 1] = s[k]
  BY <1>1
<1> HIDE DEF t
<1>3. Said(t, F, v) \subseteq Said(s, F, v)
  BY <1>1 DEF Said
<1>4. Head(s) \in F => v[Head(s)] \in Said(s, F, v)
  BY <1>1 DEF Said
<1>5. \A x \in Said(s, F, v) : x \in Said(t, F, v) \/ (Head(s) \in F /\ x = v[Head(s)])
  BY <1>1, <1>2 DEF Said
<1>6. Once(s, F, v) => Once(t, F, v)
  <2> SUFFICES ASSUME Once(s, F, v), NEW i \in 1..Len(t), NEW j \in 1..Len(t),
                      t[i] \in F, t[j] \in F, v[t[i]] = v[t[j]]
               PROVE  i = j
    BY DEF Once
  <2>1. /\ i + 1 \in 1..Len(s) /\ t[i] = s[i + 1]
        /\ j + 1 \in 1..Len(s) /\ t[j] = s[j + 1]
    BY <1>1
  <2>2. i + 1 = j + 1
    BY <2>1 DEF Once
  <2>3. QED BY <2>2, <1>1
<1>7. ASSUME Once(s, F, v), Head(s) \in F, v[Head(s)] \in Said(t, F, v) PROVE FALSE
  <2>1. PICK k \in 1..Len(t) : t[k] \in F /\ v[t[k]] = v[s[1]]
    BY <1>1, <1>7 DEF Said
  <2>2. k + 1 \in 1..Len(s) /\ s[k + 1] = t[k] /\ 1 \in 1..Len(s)
    BY <1>1, <2>1
  <2>3. k + 1 = 1
    BY <1>1, <1>7, <2>1, <2>2 DEF Once
  <2>4. QED BY <2>3
<1>8. QED BY <1>3, <1>4, <1>5, <1>6, <1>7 DEF t

LEMMA SaidDelete ==
    ASSUME NEW S, NEW s \in Seq(S), NEW i \in 1..Len(s), NEW F, NEW v
    PROVE  /\ Said(RemoveAt(s, i), F, v) \subseteq Said(s, F, v)
           /\ s[i] \in F => Said(s, F, v) = Said(RemoveAt(s, i), F, v) \cup {v[s[i]]}
           /\ Once(s, F, v) => /\ Once(RemoveAt(s, i), F, v)
                               /\ s[i] \in F => v[s[i]] \notin Said(RemoveAt(s, i), F, v)
<1> DEFINE t == RemoveAt(s, i)
           p == [k \in 1..(Len(s) - 1) |-> IF k < i THEN k ELSE k + 1]
<1>1. /\ Len(s) \in Nat /\ Len(t) = Len(s) - 1
      /\ \A k \in 1..Len(t) : t[k] = s[p[k]] /\ p[k] \in 1..Len(s) /\ p[k] # i
  <2>1. /\ Len(s) \in Nat /\ Len(t) = Len(s) - 1
        /\ \A k \in 1..(Len(s) - 1) : t[k] = IF k < i THEN s[k] ELSE s[k + 1]
    BY DeleteProperties
  <2> HIDE DEF t
  <2>2. QED BY <2>1
<1>2. /\ \A j, k \in 1..Len(t) : p[j] = p[k] => j = k
      /\ \A k \in 1..Len(s) : k # i => \E j \in 1..Len(t) : p[j] = k
  <2>1. \A j, k \in 1..Len(t) : p[j] = p[k] => j = k
    BY <1>1
  <2>2. ASSUME NEW k \in 1..Len(s), k # i PROVE \E j \in 1..Len(t) : p[j] = k
    <3>1. CASE k < i
      <4>1. k \in 1..Len(t) /\ p[k] = k
        BY <1>1, <3>1
      <4>2. QED BY <4>1
    <3>2. CASE k > i
      <4>1. k - 1 \in 1..Len(t) /\ p[k - 1] = k
        BY <1>1, <2>2, <3>2
      <4>2. QED BY <4>1
    <3>3. QED BY <2>2, <3>1, <3>2, <1>1
  <2>3. QED BY <2>1, <2>2
<1> HIDE DEF t, p
<1>3. Said(t, F, v) \subseteq Said(s, F, v)
  BY <1>1 DEF Said
<1>4. s[i] \in F => v[s[i]] \in Said(s, F, v)
  BY <1>1 DEF Said
<1>5. ASSUME NEW x \in Said(s, F, v), x \notin Said(t, F, v) PROVE x = v[s[i]]
  <2>1. PICK k \in 1..Len(s) : s[k] \in F /\ x = v[s[k]]
    BY DEF Said
  <2>2. CASE k # i
    <3>1. PICK j \in 1..Len(t) : p[j] = k
      BY <1>2, <2>2
    <3>2. QED BY <1>1, <1>5, <2>1, <3>1 DEF Said
  <2>3. QED BY <2>1, <2>2
<1>6. Once(s, F, v) => Once(t, F, v)
  <2> SUFFICES ASSUME Once(s, F, v), NEW j \in 1..Len(t), NEW k \in 1..Len(t),
                      t[j] \in F, t[k] \in F, v[t[j]] = v[t[k]]
               PROVE  j = k
    BY DEF Once
  <2>1. /\ t[j] = s[p[j]] /\ p[j] \in 1..Len(s)
        /\ t[k] = s[p[k]] /\ p[k] \in 1..Len(s)
    BY <1>1
  <2>. p[j] = p[k]
    BY <2>1 DEF Once
  <2>. QED BY <1>2
<1>7. ASSUME Once(s, F, v), s[i] \in F, v[s[i]] \in Said(t, F, v) PROVE FALSE
  <2>1. PICK k \in 1..Len(t) : t[k] \in F /\ v[t[k]] = v[s[i]]
    BY <1>7 DEF Said
  <2>2. QED BY <1>1, <1>7, <2>1 DEF Once
<1>8. QED BY <1>3, <1>4, <1>5, <1>6, <1>7 DEF t

LEMMA SaidConcat ==
    ASSUME NEW S, NEW s \in Seq(S), NEW t \in Seq(S), NEW F, NEW v
    PROVE  /\ Said(s \o t, F, v) = Said(s, F, v) \cup Said(t, F, v)
           /\ /\ Once(s, F, v) /\ Once(t, F, v)
              /\ Said(s, F, v) \cap Said(t, F, v) = {}
              => Once(s \o t, F, v)
<1> DEFINE u == s \o t
<1>1. /\ Len(s) \in Nat /\ Len(t) \in Nat /\ Len(u) = Len(s) + Len(t)
      /\ \A k \in 1..Len(u) : u[k] = IF k <= Len(s) THEN s[k] ELSE t[k - Len(s)]
  BY ConcatProperties, LenProperties
<1>2. /\ \A k \in 1..Len(s) : k \in 1..Len(u) /\ u[k] = s[k]
      /\ \A k \in 1..Len(t) : Len(s) + k \in 1..Len(u) /\ u[Len(s) + k] = t[k]
      /\ \A k \in 1..Len(u) : k > Len(s) =>
            k - Len(s) \in 1..Len(t) /\ u[k] = t[k - Len(s)]
  BY <1>1
<1> HIDE DEF u
<1>3. Said(u, F, v) \subseteq Said(s, F, v) \cup Said(t, F, v)
  BY <1>1, <1>2 DEF Said
<1>4. Said(s, F, v) \subseteq Said(u, F, v) /\ Said(t, F, v) \subseteq Said(u, F, v)
  <2>1. \A k \in 1..Len(s) : s[k] \in F => v[s[k]] \in Said(u, F, v)
    BY <1>2, SaidIff
  <2>2. \A k \in 1..Len(t) : t[k] \in F => v[t[k]] \in Said(u, F, v)
    BY <1>2, SaidIff
  <2>3. QED BY <2>1, <2>2, SaidIff
<1>5. ASSUME Once(s, F, v), Once(t, F, v), Said(s, F, v) \cap Said(t, F, v) = {},
             NEW i \in 1..Len(u), NEW j \in 1..Len(u),
             u[i] \in F, u[j] \in F, v[u[i]] = v[u[j]]
      PROVE  i = j
  <2>1. CASE i <= Len(s) /\ j <= Len(s)
    BY <1>1, <1>5, <2>1 DEF Once
  <2>2. CASE i > Len(s) /\ j > Len(s)
    <3>1. /\ i - Len(s) \in 1..Len(t) /\ t[i - Len(s)] = u[i]
          /\ j - Len(s) \in 1..Len(t) /\ t[j - Len(s)] = u[j]
      BY <1>2, <2>2
    <3>2. i - Len(s) = j - Len(s)
      BY <1>5, <3>1 DEF Once
    <3>3. QED BY <1>1, <3>2
  <2>3. \A k \in 1..Len(u) : k <= Len(s) /\ u[k] \in F => v[u[k]] \in Said(s, F, v)
    BY <1>1 DEF Said
  <2>4. \A k \in 1..Len(u) : k > Len(s) /\ u[k] \in F => v[u[k]] \in Said(t, F, v)
    BY <1>2 DEF Said
  <2>5. QED BY <1>1, <1>5, <2>1, <2>2, <2>3, <2>4
<1>6. QED BY <1>3, <1>4, <1>5 DEF u, Once

-----------------------------------------------------------------------------
\* The duration of a handler (ipc_api_runtime_end_record) is exact, and a time
\* again, although it carries.
THEOREM DiffIsExact ==
    ASSUME NEW start \in Times, NEW end \in Times
    PROVE  /\ timespec_diff(start, end) \in Times
           /\ Nanoseconds(timespec_diff(start, end)) = Nanoseconds(end) - Nanoseconds(start)
BY SMT DEF timespec_diff, Times, Nanoseconds, Billion, Below

\* So is the time that the daemon adds up for an api.
THEOREM SumIsExact ==
    ASSUME NEW src \in Times, NEW dest \in Times
    PROVE  /\ timespec_sum(src, dest) \in Times
           /\ Nanoseconds(timespec_sum(src, dest)) = Nanoseconds(src) + Nanoseconds(dest)
BY SMT DEF timespec_sum, Times, Nanoseconds, Billion, Below

\* A time is known by its nanoseconds.
LEMMA NanosecondsDetermine ==
    ASSUME NEW s \in Times, NEW t \in Times, Nanoseconds(s) = Nanoseconds(t)
    PROVE  s = t
<1>1. s.tv_sec = t.tv_sec /\ s.tv_nsec = t.tv_nsec
  BY SMT DEF Times, Nanoseconds, Billion, Below
<1>2. QED BY <1>1 DEF Times

\* The daemon's total of an api does not depend on the order in which the end
\* records of its calls arrive.
THEOREM SumInAnyOrder ==
    ASSUME NEW total \in Times, NEW s \in Times, NEW t \in Times
    PROVE  timespec_sum(timespec_sum(total, s), t) = timespec_sum(timespec_sum(total, t), s)
<1> DEFINE one == timespec_sum(timespec_sum(total, s), t)
           two == timespec_sum(timespec_sum(total, t), s)
<1>1. /\ timespec_sum(total, s) \in Times
      /\ Nanoseconds(timespec_sum(total, s)) = Nanoseconds(total) + Nanoseconds(s)
      /\ timespec_sum(total, t) \in Times
      /\ Nanoseconds(timespec_sum(total, t)) = Nanoseconds(total) + Nanoseconds(t)
  BY SumIsExact
<1>2. /\ one \in Times /\ two \in Times
      /\ Nanoseconds(one) = Nanoseconds(total) + Nanoseconds(s) + Nanoseconds(t)
      /\ Nanoseconds(two) = Nanoseconds(total) + Nanoseconds(t) + Nanoseconds(s)
  BY <1>1, SumIsExact
<1>3. \A u \in Times : Nanoseconds(u) \in Int
  BY SMT DEF Times, Nanoseconds, Billion, Below
<1>4. Nanoseconds(one) = Nanoseconds(two)
  BY <1>2, <1>3
<1> HIDE DEF one, two
<1>5. one = two
  BY <1>2, <1>4, NanosecondsDetermine
<1>6. QED BY <1>5 DEF one, two

\* While the clock does not go back, two datagrams of a process are 50 microseconds
\* apart: the test of seconds and nanoseconds apart is one of their difference.
THEOREM PauseIsKept ==
    ASSUME NEW save_ptime \in Times, NEW nowtime \in Times,
           Nanoseconds(save_ptime) <= Nanoseconds(nowtime)
    PROVE  TooEarly(save_ptime, nowtime)
             <=> Nanoseconds(nowtime) - Nanoseconds(save_ptime) < 50000
<1> DEFINE d == timespec_diff(save_ptime, nowtime)
<1>1. /\ d \in Times
      /\ Nanoseconds(d) = Nanoseconds(nowtime) - Nanoseconds(save_ptime)
      /\ Nanoseconds(nowtime) \in Int /\ Nanoseconds(save_ptime) \in Int
  BY DiffIsExact, SMT DEF Times, Nanoseconds, Billion, Below
<1> HIDE DEF d
<1>2. d.tv_sec \in Int /\ d.tv_nsec \in Below(Billion) /\ d.tv_sec * Billion + d.tv_nsec >= 0
  BY <1>1 DEF Times, Nanoseconds
<1>3. d.tv_sec >= 0
  BY <1>2, SMT DEF Billion, Below
<1>4. d.tv_sec < 1 /\ d.tv_nsec < 50000 <=> d.tv_sec * Billion + d.tv_nsec < 50000
  BY <1>2, <1>3, SMT DEF Billion, Below
<1>5. QED BY <1>1, <1>4 DEF TooEarly, d, Nanoseconds

\* What % and \div do with a number of microseconds.
LEMMA MillionSplits ==
    ASSUME NEW n \in Nat
    PROVE  /\ n % Million \in Below(Million) /\ n \div Million \in Int
           /\ n = Million * (n \div Million) + (n % Million)
<1>1. n % Million \in Below(Million)
  BY SMT DEF Million, Below
<1>2. n \div Million \in Int
  BY SMT DEF Million
<1>3. n = Million * (n \div Million) + (n % Million)
  BY SMT DEF Million
<1>4. QED BY <1>1, <1>2, <1>3

\* Adding milliseconds is exact and gives a time again, as long as their
\* microseconds fit the 32 bits of ms * 1000.
THEOREM AddMSIsExact ==
    ASSUME NEW a \in Timevals, NEW ms \in Nat, ms * 1000 < Word
    PROVE  /\ timeraddMS(a, ms) \in Timevals
           /\ Microseconds(timeraddMS(a, ms)) = Microseconds(a) + ms * 1000
<1> DEFINE usec == a.tv_usec + ((ms * 1000) % Word)
<1>1. ms * 1000 \in Below(Word)
  BY SMT DEF Word, Below
<1>2. (ms * 1000) % Word = ms * 1000
  BY <1>1, SMT DEF Word, Below
<1>3. /\ usec = a.tv_usec + ms * 1000
      /\ usec \in Nat /\ a.tv_sec \in Int /\ a.tv_usec \in Below(Million)
  BY <1>2, SMT DEF Timevals, Million, Below
<1>4. timeraddMS(a, ms) =
         IF usec >= Million
         THEN [tv_sec |-> a.tv_sec + (usec \div Million), tv_usec |-> usec % Million]
         ELSE [tv_sec |-> a.tv_sec, tv_usec |-> usec]
  BY Zenon DEF timeraddMS
<1> HIDE DEF usec
<1>5. /\ usec % Million \in Below(Million) /\ usec \div Million \in Int
      /\ usec = Million * (usec \div Million) + (usec % Million)
  BY <1>3, MillionSplits
<1>6. /\ timeraddMS(a, ms) \in Timevals
      /\ Microseconds(timeraddMS(a, ms)) = a.tv_sec * Million + usec
  BY <1>3, <1>4, <1>5, SMT DEF Timevals, Microseconds, Million, Below
<1>7. QED BY <1>3, <1>6, SMT DEF Microseconds, Million, Below

\* sem_timedwait is given a deadline it accepts (its nanoseconds are below a
\* billion), 2 seconds after now.
THEOREM DeadlineIsValid ==
    ASSUME NEW now \in Timevals
    PROVE  /\ OutTime(now) \in Times
           /\ Nanoseconds(OutTime(now)) = (Microseconds(now) + 2 * Million) * 1000
<1> DEFINE a == timeraddMS(now, 2000)
<1>0. 2000 \in Nat /\ 2000 * 1000 < Word
  BY SMT DEF Word
<1>1. a \in Timevals /\ Microseconds(a) = Microseconds(now) + 2000 * 1000
  BY <1>0, AddMSIsExact
<1>2. now.tv_sec \in Int /\ now.tv_usec \in Int
  BY DEF Timevals, Below
<1> HIDE DEF a
<1>3. a.tv_sec \in Int /\ a.tv_usec \in Below(Million)
  BY <1>1 DEF Timevals
<1>4. OutTime(now) = [tv_sec |-> a.tv_sec, tv_nsec |-> a.tv_usec * 1000]
  BY DEF OutTime, a
<1>5. QED BY <1>1, <1>2, <1>3, <1>4, SMT DEF Times, Nanoseconds, Microseconds, Million, Billion, Below

=============================================================================
