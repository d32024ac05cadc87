----------------------------- MODULE SharedFacts -----------------------------
(* Facts about numbers and sequences that several proof modules need.      *)
EXTENDS Selection, Integers, FiniteSetsExt, FiniteSetTheorems, SequenceTheorems,
        WellFoundedInduction, TLAPS

\* A set of natural numbers has a least element ...
LEMMA LeastNatural ==
    ASSUME NEW S, S \subseteq Nat, S # {}
    PROVE  \E x \in S : \A y \in S : x <= y
<1> DEFINE R == OpToRel(<, Nat)
<1>1. IsWellFoundedOn(R, Nat)
    BY NatLessThanWellFounded
<1>2. \A x, y \in Nat : x < y => <<x, y>> \in R
    BY DEF OpToRel
<1> HIDE DEF R
<1>3. PICK x \in S : \A y \in S : ~(<<y, x>> \in R)
    BY <1>1, WFMin
<1>4. ASSUME NEW y \in S PROVE x <= y
    <2>1. x \in Nat /\ y \in Nat
        OBVIOUS
    <2>2. ~(y < x)
        BY <1>2, <1>3, <2>1
    <2> QED
        BY <2>1, <2>2
<1> QED
    BY <1>4

\* ... and, when it is bounded, a greatest one.
LEMMA GreatestNatural ==
    ASSUME NEW n \in Nat, NEW S, S \subseteq 1..n, S # {}
    PROVE  \E x \in S : \A y \in S : y <= x
<1> DEFINE Mirror == {n - x : x \in S}
<1>0. \A x \in S : x \in Nat /\ x <= n /\ n - x \in Nat
    OBVIOUS
<1>1. Mirror \subseteq Nat /\ Mirror # {}
    <2>1. Mirror # {}
        OBVIOUS
    <2>2. ASSUME NEW y \in Mirror PROVE y \in Nat
        <3>1. PICK x \in S : y = n - x
            OBVIOUS
        <3> QED
            BY <1>0, <3>1
    <2> QED
        BY <2>1, <2>2
<1>2. PICK m \in Mirror : \A y \in Mirror : m <= y
    <2> HIDE DEF Mirror
    <2> QED
        BY <1>1, LeastNatural
<1>3. PICK x \in S : m = n - x
    OBVIOUS
<1>4. ASSUME NEW y \in S PROVE y <= x
    <2>1. n - y \in Mirror
        OBVIOUS
    <2>2. n - x <= n - y
        BY <1>2, <1>3, <2>1
    <2> QED
        BY <1>0, <2>2
<1> QED
    BY <1>4

\* ... and what Min and Max choose is just that.
LEMMA MinFacts ==
    ASSUME NEW S, S \subseteq Nat, S # {}
    PROVE  Min(S) \in S /\ \A y \in S : Min(S) <= y
BY LeastNatural DEF Min

LEMMA MaxFacts ==
    ASSUME NEW n \in Nat, NEW S, S \subseteq 1..n, S # {}
    PROVE  Max(S) \in S /\ \A y \in S : y <= Max(S)
<1>1. PICK x \in S : \A y \in S : y <= x
    BY GreatestNatural
<1>2. \A y \in S : x >= y
    BY <1>1
<1>3. Max(S) \in S /\ \A y \in S : Max(S) >= y
    BY <1>2 DEF Max
<1> QED
    BY <1>3

\* A function on 1..n is a sequence of its values.
LEMMA SeqOfFunction ==
    ASSUME NEW n \in Nat, NEW S, NEW f, DOMAIN f = 1..n, \A i \in 1..n : f[i] \in S,
           f = [i \in 1..n |-> f[i]]
    PROVE  f \in Seq(S) /\ Len(f) = n
OBVIOUS

\* One sequence after another, with the laws of concatenation: a definition of
\* its own, so that an equation between sequences is one and no more.
Cat(s, t) == s \o t

LEMMA CatType ==
    ASSUME NEW S, NEW s \in Seq(S), NEW t \in Seq(S)
    PROVE  Cat(s, t) \in Seq(S)
BY DEF Cat

LEMMA CatAssoc ==
    ASSUME NEW S, NEW s \in Seq(S), NEW t \in Seq(S), NEW u \in Seq(S)
    PROVE  Cat(Cat(s, t), u) = Cat(s, Cat(t, u))
BY DEF Cat

LEMMA CatNone ==
    ASSUME NEW S, NEW s \in Seq(S)
    PROVE  Cat(s, <<>>) = s /\ Cat(<<>>, s) = s
BY DEF Cat

-----------------------------------------------------------------------------
(* What Picked returns.                                                    *)

\* p lists the m members of S in increasing order.
Lists(p, m, S) ==
    /\ p \in [1..m -> S]
    /\ \A i, j \in 1..m : i < j => p[i] < p[j]
    /\ \A x \in S : \E i \in 1..m : p[i] = x

\* The positions S are positions of a sequence of length n.
Below(S, n) == S \subseteq 1..n

\* What v holds at the positions S is in X.
Holds(v, S, X) == \A i \in S : v[i] \in X

\* x holds from n on what v holds at the positions S.
Copies(x, n, v, S) == \A i \in S : x[n + i] = v[i]

\* The positions S among the first n, and the positions T after them.
Merged(S, n, T) == S \cup {n + j : j \in T}

\* The values of v along p.
Along(v, p) == [k \in DOMAIN p |-> v[p[k]]]

\* The members of a bounded set of numbers can be listed ...
LEMMA ListingExists ==
    ASSUME NEW n \in Nat, NEW S, Below(S, n)
    PROVE  \E m \in Nat : \E p : Lists(p, m, S)
<1> USE DEF Below
<1> DEFINE Bad == {k \in Nat : ~ \E m \in Nat : \E p : Lists(p, m, S \cap 1..k)}
<1>1. CASE Bad = {}
    <2>1. S \cap 1..n = S /\ n \notin Bad
        BY <1>1
    <2> QED
        BY <2>1
<1>2. CASE Bad # {}
    <2>1. PICK k \in Bad : \A y \in Bad : k <= y
        <3> HIDE DEF Bad
        <3>1. Bad \subseteq Nat
            BY DEF Bad
        <3> QED
            BY <1>2, <3>1, LeastNatural
    <2>2. k \in Nat /\ ~ \E m \in Nat : \E p : Lists(p, m, S \cap 1..k)
        OBVIOUS
    <2>3. CASE k = 0
        <3>1. S \cap 1..k = {}
            BY <2>3
        <3>2. Lists([i \in 1..0 |-> 0], 0, {})
            BY DEF Lists
        <3> QED
            BY <2>2, <3>1, <3>2
    <2>4. CASE k # 0
        <3> DEFINE S0 == S \cap 1..(k - 1)
                   S1 == S \cap 1..k
        <3>1. k - 1 \in Nat /\ k - 1 \notin Bad
            BY <2>1, <2>2, <2>4
        <3>2. PICK m \in Nat : \E p : Lists(p, m, S0)
            BY <3>1
        <3>3. PICK p : Lists(p, m, S0)
            BY <3>2
        <3>4. CASE k \notin S
            <4>1. S1 = S0
                BY <2>2, <3>1, <3>4
            <4> QED
                BY <2>2, <3>3, <4>1
        <3>5. CASE k \in S
            <4> DEFINE q == [i \in 1..(m + 1) |-> IF i = m + 1 THEN k ELSE p[i]]
            <4>1. \A x \in S1 : x = k \/ x \in S0
                BY <2>2, <3>1
            <4>2. \A x \in S0 : x \in S1 /\ x < k
                BY <2>2, <3>1
            <4>3. k \in S1
                BY <2>2, <2>4, <3>5
            <4>4. \A i \in 1..m : i \in 1..(m + 1) /\ i # m + 1
                OBVIOUS
            <4> HIDE DEF S0, S1
            <4>5. \A i \in 1..(m + 1) : q[i] \in S1
                BY <3>3, <4>2, <4>3 DEF Lists
            <4>6. \A i, j \in 1..(m + 1) : i < j => q[i] < q[j]
                BY <3>3, <4>2 DEF Lists
            <4>7. \A x \in S1 : \E i \in 1..(m + 1) : q[i] = x
                <5>1. q[m + 1] = k /\ m + 1 \in 1..(m + 1)
                    OBVIOUS
                <5>2. \A i \in 1..m : q[i] = p[i]
                    BY <4>4
                <5> HIDE DEF q
                <5> QED
                    BY <3>3, <4>1, <4>4, <5>1, <5>2 DEF Lists
            <4>8. q \in [1..(m + 1) -> S1]
                BY <4>5
            <4> HIDE DEF q
            <4>9. Lists(q, m + 1, S1)
                BY <4>6, <4>7, <4>8 DEF Lists
            <4> QED
                BY <2>2, <4>9 DEF S1
        <3> QED
            BY <3>4, <3>5
    <2> QED
        BY <2>3, <2>4
<1> QED
    BY <1>1, <1>2

\* ... and what Picked returns are the values along that listing.
LEMMA ListingPicks ==
    ASSUME NEW n \in Nat, NEW S, Below(S, n), NEW m \in Nat, NEW p, Lists(p, m, S), NEW v
    PROVE  /\ Cardinality(S) = m
           /\ Picked(S, v) = Along(v, p)
<1> USE DEF Below
<1>0. p \in [1..m -> S] /\ \A i \in 1..m : p[i] \in Nat
    <2>1. p \in [1..m -> S]
        BY DEF Lists
    <2>2. S \subseteq Nat
        OBVIOUS
    <2> QED
        BY <2>1, <2>2
<1>1. \A k \in 1..m : Rank(S, p[k]) = k
    <2> TAKE k \in 1..m
    <2> DEFINE T == {j \in S : j <= p[k]}
               q == [i \in 1..k |-> p[i]]
    <2>1. \A i \in 1..k : i \in 1..m /\ p[i] \in T
        <3> TAKE i \in 1..k
        <3>1. i \in 1..m /\ (i = k \/ i < k)
            OBVIOUS
        <3> QED
            BY <1>0, <3>1 DEF Lists
    <2>2. \A i, j \in 1..k : p[i] = p[j] => i = j
        <3> TAKE i, j \in 1..k
        <3>1. i \in 1..m /\ j \in 1..m /\ p[i] \in Nat /\ p[j] \in Nat
            BY <1>0
        <3>2. i < j => p[i] < p[j]
            BY <3>1 DEF Lists
        <3>3. j < i => p[j] < p[i]
            BY <3>1 DEF Lists
        <3> QED
            BY <3>1, <3>2, <3>3
    <2>3. \A x \in T : \E i \in 1..k : p[i] = x
        <3> TAKE x \in T
        <3>1. PICK i \in 1..m : p[i] = x
            BY DEF Lists
        <3>2. ~(k < i)
            BY <1>0, <3>1 DEF Lists
        <3> QED
            BY <3>1, <3>2
    <2> HIDE DEF T
    <2>4. q \in Bijection(1..k, T)
        BY <2>1, <2>2, <2>3 DEF Bijection, Injection, Surjection, IsInjective
    <2>5. ExistsBijection(1..k, T)
        BY <2>4 DEF ExistsBijection
    <2> QED
        BY <2>5, FS_CountingElements DEF Rank, T
<1>2. Cardinality(S) = m
    <2>1. \A i, j \in 1..m : p[i] = p[j] => i = j
        BY <1>1
    <2>2. p \in Bijection(1..m, S)
        BY <1>0, <2>1 DEF Lists, Bijection, Injection, Surjection, IsInjective
    <2> QED
        BY <2>2, FS_CountingElements DEF ExistsBijection
<1>3. \A k \in 1..m : (CHOOSE i \in S : Rank(S, i) = k) = p[k]
    <2> TAKE k \in 1..m
    <2>1. p[k] \in S /\ Rank(S, p[k]) = k
        BY <1>0, <1>1
    <2>2. \A i \in S : Rank(S, i) = k => i = p[k]
        BY <1>1 DEF Lists
    <2> QED
        BY <2>1, <2>2
<1>4. \A k \in 1..Cardinality(S) : v[CHOOSE i \in S : Rank(S, i) = k] = v[p[k]]
    BY <1>2, <1>3
<1>5. Picked(S, v) = [k \in 1..m |-> v[CHOOSE i \in S : Rank(S, i) = k]]
    BY <1>2 DEF Picked
<1>7. Picked(S, v) = [k \in 1..m |-> v[p[k]]]
    BY <1>2, <1>4, <1>5
<1> QED
    BY <1>0, <1>2, <1>7 DEF Along

\* Any sequence of positions gives a sequence of values.
LEMMA AlongType ==
    ASSUME NEW S, NEW m \in Nat, NEW p, Lists(p, m, S), NEW X, NEW v, Holds(v, S, X)
    PROVE  Along(v, p) \in Seq(X) /\ Len(Along(v, p)) = m
<1>1. DOMAIN p = 1..m /\ \A k \in 1..m : v[p[k]] \in X
    BY DEF Lists, Holds
<1>2. Along(v, p) = [k \in 1..m |-> v[p[k]]]
    BY <1>1 DEF Along
<1> QED
    BY <1>1, <1>2

LEMMA PickedType ==
    ASSUME NEW n \in Nat, NEW S, Below(S, n), NEW X, NEW v, Holds(v, S, X)
    PROVE  Picked(S, v) \in Seq(X)
<1>1. PICK m \in Nat : \E p : Lists(p, m, S)
    BY ListingExists
<1>2. PICK p : Lists(p, m, S)
    BY <1>1
<1>3. Picked(S, v) = Along(v, p)
    BY <1>2, ListingPicks
<1> QED
    BY <1>2, <1>3, AlongType

\* A sequence is known by its elements.
LEMMA ConcatIs ==
    ASSUME NEW A, NEW x \in Seq(A), NEW y \in Seq(A), NEW z \in Seq(A),
           Len(x) = Len(y) + Len(z),
           \A k \in 1..Len(y) : x[k] = y[k],
           \A k \in 1..Len(z) : x[Len(y) + k] = z[k]
    PROVE  x = y \o z
<1>1. Len(y \o z) = Len(x) /\ y \o z \in Seq(A)
    OBVIOUS
<1>2. ASSUME NEW k \in 1..Len(x) PROVE x[k] = (y \o z)[k]
    <2>1. CASE k \in 1..Len(y)
        BY <2>1
    <2>2. CASE k \notin 1..Len(y)
        <3>1. k - Len(y) \in 1..Len(z) /\ k = Len(y) + (k - Len(y))
            BY <2>2
        <3>2. x[k] = z[k - Len(y)]
            BY <3>1
        <3> QED
            BY <2>2, <3>1, <3>2
    <2> QED
        BY <2>1, <2>2
<1> QED
    BY <1>1, <1>2, SeqEqual

\* One listing after another.
Joined(p, a, q, b, n) == [k \in 1..(a + b) |-> IF k <= a THEN p[k] ELSE n + q[k - a]]

LEMMA ListingConcat ==
    ASSUME NEW n \in Nat, NEW S, Below(S, n), NEW a \in Nat, NEW p, Lists(p, a, S),
           NEW m \in Nat, NEW T, Below(T, m), NEW b \in Nat, NEW q, Lists(q, b, T)
    PROVE  /\ Lists(Joined(p, a, q, b, n), a + b, Merged(S, n, T))
           /\ Below(Merged(S, n, T), n + m)
<1> USE DEF Below, Merged
<1> DEFINE U == S \cup {n + j : j \in T}
           l == Joined(p, a, q, b, n)
<1>0. l = [k \in 1..(a + b) |-> IF k <= a THEN p[k] ELSE n + q[k - a]]
    BY DEF Joined
<1>5. /\ \A k \in 1..a : l[k] = p[k] /\ p[k] \in S /\ k \in 1..(a + b)
      /\ \A k \in 1..b : l[a + k] = n + q[k] /\ q[k] \in T /\ a + k \in 1..(a + b)
    <2>1. ASSUME NEW k \in 1..a PROVE l[k] = p[k] /\ p[k] \in S /\ k \in 1..(a + b)
        BY <1>0 DEF Lists
    <2>2. ASSUME NEW k \in 1..b PROVE l[a + k] = n + q[k] /\ q[k] \in T /\ a + k \in 1..(a + b)
        <3>1. a + k \in 1..(a + b) /\ ~(a + k <= a) /\ (a + k) - a = k
            OBVIOUS
        <3>2. l[a + k] = n + q[k]
            BY <1>0, <3>1
        <3> QED
            BY <3>1, <3>2 DEF Lists
    <2> QED
        BY <2>1, <2>2
<1>6. \A k \in 1..(a + b) : k \in 1..a \/ \E h \in 1..b : k = a + h
    <2> TAKE k \in 1..(a + b)
    <2>1. k \in 1..a \/ (k - a \in 1..b /\ k = a + (k - a))
        OBVIOUS
    <2> QED
        BY <2>1
<1>7. Lists(l, a + b, U)
    <2>1. l \in [1..(a + b) -> U]
        <3>0. l = [k \in 1..(a + b) |-> l[k]]
            BY <1>0
        <3>1. ASSUME NEW k \in 1..(a + b) PROVE l[k] \in U
            <4>1. CASE k \in 1..a
                BY <1>5, <4>1
            <4>2. CASE k \notin 1..a
                <5>1. PICK h \in 1..b : k = a + h
                    BY <1>6, <4>2
                <5> QED
                    BY <1>5, <5>1
            <4> QED
                BY <4>1, <4>2
        <3> HIDE DEF l
        <3> QED
            BY <3>0, <3>1
    <2>2. ASSUME NEW i \in 1..(a + b), NEW j \in 1..(a + b), i < j PROVE l[i] < l[j]
        <3> HIDE DEF l
        <3>1. CASE i \in 1..a /\ j \in 1..a
            BY <1>5, <2>2, <3>1 DEF Lists
        <3>2. CASE i \in 1..a /\ j \notin 1..a
            <4>1. PICK h \in 1..b : j = a + h
                BY <1>6, <3>2
            <4>2. l[i] \in 1..n /\ q[h] \in 1..m /\ l[j] = n + q[h]
                BY <1>5, <3>2, <4>1
            <4> QED
                BY <4>2
        <3>3. CASE i \notin 1..a
            <4>1. PICK g \in 1..b : i = a + g
                BY <1>6, <3>3
            <4>2. PICK h \in 1..b : j = a + h
                BY <1>6, <2>2, <3>3
            <4>3. g < h
                BY <2>2, <4>1, <4>2
            <4>4. q[g] < q[h]
                BY <4>3 DEF Lists
            <4>5. l[i] = n + q[g] /\ l[j] = n + q[h] /\ q[g] \in 1..m /\ q[h] \in 1..m
                BY <1>5, <4>1, <4>2
            <4> QED
                BY <4>4, <4>5
        <3> QED
            BY <3>1, <3>2, <3>3
    <2>3. ASSUME NEW y \in U PROVE \E i \in 1..(a + b) : l[i] = y
        <3>1. CASE y \in S
            <4>1. PICK i \in 1..a : p[i] = y
                BY <3>1 DEF Lists
            <4> QED
                BY <1>5, <4>1
        <3>2. CASE y \notin S
            <4>1. PICK j \in T : y = n + j
                BY <3>2
            <4>2. PICK i \in 1..b : q[i] = j
                BY DEF Lists
            <4> HIDE DEF l
            <4> QED
                BY <1>5, <4>1, <4>2
        <3> QED
            BY <3>1, <3>2
    <2> QED
        BY <2>1, <2>2, <2>3 DEF Lists
<1>8. U \subseteq 1..(n + m)
    <2>1. \A i \in S : i \in 1..(n + m)
        OBVIOUS
    <2>2. \A j \in T : n + j \in 1..(n + m)
        OBVIOUS
    <2> QED
        BY <2>1, <2>2
<1> QED
    BY <1>7, <1>8 DEF U, l

\* x holds at S what v does, then, from n on, at T what w does.
Follows(x, v, S, n, w, T, m, X) ==
    /\ n \in Nat /\ Below(S, n) /\ m \in Nat /\ Below(T, m)
    /\ Holds(v, S, X) /\ Holds(w, T, X)
    /\ Copies(x, 0, v, S) /\ Copies(x, n, w, T)

\* What is picked from one sequence after another.
LEMMA PickedConcat ==
    ASSUME NEW x, NEW v, NEW S, NEW n, NEW w, NEW T, NEW m, NEW X,
           Follows(x, v, S, n, w, T, m, X)
    PROVE  Picked(Merged(S, n, T), x) = Cat(Picked(S, v), Picked(T, w))
<1>f. /\ n \in Nat /\ Below(S, n) /\ m \in Nat /\ Below(T, m)
      /\ Holds(v, S, X) /\ Holds(w, T, X)
      /\ Copies(x, 0, v, S) /\ Copies(x, n, w, T)
    BY DEF Follows
<1> DEFINE U == Merged(S, n, T)
<1>0. \A i \in S : x[i] = v[i]
    BY <1>f DEF Copies, Below
<1>6. Holds(x, U, X)
    BY <1>0, <1>f DEF Holds, Copies, Merged
<1>1. PICK a \in Nat : \E p : Lists(p, a, S)
    BY <1>f, ListingExists
<1>2. PICK p : Lists(p, a, S)
    BY <1>1
<1>3. PICK b \in Nat : \E q : Lists(q, b, T)
    BY <1>f, ListingExists
<1>4. PICK q : Lists(q, b, T)
    BY <1>3
<1> DEFINE l == Joined(p, a, q, b, n)
<1>5. Lists(l, a + b, U) /\ Below(U, n + m)
    BY <1>f, <1>2, <1>4, ListingConcat
<1>7. a + b \in Nat /\ n + m \in Nat
    BY <1>f
<1> HIDE DEF l, U
<1>8. Picked(S, v) = Along(v, p)
    BY <1>f, <1>2, ListingPicks
<1>16. Picked(T, w) = Along(w, q)
    BY <1>f, <1>4, ListingPicks
<1>14. Picked(U, x) = Along(x, l)
    BY <1>f, <1>5, <1>7, ListingPicks
<1>9. /\ Along(v, p) \in Seq(X) /\ Len(Along(v, p)) = a
      /\ Along(w, q) \in Seq(X) /\ Len(Along(w, q)) = b
    BY <1>f, <1>2, <1>4, AlongType
<1>15. Along(x, l) \in Seq(X) /\ Len(Along(x, l)) = a + b
    BY <1>f, <1>5, <1>6, <1>7, AlongType
<1>10. DOMAIN p = 1..a /\ DOMAIN q = 1..b /\ DOMAIN l = 1..(a + b)
    BY <1>2, <1>4, <1>5 DEF Lists
<1>11. ASSUME NEW k \in 1..a PROVE Along(x, l)[k] = Along(v, p)[k]
    <2>1. k \in 1..(a + b) /\ l[k] = p[k] /\ p[k] \in S
        BY <1>2 DEF l, Joined, Lists
    <2>2. Along(x, l)[k] = x[p[k]] /\ Along(v, p)[k] = v[p[k]]
        BY <1>10, <2>1 DEF Along
    <2> QED
        BY <1>0, <2>1, <2>2
<1>12. ASSUME NEW k \in 1..b PROVE Along(x, l)[a + k] = Along(w, q)[k]
    <2>0. a + k \in 1..(a + b) /\ ~(a + k <= a) /\ (a + k) - a = k
        OBVIOUS
    <2>1. a + k \in 1..(a + b) /\ l[a + k] = n + q[k] /\ q[k] \in T
        BY <1>4, <2>0 DEF l, Joined, Lists
    <2>2. Along(x, l)[a + k] = x[n + q[k]] /\ Along(w, q)[k] = w[q[k]]
        BY <1>10, <2>1 DEF Along
    <2> QED
        BY <1>f, <2>1, <2>2 DEF Copies
<1>13. Along(x, l) = Along(v, p) \o Along(w, q)
    BY <1>9, <1>11, <1>12, <1>15, ConcatIs
<1> QED
    BY <1>8, <1>13, <1>14, <1>16 DEF U, Cat

\* Everything is picked, or nothing.
LEMMA PickedAll ==
    ASSUME NEW X, NEW s \in Seq(X), NEW S, S = 1..Len(s)
    PROVE  Picked(S, s) = s
<1> DEFINE n == Len(s)
           p == [k \in 1..n |-> k]
<1>1. n \in Nat /\ Below(S, n)
    BY DEF Below
<1>2. Lists(p, n, S)
    BY DEF Lists
<1>3. Picked(S, s) = Along(s, p)
    BY <1>1, <1>2, ListingPicks
<1>4. Along(s, p) = [k \in 1..n |-> s[k]]
    BY DEF Along
<1> QED
    BY <1>3, <1>4

LEMMA PickedNone == ASSUME NEW v PROVE Picked({}, v) = <<>>
<1> DEFINE p == [k \in 1..0 |-> k]
<1>1. Lists(p, 0, {}) /\ Below({}, 0)
    BY DEF Lists, Below
<1>2. Picked({}, v) = Along(v, p)
    BY <1>1, ListingPicks
<1>3. Along(v, p) = <<>>
    BY DEF Along
<1> QED
    BY <1>2, <1>3
=============================================================================
