----------------------------- MODULE BlobProofs -----------------------------
(***************************************************************************)
(* Proofs about the two ways the training site finds the blobs of a        *)
(* picture: union-find over the pixels, their right and their lower        *)
(* neighbours (TagPipeline), and the flood fill with a stack (BlobFlood).  *)
(* Both compute the connected components of any picture of any size.  The  *)
(* types of both come last.                                                *)
(*                                                                         *)
(* The library's induction theorems have an operator as a parameter, which *)
(* the provers cannot instantiate; WFMin has a set for it.  Induction is   *)
(* had from that: the counterexamples are a set, and it has a least one.   *)
(***************************************************************************)
EXTENDS BlobFlood, WellFoundedInduction, FiniteSetTheorems, SequenceTheorems, TLAPS

-----------------------------------------------------------------------------
(* Induction and recursion over the naturals, with sets and functions for their parameters. *)

\* Every set of naturals that is not empty has a least member.
LEMMA LeastNatural ==
    ASSUME NEW T, T \subseteq Nat, T /= {}
    PROVE  \E x \in T : \A y \in T : x <= y
<1> DEFINE below == {ss \in Nat \X Nat : ss[1] < ss[2]}
<1>1. OpToRel(<, Nat) = below
    BY Zenon DEF OpToRel
<1>2. IsWellFoundedOn(OpToRel(<, Nat), Nat)
    BY NatLessThanWellFounded, Zenon
<1>3. IsWellFoundedOn(below, Nat)
    BY <1>1, <1>2, Zenon
<1>4. \E x \in T : \A y \in T : ~(<<y, x>> \in below)
    <2> HIDE DEF below
    <2> QED BY <1>3, WFMin, Zenon
<1>5. PICK x \in T : \A y \in T : ~(<<y, x>> \in below)
    BY <1>4
<1>6. ASSUME NEW y \in T PROVE x <= y
    <2>1. <<y, x>> \in below <=> y < x
        OBVIOUS
    <2> QED BY <1>5, <2>1
<1> QED BY <1>6

\* A set with zero and the successor of each of its naturals has them all.
LEMMA EveryNatural ==
    ASSUME NEW T, 0 \in T, \A n \in Nat : n \in T => n + 1 \in T
    PROVE  \A n \in Nat : n \in T
<1> SUFFICES ASSUME NEW m \in Nat, m \notin T PROVE FALSE
    OBVIOUS
<1> DEFINE rest == Nat \ T
<1>1. PICK x \in rest : \A y \in rest : x <= y
    <2>1. rest /= {} /\ rest \subseteq Nat
        OBVIOUS
    <2> QED BY LeastNatural, <2>1
<1>2. x /= 0 /\ x - 1 \in Nat
    BY <1>1
<1>3. x - 1 \in T
    BY <1>1, <1>2
<1> QED BY <1>1, <1>2, <1>3

\* A function that goes on from each of its values as F says, up to n.
Goes(h, n, S, s0, F) ==
    h \in [0..n -> S] /\ h[0] = s0 /\ \A m \in 0..(n - 1) : h[m + 1] = F[h[m]]

\* The same, without end.
GoesOnAs(g, S, s0, F) == g \in [Nat -> S] /\ g[0] = s0 /\ \A n \in Nat : g[n + 1] = F[g[n]]

\* Two of them agree as far as both go.
LEMMA GoesOneWay ==
    ASSUME NEW S, NEW s0 \in S, NEW F \in [S -> S], NEW n \in Nat, NEW k \in Nat, n <= k,
           NEW h, Goes(h, n, S, s0, F), NEW g, Goes(g, k, S, s0, F)
    PROVE  h[n] = g[n]
<1> DEFINE T == {m \in Nat : m <= n => h[m] = g[m]}
<1>1. 0 \in T
    BY DEF Goes
<1>2. ASSUME NEW m \in Nat, m \in T PROVE m + 1 \in T
    BY <1>2 DEF Goes
<1>3. n \in T
    <2> HIDE DEF T
    <2> QED BY <1>1, <1>2, EveryNatural
<1> QED BY <1>3

\* Recursion: from any start, a step that is a function of the value before leads on forever.
LEMMA GoesOn ==
    ASSUME NEW S, NEW s0 \in S, NEW F \in [S -> S]
    PROVE  \E g : GoesOnAs(g, S, s0, F)
<1> DEFINE T == {n \in Nat : \E h : Goes(h, n, S, s0, F)}
<1>1. 0 \in T
    <2>1. Goes([m \in 0..0 |-> s0], 0, S, s0, F)
        BY DEF Goes
    <2> QED BY <2>1
<1>2. ASSUME NEW n \in Nat, n \in T PROVE n + 1 \in T
    <2>1. PICK h : Goes(h, n, S, s0, F)
        BY <1>2
    <2> DEFINE g == [m \in 0..(n + 1) |-> IF m = n + 1 THEN F[h[n]] ELSE h[m]]
    <2>2. g \in [0..(n + 1) -> S]
        BY <2>1 DEF Goes
    <2>3. g[0] = s0
        BY <2>1 DEF Goes
    <2>4. \A m \in 0..n : g[m + 1] = F[g[m]]
        BY <2>1 DEF Goes
    <2>5. Goes(g, n + 1, S, s0, F)
        <3> HIDE DEF g
        <3> QED BY <2>2, <2>3, <2>4 DEF Goes
    <2> QED BY <2>5
<1>3. \A n \in Nat : \E h : Goes(h, n, S, s0, F)
    <2>1. \A n \in Nat : n \in T
        <3> HIDE DEF T
        <3> QED BY <1>1, <1>2, EveryNatural
    <2> QED BY <2>1
<1> DEFINE way(n) == CHOOSE h : Goes(h, n, S, s0, F)
           g == [n \in Nat |-> way(n)[n]]
<1>4. \A n \in Nat : Goes(way(n), n, S, s0, F)
    BY <1>3
<1> HIDE DEF way
<1>5. g \in [Nat -> S] /\ g[0] = s0
    BY <1>4 DEF Goes
<1>6. ASSUME NEW n \in Nat PROVE g[n + 1] = F[g[n]]
    <2>1. way(n)[n] = way(n + 1)[n]
        BY <1>4, n <= n + 1, n + 1 \in Nat, GoesOneWay
    <2>2. way(n + 1)[n + 1] = F[way(n + 1)[n]]
        BY <1>4 DEF Goes
    <2> QED BY <2>1, <2>2
<1>7. GoesOnAs(g, S, s0, F)
    <2> HIDE DEF g
    <2> QED BY <1>5, <1>6 DEF GoesOnAs
<1> QED BY <1>7

\* Sets that grow by steps inside a finite one, and stay when they have not grown, have stopped
\* growing after as many steps as it has members.
LEMMA GrowthStops ==
    ASSUME NEW S, IsFiniteSet(S), NEW g \in [Nat -> SUBSET S],
           \A n \in Nat : g[n] \subseteq g[n + 1],
           \A n \in Nat : g[n] = g[n + 1] => g[n + 1] = g[n + 2]
    PROVE  \A m \in Nat : m >= Cardinality(S) => g[m] = g[m + 1]
<1> DEFINE last == Cardinality(S)
<1>1. last \in Nat
    BY FS_CardinalityType
<1>2. \A n \in Nat : IsFiniteSet(g[n]) /\ Cardinality(g[n]) \in Nat /\ Cardinality(g[n]) <= last
    BY <1>1, FS_Subset, FS_CardinalityType
<1>3. ASSUME NEW n \in Nat, g[n] = g[n + 1], NEW k \in Nat PROVE g[n + k] = g[n + k + 1]
    <2> DEFINE T == {j \in Nat : g[n + j] = g[n + j + 1]}
    <2>1. 0 \in T
        BY <1>3
    <2>2. ASSUME NEW j \in Nat, j \in T PROVE j + 1 \in T
        BY <2>2, n + j \in Nat
    <2>3. k \in T
        <3> HIDE DEF T
        <3> QED BY <2>1, <2>2, EveryNatural
    <2> QED BY <2>3
<1>4. \E n \in 0..last : g[n] = g[n + 1]
    <2> SUFFICES ASSUME \A n \in 0..last : g[n] /= g[n + 1] PROVE FALSE
        OBVIOUS
    <2> DEFINE T == {n \in Nat : n <= last + 1 => Cardinality(g[n]) >= n}
    <2>1. 0 \in T
        BY <1>2
    <2>2. ASSUME NEW n \in Nat, n \in T PROVE n + 1 \in T
        <3> SUFFICES ASSUME n + 1 <= last + 1 PROVE Cardinality(g[n + 1]) >= n + 1
            OBVIOUS
        <3>1. n \in 0..last /\ Cardinality(g[n]) >= n
            BY <1>1, <2>2
        <3>2. g[n] /= g[n + 1] /\ g[n] \in SUBSET g[n + 1]
            BY <3>1
        <3>3. Cardinality(g[n]) <= Cardinality(g[n + 1]) /\ Cardinality(g[n]) /= Cardinality(g[n + 1])
            BY <1>2, <3>2, FS_Subset, n + 1 \in Nat
        <3> QED BY <1>2, <3>1, <3>3, n + 1 \in Nat
    <2>3. last + 1 \in T
        <3> HIDE DEF T
        <3> QED BY <1>1, <2>1, <2>2, EveryNatural
    <2> QED BY <1>1, <1>2, <2>3
<1>5. PICK n \in 0..last : g[n] = g[n + 1]
    BY <1>4
<1> TAKE m \in Nat
<1> HAVE m >= Cardinality(S)
<1>6. n \in Nat /\ m - n \in Nat /\ n + (m - n) = m
    BY <1>1
<1>7. g[n + (m - n)] = g[n + (m - n) + 1]
    BY <1>3, <1>5, <1>6
<1> QED BY <1>6, <1>7

-----------------------------------------------------------------------------
(* What filtering leaves (Filtering). *)

\* The first n of what is left of the first items, one item more at a time.
ItemByItem(f, n, s, S) ==
    /\ f[0] = <<>>
    /\ \A k \in 1..n : /\ s[k] \in S => f[k] = Append(f[k - 1], s[k])
                       /\ s[k] \notin S => f[k] = f[k - 1]

\* What is kept of a sequence is found item by item, from the first to the last.
LEMMA OnlyItemByItem ==
    ASSUME NEW D, NEW s \in Seq(D), NEW S
    PROVE  \E f \in [0..Len(s) -> Seq(D)] : ItemByItem(f, Len(s), s, S) /\ Only(s, S) = f[Len(s)]
<1> DEFINE T == {n \in Nat : n <= Len(s) =>
                               \E f \in [0..Len(s) -> Seq(D)] : ItemByItem(f, n, s, S)}
<1>1. 0 \in T
    <2>1. [k \in 0..Len(s) |-> <<>>] \in [0..Len(s) -> Seq(D)]
        OBVIOUS
    <2>2. ItemByItem([k \in 0..Len(s) |-> <<>>], 0, s, S)
        BY DEF ItemByItem
    <2> QED BY <2>1, <2>2
<1>2. ASSUME NEW n \in Nat, n \in T PROVE n + 1 \in T
    <2> SUFFICES ASSUME n + 1 <= Len(s)
                 PROVE  \E f \in [0..Len(s) -> Seq(D)] : ItemByItem(f, n + 1, s, S)
        OBVIOUS
    <2>1. PICK f \in [0..Len(s) -> Seq(D)] : ItemByItem(f, n, s, S)
        BY <1>2
    <2> DEFINE item == s[n + 1]
               more == IF item \in S THEN Append(f[n], item) ELSE f[n]
               g == [k \in 0..Len(s) |-> IF k = n + 1 THEN more ELSE f[k]]
    <2>2. more \in Seq(D)
        BY s[n + 1] \in D, f[n] \in Seq(D)
    <2>3. g \in [0..Len(s) -> Seq(D)]
        BY <2>2
    <2>4. ItemByItem(g, n + 1, s, S)
        <3>1. g[0] = <<>>
            BY <2>1 DEF ItemByItem
        <3>2. ASSUME NEW k \in 1..n PROVE g[k] = f[k] /\ g[k - 1] = f[k - 1]
            BY <3>2
        <3>3. g[n + 1] = more /\ g[n] = f[n] /\ (n + 1) - 1 = n
            OBVIOUS
        <3>4. /\ item \in S => g[n + 1] = Append(g[n], item)
              /\ item \notin S => g[n + 1] = g[n]
            BY <3>3
        <3>5. \A k \in 1..(n + 1) : k \in 1..n \/ k = n + 1
            OBVIOUS
        <3> HIDE DEF g
        <3> QED BY <2>1, <3>1, <3>2, <3>3, <3>4, <3>5 DEF ItemByItem
    <2> QED BY <2>3, <2>4
<1>3. Len(s) \in T
    <2> HIDE DEF T
    <2> QED BY <1>1, <1>2, EveryNatural
<1>4. PICK f \in [0..Len(s) -> Seq(D)] : ItemByItem(f, Len(s), s, S)
    BY <1>3
<1> DEFINE next(h) == [k \in 0..Len(s) |-> IF k = 0 THEN <<>>
                          ELSE IF s[k] \in S THEN Append(h[k - 1], s[k]) ELSE h[k - 1]]
           upTo == CHOOSE h : h = next(h)
<1>5. f = next(f)
    BY <1>4 DEF ItemByItem
<1>6. upTo = next(upTo)
    <2> HIDE DEF next
    <2> QED BY <1>5
<1>7. Only(s, S) = upTo[Len(s)]
    BY DEF Only
<1> HIDE DEF upTo
<1>11. ItemByItem(upTo, Len(s), s, S)
    <2>1. upTo[0] = <<>>
        BY <1>6
    <2>2. ASSUME NEW k \in 1..Len(s)
          PROVE  upTo[k] = IF s[k] \in S THEN Append(upTo[k - 1], s[k]) ELSE upTo[k - 1]
        <3>1. k \in 0..Len(s) /\ k /= 0
            OBVIOUS
        <3> QED BY <1>6, <3>1
    <2> QED BY <2>1, <2>2 DEF ItemByItem
<1> DEFINE U == {n \in Nat : n <= Len(s) => upTo[n] = f[n]}
<1>8. 0 \in U
    BY <1>4, <1>11 DEF ItemByItem
<1>9. ASSUME NEW n \in Nat, n \in U PROVE n + 1 \in U
    <2> SUFFICES ASSUME n + 1 <= Len(s) PROVE upTo[n + 1] = f[n + 1]
        OBVIOUS
    <2>1. upTo[n] = f[n] /\ n + 1 \in 1..Len(s) /\ (n + 1) - 1 = n
        BY <1>9
    <2> QED BY <1>4, <1>11, <2>1 DEF ItemByItem
<1>10. Len(s) \in U
    <2> HIDE DEF U
    <2> QED BY <1>8, <1>9, EveryNatural
<1> QED BY <1>4, <1>7, <1>10

\* The items of a sequence; whether it has none twice.
ItemsOf(q) == {q[k] : k \in 1..Len(q)}
NoneTwice(q) == \A j, k \in 1..Len(q) : j /= k => q[j] /= q[k]

\* One item more.
LEMMA OneItemMore ==
    ASSUME NEW D, NEW q \in Seq(D), NEW x \in D
    PROVE  /\ ItemsOf(Append(q, x)) = ItemsOf(q) \union {x}
           /\ NoneTwice(q) /\ x \notin ItemsOf(q) => NoneTwice(Append(q, x))
<1> DEFINE more == Append(q, x)
<1>1. /\ Len(more) = Len(q) + 1 /\ Len(q) \in Nat /\ more[Len(q) + 1] = x
      /\ \A k \in 1..Len(q) : more[k] = q[k]
    OBVIOUS
<1> HIDE DEF more
<1>2. ItemsOf(more) = ItemsOf(q) \union {x}
    <2>1. \A k : k \in 1..Len(more) <=> k \in 1..Len(q) \/ k = Len(q) + 1
        BY <1>1
    <2> QED BY <1>1, <2>1 DEF ItemsOf
<1>3. ASSUME NoneTwice(q), x \notin ItemsOf(q) PROVE NoneTwice(more)
    BY <1>1, <1>3 DEF NoneTwice, ItemsOf
<1> QED BY <1>2, <1>3 DEF more

\* What is left are the items of the set, and none twice if none was there twice.
LEMMA OnlyLeaves ==
    ASSUME NEW D, NEW s \in Seq(D), NEW S
    PROVE  /\ Only(s, S) \in Seq(D)
           /\ ItemsOf(Only(s, S)) = ItemsOf(s) \intersect S
           /\ NoneTwice(s) => NoneTwice(Only(s, S))
<1>1. PICK f \in [0..Len(s) -> Seq(D)] : ItemByItem(f, Len(s), s, S) /\ Only(s, S) = f[Len(s)]
    BY OnlyItemByItem
<1> DEFINE first(n) == {s[j] : j \in 1..n}
           T == {n \in Nat : n <= Len(s) =>
                                /\ ItemsOf(f[n]) = first(n) \intersect S
                                /\ NoneTwice(s) => NoneTwice(f[n])}
<1>2. 0 \in T
    BY <1>1 DEF ItemByItem, ItemsOf, NoneTwice
<1>3. ASSUME NEW n \in Nat, n \in T PROVE n + 1 \in T
    <2> SUFFICES ASSUME n + 1 <= Len(s)
                 PROVE  /\ ItemsOf(f[n + 1]) = first(n + 1) \intersect S
                        /\ NoneTwice(s) => NoneTwice(f[n + 1])
        OBVIOUS
    <2>1. ItemsOf(f[n]) = first(n) \intersect S /\ (NoneTwice(s) => NoneTwice(f[n]))
        BY <1>3
    <2>2. f[n] \in Seq(D) /\ s[n + 1] \in D
        OBVIOUS
    <2>3. first(n + 1) = first(n) \union {s[n + 1]}
        <3>1. \A j : j \in 1..(n + 1) <=> j \in 1..n \/ j = n + 1
            OBVIOUS
        <3> QED BY <3>1
    <2>4. NoneTwice(s) => s[n + 1] \notin first(n)
        <3>1. n + 1 \in 1..Len(s) /\ \A j \in 1..n : j \in 1..Len(s) /\ j /= n + 1
            OBVIOUS
        <3> QED BY <3>1 DEF NoneTwice
    <2> HIDE DEF first
    <2>5. CASE s[n + 1] \in S
        <3>1. f[n + 1] = Append(f[n], s[n + 1])
            BY <1>1, <2>5 DEF ItemByItem
        <3> QED BY <2>1, <2>2, <2>3, <2>4, <2>5, <3>1, OneItemMore
    <2>6. CASE s[n + 1] \notin S
        <3>1. f[n + 1] = f[n]
            BY <1>1, <2>6 DEF ItemByItem
        <3> QED BY <2>1, <2>3, <2>6, <3>1
    <2> QED BY <2>5, <2>6
<1>4. Len(s) \in T
    <2> HIDE DEF T
    <2> QED BY <1>2, <1>3, EveryNatural
<1> QED BY <1>1, <1>4 DEF ItemsOf

\* The places of the items that are left, in their order: item n of q is item e[n] of s, and every
\* item of s up to k that is in S has its place in q.
Picks(e, q, s, S, k) ==
    /\ e \in [1..Len(q) -> 1..k]
    /\ \A n \in 1..Len(q) : q[n] = s[e[n]] /\ s[e[n]] \in S
    /\ \A m, n \in 1..Len(q) : m < n => e[m] < e[n]
    /\ \A j \in 1..k : s[j] \in S => \E n \in 1..Len(q) : e[n] = j

\* What is left is left in its order.
LEMMA OnlyInOrder ==
    ASSUME NEW D, NEW s \in Seq(D), NEW S
    PROVE  /\ Only(s, S) \in Seq(D)
           /\ \E e : Picks(e, Only(s, S), s, S, Len(s))
<1>1. PICK f \in [0..Len(s) -> Seq(D)] : ItemByItem(f, Len(s), s, S) /\ Only(s, S) = f[Len(s)]
    BY OnlyItemByItem
<1> DEFINE T == {n \in Nat : n <= Len(s) => \E e : Picks(e, f[n], s, S, n)}
<1>2. 0 \in T
    <2>1. f[0] = <<>>
        BY <1>1 DEF ItemByItem
    <2>2. Picks([n \in 1..0 |-> n], <<>>, s, S, 0)
        BY DEF Picks
    <2> QED BY <2>1, <2>2
<1>3. ASSUME NEW n \in Nat, n \in T PROVE n + 1 \in T
    <2> SUFFICES ASSUME n + 1 <= Len(s) PROVE \E e : Picks(e, f[n + 1], s, S, n + 1)
        OBVIOUS
    <2>1. PICK e : Picks(e, f[n], s, S, n)
        BY <1>3
    <2>2. f[n] \in Seq(D) /\ s[n + 1] \in D /\ Len(s) \in Nat
        OBVIOUS
    <2>3. CASE s[n + 1] \notin S
        <3>1. f[n + 1] = f[n]
            BY <1>1, <2>3 DEF ItemByItem
        <3>2. \A j \in 1..(n + 1) : j \in 1..n \/ j = n + 1
            OBVIOUS
        <3>3. e \in [1..Len(f[n]) -> 1..(n + 1)]
            <4>1. 1..n \subseteq 1..(n + 1)
                OBVIOUS
            <4> QED BY <2>1, <4>1 DEF Picks
        <3>4. Picks(e, f[n], s, S, n + 1)
            BY <2>1, <2>3, <3>2, <3>3 DEF Picks
        <3> QED BY <3>1, <3>4
    <2>4. CASE s[n + 1] \in S
        <3> DEFINE q == f[n]
                   r == Append(q, s[n + 1])
                   d == [m \in 1..Len(r) |-> IF m = Len(r) THEN n + 1 ELSE e[m]]
        <3>1. f[n + 1] = r
            BY <1>1, <2>4 DEF ItemByItem
        <3>2. /\ Len(q) \in Nat /\ Len(r) = Len(q) + 1 /\ r[Len(r)] = s[n + 1]
              /\ \A m \in 1..Len(q) : r[m] = q[m]
            BY <2>2
        <3> HIDE DEF r, q
        <3>3. /\ \A m \in 1..Len(r) : m = Len(r) \/ (m \in 1..Len(q) /\ m /= Len(r))
              /\ \A m \in 1..Len(q) : m \in 1..Len(r) /\ m /= Len(r)
              /\ Len(r) \in 1..Len(r)
            BY <3>2
        <3>4. /\ d[Len(r)] = n + 1
              /\ \A m \in 1..Len(q) : d[m] = e[m] /\ e[m] \in 1..n
            BY <2>1, <3>3 DEF Picks, q
        <3>5. d \in [1..Len(r) -> 1..(n + 1)]
            <4>1. \A m \in 1..Len(r) : d[m] \in 1..(n + 1)
                <5>1. n + 1 \in 1..(n + 1) /\ 1..n \subseteq 1..(n + 1)
                    OBVIOUS
                <5> HIDE DEF d
                <5> QED BY <3>3, <3>4, <5>1
            <4> QED BY <4>1
        <3> HIDE DEF d
        <3>6. \A m \in 1..Len(r) : r[m] = s[d[m]] /\ s[d[m]] \in S
            BY <2>1, <2>4, <3>2, <3>3, <3>4 DEF Picks, q
        <3>7. ASSUME NEW m \in 1..Len(r), NEW k \in 1..Len(r), m < k PROVE d[m] < d[k]
            <4>1. m \in 1..Len(q)
                BY <3>2, <3>7
            <4>2. CASE k = Len(r)
                BY <3>4, <4>1, <4>2
            <4>3. CASE k \in 1..Len(q)
                BY <2>1, <3>4, <3>7, <4>1, <4>3 DEF Picks, q
            <4> QED BY <3>3, <4>2, <4>3
        <3>8. ASSUME NEW j \in 1..(n + 1), s[j] \in S PROVE \E m \in 1..Len(r) : d[m] = j
            <4>1. CASE j = n + 1
                BY <3>3, <3>4, <4>1
            <4>2. CASE j \in 1..n
                BY <2>1, <3>3, <3>4, <3>8, <4>2 DEF Picks, q
            <4> QED BY <4>1, <4>2
        <3>9. Picks(d, r, s, S, n + 1)
            BY <3>5, <3>6, <3>7, <3>8 DEF Picks
        <3> QED BY <3>1, <3>9
    <2> QED BY <2>3, <2>4
<1>4. Len(s) \in T
    <2> HIDE DEF T
    <2> QED BY <1>2, <1>3, EveryNatural
<1>5. f[Len(s)] \in Seq(D)
    OBVIOUS
<1> QED BY <1>1, <1>4, <1>5

\* A sequence that has none twice is as long as it has items.
LEMMA AsLongAsItems ==
    ASSUME NEW D, NEW q \in Seq(D), NoneTwice(q)
    PROVE  IsFiniteSet(ItemsOf(q)) /\ Cardinality(ItemsOf(q)) = Len(q)
<1> DEFINE f == [k \in 1..Len(q) |-> q[k]]
<1>1. f \in Bijection(1..Len(q), ItemsOf(q))
    BY Zenon DEF ItemsOf, NoneTwice, Bijection, Injection, Surjection, IsInjective
<1>2. IsFiniteSet(1..Len(q)) /\ Cardinality(1..Len(q)) = Len(q)
    BY FS_Interval, Len(q) \in Nat, Len(q) \in Int, 1 \in Int
<1>3. ExistsBijection(1..Len(q), ItemsOf(q))
    <2> HIDE DEF f
    <2> QED BY <1>1, Zenon DEF ExistsBijection
<1> QED BY <1>2, <1>3, FS_Bijection

\* The items of two sequences in a row.
LEMMA InARow ==
    ASSUME NEW D, NEW p \in Seq(D), NEW q \in Seq(D)
    PROVE  /\ ItemsOf(p \o q) = ItemsOf(p) \union ItemsOf(q)
           /\ NoneTwice(p) /\ NoneTwice(q) /\ ItemsOf(p) \intersect ItemsOf(q) = {}
                  => NoneTwice(p \o q)
<1> DEFINE row == p \o q
<1>1. /\ Len(row) = Len(p) + Len(q) /\ Len(p) \in Nat /\ Len(q) \in Nat
      /\ \A k \in 1..Len(p) : row[k] = p[k]
      /\ \A k \in 1..Len(q) : row[Len(p) + k] = q[k]
    OBVIOUS
<1> HIDE DEF row
<1>2. \A k \in 1..Len(row) : k \in 1..Len(p) \/ (k - Len(p) \in 1..Len(q) /\ row[k] = q[k - Len(p)])
    <2> TAKE k \in 1..Len(row)
    <2>1. k \notin 1..Len(p) => k - Len(p) \in 1..Len(q) /\ Len(p) + (k - Len(p)) = k
        BY <1>1
    <2> QED BY <1>1, <2>1
<1>3. ItemsOf(row) \subseteq ItemsOf(p) \union ItemsOf(q)
    BY <1>1, <1>2 DEF ItemsOf
<1>4. ItemsOf(p) \subseteq ItemsOf(row)
    BY <1>1 DEF ItemsOf
<1>5. ItemsOf(q) \subseteq ItemsOf(row)
    <2>1. \A k \in 1..Len(q) : Len(p) + k \in 1..Len(row)
        BY <1>1
    <2> QED BY <1>1, <2>1 DEF ItemsOf
<1>6. ASSUME NoneTwice(p), NoneTwice(q), ItemsOf(p) \intersect ItemsOf(q) = {}
      PROVE  NoneTwice(row)
    <2> SUFFICES ASSUME NEW j \in 1..Len(row), NEW k \in 1..Len(row), j /= k
                 PROVE  row[j] /= row[k]
        BY DEF NoneTwice
    <2>1. \A a \in 1..Len(p) : \A b \in 1..Len(q) : p[a] /= q[b]
        BY <1>6 DEF ItemsOf
    <2>2. CASE j \in 1..Len(p) /\ k \in 1..Len(p)
        BY <1>1, <1>6, <2>2 DEF NoneTwice
    <2>3. CASE j \in 1..Len(p) /\ k \notin 1..Len(p)
        BY <1>1, <1>2, <2>1, <2>3
    <2>4. CASE j \notin 1..Len(p) /\ k \in 1..Len(p)
        BY <1>1, <1>2, <2>1, <2>4
    <2>5. CASE j \notin 1..Len(p) /\ k \notin 1..Len(p)
        <3>1. j - Len(p) /= k - Len(p)
            BY <1>1
        <3> QED BY <1>2, <1>6, <2>5, <3>1 DEF NoneTwice
    <2> QED BY <2>2, <2>3, <2>4, <2>5
<1> QED BY <1>3, <1>4, <1>5, <1>6 DEF row

\* Taking the first item, or the last.
LEMMA WithoutFirst ==
    ASSUME NEW D, NEW q \in Seq(D), q /= <<>>, NoneTwice(q)
    PROVE  /\ Head(q) \in ItemsOf(q)
           /\ Tail(q) \in Seq(D) /\ NoneTwice(Tail(q))
           /\ ItemsOf(Tail(q)) = ItemsOf(q) \ {Head(q)}
<1> DEFINE rest == Tail(q)
<1>1. /\ Len(q) \in Nat \ {0} /\ Len(rest) = Len(q) - 1 /\ rest \in Seq(D) /\ Head(q) = q[1]
      /\ \A k \in 1..Len(rest) : rest[k] = q[k + 1]
    OBVIOUS
<1> HIDE DEF rest
<1>2. NoneTwice(rest)
    <2>1. \A k \in 1..Len(rest) : k + 1 \in 1..Len(q)
        BY <1>1
    <2>2. \A j, k \in 1..Len(rest) : j /= k => j + 1 /= k + 1
        OBVIOUS
    <2> QED BY <1>1, <2>1, <2>2 DEF NoneTwice
<1>3. ItemsOf(rest) \subseteq ItemsOf(q) \ {Head(q)}
    <2>1. \A k \in 1..Len(rest) : k + 1 \in 1..Len(q) /\ 1 \in 1..Len(q) /\ k + 1 /= 1
        BY <1>1
    <2> QED BY <1>1, <2>1 DEF NoneTwice, ItemsOf
<1>4. ItemsOf(q) \ {Head(q)} \subseteq ItemsOf(rest)
    <2>1. \A k \in 1..Len(q) : k /= 1 => k - 1 \in 1..Len(rest) /\ rest[k - 1] = q[k]
        <3> SUFFICES ASSUME NEW k \in 1..Len(q), k /= 1
                     PROVE  k - 1 \in 1..Len(rest) /\ rest[k - 1] = q[k]
            OBVIOUS
        <3>1. k - 1 \in 1..Len(rest) /\ (k - 1) + 1 = k
            BY <1>1
        <3> QED BY <1>1, <3>1
    <2>2. ASSUME NEW x \in ItemsOf(q), x /= Head(q) PROVE x \in ItemsOf(rest)
        <3>1. PICK k \in 1..Len(q) : x = q[k]
            BY DEF ItemsOf
        <3>2. k /= 1
            BY <1>1, <2>2, <3>1
        <3> QED BY <2>1, <3>1, <3>2 DEF ItemsOf
    <2> QED BY <2>2
<1>5. Head(q) \in ItemsOf(q)
    BY <1>1, 1 \in 1..Len(q) DEF ItemsOf
<1> QED BY <1>1, <1>2, <1>3, <1>4, <1>5 DEF rest

\* A sequence of different items has one fewer without its last, which is then not among them.
LEMMA WithoutLast ==
    ASSUME NEW D, NEW q \in Seq(D), q /= <<>>, NoneTwice(q)
    PROVE  LET rest == SubSeq(q, 1, Len(q) - 1)
           IN  /\ q[Len(q)] \in ItemsOf(q)
               /\ rest \in Seq(D) /\ NoneTwice(rest) /\ Len(rest) = Len(q) - 1
               /\ ItemsOf(rest) = ItemsOf(q) \ {q[Len(q)]}
<1> DEFINE rest == SubSeq(q, 1, Len(q) - 1)
<1>1. /\ Len(q) \in Nat \ {0} /\ Len(rest) = Len(q) - 1 /\ rest \in Seq(D)
      /\ \A k \in 1..Len(rest) : rest[k] = q[k]
    <2>1. Len(q) \in Nat \ {0} /\ Len(q) - 1 \in Nat /\ 1..(Len(q) - 1) \subseteq 1..Len(q)
        OBVIOUS
    <2>2. rest \in Seq(D) /\ Len(rest) = IF 1 <= Len(q) - 1 THEN Len(q) - 1 - 1 + 1 ELSE 0
        BY <2>1, SubSeqProperties
    <2>3. \A k \in 1..(Len(q) - 1 - 1 + 1) : rest[k] = q[1 + k - 1]
        BY <2>1, SubSeqProperties
    <2> HIDE DEF rest
    <2>4. Len(rest) = Len(q) - 1
        <3>1. \A n \in Nat \ {0} : n - 1 = IF 1 <= n - 1 THEN n - 1 - 1 + 1 ELSE 0
            OBVIOUS
        <3> QED BY <2>1, <2>2, <3>1
    <2>5. ASSUME NEW k \in 1..Len(rest) PROVE rest[k] = q[k]
        <3>1. k \in 1..(Len(q) - 1 - 1 + 1) /\ 1 + k - 1 = k
            BY <2>1, <2>4
        <3>2. rest[k] = q[1 + k - 1]
            BY <2>3, <3>1
        <3> QED BY <3>1, <3>2
    <2> QED BY <2>1, <2>2, <2>4, <2>5
<1> HIDE DEF rest
<1>2. \A k : k \in 1..Len(q) <=> k \in 1..Len(rest) \/ k = Len(q)
    BY <1>1
<1>3. NoneTwice(rest)
    BY <1>1, <1>2 DEF NoneTwice
<1>4. ItemsOf(rest) \subseteq ItemsOf(q) \ {q[Len(q)]}
    <2>1. \A k \in 1..Len(rest) : k /= Len(q)
        BY <1>1
    <2> QED BY <1>1, <1>2, <2>1 DEF NoneTwice, ItemsOf
<1>5. ItemsOf(q) \ {q[Len(q)]} \subseteq ItemsOf(rest)
    BY <1>1, <1>2 DEF ItemsOf
<1>6. q[Len(q)] \in ItemsOf(q)
    BY <1>1, <1>2 DEF ItemsOf
<1> QED BY <1>1, <1>3, <1>4, <1>5, <1>6 DEF rest

-----------------------------------------------------------------------------
(* Pixels, row by row from 0. *)

\* There are W * H pixels, at least one.
LEMMA PixelCount == W * H \in Nat \ {0} /\ IsFiniteSet(Pixels) /\ Cardinality(Pixels) = W * H
<1>1. W * H \in Nat \ {0}
    BY PipelineAssumption
<1>2. IsFiniteSet(0..(W * H - 1)) /\ Cardinality(0..(W * H - 1)) = W * H
    BY <1>1, FS_Interval
<1> QED BY <1>1, <1>2 DEF Pixels

\* A pixel's name is its place in the array.
LEMMA PixelsAreNumbers == \A i \in Pixels : i \in Nat
BY PixelCount DEF Pixels

\* A set that has each pixel if it has those before it has all of them.
LEMMA PixelByPixel ==
    ASSUME NEW T, \A j \in Pixels : (\A k \in Pixels : k < j => k \in T) => j \in T
    PROVE  Pixels \subseteq T
<1> DEFINE rest == Pixels \ T
<1> SUFFICES ASSUME rest /= {} PROVE FALSE
    OBVIOUS
<1>1. PICK j \in rest : \A k \in rest : j <= k
    BY LeastNatural, PixelsAreNumbers
<1>2. \A k \in Pixels : k < j => k \notin rest
    BY <1>1, PixelsAreNumbers
<1> QED BY <1>1, <1>2

\* A pixel's place: its row and its column say which it is.
LEMMA PlaceOfPixel ==
    ASSUME NEW i \in Pixels
    PROVE  X(i) \in 0..(W - 1) /\ Y(i) \in 0..(H - 1) /\ i = W * Y(i) + X(i)
<1>1. i \in Nat /\ W \in Nat \ {0} /\ H \in Nat \ {0} /\ i < W * H
    BY PixelsAreNumbers, PipelineAssumption, PixelCount DEF Pixels
<1>2. X(i) \in 0..(W - 1) /\ Y(i) \in Nat /\ i = W * Y(i) + X(i)
    BY <1>1 DEF X, Y
<1>3. W * Y(i) < W * H
    BY <1>1, <1>2
<1>4. Y(i) < H
    <2> SUFFICES ASSUME Y(i) >= H PROVE FALSE
        BY <1>1, <1>2
    <2> QED BY <1>1, <1>2, <1>3
<1> QED BY <1>1, <1>2, <1>4

\* A pixel's column and row are those its name was made of.
LEMMA PixelOfPlace ==
    ASSUME NEW x \in 0..(W - 1), NEW y \in 0..(H - 1)
    PROVE  W * y + x \in Pixels /\ X(W * y + x) = x /\ Y(W * y + x) = y
<1>1. W \in Nat \ {0} /\ H \in Nat \ {0}
    BY PipelineAssumption
<1>2. W * y <= W * (H - 1) /\ W * (H - 1) = W * H - W /\ W * y \in Nat
    BY <1>1
<1>3. W * y + x \in Pixels
    BY <1>1, <1>2, PixelCount DEF Pixels
<1>4. X(W * y + x) = x /\ Y(W * y + x) = y
    BY <1>1, <1>2 DEF X, Y
<1> QED BY <1>3, <1>4

\* The pixels to the right and below, where there are any.
LEMMA NextPixels ==
    ASSUME NEW i \in Pixels
    PROVE  /\ X(i) + 1 < W => i + 1 \in Pixels /\ Y(i + 1) = Y(i)
           /\ i + 1 \in Pixels /\ Y(i + 1) = Y(i) => X(i) + 1 < W
           /\ Y(i) + 1 < H <=> i + W \in Pixels
<1>1. /\ X(i) \in 0..(W - 1) /\ Y(i) \in 0..(H - 1) /\ i = W * Y(i) + X(i)
      /\ W \in Nat \ {0} /\ H \in Nat \ {0} /\ W * Y(i) \in Nat
    BY PlaceOfPixel, PipelineAssumption
<1>2. ASSUME X(i) + 1 < W PROVE i + 1 \in Pixels /\ Y(i + 1) = Y(i)
    <2>1. X(i) + 1 \in 0..(W - 1)
        BY <1>1, <1>2
    <2>2. W * Y(i) + (X(i) + 1) = i + 1
        BY <1>1
    <2> QED BY <1>1, <2>1, <2>2, PixelOfPlace
<1>3. ASSUME i + 1 \in Pixels, Y(i + 1) = Y(i) PROVE X(i) + 1 < W
    <2>1. i + 1 = W * Y(i) + X(i + 1) /\ X(i + 1) \in 0..(W - 1)
        BY <1>3, PlaceOfPixel
    <2> QED BY <1>1, <2>1
<1>4. ASSUME Y(i) + 1 < H PROVE i + W \in Pixels
    <2>1. Y(i) + 1 \in 0..(H - 1)
        BY <1>1, <1>4
    <2>2. W * (Y(i) + 1) + X(i) = i + W
        BY <1>1
    <2> QED BY <1>1, <2>1, <2>2, PixelOfPlace
<1>5. ASSUME i + W \in Pixels PROVE Y(i) + 1 < H
    <2>1. W * (Y(i) + 1) + X(i) < W * H
        <3>1. i + W < W * H
            BY <1>5, PixelCount DEF Pixels
        <3>2. W * (Y(i) + 1) = W * Y(i) + W
            BY <1>1
        <3> QED BY <1>1, <3>1, <3>2
    <2> SUFFICES ASSUME Y(i) + 1 >= H PROVE FALSE
        BY <1>1
    <2>2. W * (Y(i) + 1) >= W * H
        BY <1>1
    <2> QED BY <1>1, <2>1, <2>2
<1> QED BY <1>2, <1>3, <1>4, <1>5

-----------------------------------------------------------------------------
(* Union-find: parents before their children, roots, and what halving and joining do to them.    *)

Forest(parent) == parent \in [Pixels -> Pixels] /\ \A i \in Pixels : parent[i] <= i

\* Where no parent comes after its pixel, following parents ends: Root is what find() computes.
LEMMA RootWorks ==
    ASSUME NEW parent, Forest(parent), NEW i \in Pixels
    PROVE  Root(parent, i) = IF parent[i] = i THEN i ELSE Root(parent, parent[i])
<1> DEFINE Ends(root, n) ==
        \A a \in Pixels : a < n => root[a] = IF parent[a] = a THEN a ELSE root[parent[a]]
    T == {n \in Nat : \E root \in [Pixels -> Pixels] : Ends(root, n)}
<1>1. 0 \in T
    BY DEF Forest, Pixels
<1>2. ASSUME NEW n \in Nat, n \in T PROVE n + 1 \in T
    <2>1. PICK root \in [Pixels -> Pixels] : Ends(root, n)
        BY <1>2
    <2> DEFINE more == [root EXCEPT ![n] = IF parent[n] = n THEN n ELSE root[parent[n]]]
    <2>2. more \in [Pixels -> Pixels]
        BY DEF Forest
    <2>3. Ends(more, n + 1)
        BY <2>1 DEF Forest, Pixels
    <2> HIDE DEF more, Ends
    <2> QED BY <2>2, <2>3
<1>3. W * H \in T
    <2> HIDE DEF T
    <2> QED BY <1>1, <1>2, EveryNatural, PixelCount
<1>4. PICK found \in [Pixels -> Pixels] : Ends(found, W * H)
    BY <1>3
<1>5. found = [a \in Pixels |-> IF parent[a] = a THEN a ELSE found[parent[a]]]
    BY <1>4, PixelCount DEF Pixels
<1> DEFINE root == CHOOSE f : f = [a \in Pixels |-> IF parent[a] = a THEN a ELSE f[parent[a]]]
<1>6. root = [a \in Pixels |-> IF parent[a] = a THEN a ELSE root[parent[a]]]
    BY <1>5
<1>7. \A j \in Pixels : Root(parent, j) = root[j]
    BY DEF Root
<1>8. parent[i] \in Pixels
    BY DEF Forest
<1> HIDE DEF root
<1> QED BY <1>6, <1>7, <1>8

\* A root is a pixel that is its own parent, and not after the pixels it is found from.
LEMMA RootIsRoot ==
    ASSUME NEW parent, Forest(parent), NEW i \in Pixels
    PROVE  /\ Root(parent, i) \in Pixels /\ Root(parent, i) <= i
           /\ parent[Root(parent, i)] = Root(parent, i)
<1> DEFINE T == {j \in Pixels : /\ Root(parent, j) \in Pixels /\ Root(parent, j) <= j
                                /\ parent[Root(parent, j)] = Root(parent, j)}
<1>1. ASSUME NEW j \in Pixels, \A k \in Pixels : k < j => k \in T PROVE j \in T
    <2>1. CASE parent[j] = j
        BY <2>1, RootWorks, PixelsAreNumbers
    <2>2. CASE parent[j] /= j
        <3>1. parent[j] \in Pixels /\ parent[j] < j
            BY <2>2, PixelsAreNumbers DEF Forest
        <3>2. Root(parent, j) = Root(parent, parent[j])
            BY <2>2, RootWorks
        <3>3. Root(parent, parent[j]) <= parent[j]
            BY <1>1, <3>1
        <3> QED BY <1>1, <3>1, <3>2, <3>3, PixelsAreNumbers
    <2> QED BY <2>1, <2>2
<1>2. Pixels \subseteq T
    <2> HIDE DEF T
    <2> QED BY <1>1, PixelByPixel
<1> QED BY <1>2

\* Moving pixels up by one or two keeps the order and every root.
LEMMA ShortenedRoots ==
    ASSUME NEW parent, Forest(parent), NEW short \in [Pixels -> Pixels],
           \A a \in Pixels : short[a] \in {parent[a], parent[parent[a]]}
    PROVE  Forest(short) /\ \A i \in Pixels : Root(short, i) = Root(parent, i)
<1>1. \A a \in Pixels : /\ parent[a] \in Pixels /\ parent[a] <= a
                        /\ parent[parent[a]] \in Pixels /\ parent[parent[a]] <= parent[a]
    BY DEF Forest
<1>2. \A a \in Pixels : short[a] <= a /\ (short[a] = a <=> parent[a] = a)
    BY <1>1, PixelsAreNumbers
<1>3. Forest(short)
    BY <1>2 DEF Forest
<1> DEFINE T == {j \in Pixels : Root(short, j) = Root(parent, j)}
<1>4. ASSUME NEW j \in Pixels, \A k \in Pixels : k < j => k \in T PROVE j \in T
    <2>1. CASE parent[j] = j
        BY <1>2, <1>3, <2>1, RootWorks
    <2>2. CASE parent[j] /= j
        <3>1. short[j] \in Pixels /\ short[j] < j
            BY <1>2, <2>2, PixelsAreNumbers
        <3>2. Root(short, j) = Root(short, short[j])
            BY <1>2, <1>3, <2>2, RootWorks
        <3>3. Root(short, short[j]) = Root(parent, short[j])
            BY <1>4, <3>1
        <3>4. Root(parent, short[j]) = Root(parent, parent[j])
            BY <1>1, RootWorks
        <3>5. Root(parent, j) = Root(parent, parent[j])
            BY <2>2, RootWorks
        <3> QED BY <3>2, <3>3, <3>4, <3>5
    <2> QED BY <2>1, <2>2
<1>5. Pixels \subseteq T
    <2> HIDE DEF T
    <2> QED BY <1>4, PixelByPixel
<1> QED BY <1>3, <1>5

\* find() moves pixels up, whichever they are.
LEMMA HalvedRoots ==
    ASSUME NEW parent, Forest(parent), NEW i \in Pixels
    PROVE  /\ Forest(Halved(parent, i))
           /\ \A j \in Pixels : Root(Halved(parent, i), j) = Root(parent, j)
<1>1. \E way : Halved(parent, i)
                   = [a \in Pixels |-> IF a \in way THEN parent[parent[a]] ELSE parent[a]]
    BY DEF Halved
<1>2. PICK way : Halved(parent, i)
                     = [a \in Pixels |-> IF a \in way THEN parent[parent[a]] ELSE parent[a]]
    BY <1>1
<1>3. Halved(parent, i) \in [Pixels -> Pixels]
    BY <1>2 DEF Forest
<1>4. \A a \in Pixels : Halved(parent, i)[a] \in {parent[a], parent[parent[a]]}
    BY <1>2
<1> QED BY <1>3, <1>4, ShortenedRoots

\* The second root becomes a child of the first.
Joined(parent, low, high) == [parent EXCEPT ![high] = low]

\* A root that becomes the child of a lower one hands its pixels over to it.
LEMMA JoinedRoots ==
    ASSUME NEW parent, Forest(parent), NEW low \in Pixels, NEW high \in Pixels,
           parent[low] = low, parent[high] = high, low < high
    PROVE  /\ Forest(Joined(parent, low, high))
           /\ \A i \in Pixels : Root(Joined(parent, low, high), i) =
                  IF Root(parent, i) = high THEN low ELSE Root(parent, i)
<1> SUFFICES ASSUME NEW joined, joined = [parent EXCEPT ![high] = low]
             PROVE  /\ Forest(joined)
                    /\ \A i \in Pixels : Root(joined, i) =
                           IF Root(parent, i) = high THEN low ELSE Root(parent, i)
    BY DEF Joined
<1>1. Forest(joined)
    BY PixelsAreNumbers DEF Forest
<1>2. \A a \in Pixels : /\ joined[a] \in Pixels
                        /\ a /= high => joined[a] = parent[a]
    <2>1. joined = [a \in Pixels |-> IF a = high THEN low ELSE parent[a]]
        BY DEF Forest
    <2> QED BY <1>1, <2>1 DEF Forest
<1>3. joined[high] = low /\ Root(parent, low) = low /\ Root(parent, high) = high
    BY RootWorks DEF Forest
<1>4. Root(joined, low) = low
    <2>1. joined[low] = low
        BY <1>2, PixelsAreNumbers
    <2> QED BY <1>1, <2>1, RootWorks
<1> DEFINE T == {i \in Pixels : Root(joined, i) =
                               IF Root(parent, i) = high THEN low ELSE Root(parent, i)}
<1>5. ASSUME NEW j \in Pixels, \A k \in Pixels : k < j => k \in T PROVE j \in T
    <2>1. CASE j = high
        <3>1. joined[j] /= j
            BY <1>3, <2>1, PixelsAreNumbers
        <3>2. Root(joined, j) = low
            BY <1>1, <1>3, <1>4, <2>1, <3>1, RootWorks
        <3> QED BY <1>3, <2>1, <3>2
    <2>2. CASE j /= high /\ parent[j] = j
        <3>1. joined[j] = j
            BY <1>2, <2>2
        <3>2. Root(joined, j) = j /\ Root(parent, j) = j
            BY <1>1, <2>2, <3>1, RootWorks
        <3> QED BY <2>2, <3>2
    <2>3. CASE j /= high /\ parent[j] /= j
        <3>1. parent[j] \in Pixels /\ parent[j] < j
            BY <2>3, PixelsAreNumbers DEF Forest
        <3>2. joined[j] = parent[j]
            BY <1>2, <2>3
        <3>3. Root(joined, j) = Root(joined, parent[j])
            BY <1>1, <2>3, <3>2, RootWorks
        <3>4. Root(parent, j) = Root(parent, parent[j])
            BY <2>3, RootWorks
        <3> QED BY <1>5, <3>1, <3>3, <3>4
    <2> QED BY <2>1, <2>2, <2>3
<1>6. Pixels \subseteq T
    <2> HIDE DEF T
    <2> QED BY <1>5, PixelByPixel
<1> QED BY <1>1, <1>6

\* The pixels of one root have become those of another.
HandedOver(parent, after, low, high) ==
    \A i \in Pixels : Root(after, i) = IF Root(parent, i) = high THEN low ELSE Root(parent, i)

\* unite(): the pixels of the two roots have one root afterwards, the others keep theirs.
LEMMA UnitedRoots ==
    ASSUME NEW parent, Forest(parent), NEW a \in Pixels, NEW b \in Pixels
    PROVE  /\ Forest(Unite(parent, a, b))
           /\ \E low, high \in {Root(parent, a), Root(parent, b)} :
                 /\ {Root(parent, a), Root(parent, b)} = {low, high}
                 /\ HandedOver(parent, Unite(parent, a, b), low, high)
<1> DEFINE found == Halved(Halved(parent, a), b)
           ra == Root(parent, a)
           rb == Root(parent, b)
<1>1. Forest(found) /\ \A i \in Pixels : Root(found, i) = Root(parent, i)
    BY HalvedRoots
<1>2. /\ ra \in Pixels /\ rb \in Pixels
      /\ found[ra] = ra /\ found[rb] = rb
    BY <1>1, RootIsRoot
<1> HIDE DEF found, ra, rb
<1>3. Unite(parent, a, b) = IF ra = rb THEN found
                            ELSE [found EXCEPT ![Greatest({ra, rb})] = Least({ra, rb})]
    BY DEF Unite, found, ra, rb
<1>4. CASE ra = rb
    <2>1. HandedOver(parent, Unite(parent, a, b), ra, ra)
        BY <1>1, <1>3, <1>4 DEF HandedOver
    <2> QED BY <1>1, <1>3, <1>4, <2>1 DEF ra, rb
<1>5. ASSUME NEW low \in Pixels, NEW high \in Pixels, low < high, {low, high} = {ra, rb}
      PROVE  Forest(Unite(parent, a, b)) /\ HandedOver(parent, Unite(parent, a, b), low, high)
    <2>1. Least({low, high}) = low /\ Greatest({low, high}) = high
        BY <1>5 DEF Least, Greatest, Pixels
    <2>2. Unite(parent, a, b) = [found EXCEPT ![high] = low]
        <3>1. low /= high
            BY <1>5, PixelCount DEF Pixels
        <3>2. ra /= rb
            BY <1>5, <3>1
        <3> QED BY <1>3, <1>5, <2>1, <3>2
    <2>3. found[low] = low /\ found[high] = high
        BY <1>2, <1>5
    <2>4. /\ Forest(Unite(parent, a, b))
          /\ \A i \in Pixels : Root(Unite(parent, a, b), i) =
                 IF Root(found, i) = high THEN low ELSE Root(found, i)
        <3>1. /\ Forest(Joined(found, low, high))
              /\ \A i \in Pixels : Root(Joined(found, low, high), i) =
                     IF Root(found, i) = high THEN low ELSE Root(found, i)
            BY <1>1, <1>5, <2>3, JoinedRoots
        <3> QED BY <2>2, <3>1 DEF Joined
    <2> QED BY <1>1, <2>4 DEF HandedOver
<1>6. CASE ra < rb
    BY <1>2, <1>5, <1>6 DEF ra, rb
<1>7. CASE rb < ra
    BY <1>2, <1>5, <1>7 DEF ra, rb
<1>8. ra = rb \/ ra < rb \/ rb < ra
    BY <1>2, PixelCount DEF Pixels
<1> QED BY <1>4, <1>6, <1>7, <1>8

\* What unite() does to a partition of the pixels by their roots: its two pixels have one root,
\* pixels of one root keep one, and a set that has, with a pixel, its root, and has both of the
\* two pixels or neither, still has each pixel's root with it.
Rooted(parent, C) == \A i \in Pixels : i \in C <=> Root(parent, i) \in C

\* Uniting two pixels gives them one root, parts nothing that was together, and joins nothing
\* to a set of parts that has both of them or neither.
LEMMA UnitedParts ==
    ASSUME NEW parent, Forest(parent), NEW a \in Pixels, NEW b \in Pixels
    PROVE  /\ Forest(Unite(parent, a, b))
           /\ Root(Unite(parent, a, b), a) = Root(Unite(parent, a, b), b)
           /\ \A i, j \in Pixels : Root(parent, i) = Root(parent, j) =>
                 Root(Unite(parent, a, b), i) = Root(Unite(parent, a, b), j)
           /\ \A C : Rooted(parent, C) /\ (a \in C <=> b \in C) => Rooted(Unite(parent, a, b), C)
<1> DEFINE ra == Root(parent, a)
           rb == Root(parent, b)
           after == Unite(parent, a, b)
<1>1. PICK low \in {ra, rb}, high \in {ra, rb} :
         {ra, rb} = {low, high} /\ HandedOver(parent, after, low, high)
    BY UnitedRoots
<1>2. Forest(after)
    BY UnitedRoots
<1> HIDE DEF after
<1>3. /\ Root(after, a) = low /\ Root(after, b) = low
      /\ \A i \in Pixels : Root(after, i) =
             IF Root(parent, i) = high THEN low ELSE Root(parent, i)
    BY <1>1 DEF HandedOver
<1>4. ASSUME NEW C, Rooted(parent, C), a \in C <=> b \in C PROVE Rooted(after, C)
    <2>1. low \in C <=> high \in C
        BY <1>1, <1>4 DEF Rooted
    <2> QED BY <1>3, <1>4, <2>1 DEF Rooted
<1> QED BY <1>2, <1>3, <1>4 DEF after

-----------------------------------------------------------------------------
(* The pipeline's loops. *)

\* No parent comes after its pixel, and the pixel the loops are at is one.
ParentInv == Forest(piParent) /\ piAt \in Pixels

\* The parents after the first of the two unions of a pixel.
UnitedRight(i) ==
    IF X(i) + 1 < W /\ piThr[i] /= Skip /\ piThr[i + 1] = piThr[i]
    THEN Unite(piParent, i, i + 1) ELSE piParent
UnitedBelow(right, i) ==
    IF Y(i) + 1 < H /\ piThr[i] /= Skip /\ piThr[i + W] = piThr[i]
    THEN Unite(right, i, i + W) ELSE right

\* A step of the union-find is its two unites, to the right and below.
LEMMA UnitePixelParents == UnitePixel => piParent' = UnitedBelow(UnitedRight(piAt), piAt)
BY DEF UnitePixel, UnitedRight, UnitedBelow

\* What find() leaves is a forest with the same roots.
LEMMA SoughtRoots ==
    ASSUME NEW parent, Forest(parent), NEW i, NEW seeks \in BOOLEAN, seeks => i \in Pixels
    PROVE  /\ Forest(Sought(parent, seeks, i))
           /\ \A j \in Pixels : Root(Sought(parent, seeks, i), j) = Root(parent, j)
BY HalvedRoots DEF Sought

\* Marking the edge seeks roots, and leaves every pixel its root.
LEMMA EdgeParents ==
    ASSUME EdgePixel, ParentInv
    PROVE  Forest(piParent') /\ \A j \in Pixels : Root(piParent', j) = Root(piParent, j)
<1> DEFINE i == piAt
           right == Seeks(i) /\ Big(i) /\ Other(i, i + 1)
           below == Seeks(i) /\ Big(i) /\ Other(i, i + W)
           first == Sought(piParent, Seeks(i), i)
           second == Sought(first, right, i + 1)
<1>1. i \in Pixels /\ Forest(piParent) /\ piParent' = Sought(second, below, i + W)
    BY DEF EdgePixel, ParentInv
<1>2. Seeks(i) => i + 1 \in Pixels /\ i + W \in Pixels
    <2>1. Seeks(i) => X(i) + 1 < W /\ Y(i) + 1 < H
        BY PipelineAssumption DEF Seeks
    <2> QED BY <1>1, <2>1, NextPixels
<1>3. Seeks(i) \in BOOLEAN /\ right \in BOOLEAN /\ below \in BOOLEAN
    BY DEF Seeks, Big, Other
<1>4. (right => i + 1 \in Pixels) /\ (below => i + W \in Pixels)
    BY <1>2
<1> HIDE DEF i, right, below
<1>5. Forest(first) /\ \A j \in Pixels : Root(first, j) = Root(piParent, j)
    BY <1>1, <1>3, SoughtRoots
<1> HIDE DEF first
<1>6. Forest(second) /\ \A j \in Pixels : Root(second, j) = Root(first, j)
    BY <1>3, <1>4, <1>5, SoughtRoots
<1> HIDE DEF second
<1>7. Forest(piParent') /\ \A j \in Pixels : Root(piParent', j) = Root(second, j)
    BY <1>1, <1>3, <1>4, <1>6, SoughtRoots
<1> QED BY <1>5, <1>6, <1>7

\* Uniting, counting and marking edges keep it.
LEMMA ParentStep == ParentInv /\ [PipelineNext]_pipeVars => ParentInv'
<1> SUFFICES ASSUME ParentInv, [PipelineNext]_pipeVars PROVE ParentInv'
    OBVIOUS
<1>1. 0 \in Pixels
    BY PixelCount DEF Pixels
<1>2. ASSUME UnitePixel PROVE ParentInv'
    <2>1. Forest(UnitedRight(piAt))
        BY NextPixels, UnitedParts DEF ParentInv, UnitedRight
    <2>2. Forest(UnitedBelow(UnitedRight(piAt), piAt))
        BY <2>1, NextPixels, UnitedParts DEF ParentInv, UnitedBelow
    <2>3. piAt' \in Pixels
        BY <1>1, <1>2 DEF UnitePixel, NextPixel
    <2> QED BY <1>2, <2>2, <2>3, UnitePixelParents DEF ParentInv
<1>3. ASSUME CountPixel PROVE ParentInv'
    <2>1. Forest(piParent')
        BY <1>3, HalvedRoots DEF CountPixel, ParentInv
    <2>2. piAt' \in Pixels
        BY <1>1, <1>3 DEF CountPixel, NextPixel
    <2> QED BY <2>1, <2>2 DEF ParentInv
<1>4. ASSUME EdgePixel PROVE ParentInv'
    <2>1. piAt' \in Pixels
        BY <1>1, <1>4 DEF EdgePixel, NextPixel, ParentInv
    <2> QED BY <1>4, <2>1, EdgeParents DEF ParentInv
<1>5. ASSUME UNCHANGED pipeVars PROVE ParentInv'
    BY <1>5 DEF pipeVars, ParentInv
<1> QED BY <1>2, <1>3, <1>4, <1>5 DEF PipelineNext

\* It holds at the start.
LEMMA ParentStart == PipelineInit => ParentInv
BY PixelsAreNumbers, PixelCount DEF PipelineInit, ParentInv, Forest, Pixels

\* In a picture of any size every search for a root ends: no pixel's parent comes after it,
\* however find() shortens the ways and unite() joins them (ch/02-apriltags.js).
THEOREM ParentsAreEarlier == PipelineSpec => []ParentsComeFirst
<1>1. ParentInv => ParentsComeFirst
    BY DEF ParentInv, Forest, ParentsComeFirst
<1> QED BY <1>1, ParentStart, ParentStep, PTL DEF PipelineSpec

-----------------------------------------------------------------------------
(* Blobs: the least sets of pixels closed under being alike. *)

\* A set that has, with a pixel, all pixels alike.
Closed(C) == \A i, j \in Pixels : i \in C /\ Alike(i, j) => j \in C

\* Pixels are alike both ways.
LEMMA AlikeBothWays ==
    ASSUME NEW i \in Pixels, NEW j \in Pixels
    PROVE  Alike(i, j) <=> Alike(j, i)
<1>1. i \in Nat /\ j \in Nat /\ W \in Nat
    BY PixelsAreNumbers, PipelineAssumption
<1>2. /\ j = i + 1 <=> i = j - 1
      /\ j = i - 1 <=> i = j + 1
      /\ j = i + W <=> i = j - W
      /\ j = i - W <=> i = j + W
    BY <1>1
<1> QED BY <1>2 DEF Alike

\* The pixels reached from i in a step more.
Nearer(near) == near \union {j \in Pixels : \E k \in near : Alike(k, j)}

\* Blob(i) is what is reached in as many steps as there are pixels.
LEMMA BlobReached ==
    ASSUME NEW i \in Pixels
    PROVE  \E reach \in [Nat -> SUBSET Pixels] :
               /\ reach[0] = {i} /\ \A n \in Nat : reach[n + 1] = Nearer(reach[n])
               /\ Blob(i) = reach[W * H]
<1> DEFINE sets == SUBSET Pixels
           start == {i}
           step == [near \in sets |-> Nearer(near)]
<1>1. step \in [sets -> sets] /\ start \in sets
    BY DEF Nearer
<1>2. \E g : GoesOnAs(g, sets, start, step)
    <2> HIDE DEF sets, start, step
    <2> QED BY <1>1, GoesOn
<1>3. PICK g \in [Nat -> SUBSET Pixels] :
         g[0] = {i} /\ \A n \in Nat : g[n + 1] = Nearer(g[n])
    BY <1>2 DEF GoesOnAs
<1> HIDE DEF step
<1> DEFINE Reaches(r) == r = [n \in Nat |-> IF n = 0 THEN {i} ELSE Nearer(r[n - 1])]
<1>4. Reaches(g)
    <2>1. \A n \in Nat : g[n] = IF n = 0 THEN {i} ELSE Nearer(g[n - 1])
        <3> TAKE n \in Nat
        <3>1. CASE n = 0
            BY <1>3, <3>1
        <3>2. CASE n /= 0
            <4>1. n - 1 \in Nat /\ (n - 1) + 1 = n
                BY <3>2
            <4>2. g[(n - 1) + 1] = Nearer(g[n - 1])
                BY <1>3, <4>1
            <4> QED BY <3>2, <4>1, <4>2
        <3> QED BY <3>1, <3>2
    <2> QED BY <2>1
<1>5. \E reach : Reaches(reach) /\ Blob(i) = reach[W * H]
    <2>1. Reaches(CHOOSE r : Reaches(r))
        <3> HIDE DEF Reaches
        <3> QED BY <1>4
    <2>2. Blob(i) = (CHOOSE r : Reaches(r))[W * H]
        BY DEF Blob, Nearer
    <2> HIDE DEF Reaches
    <2> QED BY <2>1, <2>2
<1>6. PICK reach : Reaches(reach) /\ Blob(i) = reach[W * H]
    BY <1>5
<1>7. reach[0] = {i} /\ \A n \in Nat : reach[n + 1] = Nearer(reach[n])
    <2>1. \A n \in Nat : reach[n] = IF n = 0 THEN {i} ELSE Nearer(reach[n - 1])
        BY <1>6
    <2>2. reach[0] = {i}
        BY <2>1
    <2>3. ASSUME NEW n \in Nat PROVE reach[n + 1] = Nearer(reach[n])
        <3>1. n + 1 \in Nat /\ n + 1 /= 0 /\ (n + 1) - 1 = n
            OBVIOUS
        <3>2. reach[n + 1] = Nearer(reach[n + 1 - 1])
            BY <2>1, <3>1
        <3> QED BY <3>1, <3>2
    <2> QED BY <2>2, <2>3
<1>8. reach \in [Nat -> SUBSET Pixels]
    <2> DEFINE T == {n \in Nat : reach[n] \in SUBSET Pixels}
    <2>1. 0 \in T
        BY <1>7
    <2>2. ASSUME NEW n \in Nat, n \in T PROVE n + 1 \in T
        BY <1>7, <2>2 DEF Nearer
    <2>3. \A n \in Nat : n \in T
        <3> HIDE DEF T
        <3> QED BY <2>1, <2>2, EveryNatural
    <2>4. reach = [n \in Nat |-> reach[n]]
        BY <1>6
    <2> QED BY <2>3, <2>4
<1> QED BY <1>6, <1>7, <1>8

\* It has its pixel, is closed, and is inside every closed set of pixels with that pixel.
LEMMA BlobIsLeast ==
    ASSUME NEW i \in Pixels
    PROVE  /\ i \in Blob(i) /\ Blob(i) \subseteq Pixels /\ Closed(Blob(i))
           /\ \A C : Closed(C) /\ i \in C => Blob(i) \subseteq C
<1>1. PICK reach \in [Nat -> SUBSET Pixels] :
         /\ reach[0] = {i} /\ \A n \in Nat : reach[n + 1] = Nearer(reach[n])
         /\ Blob(i) = reach[W * H]
    BY BlobReached
<1>2. W * H \in Nat
    BY PixelCount
<1>3. \A n \in Nat : i \in reach[n]
    <2> DEFINE T == {n \in Nat : i \in reach[n]}
    <2>1. 0 \in T
        BY <1>1
    <2>2. ASSUME NEW n \in Nat, n \in T PROVE n + 1 \in T
        BY <1>1, <2>2 DEF Nearer
    <2>3. \A n \in Nat : n \in T
        <3> HIDE DEF T
        <3> QED BY <2>1, <2>2, EveryNatural
    <2> QED BY <2>3
<1>4. Closed(reach[W * H])
    <2>1. \A n \in Nat : reach[n] \subseteq reach[n + 1]
        BY <1>1 DEF Nearer
    <2>2. \A n \in Nat : reach[n] = reach[n + 1] => reach[n + 1] = reach[n + 2]
        <3> TAKE n \in Nat
        <3>1. n + 1 \in Nat /\ (n + 1) + 1 = n + 2
            OBVIOUS
        <3>2. reach[n + 2] = Nearer(reach[n + 1]) /\ reach[n + 1] = Nearer(reach[n])
            BY <1>1, <3>1
        <3> QED BY <3>2
    <2>3. reach[W * H] = reach[W * H + 1]
        BY <1>2, <2>1, <2>2, PixelCount, GrowthStops
    <2> QED BY <1>1, <1>2, <2>3 DEF Closed, Nearer
<1>5. ASSUME NEW C, Closed(C), i \in C PROVE reach[W * H] \subseteq C
    <2> DEFINE T == {n \in Nat : reach[n] \subseteq C}
    <2>1. 0 \in T
        BY <1>1, <1>5
    <2>2. ASSUME NEW n \in Nat, n \in T PROVE n + 1 \in T
        BY <1>1, <1>5, <2>2 DEF Nearer, Closed
    <2>3. W * H \in T
        <3> HIDE DEF T
        <3> QED BY <1>2, <2>1, <2>2, EveryNatural
    <2> QED BY <2>3
<1> QED BY <1>1, <1>2, <1>3, <1>4, <1>5

-----------------------------------------------------------------------------
(* Union-find's partition, pixel by pixel. *)

\* A pixel has one root with those alike ahead of it, to the right and below.
Joins(parent, k) ==
    \A j \in Pixels : j \in {k + 1, k + W} /\ Alike(k, j) => Root(parent, k) = Root(parent, j)

\* No blob is joined to another, and the pixels passed are joined to those they are alike.
PartInv ==
    /\ ParentInv
    /\ piThr \in [Pixels -> {0, Skip, 255}]
    /\ piPhase \in {"unite", "count", "edge", "done"}
    /\ \A C \in SUBSET Pixels : Closed(C) => Rooted(piParent, C)
    /\ \A k \in Pixels : (piPhase = "unite" => k < piAt) => Joins(piParent, k)

\* The loops pass every pixel.
LEMMA PixelsPassed ==
    ASSUME piAt \in Pixels, NEW then, NextPixel(then)
    PROVE  /\ piAt' \in Pixels
           /\ \/ piPhase' = piPhase /\ piAt' = piAt + 1
              \/ piPhase' = then /\ \A k \in Pixels : k <= piAt
           /\ \A k \in Pixels : piAt' = piAt + 1 /\ k < piAt' => k <= piAt
<1>1. 0 \in Pixels
    BY PixelCount DEF Pixels
<1>2. CASE piAt + 1 \in Pixels
    BY <1>2, PixelsAreNumbers DEF NextPixel
<1>3. CASE piAt + 1 \notin Pixels
    <2>1. \A k \in Pixels : k <= piAt
        BY <1>3, PixelCount DEF Pixels
    <2>2. piAt' = 0 /\ piPhase' = then
        BY <1>3 DEF NextPixel
    <2> QED BY <1>1, <2>1, <2>2, PixelsAreNumbers
<1> QED BY <1>2, <1>3

\* The two unions of a pixel join it to those alike ahead, and part and join nothing else.
LEMMA PixelJoined ==
    ASSUME PartInv, NEW parent, parent = UnitedBelow(UnitedRight(piAt), piAt)
    PROVE  /\ Joins(parent, piAt)
           /\ \A i, j \in Pixels : Root(piParent, i) = Root(piParent, j) =>
                 Root(parent, i) = Root(parent, j)
           /\ \A C \in SUBSET Pixels : Closed(C) => Rooted(parent, C)
<1> DEFINE at == piAt
           right == UnitedRight(piAt)
           goesRight == X(at) + 1 < W /\ piThr[at] /= Skip /\ piThr[at + 1] = piThr[at]
           goesBelow == Y(at) + 1 < H /\ piThr[at] /= Skip /\ piThr[at + W] = piThr[at]
<1>1. at \in Pixels /\ Forest(piParent) /\ at \in Nat /\ W \in Nat \ {0}
    BY PixelsAreNumbers, PipelineAssumption DEF PartInv, ParentInv
<1>2. ASSUME goesRight PROVE at + 1 \in Pixels /\ Alike(at, at + 1) /\ right = Unite(piParent, at, at + 1)
    BY <1>1, <1>2, NextPixels DEF Alike, UnitedRight
<1>3. ASSUME goesBelow
      PROVE  at + W \in Pixels /\ Alike(at, at + W) /\ parent = Unite(right, at, at + W)
    BY <1>1, <1>3, NextPixels DEF Alike, UnitedBelow
<1>4. ~goesRight => right = piParent
    BY DEF UnitedRight
<1>5. ~goesBelow => parent = right
    BY DEF UnitedBelow
<1>6. Forest(right) /\ \A i, j \in Pixels : Root(piParent, i) = Root(piParent, j) =>
                           Root(right, i) = Root(right, j)
    <2> HIDE DEF goesRight, right
    <2> QED BY <1>1, <1>2, <1>4, UnitedParts
<1>7. Forest(parent) /\ \A i, j \in Pixels : Root(right, i) = Root(right, j) =>
                            Root(parent, i) = Root(parent, j)
    <2> HIDE DEF goesBelow, right
    <2> QED BY <1>1, <1>3, <1>5, <1>6, UnitedParts
<1>8. ASSUME NEW C \in SUBSET Pixels, Closed(C) PROVE Rooted(parent, C)
    <2>1. Rooted(piParent, C)
        BY <1>8 DEF PartInv
    <2>2. Rooted(right, C)
        <3>1. ASSUME goesRight PROVE at \in C <=> at + 1 \in C
            BY <1>1, <1>2, <1>8, <3>1, AlikeBothWays DEF Closed
        <3> HIDE DEF goesRight, right
        <3> QED BY <1>1, <1>2, <1>4, <2>1, <3>1, UnitedParts
    <2>3. ASSUME goesBelow PROVE at \in C <=> at + W \in C
        BY <1>1, <1>3, <1>8, <2>3, AlikeBothWays DEF Closed
    <2> HIDE DEF goesBelow, right
    <2> QED BY <1>1, <1>3, <1>5, <1>6, <2>2, <2>3, UnitedParts
<1>9. ASSUME NEW j \in Pixels, j \in {at + 1, at + W}, Alike(at, j)
      PROVE  Root(parent, at) = Root(parent, j)
    <2>1. (j = at + 1 /\ Y(j) = Y(at)) \/ j = at + W
        BY <1>1, <1>9 DEF Alike
    <2>2. CASE j = at + 1 /\ Y(j) = Y(at)
        <3>1. goesRight
            BY <1>1, <1>9, <2>2, NextPixels DEF Alike
        <3>2. Root(right, at) = Root(right, at + 1)
            <4> HIDE DEF goesRight, right
            <4> QED BY <1>1, <1>2, <3>1, UnitedParts
        <3> QED BY <1>1, <1>7, <1>9, <2>2, <3>2
    <2>3. CASE j = at + W
        <3>1. goesBelow
            BY <1>1, <1>9, <2>3, NextPixels DEF Alike
        <3> HIDE DEF goesBelow, right
        <3> QED BY <1>1, <1>3, <1>6, <2>3, <3>1, UnitedParts
    <2> QED BY <2>1, <2>2, <2>3
<1> QED BY <1>6, <1>7, <1>8, <1>9 DEF Joins

\* The three loops keep the partition.
LEMMA PartStep == PartInv /\ [PipelineNext]_pipeVars => PartInv'
<1> SUFFICES ASSUME PartInv, [PipelineNext]_pipeVars PROVE PartInv'
    OBVIOUS
<1>1. ParentInv'
    BY ParentStep DEF PartInv
<1>2. piThr' = piThr
    BY DEF PipelineNext, UnitePixel, CountPixel, EdgePixel, pipeVars
<1>3. (\A i, j \in Pixels : Alike(i, j)' <=> Alike(i, j)) /\ (\A C : Closed(C)' <=> Closed(C))
    BY <1>2 DEF Closed, Alike
<1>4. piAt \in Pixels /\ Forest(piParent)
    BY DEF PartInv, ParentInv
<1>5. ASSUME UnitePixel PROVE PartInv'
    <2>1. /\ Joins(piParent', piAt)
          /\ \A i, j \in Pixels : Root(piParent, i) = Root(piParent, j) =>
                Root(piParent', i) = Root(piParent', j)
          /\ \A C \in SUBSET Pixels : Closed(C) => Rooted(piParent', C)
        BY <1>5, UnitePixelParents, PixelJoined
    <2>2. \A k \in Pixels : k < piAt => Joins(piParent', k)
        <3>1. \A k \in Pixels : k < piAt => Joins(piParent, k)
            BY DEF PartInv
        <3> QED BY <2>1, <3>1 DEF Joins
    <2>3. \A k \in Pixels : k <= piAt => Joins(piParent', k)
        BY <1>4, <2>1, <2>2, PixelsAreNumbers
    <2>4. \A k \in Pixels : (piPhase' = "unite" => k < piAt') => Joins(piParent', k)
        <3>1. NextPixel("count") /\ piPhase = "unite"
            BY <1>5 DEF UnitePixel
        <3>2. CASE piPhase' = "unite" /\ piAt' = piAt + 1
            BY <1>4, <2>3, <3>1, <3>2, PixelsPassed
        <3>3. CASE piPhase' = "count" /\ \A k \in Pixels : k <= piAt
            BY <2>3, <3>3
        <3> QED BY <1>4, <3>1, <3>2, <3>3, PixelsPassed
    <2>5. piPhase' \in {"unite", "count"}
        BY <1>5 DEF UnitePixel, NextPixel
    <2>6. \A k \in Pixels : Joins(piParent, k)' <=> Joins(piParent', k)
        BY <1>3 DEF Joins
    <2> QED BY <1>1, <1>2, <1>3, <2>1, <2>4, <2>5, <2>6 DEF PartInv
<1>6. ASSUME piPhase /= "unite", piPhase' \in {"count", "edge", "done"}, NEW parent, piParent' = parent,
             \A i \in Pixels : Root(parent, i) = Root(piParent, i)
      PROVE  PartInv'
    <2>1. \A C \in SUBSET Pixels : Closed(C) => Rooted(parent, C)
        BY <1>6 DEF PartInv, Rooted
    <2>2. \A k \in Pixels : Joins(piParent, k)
        BY <1>6 DEF PartInv
    <2>3. \A k \in Pixels : Joins(piParent, k)'
        BY <1>3, <1>6, <2>2 DEF Joins
    <2> QED BY <1>1, <1>2, <1>3, <1>6, <2>1, <2>3 DEF PartInv
<1>7. ASSUME CountPixel PROVE PartInv'
    <2>1. piPhase /= "unite" /\ piPhase' \in {"count", "edge", "done"}
        BY <1>7 DEF CountPixel, NextPixel
    <2>2. \A i \in Pixels : Root(piParent', i) = Root(piParent, i)
        BY <1>4, <1>7, HalvedRoots DEF CountPixel
    <2> QED BY <1>6, <2>1, <2>2
<1>8. ASSUME EdgePixel PROVE PartInv'
    <2>1. piPhase /= "unite" /\ piPhase' \in {"count", "edge", "done"}
        BY <1>8 DEF EdgePixel, NextPixel
    <2>2. \A i \in Pixels : Root(piParent', i) = Root(piParent, i)
        BY <1>8, EdgeParents DEF PartInv
    <2> QED BY <1>6, <2>1, <2>2
<1>9. ASSUME UNCHANGED pipeVars PROVE PartInv'
    <2>1. piParent' = piParent /\ piPhase' = piPhase /\ piAt' = piAt
        BY <1>9 DEF pipeVars
    <2>2. \A k \in Pixels : Joins(piParent, k)' <=> Joins(piParent, k)
        BY <1>3, <2>1 DEF Joins
    <2> QED BY <1>1, <1>2, <1>3, <2>1, <2>2 DEF PartInv
<1> QED BY <1>5, <1>7, <1>8, <1>9 DEF PipelineNext

\* It holds at the start.
LEMMA PartStart == PipelineInit => PartInv
<1> SUFFICES ASSUME PipelineInit PROVE PartInv
    OBVIOUS
<1>1. ParentInv /\ piAt = 0 /\ piPhase = "unite"
    BY ParentStart DEF PipelineInit
<1>2. piThr \in [Pixels -> {0, Skip, 255}]
    BY DEF PipelineInit, Threshold
<1>3. \A i \in Pixels : Root(piParent, i) = i
    BY <1>1, RootWorks DEF PipelineInit, ParentInv
<1>4. \A C : Rooted(piParent, C)
    BY <1>3 DEF Rooted
<1> QED BY <1>1, <1>2, <1>4, PixelsAreNumbers DEF PartInv

-----------------------------------------------------------------------------
(* The counts at the roots, and the edge. *)

\* The pixels before one that count for a root.
CountedFor(r, before) ==
    {a \in Pixels : a < before /\ piThr[a] /= Skip /\ Root(piParent, a) = r}
Sized(before) == \A r \in Pixels : piSize[r] = Cardinality(CountedFor(r, before))

CountInv ==
    /\ piSize \in [Pixels -> Nat]
    /\ piPhase = "unite" => \A r \in Pixels : piSize[r] = 0
    /\ piPhase = "count" => Sized(piAt)
    /\ piPhase \in {"edge", "done"} => Sized(W * H)

\* A pixel that counts for a root is one more.
LEMMA OneMoreCounted ==
    ASSUME NEW r, NEW at \in Pixels
    PROVE  /\ Cardinality(CountedFor(r, at)) \in Nat
           /\ Cardinality(CountedFor(r, at + 1)) =
                  IF piThr[at] /= Skip /\ Root(piParent, at) = r
                  THEN Cardinality(CountedFor(r, at)) + 1 ELSE Cardinality(CountedFor(r, at))
<1>1. IsFiniteSet(CountedFor(r, at)) /\ Cardinality(CountedFor(r, at)) \in Nat
    <2>1. CountedFor(r, at) \in SUBSET Pixels
        BY DEF CountedFor
    <2> QED BY <2>1, PixelCount, FS_Subset, FS_CardinalityType
<1>2. \A a \in Pixels : a < at + 1 <=> a < at \/ a = at
    BY PixelsAreNumbers
<1>3. at \notin CountedFor(r, at)
    BY PixelsAreNumbers DEF CountedFor
<1>4. CASE piThr[at] /= Skip /\ Root(piParent, at) = r
    <2>1. CountedFor(r, at + 1) = CountedFor(r, at) \union {at}
        BY <1>2, <1>4 DEF CountedFor
    <2> QED BY <1>1, <1>3, <1>4, <2>1, FS_AddElement
<1>5. CASE ~(piThr[at] /= Skip /\ Root(piParent, at) = r)
    <2>1. CountedFor(r, at + 1) = CountedFor(r, at)
        BY <1>2, <1>5 DEF CountedFor
    <2> QED BY <1>1, <1>5, <2>1
<1> QED BY <1>4, <1>5

\* After the last pixel all have been passed.
LEMMA LastPixel ==
    ASSUME piAt \in Pixels, NEW then, NextPixel(then)
    PROVE  IF piAt + 1 \in Pixels THEN piAt' = piAt + 1 /\ piPhase' = piPhase
           ELSE piAt' = 0 /\ piPhase' = then /\ piAt + 1 = W * H
BY PixelCount DEF NextPixel, Pixels

\* Every step keeps it.
LEMMA CountStep == PartInv /\ CountInv /\ [PipelineNext]_pipeVars => CountInv'
<1> SUFFICES ASSUME PartInv, CountInv, [PipelineNext]_pipeVars PROVE CountInv'
    OBVIOUS
<1>1. piAt \in Pixels /\ Forest(piParent) /\ piThr' = piThr
    BY DEF PartInv, ParentInv, PipelineNext, UnitePixel, CountPixel, EdgePixel, pipeVars
<1>2. ASSUME UnitePixel PROVE CountInv'
    <2>1. piSize' = piSize /\ piPhase = "unite" /\ NextPixel("count")
        BY <1>2 DEF UnitePixel
    <2>2. piPhase' = "unite" \/ (piPhase' = "count" /\ piAt' = 0)
        BY <1>1, <2>1, LastPixel
    <2>3. ASSUME NEW r PROVE CountedFor(r, 0)' = {}
        BY PixelsAreNumbers DEF CountedFor
    <2>4. piPhase' = "count" => Sized(piAt)'
        BY <2>1, <2>2, <2>3, FS_EmptySet DEF Sized, CountInv
    <2> QED BY <2>1, <2>2, <2>4 DEF CountInv
<1>3. ASSUME CountPixel PROVE CountInv'
    <2>1. /\ piPhase = "count" /\ NextPixel("edge") /\ Sized(piAt) /\ piSize \in [Pixels -> Nat]
          /\ IF piThr[piAt] /= Skip
             THEN /\ piSize' = [piSize EXCEPT ![Root(piParent, piAt)] = @ + 1]
                  /\ piParent' = Halved(piParent, piAt)
             ELSE piSize' = piSize /\ piParent' = piParent
        BY <1>3 DEF CountPixel, CountInv
    <2>2. \A i \in Pixels : Root(piParent', i) = Root(piParent, i)
        BY <1>1, <2>1, HalvedRoots
    <2>3. \A r, before : CountedFor(r, before)' = CountedFor(r, before')
        BY <1>1, <2>2 DEF CountedFor
    <2>4. piSize' \in [Pixels -> Nat] /\ \A r \in Pixels :
             piSize'[r] = IF piThr[piAt] /= Skip /\ Root(piParent, piAt) = r
                          THEN piSize[r] + 1 ELSE piSize[r]
        BY <2>1
    <2>5. \A r \in Pixels : piSize'[r] = Cardinality(CountedFor(r, piAt + 1))
        BY <1>1, <2>1, <2>4, OneMoreCounted DEF Sized
    <2>6. CASE piAt + 1 \in Pixels
        <3>1. piAt' = piAt + 1 /\ piPhase' = "count"
            BY <1>1, <2>1, <2>6, LastPixel
        <3>2. \A r \in Pixels : CountedFor(r, piAt)' = CountedFor(r, piAt + 1)
            BY <1>1, <2>2, <3>1 DEF CountedFor
        <3> QED BY <2>4, <2>5, <3>1, <3>2 DEF CountInv, Sized
    <2>7. CASE piAt + 1 \notin Pixels
        <3>1. piPhase' = "edge" /\ piAt + 1 = W * H
            BY <1>1, <2>1, <2>7, LastPixel
        <3>2. \A r \in Pixels : CountedFor(r, W * H)' = CountedFor(r, piAt + 1)
            BY <1>1, <2>2, <3>1 DEF CountedFor
        <3> QED BY <2>4, <2>5, <3>1, <3>2 DEF CountInv, Sized
    <2> QED BY <2>6, <2>7
<1>4. ASSUME EdgePixel \/ UNCHANGED pipeVars PROVE CountInv'
    <2>1. piSize' = piSize /\ \A i \in Pixels : Root(piParent', i) = Root(piParent, i)
        BY <1>4, EdgeParents DEF EdgePixel, PartInv, pipeVars
    <2>2. \/ piPhase' = piPhase /\ piAt' = piAt
          \/ piPhase = "edge" /\ piPhase' \in {"edge", "done"}
        BY <1>4 DEF EdgePixel, NextPixel, pipeVars
    <2>3. \A r : CountedFor(r, W * H)' = CountedFor(r, W * H)
        BY <1>1, <2>1 DEF CountedFor
    <2>4. piAt' = piAt => \A r : CountedFor(r, piAt)' = CountedFor(r, piAt)
        BY <1>1, <2>1 DEF CountedFor
    <2> QED BY <2>1, <2>2, <2>3, <2>4 DEF CountInv, Sized
<1> QED BY <1>2, <1>3, <1>4 DEF PipelineNext

\* It holds at the start.
LEMMA CountStart == PipelineInit => CountInv
BY DEF PipelineInit, CountInv

\* The pixels of the edge: in a big blob, beside one of the other colour in a big one.
Beside(i) ==
    \E j \in {i - 1, i + 1, i - W, i + W} \intersect Pixels :
        {piThr[i], piThr[j]} = {0, 255} /\ Big(i) /\ Big(j)

EdgeInv ==
    /\ piPhase \in {"unite", "count"} => piEdge = {}
    /\ \A i \in piEdge : i \in Pixels /\ Beside(i)

\* Every step keeps it.
LEMMA EdgeStep == PartInv /\ EdgeInv /\ [PipelineNext]_pipeVars => EdgeInv'
<1> SUFFICES ASSUME PartInv, EdgeInv, [PipelineNext]_pipeVars PROVE EdgeInv'
    OBVIOUS
<1>1. ASSUME UnitePixel \/ CountPixel PROVE EdgeInv'
    BY <1>1 DEF UnitePixel, CountPixel, EdgeInv
<1>2. ASSUME EdgePixel \/ UNCHANGED pipeVars PROVE \A i \in Pixels : Beside(i)' <=> Beside(i)
    <2>1. /\ piSize' = piSize /\ piThr' = piThr
          /\ \A j \in Pixels : Root(piParent', j) = Root(piParent, j)
        BY <1>2, EdgeParents DEF EdgePixel, PartInv, pipeVars
    <2>2. \A j \in Pixels : Big(j)' <=> Big(j)
        BY <2>1 DEF Big
    <2> QED BY <2>1, <2>2 DEF Beside
<1>3. ASSUME EdgePixel PROVE EdgeInv'
    <2> DEFINE i == piAt
               meets == {j \in {i + 1, i + W} : Other(i, j) /\ Big(j)}
    <2>1. i \in Pixels /\ i \in Nat /\ W \in Nat /\ piThr \in [Pixels -> {0, Skip, 255}]
        BY PixelsAreNumbers, PipelineAssumption DEF PartInv, ParentInv
    <2>2. piPhase' \notin {"unite", "count"}
        BY <1>3 DEF EdgePixel, NextPixel
    <2>3. CASE piEdge' = piEdge
        BY <1>2, <1>3, <2>2, <2>3 DEF EdgeInv
    <2>4. CASE /\ Seeks(i) /\ Big(i) /\ meets /= {}
               /\ piEdge' = piEdge \union {i} \union meets
        <3>1. meets \subseteq Pixels
            <4>1. i + 1 \in Pixels /\ i + W \in Pixels
                <5>1. X(i) + 1 < W /\ Y(i) + 1 < H
                    BY <2>1, <2>4, PipelineAssumption DEF Seeks
                <5> QED BY <2>1, <5>1, NextPixels
            <4> QED BY <4>1
        <3>2. ASSUME NEW j \in meets PROVE {piThr[i], piThr[j]} = {0, 255} /\ Big(j)
            BY <2>1, <2>4, <3>1 DEF Seeks, Other
        <3>3. ASSUME NEW j \in meets PROVE Beside(j)
            <4>1. i \in {j - 1, j - W}
                BY <2>1
            <4> QED BY <2>1, <2>4, <3>2, <4>1 DEF Beside
        <3>4. Beside(i)
            <4>1. PICK j \in meets : TRUE
                BY <2>4
            <4> QED BY <2>4, <3>1, <3>2, <4>1 DEF Beside
        <3>5. \A j \in piEdge' : j \in Pixels /\ Beside(j)
            BY <2>1, <2>4, <3>1, <3>3, <3>4 DEF EdgeInv
        <3> HIDE DEF meets
        <3> QED BY <1>2, <1>3, <2>2, <3>5 DEF EdgeInv
    <2> QED BY <1>3, <2>3, <2>4 DEF EdgePixel
<1>4. ASSUME UNCHANGED pipeVars PROVE EdgeInv'
    <2>1. piPhase' = piPhase /\ piEdge' = piEdge
        BY <1>4 DEF pipeVars
    <2> QED BY <1>2, <1>4, <2>1 DEF EdgeInv
<1> QED BY <1>1, <1>3, <1>4 DEF PipelineNext

\* It holds at the start.
LEMMA EdgeStart == PipelineInit => EdgeInv
BY DEF PipelineInit, EdgeInv

-----------------------------------------------------------------------------
(* When the loops are over. *)

\* The pixels of one root.
PartOf(i) == {j \in Pixels : Root(piParent, j) = Root(piParent, i)}

\* When all pixels have been passed, the part a pixel is in is its blob.
LEMMA PartIsBlob ==
    ASSUME PartInv, piPhase /= "unite", NEW i \in Pixels
    PROVE  Blob(i) = PartOf(i)
<1>1. Closed(PartOf(i))
    <2> SUFFICES ASSUME NEW k \in Pixels, NEW j \in Pixels, k \in PartOf(i), Alike(k, j)
                 PROVE  j \in PartOf(i)
        BY DEF Closed
    <2>1. Joins(piParent, k) /\ Joins(piParent, j)
        BY DEF PartInv
    <2>2. j \in {k + 1, k + W} \/ k \in {j + 1, j + W}
        <3>1. k \in Nat /\ j \in Nat /\ W \in Nat
            BY PixelsAreNumbers, PipelineAssumption
        <3> QED BY <3>1 DEF Alike
    <2>3. Root(piParent, k) = Root(piParent, j)
        BY <2>1, <2>2, AlikeBothWays DEF Joins
    <2> QED BY <2>3 DEF PartOf
<1>2. i \in PartOf(i)
    BY DEF PartOf
<1>3. Blob(i) \subseteq PartOf(i)
    BY <1>1, <1>2, BlobIsLeast
<1>4. PartOf(i) \subseteq Blob(i)
    <2>1. Rooted(piParent, Blob(i)) /\ i \in Blob(i)
        BY BlobIsLeast DEF PartInv
    <2> QED BY <2>1 DEF Rooted, PartOf
<1> QED BY <1>3, <1>4

\* A blob is of one value, so what is counted at its root is its size.
LEMMA SizeOfBlob ==
    ASSUME PartInv, CountInv, piPhase \in {"edge", "done"}, NEW i \in Pixels, piThr[i] /= Skip
    PROVE  piSize[Root(piParent, i)] = Cardinality(Blob(i))
<1>1. Root(piParent, i) \in Pixels
    BY RootIsRoot DEF PartInv, ParentInv
<1>2. \A j \in PartOf(i) : piThr[j] = piThr[i]
    <2> DEFINE C == {j \in Pixels : piThr[j] = piThr[i]}
    <2>1. Closed(C)
        BY DEF Closed, Alike
    <2>2. Rooted(piParent, C)
        BY <2>1 DEF PartInv
    <2> QED BY <2>2 DEF Rooted, PartOf
<1>3. CountedFor(Root(piParent, i), W * H) = PartOf(i)
    <2>1. \A j \in Pixels : j < W * H
        BY PixelCount DEF Pixels
    <2> QED BY <1>2, <2>1 DEF CountedFor, PartOf
<1>4. piSize[Root(piParent, i)] = Cardinality(PartOf(i))
    BY <1>1, <1>3 DEF CountInv, Sized
<1> QED BY <1>4, PartIsBlob

\* What the invariants say when all is done is that the parts are the components, rightly
\* counted.
LEMMA BlobsFound == PartInv /\ CountInv /\ EdgeInv => BlobsAreComponents
<1> SUFFICES ASSUME PartInv, CountInv, EdgeInv, piPhase = "done",
                    NEW i \in Pixels
             PROVE  /\ piThr[i] /= Skip =>
                          /\ Blob(i) = {j \in Pixels : Root(piParent, j) = Root(piParent, i)}
                          /\ piSize[Root(piParent, i)] = Cardinality(Blob(i))
                    /\ i \in piEdge =>
                          \E j \in {i - 1, i + 1, i - W, i + W} \intersect Pixels :
                             /\ {piThr[i], piThr[j]} = {0, 255}
                             /\ Cardinality(Blob(i)) >= MinBlob
                             /\ Cardinality(Blob(j)) >= MinBlob
    <2> DEFINE blob == [j \in Pixels |-> Blob(j)]
               root == [j \in Pixels |-> Root(piParent, j)]
    <2>1. \A j \in Pixels : blob[j] = Blob(j) /\ root[j] = Root(piParent, j)
        OBVIOUS
    <2> QED BY <2>1 DEF BlobsAreComponents
<1>1. ASSUME piThr[i] /= Skip
      PROVE  /\ Blob(i) = {j \in Pixels : Root(piParent, j) = Root(piParent, i)}
             /\ piSize[Root(piParent, i)] = Cardinality(Blob(i))
    BY <1>1, PartIsBlob, SizeOfBlob DEF PartOf
<1>2. ASSUME i \in piEdge
      PROVE  \E j \in {i - 1, i + 1, i - W, i + W} \intersect Pixels :
                /\ {piThr[i], piThr[j]} = {0, 255}
                /\ Cardinality(Blob(i)) >= MinBlob
                /\ Cardinality(Blob(j)) >= MinBlob
    <2>1. PICK j \in {i - 1, i + 1, i - W, i + W} \intersect Pixels :
              {piThr[i], piThr[j]} = {0, 255} /\ Big(i) /\ Big(j)
        BY <1>2 DEF EdgeInv, Beside
    <2>2. piThr[i] /= Skip /\ piThr[j] /= Skip
        <3>1. piThr[i] \in {0, 255} /\ piThr[j] \in {0, 255}
            BY <2>1
        <3> QED BY <3>1 DEF Skip
    <2>3. /\ piSize[Root(piParent, i)] = Cardinality(Blob(i))
          /\ piSize[Root(piParent, j)] = Cardinality(Blob(j))
        BY <2>1, <2>2, SizeOfBlob
    <2> QED BY <2>1, <2>3 DEF Big
<1> QED BY <1>1, <1>2

\* Every step keeps the three of them.
LEMMA PipelineStep ==
    PartInv /\ CountInv /\ EdgeInv /\ [PipelineNext]_pipeVars => PartInv' /\ CountInv' /\ EdgeInv'
BY PartStep, CountStep, EdgeStep

\* In a picture of any size and content, union-find's parts are the connected blobs, each with
\* its size at its root, and the edge lies where two big ones of different colours meet, whatever
\* the order of the scan and however the ways are shortened (ch/02-apriltags.js).
THEOREM UnionFindFindsBlobs == PipelineSpec => []BlobsAreComponents
BY PartStart, CountStart, EdgeStart, PipelineStep, BlobsFound, PTL DEF PipelineSpec

-----------------------------------------------------------------------------
(* Blobs of eight neighbours: what the flood fill has to find. *)

\* Two pixels of one value, one of them around the other.
Adjoins(p, q) == flThr[q] = flThr[p] /\ q \in Around(p)

Closed8(C) == \A p, q \in Pixels : p \in C /\ Adjoins(p, q) => q \in C

\* Neighbours are each other's neighbours.
LEMMA TouchBothWays ==
    ASSUME NEW p \in Pixels, NEW q \in Pixels
    PROVE  (q \in Around(p) <=> p \in Around(q)) /\ (Adjoins(p, q) <=> Adjoins(q, p))
<1>1. X(p) \in Int /\ Y(p) \in Int /\ X(q) \in Int /\ Y(q) \in Int
    BY PlaceOfPixel, PipelineAssumption
<1>2. /\ X(q) - X(p) \in -1..1 <=> X(p) - X(q) \in -1..1
      /\ Y(q) - Y(p) \in -1..1 <=> Y(p) - Y(q) \in -1..1
    BY <1>1
<1>3. q \in Around(p) <=> p \in Around(q)
    BY <1>2 DEF Around
<1> QED BY <1>3 DEF Adjoins

\* The pixels reached from p in a step more.
Nearer8(p, near) ==
    near \union {q \in Pixels : flThr[q] = flThr[p] /\ \E k \in near : q \in Around(k)}

\* Blob8(p) is what is reached in as many steps as there are pixels.
LEMMA Blob8Reached ==
    ASSUME NEW p \in Pixels
    PROVE  \E reach \in [Nat -> SUBSET Pixels] :
               /\ reach[0] = {p} /\ \A n \in Nat : reach[n + 1] = Nearer8(p, reach[n])
               /\ Blob8(p) = reach[W * H]
<1> DEFINE sets == SUBSET Pixels
           start == {p}
           step == [near \in sets |-> Nearer8(p, near)]
<1>1. step \in [sets -> sets] /\ start \in sets
    BY DEF Nearer8
<1>2. \E g : GoesOnAs(g, sets, start, step)
    <2> HIDE DEF sets, start, step
    <2> QED BY <1>1, GoesOn
<1>3. PICK g \in [Nat -> SUBSET Pixels] :
         g[0] = {p} /\ \A n \in Nat : g[n + 1] = Nearer8(p, g[n])
    BY <1>2 DEF GoesOnAs
<1> HIDE DEF step
<1> DEFINE Reaches(r) == r = [n \in Nat |-> IF n = 0 THEN {p} ELSE Nearer8(p, r[n - 1])]
<1>4. Reaches(g)
    <2>1. \A n \in Nat : g[n] = IF n = 0 THEN {p} ELSE Nearer8(p, g[n - 1])
        <3> TAKE n \in Nat
        <3>1. CASE n = 0
            BY <1>3, <3>1
        <3>2. CASE n /= 0
            <4>1. n - 1 \in Nat /\ (n - 1) + 1 = n
                BY <3>2
            <4>2. g[(n - 1) + 1] = Nearer8(p, g[n - 1])
                BY <1>3, <4>1
            <4> QED BY <3>2, <4>1, <4>2
        <3> QED BY <3>1, <3>2
    <2> QED BY <2>1
<1>5. \E reach : Reaches(reach) /\ Blob8(p) = reach[W * H]
    <2>1. Reaches(CHOOSE r : Reaches(r))
        <3> HIDE DEF Reaches
        <3> QED BY <1>4
    <2>2. Blob8(p) = (CHOOSE r : Reaches(r))[W * H]
        BY DEF Blob8, Nearer8
    <2> HIDE DEF Reaches
    <2> QED BY <2>1, <2>2
<1>6. PICK reach : Reaches(reach) /\ Blob8(p) = reach[W * H]
    BY <1>5
<1>7. reach[0] = {p} /\ \A n \in Nat : reach[n + 1] = Nearer8(p, reach[n])
    <2>1. \A n \in Nat : reach[n] = IF n = 0 THEN {p} ELSE Nearer8(p, reach[n - 1])
        BY <1>6
    <2>2. reach[0] = {p}
        BY <2>1
    <2>3. ASSUME NEW n \in Nat PROVE reach[n + 1] = Nearer8(p, reach[n])
        <3>1. n + 1 \in Nat /\ n + 1 /= 0 /\ (n + 1) - 1 = n
            OBVIOUS
        <3>2. reach[n + 1] = Nearer8(p, reach[n + 1 - 1])
            BY <2>1, <3>1
        <3> QED BY <3>1, <3>2
    <2> QED BY <2>2, <2>3
<1>8. reach \in [Nat -> SUBSET Pixels]
    <2> DEFINE T == {n \in Nat : reach[n] \in SUBSET Pixels}
    <2>1. 0 \in T
        BY <1>7
    <2>2. ASSUME NEW n \in Nat, n \in T PROVE n + 1 \in T
        BY <1>7, <2>2 DEF Nearer8
    <2>3. \A n \in Nat : n \in T
        <3> HIDE DEF T
        <3> QED BY <2>1, <2>2, EveryNatural
    <2>4. reach = [n \in Nat |-> reach[n]]
        BY <1>6
    <2> QED BY <2>3, <2>4
<1> QED BY <1>6, <1>7, <1>8

\* It has its pixel, is closed, and is inside every closed set of pixels with that pixel.
LEMMA Blob8IsLeast ==
    ASSUME NEW p \in Pixels
    PROVE  /\ p \in Blob8(p) /\ Blob8(p) \subseteq Pixels /\ Closed8(Blob8(p))
           /\ \A C : Closed8(C) /\ p \in C => Blob8(p) \subseteq C
<1>1. PICK reach \in [Nat -> SUBSET Pixels] :
         /\ reach[0] = {p} /\ \A n \in Nat : reach[n + 1] = Nearer8(p, reach[n])
         /\ Blob8(p) = reach[W * H]
    BY Blob8Reached
<1>2. W * H \in Nat
    BY PixelCount
<1>3. \A n \in Nat : p \in reach[n]
    <2> DEFINE T == {n \in Nat : p \in reach[n]}
    <2>1. 0 \in T
        BY <1>1
    <2>2. ASSUME NEW n \in Nat, n \in T PROVE n + 1 \in T
        BY <1>1, <2>2 DEF Nearer8
    <2>3. \A n \in Nat : n \in T
        <3> HIDE DEF T
        <3> QED BY <2>1, <2>2, EveryNatural
    <2> QED BY <2>3
<1>6. \A n \in Nat : \A k \in reach[n] : k \in Pixels /\ flThr[k] = flThr[p]
    <2> DEFINE T == {n \in Nat : \A k \in reach[n] : k \in Pixels /\ flThr[k] = flThr[p]}
    <2>1. 0 \in T
        BY <1>1
    <2>2. ASSUME NEW n \in Nat, n \in T PROVE n + 1 \in T
        BY <1>1, <2>2 DEF Nearer8
    <2>3. \A n \in Nat : n \in T
        <3> HIDE DEF T
        <3> QED BY <2>1, <2>2, EveryNatural
    <2> QED BY <2>3
<1>4. Closed8(reach[W * H])
    <2>1. \A n \in Nat : reach[n] \subseteq reach[n + 1]
        BY <1>1 DEF Nearer8
    <2>2. \A n \in Nat : reach[n] = reach[n + 1] => reach[n + 1] = reach[n + 2]
        <3> TAKE n \in Nat
        <3>1. n + 1 \in Nat /\ (n + 1) + 1 = n + 2
            OBVIOUS
        <3>2. reach[n + 2] = Nearer8(p, reach[n + 1]) /\ reach[n + 1] = Nearer8(p, reach[n])
            BY <1>1, <3>1
        <3> QED BY <3>2
    <2>3. reach[W * H] = reach[W * H + 1]
        BY <1>2, <2>1, <2>2, PixelCount, GrowthStops
    <2>4. ASSUME NEW k \in Pixels, NEW q \in Pixels, k \in reach[W * H], Adjoins(k, q)
          PROVE  q \in reach[W * H]
        <3>1. flThr[q] = flThr[p] /\ q \in Around(k)
            BY <1>2, <1>6, <2>4 DEF Adjoins
        <3>2. q \in Nearer8(p, reach[W * H])
            BY <2>4, <3>1 DEF Nearer8
        <3> QED BY <1>1, <1>2, <2>3, <3>2
    <2> QED BY <2>4 DEF Closed8
<1>5. ASSUME NEW C, Closed8(C), p \in C PROVE reach[W * H] \subseteq C
    <2> DEFINE T == {n \in Nat : reach[n] \subseteq C}
    <2>1. 0 \in T
        BY <1>1, <1>5
    <2>2. ASSUME NEW n \in Nat, n \in T PROVE n + 1 \in T
        <3>1. ASSUME NEW k \in reach[n], NEW q \in Pixels, flThr[q] = flThr[p], q \in Around(k)
              PROVE  q \in C
            <4>1. k \in Pixels /\ k \in C /\ Adjoins(k, q)
                BY <1>6, <2>2, <3>1 DEF Adjoins
            <4> QED BY <1>5, <4>1 DEF Closed8
        <3>2. reach[n + 1] \subseteq C
            BY <1>1, <2>2, <3>1 DEF Nearer8
        <3> QED BY <3>2
    <2>3. W * H \in T
        <3> HIDE DEF T
        <3> QED BY <1>2, <2>1, <2>2, EveryNatural
    <2> QED BY <2>3
<1> QED BY <1>1, <1>2, <1>3, <1>4, <1>5

-----------------------------------------------------------------------------
(* The flood fill. *)

\* The pixels that have a name.
Named(lab, k) == {p \in Pixels : lab[p] = k}

\* A pixel with a name shares it with all it touches, unless it is still on the stack.
Spread(lab, stack) ==
    \A p, q \in Pixels : Adjoins(p, q) /\ lab[p] >= 0 => p \in ItemsOf(stack) \/ lab[q] = lab[p]

\* No name goes from one blob to another: pixels of one name are in the same closed sets.
FillKept(lab) ==
    \A C \in SUBSET Pixels : Closed8(C) =>
        \A p, q \in Pixels : lab[p] >= 0 /\ lab[q] = lab[p] => (p \in C <=> q \in C)

Filling == flStack /= <<>> \/ flCount > 0

\* The names given so far are of finished blobs, but for the next one, which is being filled.
FillInv ==
    /\ flThr \in [Pixels -> {0, Skip, 255}] /\ flLab \in [Pixels -> Int]
    /\ flSizes \in Seq(Nat) /\ flAt \in Nat /\ flCount \in Nat
    /\ flStack \in Seq(Pixels) /\ NoneTwice(flStack)
    /\ \A p \in Pixels : /\ -1 <= flLab[p] /\ flLab[p] <= Len(flSizes)
                         /\ flThr[p] = Skip => flLab[p] = -1
                         /\ p < flAt /\ flThr[p] /= Skip => flLab[p] >= 0
    /\ Filling => flAt \in Pixels /\ flLab[flAt] >= 0
    /\ ItemsOf(flStack) \subseteq Named(flLab, Len(flSizes))
    /\ Spread(flLab, flStack) /\ FillKept(flLab)
    /\ flCount + Len(flStack) = Cardinality(Named(flLab, Len(flSizes)))
    /\ \A k \in 1..Len(flSizes) : flSizes[k] = Cardinality(Named(flLab, k - 1))
    /\ flAt = W * H + 1 =>
          flPairs = {pair \in Pixels \X Pixels :
                        /\ pair[2] \in Ahead(pair[1]) /\ flThr[pair[1]] /= flThr[pair[2]]
                        /\ BigBlob(pair[1]) /\ BigBlob(pair[2])}

\* The pixels with a name are finitely many.
LEMMA NamesAreFinite ==
    ASSUME NEW lab, NEW k
    PROVE  IsFiniteSet(Named(lab, k)) /\ Cardinality(Named(lab, k)) \in Nat
<1>1. Named(lab, k) \in SUBSET Pixels
    BY DEF Named
<1> QED BY <1>1, PixelCount, FS_Subset, FS_CardinalityType

\* While no blob is filled no pixel has the next name.
LEMMA NextIsFree ==
    ASSUME FillInv, ~Filling
    PROVE  flStack = <<>> /\ flCount = 0 /\ \A p \in Pixels : flLab[p] < Len(flSizes)
<1>1. flStack = <<>> /\ flCount = 0
    BY DEF Filling, FillInv
<1>2. Cardinality(Named(flLab, Len(flSizes))) = 0
    BY <1>1 DEF FillInv
<1>3. Named(flLab, Len(flSizes)) = {}
    BY <1>2, NamesAreFinite, FS_EmptySet
<1>4. \A p \in Pixels : flLab[p] \in Int /\ flLab[p] <= Len(flSizes) /\ flLab[p] /= Len(flSizes)
    BY <1>3 DEF FillInv, Named
<1>5. Len(flSizes) \in Nat
    BY DEF FillInv
<1> QED BY <1>1, <1>4, <1>5

\* Pixels in the order the loops come to them, those of a set.
LEMMA RowsOf ==
    ASSUME NEW S, S \subseteq Pixels
    PROVE  /\ Only(RowByRow, S) \in Seq(Pixels) /\ NoneTwice(Only(RowByRow, S))
           /\ ItemsOf(Only(RowByRow, S)) = S /\ Len(Only(RowByRow, S)) = Cardinality(S)
<1>1. /\ RowByRow \in Seq(Pixels) /\ Len(RowByRow) = W * H
      /\ \A k \in 1..(W * H) : RowByRow[k] = k - 1
    BY PixelCount DEF RowByRow, Pixels
<1>2. NoneTwice(RowByRow)
    BY <1>1, PixelCount DEF NoneTwice
<1>3. ItemsOf(RowByRow) = Pixels
    <2>1. \A p \in Pixels : p + 1 \in 1..(W * H) /\ (p + 1) - 1 = p
        BY PixelCount DEF Pixels
    <2>2. \A k \in 1..(W * H) : k - 1 \in Pixels
        BY PixelCount DEF Pixels
    <2> QED BY <1>1, <2>1, <2>2 DEF ItemsOf
<1>4. /\ Only(RowByRow, S) \in Seq(Pixels) /\ NoneTwice(Only(RowByRow, S))
      /\ ItemsOf(Only(RowByRow, S)) = ItemsOf(RowByRow) \intersect S
    BY <1>1, <1>2, OnlyLeaves
<1> QED BY <1>3, <1>4, AsLongAsItems

\* The outer loop passes a pixel that has its name or gets none.
LEMMA FillPasses == FillInv /\ PassPixel => FillInv'
<1> SUFFICES ASSUME FillInv, PassPixel PROVE FillInv'
    OBVIOUS
<1>1. /\ flThr' = flThr /\ flLab' = flLab /\ flSizes' = flSizes /\ flAt' = flAt + 1 /\ flStack' = flStack
      /\ flCount' = flCount /\ flStack = <<>> /\ flCount = 0 /\ flAt \in Pixels
      /\ flLab[flAt] >= 0 \/ flThr[flAt] = Skip
    BY DEF PassPixel
<1>2. flAt' \in Nat /\ flAt' /= W * H + 1 /\ ~Filling /\ ~Filling'
    BY <1>1, PixelCount, PixelsAreNumbers DEF Filling, Pixels
<1>3. \A p \in Pixels : p < flAt' => p < flAt \/ p = flAt
    BY <1>1, PixelsAreNumbers
<1>4. \A p \in Pixels : /\ -1 <= flLab[p] /\ flLab[p] <= Len(flSizes)
                        /\ flThr[p] = Skip => flLab[p] = -1
                        /\ p < flAt' /\ flThr[p] /= Skip => flLab[p] >= 0
    BY <1>1, <1>3 DEF FillInv
<1>5. Spread(flLab, flStack)' /\ FillKept(flLab)'
    BY <1>1 DEF FillInv, Spread, FillKept, Adjoins, Closed8
<1> QED BY <1>1, <1>2, <1>4, <1>5 DEF FillInv, Named

\* A pixel without a name starts a blob of its own, with the next name.
LEMMA FillStarts == FillInv /\ StartBlob => FillInv'
<1> SUFFICES ASSUME FillInv, StartBlob PROVE FillInv'
    OBVIOUS
<1> DEFINE n == Len(flSizes)
<1>1. /\ flThr' = flThr /\ flLab' = [flLab EXCEPT ![flAt] = n] /\ flSizes' = flSizes /\ flAt' = flAt
      /\ flStack' = <<flAt>> /\ flCount' = flCount /\ flStack = <<>> /\ flCount = 0 /\ flAt \in Pixels
      /\ flLab[flAt] < 0 /\ flThr[flAt] /= Skip
    BY DEF StartBlob
<1>2. n \in Nat /\ \A p \in Pixels : flLab[p] \in Int /\ flLab[p] < n
    BY <1>1, NextIsFree DEF FillInv, Filling
<1>3. /\ flLab' \in [Pixels -> Int] /\ flLab'[flAt] = n
      /\ \A p \in Pixels : p /= flAt => flLab'[p] = flLab[p]
    BY <1>1, <1>2 DEF FillInv
<1>4. /\ flStack' \in Seq(Pixels) /\ NoneTwice(flStack') /\ ItemsOf(flStack') = {flAt}
      /\ Len(flStack') = 1
    <2>1. flStack' \in Seq(Pixels) /\ Len(flStack') = 1 /\ flStack'[1] = flAt
        BY <1>1
    <2> QED BY <2>1 DEF NoneTwice, ItemsOf
<1>5. Named(flLab', n) = {flAt}
    BY <1>1, <1>2, <1>3 DEF Named
<1>6. ASSUME NEW k \in 1..n PROVE Named(flLab', k - 1) = Named(flLab, k - 1)
    BY <1>1, <1>2, <1>3 DEF Named
<1>7. Spread(flLab', flStack')
    <2> SUFFICES ASSUME NEW p \in Pixels, NEW q \in Pixels, Adjoins(p, q), flLab'[p] >= 0, p /= flAt
                 PROVE  flLab'[q] = flLab'[p]
        BY <1>4 DEF Spread
    <2>1. flLab[p] >= 0 /\ p \notin ItemsOf(flStack)
        BY <1>1, <1>3 DEF ItemsOf
    <2>2. flLab[q] = flLab[p]
        BY <2>1 DEF FillInv, Spread
    <2>3. q /= flAt
        BY <1>1, <1>2, <2>1, <2>2
    <2> QED BY <1>3, <2>2, <2>3
<1>8. FillKept(flLab')
    <2> SUFFICES ASSUME NEW C \in SUBSET Pixels, Closed8(C), NEW p \in Pixels, NEW q \in Pixels,
                        flLab'[p] >= 0, flLab'[q] = flLab'[p]
                 PROVE  p \in C <=> q \in C
        BY DEF FillKept
    <2>1. CASE flLab'[p] = n
        BY <1>5, <2>1 DEF Named
    <2>2. CASE flLab'[p] /= n
        <3>1. p /= flAt /\ q /= flAt
            BY <1>3, <2>2
        <3>2. flLab[p] >= 0 /\ flLab[q] = flLab[p]
            BY <1>3, <3>1
        <3> QED BY <3>2 DEF FillInv, FillKept
    <2> QED BY <2>1, <2>2
<1>9. Spread(flLab, flStack)' /\ FillKept(flLab)'
    BY <1>1, <1>7, <1>8 DEF Spread, FillKept, Adjoins, Closed8
<1>10. Cardinality(Named(flLab', n)) = 1
    BY <1>5, FS_Singleton
<1>11. \A p \in Pixels : /\ -1 <= flLab'[p] /\ flLab'[p] <= n
                         /\ flThr[p] = Skip => flLab'[p] = -1
                         /\ p < flAt /\ flThr[p] /= Skip => flLab'[p] >= 0
    <2> TAKE p \in Pixels
    <2>1. CASE p = flAt
        BY <1>1, <1>2, <1>3, <2>1
    <2>2. CASE p /= flAt
        BY <1>3, <2>2 DEF FillInv
    <2> QED BY <2>1, <2>2
<1>12. flAt' /= W * H + 1
    BY <1>1, PixelCount DEF Pixels
<1>13. \A k \in 1..n : flSizes'[k] = Cardinality(Named(flLab', k - 1))
    BY <1>1, <1>6 DEF FillInv
<1>14. \A k : Named(flLab, k)' = Named(flLab', k)
    BY DEF Named
<1>15. flThr \in [Pixels -> {0, Skip, 255}] /\ flSizes \in Seq(Nat) /\ flAt \in Nat
    BY DEF FillInv
<1>16. /\ flCount' \in Nat /\ flCount' + Len(flStack') = Cardinality(Named(flLab', n))
       /\ ItemsOf(flStack') \subseteq Named(flLab', n) /\ flLab'[flAt] >= 0
    <2>1. flCount' = 0 /\ Len(flStack') = 1
        BY <1>1, <1>4
    <2>2. ItemsOf(flStack') \subseteq Named(flLab', n)
        BY <1>4, <1>5
    <2>3. flLab'[flAt] >= 0
        BY <1>2, <1>3
    <2> QED BY <1>10, <2>1, <2>2, <2>3
<1> QED BY <1>1, <1>3, <1>4, <1>9, <1>11, <1>12, <1>13, <1>14, <1>15, <1>16 DEF FillInv

\* A pixel taken from the stack gives its name to those it touches that have none; none that it
\* touches has another.
LEMMA FillSpreads == FillInv /\ FillPixel => FillInv'
<1> SUFFICES ASSUME FillInv, FillPixel PROVE FillInv'
    OBVIOUS
<1> DEFINE n == Len(flSizes)
           top == flStack[Len(flStack)]
           rest == SubSeq(flStack, 1, Len(flStack) - 1)
           fresh == {q \in Around(top) : flLab[q] < 0 /\ flThr[q] = flThr[top]}
           more == Only(RowByRow, fresh)
<1>1. /\ flThr' = flThr /\ flSizes' = flSizes /\ flAt' = flAt /\ flCount' = flCount + 1
      /\ flStack' = rest \o more /\ flStack /= <<>>
      /\ flLab' = [q \in Pixels |-> IF q \in fresh THEN n ELSE flLab[q]]
    BY DEF FillPixel
<1>2. /\ flThr \in [Pixels -> {0, Skip, 255}] /\ flLab \in [Pixels -> Int] /\ n \in Nat
      /\ flSizes \in Seq(Nat) /\ flAt \in Nat /\ flCount \in Nat
      /\ flStack \in Seq(Pixels) /\ NoneTwice(flStack)
      /\ flAt \in Pixels /\ flLab[flAt] >= 0
    BY <1>1 DEF FillInv, Filling
<1>3. /\ top \in ItemsOf(flStack) /\ rest \in Seq(Pixels) /\ NoneTwice(rest)
      /\ Len(rest) = Len(flStack) - 1 /\ ItemsOf(rest) = ItemsOf(flStack) \ {top}
    BY <1>1, <1>2, WithoutLast
<1> HIDE DEF top, rest
<1>4. top \in Pixels /\ flLab[top] = n
    BY <1>3 DEF FillInv, Named
<1>5. flThr[top] /= Skip
    BY <1>2, <1>4 DEF FillInv
<1>6. /\ fresh \subseteq Pixels
      /\ \A q \in Pixels : q \in fresh <=> Adjoins(top, q) /\ flLab[q] < 0
    BY DEF Around, Adjoins
<1> HIDE DEF fresh
<1>7. /\ more \in Seq(Pixels) /\ NoneTwice(more) /\ ItemsOf(more) = fresh
      /\ Len(more) = Cardinality(fresh)
    BY <1>6, RowsOf
<1> HIDE DEF more
<1>24. \A q \in fresh : \A k \in Nat : flLab[q] /= k
    BY <1>2, <1>6
<1>8. fresh \intersect ItemsOf(flStack) = {}
    BY <1>2, <1>24 DEF FillInv, Named
<1>9. /\ flStack' \in Seq(Pixels) /\ NoneTwice(flStack')
      /\ ItemsOf(flStack') = (ItemsOf(flStack) \ {top}) \union fresh
      /\ Len(flStack') = (Len(flStack) - 1) + Cardinality(fresh)
    <2>1. ItemsOf(rest) \intersect ItemsOf(more) = {}
        BY <1>3, <1>7, <1>8
    <2>2. /\ rest \o more \in Seq(Pixels) /\ Len(rest \o more) = Len(rest) + Len(more)
        BY <1>3, <1>7, ConcatProperties
    <2> QED BY <1>1, <1>3, <1>7, <2>1, <2>2, InARow
<1>10. /\ flLab' \in [Pixels -> Int]
       /\ \A q \in Pixels : /\ q \in fresh => flLab'[q] = n
                            /\ q \notin fresh => flLab'[q] = flLab[q]
    BY <1>1, <1>2
<1>11. Named(flLab', n) = Named(flLab, n) \union fresh
    BY <1>6, <1>10 DEF Named
<1>12. Cardinality(Named(flLab', n)) = Cardinality(Named(flLab, n)) + Cardinality(fresh)
    <2>1. Named(flLab, n) \intersect fresh = {}
        BY <1>2, <1>24 DEF Named
    <2>2. IsFiniteSet(fresh) /\ Cardinality(fresh) \in Nat
        BY <1>6, PixelCount, FS_Subset, FS_CardinalityType
    <2>3. Cardinality(Named(flLab, n) \union fresh)
              = Cardinality(Named(flLab, n)) + Cardinality(fresh) - Cardinality({})
        BY <2>1, <2>2, NamesAreFinite, FS_Union
    <2> QED BY <1>11, <2>2, <2>3, NamesAreFinite, FS_EmptySet
<1>13. flCount' + Len(flStack') = Cardinality(Named(flLab', n)) /\ flCount' \in Nat
    <2>1. flCount + Len(flStack) = Cardinality(Named(flLab, n)) /\ Len(flStack) \in Nat
        BY <1>2 DEF FillInv
    <2>2. Cardinality(fresh) \in Nat
        BY <1>6, PixelCount, FS_Subset, FS_CardinalityType
    <2> QED BY <1>1, <1>2, <1>9, <1>12, <2>1, <2>2
<1>14. ASSUME NEW k \in 1..n PROVE Named(flLab', k - 1) = Named(flLab, k - 1)
    <2>1. k - 1 /= n /\ k - 1 \in Nat
        BY <1>2
    <2>2. \A q \in Pixels : flLab'[q] = k - 1 <=> flLab[q] = k - 1
        BY <1>10, <1>24, <2>1
    <2> QED BY <2>2 DEF Named
<1>15. Spread(flLab', flStack')
    <2> SUFFICES ASSUME NEW p \in Pixels, NEW q \in Pixels, Adjoins(p, q), flLab'[p] >= 0,
                        p \notin ItemsOf(flStack')
                 PROVE  flLab'[q] = flLab'[p]
        BY DEF Spread
    <2>1. p \notin fresh /\ flLab'[p] = flLab[p] /\ flLab[p] >= 0
        BY <1>9, <1>10
    <2>2. CASE p = top
        <3>1. CASE flLab[q] < 0
            BY <1>4, <1>6, <1>10, <2>1, <2>2, <3>1
        <3>2. CASE flLab[q] >= 0
            <4>1. q \notin fresh /\ Adjoins(q, top)
                BY <1>2, <1>6, <2>2, <3>2, TouchBothWays
            <4>2. CASE flLab[q] = n
                BY <1>4, <1>10, <2>1, <2>2, <4>1, <4>2
            <4>3. CASE flLab[q] /= n
                <5>1. q \notin ItemsOf(flStack)
                    BY <4>3 DEF FillInv, Named
                <5>2. flLab[top] = flLab[q]
                    BY <1>4, <3>2, <4>1, <5>1 DEF FillInv, Spread
                <5> QED BY <1>4, <4>3, <5>2
            <4> QED BY <4>2, <4>3
        <3> QED BY <1>2, <3>1, <3>2
    <2>3. CASE p /= top
        <3>1. p \notin ItemsOf(flStack)
            BY <1>9, <2>3
        <3>2. flLab[q] = flLab[p]
            BY <2>1, <3>1 DEF FillInv, Spread
        <3>3. q \notin fresh
            BY <1>2, <1>6, <2>1, <3>2
        <3> QED BY <1>10, <2>1, <3>2, <3>3
    <2> QED BY <2>2, <2>3
<1>16. FillKept(flLab')
    <2> SUFFICES ASSUME NEW C \in SUBSET Pixels, Closed8(C), NEW p \in Pixels, NEW q \in Pixels,
                        flLab'[p] >= 0, flLab'[q] = flLab'[p]
                 PROVE  p \in C <=> q \in C
        BY DEF FillKept
    <2>1. ASSUME NEW a \in Pixels, flLab'[a] = n PROVE a \in C <=> top \in C
        <3>1. CASE a \in fresh
            <4>1. Adjoins(top, a) /\ Adjoins(a, top)
                BY <1>4, <1>6, <3>1, TouchBothWays
            <4> QED BY <1>4, <4>1 DEF Closed8
        <3>2. CASE a \notin fresh
            <4>1. flLab[a] = n /\ flLab[a] >= 0 /\ flLab[top] = flLab[a]
                BY <1>2, <1>4, <1>10, <2>1, <3>2
            <4>2. FillKept(flLab)
                BY DEF FillInv
            <4> QED BY <1>4, <4>1, <4>2 DEF FillKept
        <3> QED BY <3>1, <3>2
    <2>2. CASE flLab'[p] = n
        BY <2>1, <2>2
    <2>3. CASE flLab'[p] /= n
        <3>1. p \notin fresh /\ q \notin fresh
            BY <1>10, <2>3
        <3>2. flLab[p] >= 0 /\ flLab[q] = flLab[p]
            BY <1>10, <3>1
        <3> QED BY <3>2 DEF FillInv, FillKept
    <2> QED BY <2>2, <2>3
<1>17. Spread(flLab, flStack)' /\ FillKept(flLab)'
    BY <1>1, <1>15, <1>16 DEF Spread, FillKept, Adjoins, Closed8
<1>18. \A p \in Pixels : /\ -1 <= flLab'[p] /\ flLab'[p] <= n
                         /\ flThr[p] = Skip => flLab'[p] = -1
                         /\ p < flAt /\ flThr[p] /= Skip => flLab'[p] >= 0
    <2> TAKE p \in Pixels
    <2>1. CASE p \in fresh
        <3>1. flThr[p] /= Skip
            BY <1>5, <1>6, <2>1 DEF Adjoins
        <3> QED BY <1>2, <1>10, <2>1, <3>1
    <2>2. CASE p \notin fresh
        BY <1>10, <2>2 DEF FillInv
    <2> QED BY <2>1, <2>2
<1>19. flAt /= W * H + 1
    BY <1>2, PixelCount DEF Pixels
<1>20. \A k \in 1..n : flSizes'[k] = Cardinality(Named(flLab', k - 1))
    BY <1>1, <1>14 DEF FillInv
<1>21. \A k : Named(flLab, k)' = Named(flLab', k)
    BY DEF Named
<1>22. ItemsOf(flStack') \subseteq Named(flLab', n)
    <2>1. ItemsOf(flStack) \subseteq Named(flLab, n)
        BY DEF FillInv
    <2> QED BY <1>9, <1>11, <2>1
<1>23. flLab'[flAt] >= 0
    BY <1>2, <1>10
<1> QED BY <1>1, <1>2, <1>9, <1>10, <1>13, <1>17, <1>18, <1>19, <1>20, <1>21, <1>22, <1>23 DEF FillInv

\* When the stack is empty the blob is whole: its size is what has been counted.
LEMMA FillEnds == FillInv /\ EndBlob => FillInv'
<1> SUFFICES ASSUME FillInv, EndBlob PROVE FillInv'
    OBVIOUS
<1> DEFINE n == Len(flSizes)
<1>1. /\ flThr' = flThr /\ flLab' = flLab /\ flSizes' = Append(flSizes, flCount) /\ flAt' = flAt + 1
      /\ flStack' = flStack /\ flCount' = 0 /\ flStack = <<>> /\ flCount > 0
    BY DEF EndBlob
<1>2. /\ n \in Nat /\ flSizes \in Seq(Nat) /\ flCount \in Nat /\ flAt \in Pixels /\ flLab[flAt] >= 0
    BY <1>1 DEF FillInv, Filling
<1>3. /\ flSizes' \in Seq(Nat) /\ Len(flSizes') = n + 1 /\ flSizes'[n + 1] = flCount
      /\ \A k \in 1..n : flSizes'[k] = flSizes[k]
    BY <1>1, <1>2
<1>4. Named(flLab, n + 1) = {}
    <2>1. \A p \in Pixels : flLab[p] \in Int /\ flLab[p] <= n
        BY DEF FillInv
    <2> QED BY <1>2, <2>1 DEF Named
<1>5. flCount = Cardinality(Named(flLab, n))
    BY <1>1, <1>2 DEF FillInv
<1>6. \A k \in 1..(n + 1) : flSizes'[k] = Cardinality(Named(flLab, k - 1))
    <2>1. \A k \in 1..(n + 1) : k \in 1..n \/ (k = n + 1 /\ k - 1 = n)
        BY <1>2
    <2>2. \A k \in 1..n : flSizes[k] = Cardinality(Named(flLab, k - 1))
        BY DEF FillInv
    <2> QED BY <1>3, <1>5, <2>1, <2>2
<1>7. /\ flAt' \in Nat /\ flAt' /= W * H + 1 /\ ~Filling'
    BY <1>1, <1>2, PixelCount DEF Pixels, Filling
<1>8. \A p \in Pixels : /\ -1 <= flLab[p] /\ flLab[p] <= n + 1
                        /\ flThr[p] = Skip => flLab[p] = -1
                        /\ p < flAt' /\ flThr[p] /= Skip => flLab[p] >= 0
    <2>1. \A p \in Pixels : p < flAt' => p < flAt \/ p = flAt
        BY <1>1, <1>2, PixelsAreNumbers
    <2> QED BY <1>2, <2>1 DEF FillInv
<1>9. Spread(flLab, flStack)' /\ FillKept(flLab)'
    BY <1>1 DEF FillInv, Spread, FillKept, Adjoins, Closed8
<1>10. \A k : Named(flLab, k)' = Named(flLab, k)
    BY <1>1 DEF Named
<1>11. flCount' + Len(flStack') = Cardinality(Named(flLab, n + 1)) /\ ItemsOf(flStack') = {}
    BY <1>1, <1>4, FS_EmptySet DEF ItemsOf
<1>12. /\ flThr \in [Pixels -> {0, Skip, 255}] /\ flLab \in [Pixels -> Int]
       /\ flStack \in Seq(Pixels) /\ NoneTwice(flStack)
    BY DEF FillInv
<1> QED BY <1>1, <1>3, <1>6, <1>7, <1>8, <1>9, <1>10, <1>11, <1>12 DEF FillInv

\* Every step keeps it.
LEMMA FillStep == FillInv /\ [FloodNext]_floodVars => FillInv'
<1> SUFFICES ASSUME FillInv, [FloodNext]_floodVars PROVE FillInv'
    OBVIOUS
<1>1. ASSUME NEW pairs, flPairs' = pairs,
             flThr' = flThr, flLab' = flLab, flSizes' = flSizes, flStack' = flStack, flCount' = flCount
      PROVE  /\ Spread(flLab, flStack)' /\ FillKept(flLab)' /\ (Filling' <=> Filling)
             /\ \A k : Named(flLab, k)' = Named(flLab, k)
             /\ \A p : (BigBlob(p)' <=> BigBlob(p))
    BY <1>1 DEF FillInv, Spread, FillKept, Adjoins, Closed8, Filling, Named, BigBlob
<1>2. ASSUME MeetBlobs PROVE FillInv'
    <2>1. /\ flThr' = flThr /\ flLab' = flLab /\ flSizes' = flSizes /\ flStack' = flStack
          /\ flCount' = flCount /\ flAt = W * H /\ flAt' = flAt + 1
          /\ flPairs' = {pair \in Pixels \X Pixels :
                            /\ pair[2] \in Ahead(pair[1]) /\ flThr[pair[1]] /= flThr[pair[2]]
                            /\ BigBlob(pair[1]) /\ BigBlob(pair[2])}
        BY <1>2 DEF MeetBlobs
    <2>2. flAt \notin Pixels /\ flAt' \in Nat
        BY <2>1, PixelCount DEF Pixels
    <2>3. ~Filling
        BY <2>2 DEF FillInv
    <2>4. \A p \in Pixels : p < flAt
        BY <2>1, PixelCount DEF Pixels
    <2>5. flPairs' = {pair \in Pixels \X Pixels :
                         /\ pair[2] \in Ahead(pair[1]) /\ flThr'[pair[1]] /= flThr'[pair[2]]
                         /\ BigBlob(pair[1])' /\ BigBlob(pair[2])'}
        BY <1>1, <2>1
    <2> QED BY <1>1, <2>1, <2>2, <2>3, <2>4, <2>5 DEF FillInv
<1>3. ASSUME UNCHANGED floodVars PROVE FillInv'
    <2>1. /\ flThr' = flThr /\ flLab' = flLab /\ flSizes' = flSizes /\ flStack' = flStack
          /\ flCount' = flCount /\ flAt' = flAt /\ flPairs' = flPairs
        BY <1>3 DEF floodVars
    <2> QED BY <1>1, <2>1 DEF FillInv
<1> QED BY <1>2, <1>3, FillPasses, FillStarts, FillSpreads, FillEnds DEF FloodNext

\* It holds at the start.
LEMMA FillStart == FloodInit => FillInv
<1> SUFFICES ASSUME FloodInit PROVE FillInv
    OBVIOUS
<1>1. /\ flThr = Threshold(flImage) /\ flLab = [p \in Pixels |-> -1] /\ flSizes = <<>>
      /\ flAt = 0 /\ flStack = <<>> /\ flCount = 0
    BY DEF FloodInit
<1>2. flThr \in [Pixels -> {0, Skip, 255}]
    BY <1>1 DEF Threshold
<1>3. \A k \in Nat : Named(flLab, k) = {}
    BY <1>1 DEF Named
<1>4. \A p \in Pixels : flLab[p] = -1 /\ ~(p < 0)
    BY <1>1, PixelsAreNumbers
<1>5. Spread(flLab, flStack) /\ FillKept(flLab) /\ ~Filling
    BY <1>1, <1>4 DEF Spread, FillKept, Filling
<1>6. /\ Len(flSizes) = 0 /\ Len(flStack) = 0 /\ flSizes \in Seq(Nat) /\ flStack \in Seq(Pixels)
      /\ NoneTwice(flStack) /\ ItemsOf(flStack) = {}
    BY <1>1 DEF NoneTwice, ItemsOf
<1>7. Cardinality(Named(flLab, 0)) = 0
    BY <1>3, FS_EmptySet
<1>8. flAt /= W * H + 1
    BY <1>1, PixelCount
<1> QED BY <1>1, <1>2, <1>4, <1>5, <1>6, <1>7, <1>8 DEF FillInv

\* When the loops are over every pixel with a value to find has a name, its blob's.
LEMMA NameIsBlob ==
    ASSUME FillInv, flAt = W * H + 1, NEW p \in Pixels, flThr[p] /= Skip
    PROVE  /\ Blob8(p) = {q \in Pixels : flLab[q] = flLab[p]}
           /\ flLab[p] \in 0..(Len(flSizes) - 1)
           /\ flSizes[flLab[p] + 1] = Cardinality(Blob8(p))
<1>1. flAt \notin Pixels /\ ~Filling
    <2>1. flAt \notin Pixels
        BY PixelCount DEF Pixels
    <2> QED BY <2>1 DEF FillInv
<1>2. flStack = <<>> /\ flLab[p] < Len(flSizes) /\ flLab[p] \in Int /\ Len(flSizes) \in Nat
    BY <1>1, NextIsFree DEF FillInv
<1>3. flLab[p] >= 0
    <2>1. p < flAt
        BY PixelCount DEF Pixels
    <2> QED BY <2>1 DEF FillInv
<1> DEFINE same == {q \in Pixels : flLab[q] = flLab[p]}
<1>4. Closed8(same) /\ p \in same
    <2> SUFFICES ASSUME NEW a \in Pixels, NEW q \in Pixels, a \in same, Adjoins(a, q) PROVE q \in same
        BY DEF Closed8
    <2>1. a \notin ItemsOf(flStack)
        BY <1>2 DEF ItemsOf
    <2> QED BY <1>3, <2>1 DEF FillInv, Spread
<1>5. Blob8(p) \subseteq same
    BY <1>4, Blob8IsLeast
<1>6. same \subseteq Blob8(p)
    <2>1. Closed8(Blob8(p)) /\ p \in Blob8(p) /\ Blob8(p) \in SUBSET Pixels
        BY Blob8IsLeast
    <2>2. FillKept(flLab)
        BY DEF FillInv
    <2> QED BY <1>3, <2>1, <2>2 DEF FillKept
<1>7. flLab[p] + 1 \in 1..Len(flSizes) /\ (flLab[p] + 1) - 1 = flLab[p]
    BY <1>2, <1>3
<1>8. flSizes[flLab[p] + 1] = Cardinality(Named(flLab, flLab[p]))
    BY <1>7 DEF FillInv
<1>9. Named(flLab, flLab[p]) = same
    BY DEF Named
<1> QED BY <1>2, <1>3, <1>5, <1>6, <1>8, <1>9

\* Of two pixels around each other one is ahead of the other.
LEMMA OneIsAhead ==
    ASSUME NEW p \in Pixels, NEW q \in Around(p), p /= q
    PROVE  q \in Ahead(p) \/ p \in Ahead(q)
<1>1. q \in Pixels /\ p \in Around(q)
    BY TouchBothWays DEF Around
<1>2. X(p) \in Int /\ Y(p) \in Int /\ X(q) \in Int /\ Y(q) \in Int
    BY <1>1, PlaceOfPixel, PipelineAssumption
<1>3. X(p) /= X(q) \/ Y(p) /= Y(q)
    BY <1>1, PlaceOfPixel
<1> QED BY <1>1, <1>2, <1>3 DEF Ahead

\* What the invariant says when all pixels are passed is that each blob has one name.
LEMMA FloodFound == FillInv => FloodNamesBlobs
<1> SUFFICES ASSUME FillInv, flAt = W * H + 1, NEW p \in Pixels
             PROVE  /\ flThr[p] = Skip => flLab[p] = -1
                    /\ flThr[p] /= Skip =>
                          /\ Blob8(p) = {q \in Pixels : flLab[q] = flLab[p]}
                          /\ flSizes[flLab[p] + 1] = Cardinality(Blob8(p))
                    /\ \A q \in Around(p) :
                          (<<p, q>> \in flPairs \/ <<q, p>> \in flPairs)
                              <=> /\ {flThr[p], flThr[q]} = {0, 255}
                                  /\ Cardinality(Blob8(p)) >= MinBlob
                                  /\ Cardinality(Blob8(q)) >= MinBlob
    <2> DEFINE blob == [a \in Pixels |-> Blob8(a)]
    <2>1. \A a \in Pixels : blob[a] = Blob8(a)
        OBVIOUS
    <2>2. \A a \in Pixels : \A q \in Around(a) : q \in Pixels
        BY DEF Around
    <2> QED BY <2>1, <2>2 DEF FloodNamesBlobs
<1>1. flThr[p] = Skip => flLab[p] = -1
    BY DEF FillInv
<1>2. ASSUME NEW a \in Pixels
      PROVE  BigBlob(a) <=> flThr[a] /= Skip /\ Cardinality(Blob8(a)) >= MinBlob
    <2>1. CASE flThr[a] = Skip
        <3>1. flLab[a] = -1
            BY <2>1 DEF FillInv
        <3> QED BY <2>1, <3>1 DEF BigBlob
    <2>2. CASE flThr[a] /= Skip
        BY <2>2, NameIsBlob DEF BigBlob
    <2> QED BY <2>1, <2>2
<1>3. ASSUME NEW q \in Around(p)
      PROVE  (<<p, q>> \in flPairs \/ <<q, p>> \in flPairs)
                  <=> /\ {flThr[p], flThr[q]} = {0, 255}
                      /\ Cardinality(Blob8(p)) >= MinBlob
                      /\ Cardinality(Blob8(q)) >= MinBlob
    <2>1. q \in Pixels
        BY DEF Around
    <2>2. \A a, b \in Pixels : <<a, b>> \in flPairs <=> /\ b \in Ahead(a) /\ flThr[a] /= flThr[b]
                                                     /\ BigBlob(a) /\ BigBlob(b)
        <3>1. flPairs = {pair \in Pixels \X Pixels :
                            /\ pair[2] \in Ahead(pair[1]) /\ flThr[pair[1]] /= flThr[pair[2]]
                            /\ BigBlob(pair[1]) /\ BigBlob(pair[2])}
            BY DEF FillInv
        <3> QED BY <3>1
    <2>3. {flThr[p], flThr[q]} = {0, 255} <=>
              flThr[p] /= Skip /\ flThr[q] /= Skip /\ flThr[p] /= flThr[q]
        <3>1. flThr[p] \in {0, Skip, 255} /\ flThr[q] \in {0, Skip, 255}
            BY <2>1 DEF FillInv
        <3> QED BY <3>1 DEF Skip
    <2>4. flThr[p] /= flThr[q] => q \in Ahead(p) \/ p \in Ahead(q)
        BY OneIsAhead
    <2> QED BY <1>2, <2>1, <2>2, <2>3, <2>4
<1> QED BY <1>1, <1>3, NameIsBlob

-----------------------------------------------------------------------------
(* The types of the two ways of naming blobs, and the sizes that bound them.                     *)

\* A sequence is of what its items are of.
LEMMA SeqOfItems ==
    ASSUME NEW T, NEW s \in Seq(T), NEW S, \A i \in 1..Len(s) : s[i] \in S
    PROVE  s \in Seq(S)
<1>1. Len(s) \in Nat /\ s \in [1..Len(s) -> T]
    BY LenProperties
<1>2. s \in [1..Len(s) -> S]
    BY <1>1
<1> QED BY <1>1, <1>2, SeqDef

\* A set of pixels has no more of them than the picture.
LEMMA NoMorePixels ==
    ASSUME NEW S, S \subseteq Pixels
    PROVE  Cardinality(S) \in 0..(W * H)
<1>1. IsFiniteSet(S) /\ Cardinality(S) <= Cardinality(Pixels) /\ Cardinality(S) \in Nat
    BY PixelCount, FS_Subset, FS_CardinalityType
<1>2. W * H \in Nat /\ Cardinality(Pixels) = W * H
    BY PixelCount
<1> QED BY <1>1, <1>2

\* No blob is counted larger than the picture (ch/02-apriltags.js, the union-find).
PipelineBounds == PartInv /\ CountInv /\ EdgeInv /\ piImage \in Images

\* With it the pipeline's variables keep their types.
LEMMA PipelineTypes ==
    /\ PipelineInit => PipelineBounds
    /\ PipelineBounds => PipelineTypeOK
    /\ PipelineBounds /\ [PipelineNext]_pipeVars => PipelineBounds'
<1>1. ASSUME PipelineInit PROVE PipelineBounds
    <2>1. PartInv /\ CountInv /\ EdgeInv
        BY <1>1, PartStart, CountStart, EdgeStart
    <2> QED BY <1>1, <2>1 DEF PipelineInit, PipelineBounds
<1>2. ASSUME PipelineBounds PROVE PipelineTypeOK
    <2>1. /\ piImage \in Images /\ piThr \in [Pixels -> {0, Skip, 255}] /\ piAt \in Pixels
          /\ piPhase \in {"unite", "count", "edge", "done"} /\ piParent \in [Pixels -> Pixels]
          /\ piEdge \subseteq Pixels
        BY <1>2, Zenon DEF PipelineBounds, PartInv, ParentInv, Forest, EdgeInv
    <2>2. piSize \in [Pixels -> Nat]
        BY <1>2, Zenon DEF PipelineBounds, CountInv
    <2>3. \A r \in Pixels : piSize[r] \in 0..(W * H)
        <3> TAKE r \in Pixels
        <3>1. \A before : Cardinality(CountedFor(r, before)) \in 0..(W * H)
            BY NoMorePixels DEF CountedFor
        <3>2. CASE piPhase = "unite"
            <4>1. piSize[r] = 0
                BY <1>2, <3>2, Zenon DEF PipelineBounds, CountInv
            <4>2. 0 \in 0..(W * H)
                BY PixelCount
            <4> QED BY <4>1, <4>2
        <3>3. CASE piPhase \in {"count", "edge", "done"}
            BY <1>2, <3>1, <3>3, Zenon DEF PipelineBounds, CountInv, Sized
        <3> QED BY <2>1, <3>2, <3>3, Zenon
    <2>4. piSize \in [Pixels -> 0..(W * H)]
        BY <2>2, <2>3
    <2> QED BY <2>1, <2>4, Zenon DEF PipelineTypeOK
<1>3. ASSUME PipelineBounds, [PipelineNext]_pipeVars PROVE PipelineBounds'
    <2>1. PartInv' /\ CountInv' /\ EdgeInv'
        BY <1>3, PartStep, CountStep, EdgeStep DEF PipelineBounds
    <2>2. piImage' = piImage
        BY <1>3, Zenon DEF PipelineNext, UnitePixel, CountPixel, EdgePixel, pipeVars
    <2> QED BY <1>3, <2>1, <2>2 DEF PipelineBounds
<1> QED BY <1>1, <1>2, <1>3

\* Each blob that the fill has named began at a pixel of its own, so there are no more names
\* than pixels passed (ch/08-cuda.js, 334-375).
FloodBounds ==
    /\ FillInv /\ flImage \in Images
    /\ Len(flSizes) <= flAt /\ Len(flSizes) <= W * H /\ flAt <= W * H + 1
    /\ \A k \in 1..Len(flSizes) : flSizes[k] > 0
    /\ flPairs \subseteq Pixels \X Pixels

\* With it the fill's variables keep their types.
LEMMA FloodTypes ==
    /\ FloodInit => FloodBounds
    /\ FloodBounds => FloodTypeOK
    /\ FloodBounds /\ [FloodNext]_floodVars => FloodBounds'
<1>0. W * H \in Nat \ {0} /\ Pixels = 0..(W * H - 1)
    BY PixelCount DEF Pixels
<1> DEFINE all == W * H
<1>1. ASSUME FloodInit PROVE FloodBounds
    <2>1. FillInv
        BY <1>1, FillStart
    <2>2. flImage \in Images /\ flSizes = <<>> /\ flAt = 0 /\ flPairs = {}
        BY <1>1, Zenon DEF FloodInit
    <2>3. Len(<<>>) = 0
        OBVIOUS
    <2>4. Len(flSizes) = 0
        BY <2>2, <2>3
    <2> QED BY <1>0, <2>1, <2>2, <2>4 DEF FloodBounds
<1>2. ASSUME FloodBounds PROVE FloodTypeOK
    <2>1. /\ flImage \in Images /\ flThr \in [Pixels -> {0, Skip, 255}] /\ flStack \in Seq(Pixels)
          /\ flPairs \subseteq Pixels \X Pixels /\ flSizes \in Seq(Nat) /\ flAt \in Nat /\ flCount \in Nat
          /\ flLab \in [Pixels -> Int] /\ flCount + Len(flStack) = Cardinality(Named(flLab, Len(flSizes)))
        BY <1>2, Zenon DEF FloodBounds, FillInv
    <2>2. \A k : Cardinality(Named(flLab, k)) \in 0..(W * H)
        BY NoMorePixels DEF Named
    <2>3. flAt \in 0..(W * H + 1)
        BY <1>0, <1>2, <2>1 DEF FloodBounds
    <2>4. flCount \in 0..(W * H)
        <3>1. Len(flStack) \in Nat /\ flCount + Len(flStack) \in 0..(W * H)
            BY <2>1, <2>2, LenProperties
        <3> QED BY <1>0, <2>1, <3>1
    <2>5. flSizes \in Seq(1..(W * H))
        <3>1. \A k \in 1..Len(flSizes) : flSizes[k] \in 1..(W * H)
            <4> TAKE k \in 1..Len(flSizes)
            <4>1. flSizes[k] > 0 /\ flSizes[k] \in 0..(W * H)
                BY <1>2, <2>2 DEF FloodBounds, FillInv
            <4> QED BY <1>0, <4>1
        <3> QED BY <2>1, <3>1, SeqOfItems
    <2>6. flLab \in [Pixels -> -1..(W * H - 1)]
        <3>1. ASSUME NEW p \in Pixels PROVE flLab[p] \in -1..(W * H - 1)
            <4>1. flLab[p] \in Int /\ -1 <= flLab[p] /\ flLab[p] <= Len(flSizes) /\ Len(flSizes) \in Nat
                BY <1>2, <2>1, LenProperties DEF FloodBounds, FillInv
            <4>2. CASE Filling
                <5>1. flAt \in Pixels /\ Len(flSizes) <= flAt
                    BY <1>2, <4>2 DEF FloodBounds, FillInv
                <5> QED BY <1>0, <4>1, <5>1
            <4>3. CASE ~Filling
                <5>1. flLab[p] < Len(flSizes) /\ Len(flSizes) <= W * H
                    BY <1>2, <4>3, NextIsFree DEF FloodBounds
                <5> QED BY <1>0, <4>1, <5>1
            <4> QED BY <4>2, <4>3
        <3> QED BY <2>1, <3>1
    <2> QED BY <2>1, <2>3, <2>4, <2>5, <2>6, Zenon DEF FloodTypeOK
<1>3. ASSUME FloodBounds, [FloodNext]_floodVars PROVE FloodBounds'
    <2>1. FillInv /\ FillInv'
        BY <1>3, FillStep DEF FloodBounds
    <2>2. /\ flImage \in Images /\ Len(flSizes) <= flAt /\ Len(flSizes) <= all /\ flAt <= all + 1
          /\ \A k \in 1..Len(flSizes) : flSizes[k] > 0
          /\ flPairs \subseteq Pixels \X Pixels
        BY <1>3, Zenon DEF FloodBounds
    <2>3. flAt \in Nat /\ flSizes \in Seq(Nat) /\ Len(flSizes) \in Nat /\ flCount \in Nat
        BY <2>1, LenProperties DEF FillInv
    <2>4. all \in Nat /\ \A at \in Pixels : at \in Nat /\ at + 1 <= all
        BY <1>0
    <2> HIDE DEF all
    <2> DEFINE Counts == /\ Len(flSizes') <= flAt' /\ Len(flSizes') <= all /\ flAt' <= all + 1
                         /\ \A k \in 1..Len(flSizes') : flSizes'[k] > 0
               Pairs == flImage' \in Images /\ flPairs' \subseteq Pixels \X Pixels
    <2>5. ASSUME PassPixel PROVE Counts /\ Pairs
        <3>1. flAt \in Pixels /\ flAt' = flAt + 1 /\ flSizes' = flSizes /\ flPairs' = flPairs /\ flImage' = flImage
            BY <2>5, Zenon DEF PassPixel
        <3> QED BY <2>2, <2>3, <2>4, <3>1
    <2>6. ASSUME StartBlob \/ FillPixel \/ UNCHANGED floodVars PROVE Counts /\ Pairs
        <3>1. flAt' = flAt /\ flSizes' = flSizes /\ flPairs' = flPairs /\ flImage' = flImage
            BY <2>6, Zenon DEF StartBlob, FillPixel, floodVars
        <3> QED BY <2>2, <2>3, <2>4, <3>1
    <2>7. ASSUME EndBlob PROVE Counts /\ Pairs
        <3>1. /\ flCount > 0 /\ flSizes' = Append(flSizes, flCount) /\ flAt' = flAt + 1
              /\ flPairs' = flPairs /\ flImage' = flImage
            BY <2>7, Zenon DEF EndBlob
        <3>2. flAt \in Pixels
            BY <2>1, <2>3, <3>1 DEF FillInv, Filling
        <3>3. /\ Len(flSizes') = Len(flSizes) + 1
              /\ \A k \in 1..(Len(flSizes) + 1) :
                     flSizes'[k] = IF k = Len(flSizes) + 1 THEN flCount ELSE flSizes[k]
            BY <2>3, <3>1, AppendProperties
        <3>4. \A k \in 1..Len(flSizes') : flSizes'[k] > 0
            BY <2>2, <2>3, <3>1, <3>3
        <3>5. Len(flSizes') <= flAt' /\ Len(flSizes') <= all /\ flAt' <= all + 1
            BY <2>2, <2>3, <2>4, <3>1, <3>2, <3>3
        <3> QED BY <2>2, <3>1, <3>4, <3>5, Zenon
    <2>8. ASSUME MeetBlobs PROVE Counts /\ Pairs
        <3>1. flAt = all /\ flAt' = flAt + 1 /\ flSizes' = flSizes /\ flImage' = flImage
            BY <2>8, Zenon DEF MeetBlobs, all
        <3>2. flPairs' \subseteq Pixels \X Pixels
            BY <2>8 DEF MeetBlobs
        <3>3. Counts
            BY <2>2, <2>3, <2>4, <3>1
        <3> QED BY <2>2, <3>1, <3>2, <3>3, Zenon
    <2> HIDE DEF Counts, Pairs
    <2>9. Counts /\ Pairs
        BY <1>3, <2>5, <2>6, <2>7, <2>8, Zenon DEF FloodNext
    <2> QED BY <2>1, <2>9, Zenon DEF Counts, Pairs, FloodBounds, all
<1> QED BY <1>1, <1>2, <1>3

=============================================================================
