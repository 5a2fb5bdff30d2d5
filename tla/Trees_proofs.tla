---------------------------- MODULE Trees_proofs ----------------------------
(***************************************************************************)
(* For pools of every size and documents of every length: no tag of the    *)
(* property list parser is lost or used twice, a symbol counts the tags    *)
(* that name it, and what is returned has the structure of the document.   *)
(* For trees of every size and names of every length: no entry of the      *)
(* device tree's pools is lost, they hold an ordered tree, and a search    *)
(* ends at the node that its path means.                                   *)
(***************************************************************************)
EXTENDS MCTrees, FiniteSetTheorems, WellFoundedInduction, TLAPS

-----------------------------------------------------------------------------
(* Sequences *)

LEMMA Sizes ==
    /\ TagsPerBlock \in Nat \ {0} /\ MaxBlocks \in Nat /\ MaxTags \in Nat
    /\ X!NoString \notin Strings /\ "key" \notin ListTypes
    /\ 0 \notin X!Addr /\ X!Addr \subseteq X!Ref /\ 0 \in X!Ref /\ X!Addr \subseteq Nat
  <1>1. TagsPerBlock \in Nat \ {0} /\ MaxBlocks \in Nat /\ MaxTags \in Nat
        /\ X!NoString \notin Strings /\ "key" \notin ListTypes
    BY PoolAssumption DEF X!PoolFits, X!NoString
  <1>2. \A n : 0 \notin 1 .. n /\ 1 .. n \subseteq Nat
    OBVIOUS
  <1>3. 0 \notin X!Addr /\ X!Addr \subseteq Nat
    BY <1>2 DEF X!Addr
  <1> QED  BY <1>1, <1>3 DEF X!Ref

\* The library operators that XmlTags sees are those of this module.
LEMMA Library ==
    \A S : /\ X!Cardinality(S) = Cardinality(S) /\ X!ToSet(S) = ToSet(S)
          /\ X!IsInjective(S) = IsInjective(S) /\ X!Last(S) = Last(S) /\ X!Front(S) = Front(S)
  <1>1. \A S : X!Cardinality(S) = Cardinality(S)
    BY DEF X!Cardinality, Cardinality
  <1>2. \A S : X!ToSet(S) = ToSet(S) /\ X!IsInjective(S) = IsInjective(S)
    BY DEF X!ToSet, ToSet, X!IsInjective, IsInjective
  <1>3. \A S : X!Last(S) = Last(S) /\ X!Front(S) = Front(S)
    BY DEF X!Last, Last, X!Front, Front
  <1> QED  BY <1>1, <1>2, <1>3

\* A set of natural numbers has a least one.
LEMMA LeastNat ==
    ASSUME NEW S \in SUBSET Nat, S # {}
    PROVE  \E m \in S : \A k \in S : m <= k
  <1> DEFINE less == {p \in Nat \X Nat : p[1] < p[2]}
  <1>1. IsWellFoundedOn(less, Nat)
    BY NatLessThanWellFounded DEF OpToRel
  <1>2. \E m \in S : \A k \in S : ~ (<<k, m>> \in less)
    <2> HIDE DEF less
    <2> QED  BY <1>1, WFMin
  <1>3. PICK m \in S : \A k \in S : ~ (<<k, m>> \in less)
    BY <1>2
  <1>4. ASSUME NEW k \in S PROVE m <= k
    <2>1. m \in Nat /\ k \in Nat /\ ~ (k < m)
      BY <1>3
    <2> QED  BY <2>1
  <1> QED  BY <1>4

\* What a sequence holds behind another one.
LEMMA Joined ==
    ASSUME NEW S, NEW s \in Seq(S), NEW u \in Seq(S)
    PROVE  /\ s \o u \in Seq(S)
           /\ Len(s \o u) = Len(s) + Len(u)
           /\ ToSet(s \o u) = ToSet(s) \union ToSet(u)
  <1>1. s \o u \in Seq(S) /\ Len(s \o u) = Len(s) + Len(u)
    OBVIOUS
  <1>2. DOMAIN (s \o u) = 1 .. Len(s) + Len(u) /\ DOMAIN s = 1 .. Len(s) /\ DOMAIN u = 1 .. Len(u)
    BY <1>1
  <1>3. \A i \in 1 .. Len(s) + Len(u) : (s \o u)[i] = IF i <= Len(s) THEN s[i] ELSE u[i - Len(s)]
    OBVIOUS
  <1>4. ASSUME NEW x \in ToSet(s \o u) PROVE x \in ToSet(s) \union ToSet(u)
    <2>1. PICK i \in 1 .. Len(s) + Len(u) : x = (s \o u)[i]
      BY <1>2 DEF ToSet
    <2>2. CASE i <= Len(s)
      BY <1>2, <1>3, <2>1, <2>2 DEF ToSet
    <2>3. CASE ~ (i <= Len(s))
      <3>1. i - Len(s) \in 1 .. Len(u)
        BY <2>3
      <3> QED  BY <1>2, <1>3, <2>1, <2>3, <3>1 DEF ToSet
    <2> QED  BY <2>2, <2>3
  <1>5. ASSUME NEW x \in ToSet(s) PROVE x \in ToSet(s \o u)
    <2>1. PICK i \in 1 .. Len(s) : x = s[i]
      BY <1>2 DEF ToSet
    <2>2. i \in 1 .. Len(s) + Len(u) /\ i <= Len(s)
      OBVIOUS
    <2> QED  BY <1>2, <1>3, <2>1, <2>2 DEF ToSet
  <1>6. ASSUME NEW x \in ToSet(u) PROVE x \in ToSet(s \o u)
    <2>1. PICK i \in 1 .. Len(u) : x = u[i]
      BY <1>2 DEF ToSet
    <2>2. i + Len(s) \in 1 .. Len(s) + Len(u) /\ ~ (i + Len(s) <= Len(s)) /\ i + Len(s) - Len(s) = i
      OBVIOUS
    <2> QED  BY <1>2, <1>3, <2>1, <2>2 DEF ToSet
  <1> QED  BY <1>1, <1>4, <1>5, <1>6

LEMMA JoinedOnce ==
    ASSUME NEW S, NEW s \in Seq(S), NEW u \in Seq(S),
           IsInjective(s), IsInjective(u), ToSet(s) \cap ToSet(u) = {}
    PROVE  IsInjective(s \o u)
  <1>1. DOMAIN (s \o u) = 1 .. Len(s) + Len(u) /\ DOMAIN s = 1 .. Len(s) /\ DOMAIN u = 1 .. Len(u)
    BY Joined
  <1>2. \A i \in 1 .. Len(s) + Len(u) : (s \o u)[i] = IF i <= Len(s) THEN s[i] ELSE u[i - Len(s)]
    OBVIOUS
  <1> SUFFICES ASSUME NEW i \in 1 .. Len(s) + Len(u), NEW k \in 1 .. Len(s) + Len(u),
                      (s \o u)[i] = (s \o u)[k]
               PROVE  i = k
    BY <1>1 DEF IsInjective
  <1>3. \A l \in 1 .. Len(s) + Len(u) : ~ (l <= Len(s)) => l - Len(s) \in 1 .. Len(u)
    OBVIOUS
  <1>4. \A l \in 1 .. Len(s) + Len(u) : l <= Len(s) => l \in 1 .. Len(s)
    OBVIOUS
  <1>5. CASE i <= Len(s) /\ k <= Len(s)
    BY <1>1, <1>2, <1>4, <1>5 DEF IsInjective
  <1>6. CASE ~ (i <= Len(s)) /\ ~ (k <= Len(s))
    <2>1. u[i - Len(s)] = u[k - Len(s)]
      BY <1>2, <1>6
    <2>2. i - Len(s) = k - Len(s)
      BY <1>1, <1>3, <1>6, <2>1 DEF IsInjective
    <2> QED  BY <2>2
  <1>7. ASSUME NEW p \in 1 .. Len(s) + Len(u), NEW q \in 1 .. Len(s) + Len(u),
               p <= Len(s), ~ (q <= Len(s)), (s \o u)[p] = (s \o u)[q]
        PROVE  FALSE
    <2>1. s[p] = u[q - Len(s)]
      BY <1>2, <1>7
    <2>2. s[p] \in ToSet(s) /\ u[q - Len(s)] \in ToSet(u)
      BY <1>1, <1>3, <1>4, <1>7 DEF ToSet
    <2> QED  BY <2>1, <2>2
  <1> QED  BY <1>5, <1>6, <1>7

LEMMA PartsOnce ==
    ASSUME NEW S, NEW s \in Seq(S), NEW u \in Seq(S), IsInjective(s \o u)
    PROVE  IsInjective(s) /\ IsInjective(u) /\ ToSet(s) \cap ToSet(u) = {}
  <1>1. DOMAIN (s \o u) = 1 .. Len(s) + Len(u) /\ DOMAIN s = 1 .. Len(s) /\ DOMAIN u = 1 .. Len(u)
    BY Joined
  <1>2. \A i \in 1 .. Len(s) + Len(u) : (s \o u)[i] = IF i <= Len(s) THEN s[i] ELSE u[i - Len(s)]
    OBVIOUS
  <1>3. \A i \in 1 .. Len(s) : i \in 1 .. Len(s) + Len(u) /\ (s \o u)[i] = s[i]
    BY <1>2
  <1>4. ASSUME NEW i \in 1 .. Len(u)
        PROVE  Len(s) + i \in 1 .. Len(s) + Len(u) /\ (s \o u)[Len(s) + i] = u[i]
    <2>1. Len(s) + i \in 1 .. Len(s) + Len(u) /\ ~ (Len(s) + i <= Len(s)) /\ Len(s) + i - Len(s) = i
      OBVIOUS
    <2> QED  BY <1>2, <2>1
  <1>5. \A i, k \in 1 .. Len(s) + Len(u) : (s \o u)[i] = (s \o u)[k] => i = k
    BY <1>1 DEF IsInjective
  <1>6. IsInjective(s)
    BY <1>1, <1>3, <1>5 DEF IsInjective
  <1>7. ASSUME NEW i \in 1 .. Len(u), NEW k \in 1 .. Len(u), u[i] = u[k] PROVE i = k
    <2>1. Len(s) + i = Len(s) + k
      BY <1>4, <1>5, <1>7
    <2> QED  BY <2>1
  <1>8. ASSUME NEW i \in 1 .. Len(s), NEW k \in 1 .. Len(u), s[i] = u[k] PROVE FALSE
    <2>1. i = Len(s) + k
      BY <1>3, <1>4, <1>5, <1>8
    <2> QED  BY <2>1
  <1>9. ToSet(s) \cap ToSet(u) = {}
    BY <1>1, <1>8 DEF ToSet
  <1> QED  BY <1>1, <1>6, <1>7, <1>9 DEF IsInjective

LEMMA Single ==
    ASSUME NEW S, NEW a \in S
    PROVE  /\ <<a>> \in Seq(S) /\ Len(<<a>>) = 1 /\ ToSet(<<a>>) = {a} /\ IsInjective(<<a>>)
           /\ <<>> \in Seq(S) /\ Len(<<>>) = 0 /\ ToSet(<<>>) = {} /\ IsInjective(<<>>)
  BY DEF ToSet, IsInjective

-----------------------------------------------------------------------------
(* What XMLFreeTag puts back, for every tag *)

Entry == [type : X!Types, string : Strings \union {X!NoString}, tag : X!Ref, next : X!Ref]

\* F has, for every tag, the tags from it on in the order of FreeOrder, where the
\* pool is pool.
Solves(F, pool) ==
    /\ F \in [X!Ref -> Seq(X!Addr)]
    /\ F[0] = <<>>
    /\ \A a \in X!Addr : F[a] = F[pool[a].tag] \o F[pool[a].next] \o <<a>>

LEMMA Node ==
    ASSUME NEW pool \in [X!Addr -> Entry], NEW F, Solves(F, pool), NEW a \in X!Addr
    PROVE  /\ pool[a].tag \in X!Ref /\ pool[a].next \in X!Ref
           /\ F[pool[a].tag] \in Seq(X!Addr) /\ F[pool[a].next] \in Seq(X!Addr)
           /\ ToSet(F[a]) = ToSet(F[pool[a].tag]) \union ToSet(F[pool[a].next]) \union {a}
           /\ Len(F[a]) = Len(F[pool[a].tag]) + Len(F[pool[a].next]) + 1
  <1>1. pool[a].tag \in X!Ref /\ pool[a].next \in X!Ref
    BY DEF Entry
  <1> DEFINE s == F[pool[a].tag]
             u == F[pool[a].next]
  <1>2. s \in Seq(X!Addr) /\ u \in Seq(X!Addr) /\ F[a] = (s \o u) \o <<a>>
    BY <1>1 DEF Solves
  <1> HIDE DEF s, u
  <1>3. s \o u \in Seq(X!Addr) /\ Len(s \o u) = Len(s) + Len(u)
        /\ ToSet(s \o u) = ToSet(s) \union ToSet(u)
    BY <1>2, Joined
  <1>4. <<a>> \in Seq(X!Addr) /\ Len(<<a>>) = 1 /\ ToSet(<<a>>) = {a}
    BY Single
  <1>5. ToSet(F[a]) = ToSet(s \o u) \union {a} /\ Len(F[a]) = Len(s \o u) + 1
    <2> DEFINE w == s \o u
               v == <<a>>
    <2>1. w \in Seq(X!Addr) /\ v \in Seq(X!Addr) /\ F[a] = w \o v
      BY <1>2, <1>3, <1>4
    <2>2. Len(v) = 1 /\ ToSet(v) = {a}
      BY <1>4
    <2> HIDE DEF w, v
    <2>3. ToSet(F[a]) = ToSet(w) \union ToSet(v) /\ Len(F[a]) = Len(w) + Len(v)
      BY <2>1, Joined
    <2>4. ToSet(F[a]) = ToSet(w) \union {a} /\ Len(F[a]) = Len(w) + 1
      BY <2>2, <2>3
    <2> QED  BY <2>4 DEF w
  <1> QED  BY <1>1, <1>2, <1>3, <1>5 DEF s, u

LEMMA Longer ==
    ASSUME NEW m \in Nat, NEW n \in Nat
    PROVE  /\ m + n + 1 \in Nat /\ m < m + n + 1 /\ n < m + n + 1
           /\ \A k \in Nat : k <= m \/ k <= n => k <= m + n + 1
  OBVIOUS

LEMMA Lengths ==
    ASSUME NEW pool, NEW F, Solves(F, pool), NEW a \in X!Ref
    PROVE  F[a] \in Seq(X!Addr) /\ Len(F[a]) \in Nat /\ ToSet(F[a]) \subseteq X!Addr
  BY DEF Solves, ToSet

\* Induction over the tags behind a tag.
LEMMA ByLength ==
    ASSUME NEW pool, NEW F, Solves(F, pool), NEW Bad \in SUBSET X!Ref,
           \A x \in Bad : \E y \in Bad : Len(F[y]) < Len(F[x])
    PROVE  Bad = {}
  <1> SUFFICES ASSUME Bad # {} PROVE FALSE
    OBVIOUS
  <1> DEFINE lengths == {Len(F[x]) : x \in Bad}
  <1>1. lengths \in SUBSET Nat /\ lengths # {}
    BY Lengths
  <1>2. PICK m \in lengths : \A k \in lengths : m <= k
    <2> HIDE DEF lengths
    <2> QED  BY <1>1, LeastNat
  <1>3. PICK x \in Bad : m = Len(F[x])
    BY <1>2
  <1>4. PICK y \in Bad : Len(F[y]) < Len(F[x])
    OBVIOUS
  <1>5. m <= Len(F[y]) /\ Len(F[y]) \in Nat /\ m \in Nat
    BY <1>1, <1>2, Lengths
  <1> QED  BY <1>3, <1>4, <1>5

\* What is behind a tag has behind it only what the tag has.
LEMMA Descend ==
    ASSUME NEW pool \in [X!Addr -> Entry], NEW F, Solves(F, pool),
           NEW x \in X!Ref, NEW a \in ToSet(F[x])
    PROVE  ToSet(F[a]) \subseteq ToSet(F[x]) /\ Len(F[a]) <= Len(F[x])
  <1> DEFINE ok(y) == \A b \in ToSet(F[y]) : ToSet(F[b]) \subseteq ToSet(F[y]) /\ Len(F[b]) <= Len(F[y])
             bad == {y \in X!Ref : ~ ok(y)}
  <1>1. ASSUME NEW y \in bad PROVE \E z \in bad : Len(F[z]) < Len(F[y])
    <2>1. y \in X!Addr
      BY Single, Sizes DEF Solves, X!Ref
    <2> DEFINE s == pool[y].tag
               u == pool[y].next
    <2>2. /\ s \in X!Ref /\ u \in X!Ref
          /\ ToSet(F[y]) = ToSet(F[s]) \union ToSet(F[u]) \union {y}
          /\ Len(F[y]) = Len(F[s]) + Len(F[u]) + 1
      BY <2>1, Node
    <2> HIDE DEF s, u
    <2>3. Len(F[s]) \in Nat /\ Len(F[u]) \in Nat /\ Len(F[y]) \in Nat
      BY <2>2, Lengths
    <2>4. /\ Len(F[s]) < Len(F[y]) /\ Len(F[u]) < Len(F[y])
          /\ \A k \in Nat : k <= Len(F[s]) \/ k <= Len(F[u]) => k <= Len(F[y])
      <3> DEFINE m == Len(F[s])
                 n == Len(F[u])
                 l == Len(F[y])
      <3>1. m \in Nat /\ n \in Nat /\ l = m + n + 1
        BY <2>2, <2>3
      <3> HIDE DEF m, n, l
      <3>2. m < l /\ n < l /\ \A k \in Nat : k <= m \/ k <= n => k <= l
        BY <3>1, Longer
      <3> QED  BY <3>2 DEF m, n, l
    <2>5. ASSUME ok(s), ok(u) PROVE ok(y)
      <3>1. ASSUME NEW b \in ToSet(F[y])
            PROVE  ToSet(F[b]) \subseteq ToSet(F[y]) /\ Len(F[b]) <= Len(F[y])
        <4>1. b \in X!Ref /\ Len(F[b]) \in Nat
          BY Lengths, Sizes
        <4>2. CASE b \in ToSet(F[s])
          <5>1. ToSet(F[b]) \subseteq ToSet(F[s]) /\ Len(F[b]) <= Len(F[s])
            BY <2>5, <4>2
          <5>2. Len(F[b]) <= Len(F[y])
            BY <5>1, <2>4, <4>1
          <5> QED  BY <5>1, <5>2, <2>2
        <4>3. CASE b \in ToSet(F[u])
          <5>1. ToSet(F[b]) \subseteq ToSet(F[u]) /\ Len(F[b]) <= Len(F[u])
            BY <2>5, <4>3
          <5>2. Len(F[b]) <= Len(F[y])
            BY <5>1, <2>4, <4>1
          <5> QED  BY <5>1, <5>2, <2>2
        <4>4. CASE b = y
          BY <4>4, <2>3
        <4> QED  BY <2>2, <4>2, <4>3, <4>4
      <3> QED  BY <3>1
    <2>6. s \in bad \/ u \in bad
      <3> HIDE DEF ok
      <3> QED  BY <2>2, <2>5
    <2> HIDE DEF bad
    <2> QED  BY <2>4, <2>6
  <1>2. bad = {}
    <2>1. bad \in SUBSET X!Ref
      OBVIOUS
    <2> HIDE DEF bad
    <2> QED  BY <1>1, <2>1, ByLength
  <1>3. ok(x)
    <2> HIDE DEF ok
    <2> QED  BY <1>2
  <1> QED  BY <1>3

\* The order of FreeOrder in any pool: the recursive definition has one solution.
OrderIn(pool, t) ==
    LET order[a \in X!Ref] ==
            IF a = 0 THEN <<>> ELSE order[pool[a].tag] \o order[pool[a].next] \o <<a>>
    IN  order[t]

LEMMA OrderIs ==
    ASSUME NEW pool \in [X!Addr -> Entry], NEW F, Solves(F, pool)
    PROVE  \A t \in X!Ref : OrderIn(pool, t) = F[t]
  <1> DEFINE step(G) == [a \in X!Ref |-> IF a = 0 THEN <<>> ELSE G[pool[a].tag] \o G[pool[a].next] \o <<a>>]
             order == CHOOSE G : G = step(G)
  <1>1. F = step(F)
    BY Sizes DEF Solves, X!Ref
  <1>2. order = step(order)
    <2> HIDE DEF step
    <2> QED  BY <1>1
  <1> DEFINE bad == {a \in X!Ref : order[a] # F[a]}
  <1>3. ASSUME NEW a \in bad PROVE \E b \in bad : Len(F[b]) < Len(F[a])
    <2>1. order[0] = <<>> /\ F[0] = <<>>
      BY <1>2, Sizes DEF Solves
    <2>2. a \in X!Addr
      BY <2>1 DEF X!Ref
    <2> DEFINE s == pool[a].tag
               u == pool[a].next
    <2>3. s \in X!Ref /\ u \in X!Ref /\ Len(F[a]) = Len(F[s]) + Len(F[u]) + 1
      BY <2>2, Node
    <2>4. order[a] = order[s] \o order[u] \o <<a>> /\ F[a] = F[s] \o F[u] \o <<a>>
      <3>1. step(order)[a] = order[s] \o order[u] \o <<a>>
        BY <2>2, Sizes
      <3> HIDE DEF order, step
      <3> QED  BY <1>2, <2>2, <3>1 DEF Solves
    <2> HIDE DEF s, u, order
    <2>5. s \in bad \/ u \in bad
      BY <2>3, <2>4
    <2>6. Len(F[s]) < Len(F[a]) /\ Len(F[u]) < Len(F[a])
      <3>1. Len(F[s]) \in Nat /\ Len(F[u]) \in Nat
        BY <2>3, Lengths
      <3> QED  BY <2>3, <3>1, Longer
    <2> HIDE DEF bad
    <2> QED  BY <2>5, <2>6
  <1>4. bad = {}
    <2>1. bad \in SUBSET X!Ref
      OBVIOUS
    <2> HIDE DEF bad
    <2> QED  BY <1>3, <2>1, ByLength
  <1>5. \A t \in X!Ref : OrderIn(pool, t) = order[t]
    BY DEF OrderIn
  <1> HIDE DEF order
  <1> QED  BY <1>4, <1>5

LEMMA FreeOrderIs ==
    ASSUME tags \in [X!Addr -> Entry], NEW F, Solves(F, tags)
    PROVE  \A t \in X!Ref : X!FreeOrder(t) = F[t]
  <1>1. \A t : X!FreeOrder(t) = OrderIn(tags, t)
    BY DEF X!FreeOrder, OrderIn
  <1> QED  BY <1>1, OrderIs

-----------------------------------------------------------------------------
(* The pool as a forest *)

\* The tags 1 .. m were allocated, and each is behind one of the roots, once.
Forest(F, pool, R, m) ==
    /\ Solves(F, pool)
    /\ R \subseteq X!Addr
    /\ \A a \in R : IsInjective(F[a])
    /\ \A a, b \in R : a # b => ToSet(F[a]) \cap ToSet(F[b]) = {}
    /\ UNION {ToSet(F[a]) : a \in R} = 1 .. m
    /\ \A a \in X!Addr \ 1 .. m : pool[a] = X!FreeTag

\* A tag is not behind what it points at.
LEMMA Behind ==
    ASSUME NEW pool \in [X!Addr -> Entry], NEW F, Solves(F, pool), NEW a \in X!Addr
    PROVE  /\ a \in ToSet(F[a])
           /\ a \notin ToSet(F[pool[a].tag]) /\ a \notin ToSet(F[pool[a].next])
           /\ Len(F[pool[a].tag]) < Len(F[a]) /\ Len(F[pool[a].next]) < Len(F[a])
  <1> DEFINE s == pool[a].tag
             u == pool[a].next
             m == Len(F[s])
             n == Len(F[u])
             l == Len(F[a])
  <1>0. /\ s \in X!Ref /\ u \in X!Ref /\ l = m + n + 1
        /\ ToSet(F[a]) = ToSet(F[s]) \union ToSet(F[u]) \union {a}
    BY Node, Zenon
  <1>1. s \in X!Ref /\ u \in X!Ref /\ l = m + n + 1 /\ a \in ToSet(F[a])
    <2>1. a \in ToSet(F[a])
      BY <1>0, Zenon
    <2> QED  BY <1>0, <2>1
  <1>2. m \in Nat /\ n \in Nat /\ l \in Nat
    BY <1>1, Lengths, Sizes
  <1>3. a \in ToSet(F[s]) => l <= m
    BY <1>1, Descend
  <1>4. a \in ToSet(F[u]) => l <= n
    BY <1>1, Descend
  <1> HIDE DEF m, n, l
  <1>5. m < l /\ n < l /\ ~ (l <= m) /\ ~ (l <= n)
    BY <1>1, <1>2
  <1> QED  BY <1>1, <1>3, <1>4, <1>5 DEF m, n, l

\* Only a tag of the same tree points at a tag.
LEMMA PointsInto ==
    ASSUME NEW pool \in [X!Addr -> Entry], NEW F, NEW R, NEW m, Forest(F, pool, R, m),
           NEW b \in R, NEW x \in ToSet(F[b]), NEW a \in X!Addr,
           pool[a].tag = x \/ pool[a].next = x
    PROVE  a \in ToSet(F[b])
  <1>1. b \in X!Addr /\ b \in X!Ref /\ Solves(F, pool)
    BY Sizes DEF Forest
  <1>2. x \in X!Addr /\ x # 0
    BY <1>1, Lengths, Sizes
  <1>3. a \in 1 .. m
    BY <1>2 DEF Forest, X!FreeTag
  <1>4. PICK c \in R : a \in ToSet(F[c])
    BY <1>3 DEF Forest
  <1>5. x \in ToSet(F[x])
    BY <1>1, <1>2, Behind
  <1>6. x \in ToSet(F[a])
    <2>1. ToSet(F[a]) = ToSet(F[pool[a].tag]) \union ToSet(F[pool[a].next]) \union {a}
      BY <1>1, Node, ZenonT(60)
    <2> QED  BY <1>5, <2>1
  <1>7. ToSet(F[a]) \subseteq ToSet(F[c])
    BY <1>1, <1>4, Descend, Sizes DEF Forest
  <1>8. b = c
    BY <1>6, <1>7 DEF Forest
  <1> QED  BY <1>4, <1>8

LEMMA RootAlone ==
    ASSUME NEW pool \in [X!Addr -> Entry], NEW F, NEW R, NEW m, Forest(F, pool, R, m),
           NEW b \in R, NEW a \in X!Addr
    PROVE  pool[a].tag # b /\ pool[a].next # b
  <1>1. b \in X!Addr /\ b \in X!Ref /\ Solves(F, pool)
    BY Sizes DEF Forest
  <1>2. b \in ToSet(F[b])
    BY <1>1, Behind
  <1> SUFFICES ASSUME pool[a].tag = b \/ pool[a].next = b PROVE FALSE
    OBVIOUS
  <1>3. a \in ToSet(F[b])
    BY <1>2, PointsInto
  <1>4. Len(F[a]) <= Len(F[b])
    BY <1>1, <1>3, Descend
  <1>5. Len(F[b]) < Len(F[a])
    BY <1>1, Behind
  <1>6. Len(F[a]) \in Nat /\ Len(F[b]) \in Nat
    BY <1>1, Lengths, Sizes
  <1> QED  BY <1>4, <1>5, <1>6

\* G is F after t became e.
Rewires(G, F, pool, t, e) ==
    /\ Solves(G, [pool EXCEPT ![t] = e])
    /\ \A x \in X!Ref \ {t} : G[x] = F[x]
    /\ ToSet(G[t]) = ToSet(F[e.tag]) \union ToSet(F[e.next]) \union {t}
    /\ IsInjective(G[t])

\* A root that gets other pointers.
LEMMA Rewired ==
    ASSUME NEW pool \in [X!Addr -> Entry], NEW F, Solves(F, pool), NEW t \in X!Addr,
           \A a \in X!Addr : pool[a].tag # t /\ pool[a].next # t,
           NEW e \in Entry, t \notin ToSet(F[e.tag]), t \notin ToSet(F[e.next]),
           IsInjective(F[e.tag]), IsInjective(F[e.next]), ToSet(F[e.tag]) \cap ToSet(F[e.next]) = {}
    PROVE  \E G : Rewires(G, F, pool, t, e)
  <1>1. e.tag \in X!Ref /\ e.next \in X!Ref
    BY DEF Entry
  <1> DEFINE s == F[e.tag]
             u == F[e.next]
             w == s \o u
             v == <<t>>
             G == [F EXCEPT ![t] = w \o v]
  <1>2. s \in Seq(X!Addr) /\ u \in Seq(X!Addr)
    BY <1>1 DEF Solves
  <1>3. e.tag # t /\ e.next # t
    BY Behind
  <1>4. w \in Seq(X!Addr) /\ ToSet(w) = ToSet(s) \union ToSet(u) /\ IsInjective(w)
    <2>1. IsInjective(s) /\ IsInjective(u) /\ ToSet(s) \cap ToSet(u) = {}
      OBVIOUS
    <2> HIDE DEF s, u
    <2> QED  BY <1>2, <2>1, Joined, JoinedOnce
  <1>5. v \in Seq(X!Addr) /\ ToSet(v) = {t} /\ IsInjective(v)
    BY Single
  <1>6. w \o v \in Seq(X!Addr) /\ ToSet(w \o v) = ToSet(w) \union {t}
    <2> HIDE DEF w, v
    <2> QED  BY <1>4, <1>5, Joined
  <1>7. IsInjective(w \o v)
    <2>1. t \notin ToSet(w)
      BY <1>4
    <2> HIDE DEF w, v
    <2> QED  BY <1>4, <1>5, <2>1, JoinedOnce
  <1>8. t \in X!Ref /\ t # 0
    BY Sizes
  <1>9. /\ G[t] = w \o v /\ \A x \in X!Ref \ {t} : G[x] = F[x]
        /\ G \in [X!Ref -> Seq(X!Addr)]
    BY <1>6, <1>8 DEF Solves
  <1>10. G[0] = <<>>
    BY <1>8, <1>9, Sizes DEF Solves
  <1> DEFINE rest == [pool EXCEPT ![t] = e]
  <1>11. ASSUME NEW a \in X!Addr PROVE G[a] = G[rest[a].tag] \o G[rest[a].next] \o <<a>>
    <2>1. CASE a = t
      <3>1. rest[a] = e /\ G[e.tag] = s /\ G[e.next] = u
        BY <1>1, <1>3, <1>9, <2>1
      <3>2. G[a] = s \o u \o <<a>>
        BY <1>9, <2>1
      <3> HIDE DEF G, rest, s, u
      <3> QED  BY <3>1, <3>2
    <2>2. CASE a # t
      <3>1. rest[a] = pool[a] /\ pool[a].tag \in X!Ref \ {t} /\ pool[a].next \in X!Ref \ {t}
        BY <2>2 DEF Entry
      <3>2. G[a] = F[a] /\ G[pool[a].tag] = F[pool[a].tag] /\ G[pool[a].next] = F[pool[a].next]
        BY <1>9, <2>2, <3>1, Sizes
      <3>3. F[a] = F[pool[a].tag] \o F[pool[a].next] \o <<a>>
        BY DEF Solves
      <3> HIDE DEF G, rest
      <3> QED  BY <3>1, <3>2, <3>3
    <2> QED  BY <2>1, <2>2
  <1>12. Solves(G, rest)
    <2> HIDE DEF G, rest
    <2> QED  BY <1>9, <1>10, <1>11 DEF Solves
  <1>13. ToSet(G[t]) = ToSet(s) \union ToSet(u) \union {t} /\ IsInjective(G[t])
    BY <1>4, <1>6, <1>7, <1>9
  <1>14. Rewires(G, F, pool, t, e)
    <2> HIDE DEF G
    <2> QED  BY <1>9, <1>12, <1>13 DEF Rewires
  <1> QED  BY <1>14, Zenon

\* What is behind a tag that has nothing twice behind it.
LEMMA PartsOfNode ==
    ASSUME NEW pool \in [X!Addr -> Entry], NEW F, Solves(F, pool), NEW a \in X!Addr,
           IsInjective(F[a])
    PROVE  IsInjective(F[pool[a].tag]) /\ IsInjective(F[pool[a].next])
  <1> DEFINE s == F[pool[a].tag]
             u == F[pool[a].next]
             w == s \o u
             v == <<a>>
  <1>1. s \in Seq(X!Addr) /\ u \in Seq(X!Addr)
    BY Node
  <1>2. F[a] = w \o v
    BY DEF Solves
  <1>3. v \in Seq(X!Addr)
    BY Single
  <1>4. w \in Seq(X!Addr)
    <2> HIDE DEF s, u
    <2> QED  BY <1>1, Joined
  <1>5. IsInjective(w)
    <2> HIDE DEF w, v
    <2> QED  BY <1>2, <1>3, <1>4, PartsOnce
  <1>6. IsInjective(s) /\ IsInjective(u)
    <2> HIDE DEF s, u
    <2> QED  BY <1>1, <1>5, PartsOnce
  <1> QED  BY <1>6

\* The first free tag, f, becomes e: its successor is free, what e holds no root.
Takes(F, pool, R, m, f, e) ==
    /\ pool[f].next \in X!Ref /\ pool[f].next \notin R
    /\ ToSet(F[pool[f].next]) = ToSet(F[f]) \ {f}
    /\ \E G : /\ Forest(G, [pool EXCEPT ![f] = e], ((R \ {e.tag}) \union {pool[f].next}) \ {0}, m)
              /\ \A x \in X!Ref \ {f} : G[x] = F[x]

LEMMA TagTaken ==
    ASSUME NEW pool \in [X!Addr -> Entry], NEW F, NEW R, NEW m, Forest(F, pool, R, m),
           NEW f \in R, pool[f].tag = 0,
           NEW e \in Entry, e.next = 0, e.tag = 0 \/ e.tag \in R \ {f}
    PROVE  Takes(F, pool, R, m, f, e)
  <1> DEFINE n == pool[f].next
             s == e.tag
             rest == [pool EXCEPT ![f] = e]
             R2 == ((R \ {s}) \union {n}) \ {0}
  <1>1. f \in X!Addr /\ R \subseteq X!Addr /\ Solves(F, pool) /\ IsInjective(F[f])
    BY DEF Forest
  <1>2. /\ n \in X!Ref
        /\ ToSet(F[f]) = ToSet(F[0]) \union ToSet(F[n]) \union {f}
    <2>1. n \in X!Ref /\ ToSet(F[f]) = ToSet(F[pool[f].tag]) \union ToSet(F[n]) \union {f}
      BY <1>1, Node, Zenon
    <2> QED  BY <2>1, Zenon
  <1>3. F[0] = <<>> /\ ToSet(F[0]) = {} /\ IsInjective(F[0])
    BY <1>1, Single DEF Solves
  <1>4. f \notin ToSet(F[n]) /\ n # f
    BY <1>1, Behind
  <1>5. ToSet(F[n]) = ToSet(F[f]) \ {f}
    BY <1>2, <1>3, <1>4
  <1>6. IsInjective(F[n])
    BY <1>1, PartsOfNode
  <1>7. \A b \in R : b \in ToSet(F[b])
    BY <1>1, Behind
  <1>8. n # 0 => n \in ToSet(F[n])
    BY <1>1, <1>2, Behind DEF X!Ref
  <1>9. n \notin R
    BY <1>1, <1>4, <1>5, <1>7, <1>8, Sizes DEF Forest
  <1>10. /\ f \notin ToSet(F[s]) /\ IsInjective(F[s])
         /\ \A b \in R \ {s} : ToSet(F[b]) \cap ToSet(F[s]) = {}
         /\ ToSet(F[f]) \cap ToSet(F[s]) = {}
    BY <1>3, <1>7 DEF Forest
  <1>11. PICK G : /\ Solves(G, rest)
                  /\ \A x \in X!Ref \ {f} : G[x] = F[x]
                  /\ ToSet(G[f]) = ToSet(F[s]) \union {f}
                  /\ IsInjective(G[f])
    <2>1. \A a \in X!Addr : pool[a].tag # f /\ pool[a].next # f
      BY RootAlone
    <2>2. f \notin ToSet(F[e.tag]) /\ f \notin ToSet(F[e.next])
          /\ IsInjective(F[e.tag]) /\ IsInjective(F[e.next]) /\ ToSet(F[e.tag]) \cap ToSet(F[e.next]) = {}
      BY <1>3, <1>10
    <2>3. PICK G : Rewires(G, F, pool, f, e)
      <3> HIDE DEF n, s, rest, R2
      <3> QED  BY <1>1, <2>1, <2>2, Rewired
    <2> QED  BY <1>3, <2>3 DEF Rewires
  <1> HIDE DEF n, s, rest, R2
  <1>12. \A b \in R : b # f => G[b] = F[b]
    BY <1>1, <1>11, Sizes
  <1>13. G[n] = F[n]
    BY <1>2, <1>4, <1>11
  <1>14. R2 \subseteq X!Addr
    BY <1>1, <1>2, Sizes DEF R2, X!Ref
  <1>15. \A b \in R2 : b = f \/ b = n \/ (b \in R \ {f, s})
    BY DEF R2
  <1>16. \A b \in R2 : IsInjective(G[b])
    <2>1. \A b \in R : IsInjective(F[b])
      BY DEF Forest
    <2> QED  BY <1>6, <1>11, <1>12, <1>13, <1>15, <2>1, Zenon
  <1>17. ASSUME NEW a \in R2, NEW b \in R2, a # b PROVE ToSet(G[a]) \cap ToSet(G[b]) = {}
    <2>1. \A c, d \in R : c # d => ToSet(F[c]) \cap ToSet(F[d]) = {}
      BY DEF Forest
    <2>2. ASSUME NEW c \in R \ {f, s}
          PROVE  ToSet(G[c]) \cap ToSet(G[f]) = {} /\ ToSet(G[c]) \cap ToSet(G[n]) = {}
      <3>1. ToSet(G[c]) \cap ToSet(F[f]) = {} /\ ToSet(G[c]) \cap ToSet(F[s]) = {}
        BY <1>10, <1>12, <2>1
      <3> QED  BY <1>5, <1>7, <1>11, <1>13, <3>1
    <2>3. ToSet(G[n]) \cap ToSet(G[f]) = {}
      BY <1>5, <1>10, <1>11, <1>13
    <2>4. ASSUME NEW c \in R \ {f, s}, NEW d \in R \ {f, s}, c # d
          PROVE  ToSet(G[c]) \cap ToSet(G[d]) = {}
      BY <1>12, <2>1, <2>4
    <2>5. ToSet(G[f]) \cap ToSet(G[n]) = {}
      BY <2>3
    <2>6. \A c \in R \ {f, s} : ToSet(G[f]) \cap ToSet(G[c]) = {} /\ ToSet(G[n]) \cap ToSet(G[c]) = {}
      BY <2>2
    <2> QED  BY <1>15, <1>17, <2>2, <2>3, <2>4, <2>5, <2>6
  <1>18. ASSUME NEW z PROVE (\E a \in R2 : z \in ToSet(G[a])) <=> (\E a \in R : z \in ToSet(F[a]))
    <2>1. ASSUME NEW a \in R2, z \in ToSet(G[a]) PROVE \E b \in R : z \in ToSet(F[b])
      <3>1. CASE a = f
        <4>1. z \in ToSet(F[s]) \/ z = f
          BY <1>11, <2>1, <3>1
        <4>2. s \in R \/ ToSet(F[s]) = {}
          BY <1>3 DEF s
        <4> QED  BY <1>7, <4>1, <4>2
      <3>2. CASE a = n
        BY <1>5, <1>13, <2>1, <3>2
      <3>3. CASE a \in R \ {f, s}
        BY <1>12, <2>1, <3>3
      <3> QED  BY <1>15, <3>1, <3>2, <3>3
    <2>2. ASSUME NEW a \in R, z \in ToSet(F[a]) PROVE \E b \in R2 : z \in ToSet(G[b])
      <3>1. f \in R2
        BY <1>1, Sizes DEF R2, s
      <3>2. CASE a = f
        <4>1. z = f \/ z \in ToSet(F[n])
          BY <1>5, <2>2, <3>2
        <4>2. CASE z = f
          BY <1>11, <3>1, <4>2
        <4>3. CASE z \in ToSet(F[n])
          <5>1. n \in R2
            BY <1>3, <4>3 DEF R2
          <5> QED  BY <1>13, <4>3, <5>1
        <4> QED  BY <4>1, <4>2, <4>3
      <3>3. CASE a = s
        BY <1>11, <2>2, <3>1, <3>3
      <3>4. CASE a \in R \ {f, s}
        <4>1. a \in R2
          BY <1>1, <3>4, Sizes DEF R2
        <4> QED  BY <1>12, <2>2, <3>4, <4>1
      <3> QED  BY <3>2, <3>3, <3>4
    <2> QED  BY <2>1, <2>2
  <1>19. UNION {ToSet(G[a]) : a \in R2} = 1 .. m
    <2>1. UNION {ToSet(F[a]) : a \in R} = 1 .. m
      BY DEF Forest
    <2> QED  BY <1>18, <2>1, Zenon
  <1>20. \A a \in X!Addr \ 1 .. m : rest[a] = X!FreeTag
    <2>1. f \in 1 .. m
      BY <1>7 DEF Forest
    <2> QED  BY <2>1 DEF Forest, rest
  <1>21. Forest(G, rest, R2, m)
    BY <1>11, <1>14, <1>16, <1>17, <1>19, <1>20 DEF Forest
  <1>22. \E H : Forest(H, rest, R2, m) /\ \A x \in X!Ref \ {f} : H[x] = F[x]
    BY <1>11, <1>21
  <1> QED  BY <1>2, <1>5, <1>9, <1>22 DEF n, s, rest, R2, Takes

\* A tag that stands alone goes to the front of the list h.
Chains(F, pool, R, m, t, h) ==
    \E G : /\ Forest(G, [pool EXCEPT ![t] = [pool[t] EXCEPT !.next = h]], R \ {h}, m)
          /\ \A x \in X!Ref \ {t} : G[x] = F[x]

LEMMA TagChained ==
    ASSUME NEW pool \in [X!Addr -> Entry], NEW F, NEW R, NEW m, Forest(F, pool, R, m),
           NEW t \in R, pool[t].next = 0, NEW h, h = 0 \/ h \in R \ {t}
    PROVE  Chains(F, pool, R, m, t, h)
  <1> DEFINE e == [pool[t] EXCEPT !.next = h]
             s == e.tag
             rest == [pool EXCEPT ![t] = e]
             R2 == R \ {h}
  <1>1. t \in X!Addr /\ R \subseteq X!Addr /\ Solves(F, pool) /\ IsInjective(F[t])
    BY DEF Forest
  <1>2. h \in X!Ref /\ pool[t] \in Entry
    BY <1>1, Sizes
  <1>3. e \in Entry /\ s = pool[t].tag /\ e.next = h
    BY <1>2 DEF Entry
  <1> HIDE DEF e
  <1>4. F[0] = <<>> /\ ToSet(F[0]) = {} /\ IsInjective(F[0])
    BY <1>1, Single DEF Solves
  <1>5. /\ ToSet(F[t]) = ToSet(F[s]) \union {t}
        /\ t \notin ToSet(F[s])
    <2>1. ToSet(F[t]) = ToSet(F[pool[t].tag]) \union ToSet(F[pool[t].next]) \union {t}
      BY <1>1, Node, Zenon
    <2>2. t \notin ToSet(F[pool[t].tag])
      BY <1>1, Behind
    <2> QED  BY <1>3, <1>4, <2>1, <2>2
  <1>6. IsInjective(F[s])
    BY <1>1, <1>3, PartsOfNode
  <1>7. \A b \in R : b \in ToSet(F[b])
    BY <1>1, Behind
  <1>8. /\ t \notin ToSet(F[h]) /\ IsInjective(F[h]) /\ ToSet(F[t]) \cap ToSet(F[h]) = {}
        /\ \A b \in R \ {h} : ToSet(F[b]) \cap ToSet(F[h]) = {}
    BY <1>4, <1>7 DEF Forest
  <1>9. PICK G : Rewires(G, F, pool, t, e)
    <2>1. \A a \in X!Addr : pool[a].tag # t /\ pool[a].next # t
      BY RootAlone
    <2>2. t \notin ToSet(F[e.tag]) /\ t \notin ToSet(F[e.next])
          /\ IsInjective(F[e.tag]) /\ IsInjective(F[e.next]) /\ ToSet(F[e.tag]) \cap ToSet(F[e.next]) = {}
      BY <1>3, <1>5, <1>6, <1>8
    <2> HIDE DEF s, rest, R2
    <2> QED  BY <1>1, <1>3, <2>1, <2>2, Rewired
  <1>10. /\ Solves(G, rest) /\ \A x \in X!Ref \ {t} : G[x] = F[x]
         /\ ToSet(G[t]) = ToSet(F[t]) \union ToSet(F[h]) /\ IsInjective(G[t])
    BY <1>3, <1>5, <1>9 DEF Rewires
  <1> HIDE DEF s, rest, R2
  <1>11. \A b \in R : b # t => G[b] = F[b]
    BY <1>1, <1>10, Sizes
  <1>12. \A b \in R2 : IsInjective(G[b])
    <2>1. \A b \in R : IsInjective(F[b])
      BY DEF Forest
    <2> QED  BY <1>10, <1>11, <2>1, Zenon DEF R2
  <1>13. \A c, d \in R : c # d => ToSet(F[c]) \cap ToSet(F[d]) = {}
    BY DEF Forest
  <1>14. ASSUME NEW a \in R2, NEW b \in R2, a # b PROVE ToSet(G[a]) \cap ToSet(G[b]) = {}
    <2>1. a \in R \ {h} /\ b \in R \ {h}
      BY DEF R2
    <2>2. \A c \in R \ {h} : c # t => ToSet(G[c]) \cap ToSet(G[t]) = {}
      BY <1>8, <1>10, <1>11, <1>13
    <2>3. CASE a = t
      BY <1>14, <2>1, <2>2, <2>3
    <2>4. CASE b = t
      BY <1>14, <2>1, <2>2, <2>4
    <2>5. CASE a # t /\ b # t
      BY <1>11, <1>13, <1>14, <2>1, <2>5
    <2> QED  BY <2>3, <2>4, <2>5
  <1>15. ASSUME NEW z PROVE (\E a \in R2 : z \in ToSet(G[a])) <=> (\E a \in R : z \in ToSet(F[a]))
    <2>1. ASSUME NEW a \in R2, z \in ToSet(G[a]) PROVE \E b \in R : z \in ToSet(F[b])
      <3>1. h \in R \/ ToSet(F[h]) = {}
        BY <1>4
      <3> QED  BY <1>10, <1>11, <2>1, <3>1 DEF R2
    <2>2. ASSUME NEW a \in R, z \in ToSet(F[a]) PROVE \E b \in R2 : z \in ToSet(G[b])
      <3>1. t \in R2
        BY <1>1, Sizes DEF R2
      <3>2. CASE a = t \/ a = h
        BY <1>10, <2>2, <3>1, <3>2
      <3>3. CASE a # t /\ a # h
        BY <1>11, <2>2, <3>3 DEF R2
      <3> QED  BY <3>2, <3>3
    <2> QED  BY <2>1, <2>2
  <1>16. UNION {ToSet(G[a]) : a \in R2} = 1 .. m
    <2>1. UNION {ToSet(F[a]) : a \in R} = 1 .. m
      BY DEF Forest
    <2> QED  BY <1>15, <2>1, Zenon
  <1>17. \A a \in X!Addr \ 1 .. m : rest[a] = X!FreeTag
    <2>1. t \in 1 .. m
      BY <1>7 DEF Forest
    <2> QED  BY <2>1 DEF Forest, rest
  <1>18. Forest(G, rest, R2, m)
    BY <1>1, <1>10, <1>12, <1>14, <1>16, <1>17 DEF Forest, R2
  <1> QED  BY <1>10, <1>18 DEF rest, R2, e, Chains

-----------------------------------------------------------------------------
(* XMLFreeTag *)

LEMMA OneMore ==
    ASSUME NEW S, NEW s \in Seq(S), NEW u \in Seq(S), NEW i \in 2 .. Len(u)
    PROVE  s \o SubSeq(u, 1, i) = (<<>> \o (s \o SubSeq(u, 1, i - 1))) \o <<u[i]>>
  OBVIOUS

LEMMA FirstOne ==
    ASSUME NEW S, NEW s \in Seq(S), NEW u \in Seq(S), 1 \in 1 .. Len(u)
    PROVE  s \o SubSeq(u, 1, 1) = (<<>> \o s) \o <<u[1]>>
  OBVIOUS

\* The pool after the tags of order went to the front of the free list f.
PutBack(pool, order, f) ==
    LET at(a) == CHOOSE i \in DOMAIN order : order[i] = a
    IN  [a \in X!Addr |->
            IF a \notin ToSet(order) THEN pool[a]
            ELSE [X!FreeTag EXCEPT !.next = IF at(a) = 1 THEN f ELSE order[at(a) - 1]]]

LEMMA EveryPlace ==
    ASSUME NEW S, NEW s \in Seq(S), IsInjective(s)
    PROVE  \A i \in 1 .. Len(s) : (CHOOSE k \in DOMAIN s : s[k] = s[i]) = i
  BY DEF IsInjective

\* The tags behind a root become free, the last one first.
Frees(F, pool, R, m, q, f) ==
    /\ Last(F[q]) = q /\ F[q] # <<>> /\ IsInjective(F[q])
    /\ PutBack(pool, F[q], f) \in [X!Addr -> Entry]
    /\ \E G : /\ Forest(G, PutBack(pool, F[q], f), R \ {f}, m)
              /\ \A x \in X!Ref \ ToSet(F[q]) : G[x] = F[x]
              /\ ToSet(G[q]) = ToSet(F[f]) \union ToSet(F[q])

LEMMA TagsFreed ==
    ASSUME NEW pool \in [X!Addr -> Entry], NEW F, NEW R, NEW m, Forest(F, pool, R, m),
           NEW q \in R, NEW f \in X!Ref, f = 0 \/ f \in R \ {q}
    PROVE  Frees(F, pool, R, m, q, f)
  <1> DEFINE order == F[q]
             at(a) == CHOOSE i \in DOMAIN order : order[i] = a
             rest == PutBack(pool, order, f)
             R2 == R \ {f}
  <1>1. q \in X!Addr /\ R \subseteq X!Addr /\ Solves(F, pool) /\ IsInjective(order)
    BY DEF Forest
  <1>2. order \in Seq(X!Addr) /\ F[f] \in Seq(X!Addr)
    BY <1>1, Lengths, Sizes
  <1>3. \A b \in R : b \in ToSet(F[b])
    BY <1>1, Behind
  <1>4. f \notin ToSet(order) /\ ToSet(F[f]) \cap ToSet(order) = {} /\ IsInjective(F[f])
    <2>1. F[0] = <<>> /\ ToSet(F[0]) = {} /\ IsInjective(F[0])
      BY <1>1, Single DEF Solves
    <2>2. 0 \notin ToSet(order)
      BY <1>2, Sizes DEF ToSet
    <2> QED  BY <1>3, <2>1, <2>2 DEF Forest
  <1>5. order # <<>> /\ Last(order) = q
    <2> DEFINE w == F[pool[q].tag] \o F[pool[q].next]
    <2>1. w \in Seq(X!Addr) /\ order = w \o <<q>>
      BY <1>1, Node, Joined DEF Solves
    <2> HIDE DEF w, order
    <2>2. Len(w \o <<q>>) = Len(w) + 1 /\ (w \o <<q>>)[Len(w) + 1] = q
      BY <2>1
    <2> QED  BY <2>1, <2>2 DEF Last
  <1>6. Len(order) \in Nat \ {0} /\ DOMAIN order = 1 .. Len(order)
    <2> HIDE DEF order
    <2> QED  BY <1>2, <1>5
  <1>7. \A i \in 1 .. Len(order) : at(order[i]) = i
    <2>1. \A i \in 1 .. Len(order) : (CHOOSE k \in DOMAIN order : order[k] = order[i]) = i
      <3> HIDE DEF order
      <3> QED  BY <1>1, <1>2, EveryPlace
    <2> QED  BY <2>1
  <1>8. \A a \in ToSet(order) : at(a) \in 1 .. Len(order) /\ order[at(a)] = a
    <2>1. \A a \in ToSet(order) : \E i \in 1 .. Len(order) : a = order[i]
      BY <1>6 DEF ToSet
    <2> HIDE DEF at, order
    <2> QED  BY <1>7, <2>1
  <1>9. /\ \A a \in X!Addr : a \notin ToSet(order) => rest[a] = pool[a]
        /\ \A a \in X!Addr : a \in ToSet(order) =>
              rest[a] = [X!FreeTag EXCEPT !.next = IF at(a) = 1 THEN f ELSE order[at(a) - 1]]
        /\ DOMAIN rest = X!Addr
    BY DEF PutBack
  <1> HIDE DEF at, rest
  <1>10. ASSUME NEW a \in X!Addr, a \in ToSet(order)
         PROVE  /\ rest[a] \in Entry /\ rest[a].tag = 0
                /\ rest[a].next = IF at(a) = 1 THEN f ELSE order[at(a) - 1]
                /\ at(a) # 1 => order[at(a) - 1] \in ToSet(order) /\ at(order[at(a) - 1]) = at(a) - 1
    <2>1. at(a) # 1 => at(a) - 1 \in 1 .. Len(order)
      BY <1>6, <1>8, <1>10
    <2>2. at(a) # 1 => /\ order[at(a) - 1] \in ToSet(order) /\ order[at(a) - 1] \in X!Addr
                       /\ at(order[at(a) - 1]) = at(a) - 1
      BY <1>2, <1>6, <1>7, <2>1 DEF ToSet
    <2> DEFINE n == IF at(a) = 1 THEN f ELSE order[at(a) - 1]
    <2>3. n \in X!Ref /\ rest[a] = [X!FreeTag EXCEPT !.next = n]
      BY <1>9, <1>10, <2>2, Sizes
    <2> HIDE DEF n
    <2>4. rest[a] \in Entry /\ rest[a].tag = 0 /\ rest[a].next = n
      BY <2>3, Sizes DEF X!FreeTag, Entry, X!Types
    <2> QED  BY <2>2, <2>4 DEF n
  <1>11. rest \in [X!Addr -> Entry]
    <2>1. \A a \in X!Addr : rest[a] \in Entry
      BY <1>9, <1>10
    <2> QED  BY <1>9, <2>1, Zenon DEF rest, PutBack
  <1> DEFINE G == [x \in X!Ref |-> IF x \in ToSet(order) THEN F[f] \o SubSeq(order, 1, at(x)) ELSE F[x]]
  <1>12. /\ \A x \in X!Ref \ ToSet(order) : G[x] = F[x]
         /\ \A x \in ToSet(order) : G[x] = F[f] \o SubSeq(order, 1, at(x))
    <2>1. ToSet(order) \subseteq X!Ref
      BY <1>1, Lengths, Sizes
    <2> HIDE DEF order
    <2> QED  BY <2>1
  <1>13. G \in [X!Ref -> Seq(X!Addr)]
    <2>1. ASSUME NEW x \in X!Ref
          PROVE  (IF x \in ToSet(order) THEN F[f] \o SubSeq(order, 1, at(x)) ELSE F[x]) \in Seq(X!Addr)
      <3>1. CASE x \in ToSet(order)
        <4>1. at(x) \in 1 .. Len(order)
          BY <1>8, <3>1
        <4> DEFINE u == F[f]
        <4> HIDE DEF u, order
        <4>2. SubSeq(order, 1, at(x)) \in Seq(X!Addr)
          BY <1>2, <1>6, <4>1
        <4>3. u \o SubSeq(order, 1, at(x)) \in Seq(X!Addr)
          BY <1>2, <4>2 DEF u
        <4> QED  BY <3>1, <4>3 DEF u
      <3>2. CASE x \notin ToSet(order)
        BY <1>1, <3>2, Lengths
      <3> QED  BY <3>1, <3>2
    <2> QED  BY <2>1
  <1> HIDE DEF G
  <1>14. 0 \notin ToSet(order) /\ G[0] = <<>>
    BY <1>1, <1>2, <1>12, Sizes DEF ToSet, Solves
  <1>15. G[f] = F[f]
    BY <1>4, <1>12
  <1>16. ASSUME NEW a \in X!Addr PROVE G[a] = G[rest[a].tag] \o G[rest[a].next] \o <<a>>
    <2>1. CASE a \notin ToSet(order)
      <3>1. pool[a].tag \notin ToSet(order) /\ pool[a].next \notin ToSet(order)
        BY <2>1, PointsInto
      <3>2. rest[a] = pool[a] /\ pool[a].tag \in X!Ref /\ pool[a].next \in X!Ref
        BY <1>9, <2>1 DEF Entry
      <3>3. G[a] = F[a] /\ G[pool[a].tag] = F[pool[a].tag] /\ G[pool[a].next] = F[pool[a].next]
        BY <1>12, <2>1, <3>1, <3>2, Sizes
      <3>4. F[a] = F[pool[a].tag] \o F[pool[a].next] \o <<a>>
        BY <1>1 DEF Solves
      <3> QED  BY <3>2, <3>3, <3>4
    <2>2. CASE a \in ToSet(order) /\ at(a) = 1
      <3>1. rest[a].tag = 0 /\ rest[a].next = f
        BY <1>10, <2>2
      <3>2. order[1] = a /\ G[a] = F[f] \o SubSeq(order, 1, 1)
        BY <1>8, <1>12, <2>2
      <3> DEFINE u == F[f]
      <3> HIDE DEF u, order
      <3>3. u \o SubSeq(order, 1, 1) = (<<>> \o u) \o <<order[1]>>
        BY <1>2, <1>6, FirstOne DEF u
      <3> QED  BY <1>14, <1>15, <3>1, <3>2, <3>3 DEF u
    <2>3. CASE a \in ToSet(order) /\ at(a) # 1
      <3> DEFINE i == at(a)
                 b == order[i - 1]
      <3>1. rest[a].tag = 0 /\ rest[a].next = b /\ b \in ToSet(order) /\ at(b) = i - 1
        BY <1>10, <2>3
      <3>2. i \in 2 .. Len(order) /\ order[i] = a
        BY <1>6, <1>8, <2>3
      <3>3. G[a] = F[f] \o SubSeq(order, 1, i) /\ G[b] = F[f] \o SubSeq(order, 1, i - 1)
        BY <1>12, <2>3, <3>1
      <3> DEFINE u == F[f]
      <3> HIDE DEF i, b, u, order
      <3>4. u \o SubSeq(order, 1, i) = (<<>> \o (u \o SubSeq(order, 1, i - 1))) \o <<order[i]>>
        BY <1>2, <3>2, OneMore DEF u
      <3> QED  BY <1>14, <3>1, <3>2, <3>3, <3>4 DEF u
    <2> QED  BY <2>1, <2>2, <2>3
  <1>17. Solves(G, rest)
    BY <1>13, <1>14, <1>16 DEF Solves
  <1>18. G[q] = F[f] \o order
    <2>1. q \in ToSet(order)
      BY <1>3
    <2>2. at(q) = Len(order)
      BY <1>5, <1>6, <1>7 DEF Last
    <2> HIDE DEF order
    <2>3. SubSeq(order, 1, Len(order)) = order
      BY <1>2
    <2> QED  BY <1>12, <2>1, <2>2, <2>3
  <1>19. ToSet(G[q]) = ToSet(F[f]) \union ToSet(order) /\ IsInjective(G[q])
    <2> DEFINE u == F[f]
    <2>1. u \in Seq(X!Addr) /\ G[q] = u \o order /\ IsInjective(u) /\ ToSet(u) \cap ToSet(order) = {}
      BY <1>2, <1>4, <1>18
    <2> HIDE DEF u, order
    <2>2. ToSet(u \o order) = ToSet(u) \union ToSet(order) /\ IsInjective(u \o order)
      BY <1>1, <1>2, <2>1, Joined, JoinedOnce
    <2> QED  BY <2>1, <2>2 DEF u
  <1>20. \A b \in R : b # q => G[b] = F[b]
    <2>1. \A b \in R : b # q => b \notin ToSet(order)
      BY <1>3 DEF Forest
    <2> QED  BY <1>1, <1>12, <2>1, Sizes
  <1> HIDE DEF R2
  <1>21. \A b \in R2 : IsInjective(G[b])
    <2>1. \A b \in R : IsInjective(F[b])
      BY DEF Forest
    <2> QED  BY <1>19, <1>20, <2>1, Zenon DEF R2
  <1>22. \A c, d \in R : c # d => ToSet(F[c]) \cap ToSet(F[d]) = {}
    BY DEF Forest
  <1>23. ASSUME NEW a \in R2, NEW b \in R2, a # b PROVE ToSet(G[a]) \cap ToSet(G[b]) = {}
    <2>1. a \in R \ {f} /\ b \in R \ {f}
      BY DEF R2
    <2>2. \A c \in R \ {f} : c # q => ToSet(G[c]) \cap ToSet(G[q]) = {}
      <3>1. ToSet(F[f]) = {} \/ f \in R
        BY <1>1, Single DEF Solves
      <3> QED  BY <1>19, <1>20, <1>22, <3>1
    <2>3. CASE a = q
      BY <1>23, <2>1, <2>2, <2>3
    <2>4. CASE b = q
      BY <1>23, <2>1, <2>2, <2>4
    <2>5. CASE a # q /\ b # q
      BY <1>20, <1>22, <1>23, <2>1, <2>5
    <2> QED  BY <2>3, <2>4, <2>5
  <1>24. ASSUME NEW z PROVE (\E a \in R2 : z \in ToSet(G[a])) <=> (\E a \in R : z \in ToSet(F[a]))
    <2>1. ASSUME NEW a \in R2, z \in ToSet(G[a]) PROVE \E b \in R : z \in ToSet(F[b])
      <3>1. f \in R \/ ToSet(F[f]) = {}
        BY <1>1, Single DEF Solves
      <3> QED  BY <1>19, <1>20, <2>1, <3>1 DEF R2
    <2>2. ASSUME NEW a \in R, z \in ToSet(F[a]) PROVE \E b \in R2 : z \in ToSet(G[b])
      <3>1. q \in R2
        BY <1>1, Sizes DEF R2
      <3>2. CASE a = q \/ a = f
        BY <1>19, <2>2, <3>1, <3>2
      <3>3. CASE a # q /\ a # f
        BY <1>20, <2>2, <3>3 DEF R2
      <3> QED  BY <3>2, <3>3
    <2> QED  BY <2>1, <2>2
  <1>25. UNION {ToSet(G[a]) : a \in R2} = 1 .. m
    <2>1. UNION {ToSet(F[a]) : a \in R} = 1 .. m
      BY DEF Forest
    <2> QED  BY <1>24, <2>1, Zenon
  <1>26. \A a \in X!Addr \ 1 .. m : rest[a] = X!FreeTag
    <2>1. ToSet(order) \subseteq 1 .. m
      BY DEF Forest
    <2> QED  BY <1>9, <2>1 DEF Forest
  <1>27. Forest(G, rest, R2, m)
    BY <1>1, <1>17, <1>21, <1>23, <1>25, <1>26 DEF Forest, R2
  <1>28. \A x \in X!Ref \ ToSet(order) : G[x] = F[x]
    BY <1>12
  <1> HIDE DEF order
  <1>29. \E H : /\ Forest(H, rest, R \ {f}, m)
                /\ \A x \in X!Ref \ ToSet(order) : H[x] = F[x]
                /\ ToSet(H[q]) = ToSet(F[f]) \union ToSet(order)
    BY <1>19, <1>27, <1>28, Zenon DEF R2
  <1> QED  BY <1>1, <1>5, <1>11, <1>29 DEF order, rest, Frees

-----------------------------------------------------------------------------
(* NewTag: a new block *)

\* The pool with a new block of free tags.
WithBlock(pool, first) ==
    [a \in X!Addr |-> IF a \in first .. first + TagsPerBlock - 1
                      THEN [X!FreeTag EXCEPT !.next = IF a = first + TagsPerBlock - 1 THEN 0 ELSE a + 1]
                      ELSE pool[a]]

Falling(n, a) == [i \in 1 .. n + 1 - a |-> n + 1 - i]

LEMMA FallingOne ==
    ASSUME NEW n \in Nat, NEW a \in 1 .. n, NEW S, 1 .. n \subseteq S
    PROVE  /\ Falling(n, a) \in Seq(S) /\ ToSet(Falling(n, a)) = a .. n /\ IsInjective(Falling(n, a))
           /\ Falling(n, a) = (<<>> \o (IF a = n THEN <<>> ELSE Falling(n, a + 1))) \o <<a>>
  <1> DEFINE s == Falling(n, a)
             u == IF a = n THEN <<>> ELSE Falling(n, a + 1)
  <1>1. n + 1 - a \in Nat /\ DOMAIN s = 1 .. n + 1 - a /\ \A i \in 1 .. n + 1 - a : s[i] = n + 1 - i
    BY DEF Falling
  <1>2. \A i \in 1 .. n + 1 - a : n + 1 - i \in a .. n /\ n + 1 - i \in 1 .. n
    OBVIOUS
  <1>3. s \in Seq(S) /\ Len(s) = n + 1 - a
    <2> DEFINE l == n + 1 - a
    <2>1. l \in Nat /\ s = [i \in 1 .. l |-> n + 1 - i] /\ \A i \in 1 .. l : n + 1 - i \in S
      BY <1>1, <1>2 DEF Falling
    <2> HIDE DEF l, s
    <2>2. s \in Seq(S) /\ Len(s) = l
      BY <2>1
    <2> QED  BY <2>2 DEF l
  <1>4. ToSet(s) = a .. n
    <2>1. \A k \in a .. n : n + 1 - k \in 1 .. n + 1 - a /\ n + 1 - (n + 1 - k) = k
      OBVIOUS
    <2>2. \A k \in a .. n : \E i \in 1 .. n + 1 - a : k = n + 1 - i
      BY <2>1
    <2> HIDE DEF s
    <2>3. ASSUME NEW k \in ToSet(s) PROVE k \in a .. n
      <3>1. PICK i \in 1 .. n + 1 - a : k = s[i]
        BY <1>1 DEF ToSet
      <3> QED  BY <1>1, <1>2, <3>1
    <2>4. ASSUME NEW k \in a .. n PROVE k \in ToSet(s)
      <3>1. PICK i \in 1 .. n + 1 - a : k = n + 1 - i
        BY <2>2
      <3>2. s[i] = k
        BY <1>1, <3>1
      <3> QED  BY <1>1, <3>2 DEF ToSet
    <2> QED  BY <2>3, <2>4
  <1>5. IsInjective(s)
    <2>1. \A i, k \in 1 .. n + 1 - a : n + 1 - i = n + 1 - k => i = k
      OBVIOUS
    <2> HIDE DEF s
    <2> QED  BY <1>1, <2>1 DEF IsInjective
  <1>6. u \in Seq(Int) /\ Len(u) = n - a /\ \A i \in 1 .. n - a : u[i] = n + 1 - i
    <2>1. CASE a = n
      BY <2>1
    <2>2. CASE a # n
      <3>1. n + 1 - (a + 1) = n - a /\ n - a \in Nat
        BY <2>2
      <3>2. u = [i \in 1 .. n - a |-> n + 1 - i]
        BY <2>2, <3>1 DEF Falling
      <3> QED  BY <3>1, <3>2
    <2> QED  BY <2>1, <2>2
  <1>7. s = (<<>> \o u) \o <<a>>
    <2> HIDE DEF s, u
    <2>1. (<<>> \o u) \o <<a>> \in Seq(Int) /\ Len((<<>> \o u) \o <<a>>) = n + 1 - a
      BY <1>6
    <2>2. \A i \in 1 .. n + 1 - a : ((<<>> \o u) \o <<a>>)[i] = n + 1 - i
      BY <1>6
    <2>3. s \in Seq(S) /\ Len(s) = n + 1 - a /\ \A i \in 1 .. n + 1 - a : s[i] = n + 1 - i
      BY <1>1, <1>3
    <2> DEFINE w == (<<>> \o u) \o <<a>>
    <2> HIDE DEF w
    <2>4. w \in Seq(Int) /\ Len(w) = n + 1 - a /\ \A i \in 1 .. n + 1 - a : w[i] = n + 1 - i
      BY <2>1, <2>2 DEF w
    <2>5. s = w
      BY <1>1, <2>3, <2>4
    <2> QED  BY <2>5 DEF w
  <1> QED  BY <1>3, <1>4, <1>5, <1>7

Grows(F, pool, R, m) ==
    LET first == m + 1
        rest == WithBlock(pool, first)
    IN  /\ first \in X!Addr \ R /\ rest \in [X!Addr -> Entry]
        /\ \A a \in first .. m + TagsPerBlock : rest[a].tag = 0 /\ rest[a].string = X!NoString
        /\ \A a \in X!Addr \ first .. m + TagsPerBlock : rest[a] = pool[a]
        /\ \E G : /\ Forest(G, rest, R \union {first}, m + TagsPerBlock)
                  /\ \A x \in X!Ref \ first .. m + TagsPerBlock : G[x] = F[x]
                  /\ ToSet(G[first]) = first .. m + TagsPerBlock

LEMMA BlockAdded ==
    ASSUME NEW pool \in [X!Addr -> Entry], NEW F, NEW R, NEW m \in Nat, Forest(F, pool, R, m),
           m + TagsPerBlock <= TagsPerBlock * MaxBlocks
    PROVE  Grows(F, pool, R, m)
  <1> DEFINE first == m + 1
             n == m + TagsPerBlock
             rest == WithBlock(pool, first)
             R2 == R \union {first}
  <1>1. /\ n \in Nat /\ first \in 1 .. n /\ first + TagsPerBlock - 1 = n /\ 1 .. n \subseteq X!Addr
        /\ 1 .. n = (1 .. m) \union (first .. n) /\ (1 .. m) \cap (first .. n) = {}
    <2>1. n \in Nat /\ first \in 1 .. n /\ first + TagsPerBlock - 1 = n
      BY Sizes
    <2>2. n <= TagsPerBlock * MaxBlocks /\ TagsPerBlock * MaxBlocks \in Int
      BY Sizes
    <2>3. 1 .. n \subseteq X!Addr
      BY <2>1, <2>2 DEF X!Addr
    <2>4. 1 .. n = (1 .. m) \union (first .. n) /\ (1 .. m) \cap (first .. n) = {}
      BY Sizes
    <2> QED  BY <2>1, <2>3, <2>4
  <1>2. Solves(F, pool) /\ R \subseteq X!Addr /\ UNION {ToSet(F[a]) : a \in R} = 1 .. m
    BY DEF Forest
  <1> HIDE DEF n, first
  <1>3. /\ \A a \in first .. n : rest[a] = [X!FreeTag EXCEPT !.next = IF a = n THEN 0 ELSE a + 1]
        /\ \A a \in X!Addr \ first .. n : rest[a] = pool[a]
        /\ DOMAIN rest = X!Addr
        /\ first .. n \subseteq X!Addr
    BY <1>1 DEF WithBlock
  <1> HIDE DEF rest
  <1>4. ASSUME NEW a \in first .. n
        PROVE  /\ rest[a] \in Entry /\ rest[a].tag = 0 /\ rest[a].string = X!NoString
               /\ rest[a].next = IF a = n THEN 0 ELSE a + 1
               /\ a # n => a + 1 \in first .. n
    <2>1. a # n => a + 1 \in first .. n
      BY <1>1
    <2> DEFINE k == IF a = n THEN 0 ELSE a + 1
    <2>2. k \in X!Ref /\ rest[a] = [X!FreeTag EXCEPT !.next = k]
      BY <1>3, <2>1, Sizes
    <2> HIDE DEF k
    <2>3. rest[a] \in Entry /\ rest[a].tag = 0 /\ rest[a].string = X!NoString /\ rest[a].next = k
      BY <2>2, Sizes DEF X!FreeTag, Entry, X!Types
    <2> QED  BY <2>1, <2>3 DEF k
  <1>5. rest \in [X!Addr -> Entry]
    <2>1. \A a \in X!Addr : rest[a] \in Entry
      BY <1>3, <1>4
    <2> QED  BY <1>3, <2>1, Zenon DEF rest, WithBlock
  <1> DEFINE G == [x \in X!Ref |-> IF x \in first .. n THEN Falling(n, x) ELSE F[x]]
  <1>6. /\ \A x \in X!Ref \ first .. n : G[x] = F[x]
        /\ \A x \in first .. n : G[x] = Falling(n, x)
    BY <1>3, Sizes
  <1>7. \A x \in first .. n : x \in 1 .. n
    BY <1>1
  <1>8. G \in [X!Ref -> Seq(X!Addr)]
    <2>1. \A x \in first .. n : Falling(n, x) \in Seq(X!Addr)
      BY <1>1, <1>7, FallingOne
    <2>2. \A x \in X!Ref : F[x] \in Seq(X!Addr)
      BY <1>2, Lengths
    <2> QED  BY <2>1, <2>2
  <1> HIDE DEF G
  <1>9. 0 \notin first .. n /\ G[0] = <<>>
    BY <1>2, <1>3, <1>6, Sizes DEF Solves
  \* A tag that was allocated before does not point at the new ones.
  <1>10. \A x \in R : ToSet(F[x]) \subseteq 1 .. m /\ x \in ToSet(F[x]) /\ x \in 1 .. m
    <2>1. \A x \in R : x \in ToSet(F[x])
      BY <1>2, Behind
    <2> QED  BY <1>2, <2>1
  <1>11. ASSUME NEW a \in X!Addr \ first .. n
         PROVE  pool[a].tag \notin first .. n /\ pool[a].next \notin first .. n
    <2>1. CASE a \in 1 .. m
      <3>1. PICK b \in R : a \in ToSet(F[b])
        BY <1>2, <2>1
      <3>2. ToSet(F[a]) \subseteq 1 .. m
        BY <1>2, <1>10, <3>1, Descend, Sizes
      <3>3. ToSet(F[a]) = ToSet(F[pool[a].tag]) \union ToSet(F[pool[a].next]) \union {a}
        BY <1>2, Node, Zenon
      <3>4. \A x \in first .. n : x \in ToSet(F[x])
        BY <1>2, <1>3, Behind
      <3> QED  BY <1>1, <3>2, <3>3, <3>4
    <2>2. CASE a \notin 1 .. m
      BY <1>9, <2>2 DEF Forest, X!FreeTag
    <2> QED  BY <2>1, <2>2
  <1>12. ASSUME NEW a \in X!Addr PROVE G[a] = G[rest[a].tag] \o G[rest[a].next] \o <<a>>
    <2>1. CASE a \notin first .. n
      <3>1. rest[a] = pool[a] /\ pool[a].tag \in X!Ref /\ pool[a].next \in X!Ref
        BY <1>3, <2>1 DEF Entry
      <3>2. G[a] = F[a] /\ G[pool[a].tag] = F[pool[a].tag] /\ G[pool[a].next] = F[pool[a].next]
        BY <1>6, <1>11, <2>1, <3>1, Sizes
      <3>3. F[a] = F[pool[a].tag] \o F[pool[a].next] \o <<a>>
        BY <1>2 DEF Solves
      <3> QED  BY <3>1, <3>2, <3>3
    <2>2. CASE a \in first .. n
      <3>1. G[a] = (<<>> \o (IF a = n THEN <<>> ELSE Falling(n, a + 1))) \o <<a>>
        BY <1>1, <1>6, <1>7, <2>2, FallingOne
      <3>2. G[rest[a].next] = IF a = n THEN <<>> ELSE Falling(n, a + 1)
        BY <1>4, <1>6, <1>9, <2>2
      <3>3. G[rest[a].tag] = <<>>
        BY <1>4, <1>9, <2>2
      <3> QED  BY <3>1, <3>2, <3>3
    <2> QED  BY <2>1, <2>2
  <1>13. Solves(G, rest)
    BY <1>8, <1>9, <1>12 DEF Solves
  <1>14. first \in first .. n /\ ToSet(G[first]) = first .. n /\ IsInjective(G[first])
    <2>1. first \in first .. n
      BY <1>1
    <2> QED  BY <1>1, <1>6, <2>1, FallingOne
  <1>15. \A b \in R : b # first /\ G[b] = F[b]
    BY <1>1, <1>2, <1>6, <1>10, <1>14, Sizes
  <1>16. \A b \in R2 : IsInjective(G[b])
    BY <1>14, <1>15 DEF Forest
  <1>17. ASSUME NEW a \in R2, NEW b \in R2, a # b PROVE ToSet(G[a]) \cap ToSet(G[b]) = {}
    <2>1. \A c \in R : ToSet(G[c]) \cap ToSet(G[first]) = {}
      BY <1>1, <1>10, <1>14, <1>15
    <2>2. \A c, d \in R : c # d => ToSet(G[c]) \cap ToSet(G[d]) = {}
      BY <1>15 DEF Forest
    <2> QED  BY <1>17, <2>1, <2>2
  <1>18. UNION {ToSet(G[a]) : a \in R2} = 1 .. n
    <2>1. \A z : (\E a \in R : z \in ToSet(G[a])) <=> z \in 1 .. m
      <3>1. \A z : (\E a \in R : z \in ToSet(F[a])) <=> z \in 1 .. m
        BY <1>2, Zenon
      <3> QED  BY <1>15, <3>1
    <2>2. ASSUME NEW z
          PROVE  (\E a \in R2 : z \in ToSet(G[a])) <=> (\E a \in R : z \in ToSet(G[a])) \/ z \in ToSet(G[first])
      OBVIOUS
    <2>3. \A z : z \in 1 .. n <=> z \in 1 .. m \/ z \in first .. n
      BY <1>1, Zenon
    <2>4. \A z : (\E a \in R2 : z \in ToSet(G[a])) <=> z \in 1 .. n
      <3> HIDE DEF R2
      <3> QED  BY <1>14, <2>1, <2>2, <2>3, Zenon
    <2> HIDE DEF R2
    <2> QED  BY <2>4, Zenon
  <1>19. \A a \in X!Addr \ 1 .. n : rest[a] = X!FreeTag
    BY <1>1, <1>3 DEF Forest
  <1>20. Forest(G, rest, R2, n)
    <2>1. R2 \subseteq X!Addr
      BY <1>2, <1>3, <1>14
    <2> HIDE DEF R2
    <2> QED  BY <2>1, <1>13, <1>16, <1>17, <1>18, <1>19 DEF Forest
  <1>21. first \in X!Addr \ R
    BY <1>3, <1>14, <1>15
  <1>22. \E H : /\ Forest(H, rest, R \union {first}, n)
                /\ \A x \in X!Ref \ first .. n : H[x] = F[x]
                /\ ToSet(H[first]) = first .. n
    BY <1>6, <1>14, <1>20
  <1> HIDE DEF R2
  <1> QED  BY <1>3, <1>4, <1>5, <1>21, <1>22 DEF first, n, rest, Grows

-----------------------------------------------------------------------------
(* Symbols *)

\* The tags that name a string.
Naming(pool, s) == {a \in X!Addr : pool[a].string = s}

CountsAre(pool, count) == \A s \in Strings : count[s] = Cardinality(Naming(pool, s))

LEMMA FewNaming ==
    ASSUME NEW pool, NEW s
    PROVE  IsFiniteSet(Naming(pool, s)) /\ Cardinality(Naming(pool, s)) \in Nat
  <1>1. TagsPerBlock * MaxBlocks \in Int
    BY Sizes
  <1>2. IsFiniteSet(X!Addr)
    BY <1>1, FS_Interval DEF X!Addr
  <1>3. Naming(pool, s) \in SUBSET X!Addr
    BY DEF Naming
  <1>4. IsFiniteSet(Naming(pool, s))
    BY <1>2, <1>3, FS_Subset
  <1> QED  BY <1>4, FS_CardinalityType

\* NewSymbol, for a tag that named nothing.
LEMMA CountedTaken ==
    ASSUME NEW pool \in [X!Addr -> Entry], NEW count \in [Strings -> Nat], CountsAre(pool, count),
           NEW t \in X!Addr, pool[t].string = X!NoString, NEW e \in Entry,
           NEW after, after = [s \in Strings |-> count[s] + IF s = e.string THEN 1 ELSE 0]
    PROVE  after \in [Strings -> Nat] /\ CountsAre([pool EXCEPT ![t] = e], after)
  <1> DEFINE rest == [pool EXCEPT ![t] = e]
  <1>1. \A a \in X!Addr : rest[a] = IF a = t THEN e ELSE pool[a]
    OBVIOUS
  <1> HIDE DEF rest
  <1>2. after \in [Strings -> Nat]
    OBVIOUS
  <1>3. ASSUME NEW s \in Strings PROVE after[s] = Cardinality(Naming(rest, s))
    <2>1. t \notin Naming(pool, s)
      BY Sizes DEF Naming
    <2>2. CASE s = e.string
      <3>1. Naming(rest, s) = Naming(pool, s) \union {t}
        BY <1>1, <2>2 DEF Naming
      <3>2. Cardinality(Naming(pool, s) \union {t}) = Cardinality(Naming(pool, s)) + 1
        BY <2>1, FewNaming, FS_AddElement
      <3> QED  BY <2>2, <3>1, <3>2 DEF CountsAre
    <2>3. CASE s # e.string
      <3>1. Naming(rest, s) = Naming(pool, s)
        BY <1>1, <2>1, <2>3 DEF Naming
      <3> QED  BY <2>3, <3>1 DEF CountsAre
    <2> QED  BY <2>2, <2>3
  <1> QED  BY <1>2, <1>3 DEF CountsAre, rest

\* FreeSymbol, for every tag of order.
LEMMA CountedFreed ==
    ASSUME NEW pool \in [X!Addr -> Entry], NEW count \in [Strings -> Nat], CountsAre(pool, count),
           NEW order \in Seq(X!Addr), IsInjective(order), NEW f,
           NEW after,
           after = [s \in Strings |->
                       count[s] - Cardinality({i \in DOMAIN order : pool[order[i]].string = s})]
    PROVE  after \in [Strings -> Nat] /\ CountsAre(PutBack(pool, order, f), after)
  <1> DEFINE rest == PutBack(pool, order, f)
  <1>1. \A a \in X!Addr : IF a \in ToSet(order) THEN rest[a].string = X!NoString ELSE rest[a] = pool[a]
    BY DEF PutBack, X!FreeTag
  <1> HIDE DEF rest
  <1>2. ASSUME NEW s \in Strings
        PROVE  /\ count[s] - Cardinality({i \in DOMAIN order : pool[order[i]].string = s})
                      = Cardinality(Naming(rest, s))
               /\ Cardinality(Naming(rest, s)) \in Nat
    <2> DEFINE I == {i \in DOMAIN order : pool[order[i]].string = s}
               S == Naming(pool, s)
               J == S \cap ToSet(order)
               f2 == [i \in I |-> order[i]]
    <2>1. Naming(rest, s) = S \ ToSet(order)
      BY <1>1, Sizes DEF Naming
    <2>2. IsFiniteSet(S) /\ Cardinality(S) \in Nat
      BY FewNaming
    <2>3. f2 \in [I -> J]
      BY DEF Naming, ToSet
    <2>4. \A i, k \in I : order[i] = order[k] => i = k
      BY DEF IsInjective
    <2>5. \A a \in J : \E i \in I : order[i] = a
      BY DEF Naming, ToSet
    <2>6. f2 \in Bijection(I, J)
      <3> HIDE DEF I, J
      <3>1. f2 \in Injection(I, J)
        BY <2>3, <2>4 DEF Injection, IsInjective
      <3>2. f2 \in Surjection(I, J)
        BY <2>3, <2>5 DEF Surjection
      <3> QED  BY <3>1, <3>2 DEF Bijection
    <2>7. IsFiniteSet(I)
      <3>1. IsFiniteSet(1 .. Len(order)) /\ DOMAIN order = 1 .. Len(order)
        BY FS_Interval
      <3>2. I \in SUBSET (1 .. Len(order))
        BY <3>1
      <3> HIDE DEF I
      <3> QED  BY <3>1, <3>2, FS_Subset
    <2>8. Cardinality(J) = Cardinality(I)
      <3> HIDE DEF I, J, f2
      <3> QED  BY <2>6, <2>7, FS_Bijection DEF ExistsBijection
    <2>9. Cardinality(S \ ToSet(order)) = Cardinality(S) - Cardinality(J)
      <3> HIDE DEF S
      <3> QED  BY <2>2, FS_Difference
    <2>10. count[s] = Cardinality(S)
      BY DEF CountsAre
    <2>11. Cardinality(Naming(rest, s)) \in Nat
      BY FewNaming
    <2>12. count[s] - Cardinality(I) = Cardinality(Naming(rest, s))
      <3> HIDE DEF I, S, J
      <3> QED  BY <2>1, <2>8, <2>9, <2>10
    <2> QED  BY <2>11, <2>12
  <1>3. after \in [Strings -> Nat]
    BY <1>2
  <1>4. \A s \in Strings : after[s] = Cardinality(Naming(rest, s))
    BY <1>2
  <1> QED  BY <1>3, <1>4 DEF CountsAre, rest

-----------------------------------------------------------------------------
(* The store between two steps *)

StoreTypes(pool, f, n, count) ==
    /\ pool \in [X!Addr -> Entry] /\ f \in X!Ref /\ n \in 0 .. MaxBlocks
    /\ count \in [Strings -> Nat]

FreeOnes(F, pool, f) == \A a \in ToSet(F[f]) : pool[a].tag = 0 /\ pool[a].string = X!NoString

\* Besides the free tags, what is in use is behind the roots R.
Store(pool, f, n, count, R) ==
    /\ StoreTypes(pool, f, n, count)
    /\ f \notin R /\ R \subseteq X!Addr
    /\ CountsAre(pool, count)
    /\ \E F : /\ Forest(F, pool, (R \union {f}) \ {0}, n * TagsPerBlock)
              /\ FreeOnes(F, pool, f)

LEMMA Blocks ==
    ASSUME NEW n \in 0 .. MaxBlocks
    PROVE  /\ n * TagsPerBlock \in Nat
           /\ n < MaxBlocks => /\ n * TagsPerBlock + TagsPerBlock = (n + 1) * TagsPerBlock
                               /\ n * TagsPerBlock + TagsPerBlock <= TagsPerBlock * MaxBlocks
                               /\ n + 1 \in 0 .. MaxBlocks
  <1>1. n \in Nat /\ n * TagsPerBlock \in Nat
    BY Sizes
  <1>2. ASSUME n < MaxBlocks
        PROVE  /\ n * TagsPerBlock + TagsPerBlock = (n + 1) * TagsPerBlock
               /\ n * TagsPerBlock + TagsPerBlock <= TagsPerBlock * MaxBlocks
               /\ n + 1 \in 0 .. MaxBlocks
    <2>1. n + 1 <= MaxBlocks /\ n + 1 \in 0 .. MaxBlocks
      BY <1>1, <1>2, Sizes
    <2>2. n * TagsPerBlock + TagsPerBlock = (n + 1) * TagsPerBlock
      BY <1>1, Sizes
    <2>3. (n + 1) * TagsPerBlock <= MaxBlocks * TagsPerBlock
      BY <1>1, <2>1, Sizes
    <2>4. MaxBlocks * TagsPerBlock = TagsPerBlock * MaxBlocks
      BY Sizes
    <2> QED  BY <2>1, <2>2, <2>3, <2>4
  <1> QED  BY <1>1, <1>2

LEMMA StoreGrows ==
    ASSUME NEW pool, NEW n, NEW count, NEW R, Store(pool, 0, n, count, R), n < MaxBlocks
    PROVE  Store(WithBlock(pool, n * TagsPerBlock + 1), n * TagsPerBlock + 1, n + 1, count, R)
  <1> DEFINE m == n * TagsPerBlock
             first == m + 1
             rest == WithBlock(pool, first)
  <1>1. StoreTypes(pool, 0, n, count) /\ pool \in [X!Addr -> Entry] /\ n \in 0 .. MaxBlocks
        /\ count \in [Strings -> Nat] /\ CountsAre(pool, count)
    BY DEF Store, StoreTypes
  <1>2. /\ m \in Nat /\ m + TagsPerBlock = (n + 1) * TagsPerBlock
        /\ m + TagsPerBlock <= TagsPerBlock * MaxBlocks /\ n + 1 \in 0 .. MaxBlocks
    BY <1>1, Blocks
  <1>3. PICK F : Forest(F, pool, (R \union {0}) \ {0}, m)
    BY DEF Store
  <1>4. (R \union {0}) \ {0} = R /\ R \subseteq X!Addr
    BY Sizes DEF Store
  <1>5. Forest(F, pool, R, m)
    BY <1>3, <1>4
  <1> HIDE DEF m
  <1>6. /\ first \in X!Addr \ R /\ rest \in [X!Addr -> Entry]
        /\ \A a \in first .. m + TagsPerBlock : rest[a].tag = 0 /\ rest[a].string = X!NoString
        /\ \A a \in X!Addr \ first .. m + TagsPerBlock : rest[a] = pool[a]
        /\ \E G : /\ Forest(G, rest, R \union {first}, m + TagsPerBlock)
                  /\ \A x \in X!Ref \ first .. m + TagsPerBlock : G[x] = F[x]
                  /\ ToSet(G[first]) = first .. m + TagsPerBlock
    <2> HIDE DEF first, rest
    <2>1. Grows(F, pool, R, m)
      BY <1>1, <1>2, <1>5, BlockAdded
    <2> QED  BY <2>1 DEF Grows, first, rest
  <1> HIDE DEF first, rest
  <1>7. PICK G : /\ Forest(G, rest, R \union {first}, m + TagsPerBlock)
                 /\ ToSet(G[first]) = first .. m + TagsPerBlock
    BY <1>6
  <1>8. R \union {first} = (R \union {first}) \ {0}
    BY <1>4, <1>6, Sizes
  <1>9. FreeOnes(G, rest, first)
    BY <1>6, <1>7 DEF FreeOnes
  <1>10. CountsAre(rest, count)
    <2>1. \A a \in X!Addr : a \in first .. m + TagsPerBlock => a \notin 1 .. m
      BY <1>2 DEF first
    <2>2. \A a \in X!Addr : rest[a].string = pool[a].string
      BY <1>5, <1>6, <2>1 DEF Forest, X!FreeTag
    <2>3. \A s : Naming(rest, s) = Naming(pool, s)
      BY <2>2 DEF Naming
    <2> QED  BY <1>1, <2>3 DEF CountsAre
  <1>11. StoreTypes(rest, first, n + 1, count)
    BY <1>1, <1>2, <1>6, Sizes DEF StoreTypes
  <1>12. Forest(G, rest, (R \union {first}) \ {0}, (n + 1) * TagsPerBlock)
    BY <1>2, <1>7, <1>8
  <1>13. Store(rest, first, n + 1, count, R)
    BY <1>4, <1>6, <1>9, <1>10, <1>11, <1>12 DEF Store
  <1> QED  BY <1>13 DEF m, first, rest

LEMMA StoreTakes ==
    ASSUME NEW pool, NEW f, NEW n, NEW count, NEW R, Store(pool, f, n, count, R), f # 0,
           NEW e \in Entry, e.next = 0, e.tag = 0 \/ e.tag \in R,
           NEW after, after = [s \in Strings |-> count[s] + IF s = e.string THEN 1 ELSE 0]
    PROVE  /\ f \in X!Addr \ R
           /\ Store([pool EXCEPT ![f] = e], pool[f].next, n, after, (R \ {e.tag}) \union {f})
  <1> DEFINE rest == [pool EXCEPT ![f] = e]
             next == pool[f].next
             R1 == (R \union {f}) \ {0}
             R2 == (R \ {e.tag}) \union {f}
             m == n * TagsPerBlock
  <1>1. /\ pool \in [X!Addr -> Entry] /\ f \in X!Addr /\ n \in 0 .. MaxBlocks
        /\ count \in [Strings -> Nat] /\ CountsAre(pool, count) /\ f \notin R /\ R \subseteq X!Addr
    BY DEF Store, StoreTypes, X!Ref
  <1>2. PICK F : Forest(F, pool, R1, m) /\ FreeOnes(F, pool, f)
    BY DEF Store
  <1>3. f \in R1 /\ (e.tag = 0 \/ e.tag \in R1 \ {f}) /\ R1 = R \union {f}
    BY <1>1, Sizes
  <1>4. f \in ToSet(F[f]) /\ pool[f].tag = 0 /\ pool[f].string = X!NoString
    <2>1. f \in ToSet(F[f])
      BY <1>1, <1>2, Behind DEF Forest
    <2> QED  BY <1>2, <2>1 DEF FreeOnes
  <1> HIDE DEF rest, R1, R2, next, m
  <1>5. /\ next \in X!Ref /\ next \notin R1
        /\ ToSet(F[next]) = ToSet(F[f]) \ {f}
        /\ \E G : /\ Forest(G, rest, ((R1 \ {e.tag}) \union {next}) \ {0}, m)
                  /\ \A x \in X!Ref \ {f} : G[x] = F[x]
    <2>1. Takes(F, pool, R1, m, f, e)
      BY <1>1, <1>2, <1>3, <1>4, TagTaken
    <2> QED  BY <2>1 DEF Takes, rest, next
  <1>6. PICK G : /\ Forest(G, rest, ((R1 \ {e.tag}) \union {next}) \ {0}, m)
                 /\ \A x \in X!Ref \ {f} : G[x] = F[x]
    BY <1>5
  <1>7. ((R1 \ {e.tag}) \union {next}) \ {0} = (R2 \union {next}) \ {0}
    BY <1>1, <1>3, Sizes DEF R2
  <1>8. next # f /\ next \notin R2 /\ R2 \subseteq X!Addr
    BY <1>1, <1>3, <1>5 DEF R2
  <1>9. FreeOnes(G, rest, next)
    <2>1. G[next] = F[next]
      BY <1>5, <1>6, <1>8
    <2>2. ToSet(F[f]) \subseteq X!Addr
      BY <1>1, <1>2, Lengths, Sizes DEF Forest
    <2>3. \A a \in ToSet(F[next]) : rest[a] = pool[a]
      BY <1>1, <1>5, <2>2 DEF rest
    <2> QED  BY <1>2, <1>5, <2>1, <2>3 DEF FreeOnes
  <1>10. after \in [Strings -> Nat] /\ CountsAre(rest, after)
    BY <1>1, <1>4, CountedTaken DEF rest
  <1>11. rest \in [X!Addr -> Entry]
    BY <1>1 DEF rest
  <1>12. Store(rest, next, n, after, R2)
    BY <1>1, <1>5, <1>6, <1>7, <1>8, <1>9, <1>10, <1>11 DEF Store, StoreTypes, m
  <1> QED  BY <1>1, <1>12 DEF rest, next, R2

\* NewTag and what its caller assigns: one more root, and the one that went into it less.
LEMMA NewTagStep ==
    ASSUME NEW R, Store(tags, free, blocks, refCount, R),
           NEW type \in X!Types, NEW string \in Strings \union {X!NoString}, NEW sub, sub = 0 \/ sub \in R,
           X!NewTag(type, string, sub)
    PROVE  /\ result' \in X!Addr /\ tags'[result'].next = 0
           /\ result' \notin R
           /\ Store(tags', free', blocks', refCount', (R \ {sub}) \union {result'})
  <1> DEFINE e == [type |-> type, string |-> string, tag |-> sub, next |-> 0]
             after == [s \in Strings |-> refCount[s] + IF s = string THEN 1 ELSE 0]
  <1>1. sub \in X!Ref
    BY Sizes DEF Store
  <1>2. e \in Entry /\ e.next = 0 /\ e.tag = sub /\ e.string = string
    BY <1>1, Sizes DEF Entry
  <1>3. after = [s \in Strings |-> refCount[s] + IF s = e.string THEN 1 ELSE 0]
    BY <1>2
  <1>4. CASE free # 0
    <2>1. /\ result' = free /\ tags' = [tags EXCEPT ![free] = e] /\ free' = tags[free].next
          /\ blocks' = blocks /\ refCount' = after
      BY <1>4 DEF X!NewTag
    <2> HIDE DEF e, after
    <2>2. free \in X!Addr \ R /\ Store([tags EXCEPT ![free] = e], tags[free].next, blocks, after, (R \ {sub}) \union {free})
      BY <1>2, <1>3, <1>4, StoreTakes
    <2>3. tags \in [X!Addr -> Entry]
      BY DEF Store, StoreTypes
    <2>4. tags'[free] = e
      BY <2>1, <2>2, <2>3
    <2> QED  BY <1>2, <2>1, <2>2, <2>4
  <1>5. CASE free = 0
    <2> DEFINE t == blocks * TagsPerBlock + 1
               pool == WithBlock(tags, t)
    <2>1. /\ blocks < MaxBlocks /\ result' = t /\ tags' = [pool EXCEPT ![t] = e] /\ free' = pool[t].next
          /\ blocks' = blocks + 1 /\ refCount' = after
      BY <1>5 DEF X!NewTag, X!Carved, WithBlock
    <2>2. Store(pool, t, blocks + 1, refCount, R)
      BY <1>5, <2>1, StoreGrows
    <2>3. t # 0
      <3>1. blocks \in 0 .. MaxBlocks
        BY DEF Store, StoreTypes
      <3>2. blocks * TagsPerBlock \in Nat
        BY <3>1, Blocks
      <3> QED  BY <3>2
    <2> HIDE DEF e, after, t, pool
    <2>4. t \in X!Addr \ R /\ Store([pool EXCEPT ![t] = e], pool[t].next, blocks + 1, after, (R \ {sub}) \union {t})
      BY <1>2, <1>3, <2>2, <2>3, StoreTakes
    <2>5. pool \in [X!Addr -> Entry]
      BY <2>2 DEF Store, StoreTypes
    <2>6. tags'[t] = e
      BY <2>1, <2>4, <2>5
    <2> QED  BY <1>2, <2>1, <2>4, <2>6
  <1> QED  BY <1>4, <1>5

\* XMLFreeTag: a root less.
LEMMA FreeStep ==
    ASSUME NEW R, Store(tags, free, blocks, refCount, R), NEW q, q = 0 \/ q \in R, X!XMLFreeTag(q)
    PROVE  Store(tags', free', blocks', refCount', R \ {q})
  <1> DEFINE R1 == (R \union {free}) \ {0}
             m == blocks * TagsPerBlock
  <1>1. /\ tags \in [X!Addr -> Entry] /\ free \in X!Ref /\ blocks \in 0 .. MaxBlocks
        /\ refCount \in [Strings -> Nat] /\ CountsAre(tags, refCount) /\ free \notin R /\ R \subseteq X!Addr
        /\ StoreTypes(tags, free, blocks, refCount)
    BY DEF Store, StoreTypes
  <1>2. PICK F : Forest(F, tags, R1, m) /\ FreeOnes(F, tags, free)
    BY DEF Store
  <1>3. Solves(F, tags) /\ q \in X!Ref
    BY <1>1, <1>2, Sizes DEF Forest
  <1>4. X!FreeOrder(q) = F[q]
    BY <1>1, <1>3, FreeOrderIs
  <1> DEFINE order == F[q]
  <1>5. /\ refCount' = [s \in Strings |->
                          refCount[s] - Cardinality({i \in DOMAIN order : tags[order[i]].string = s})]
        /\ tags' = PutBack(tags, order, free)
        /\ free' = IF order = <<>> THEN free ELSE Last(order)
        /\ blocks' = blocks
    <2>1. /\ refCount' = X!Dropped(X!FreeOrder(q))
          /\ tags' = PutBack(tags, X!FreeOrder(q), free)
          /\ free' = IF X!FreeOrder(q) = <<>> THEN free ELSE Last(X!FreeOrder(q))
          /\ blocks' = blocks
      BY Library DEF X!XMLFreeTag, PutBack
    <2> HIDE DEF order
    <2>2. X!FreeOrder(q) = order
      BY <1>4 DEF order
    <2>3. /\ refCount' = X!Dropped(order) /\ tags' = PutBack(tags, order, free)
          /\ free' = IF order = <<>> THEN free ELSE Last(order)
          /\ blocks' = blocks
      BY <2>1, <2>2
    <2> QED  BY <2>3, Library DEF X!Dropped
  <1>6. order \in Seq(X!Addr)
    BY <1>3, Lengths
  <1>7. CASE q = 0
    <2>1. order = <<>> /\ IsInjective(order) /\ ToSet(order) = {} /\ free' = free
      BY <1>3, <1>5, <1>7, Single DEF Solves
    <2>2. tags' = tags
      <3>1. \A a \in X!Addr : tags'[a] = tags[a]
        BY <1>5, <2>1 DEF PutBack
      <3>2. DOMAIN tags' = X!Addr
        BY <1>5, Zenon DEF PutBack
      <3>3. tags' = [a \in X!Addr |-> tags'[a]]
        BY <1>5 DEF PutBack
      <3> QED  BY <1>1, <3>1, <3>3
    <2>3. refCount' = refCount
      <3>1. \A s \in Strings : {i \in DOMAIN order : tags[order[i]].string = s} = {}
        BY <2>1
      <3>2. Cardinality({}) = 0
        BY FS_EmptySet
      <3> HIDE DEF order
      <3>3. \A s \in Strings : refCount'[s] = refCount[s]
        BY <1>1, <1>5, <3>1, <3>2
      <3> QED  BY <1>1, <1>5, <3>3
    <2>4. R \ {q} = R
      BY <1>1, <1>7, Sizes
    <2> QED  BY <1>5, <2>1, <2>2, <2>3, <2>4
  <1>8. CASE q # 0
    <2>1. q \in R /\ q \in R1 /\ q # free
      BY <1>1, <1>8, Sizes
    <2>2. free = 0 \/ free \in R1 \ {q}
      BY <1>1, <2>1, Sizes DEF X!Ref
    <2> HIDE DEF R1, m
    <2>3. /\ Last(F[q]) = q /\ F[q] # <<>> /\ IsInjective(F[q])
          /\ PutBack(tags, F[q], free) \in [X!Addr -> Entry]
          /\ \E G : /\ Forest(G, PutBack(tags, F[q], free), R1 \ {free}, m)
                    /\ \A x \in X!Ref \ ToSet(F[q]) : G[x] = F[x]
                    /\ ToSet(G[q]) = ToSet(F[free]) \union ToSet(F[q])
      <3>1. Frees(F, tags, R1, m, q, free)
        BY <1>1, <1>2, <2>1, <2>2, TagsFreed
      <3> QED  BY <3>1 DEF Frees
    <2>4. PICK G : /\ Forest(G, tags', R1 \ {free}, m)
                   /\ ToSet(G[q]) = ToSet(F[free]) \union ToSet(F[q])
      BY <1>5, <2>3
    <2>5. free' = q
      BY <1>5, <2>3
    <2>6. R1 \ {free} = ((R \ {q}) \union {q}) \ {0}
      BY <1>1, <2>1, Sizes DEF R1
    <2>7. FreeOnes(G, tags', q)
      <3>1. \A a \in X!Addr : a \in ToSet(order) => tags'[a].tag = 0 /\ tags'[a].string = X!NoString
        BY <1>5 DEF PutBack, X!FreeTag
      <3>2. \A a \in X!Addr : a \notin ToSet(order) => tags'[a] = tags[a]
        BY <1>5 DEF PutBack
      <3>3. ToSet(F[free]) \subseteq X!Addr /\ ToSet(order) \subseteq X!Addr
        BY <1>1, <1>3, Lengths
      <3> HIDE DEF order
      <3>4. ToSet(G[q]) = ToSet(F[free]) \union ToSet(order)
        BY <2>4 DEF order
      <3> QED  BY <1>2, <3>1, <3>2, <3>3, <3>4 DEF FreeOnes
    <2>8. refCount' \in [Strings -> Nat] /\ CountsAre(tags', refCount')
      <3>1. IsInjective(order)
        BY <2>3
      <3> HIDE DEF order
      <3> QED  BY <1>1, <1>5, <1>6, <3>1, CountedFreed
    <2>9. tags' \in [X!Addr -> Entry]
      BY <1>5, <2>3
    <2>10. Store(tags', q, blocks, refCount', R \ {q})
      BY <1>1, <1>3, <2>4, <2>6, <2>7, <2>8, <2>9 DEF Store, StoreTypes, m
    <2> QED  BY <1>5, <2>5, <2>10
  <1> QED  BY <1>7, <1>8

\* An element of a list: the list is no root any more, the element is.
LEMMA ChainStep ==
    ASSUME NEW R, Store(tags, free, blocks, refCount, R), NEW t \in R, tags[t].next = 0,
           NEW h, h = 0 \/ h \in R \ {t},
           tags' = [tags EXCEPT ![t].next = h], UNCHANGED <<free, blocks, refCount>>
    PROVE  Store(tags', free', blocks', refCount', R \ {h})
  <1> DEFINE e == [tags[t] EXCEPT !.next = h]
             R1 == (R \union {free}) \ {0}
             m == blocks * TagsPerBlock
  <1>1. /\ tags \in [X!Addr -> Entry] /\ free \in X!Ref /\ blocks \in 0 .. MaxBlocks
        /\ refCount \in [Strings -> Nat] /\ CountsAre(tags, refCount) /\ free \notin R /\ R \subseteq X!Addr
        /\ StoreTypes(tags, free, blocks, refCount)
    BY DEF Store, StoreTypes
  <1>2. PICK F : Forest(F, tags, R1, m) /\ FreeOnes(F, tags, free)
    BY DEF Store
  <1>3. t \in R1 /\ (h = 0 \/ h \in R1 \ {t}) /\ t \in X!Addr /\ h \in X!Ref
    BY <1>1, Sizes
  <1>4. tags' = [tags EXCEPT ![t] = e] /\ e \in Entry /\ e.string = tags[t].string
    BY <1>1, <1>3 DEF Entry
  <1> HIDE DEF R1, m
  <1>5. \E G : /\ Forest(G, [tags EXCEPT ![t] = e], R1 \ {h}, m)
               /\ \A x \in X!Ref \ {t} : G[x] = F[x]
    <2>1. Chains(F, tags, R1, m, t, h)
      <3>1. tags[t].next = 0
        OBVIOUS
      <3> QED  BY <1>1, <1>2, <1>3, <3>1, TagChained
    <2> QED  BY <2>1 DEF Chains, e
  <1> HIDE DEF e
  <1>6. PICK G : /\ Forest(G, tags', R1 \ {h}, m)
                 /\ \A x \in X!Ref \ {t} : G[x] = F[x]
    BY <1>4, <1>5
  <1>7. R1 \ {h} = ((R \ {h}) \union {free}) \ {0}
    BY <1>1, <1>3, Sizes DEF R1
  <1>8. free # t /\ G[free] = F[free]
    BY <1>1, <1>6
  <1>9. t \notin ToSet(F[free])
    <2>1. t \in ToSet(F[t])
      BY <1>2, <1>3, <1>1, Behind DEF Forest
    <2>2. free = 0 \/ free \in R1
      BY <1>1 DEF R1
    <2>3. ToSet(F[0]) = {}
      BY <1>2, Single, <1>3 DEF Forest, Solves
    <2> QED  BY <1>2, <1>3, <1>8, <2>1, <2>2, <2>3 DEF Forest
  <1>10. FreeOnes(G, tags', free)
    <2>1. \A a \in X!Addr : a # t => tags'[a] = tags[a]
      BY <1>1, <1>4
    <2>2. ToSet(F[free]) \subseteq X!Addr
      BY <1>1, <1>2, Lengths DEF Forest
    <2> QED  BY <1>2, <1>8, <1>9, <2>1, <2>2 DEF FreeOnes
  <1>11. CountsAre(tags', refCount)
    <2>1. \A a \in X!Addr : tags'[a].string = tags[a].string
      BY <1>1, <1>4
    <2>2. \A s : Naming(tags', s) = Naming(tags, s)
      BY <2>1 DEF Naming
    <2> QED  BY <1>1, <2>2 DEF CountsAre
  <1>12. tags' \in [X!Addr -> Entry]
    BY <1>1, <1>4
  <1>13. Store(tags', free, blocks, refCount, R \ {h})
    BY <1>1, <1>6, <1>7, <1>10, <1>11, <1>12 DEF Store, StoreTypes, m
  <1> QED  BY <1>13

-----------------------------------------------------------------------------
(* The calls in progress *)

Frame == [type : ListTypes \union {"key"}, head : X!Ref, string : Strings \union {X!NoString}]

Heads(fr) == {fr[i].head : i \in DOMAIN fr}

\* What the calls hold, and what was returned to them.
HeldRoots(fr, t) == (Heads(fr) \union {t}) \ {0}

Apart(fr, t) ==
    /\ \A i, k \in DOMAIN fr : fr[i].head # 0 /\ fr[i].head = fr[k].head => i = k
    /\ t # 0 => t \notin Heads(fr)

\* A key has no list, a list has no string.
FrameFits(c) == IF c.type = "key" THEN c.head = 0 /\ c.string \in Strings ELSE c.string = X!NoString

FramesFit(fr) == \A i \in DOMAIN fr : FrameFits(fr[i])

LEMMA Pushed ==
    ASSUME NEW fr \in Seq(Frame), NEW c \in Frame, c.head = 0, NEW t, Apart(fr, t)
    PROVE  /\ Append(fr, c) \in Seq(Frame)
           /\ HeldRoots(Append(fr, c), t) = HeldRoots(fr, t)
           /\ Apart(Append(fr, c), t)
           /\ FramesFit(fr) /\ FrameFits(c) => FramesFit(Append(fr, c))
  <1> DEFINE after == Append(fr, c)
  <1>1. after \in Seq(Frame) /\ DOMAIN after = 1 .. Len(fr) + 1 /\ DOMAIN fr = 1 .. Len(fr)
    OBVIOUS
  <1>2. after[Len(fr) + 1] = c /\ \A i \in 1 .. Len(fr) : after[i] = fr[i]
    OBVIOUS
  <1>3. \A i : i \in 1 .. Len(fr) + 1 <=> i \in 1 .. Len(fr) \/ i = Len(fr) + 1
    OBVIOUS
  <1> HIDE DEF after
  <1>4. Heads(after) = Heads(fr) \union {0}
    BY <1>1, <1>2, <1>3 DEF Heads
  <1>5. Apart(after, t)
    BY <1>1, <1>2, <1>3, <1>4 DEF Apart
  <1>6. FramesFit(fr) /\ FrameFits(c) => FramesFit(after)
    BY <1>1, <1>2, <1>3 DEF FramesFit
  <1> QED  BY <1>1, <1>4, <1>5, <1>6 DEF HeldRoots, after

LEMMA LastOne ==
    ASSUME NEW fr \in Seq(Frame), fr # <<>>
    PROVE  /\ Len(fr) \in Nat \ {0} /\ DOMAIN fr = 1 .. Len(fr) /\ Len(fr) \in DOMAIN fr
           /\ fr[Len(fr)] \in Frame
           /\ X!Last(fr) = fr[Len(fr)]
  BY Library DEF Last

LEMMA Popped ==
    ASSUME NEW fr \in Seq(Frame), fr # <<>>, NEW t, Apart(fr, t)
    PROVE  /\ X!Front(fr) \in Seq(Frame)
           /\ Heads(X!Front(fr)) \ {0} = Heads(fr) \ {0, X!Last(fr).head}
           /\ \A r : r = 0 \/ r \notin Heads(fr) \ {X!Last(fr).head} => Apart(X!Front(fr), r)
           /\ FramesFit(fr) => FramesFit(X!Front(fr))
  <1> DEFINE after == SubSeq(fr, 1, Len(fr) - 1)
             n == Len(fr)
             h == fr[n].head
  <1>1. n \in Nat \ {0} /\ DOMAIN fr = 1 .. n /\ X!Last(fr).head = h /\ X!Front(fr) = after
    BY LastOne, Library DEF Front
  <1>2. /\ after \in Seq(Frame) /\ DOMAIN after = 1 .. n - 1
        /\ \A i \in 1 .. n - 1 : after[i] = fr[i]
    BY <1>1
  <1>3. \A i : i \in 1 .. n <=> i \in 1 .. n - 1 \/ i = n
    BY <1>1
  <1>4. n \notin 1 .. n - 1
    BY <1>1
  <1> HIDE DEF after, n
  <1>5. Heads(after) \ {0} = Heads(fr) \ {0, h}
    <2>1. ASSUME NEW x, x # 0 PROVE x \in Heads(after) <=> x \in Heads(fr) /\ x # h
      <3>1. x \in Heads(after) <=> \E i \in 1 .. n - 1 : x = fr[i].head
        BY <1>2 DEF Heads
      <3>2. x \in Heads(fr) <=> \E i \in 1 .. n : x = fr[i].head
        BY <1>1 DEF Heads
      <3>3. \A i \in 1 .. n - 1 : fr[i].head = x => x # h
        BY <1>1, <1>3, <1>4, <2>1 DEF Apart
      <3> HIDE DEF h
      <3> QED  BY <1>3, <3>1, <3>2, <3>3 DEF h
    <2> QED  BY <2>1
  <1>6. ASSUME NEW r, r = 0 \/ r \notin Heads(fr) \ {h} PROVE Apart(after, r)
    <2>1. r # 0 => r \notin Heads(after)
      BY <1>5, <1>6
    <2>2. \A i, k \in DOMAIN after : after[i].head # 0 /\ after[i].head = after[k].head => i = k
      BY <1>1, <1>2, <1>3 DEF Apart
    <2> QED  BY <2>1, <2>2 DEF Apart
  <1>7. FramesFit(fr) => FramesFit(after)
    BY <1>1, <1>2, <1>3 DEF FramesFit
  <1> QED  BY <1>1, <1>2, <1>5, <1>6, <1>7

LEMMA HeadChanged ==
    ASSUME NEW fr \in Seq(Frame), fr # <<>>, NEW t \in X!Addr, Apart(fr, t), FramesFit(fr),
           X!Last(fr).type # "key",
           NEW after, after = [fr EXCEPT ![Len(fr)].head = t]
    PROVE  /\ after \in Seq(Frame)
           /\ HeldRoots(after, 0) = HeldRoots(fr, t) \ {X!Last(fr).head}
           /\ Apart(after, 0) /\ FramesFit(after)
           /\ t # X!Last(fr).head
  <1> DEFINE n == Len(fr)
             h == fr[n].head
  <1>1. /\ n \in Nat \ {0} /\ DOMAIN fr = 1 .. n /\ n \in 1 .. n /\ X!Last(fr) = fr[n]
        /\ \A i \in 1 .. n : fr[i] \in Frame
    BY LastOne
  <1>2. t # 0 /\ t \in X!Ref
    BY Sizes
  <1>3. /\ after[n].head = t /\ after[n].type = fr[n].type /\ after[n].string = fr[n].string
        /\ after[n] \in Frame
        /\ \A i \in 1 .. n : i # n => after[i] = fr[i]
        /\ DOMAIN after = 1 .. n
    BY <1>1, <1>2 DEF Frame
  <1>4. after \in Seq(Frame)
    <2>1. after \in [1 .. n -> Frame]
      <3>1. after = [fr EXCEPT ![n] = [fr[n] EXCEPT !.head = t]] /\ [fr[n] EXCEPT !.head = t] \in Frame
        BY <1>1, <1>2 DEF Frame
      <3>2. fr \in [1 .. n -> Frame]
        OBVIOUS
      <3> HIDE DEF n
      <3> QED  BY <3>1, <3>2
    <2> HIDE DEF n
    <2> QED  BY <1>1, <2>1
  <1> HIDE DEF n
  <1>5. t \notin Heads(fr) /\ h \in Heads(fr)
    BY <1>1, <1>2 DEF Apart, Heads
  <1>6. ASSUME NEW x, x # 0 PROVE x \in Heads(after) <=> (x \in Heads(fr) \/ x = t) /\ x # h
    <2>1. x \in Heads(after) <=> \E i \in 1 .. n : x = after[i].head
      BY <1>3 DEF Heads
    <2>2. x \in Heads(fr) <=> \E i \in 1 .. n : x = fr[i].head
      BY <1>1 DEF Heads
    <2>3. \A i \in 1 .. n : i # n /\ fr[i].head = x => x # h
      BY <1>1, <1>6 DEF Apart
    <2>4. t # h
      BY <1>5
    <2>5. ASSUME x \in Heads(after) PROVE (x \in Heads(fr) \/ x = t) /\ x # h
      <3>1. PICK i \in 1 .. n : x = after[i].head
        BY <2>1, <2>5
      <3>2. CASE i = n
        BY <1>3, <2>4, <3>1, <3>2
      <3>3. CASE i # n
        BY <1>3, <2>2, <2>3, <3>1, <3>3
      <3> QED  BY <3>2, <3>3
    <2>6. ASSUME x \in Heads(fr) \/ x = t, x # h PROVE x \in Heads(after)
      <3>1. CASE x = t
        BY <1>1, <1>3, <2>1, <3>1
      <3>2. CASE x \in Heads(fr)
        <4>1. PICK i \in 1 .. n : x = fr[i].head
          BY <2>2, <3>2
        <4>2. i # n
          BY <2>6, <4>1
        <4> QED  BY <1>3, <2>1, <4>1, <4>2
      <3> QED  BY <2>6, <3>1, <3>2
    <2> QED  BY <2>5, <2>6
  <1>7. HeldRoots(after, 0) = HeldRoots(fr, t) \ {h}
    <2> HIDE DEF h
    <2> QED  BY <1>6 DEF HeldRoots
  <1>8. Apart(after, 0)
    <2>1. ASSUME NEW i \in 1 .. n, NEW k \in 1 .. n, after[i].head # 0, after[i].head = after[k].head, i # k
          PROVE  FALSE
      <3>1. CASE i = n
        BY <1>1, <1>3, <1>5, <2>1, <3>1 DEF Heads
      <3>2. CASE k = n
        BY <1>1, <1>3, <1>5, <2>1, <3>2 DEF Heads
      <3>3. CASE i # n /\ k # n
        BY <1>1, <1>3, <2>1, <3>3 DEF Apart
      <3> QED  BY <3>1, <3>2, <3>3
    <2> QED  BY <1>3, <2>1 DEF Apart
  <1>9. FramesFit(after)
    BY <1>1, <1>3 DEF FramesFit, FrameFits
  <1> QED  BY <1>1, <1>4, <1>5, <1>7, <1>8, <1>9 DEF n

-----------------------------------------------------------------------------
(* The invariant of the parser *)

\* The tag that a call has just returned.
Ret == IF readMode = "return" /\ result > 0 THEN result ELSE 0

Control ==
    /\ frames \in Seq(Frame) /\ FramesFit(frames)
    /\ readMode \in {"read", "return", "panicked", "done"}
    /\ result \in X!Ref \union {-1} /\ topTag \in X!Ref \union {-1}
    /\ seen \in 0 .. MaxTags

InUse ==
    /\ Store(tags, free, blocks, refCount, HeldRoots(frames, Ret))
    /\ Apart(frames, Ret)
    /\ Ret # 0 => tags[Ret].next = 0

\* After a panic the tag that was returned is nobody's.
TagInv ==
    /\ Control /\ StoreTypes(tags, free, blocks, refCount)
    /\ readMode # "panicked" => InUse

LEMMA Positive == \A a \in X!Ref : (a > 0 <=> a # 0) /\ a # -1 /\ (a > 0 <=> a \in X!Addr)
  BY Sizes DEF X!Ref

LEMMA TagInit == X!Init => TagInv
  <1> SUFFICES ASSUME X!Init PROVE TagInv
    OBVIOUS
  <1> DEFINE F == [x \in X!Ref |-> IF x = 0 THEN <<>> ELSE <<x>>]
  <1>1. tags = [a \in X!Addr |-> X!FreeTag] /\ free = 0 /\ blocks = 0 /\ refCount = [s \in Strings |-> 0]
        /\ frames = <<>> /\ readMode = "read" /\ result = 0 /\ seen = 0 /\ topTag = -1
    BY DEF X!Init
  <1>2. X!FreeTag \in Entry /\ X!FreeTag.tag = 0 /\ X!FreeTag.next = 0 /\ X!FreeTag.string = X!NoString
    BY Sizes DEF X!FreeTag, Entry, X!Types
  <1>3. StoreTypes(tags, free, blocks, refCount)
    BY <1>1, <1>2, Sizes DEF StoreTypes
  <1>4. Control
    BY <1>1, Sizes DEF Control, FramesFit
  <1>5. HeldRoots(frames, Ret) = {} /\ Apart(frames, Ret) /\ Ret = 0
    BY <1>1 DEF HeldRoots, Heads, Apart, Ret
  <1>6. F \in [X!Ref -> Seq(X!Addr)] /\ F[0] = <<>> /\ \A a \in X!Addr : F[a] = <<a>>
    BY Sizes DEF X!Ref
  <1>7. \A a \in X!Addr : F[a] = F[tags[a].tag] \o F[tags[a].next] \o <<a>>
    <2>1. \A a \in X!Addr : <<a>> = (<<>> \o <<>>) \o <<a>>
      OBVIOUS
    <2> HIDE DEF F
    <2> QED  BY <1>1, <1>2, <1>6, <2>1
  <1> HIDE DEF F
  <1>8. Forest(F, tags, {}, 0)
    <2>1. 1 .. 0 = {}
      OBVIOUS
    <2> QED  BY <1>1, <1>6, <1>7, <2>1 DEF Forest, Solves
  <1>9. Store(tags, free, blocks, refCount, {})
    <2>1. CountsAre(tags, refCount)
      <3>1. \A s \in Strings : Naming(tags, s) = {}
        BY <1>1, <1>2, Sizes DEF Naming
      <3> QED  BY <1>1, <3>1, FS_EmptySet DEF CountsAre
    <2>2. ({} \union {free}) \ {0} = {} /\ blocks * TagsPerBlock = 0
      BY <1>1, Sizes
    <2>3. FreeOnes(F, tags, free)
      BY <1>1, <1>6 DEF FreeOnes, ToSet
    <2> QED  BY <1>3, <1>8, <2>1, <2>2, <2>3 DEF Store
  <1> QED  BY <1>3, <1>4, <1>5, <1>9 DEF TagInv, InUse

\* A new tag that its caller returns.
LEMMA ReturnsTag ==
    ASSUME NEW R, Store(tags, free, blocks, refCount, R),
           NEW type \in X!Types, NEW string \in Strings \union {X!NoString}, NEW sub, sub = 0 \/ sub \in R,
           X!NewTag(type, string, sub), readMode' = "return",
           frames' \in Seq(Frame), Heads(frames') \ {0} = R \ {sub},
           \A r : r = 0 \/ r \notin R => Apart(frames', r)
    PROVE  InUse' /\ result' \in X!Ref
  <1>1. /\ result' \in X!Addr /\ tags'[result'].next = 0
        /\ result' \notin R
        /\ Store(tags', free', blocks', refCount', (R \ {sub}) \union {result'})
    BY NewTagStep
  <1>2. Ret' = result'
    BY <1>1, Positive, Sizes DEF Ret
  <1>3. HeldRoots(frames', result') = (R \ {sub}) \union {result'}
    BY <1>1, Sizes DEF HeldRoots
  <1>4. InUse' <=> /\ Store(tags', free', blocks', refCount', HeldRoots(frames', Ret'))
                   /\ Apart(frames', Ret')
                   /\ Ret' # 0 => tags'[Ret'].next = 0
    BY DEF InUse
  <1> QED  BY <1>1, <1>2, <1>3, <1>4, Sizes

\* Without a new tag, what would have been in it is freed.
LEMMA ReturnsFailure ==
    ASSUME NEW R, Store(tags, free, blocks, refCount, R), NEW q, q = 0 \/ q \in R,
           X!XMLFreeTag(q), ~ (readMode' = "return" /\ result' > 0),
           Heads(frames') \ {0} = R \ {q}, Apart(frames', 0)
    PROVE  InUse'
  <1>1. Store(tags', free', blocks', refCount', R \ {q})
    BY FreeStep
  <1>2. Ret' = 0
    BY DEF Ret
  <1>3. HeldRoots(frames', 0) = R \ {q}
    BY DEF HeldRoots
  <1>4. InUse' <=> /\ Store(tags', free', blocks', refCount', HeldRoots(frames', Ret'))
                   /\ Apart(frames', Ret')
                   /\ Ret' # 0 => tags'[Ret'].next = 0
    BY DEF InUse
  <1> QED  BY <1>1, <1>2, <1>3, <1>4

\* A step that leaves the store alone.
LEMMA StoreRests ==
    ASSUME InUse, Ret = 0, ~ (readMode' = "return" /\ result' > 0),
           UNCHANGED <<tags, free, blocks, refCount>>,
           Heads(frames') \ {0} = Heads(frames) \ {0}, Apart(frames', 0)
    PROVE  InUse'
  <1>1. Ret' = 0
    BY DEF Ret
  <1>2. HeldRoots(frames', 0) = HeldRoots(frames, 0)
    BY DEF HeldRoots
  <1>3. Store(tags', free', blocks', refCount', HeldRoots(frames', 0))
    BY <1>2 DEF InUse
  <1>4. InUse' <=> /\ Store(tags', free', blocks', refCount', HeldRoots(frames', Ret'))
                   /\ Apart(frames', Ret')
                   /\ Ret' # 0 => tags'[Ret'].next = 0
    BY DEF InUse
  <1> QED  BY <1>1, <1>3, <1>4

LEMMA Kept ==
    ASSUME Control', readMode' # "panicked", InUse'
    PROVE  TagInv'
  <1>1. StoreTypes(tags', free', blocks', refCount')
    BY DEF InUse, Store
  <1> QED  BY <1>1 DEF TagInv

\* What is known where a call begins.
LEMMA Reading ==
    ASSUME TagInv, readMode = "read"
    PROVE  /\ Control /\ InUse /\ Ret = 0
           /\ frames \in Seq(Frame) /\ FramesFit(frames) /\ Apart(frames, 0)
           /\ Store(tags, free, blocks, refCount, HeldRoots(frames, 0))
           /\ HeldRoots(frames, 0) = Heads(frames) \ {0}
           /\ result \in X!Ref \union {-1} /\ topTag \in X!Ref \union {-1} /\ seen \in 0 .. MaxTags
           /\ X!Read => seen' \in 0 .. MaxTags
  <1>1. Control /\ InUse /\ Ret = 0
    BY DEF TagInv, Ret
  <1>2. X!Read => seen' \in 0 .. MaxTags
    BY <1>1, Sizes DEF X!Read, Control
  <1>3. HeldRoots(frames, 0) = Heads(frames) \ {0}
    BY DEF HeldRoots
  <1>4. Apart(frames, 0) /\ Store(tags, free, blocks, refCount, HeldRoots(frames, 0))
    BY <1>1 DEF InUse
  <1> QED  BY <1>1, <1>2, <1>3, <1>4 DEF Control

LEMMA LeafStep == ASSUME TagInv, X!ReadLeaf PROVE TagInv'
  <1>1. readMode = "read" /\ X!Read /\ frames' = frames /\ topTag' = topTag
    BY DEF X!ReadLeaf, X!Read
  <1>2. PICK type \in X!Types, string \in Strings \union {X!NoString} : X!Leaf(type, string)
    BY DEF X!ReadLeaf, X!Types
  <1>3. readMode' = "return"
    BY <1>2 DEF X!Leaf
  <1>4. InUse' /\ result' \in X!Ref \union {-1}
    <2> DEFINE R == HeldRoots(frames, 0)
    <2>1. /\ Store(tags, free, blocks, refCount, R) /\ R = Heads(frames) \ {0}
          /\ Apart(frames, 0) /\ frames \in Seq(Frame)
      BY <1>1, Reading
    <2> HIDE DEF R
    <2>2. R \ {0} = R /\ \A r : r = 0 \/ r \notin R => Apart(frames, r)
      BY <2>1 DEF Apart
    <2>3. CASE X!NewTag(type, string, 0)
      BY <1>1, <1>3, <2>1, <2>2, <2>3, ReturnsTag
    <2>4. CASE X!ReturnFailure(0)
      <3>1. X!XMLFreeTag(0) /\ result' = -1
        BY <2>4 DEF X!ReturnFailure
      <3>2. ~ (readMode' = "return" /\ result' > 0)
        BY <3>1
      <3> QED  BY <1>1, <2>1, <2>2, <3>1, <3>2, ReturnsFailure
    <2> QED  BY <1>2, <2>3, <2>4 DEF X!Leaf
  <1>5. Control'
    <2>1. frames \in Seq(Frame) /\ FramesFit(frames) /\ topTag \in X!Ref \union {-1} /\ seen' \in 0 .. MaxTags
      BY <1>1, Reading
    <2> QED  BY <1>1, <1>3, <1>4, <2>1 DEF Control
  <1> QED  BY <1>3, <1>4, <1>5, Kept

LEMMA CallStep == ASSUME TagInv, X!ReadList \/ X!ReadKey PROVE TagInv'
  <1>1. /\ readMode = "read" /\ X!Read /\ topTag' = topTag /\ result' = result /\ readMode' = "read"
        /\ UNCHANGED <<tags, free, blocks, refCount>>
    BY DEF X!ReadList, X!ReadKey, X!Read, X!Call, X!store
  <1>2. PICK c \in Frame : /\ c.head = 0 /\ frames' = Append(frames, c)
                           /\ FrameFits(c)
    <2>1. CASE X!ReadList
      <3>1. PICK type \in ListTypes : X!Call([type |-> type, head |-> 0, string |-> X!NoString])
        BY <2>1 DEF X!ReadList
      <3> DEFINE c == [type |-> type, head |-> 0, string |-> X!NoString]
      <3>2. c \in Frame /\ c.head = 0 /\ FrameFits(c) /\ frames' = Append(frames, c)
        BY <3>1, Sizes DEF Frame, X!Call, FrameFits
      <3> QED  BY <3>2
    <2>2. CASE X!ReadKey
      <3>1. PICK string \in Strings : X!Call([type |-> "key", head |-> 0, string |-> string])
        BY <2>2 DEF X!ReadKey
      <3> DEFINE c == [type |-> "key", head |-> 0, string |-> string]
      <3>2. c \in Frame /\ c.head = 0 /\ FrameFits(c) /\ frames' = Append(frames, c)
        BY <3>1, Sizes DEF Frame, X!Call, FrameFits
      <3> QED  BY <3>2
    <2> QED  BY <2>1, <2>2
  <1>3. /\ frames \in Seq(Frame) /\ FramesFit(frames) /\ Apart(frames, 0) /\ InUse /\ Ret = 0
        /\ topTag \in X!Ref \union {-1} /\ result \in X!Ref \union {-1} /\ seen' \in 0 .. MaxTags
    BY <1>1, Reading
  <1>4. /\ frames' \in Seq(Frame) /\ HeldRoots(frames', 0) = HeldRoots(frames, 0)
        /\ Apart(frames', 0) /\ FramesFit(frames')
    BY <1>2, <1>3, Pushed
  <1>5. Heads(frames') \ {0} = Heads(frames) \ {0}
    BY <1>4 DEF HeldRoots
  <1>6. InUse'
    <2>1. ~ (readMode' = "return" /\ result' > 0)
      BY <1>1
    <2> QED  BY <1>1, <1>3, <1>4, <1>5, <2>1, StoreRests
  <1>7. Control'
    BY <1>1, <1>3, <1>4 DEF Control
  <1> QED  BY <1>1, <1>6, <1>7, Kept

LEMMA NoTagStep == ASSUME TagInv, X!ReadOther \/ X!ReadPlist \/ X!ReadEnd PROVE TagInv'
  <1>0. frames' = frames /\ topTag' = topTag
    BY DEF X!ReadOther, X!ReadPlist, X!ReadEnd
  <1>1. /\ readMode = "read" /\ readMode' = "return" /\ result' \in {0, -1} /\ (X!Read \/ seen' = seen)
        /\ UNCHANGED <<tags, free, blocks, refCount>>
    BY DEF X!ReadOther, X!ReadPlist, X!ReadEnd, X!Read, X!store
  <1>2. /\ frames \in Seq(Frame) /\ FramesFit(frames) /\ Apart(frames, 0) /\ InUse /\ Ret = 0
        /\ topTag \in X!Ref \union {-1} /\ seen' \in 0 .. MaxTags
    BY <1>1, Reading
  <1>3. InUse'
    <2>1. ~ (readMode' = "return" /\ result' > 0)
      BY <1>1
    <2>2. Heads(frames') \ {0} = Heads(frames) \ {0} /\ Apart(frames', 0)
      BY <1>0, <1>2
    <2> QED  BY <1>1, <1>2, <2>1, <2>2, StoreRests
  <1>4. Control'
    <2>1. result' \in X!Ref \union {-1}
      BY <1>1, Sizes
    <2>2. frames' \in Seq(Frame) /\ FramesFit(frames') /\ topTag' \in X!Ref \union {-1}
      BY <1>0, <1>2
    <2> QED  BY <1>1, <1>2, <2>1, <2>2 DEF Control
  <1> QED  BY <1>1, <1>3, <1>4, Kept

\* What is known where a call returns to the call of a list or a key.
LEMMA Returning ==
    ASSUME TagInv, readMode = "return", frames # <<>>
    PROVE  /\ frames \in Seq(Frame) /\ FramesFit(frames) /\ InUse
           /\ Store(tags, free, blocks, refCount, HeldRoots(frames, Ret))
           /\ Apart(frames, Ret) /\ (Ret # 0 => tags[Ret].next = 0)
           /\ result \in X!Ref \union {-1} /\ topTag \in X!Ref \union {-1} /\ seen \in 0 .. MaxTags
           /\ Ret = (IF result = -1 THEN 0 ELSE result)
           /\ X!Caller \in Frame /\ X!Caller = frames[Len(frames)] /\ X!Caller = X!Last(frames)
           /\ X!Caller.head \in Heads(frames)
           /\ FrameFits(X!Caller) /\ (X!Caller.type = "key" => X!Caller.head = 0 /\ X!Caller.string \in Strings)
           /\ X!Caller.type \in ListTypes => X!Caller.type # "key"
           /\ HeldRoots(frames, 0) = Heads(frames) \ {0}
           /\ X!Front(frames) \in Seq(Frame) /\ FramesFit(X!Front(frames))
           /\ Heads(X!Front(frames)) \ {0} = Heads(frames) \ {0, X!Caller.head}
           /\ \A r : r = 0 \/ r \notin Heads(frames) \ {X!Caller.head} => Apart(X!Front(frames), r)
  <1>1. /\ frames \in Seq(Frame) /\ FramesFit(frames) /\ InUse
        /\ Store(tags, free, blocks, refCount, HeldRoots(frames, Ret))
        /\ Apart(frames, Ret) /\ (Ret # 0 => tags[Ret].next = 0)
        /\ result \in X!Ref \union {-1} /\ topTag \in X!Ref \union {-1} /\ seen \in 0 .. MaxTags
    BY DEF TagInv, Control, InUse
  <1>2. Ret = (IF result = -1 THEN 0 ELSE result)
    <2>1. CASE result = -1
      BY <2>1 DEF Ret
    <2>2. CASE result \in X!Ref
      BY <2>2, Positive DEF Ret
    <2> QED  BY <1>1, <2>1, <2>2
  <1>3. /\ X!Caller \in Frame /\ X!Caller = frames[Len(frames)] /\ X!Caller = X!Last(frames)
        /\ Len(frames) \in DOMAIN frames
    BY <1>1, LastOne DEF X!Caller
  <1>4. X!Caller.head \in Heads(frames)
    BY <1>3 DEF Heads
  <1>5. FrameFits(X!Caller) /\ (X!Caller.type = "key" => X!Caller.head = 0 /\ X!Caller.string \in Strings)
    BY <1>1, <1>3 DEF FramesFit, FrameFits
  <1>6. HeldRoots(frames, 0) = Heads(frames) \ {0}
    BY DEF HeldRoots
  <1>7. /\ X!Front(frames) \in Seq(Frame) /\ FramesFit(X!Front(frames))
        /\ Heads(X!Front(frames)) \ {0} = Heads(frames) \ {0, X!Caller.head}
        /\ \A r : r = 0 \/ r \notin Heads(frames) \ {X!Caller.head} => Apart(X!Front(frames), r)
    BY <1>1, <1>3, Popped
  <1> QED  BY <1>1, <1>2, <1>3, <1>4, <1>5, <1>6, <1>7, Sizes

LEMMA ListFailsStep == ASSUME TagInv, X!ListFails PROVE TagInv'
  <1>1. /\ readMode = "return" /\ frames # <<>> /\ X!Caller.type \in ListTypes /\ result = -1
        /\ frames' = X!Front(frames) /\ readMode' = "return"
        /\ X!XMLFreeTag(X!Caller.head) /\ result' = -1 /\ topTag' = topTag /\ seen' = seen
    BY DEF X!ListFails, X!Returned, X!Pop, X!ReturnFailure
  <1> DEFINE R == HeldRoots(frames, 0)
             h == X!Caller.head
  <1>2. /\ Store(tags, free, blocks, refCount, R) /\ R = Heads(frames) \ {0} /\ h \in Heads(frames)
        /\ frames' \in Seq(Frame) /\ FramesFit(frames') /\ topTag \in X!Ref \union {-1} /\ seen \in 0 .. MaxTags
        /\ Heads(frames') \ {0} = Heads(frames) \ {0, h} /\ Apart(frames', 0)
    BY <1>1, Returning
  <1> HIDE DEF R, h
  <1>3. InUse'
    <2>1. (h = 0 \/ h \in R) /\ Heads(frames') \ {0} = R \ {h} /\ X!XMLFreeTag(h)
      BY <1>1, <1>2 DEF h
    <2>2. ~ (readMode' = "return" /\ result' > 0)
      BY <1>1
    <2> QED  BY <1>2, <2>1, <2>2, ReturnsFailure
  <1>4. Control'
    BY <1>1, <1>2 DEF Control
  <1> QED  BY <1>1, <1>3, <1>4, Kept

LEMMA ListAddStep == ASSUME TagInv, X!ListAdd PROVE TagInv'
  <1> DEFINE R == HeldRoots(frames, result)
             h == X!Caller.head
  <1>1. /\ readMode = "return" /\ frames # <<>> /\ X!Caller.type \in ListTypes /\ result > 0
        /\ tags' = [tags EXCEPT ![result].next = h]
        /\ frames' = [frames EXCEPT ![Len(frames)].head = result]
        /\ readMode' = "read" /\ UNCHANGED <<free, blocks, refCount, result, topTag, seen>>
    BY DEF X!ListAdd, X!Returned
  <1>2. result \in X!Addr /\ Ret = result
    <2>1. result \in X!Ref \union {-1} /\ Ret = result
      BY <1>1, Returning DEF Ret
    <2> QED  BY <1>1, <2>1, Positive
  <1>3. /\ Store(tags, free, blocks, refCount, R) /\ Apart(frames, result) /\ tags[result].next = 0
        /\ frames \in Seq(Frame) /\ FramesFit(frames) /\ topTag \in X!Ref \union {-1} /\ seen \in 0 .. MaxTags
        /\ X!Last(frames).type # "key" /\ X!Last(frames).head = h /\ h \in Heads(frames)
    BY <1>1, <1>2, Returning, Sizes
  <1>4. /\ frames' \in Seq(Frame) /\ HeldRoots(frames', 0) = R \ {h}
        /\ Apart(frames', 0) /\ FramesFit(frames') /\ result # h
    BY <1>1, <1>2, <1>3, HeadChanged, ZenonT(60)
  <1> HIDE DEF R, h
  <1>5. Store(tags', free', blocks', refCount', R \ {h})
    <2>1. result \in R /\ (h = 0 \/ h \in R \ {result})
      BY <1>2, <1>3, <1>4, Sizes DEF R, HeldRoots
    <2> QED  BY <1>1, <1>3, <2>1, ChainStep
  <1>6. InUse'
    <2>1. Ret' = 0
      BY <1>1 DEF Ret
    <2>2. InUse' <=> /\ Store(tags', free', blocks', refCount', HeldRoots(frames', Ret'))
                     /\ Apart(frames', Ret')
                     /\ Ret' # 0 => tags'[Ret'].next = 0
      BY DEF InUse
    <2> QED  BY <1>4, <1>5, <2>1, <2>2
  <1>7. Control'
    BY <1>1, <1>2, <1>3, <1>4, Sizes DEF Control
  <1> QED  BY <1>1, <1>6, <1>7, Kept

LEMMA ListEndsStep == ASSUME TagInv, X!ListEnds PROVE TagInv'
  <1> DEFINE R == HeldRoots(frames, 0)
             h == X!Caller.head
  <1>1. /\ readMode = "return" /\ frames # <<>> /\ X!Caller.type \in ListTypes /\ result = 0
        /\ frames' = X!Front(frames) /\ readMode' = "return" /\ topTag' = topTag /\ seen' = seen
        /\ X!NewTag(X!Caller.type, X!NoString, h) \/ X!ReturnFailure(h)
    BY DEF X!ListEnds, X!Returned, X!Pop
  <1>2. /\ Store(tags, free, blocks, refCount, R) /\ R = Heads(frames) \ {0} /\ h \in Heads(frames)
        /\ frames' \in Seq(Frame) /\ FramesFit(frames') /\ topTag \in X!Ref \union {-1} /\ seen \in 0 .. MaxTags
        /\ Heads(frames') \ {0} = Heads(frames) \ {0, h}
        /\ \A r : r = 0 \/ r \notin Heads(frames) \ {h} => Apart(frames', r)
    BY <1>1, Returning
  <1> HIDE DEF R, h
  <1>3. (h = 0 \/ h \in R) /\ Heads(frames') \ {0} = R \ {h}
    BY <1>2
  <1>4. \A r : r = 0 \/ r \notin R => Apart(frames', r)
    BY <1>2
  <1>5. InUse' /\ result' \in X!Ref \union {-1}
    <2>1. CASE X!NewTag(X!Caller.type, X!NoString, h)
      <3>1. X!Caller.type \in X!Types
        BY <1>1 DEF X!Types
      <3> QED  BY <1>1, <1>2, <1>3, <1>4, <2>1, <3>1, ReturnsTag
    <2>2. CASE X!ReturnFailure(h)
      <3>1. X!XMLFreeTag(h) /\ result' = -1
        BY <2>2 DEF X!ReturnFailure
      <3>2. ~ (readMode' = "return" /\ result' > 0)
        BY <3>1
      <3> QED  BY <1>2, <1>3, <1>4, <3>1, <3>2, ReturnsFailure
    <2> QED  BY <1>1, <2>1, <2>2
  <1>6. Control'
    BY <1>1, <1>2, <1>5 DEF Control
  <1> QED  BY <1>1, <1>5, <1>6, Kept

LEMMA KeyFailsStep == ASSUME TagInv, X!KeyFails PROVE TagInv'
  <1>1. /\ readMode = "return" /\ frames # <<>> /\ X!Caller.type = "key" /\ result = -1
        /\ frames' = X!Front(frames) /\ readMode' = "return"
        /\ UNCHANGED <<tags, free, blocks, refCount, result, topTag, seen>>
    BY DEF X!KeyFails, X!Returned, X!Pop, X!store
  <1>2. /\ frames' \in Seq(Frame) /\ FramesFit(frames') /\ InUse /\ Ret = 0
        /\ topTag \in X!Ref \union {-1} /\ seen \in 0 .. MaxTags
        /\ Heads(frames') \ {0} = Heads(frames) \ {0} /\ Apart(frames', 0)
    BY <1>1, Returning
  <1>3. InUse'
    <2>1. ~ (readMode' = "return" /\ result' > 0)
      BY <1>1
    <2> QED  BY <1>1, <1>2, <2>1, StoreRests
  <1>4. Control'
    BY <1>1, <1>2 DEF Control
  <1> QED  BY <1>1, <1>3, <1>4, Kept

LEMMA KeyEndsStep == ASSUME TagInv, X!KeyEnds PROVE TagInv'
  <1> DEFINE R == HeldRoots(frames, result)
  <1>1. /\ readMode = "return" /\ frames # <<>> /\ X!Caller.type = "key" /\ result # -1
        /\ frames' = X!Front(frames) /\ readMode' = "return" /\ topTag' = topTag /\ seen' = seen
        /\ X!NewTag("key", X!Caller.string, result) \/ X!ReturnFailure(result)
    BY DEF X!KeyEnds, X!Returned, X!Pop
  <1>2. /\ Ret = result /\ Store(tags, free, blocks, refCount, R) /\ Apart(frames, result)
        /\ frames' \in Seq(Frame) /\ FramesFit(frames') /\ topTag \in X!Ref \union {-1} /\ seen \in 0 .. MaxTags
        /\ X!Caller.string \in Strings
        /\ Heads(frames') \ {0} = Heads(frames) \ {0}
        /\ \A r : r = 0 \/ r \notin Heads(frames) \ {0} => Apart(frames', r)
    BY <1>1, Returning
  <1>3. R = (Heads(frames) \union {result}) \ {0} /\ (result # 0 => result \notin Heads(frames))
    <2>1. result # 0 => result \notin Heads(frames)
      BY <1>2 DEF Apart
    <2> QED  BY <2>1 DEF R, HeldRoots
  <1> HIDE DEF R
  <1>4. (result = 0 \/ result \in R) /\ Heads(frames') \ {0} = R \ {result}
    BY <1>2, <1>3
  <1>5. \A r : r = 0 \/ r \notin R => Apart(frames', r)
    BY <1>2, <1>3
  <1>6. InUse' /\ result' \in X!Ref \union {-1}
    <2>1. CASE X!NewTag("key", X!Caller.string, result)
      <3>1. "key" \in X!Types
        BY DEF X!Types
      <3> QED  BY <1>1, <1>2, <1>4, <1>5, <2>1, <3>1, ReturnsTag
    <2>2. CASE X!ReturnFailure(result)
      <3>1. X!XMLFreeTag(result) /\ result' = -1
        BY <2>2 DEF X!ReturnFailure
      <3>2. ~ (readMode' = "return" /\ result' > 0)
        BY <3>1
      <3> QED  BY <1>2, <1>4, <1>5, <3>1, <3>2, ReturnsFailure
    <2> QED  BY <1>1, <2>1, <2>2
  <1>7. Control'
    BY <1>1, <1>2, <1>6 DEF Control
  <1> QED  BY <1>1, <1>6, <1>7, Kept

LEMMA PanicStep == ASSUME TagInv, X!SymbolPanic PROVE TagInv'
  <1>1. readMode' = "panicked" /\ UNCHANGED <<tags, free, blocks, refCount, frames, result, topTag, seen>>
    BY DEF X!SymbolPanic, X!store
  <1>2. Control /\ StoreTypes(tags, free, blocks, refCount)
    BY DEF TagInv
  <1>3. Control'
    BY <1>1, <1>2 DEF Control
  <1> QED  BY <1>1, <1>2, <1>3 DEF TagInv

LEMMA TopStep == ASSUME TagInv, X!TopGoesOn \/ X!TopFails PROVE TagInv'
  <1>1. /\ readMode = "return" /\ readMode' \in {"read", "done"} /\ frames = <<>> /\ frames' = frames
        /\ result' = result /\ seen' = seen /\ topTag' \in {topTag, result}
        /\ \/ result \in {0, -1} /\ UNCHANGED <<tags, free, blocks, refCount>>
           \/ result \notin {0, -1} /\ X!XMLFreeTag(result)
    BY DEF X!TopGoesOn, X!TopFails, X!store
  <1>2. Control /\ InUse /\ result \in X!Ref \union {-1} /\ Heads(frames) = {}
    BY <1>1 DEF TagInv, Control, Heads
  <1>3. Apart(frames', 0) /\ ~ (readMode' = "return" /\ result' > 0)
    BY <1>1 DEF Apart
  <1>4. InUse'
    <2>1. CASE result \in {0, -1} /\ UNCHANGED <<tags, free, blocks, refCount>>
      <3>1. Ret = 0
        BY <2>1 DEF Ret
      <3> QED  BY <1>1, <1>2, <1>3, <2>1, <3>1, StoreRests
    <2>2. CASE result \notin {0, -1} /\ X!XMLFreeTag(result)
      <3>1. result \in X!Addr /\ result > 0 /\ result # 0
        BY <1>2, <2>2, Positive
      <3>2. HeldRoots(frames, Ret) = {result}
        BY <1>1, <1>2, <3>1 DEF HeldRoots, Ret
      <3>3. Store(tags, free, blocks, refCount, {result})
        BY <1>2, <3>2 DEF InUse
      <3>4. Heads(frames') \ {0} = {result} \ {result}
        BY <1>1, <1>2
      <3> QED  BY <1>3, <2>2, <3>3, <3>4, ReturnsFailure
    <2> QED  BY <1>1, <2>1, <2>2
  <1>5. Control'
    BY <1>1, <1>2 DEF Control
  <1>6. readMode' # "panicked"
    BY <1>1
  <1> QED  BY <1>4, <1>5, <1>6, Kept

LEMMA TagRests == ASSUME TagInv, UNCHANGED xml PROVE TagInv'
  <1>1. UNCHANGED <<tags, free, blocks, refCount, frames, readMode, result, topTag, seen>>
    BY DEF xml
  <1> QED  BY <1>1 DEF TagInv, Control, InUse, Ret

LEMMA TagStep == ASSUME TagInv, X!Next PROVE TagInv'
  BY LeafStep, CallStep, NoTagStep, ListFailsStep, ListAddStep, ListEndsStep, KeyFailsStep,
     KeyEndsStep, PanicStep, TopStep DEF X!Next

-----------------------------------------------------------------------------
(* What the invariant says of the tags and the symbols *)

LEMMA TagTypes == TagInv => X!TypeOK
  <1> SUFFICES ASSUME TagInv PROVE X!TypeOK
    OBVIOUS
  <1>1. tags \in [X!Addr -> [type : X!Types, string : Strings \union {X!NoString}, tag : X!Ref, next : X!Ref]]
    BY DEF TagInv, StoreTypes, Entry
  <1>2. \A i \in DOMAIN frames :
            frames[i] \in [type : ListTypes \union {"key"}, head : X!Ref, string : Strings \union {X!NoString}]
    <2>1. frames \in Seq(Frame)
      BY DEF TagInv, Control
    <2>2. \A i \in DOMAIN frames : frames[i] \in Frame
      BY <2>1
    <2> QED  BY <2>2 DEF Frame
  <1>3. /\ free \in X!Ref /\ blocks \in 0 .. MaxBlocks /\ refCount \in [Strings -> Nat]
        /\ readMode \in {"read", "return", "panicked", "done"}
        /\ result \in X!Ref \union {-1} /\ topTag \in X!Ref \union {-1} /\ seen \in 0 .. MaxTags
    BY DEF TagInv, Control, StoreTypes
  <1> QED  BY <1>1, <1>2, <1>3 DEF X!TypeOK

\* The roots that XmlTags names are those of the forest, each once.
LEMMA RootsOnce ==
    ASSUME TagInv, readMode # "panicked",
           NEW R1, R1 = (HeldRoots(frames, Ret) \union {free}) \ {0}
    PROVE  /\ 0 \in DOMAIN X!Roots /\ X!Roots[0] = free
           /\ \A i \in DOMAIN X!Roots : X!Roots[i] = 0 \/ X!Roots[i] \in R1
           /\ \A r \in R1 : \E i \in DOMAIN X!Roots : X!Roots[i] = r
           /\ \A i, k \in DOMAIN X!Roots : X!Roots[i] # 0 /\ X!Roots[i] = X!Roots[k] => i = k
  <1> DEFINE n == Len(frames)
             roots == X!Roots
  <1>1. /\ n \in Nat /\ DOMAIN frames = 1 .. n /\ Apart(frames, Ret) /\ free \notin HeldRoots(frames, Ret)
    BY DEF TagInv, Control, InUse, Store
  <1>2. /\ DOMAIN roots = 0 .. n + 1 /\ roots[0] = free
        /\ \A i \in 1 .. n : roots[i] = frames[i].head
        /\ roots[n + 1] = Ret
    BY <1>1 DEF X!Roots, Ret
  <1>3. /\ 0 \in 0 .. n + 1 /\ n + 1 \in 0 .. n + 1
        /\ \A i : i \in 0 .. n + 1 <=> i = 0 \/ i \in 1 .. n \/ i = n + 1
    BY <1>1
  <1> HIDE DEF n, roots
  <1>4. \A i \in DOMAIN roots : roots[i] = 0 \/ roots[i] \in R1
    <2>1. \A i \in 1 .. n : roots[i] \in Heads(frames)
      BY <1>1, <1>2 DEF Heads
    <2> QED  BY <1>2, <1>3, <2>1 DEF HeldRoots
  <1>5. ASSUME NEW r \in R1 PROVE \E i \in DOMAIN roots : roots[i] = r
    <2>1. r = free \/ r = Ret \/ r \in Heads(frames)
      BY <1>5 DEF HeldRoots
    <2>2. ASSUME r \in Heads(frames) PROVE \E i \in DOMAIN roots : roots[i] = r
      <3>1. PICK i \in 1 .. n : r = frames[i].head
        BY <1>1, <2>2 DEF Heads
      <3> QED  BY <1>2, <1>3, <3>1
    <2> QED  BY <1>2, <1>3, <2>1, <2>2
  <1>6. ASSUME NEW i \in DOMAIN roots, NEW k \in DOMAIN roots, roots[i] # 0, roots[i] = roots[k]
        PROVE  i = k
    <2>1. ASSUME NEW l \in DOMAIN roots, roots[l] # 0, l # 0 PROVE roots[l] # free
      <3>1. CASE l \in 1 .. n
        <4>1. roots[l] \in HeldRoots(frames, Ret)
          BY <1>1, <1>2, <2>1, <3>1 DEF HeldRoots, Heads
        <4> QED  BY <1>1, <4>1
      <3>2. CASE l = n + 1
        <4>1. roots[l] \in HeldRoots(frames, Ret)
          BY <1>2, <2>1, <3>2 DEF HeldRoots
        <4> QED  BY <1>1, <4>1
      <3> QED  BY <1>2, <1>3, <2>1, <3>1, <3>2
    <2>2. CASE i = 0 \/ k = 0
      BY <1>2, <1>6, <2>1, <2>2
    <2>3. CASE i \in 1 .. n /\ k \in 1 .. n
      BY <1>1, <1>2, <1>6, <2>3 DEF Apart
    <2>4. ASSUME NEW l \in 1 .. n, roots[l] # 0, roots[l] = roots[n + 1] PROVE FALSE
      <3>1. Ret \in Heads(frames) /\ Ret # 0
        BY <1>1, <1>2, <2>4 DEF Heads
      <3> QED  BY <1>1, <3>1 DEF Apart
    <2> QED  BY <1>2, <1>3, <1>6, <2>2, <2>3, <2>4
  <1> QED  BY <1>2, <1>3, <1>4, <1>5, <1>6 DEF roots

LEMMA TagsAreCounted == TagInv => X!TagsPartitioned /\ X!SymbolsCounted
  <1> SUFFICES ASSUME TagInv, readMode # "panicked" PROVE X!TagsPartitioned /\ X!SymbolsCounted
    BY DEF X!TagsPartitioned, X!SymbolsCounted
  <1> DEFINE R1 == (HeldRoots(frames, Ret) \union {free}) \ {0}
             m == blocks * TagsPerBlock
             roots == X!Roots
  <1>1. /\ tags \in [X!Addr -> Entry] /\ CountsAre(tags, refCount)
        /\ \E F : Forest(F, tags, R1, m) /\ FreeOnes(F, tags, free)
    BY DEF TagInv, InUse, Store, StoreTypes
  <1>2. /\ 0 \in DOMAIN roots /\ roots[0] = free
        /\ \A i \in DOMAIN roots : roots[i] = 0 \/ roots[i] \in R1
        /\ \A r \in R1 : \E i \in DOMAIN roots : roots[i] = r
        /\ \A i, k \in DOMAIN roots : roots[i] # 0 /\ roots[i] = roots[k] => i = k
    BY RootsOnce
  <1> HIDE DEF R1, m
  <1>3. PICK F : Forest(F, tags, R1, m) /\ FreeOnes(F, tags, free)
    BY <1>1
  <1>4. Solves(F, tags) /\ R1 \subseteq X!Addr /\ ToSet(F[0]) = {} /\ IsInjective(F[0]) /\ F[0] = <<>>
    BY <1>3, Single DEF Forest, Solves
  <1>5. \A i \in DOMAIN roots : roots[i] \in X!Ref
    BY <1>2, <1>4, Sizes
  <1>6. /\ \A i \in DOMAIN roots : X!FreeOrder(X!Roots[i]) = F[roots[i]]
        /\ \A i \in DOMAIN roots : X!Held(i) = ToSet(F[roots[i]])
    <2>1. \A i \in DOMAIN roots : X!FreeOrder(X!Roots[i]) = F[roots[i]]
      BY <1>1, <1>4, <1>5, FreeOrderIs
    <2>2. \A i : X!Held(i) = ToSet(X!FreeOrder(X!Roots[i]))
      BY Library DEF X!Held
    <2> HIDE DEF roots
    <2> QED  BY <2>1, <2>2
  <1>7. \A i \in DOMAIN X!Roots : X!IsInjective(X!FreeOrder(X!Roots[i]))
    <2>1. ASSUME NEW i \in DOMAIN roots PROVE IsInjective(F[roots[i]])
      BY <1>2, <1>3, <1>4 DEF Forest
    <2> QED  BY <1>6, <2>1, Library
  <1>8. \A i, k \in DOMAIN X!Roots : i # k => X!Held(i) \cap X!Held(k) = {}
    <2> SUFFICES ASSUME NEW i \in DOMAIN roots, NEW k \in DOMAIN roots, i # k
                 PROVE  ToSet(F[roots[i]]) \cap ToSet(F[roots[k]]) = {}
      BY <1>6
    <2> HIDE DEF roots
    <2>1. CASE roots[i] = 0 \/ roots[k] = 0
      BY <1>4, <2>1
    <2>2. CASE roots[i] # 0 /\ roots[k] # 0
      <3>1. roots[i] \in R1 /\ roots[k] \in R1 /\ roots[i] # roots[k]
        BY <1>2, <2>2
      <3> QED  BY <1>3, <3>1 DEF Forest
    <2> QED  BY <2>1, <2>2
  <1>9. UNION {X!Held(i) : i \in DOMAIN X!Roots} = 1 .. m
    <2>1. UNION {ToSet(F[a]) : a \in R1} = 1 .. m
      BY <1>3 DEF Forest
    <2>2. ASSUME NEW z
          PROVE  (\E i \in DOMAIN roots : z \in X!Held(i)) <=> (\E a \in R1 : z \in ToSet(F[a]))
      <3> HIDE DEF roots
      <3>1. ASSUME NEW i \in DOMAIN roots, z \in X!Held(i) PROVE \E a \in R1 : z \in ToSet(F[a])
        BY <1>2, <1>4, <1>6, <3>1
      <3>2. ASSUME NEW a \in R1, z \in ToSet(F[a]) PROVE \E i \in DOMAIN roots : z \in X!Held(i)
        BY <1>2, <1>6, <3>2
      <3> QED  BY <3>1, <3>2
    <2> QED  BY <2>1, <2>2, Zenon
  <1>10. X!Held(0) = ToSet(F[free])
    BY <1>2, <1>6
  <1>11. \A t \in X!Held(0) : tags[t].tag = 0 /\ tags[t].string = X!NoString
    BY <1>3, <1>10 DEF FreeOnes
  <1>12. X!TagsPartitioned
    BY <1>7, <1>8, <1>9, <1>11 DEF X!TagsPartitioned, m
  <1>13. ASSUME NEW s \in Strings
         PROVE  {t \in 1 .. m \ X!Held(0) : tags[t].string = s} = Naming(tags, s)
    <2>1. s # X!NoString
      BY Sizes
    <2>2. 1 .. m \subseteq X!Addr
      BY <1>3, <1>4, Lengths, Sizes DEF Forest
    <2>3. \A t \in X!Addr \ 1 .. m : tags[t].string = X!NoString
      BY <1>3 DEF Forest, X!FreeTag
    <2> QED  BY <1>11, <2>1, <2>2, <2>3 DEF Naming
  <1>14. X!SymbolsCounted
    <2>1. \A s \in Strings : refCount[s] = Cardinality({t \in 1 .. m \ X!Held(0) : tags[t].string = s})
      BY <1>1, <1>13 DEF CountsAre
    <2> QED  BY <2>1, Library DEF X!SymbolsCounted, m
  <1> QED  BY <1>12, <1>14

\* XMLFreeTag, NewTag, FreeSymbol, NewSymbol (lib/xml.c): in every document and at
\* every error in the middle of it, each tag of the pool is free or held by one
\* call, once, and a symbol counts the tags that name it, so it goes with the last.
THEOREM TagsAccounted == MCSpec => []SymbolsCounted
  <1> DEFINE Inv == part = "tags" => TagInv
  <1>1. MCInit => Inv
    BY TagInit DEF MCInit
  <1>2. Inv /\ [MCNext]_<<part, vars, xml, doc>> => Inv'
    <2> SUFFICES ASSUME Inv, [MCNext]_<<part, vars, xml, doc>> PROVE Inv'
      OBVIOUS
    <2>1. part' = part
      BY DEF MCNext
    <2>2. ASSUME part = "tags" PROVE TagInv'
      <3>1. X!Next \/ UNCHANGED xml
        BY <2>2 DEF MCNext
      <3> QED  BY <2>2, <3>1, TagStep, TagRests
    <2> QED  BY <2>1, <2>2
  <1>3. Inv => SymbolsCounted
    BY TagTypes, TagsAreCounted DEF SymbolsCounted
  <1> QED  BY <1>1, <1>2, <1>3, PTL DEF MCSpec

-----------------------------------------------------------------------------
(* The elements behind a tag: their recursion has a solution in every forest *)

\* The elements of the list from h on, and one of them, in any pool.
ItemsIn(pool, h) ==
    LET items[a \in X!Ref] ==
            IF a = 0 THEN <<>>
            ELSE Append(items[pool[a].next], [type |-> pool[a].type, string |-> pool[a].string,
                                              items |-> items[pool[a].tag]])
    IN  items[h]

ValueIn(pool, a) ==
    [type |-> pool[a].type, string |-> pool[a].string, items |-> ItemsIn(pool, pool[a].tag)]

\* One unfolding of that recursion.
Unfold(pool, G) ==
    [a \in X!Ref |->
        IF a = 0 THEN <<>>
        ELSE Append(G[pool[a].next], [type |-> pool[a].type, string |-> pool[a].string,
                                      items |-> G[pool[a].tag]])]

\* G solves the recursion for the tags with at most n tags behind them.
UpTo(F, pool, G, n) == \A a \in X!Ref : Len(F[a]) <= n => G[a] = Unfold(pool, G)[a]

LEMMA Shorter ==
    ASSUME NEW pool \in [X!Addr -> Entry], NEW F, Solves(F, pool), NEW a \in X!Ref, a # 0
    PROVE  /\ pool[a].tag \in X!Ref /\ pool[a].next \in X!Ref /\ a \in X!Addr
           /\ Len(F[pool[a].tag]) \in Nat /\ Len(F[pool[a].next]) \in Nat /\ Len(F[a]) \in Nat
           /\ Len(F[pool[a].tag]) < Len(F[a]) /\ Len(F[pool[a].next]) < Len(F[a])
           /\ ToSet(F[pool[a].tag]) \subseteq ToSet(F[a]) /\ ToSet(F[pool[a].next]) \subseteq ToSet(F[a])
           /\ a \in ToSet(F[a])
  <1>1. a \in X!Addr
    BY DEF X!Ref
  <1> DEFINE s == pool[a].tag
             u == pool[a].next
  <1>2. /\ s \in X!Ref /\ u \in X!Ref
        /\ ToSet(F[a]) = ToSet(F[s]) \union ToSet(F[u]) \union {a}
        /\ Len(F[a]) = Len(F[s]) + Len(F[u]) + 1
    BY <1>1, Node
  <1> HIDE DEF s, u
  <1>3. Len(F[s]) \in Nat /\ Len(F[u]) \in Nat /\ Len(F[a]) \in Nat
    BY <1>2, Lengths
  <1>4. Len(F[s]) < Len(F[a]) /\ Len(F[u]) < Len(F[a])
    <2> DEFINE m == Len(F[s])
               n == Len(F[u])
    <2>1. m \in Nat /\ n \in Nat /\ Len(F[a]) = m + n + 1
      BY <1>2, <1>3
    <2> HIDE DEF m, n
    <2>2. m < Len(F[a]) /\ n < Len(F[a])
      BY <2>1, Longer
    <2> QED  BY <2>2 DEF m, n
  <1> QED  BY <1>1, <1>2, <1>3, <1>4 DEF s, u

LEMMA SolvedUpTo ==
    ASSUME NEW pool \in [X!Addr -> Entry], NEW F, Solves(F, pool), NEW n \in Nat
    PROVE  \E G : UpTo(F, pool, G, n)
  <1> SUFFICES ASSUME ~ \E G : UpTo(F, pool, G, n) PROVE FALSE
    OBVIOUS
  <1> DEFINE bad == {k \in Nat : ~ \E G : UpTo(F, pool, G, k)}
  <1>1. PICK k \in bad : \A l \in bad : k <= l
    <2>1. bad \in SUBSET Nat /\ bad # {}
      OBVIOUS
    <2> HIDE DEF bad
    <2> QED  BY <2>1, LeastNat
  <1>2. k \in Nat /\ ~ \E G : UpTo(F, pool, G, k)
    OBVIOUS
  <1>3. CASE k = 0
    <2> DEFINE G == [a \in X!Ref |-> <<>>]
    <2>1. ASSUME NEW a \in X!Ref, Len(F[a]) <= 0 PROVE a = 0
      <3> SUFFICES ASSUME a # 0 PROVE FALSE
        OBVIOUS
      <3>1. Len(F[pool[a].tag]) \in Nat /\ Len(F[a]) \in Nat /\ Len(F[pool[a].tag]) < Len(F[a])
        BY Shorter
      <3> QED  BY <2>1, <3>1
    <2>2. UpTo(F, pool, G, 0)
      BY <2>1 DEF UpTo, Unfold
    <2> QED  BY <1>2, <1>3, <2>2
  <1>4. CASE k # 0
    <2>1. k - 1 \in Nat /\ ~ (k <= k - 1)
      BY <1>2, <1>4
    <2>2. k - 1 \notin bad
      BY <1>1, <2>1
    <2>3. PICK G : UpTo(F, pool, G, k - 1)
      BY <2>1, <2>2
    <2> DEFINE H == Unfold(pool, G)
    <2> HIDE DEF bad
    <2>4. ASSUME NEW a \in X!Ref, Len(F[a]) <= k PROVE H[a] = Unfold(pool, H)[a]
      <3>1. CASE a = 0
        BY <3>1 DEF Unfold
      <3>2. CASE a # 0
        <4> DEFINE s == pool[a].tag
                   u == pool[a].next
        <4>1. /\ s \in X!Ref /\ u \in X!Ref
              /\ Len(F[s]) \in Nat /\ Len(F[u]) \in Nat /\ Len(F[a]) \in Nat
              /\ Len(F[s]) < Len(F[a]) /\ Len(F[u]) < Len(F[a])
          BY <3>2, Shorter
        <4>2. H[a] = Append(G[u], [type |-> pool[a].type, string |-> pool[a].string, items |-> G[s]])
          BY <3>2 DEF Unfold
        <4>3. Unfold(pool, H)[a] =
                  Append(H[u], [type |-> pool[a].type, string |-> pool[a].string, items |-> H[s]])
          <5> HIDE DEF H
          <5> QED  BY <3>2 DEF Unfold
        <4> HIDE DEF s, u, H
        <4>4. Len(F[s]) <= k - 1 /\ Len(F[u]) <= k - 1
          BY <1>2, <2>4, <4>1
        <4>5. G[s] = H[s] /\ G[u] = H[u]
          BY <2>3, <4>1, <4>4 DEF UpTo, H
        <4> QED  BY <4>2, <4>3, <4>5
      <3> QED  BY <3>1, <3>2
    <2>5. UpTo(F, pool, H, k)
      BY <2>4 DEF UpTo
    <2> QED  BY <1>2, <2>5
  <1> QED  BY <1>3, <1>4

LEMMA SolvedOnce ==
    ASSUME NEW pool \in [X!Addr -> Entry], NEW F, Solves(F, pool), NEW n \in Nat, NEW k \in Nat,
           NEW G, UpTo(F, pool, G, n), NEW H, UpTo(F, pool, H, k)
    PROVE  \A a \in X!Ref : Len(F[a]) <= n /\ Len(F[a]) <= k => G[a] = H[a]
  <1> DEFINE bad == {a \in X!Ref : Len(F[a]) <= n /\ Len(F[a]) <= k /\ G[a] # H[a]}
  <1>1. ASSUME NEW a \in bad PROVE \E b \in bad : Len(F[b]) < Len(F[a])
    <2>1. /\ a \in X!Ref /\ Len(F[a]) <= n /\ Len(F[a]) <= k
          /\ G[a] = Unfold(pool, G)[a] /\ H[a] = Unfold(pool, H)[a] /\ G[a] # H[a]
      BY DEF UpTo
    <2>2. a # 0
      BY <2>1 DEF Unfold
    <2> DEFINE s == pool[a].tag
               u == pool[a].next
    <2>3. /\ s \in X!Ref /\ u \in X!Ref
          /\ Len(F[s]) \in Nat /\ Len(F[u]) \in Nat /\ Len(F[a]) \in Nat
          /\ Len(F[s]) < Len(F[a]) /\ Len(F[u]) < Len(F[a])
      BY <2>1, <2>2, Shorter
    <2>4. /\ G[a] = Append(G[u], [type |-> pool[a].type, string |-> pool[a].string, items |-> G[s]])
          /\ H[a] = Append(H[u], [type |-> pool[a].type, string |-> pool[a].string, items |-> H[s]])
      BY <2>1, <2>2 DEF Unfold
    <2> HIDE DEF s, u
    <2>5. G[s] # H[s] \/ G[u] # H[u]
      BY <2>1, <2>4
    <2>6. Len(F[s]) <= n /\ Len(F[s]) <= k /\ Len(F[u]) <= n /\ Len(F[u]) <= k
      BY <2>1, <2>3
    <2>7. s \in bad \/ u \in bad
      BY <2>3, <2>5, <2>6
    <2> HIDE DEF bad
    <2> QED  BY <2>3, <2>7
  <1>2. bad = {}
    <2>1. bad \in SUBSET X!Ref
      OBVIOUS
    <2> HIDE DEF bad
    <2> QED  BY <1>1, <2>1, ByLength
  <1> QED  BY <1>2

\* So the recursive definition satisfies its equation.
LEMMA ItemsAre ==
    ASSUME NEW pool \in [X!Addr -> Entry], NEW F, Solves(F, pool)
    PROVE  /\ ItemsIn(pool, 0) = <<>>
           /\ \A a \in X!Addr : ItemsIn(pool, a) = Append(ItemsIn(pool, pool[a].next), ValueIn(pool, a))
  <1> DEFINE at(a) == CHOOSE G : UpTo(F, pool, G, Len(F[a]))
             I == [a \in X!Ref |-> at(a)[a]]
             items == CHOOSE G : G = Unfold(pool, G)
  <1>1. \A a \in X!Ref : UpTo(F, pool, at(a), Len(F[a]))
    BY Lengths, SolvedUpTo
  <1> HIDE DEF at
  <1>2. ASSUME NEW a \in X!Ref, NEW b \in X!Ref, Len(F[b]) <= Len(F[a])
        PROVE  at(a)[b] = at(b)[b]
    <2>1. Len(F[a]) \in Nat /\ Len(F[b]) \in Nat /\ Len(F[b]) <= Len(F[b])
      BY Lengths
    <2> QED  BY <1>1, <1>2, <2>1, SolvedOnce
  <1>3. ASSUME NEW a \in X!Ref PROVE I[a] = Unfold(pool, I)[a]
    <2>1. I[a] = Unfold(pool, at(a))[a]
      <3>1. Len(F[a]) <= Len(F[a])
        BY Lengths
      <3> QED  BY <1>1, <3>1 DEF UpTo
    <2>2. CASE a = 0
      BY <2>1, <2>2 DEF Unfold
    <2>3. CASE a # 0
      <3> DEFINE s == pool[a].tag
                 u == pool[a].next
      <3>1. /\ s \in X!Ref /\ u \in X!Ref
            /\ Len(F[s]) \in Nat /\ Len(F[u]) \in Nat /\ Len(F[a]) \in Nat
            /\ Len(F[s]) < Len(F[a]) /\ Len(F[u]) < Len(F[a])
        BY <2>3, Shorter
      <3>2. Unfold(pool, at(a))[a] = Append(at(a)[u], [type |-> pool[a].type, string |-> pool[a].string, items |-> at(a)[s]])
        BY <2>3 DEF Unfold
      <3>3. I[u] = at(u)[u] /\ I[s] = at(s)[s]
        BY <3>1
      <3> HIDE DEF I
      <3>4. Unfold(pool, I)[a] = Append(I[u], [type |-> pool[a].type, string |-> pool[a].string, items |-> I[s]])
        BY <2>3 DEF Unfold
      <3> HIDE DEF s, u
      <3>5. Len(F[s]) <= Len(F[a]) /\ Len(F[u]) <= Len(F[a])
        BY <3>1
      <3>6. at(a)[u] = at(u)[u] /\ at(a)[s] = at(s)[s]
        BY <1>2, <3>1, <3>5
      <3> QED  BY <2>1, <3>2, <3>3, <3>4, <3>6
    <2> QED  BY <2>2, <2>3
  <1>4. I = Unfold(pool, I)
    <2>1. I = [a \in X!Ref |-> I[a]] /\ Unfold(pool, I) = [a \in X!Ref |-> Unfold(pool, I)[a]]
      BY DEF Unfold
    <2> HIDE DEF I
    <2> QED  BY <1>3, <2>1
  <1>5. items = Unfold(pool, items)
    <2> HIDE DEF I
    <2> QED  BY <1>4
  <1>6. \A h : ItemsIn(pool, h) = items[h]
    BY DEF ItemsIn, Unfold
  <1> HIDE DEF items
  <1>7. items[0] = <<>>
    BY <1>5, Sizes DEF Unfold
  <1>8. \A a \in X!Addr : items[a] = Append(items[pool[a].next], [type |-> pool[a].type, string |-> pool[a].string,
                                                             items |-> items[pool[a].tag]])
    BY <1>5, Sizes DEF Unfold
  <1> QED  BY <1>6, <1>7, <1>8 DEF ValueIn

\* Where no tag changed, the elements are the same.
LEMMA ItemsStay ==
    ASSUME NEW pool \in [X!Addr -> Entry], NEW F, Solves(F, pool),
           NEW after \in [X!Addr -> Entry], NEW G, Solves(G, after),
           NEW x \in X!Ref, \A b \in ToSet(F[x]) : after[b] = pool[b]
    PROVE  ItemsIn(after, x) = ItemsIn(pool, x)
  <1> DEFINE same(y) == \A b \in ToSet(F[y]) : after[b] = pool[b]
             bad == {y \in X!Ref : same(y) /\ ItemsIn(after, y) # ItemsIn(pool, y)}
  <1>1. ASSUME NEW a \in bad PROVE \E b \in bad : Len(F[b]) < Len(F[a])
    <2>1. a \in X!Ref /\ same(a) /\ ItemsIn(after, a) # ItemsIn(pool, a)
      OBVIOUS
    <2>2. a # 0
      BY <2>1, ItemsAre
    <2> DEFINE s == pool[a].tag
               u == pool[a].next
    <2>3. /\ s \in X!Ref /\ u \in X!Ref /\ a \in X!Addr /\ a \in ToSet(F[a])
          /\ Len(F[s]) < Len(F[a]) /\ Len(F[u]) < Len(F[a])
          /\ ToSet(F[s]) \subseteq ToSet(F[a]) /\ ToSet(F[u]) \subseteq ToSet(F[a])
      BY <2>1, <2>2, Shorter
    <2>4. same(s) /\ same(u) /\ after[a] = pool[a]
      BY <2>1, <2>3
    <2>5. /\ ItemsIn(pool, a) = Append(ItemsIn(pool, u), ValueIn(pool, a))
          /\ ItemsIn(after, a) = Append(ItemsIn(after, u), ValueIn(after, a))
      BY <2>3, <2>4, ItemsAre
    <2>6. /\ ValueIn(pool, a) = [type |-> pool[a].type, string |-> pool[a].string, items |-> ItemsIn(pool, s)]
          /\ ValueIn(after, a) = [type |-> pool[a].type, string |-> pool[a].string, items |-> ItemsIn(after, s)]
      BY <2>4 DEF ValueIn
    <2> HIDE DEF s, u, same
    <2>7. ItemsIn(after, s) # ItemsIn(pool, s) \/ ItemsIn(after, u) # ItemsIn(pool, u)
      BY <2>1, <2>5, <2>6
    <2>8. s \in bad \/ u \in bad
      BY <2>3, <2>4, <2>7
    <2> HIDE DEF bad
    <2> QED  BY <2>3, <2>8
  <1>2. bad = {}
    <2>1. bad \in SUBSET X!Ref
      OBVIOUS
    <2> HIDE DEF bad
    <2> QED  BY <1>1, <2>1, ByLength
  <1> QED  BY <1>2

-----------------------------------------------------------------------------
(* What a step leaves of the elements *)

Same(S) == \A x \in S : ItemsIn(tags', x) = ItemsIn(tags, x)

LEMMA Untouched ==
    ASSUME NEW R, Store(tags, free, blocks, refCount, R), NEW R2, Store(tags', free', blocks', refCount', R2),
           NEW F, Solves(F, tags), NEW x \in X!Ref, \A b \in ToSet(F[x]) : tags'[b] = tags[b]
    PROVE  ItemsIn(tags', x) = ItemsIn(tags, x)
  <1>1. tags \in [X!Addr -> Entry] /\ tags' \in [X!Addr -> Entry]
    BY DEF Store, StoreTypes
  <1>2. PICK G : Solves(G, tags')
    BY DEF Store, Forest
  <1> QED  BY <1>1, <1>2, ItemsStay

LEMMA NewTagKeeps ==
    ASSUME NEW R, Store(tags, free, blocks, refCount, R),
           NEW type \in X!Types, NEW string \in Strings \union {X!NoString}, NEW sub, sub = 0 \/ sub \in R,
           X!NewTag(type, string, sub)
    PROVE  /\ Same(R \union {0})
           /\ result' \in X!Addr
           /\ ValueIn(tags', result') = [type |-> type, string |-> string, items |-> ItemsIn(tags, sub)]
  <1> DEFINE e == [type |-> type, string |-> string, tag |-> sub, next |-> 0]
             R1 == (R \union {free}) \ {0}
             m == blocks * TagsPerBlock
  <1>1. /\ tags \in [X!Addr -> Entry] /\ free \in X!Ref /\ free \notin R /\ R \subseteq X!Addr
        /\ blocks \in 0 .. MaxBlocks
    BY DEF Store, StoreTypes
  <1>2. PICK F : Forest(F, tags, R1, m)
    BY DEF Store
  <1>3. /\ result' \in X!Addr
        /\ Store(tags', free', blocks', refCount', (R \ {sub}) \union {result'})
    BY NewTagStep
  <1>4. Solves(F, tags) /\ m \in Nat
    BY <1>1, <1>2, Blocks DEF Forest
  <1>5. \A x \in R : ToSet(F[x]) \subseteq X!Addr /\ ToSet(F[x]) \subseteq 1 .. m
    BY <1>1, <1>2, <1>4, Lengths, Sizes DEF Forest
  <1>6. (\A x \in R : \A b \in ToSet(F[x]) : tags'[b] = tags[b]) /\ tags'[result'] = e
    <2>1. CASE free # 0
      <3>1. result' = free /\ tags' = [tags EXCEPT ![free] = e]
        BY <2>1 DEF X!NewTag
      <3>2. free \in X!Addr /\ free \in R1 /\ free \in ToSet(F[free])
        BY <1>1, <1>4, <2>1, Behind DEF X!Ref
      <3>3. \A x \in R : free \notin ToSet(F[x])
        BY <1>1, <1>2, <3>2, Sizes DEF Forest
      <3> HIDE DEF e
      <3> QED  BY <1>1, <1>5, <3>1, <3>2, <3>3
    <2>2. CASE free = 0
      <3> DEFINE t == m + 1
                 pool == WithBlock(tags, t)
      <3>1. result' = t /\ tags' = [pool EXCEPT ![t] = e]
        BY <2>2 DEF X!NewTag, X!Carved, WithBlock
      <3>2. \A b \in 1 .. m : b \notin t .. t + TagsPerBlock - 1 /\ b # t
        BY <1>4, Sizes
      <3>3. \A b \in X!Addr : b \notin t .. t + TagsPerBlock - 1 => pool[b] = tags[b]
        BY DEF WithBlock
      <3>4. DOMAIN pool = X!Addr
        BY DEF WithBlock
      <3> HIDE DEF e, pool, t, m
      <3> QED  BY <1>3, <1>5, <3>1, <3>2, <3>3, <3>4
    <2> QED  BY <2>1, <2>2
  <1>7. Same(R \union {0})
    <2>1. \A x \in R : ItemsIn(tags', x) = ItemsIn(tags, x)
      BY <1>1, <1>3, <1>4, <1>6, Untouched, Sizes
    <2>2. \A b \in ToSet(F[0]) : tags'[b] = tags[b]
      BY <1>4, Single DEF Solves
    <2>3. ItemsIn(tags', 0) = ItemsIn(tags, 0)
      BY <1>3, <1>4, <2>2, Untouched, Sizes
    <2> QED  BY <2>1, <2>3 DEF Same
  <1>8. ItemsIn(tags', sub) = ItemsIn(tags, sub)
    BY <1>7 DEF Same
  <1> QED  BY <1>3, <1>6, <1>7, <1>8 DEF ValueIn

LEMMA FreeKeeps ==
    ASSUME NEW R, Store(tags, free, blocks, refCount, R), NEW q, q = 0 \/ q \in R, X!XMLFreeTag(q)
    PROVE  Same((R \ {q}) \union {0})
  <1> DEFINE R1 == (R \union {free}) \ {0}
  <1>1. tags \in [X!Addr -> Entry] /\ R \subseteq X!Addr /\ q \in X!Ref
    BY Sizes DEF Store, StoreTypes
  <1>2. PICK F : Forest(F, tags, R1, blocks * TagsPerBlock)
    BY DEF Store
  <1>3. Solves(F, tags) /\ Store(tags', free', blocks', refCount', R \ {q})
    BY <1>2, FreeStep DEF Forest
  <1>4. tags' = PutBack(tags, F[q], free)
    <2>1. tags' = PutBack(tags, X!FreeOrder(q), free)
      BY Library DEF X!XMLFreeTag, PutBack
    <2> QED  BY <1>1, <1>3, <2>1, FreeOrderIs
  <1>5. ASSUME NEW x \in (R \ {q}) \union {0} PROVE ItemsIn(tags', x) = ItemsIn(tags, x)
    <2>1. x \in X!Ref
      BY <1>1, Sizes
    <2>2. ToSet(F[x]) \cap ToSet(F[q]) = {}
      <3>1. ToSet(F[0]) = {}
        BY <1>3, Single DEF Solves
      <3>2. x # 0 => x \in R1 /\ x # q
        BY <1>5
      <3>3. q # 0 => q \in R1
        OBVIOUS
      <3> QED  BY <1>2, <3>1, <3>2, <3>3 DEF Forest
    <2>3. ToSet(F[x]) \subseteq X!Addr
      BY <1>3, <2>1, Lengths
    <2>4. \A b \in ToSet(F[x]) : tags'[b] = tags[b]
      BY <1>4, <2>2, <2>3 DEF PutBack
    <2> QED  BY <1>3, <2>1, <2>4, Untouched
  <1> QED  BY <1>5 DEF Same

LEMMA ChainKeeps ==
    ASSUME NEW R, Store(tags, free, blocks, refCount, R), NEW t \in R, tags[t].next = 0,
           NEW h, h = 0 \/ h \in R \ {t},
           tags' = [tags EXCEPT ![t].next = h], UNCHANGED <<free, blocks, refCount>>
    PROVE  /\ Same((R \ {t}) \union {0})
           /\ ItemsIn(tags', t) = Append(ItemsIn(tags, h), ValueIn(tags, t))
  <1> DEFINE R1 == (R \union {free}) \ {0}
  <1>1. tags \in [X!Addr -> Entry] /\ R \subseteq X!Addr /\ h \in X!Ref /\ t \in X!Addr
    BY Sizes DEF Store, StoreTypes
  <1>2. PICK F : Forest(F, tags, R1, blocks * TagsPerBlock)
    BY DEF Store
  <1>3. Solves(F, tags) /\ Store(tags', free', blocks', refCount', R \ {h})
    BY <1>2, ChainStep DEF Forest
  <1>4. \A b \in X!Addr : b # t => tags'[b] = tags[b]
    BY <1>1
  <1>5. ASSUME NEW x \in X!Ref, t \notin ToSet(F[x]) PROVE ItemsIn(tags', x) = ItemsIn(tags, x)
    <2>1. ToSet(F[x]) \subseteq X!Addr
      BY <1>3, Lengths
    <2>2. \A b \in ToSet(F[x]) : tags'[b] = tags[b]
      BY <1>4, <1>5, <2>1
    <2> QED  BY <1>3, <2>2, Untouched
  <1>6. t \in ToSet(F[t]) /\ t \notin ToSet(F[tags[t].tag])
    BY <1>1, <1>3, Behind
  <1>7. ASSUME NEW x \in (R \ {t}) \union {0} PROVE x \in X!Ref /\ t \notin ToSet(F[x])
    <2>1. ToSet(F[0]) = {}
      BY <1>3, Single DEF Solves
    <2>2. x # 0 => x \in R1 /\ x # t
      BY <1>7
    <2>3. t \in R1
      BY <1>1, Sizes
    <2> QED  BY <1>1, <1>2, <1>6, <1>7, <2>1, <2>2, <2>3, Sizes DEF Forest
  <1>8. Same((R \ {t}) \union {0})
    BY <1>5, <1>7 DEF Same
  <1>9. ItemsIn(tags', t) = Append(ItemsIn(tags, h), ValueIn(tags, t))
    <2>1. tags'[t] = [tags[t] EXCEPT !.next = h] /\ tags[t] \in Entry
      BY <1>1
    <2>2. /\ tags'[t].next = h /\ tags'[t].tag = tags[t].tag /\ tags'[t].type = tags[t].type
          /\ tags'[t].string = tags[t].string /\ tags[t].tag \in X!Ref
      BY <2>1 DEF Entry
    <2>3. ItemsIn(tags', tags[t].tag) = ItemsIn(tags, tags[t].tag)
      BY <1>5, <1>6, <2>2
    <2>4. ValueIn(tags', t) = ValueIn(tags, t)
      BY <2>2, <2>3 DEF ValueIn
    <2>5. ItemsIn(tags', h) = ItemsIn(tags, h)
      BY <1>5, <1>7
    <2>6. tags' \in [X!Addr -> Entry] /\ \E G : Solves(G, tags')
      BY <1>3 DEF Store, StoreTypes, Forest
    <2>7. ItemsIn(tags', t) = Append(ItemsIn(tags', tags'[t].next), ValueIn(tags', t))
      BY <1>1, <2>6, ItemsAre
    <2> QED  BY <2>2, <2>4, <2>5, <2>7
  <1> QED  BY <1>8, <1>9

-----------------------------------------------------------------------------
(* The reader that the parser implements *)

Elem(pool, c) == [type |-> c.type, string |-> c.string, items |-> ItemsIn(pool, c.head)]

OpenOf(pool, fr) == [i \in DOMAIN fr |-> Elem(pool, fr[i])]

LEMMA Mapped ==
    /\ X!OpenElements = OpenOf(tags, frames)
    /\ X!OpenElements' = OpenOf(tags', frames')
    /\ \A t : X!ValueOf(t) = ValueIn(tags, t)
    /\ \A t : X!ValueOf(t)' = ValueIn(tags', t)
  <1>1. \A h : X!ItemsFrom(h) = ItemsIn(tags, h)
    BY DEF X!ItemsFrom, ItemsIn
  <1>2. \A h : X!ItemsFrom(h)' = ItemsIn(tags', h)
    BY DEF X!ItemsFrom, ItemsIn
  <1> QED  BY <1>1, <1>2 DEF X!OpenElements, OpenOf, Elem, X!ValueOf, ValueIn

LEMMA ReadIs ==
    /\ readMode = "read" => X!LastRead = X!Reader!Pending
    /\ readMode \in {"panicked", "done"} => X!LastRead = X!Reader!Ended
    /\ readMode = "return" /\ result = 0 => X!LastRead = X!Reader!Null
    /\ readMode = "return" /\ result = -1 => X!LastRead = X!Reader!Failure
    /\ readMode = "return" /\ result \in X!Addr => X!LastRead = ValueIn(tags, result)
  <1>1. readMode = "return" /\ result \in X!Addr => X!LastRead = X!ValueOf(result)
    BY Positive, Sizes DEF X!LastRead
  <1>2. readMode = "return" /\ result \in X!Addr => X!LastRead = ValueIn(tags, result)
    BY <1>1, Mapped
  <1> QED  BY <1>2 DEF X!LastRead, X!Reader!Pending, X!Reader!Ended, X!Reader!Null, X!Reader!Failure

LEMMA ReadWillBe ==
    /\ readMode' = "read" => X!LastRead' = X!Reader!Pending
    /\ readMode' \in {"panicked", "done"} => X!LastRead' = X!Reader!Ended
    /\ readMode' = "return" /\ result' = 0 => X!LastRead' = X!Reader!Null
    /\ readMode' = "return" /\ result' = -1 => X!LastRead' = X!Reader!Failure
    /\ readMode' = "return" /\ result' \in X!Addr => X!LastRead' = ValueIn(tags', result')
  <1>1. readMode' = "return" /\ result' \in X!Addr => X!LastRead' = X!ValueOf(result)'
    BY Positive, Sizes DEF X!LastRead
  <1>2. X!ValueOf(result)' = ValueIn(tags', result')
    <2>1. X!ItemsFrom(tags[result].tag)' = ItemsIn(tags', tags'[result'].tag)
      BY DEF X!ItemsFrom, ItemsIn
    <2> QED  BY <2>1 DEF X!ValueOf, ValueIn
  <1> QED  BY <1>1, <1>2 DEF X!LastRead, X!Reader!Pending, X!Reader!Ended, X!Reader!Null, X!Reader!Failure

\* A value is none of the marks.
LEMMA ValuesDiffer ==
    \A pool, a : ValueIn(pool, a) \notin {X!Reader!Pending, X!Reader!Null, X!Reader!Failure, X!Reader!Ended}
  <1>1. \A pool, a : "type" \in DOMAIN ValueIn(pool, a)
    BY DEF ValueIn
  <1>2. /\ "type" \notin DOMAIN X!Reader!Pending /\ "type" \notin DOMAIN X!Reader!Null
        /\ "type" \notin DOMAIN X!Reader!Failure /\ "type" \notin DOMAIN X!Reader!Ended
    BY DEF X!Reader!Pending, X!Reader!Null, X!Reader!Failure, X!Reader!Ended
  <1> QED  BY <1>1, <1>2

LEMMA MarksDiffer ==
    /\ X!Reader!Pending \notin {X!Reader!Null, X!Reader!Failure, X!Reader!Ended}
    /\ X!Reader!Null \notin {X!Reader!Failure, X!Reader!Ended} /\ X!Reader!Failure # X!Reader!Ended
  BY DEF X!Reader!Pending, X!Reader!Null, X!Reader!Failure, X!Reader!Ended

LEMMA OpenFrames ==
    ASSUME NEW pool, NEW fr \in Seq(Frame)
    PROVE  /\ DOMAIN OpenOf(pool, fr) = 1 .. Len(fr) /\ Len(OpenOf(pool, fr)) = Len(fr) /\ Len(fr) \in Nat
           /\ \E S : OpenOf(pool, fr) \in Seq(S)
           /\ \A i \in 1 .. Len(fr) : OpenOf(pool, fr)[i] = Elem(pool, fr[i])
           /\ OpenOf(pool, fr) = <<>> <=> fr = <<>>
  <1> DEFINE n == Len(fr)
             S == {Elem(pool, fr[i]) : i \in 1 .. n}
  <1>1. n \in Nat /\ DOMAIN fr = 1 .. n
    OBVIOUS
  <1>2. OpenOf(pool, fr) = [i \in 1 .. n |-> Elem(pool, fr[i])]
    BY <1>1 DEF OpenOf
  <1>3. \A i \in 1 .. n : Elem(pool, fr[i]) \in S
    OBVIOUS
  <1>4. fr = <<>> <=> n = 0
    OBVIOUS
  <1> HIDE DEF n, S
  <1>5. OpenOf(pool, fr) \in Seq(S) /\ Len(OpenOf(pool, fr)) = n
    BY <1>1, <1>2, <1>3
  <1>6. OpenOf(pool, fr) = <<>> <=> n = 0
    BY <1>1, <1>5
  <1> QED  BY <1>1, <1>2, <1>4, <1>5, <1>6 DEF n

LEMMA OpenPushed ==
    ASSUME NEW pool, NEW fr \in Seq(Frame), NEW c \in Frame
    PROVE  OpenOf(pool, Append(fr, c)) = Append(OpenOf(pool, fr), Elem(pool, c))
  <1> DEFINE n == Len(fr)
             o == OpenOf(pool, fr)
             more == Append(fr, c)
  <1>1. /\ n \in Nat /\ more \in Seq(Frame) /\ Len(more) = n + 1 /\ more[n + 1] = c
        /\ \A i \in 1 .. n : more[i] = fr[i]
    OBVIOUS
  <1>2. o \in Seq({o[i] : i \in 1 .. n} \union {Elem(pool, c)}) /\ Len(o) = n
    <2>1. \E S : o \in Seq(S)
      BY OpenFrames
    <2>2. Len(o) = n
      BY OpenFrames
    <2> HIDE DEF o, n
    <2> QED  BY <2>1, <2>2
  <1>3. \A i \in 1 .. n : o[i] = Elem(pool, fr[i])
    BY OpenFrames
  <1>4. OpenOf(pool, more) = [i \in 1 .. n + 1 |-> Elem(pool, more[i])]
    BY <1>1 DEF OpenOf
  <1> HIDE DEF n, o, more
  <1>5. Append(o, Elem(pool, c)) = [i \in 1 .. n + 1 |-> IF i = n + 1 THEN Elem(pool, c) ELSE o[i]]
    <2> DEFINE e == Elem(pool, c)
               S == {o[i] : i \in 1 .. n} \union {e}
               a == Append(o, e)
    <2>1. o \in Seq(S) /\ e \in S
      BY <1>2
    <2> HIDE DEF e, S
    <2>2. /\ a \in Seq(S) /\ Len(a) = n + 1 /\ a[n + 1] = e
          /\ \A i \in 1 .. n : a[i] = o[i]
      BY <1>1, <1>2, <2>1
    <2> HIDE DEF a
    <2>3. a = [i \in 1 .. n + 1 |-> a[i]]
      BY <2>2
    <2>4. \A i \in 1 .. n + 1 : i # n + 1 => i \in 1 .. n
      BY <1>1
    <2>5. \A i \in 1 .. n + 1 : a[i] = IF i = n + 1 THEN e ELSE o[i]
      BY <2>2, <2>4
    <2> QED  BY <2>3, <2>5 DEF a, e
  <1>6. \A i \in 1 .. n + 1 : i # n + 1 => i \in 1 .. n
    BY <1>1
  <1>7. \A i \in 1 .. n + 1 : Elem(pool, more[i]) = IF i = n + 1 THEN Elem(pool, c) ELSE o[i]
    BY <1>1, <1>3, <1>6
  <1>8. OpenOf(pool, more) = Append(o, Elem(pool, c))
    BY <1>4, <1>5, <1>7
  <1> QED  BY <1>8 DEF o, more

LEMMA OpenPopped ==
    ASSUME NEW pool, NEW fr \in Seq(Frame), fr # <<>>
    PROVE  OpenOf(pool, X!Front(fr)) = SubSeq(OpenOf(pool, fr), 1, Len(OpenOf(pool, fr)) - 1)
  <1> DEFINE n == Len(fr)
             o == OpenOf(pool, fr)
             less == SubSeq(fr, 1, n - 1)
  <1>0. n \in Nat \ {0}
    OBVIOUS
  <1>1. /\ n \in Nat \ {0} /\ less \in Seq(Frame) /\ DOMAIN less = 1 .. n - 1
        /\ \A i \in 1 .. n - 1 : less[i] = fr[i]
    BY <1>0
  <1>2. X!Front(fr) = less
    BY Library DEF Front
  <1>3. (\E S : o \in Seq(S)) /\ Len(o) = n /\ \A i \in 1 .. n : o[i] = Elem(pool, fr[i])
    BY OpenFrames
  <1>4. OpenOf(pool, less) = [i \in 1 .. n - 1 |-> Elem(pool, less[i])]
    BY <1>1 DEF OpenOf
  <1> HIDE DEF n, o, less
  <1>5. SubSeq(o, 1, n - 1) = [i \in 1 .. n - 1 |-> o[i]]
    BY <1>1, <1>3
  <1>6. \A i \in 1 .. n - 1 : i \in 1 .. n
    BY <1>1
  <1>7. \A i \in 1 .. n - 1 : Elem(pool, less[i]) = o[i]
    BY <1>1, <1>3, <1>6
  <1>8. OpenOf(pool, less) = SubSeq(o, 1, n - 1)
    BY <1>4, <1>5, <1>7
  <1> QED  BY <1>2, <1>3, <1>8 DEF o

LEMMA OpenStays ==
    ASSUME NEW fr \in Seq(Frame), NEW S, Heads(fr) \subseteq S, Same(S)
    PROVE  OpenOf(tags', fr) = OpenOf(tags, fr)
  <1>1. \A i \in DOMAIN fr : ItemsIn(tags', fr[i].head) = ItemsIn(tags, fr[i].head)
    BY DEF Same, Heads
  <1> QED  BY <1>1 DEF OpenOf, Elem

-----------------------------------------------------------------------------
(* Every step of the parser is one of the reader *)

\* The open elements are the same where the calls are and nothing of their lists changed.
LEMMA OpenRests ==
    ASSUME frames \in Seq(Frame), frames' = frames, NEW S, Heads(frames) \subseteq S, Same(S)
    PROVE  X!OpenElements' = X!OpenElements
  <1>1. OpenOf(tags', frames) = OpenOf(tags, frames)
    BY OpenStays
  <1>2. X!OpenElements' = OpenOf(tags', frames)
    BY Mapped
  <1> QED  BY <1>1, <1>2, Mapped

LEMMA OpenPops ==
    ASSUME frames \in Seq(Frame), frames # <<>>, frames' = X!Front(frames), X!Front(frames) \in Seq(Frame),
           NEW S, Heads(X!Front(frames)) \subseteq S, Same(S)
    PROVE  X!OpenElements' = X!Reader!Outer
  <1>1. OpenOf(tags', frames') = OpenOf(tags, X!Front(frames))
    BY OpenStays
  <1> QED  BY <1>1, OpenPopped, Mapped DEF X!Reader!Outer

LEMMA Opened ==
    ASSUME frames \in Seq(Frame), frames # <<>>
    PROVE  /\ X!OpenElements # <<>> /\ X!Reader!Inner = Elem(tags, X!Caller)
           /\ X!OpenElements = OpenOf(tags, frames) /\ Len(X!OpenElements) = Len(frames)
           /\ X!Reader!Inner.type = X!Caller.type
  <1>1. X!Caller = frames[Len(frames)] /\ Len(frames) \in 1 .. Len(frames)
    BY LastOne DEF X!Caller
  <1>2. /\ OpenOf(tags, frames) # <<>> /\ Len(OpenOf(tags, frames)) = Len(frames)
        /\ OpenOf(tags, frames)[Len(frames)] = Elem(tags, frames[Len(frames)])
    BY <1>1, OpenFrames
  <1>3. X!OpenElements = OpenOf(tags, frames)
    BY Mapped
  <1>4. X!Reader!Inner = Elem(tags, X!Caller)
    BY <1>1, <1>2, <1>3 DEF X!Reader!Inner
  <1> QED  BY <1>2, <1>3, <1>4 DEF Elem

LEMMA UnchangedStore ==
    ASSUME tags' = tags
    PROVE  \A S : Same(S)
  BY DEF Same

LEMMA ReadsLeaf == ASSUME TagInv, X!ReadLeaf PROVE X!Reader!Next
  <1>1. readMode = "read" /\ X!Read /\ frames' = frames
    BY DEF X!ReadLeaf, X!Read
  <1>2. PICK type \in X!Types, string \in Strings \union {X!NoString} :
            /\ X!Leaf(type, string)
            /\ \/ type \in (LeafTypes \union BoolTypes) \union ListTypes /\ string = X!NoString
               \/ type = "string" /\ string \in Strings
    BY DEF X!ReadLeaf, X!Types
  <1>3. readMode' = "return" /\ (X!NewTag(type, string, 0) \/ X!ReturnFailure(0))
    BY <1>2 DEF X!Leaf
  <1>4. X!LastRead = X!Reader!Pending
    BY <1>1, ReadIs
  <1> DEFINE R == HeldRoots(frames, 0)
  <1>5. Store(tags, free, blocks, refCount, R) /\ R = Heads(frames) \ {0} /\ frames \in Seq(Frame)
    BY <1>1, Reading
  <1> HIDE DEF R
  <1>6. Heads(frames) \subseteq R \union {0}
    BY <1>5
  <1>7. CASE X!NewTag(type, string, 0)
    <2>1. /\ Same(R \union {0}) /\ result' \in X!Addr
          /\ ValueIn(tags', result') = [type |-> type, string |-> string, items |-> ItemsIn(tags, 0)]
      BY <1>2, <1>5, <1>7, NewTagKeeps
    <2>2. ItemsIn(tags, 0) = <<>>
      <3>1. tags \in [X!Addr -> Entry] /\ \E F : Solves(F, tags)
        BY <1>5 DEF Store, StoreTypes, Forest
      <3> QED  BY <3>1, ItemsAre
    <2>3. X!LastRead' = X!Reader!Value(type, string, <<>>)
      BY <1>3, <2>1, <2>2, ReadWillBe DEF X!Reader!Value
    <2>4. X!OpenElements' = X!OpenElements
      BY <1>1, <1>5, <1>6, <2>1, OpenRests
    <2>5. X!Reader!Leaf
      BY <1>2, <2>3 DEF X!Reader!Leaf
    <2> QED  BY <1>4, <2>4, <2>5 DEF X!Reader!Next, X!Reader!Read
  <1>8. CASE X!ReturnFailure(0)
    <2>1. X!XMLFreeTag(0) /\ result' = -1
      BY <1>8 DEF X!ReturnFailure
    <2>2. Same((R \ {0}) \union {0})
      BY <1>5, <2>1, FreeKeeps
    <2>3. Heads(frames) \subseteq (R \ {0}) \union {0}
      BY <1>6
    <2>4. X!OpenElements' = X!OpenElements
      BY <1>1, <1>5, <2>2, <2>3, OpenRests
    <2>5. X!LastRead' = X!Reader!Failure
      BY <1>3, <2>1, ReadWillBe
    <2> QED  BY <1>4, <2>4, <2>5 DEF X!Reader!Next, X!Reader!Read
  <1> QED  BY <1>3, <1>7, <1>8

LEMMA ReadsCall == ASSUME TagInv, X!ReadList \/ X!ReadKey PROVE X!Reader!Next
  <1>1. readMode = "read" /\ readMode' = "read" /\ tags' = tags
    BY DEF X!ReadList, X!ReadKey, X!Read, X!Call, X!store
  <1>2. PICK c \in Frame : /\ c.head = 0 /\ frames' = Append(frames, c)
                           /\ \/ c.type \in ListTypes /\ c.string = X!NoString
                              \/ c.type = "key" /\ c.string \in Strings
    <2>1. CASE X!ReadList
      <3>1. PICK type \in ListTypes : X!Call([type |-> type, head |-> 0, string |-> X!NoString])
        BY <2>1 DEF X!ReadList
      <3> DEFINE c == [type |-> type, head |-> 0, string |-> X!NoString]
      <3>2. c \in Frame /\ c.head = 0 /\ c.type \in ListTypes /\ c.string = X!NoString /\ frames' = Append(frames, c)
        BY <3>1, Sizes DEF Frame, X!Call
      <3> QED  BY <3>2
    <2>2. CASE X!ReadKey
      <3>1. PICK string \in Strings : X!Call([type |-> "key", head |-> 0, string |-> string])
        BY <2>2 DEF X!ReadKey
      <3> DEFINE c == [type |-> "key", head |-> 0, string |-> string]
      <3>2. c \in Frame /\ c.head = 0 /\ c.type = "key" /\ c.string \in Strings /\ frames' = Append(frames, c)
        BY <3>1, Sizes DEF Frame, X!Call
      <3> QED  BY <3>2
    <2> QED  BY <2>1, <2>2
  <1>3. /\ frames \in Seq(Frame) /\ Store(tags, free, blocks, refCount, HeldRoots(frames, 0))
    BY <1>1, Reading
  <1>4. ItemsIn(tags, 0) = <<>>
    <2>1. tags \in [X!Addr -> Entry] /\ \E F : Solves(F, tags)
      BY <1>3 DEF Store, StoreTypes, Forest
    <2> QED  BY <2>1, ItemsAre
  <1>5. X!OpenElements' = Append(X!OpenElements, X!Reader!Value(c.type, c.string, <<>>))
    <2>1. X!OpenElements' = OpenOf(tags, Append(frames, c))
      BY <1>1, <1>2, Mapped
    <2>2. X!OpenElements' = Append(OpenOf(tags, frames), Elem(tags, c))
      BY <1>3, <2>1, OpenPushed
    <2>3. Elem(tags, c) = X!Reader!Value(c.type, c.string, <<>>)
      BY <1>2, <1>4 DEF Elem, X!Reader!Value
    <2> QED  BY <2>2, <2>3, Mapped
  <1>6. X!LastRead = X!Reader!Pending /\ X!LastRead' = X!LastRead
    BY <1>1, ReadIs, ReadWillBe
  <1>7. X!Reader!Open
    BY <1>2, <1>5 DEF X!Reader!Open
  <1> QED  BY <1>6, <1>7 DEF X!Reader!Next, X!Reader!Read

LEMMA ReadsNoTag == ASSUME TagInv, X!ReadOther \/ X!ReadPlist \/ X!ReadEnd PROVE X!Reader!Next
  <1>1. /\ readMode = "read" /\ readMode' = "return" /\ result' \in {0, -1} /\ frames' = frames
        /\ tags' = tags
    BY DEF X!ReadOther, X!ReadPlist, X!ReadEnd, X!Read, X!store
  <1>2. frames \in Seq(Frame)
    BY <1>1, Reading
  <1>3. X!OpenElements' = X!OpenElements
    BY <1>1, <1>2, UnchangedStore, OpenRests
  <1>4. X!LastRead = X!Reader!Pending
    BY <1>1, ReadIs
  <1>5. X!LastRead' \in {X!Reader!Null, X!Reader!Failure}
    BY <1>1, ReadWillBe
  <1> QED  BY <1>3, <1>4, <1>5 DEF X!Reader!Next, X!Reader!Read

\* A call that returns -1, to a caller that had anything but -1 too.
LEMMA Fails ==
    ASSUME TagInv, readMode = "return", frames # <<>>, frames' = X!Front(frames),
           readMode' = "return", result' = -1,
           NEW S, Heads(X!Front(frames)) \subseteq S, Same(S)
    PROVE  X!Reader!Next
  <1>1. frames \in Seq(Frame) /\ X!Front(frames) \in Seq(Frame) /\ result \in X!Ref \union {-1}
    BY Returning
  <1>2. X!OpenElements' = X!Reader!Outer /\ X!OpenElements # <<>>
    BY <1>1, OpenPops, Opened
  <1>3. X!LastRead # X!Reader!Pending
    <2>1. result = 0 \/ result = -1 \/ result \in X!Addr
      BY <1>1 DEF X!Ref
    <2> QED  BY <2>1, ReadIs, ValuesDiffer, MarksDiffer
  <1>4. X!LastRead' = X!Reader!Failure
    BY ReadWillBe
  <1> QED  BY <1>2, <1>3, <1>4 DEF X!Reader!Next, X!Reader!Fail

LEMMA ReadsListFails == ASSUME TagInv, X!ListFails PROVE X!Reader!Next
  <1>1. /\ readMode = "return" /\ frames # <<>> /\ result = -1
        /\ frames' = X!Front(frames) /\ readMode' = "return"
        /\ X!XMLFreeTag(X!Caller.head) /\ result' = -1
    BY DEF X!ListFails, X!Returned, X!Pop, X!ReturnFailure
  <1> DEFINE R == HeldRoots(frames, 0)
             h == X!Caller.head
  <1>2. /\ Store(tags, free, blocks, refCount, R) /\ R = Heads(frames) \ {0} /\ h \in Heads(frames)
        /\ Heads(X!Front(frames)) \ {0} = Heads(frames) \ {0, h}
    BY <1>1, Returning
  <1>3. X!XMLFreeTag(h)
    BY <1>1
  <1> HIDE DEF R, h
  <1>4. Same((R \ {h}) \union {0})
    BY <1>2, <1>3, FreeKeeps
  <1>5. Heads(X!Front(frames)) \subseteq (R \ {h}) \union {0}
    BY <1>2
  <1> QED  BY <1>1, <1>4, <1>5, Fails

LEMMA ReadsKeyFails == ASSUME TagInv, X!KeyFails PROVE X!Reader!Next
  <1>1. /\ readMode = "return" /\ frames # <<>> /\ result' = -1
        /\ frames' = X!Front(frames) /\ readMode' = "return" /\ tags' = tags
    BY DEF X!KeyFails, X!Returned, X!Pop, X!store
  <1> QED  BY <1>1, UnchangedStore, Fails

LEMMA ReadsListAdd == ASSUME TagInv, X!ListAdd PROVE X!Reader!Next
  <1> DEFINE R == HeldRoots(frames, result)
             h == X!Caller.head
             n == Len(frames)
  <1>1. /\ readMode = "return" /\ frames # <<>> /\ X!Caller.type \in ListTypes /\ result > 0
        /\ tags' = [tags EXCEPT ![result].next = h]
        /\ frames' = [frames EXCEPT ![n].head = result]
        /\ readMode' = "read" /\ UNCHANGED <<free, blocks, refCount>>
    BY DEF X!ListAdd, X!Returned
  <1>2. result \in X!Addr /\ Ret = result /\ result # 0
    <2>1. result \in X!Ref \union {-1} /\ Ret = result
      BY <1>1, Returning DEF Ret
    <2> QED  BY <1>1, <2>1, Positive
  <1>3. /\ Store(tags, free, blocks, refCount, R) /\ Apart(frames, result) /\ tags[result].next = 0
        /\ frames \in Seq(Frame) /\ h \in Heads(frames)
        /\ X!Caller = frames[n]
    BY <1>1, <1>2, Returning
  <1>4. n \in Nat \ {0} /\ n \in 1 .. n /\ DOMAIN frames = 1 .. n /\ frames[n] \in Frame
    BY <1>1, <1>3, LastOne
  <1>5. result \notin Heads(frames) /\ R = (Heads(frames) \union {result}) \ {0}
    BY <1>2, <1>3 DEF Apart, HeldRoots
  <1> HIDE DEF R, h
  <1>6. /\ Same((R \ {result}) \union {0})
        /\ ItemsIn(tags', result) = Append(ItemsIn(tags, h), ValueIn(tags, result))
    <2>1. result \in R /\ (h = 0 \/ h \in R \ {result})
      BY <1>2, <1>3, <1>5
    <2> QED  BY <1>1, <1>3, <2>1, ChainKeeps
  <1>7. X!LastRead = ValueIn(tags, result) /\ X!LastRead' = X!Reader!Pending
    BY <1>1, <1>2, ReadIs, ReadWillBe
  <1>8. X!Reader!IsValue
    BY <1>7, ValuesDiffer DEF X!Reader!IsValue
  <1> DEFINE o == OpenOf(tags, frames)
  <1>9. /\ X!OpenElements # <<>> /\ X!OpenElements = o /\ Len(X!OpenElements) = n
        /\ X!Reader!Inner.type \in ListTypes
    BY <1>1, <1>3, Opened
  <1>10. DOMAIN o = 1 .. n /\ \A i \in 1 .. n : o[i] = Elem(tags, frames[i])
    BY <1>3, OpenFrames
  <1>11. frames'[n] = [frames[n] EXCEPT !.head = result] /\ \A i \in 1 .. n : i # n => frames'[i] = frames[i]
    BY <1>1, <1>4
  <1>12. DOMAIN frames' = 1 .. n
    BY <1>1, <1>4
  <1> HIDE DEF n
  <1>13. X!OpenElements' = [i \in 1 .. n |-> Elem(tags', frames'[i])]
    BY <1>12, Mapped DEF OpenOf
  <1>14. Elem(tags', frames'[n]) = [o[n] EXCEPT !.items = Append(@, X!LastRead)]
    <2>1. /\ frames'[n].type = frames[n].type /\ frames'[n].string = frames[n].string
          /\ frames'[n].head = result
      BY <1>4, <1>11 DEF Frame
    <2>2. o[n] = [type |-> frames[n].type, string |-> frames[n].string, items |-> ItemsIn(tags, h)]
      BY <1>3, <1>4, <1>10 DEF Elem, h
    <2>3. Elem(tags', frames'[n]) =
              [type |-> frames[n].type, string |-> frames[n].string, items |-> ItemsIn(tags', result)]
      BY <2>1 DEF Elem
    <2> HIDE DEF o
    <2>4. o[n].items = ItemsIn(tags, h)
      BY <2>2
    <2>5. [o[n] EXCEPT !.items = ItemsIn(tags', result)] =
              [type |-> frames[n].type, string |-> frames[n].string, items |-> ItemsIn(tags', result)]
      BY <2>2
    <2>6. Append(o[n].items, X!LastRead) = ItemsIn(tags', result)
      BY <1>6, <1>7, <2>4
    <2> QED  BY <2>3, <2>5, <2>6
  <1>15. ASSUME NEW i \in 1 .. n, i # n PROVE Elem(tags', frames'[i]) = o[i]
    <2>1. frames'[i] = frames[i] /\ frames[i].head \in Heads(frames)
      BY <1>4, <1>11, <1>15 DEF Heads
    <2>2. frames[i].head \in (R \ {result}) \union {0}
      BY <1>5, <2>1
    <2>3. ItemsIn(tags', frames[i].head) = ItemsIn(tags, frames[i].head)
      BY <1>6, <2>2 DEF Same
    <2> QED  BY <1>10, <2>1, <2>3 DEF Elem
  <1> HIDE DEF o
  <1>16. X!OpenElements' = [o EXCEPT ![n].items = Append(@, X!LastRead)]
    <2>1. [o EXCEPT ![n].items = Append(@, X!LastRead)] =
              [i \in 1 .. n |-> IF i = n THEN [o[n] EXCEPT !.items = Append(@, X!LastRead)] ELSE o[i]]
      BY <1>4, <1>10
    <2> QED  BY <1>13, <1>14, <1>15, <2>1
  <1>17. X!Reader!Add
    BY <1>7, <1>8, <1>9, <1>16 DEF X!Reader!Add
  <1> QED  BY <1>17 DEF X!Reader!Next

LEMMA ReadsListEnds == ASSUME TagInv, X!ListEnds PROVE X!Reader!Next
  <1> DEFINE R == HeldRoots(frames, 0)
             h == X!Caller.head
  <1>1. /\ readMode = "return" /\ frames # <<>> /\ X!Caller.type \in ListTypes /\ result = 0
        /\ frames' = X!Front(frames) /\ readMode' = "return"
        /\ X!NewTag(X!Caller.type, X!NoString, h) \/ X!ReturnFailure(h)
    BY DEF X!ListEnds, X!Returned, X!Pop
  <1>2. /\ Store(tags, free, blocks, refCount, R) /\ R = Heads(frames) \ {0} /\ h \in Heads(frames)
        /\ frames \in Seq(Frame) /\ X!Front(frames) \in Seq(Frame)
        /\ Heads(X!Front(frames)) \ {0} = Heads(frames) \ {0, h}
        /\ X!Caller.string = X!NoString
    BY <1>1, Returning DEF FrameFits
  <1> HIDE DEF R, h
  <1>3. (h = 0 \/ h \in R) /\ Heads(X!Front(frames)) \subseteq (R \ {h}) \union {0}
    BY <1>2
  <1>4. CASE X!NewTag(X!Caller.type, X!NoString, h)
    <2>1. X!Caller.type \in X!Types
      BY <1>1 DEF X!Types
    <2>2. /\ Same(R \union {0}) /\ result' \in X!Addr
          /\ ValueIn(tags', result') = [type |-> X!Caller.type, string |-> X!NoString, items |-> ItemsIn(tags, h)]
      BY <1>2, <1>3, <1>4, <2>1, NewTagKeeps
    <2>3. Heads(X!Front(frames)) \subseteq R \union {0}
      BY <1>3
    <2>4. X!OpenElements' = X!Reader!Outer
      BY <1>1, <1>2, <2>2, <2>3, OpenPops
    <2>5. X!OpenElements # <<>> /\ X!Reader!Inner = Elem(tags, X!Caller) /\ X!Reader!Inner.type = X!Caller.type
      BY <1>1, <1>2, Opened
    <2>6. X!LastRead' = X!Reader!Inner
      BY <1>1, <1>2, <2>2, <2>5, ReadWillBe DEF Elem, h
    <2>7. X!LastRead = X!Reader!Null
      BY <1>1, ReadIs
    <2> QED  BY <1>1, <2>4, <2>5, <2>6, <2>7 DEF X!Reader!Next, X!Reader!Close
  <1>5. CASE X!ReturnFailure(h)
    <2>1. X!XMLFreeTag(h) /\ result' = -1
      BY <1>5 DEF X!ReturnFailure
    <2>2. Same((R \ {h}) \union {0})
      BY <1>2, <1>3, <2>1, FreeKeeps
    <2> QED  BY <1>1, <1>3, <2>1, <2>2, Fails
  <1> QED  BY <1>1, <1>4, <1>5

LEMMA ReadsKeyEnds == ASSUME TagInv, X!KeyEnds PROVE X!Reader!Next
  <1> DEFINE R == HeldRoots(frames, result)
  <1>1. /\ readMode = "return" /\ frames # <<>> /\ X!Caller.type = "key" /\ result # -1
        /\ frames' = X!Front(frames) /\ readMode' = "return"
        /\ X!NewTag("key", X!Caller.string, result) \/ X!ReturnFailure(result)
    BY DEF X!KeyEnds, X!Returned, X!Pop
  <1>2. /\ Ret = result /\ Store(tags, free, blocks, refCount, R) /\ Apart(frames, result)
        /\ (result # 0 => tags[result].next = 0) /\ result \in X!Ref
        /\ frames \in Seq(Frame) /\ X!Front(frames) \in Seq(Frame)
        /\ X!Caller.string \in Strings /\ X!Caller.head = 0
        /\ Heads(X!Front(frames)) \ {0} = Heads(frames) \ {0}
    BY <1>1, Returning
  <1>3. R = (Heads(frames) \union {result}) \ {0} /\ (result # 0 => result \notin Heads(frames))
    <2>1. result # 0 => result \notin Heads(frames)
      BY <1>2 DEF Apart
    <2> QED  BY <2>1 DEF R, HeldRoots
  <1> HIDE DEF R
  <1>4. (result = 0 \/ result \in R) /\ Heads(X!Front(frames)) \subseteq (R \ {result}) \union {0}
    BY <1>2, <1>3
  <1>5. tags \in [X!Addr -> Entry] /\ \E F : Solves(F, tags)
    BY <1>2 DEF Store, StoreTypes, Forest
  <1>6. CASE X!NewTag("key", X!Caller.string, result)
    <2>1. "key" \in X!Types
      BY DEF X!Types
    <2>2. /\ Same(R \union {0}) /\ result' \in X!Addr
          /\ ValueIn(tags', result') = [type |-> "key", string |-> X!Caller.string, items |-> ItemsIn(tags, result)]
      BY <1>2, <1>4, <1>6, <2>1, NewTagKeeps
    <2>3. Heads(X!Front(frames)) \subseteq R \union {0}
      BY <1>4
    <2>4. X!OpenElements' = X!Reader!Outer
      BY <1>1, <1>2, <2>2, <2>3, OpenPops
    <2>5. X!OpenElements # <<>> /\ X!Reader!Inner = Elem(tags, X!Caller) /\ X!Reader!Inner.type = X!Caller.type
      BY <1>1, <1>2, Opened
    <2>6. (X!LastRead = X!Reader!Null \/ X!Reader!IsValue)
          /\ ItemsIn(tags, result) = IF X!LastRead = X!Reader!Null THEN <<>> ELSE <<X!LastRead>>
      <3>1. CASE result = 0
        BY <1>1, <1>5, <3>1, ReadIs, ItemsAre
      <3>2. CASE result # 0
        <4>1. result \in X!Addr /\ X!LastRead = ValueIn(tags, result)
          BY <1>1, <1>2, <3>2, ReadIs DEF X!Ref
        <4>2. X!Reader!IsValue /\ X!LastRead # X!Reader!Null
          BY <4>1, ValuesDiffer DEF X!Reader!IsValue
        <4>3. ItemsIn(tags, result) = Append(<<>>, X!LastRead)
          BY <1>2, <1>5, <3>2, <4>1, ItemsAre
        <4> QED  BY <4>2, <4>3
      <3> QED  BY <3>1, <3>2
    <2>7. X!LastRead' = [X!Reader!Inner EXCEPT !.items = IF X!LastRead = X!Reader!Null THEN <<>> ELSE <<X!LastRead>>]
      <3>1. X!LastRead' = [type |-> "key", string |-> X!Caller.string, items |-> ItemsIn(tags, result)]
        BY <1>1, <2>2, ReadWillBe
      <3>2. X!Reader!Inner = [type |-> "key", string |-> X!Caller.string, items |-> ItemsIn(tags, 0)]
        BY <1>1, <1>2, <2>5 DEF Elem
      <3> QED  BY <2>6, <3>1, <3>2
    <2>8. X!Reader!CloseKey
      BY <1>1, <2>4, <2>5, <2>6, <2>7 DEF X!Reader!CloseKey
    <2> QED  BY <2>8 DEF X!Reader!Next
  <1>7. CASE X!ReturnFailure(result)
    <2>1. X!XMLFreeTag(result) /\ result' = -1
      BY <1>7 DEF X!ReturnFailure
    <2>2. Same((R \ {result}) \union {0})
      BY <1>2, <1>4, <2>1, FreeKeeps
    <2> QED  BY <1>1, <1>4, <2>1, <2>2, Fails
  <1> QED  BY <1>1, <1>6, <1>7

LEMMA ReadsHalt == ASSUME TagInv, X!SymbolPanic PROVE X!Reader!Next
  <1>1. readMode' = "panicked" /\ tags' = tags /\ frames' = frames
    BY DEF X!SymbolPanic, X!store
  <1>2. X!OpenElements' = X!OpenElements
    BY <1>1, UnchangedStore, OpenRests DEF TagInv, Control
  <1>3. X!LastRead' = X!Reader!Ended
    BY <1>1, ReadWillBe
  <1> QED  BY <1>2, <1>3 DEF X!Reader!Next, X!Reader!Halt

LEMMA ReadsTop == ASSUME TagInv, X!TopGoesOn \/ X!TopFails PROVE X!Reader!Next
  <1>1. /\ readMode = "return" /\ readMode' \in {"read", "done"} /\ frames = <<>> /\ frames' = <<>>
    BY DEF X!TopGoesOn, X!TopFails
  <1>2. X!OpenElements = <<>> /\ X!OpenElements' = <<>>
    BY <1>1 DEF X!OpenElements
  <1>3. X!LastRead \notin {X!Reader!Pending, X!Reader!Ended}
    <2>1. result = 0 \/ result = -1 \/ result \in X!Addr
      BY DEF TagInv, Control, X!Ref
    <2> QED  BY <1>1, <2>1, ReadIs, ValuesDiffer, MarksDiffer
  <1>4. X!LastRead' \in {X!Reader!Pending, X!Reader!Ended}
    BY <1>1, ReadWillBe
  <1> QED  BY <1>2, <1>3, <1>4 DEF X!Reader!Next, X!Reader!Deliver

LEMMA ReaderStep == ASSUME TagInv, X!Next PROVE X!Reader!Next
  BY ReadsLeaf, ReadsCall, ReadsNoTag, ReadsListFails, ReadsListAdd, ReadsListEnds, ReadsKeyFails,
     ReadsKeyEnds, ReadsHalt, ReadsTop DEF X!Next

LEMMA ReaderRests == ASSUME UNCHANGED xml PROVE UNCHANGED <<X!OpenElements, X!LastRead>>
  <1>1. tags' = tags /\ frames' = frames /\ readMode' = readMode /\ result' = result
    BY DEF xml
  <1>2. X!OpenElements' = X!OpenElements
    BY <1>1, Mapped
  <1>3. X!LastRead' = X!LastRead
    BY <1>1 DEF X!LastRead, X!ValueOf, X!ItemsFrom
  <1> QED  BY <1>2, <1>3

\* XMLParseNextTag, ParseTagList, ParseTagKey (lib/xml.c): whatever the pool, what the
\* parser returns is what a reader returns that keeps the values themselves: an
\* element has the elements inside it in the order of the document, also where
\* their tags were used before, and a failure returns nothing.
THEOREM ReadsStructure == MCSpec => ImplementsReader
  <1> DEFINE Inv == part = "tags" => TagInv
  <1>1. MCInit => Inv /\ X!Reader!Init
    <2> SUFFICES ASSUME MCInit PROVE Inv /\ X!Reader!Init
      OBVIOUS
    <2>1. X!Init
      BY DEF MCInit
    <2>2. frames = <<>> /\ readMode = "read"
      BY <2>1 DEF X!Init
    <2>3. X!OpenElements = <<>> /\ X!LastRead = X!Reader!Pending
      BY <2>2, ReadIs DEF X!OpenElements
    <2> QED  BY <2>1, <2>3, TagInit DEF X!Reader!Init
  <1>2. Inv /\ [MCNext]_<<part, vars, xml, doc>> => Inv'
    BY TagStep, TagRests DEF MCNext
  <1>3. Inv /\ [MCNext]_<<part, vars, xml, doc>> => [X!Reader!Next]_<<X!OpenElements, X!LastRead>>
    <2> SUFFICES ASSUME Inv, [MCNext]_<<part, vars, xml, doc>>
                 PROVE  X!Reader!Next \/ UNCHANGED <<X!OpenElements, X!LastRead>>
      OBVIOUS
    <2>1. (part = "tags" /\ X!Next) \/ UNCHANGED xml
      BY DEF MCNext
    <2> QED  BY <2>1, ReaderStep, ReaderRests
  <1> QED
    BY <1>1, <1>2, <1>3, PTL DEF MCSpec, ImplementsReader, X!ImplementsReader, X!Reader!Spec

-----------------------------------------------------------------------------
(* The lists of a pool of the device tree *)

\* L has, for every entry, the entries from it on, where next links them.
Follows(L, next, addr) ==
    /\ L \in [addr \union {0} -> Seq(addr)]
    /\ L[0] = <<>>
    /\ \A a \in addr : L[a] = <<a>> \o L[next[a]]
    /\ \E longest \in Nat : \A a \in addr : Len(L[a]) <= longest

\* O says of every entry which list it is in; no two entries have the same next.
Lists(L, O, next, addr) ==
    /\ 0 \notin addr /\ next \in [addr -> addr \union {0}] /\ O \in [addr -> Int]
    /\ Follows(L, next, addr)
    /\ \A a \in addr : next[a] # 0 => O[next[a]] = O[a]
    /\ \A a, b \in addr : next[a] # 0 /\ next[a] = next[b] => a = b

\* List l begins at h, which is 0 when nothing is in it.
Begins(O, next, addr, h, l) ==
    /\ h \in addr \union {0}
    /\ h # 0 => O[h] = l /\ \A b \in addr : next[b] # h
    /\ \A x \in addr : O[x] = l /\ x # h => \E b \in addr : next[b] = x

LEMMA Link ==
    ASSUME NEW addr, NEW next, NEW L, NEW O, Lists(L, O, next, addr)
    PROVE  \A a \in addr :
               /\ next[a] \in addr \union {0}
               /\ L[a] \in Seq(addr) /\ L[next[a]] \in Seq(addr) /\ L[a] = <<a>> \o L[next[a]]
               /\ \A x : x \in ToSet(L[a]) <=> x = a \/ x \in ToSet(L[next[a]])
               /\ Len(L[a]) \in Nat /\ Len(L[next[a]]) \in Nat /\ Len(L[next[a]]) < Len(L[a])
  <1> TAKE a \in addr
  <1>1. next[a] \in addr \union {0}
    BY DEF Lists
  <1> DEFINE s == L[next[a]]
             u == <<a>>
  <1>2. s \in Seq(addr) /\ L[a] = u \o s /\ L[a] \in Seq(addr)
    BY <1>1 DEF Lists, Follows
  <1>3. u \in Seq(addr) /\ Len(u) = 1 /\ ToSet(u) = {a}
    BY Single
  <1> HIDE DEF s, u
  <1>4. Len(L[a]) = Len(u) + Len(s) /\ ToSet(L[a]) = ToSet(u) \union ToSet(s)
    <2>1. u \in Seq(addr) /\ s \in Seq(addr)
      BY <1>2, <1>3
    <2>2. Len(u \o s) = Len(u) + Len(s) /\ ToSet(u \o s) = ToSet(u) \union ToSet(s)
      BY ONLY <2>1, Joined
    <2> QED  BY <1>2, <2>2
  <1>5. Len(s) \in Nat /\ Len(L[a]) \in Nat
    BY <1>2
  <1>6. Len(s) < Len(L[a])
    BY <1>3, <1>4, <1>5
  <1> QED  BY <1>1, <1>2, <1>3, <1>4, <1>5, <1>6 DEF s, u

\* Induction along the links, forwards and backwards.
LEMMA Forwards ==
    ASSUME NEW addr, NEW next, NEW L, NEW O, Lists(L, O, next, addr), NEW Bad \in SUBSET addr,
           \A x \in Bad : next[x] \in Bad
    PROVE  Bad = {}
  <1> SUFFICES ASSUME Bad # {} PROVE FALSE
    OBVIOUS
  <1> DEFINE lengths == {Len(L[x]) : x \in Bad}
  <1>1. lengths \in SUBSET Nat /\ lengths # {}
    <2>1. \A x \in addr : Len(L[x]) \in Nat
      BY Link
    <2> QED  BY <2>1
  <1>2. PICK m \in lengths : \A k \in lengths : m <= k
    <2> HIDE DEF lengths
    <2> QED  BY <1>1, LeastNat
  <1>3. PICK x \in Bad : m = Len(L[x])
    BY <1>2
  <1>4. next[x] \in Bad /\ Len(L[next[x]]) < m /\ m <= Len(L[next[x]])
    <2>1. next[x] \in Bad /\ Len(L[next[x]]) \in lengths
      BY <1>3
    <2>2. Len(L[next[x]]) < Len(L[x])
      BY Link
    <2> QED  BY <1>2, <1>3, <2>1, <2>2
  <1>5. m \in Nat /\ Len(L[next[x]]) \in Nat
    BY <1>3, Link
  <1> QED  BY <1>4, <1>5

LEMMA Backwards ==
    ASSUME NEW addr, NEW next, NEW L, NEW O, Lists(L, O, next, addr), NEW Bad \in SUBSET addr,
           \A x \in Bad : \E b \in Bad : next[b] = x
    PROVE  Bad = {}
  <1> SUFFICES ASSUME Bad # {} PROVE FALSE
    OBVIOUS
  <1>0. PICK longest \in Nat : \A a \in addr : Len(L[a]) <= longest
    BY DEF Lists, Follows
  <1> DEFINE rest == {longest - Len(L[x]) : x \in Bad}
  <1>1. rest \in SUBSET Nat /\ rest # {}
    <2>1. \A n \in Nat : n <= longest => longest - n \in Nat
      OBVIOUS
    <2>2. \A x \in Bad : Len(L[x]) \in Nat /\ Len(L[x]) <= longest
      BY <1>0, Link
    <2> QED  BY <2>1, <2>2
  <1>2. PICK m \in rest : \A k \in rest : m <= k
    <2> HIDE DEF rest
    <2> QED  BY <1>1, LeastNat
  <1>3. PICK x \in Bad : m = longest - Len(L[x])
    BY <1>2
  <1>4. PICK b \in Bad : next[b] = x
    BY <1>3
  <1> DEFINE p == Len(L[x])
             q == Len(L[b])
  <1>5. p \in Nat /\ q \in Nat /\ p < q
    BY <1>4, Link
  <1>6. longest - p <= longest - q
    BY <1>2, <1>3
  <1> HIDE DEF p, q
  <1> QED  BY <1>5, <1>6

LEMMA SameList ==
    ASSUME NEW addr, NEW next, NEW L, NEW O, Lists(L, O, next, addr), NEW a \in addr
    PROVE  \A x \in ToSet(L[a]) : x \in addr /\ O[x] = O[a] /\ (next[x] # 0 => next[x] \in ToSet(L[a]))
  <1> DEFINE ok(y) == \A x \in ToSet(L[y]) :
                          x \in addr /\ O[x] = O[y] /\ (next[x] # 0 => next[x] \in ToSet(L[y]))
             Bad == {y \in addr : ~ ok(y)}
  <1>0. 0 \notin addr /\ L[0] = <<>> /\ \A y \in addr : next[y] # 0 => O[next[y]] = O[y]
    BY DEF Lists, Follows
  <1>1. ASSUME NEW y \in Bad PROVE next[y] \in Bad
    <2>1. /\ next[y] \in addr \union {0}
          /\ \A x : x \in ToSet(L[y]) <=> x = y \/ x \in ToSet(L[next[y]])
      BY Link
    <2>2. next[y] # 0
      <3> SUFFICES ASSUME next[y] = 0 PROVE FALSE
        OBVIOUS
      <3>1. \A x : x \in ToSet(L[y]) <=> x = y
        BY <1>0, <2>1, Single
      <3> QED  BY <3>1
    <2>3. next[y] \in ToSet(L[next[y]])
      BY <2>1, <2>2, Link
    <2>4. ok(next[y]) => ok(y)
      BY <1>0, <2>1, <2>2, <2>3
    <2> QED  BY <2>1, <2>2, <2>4
  <1>2. Bad = {}
    <2> HIDE DEF Bad
    <2>1. Bad \in SUBSET addr
      BY DEF Bad
    <2> QED  BY <1>1, <2>1, Forwards
  <1> QED  BY <1>2

\* A list has what it is said to have.
LEMMA ListIs ==
    ASSUME NEW addr, NEW next, NEW L, NEW O, Lists(L, O, next, addr),
           NEW h, NEW l, Begins(O, next, addr, h, l)
    PROVE  L[h] \in Seq(addr) /\ ToSet(L[h]) = {x \in addr : O[x] = l}
  <1>0. 0 \notin addr /\ L[0] = <<>> /\ ToSet(<<>>) = {} /\ h \in addr \union {0} /\ L[h] \in Seq(addr)
    BY DEF Lists, Follows, Begins, ToSet
  <1>1. ToSet(L[h]) \subseteq {x \in addr : O[x] = l}
    BY <1>0, SameList DEF Begins
  <1> DEFINE Bad == {x \in addr : O[x] = l /\ x \notin ToSet(L[h])}
  <1>2. ASSUME NEW x \in Bad PROVE \E b \in Bad : next[b] = x
    <2>1. x # h
      <3>1. x \in ToSet(L[x])
        BY Link
      <3> QED  BY <3>1
    <2>2. PICK b \in addr : next[b] = x
      BY <2>1 DEF Begins
    <2>3. O[b] = l
      BY <1>0, <2>2 DEF Lists
    <2>4. b \notin ToSet(L[h])
      <3>1. h = 0 => ToSet(L[h]) = {}
        BY <1>0
      <3>2. h \in addr => \A y \in ToSet(L[h]) : next[y] # 0 => next[y] \in ToSet(L[h])
        BY SameList
      <3> QED  BY <1>0, <2>2, <3>1, <3>2
    <2> QED  BY <2>2, <2>3, <2>4
  <1>3. Bad = {}
    <2> HIDE DEF Bad
    <2>1. Bad \in SUBSET addr
      BY DEF Bad
    <2> QED  BY <1>2, <2>1, Backwards
  <1> QED  BY <1>0, <1>1, <1>3

LEMMA ChainIs ==
    ASSUME NEW addr, NEW next, NEW L, NEW O, Lists(L, O, next, addr)
    PROVE  \A h \in addr \union {0} : Chain(next, h) = L[h]
  <1>0. 0 \notin addr /\ DOMAIN next = addr /\ L[0] = <<>> /\ L = [a \in addr \union {0} |-> L[a]]
    BY DEF Lists, Follows
  <1>l. \A a \in addr : L[a] = <<a>> \o L[next[a]] /\ next[a] \in addr \union {0}
    BY Link
  <1> DEFINE step(G) == [a \in addr \union {0} |-> IF a = 0 THEN <<>> ELSE <<a>> \o G[next[a]]]
             data == CHOOSE G : G = step(G)
  <1>1. L = step(L)
    BY <1>0, <1>l
  <1>2. data = step(data)
    <2> HIDE DEF step
    <2> QED  BY <1>1
  <1> DEFINE Bad == {a \in addr : data[a] # L[a]}
  <1>3. data[0] = L[0]
    BY <1>0, <1>2
  <1>4. ASSUME NEW a \in Bad PROVE next[a] \in Bad
    <2>1. data[a] = <<a>> \o data[next[a]]
      <3>1. step(data)[a] = <<a>> \o data[next[a]]
        BY <1>0
      <3> HIDE DEF data, step
      <3> QED  BY <1>2, <3>1
    <2>2. L[a] = <<a>> \o L[next[a]] /\ next[a] \in addr \union {0}
      BY <1>l
    <2>3. data[next[a]] # L[next[a]] /\ next[a] # 0
      <3> HIDE DEF data
      <3> QED  BY <1>3, <2>1, <2>2
    <2> HIDE DEF data
    <2> QED  BY <2>2, <2>3
  <1>5. Bad = {}
    <2> HIDE DEF Bad
    <2>1. Bad \in SUBSET addr
      BY DEF Bad
    <2> QED  BY <1>4, <2>1, Forwards
  <1>6. \A h : Chain(next, h) = data[h]
    BY <1>0 DEF Chain
  <1> HIDE DEF data
  <1> QED  BY <1>3, <1>5, <1>6

\* x was taken off the front of list f; the rest of f and the other lists are as
\* they were.
Others(O, next, O2, next2, addr, x, f, l) ==
    /\ Begins(O, next, addr, x, f) => Begins(O2, next2, addr, next[x], f)
    /\ \A h, m : m # f /\ m # l /\ Begins(O, next, addr, h, m) => Begins(O2, next2, addr, h, m)

PushNext(next, x, h) == [next EXCEPT ![x] = h]

Owned(O, x, l) == [O EXCEPT ![x] = l]

PushList(L, x, h) == [L EXCEPT ![x] = <<x>> \o L[h]]

\* An entry that is put in front of a list.
LEMMA PushedList ==
    ASSUME NEW addr, NEW next, NEW L, NEW O, Lists(L, O, next, addr),
           NEW x \in addr, NEW f, Begins(O, next, addr, x, f),
           NEW h, NEW l \in Int, Begins(O, next, addr, h, l), l # f
    PROVE  /\ Lists(PushList(L, x, h), Owned(O, x, l), PushNext(next, x, h), addr)
           /\ Begins(Owned(O, x, l), PushNext(next, x, h), addr, x, l)
           /\ Others(O, next, Owned(O, x, l), PushNext(next, x, h), addr, x, f, l)
  <1> DEFINE next2 == PushNext(next, x, h)
             O2 == Owned(O, x, l)
             L2 == PushList(L, x, h)
  <1>d. /\ next2 = [next EXCEPT ![x] = h]
        /\ O2 = [O EXCEPT ![x] = l]
        /\ L2 = [L EXCEPT ![x] = <<x>> \o L[h]]
    BY DEF PushNext, Owned, PushList
  <1> HIDE DEF next2, O2, L2
  <1> USE <1>d
  <1>1. /\ 0 \notin addr /\ next \in [addr -> addr \union {0}] /\ O \in [addr -> Int]
        /\ \A a \in addr : next[a] # 0 => O[next[a]] = O[a]
        /\ \A a, b \in addr : next[a] # 0 /\ next[a] = next[b] => a = b
    BY DEF Lists
  <1>2. /\ h \in addr \union {0} /\ h # x /\ (h # 0 => O[h] = l)
        /\ \A b \in addr : h # 0 => next[b] # h
        /\ O[x] = f /\ \A b \in addr : next[b] # x
    BY <1>1 DEF Begins
  <1>3. /\ next2 \in [addr -> addr \union {0}] /\ O2 \in [addr -> Int]
        /\ next2[x] = h /\ \A a \in addr : a # x => next2[a] = next[a]
        /\ O2[x] = l /\ \A a \in addr : a # x => O2[a] = O[a]
    BY <1>1, <1>2
  <1>4. Follows(L2, next2, addr)
    <2>1. L \in [addr \union {0} -> Seq(addr)] /\ L[0] = <<>> /\ \A a \in addr : L[a] = <<a>> \o L[next[a]]
      BY DEF Lists, Follows
    <2>2. <<x>> \in Seq(addr) /\ L[h] \in Seq(addr) /\ Len(L[h]) \in Nat
      BY <1>2, <2>1
    <2> DEFINE u == <<x>>
               s == L[h]
    <2>3. u \o s \in Seq(addr) /\ Len(u \o s) = 1 + Len(s)
      <3>1. u \in Seq(addr) /\ s \in Seq(addr) /\ Len(u) = 1
        BY <2>2
      <3> HIDE DEF u, s
      <3>2. u \o s \in Seq(addr) /\ Len(u \o s) = Len(u) + Len(s)
        BY <3>1, Joined
      <3> QED  BY <3>1, <3>2
    <2>4. L2 \in [addr \union {0} -> Seq(addr)] /\ L2[x] = u \o s /\ L2[h] = s /\ L2[0] = <<>>
          /\ \A a \in addr \union {0} : a # x => L2[a] = L[a]
      <3>1. L2 = [L EXCEPT ![x] = u \o s]
        OBVIOUS
      <3> DEFINE v == u \o s
      <3>2. v \in Seq(addr) /\ L2 = [L EXCEPT ![x] = v]
        BY <2>3, <3>1
      <3> HIDE DEF v
      <3>3. /\ L2 \in [addr \union {0} -> Seq(addr)] /\ L2[x] = v /\ L2[0] = <<>>
            /\ \A a \in addr \union {0} : a # x => L2[a] = L[a]
        <4>1. L2 \in [addr \union {0} -> Seq(addr)]
          BY <2>1, <3>2
        <4>2. L2[x] = v /\ \A a \in addr \union {0} : a # x => L2[a] = L[a]
          BY <2>1, <3>2
        <4> QED  BY <1>1, <2>1, <4>1, <4>2
      <3>4. L2[h] = s
        BY <1>2, <3>3
      <3> QED  BY <3>3, <3>4 DEF v
    <2>5. ASSUME NEW a \in addr PROVE L2[a] = <<a>> \o L2[next2[a]]
      <3>1. CASE a = x
        BY <1>3, <2>4, <3>1
      <3>2. CASE a # x
        <4>1. next2[a] = next[a] /\ next[a] # x /\ next[a] \in addr \union {0}
          BY <1>1, <1>2, <1>3, <3>2
        <4>2. L2[next[a]] = L[next[a]] /\ L2[a] = L[a]
          BY <2>4, <3>2, <4>1
        <4> QED  BY <2>1, <4>1, <4>2
      <3> QED  BY <3>1, <3>2
    <2>6. \E longest \in Nat : \A a \in addr : Len(L2[a]) <= longest
      <3>1. PICK longest \in Nat : \A a \in addr : Len(L[a]) <= longest
        BY DEF Lists, Follows
      <3>2. Len(L2[x]) = 1 + Len(s) /\ Len(s) \in Nat /\ Len(s) <= longest
        <4>1. h = 0 => Len(s) = 0
          BY <2>1
        <4>2. h # 0 => Len(s) <= longest
          BY <1>2, <3>1
        <4>3. Len(s) \in Nat
          BY <2>2
        <4> HIDE DEF u, s
        <4> QED  BY <2>3, <2>4, <3>1, <4>1, <4>2, <4>3
      <3>3. \A a \in addr : a # x => Len(L2[a]) \in Nat /\ Len(L2[a]) <= longest
        BY <2>1, <2>4, <3>1
      <3> HIDE DEF u, s
      <3>4. \A a \in addr : Len(L2[a]) <= 1 + longest
        BY <3>1, <3>2, <3>3
      <3> QED  BY <3>4
    <2> QED  BY <2>4, <2>5, <2>6 DEF Follows
  <1>5. Lists(L2, O2, next2, addr)
    <2>1. ASSUME NEW a \in addr, next2[a] # 0 PROVE O2[next2[a]] = O2[a]
      BY <1>1, <1>2, <1>3, <2>1
    <2>2. ASSUME NEW a \in addr, NEW b \in addr, next2[a] # 0, next2[a] = next2[b] PROVE a = b
      BY <1>1, <1>2, <1>3, <2>2
    <2> QED  BY <1>1, <1>3, <1>4, <2>1, <2>2 DEF Lists
  <1>6. Begins(O2, next2, addr, x, l)
    <2>1. ASSUME NEW y \in addr, O2[y] = l, y # x PROVE \E b \in addr : next2[b] = y
      <3>1. CASE y = h
        BY <1>3, <3>1
      <3>2. CASE y # h
        <4>1. PICK b \in addr : next[b] = y
          BY <1>3, <2>1, <3>2 DEF Begins
        <4>2. b # x
          BY <1>1, <1>2, <1>3, <2>1, <4>1
        <4> QED  BY <1>3, <4>1, <4>2
      <3> QED  BY <3>1, <3>2
    <2>2. \A b \in addr : next2[b] # x
      BY <1>2, <1>3
    <2> QED  BY <1>3, <2>1, <2>2 DEF Begins
  <1>7. Begins(O2, next2, addr, next[x], f)
    <2>1. ASSUME NEW y \in addr, O2[y] = f, y # next[x] PROVE \E b \in addr : next2[b] = y
      <3>1. y # x /\ O[y] = f
        BY <1>3, <2>1
      <3>2. PICK b \in addr : next[b] = y
        BY <3>1 DEF Begins
      <3> QED  BY <1>3, <2>1, <3>2
    <2>2. ASSUME NEW b \in addr, next[x] # 0 PROVE next2[b] # next[x]
      BY <1>1, <1>2, <1>3, <2>2
    <2>3. next[x] # 0 => O2[next[x]] = f
      BY <1>1, <1>2, <1>3
    <2> QED  BY <1>1, <2>1, <2>2, <2>3 DEF Begins
  <1>8. ASSUME NEW g, NEW m, m # f, m # l, Begins(O, next, addr, g, m)
        PROVE  Begins(O2, next2, addr, g, m)
    <2>1. ASSUME NEW y \in addr, O2[y] = m, y # g PROVE \E b \in addr : next2[b] = y
      <3>1. y # x /\ O[y] = m
        BY <1>3, <1>8, <2>1
      <3>2. PICK b \in addr : next[b] = y
        BY <1>8, <2>1, <3>1 DEF Begins
      <3>3. b # x
        BY <1>1, <1>2, <1>8, <3>1, <3>2
      <3> QED  BY <1>3, <3>2, <3>3
    <2>2. g \in addr \union {0} /\ (g # 0 => O[g] = m /\ \A b \in addr : next[b] # g)
      BY <1>8 DEF Begins
    <2>3. g # 0 => O2[g] = m /\ \A b \in addr : next2[b] # g
      BY <1>2, <1>3, <1>8, <2>2
    <2> QED  BY <2>1, <2>2, <2>3 DEF Begins
  <1> QED  BY <1>5, <1>6, <1>7, <1>8 DEF Others, next2, O2, L2

LEMMA Ends ==
    ASSUME NEW S, NEW a \in S, NEW x \in S
    PROVE  /\ <<a>> \o <<>> = <<a>>
           /\ Append(<<a>> \o <<>>, x) = <<a>> \o <<x>>
           /\ \A s \in Seq(S) : Append(<<a>> \o s, x) = <<a>> \o Append(s, x)
  OBVIOUS

AppendNext(next, t, x) == [next EXCEPT ![t] = x, ![x] = 0]

AppendList(L, addr, t, x) ==
    [a \in addr \union {0} |->
        IF a = x THEN <<x>>
        ELSE IF t \in ToSet(L[a]) THEN Append(L[a], x) ELSE L[a]]

\* An entry that is put behind the last of a list.
LEMMA Appended ==
    ASSUME NEW addr, NEW next, NEW L, NEW O, Lists(L, O, next, addr),
           NEW x \in addr, NEW f, Begins(O, next, addr, x, f),
           NEW t \in addr, NEW l \in Int, O[t] = l, next[t] = 0, l # f
    PROVE  /\ Lists(AppendList(L, addr, t, x), Owned(O, x, l), AppendNext(next, t, x), addr)
           /\ \A h : h # 0 /\ Begins(O, next, addr, h, l) => Begins(Owned(O, x, l), AppendNext(next, t, x), addr, h, l)
           /\ Others(O, next, Owned(O, x, l), AppendNext(next, t, x), addr, x, f, l)
  <1> DEFINE next2 == AppendNext(next, t, x)
             O2 == Owned(O, x, l)
             L2 == AppendList(L, addr, t, x)
  <1>d. /\ next2 = [next EXCEPT ![t] = x, ![x] = 0]
        /\ O2 = [O EXCEPT ![x] = l]
        /\ L2 = [a \in addr \union {0} |->
                            IF a = x THEN <<x>>
                            ELSE IF t \in ToSet(L[a]) THEN Append(L[a], x) ELSE L[a]]
    BY DEF AppendNext, Owned, AppendList
  <1> HIDE DEF next2, O2, L2
  <1> USE <1>d
  <1>1. /\ 0 \notin addr /\ next \in [addr -> addr \union {0}] /\ O \in [addr -> Int]
        /\ \A a \in addr : next[a] # 0 => O[next[a]] = O[a]
        /\ \A a, b \in addr : next[a] # 0 /\ next[a] = next[b] => a = b
    BY DEF Lists
  <1>2. t # x /\ O[x] = f /\ \A b \in addr : next[b] # x
    BY <1>1 DEF Begins
  <1>3. /\ next2 \in [addr -> addr \union {0}] /\ O2 \in [addr -> Int]
        /\ next2[x] = 0 /\ next2[t] = x
        /\ \A a \in addr : a # x /\ a # t => next2[a] = next[a]
        /\ O2[x] = l /\ \A a \in addr : a # x => O2[a] = O[a]
    BY <1>1, <1>2
  <1>4. Follows(L2, next2, addr)
    <2>1. L \in [addr \union {0} -> Seq(addr)] /\ L[0] = <<>> /\ ToSet(<<>>) = {}
          /\ \A a \in addr : /\ L[a] = <<a>> \o L[next[a]]
                              /\ \A y : y \in ToSet(L[a]) <=> y = a \/ y \in ToSet(L[next[a]])
      <3>1. \A a \in addr : L[a] = <<a>> \o L[next[a]]
        BY Zenon DEF Lists, Follows
      <3>2. \A a \in addr : \A y : y \in ToSet(L[a]) <=> y = a \/ y \in ToSet(L[next[a]])
        BY Link
      <3>3. L \in [addr \union {0} -> Seq(addr)] /\ L[0] = <<>>
        BY DEF Lists, Follows
      <3>4. ToSet(<<>>) = {}
        BY DEF ToSet
      <3> QED  BY <3>1, <3>2, <3>3, <3>4, Zenon
    <2>2. <<x>> \in Seq(addr) /\ L2[x] = <<x>>
      OBVIOUS
    <2>3. \A a \in addr \union {0} : a # x => L2[a] = IF t \in ToSet(L[a]) THEN Append(L[a], x) ELSE L[a]
      OBVIOUS
    <2>4. L2[0] = <<>>
      BY <1>1, <2>1, <2>3
    <2>5. \A a \in addr \union {0} : L2[a] \in Seq(addr)
      <3>1. \A a \in addr \union {0} : L[a] \in Seq(addr) /\ Append(L[a], x) \in Seq(addr)
        BY <2>1
      <3> QED  BY <2>2, <2>3, <3>1
    <2>6. ASSUME NEW a \in addr PROVE L2[a] = <<a>> \o L2[next2[a]]
      <3>1. CASE a = x
        <4>1. L2[a] = <<x>> /\ L2[next2[a]] = <<>> /\ <<x>> \o <<>> = <<x>>
          BY <1>3, <2>2, <2>4, <3>1, Ends
        <4> QED  BY <3>1, <4>1
      <3>2. CASE a = t
        <4>1. L[t] = <<t>> \o <<>> /\ t \in ToSet(L[t])
          BY <2>1
        <4>2. L2[t] = Append(<<t>> \o <<>>, x)
          BY <1>2, <2>3, <4>1
        <4>3. L2[next2[t]] = <<x>>
          BY <1>3, <2>2
        <4>4. Append(<<t>> \o <<>>, x) = <<t>> \o <<x>>
          BY Ends
        <4> QED  BY <3>2, <4>2, <4>3, <4>4
      <3>3. CASE a # x /\ a # t
        <4>1. next2[a] = next[a] /\ next[a] # x /\ next[a] \in addr \union {0}
          BY <1>1, <1>2, <1>3, <3>3
        <4> DEFINE s == L[next[a]]
        <4>2. s \in Seq(addr) /\ L[a] = <<a>> \o s /\ (t \in ToSet(L[a]) <=> t \in ToSet(s))
          BY <2>1, <3>3, <4>1
        <4>3. /\ L2[a] = IF t \in ToSet(s) THEN Append(<<a>> \o s, x) ELSE <<a>> \o s
              /\ L2[next2[a]] = IF t \in ToSet(s) THEN Append(s, x) ELSE s
          BY <2>3, <3>3, <4>1, <4>2
        <4> HIDE DEF s
        <4>4. Append(<<a>> \o s, x) = <<a>> \o Append(s, x)
          <5>1. s \in Seq(addr) /\ a \in addr /\ x \in addr
            BY <1>2, <4>2
          <5> QED  BY ONLY <5>1
        <4> QED  BY <4>3, <4>4
      <3> QED  BY <3>1, <3>2, <3>3
    <2>7. \E longest \in Nat : \A a \in addr : Len(L2[a]) <= longest
      <3>1. PICK longest \in Nat : \A a \in addr : Len(L[a]) <= longest
        BY DEF Lists, Follows
      <3>2. ASSUME NEW a \in addr PROVE Len(L2[a]) <= 1 + longest
        <4>1. L[a] \in Seq(addr) /\ Len(L[a]) <= longest
          BY <2>1, <3>1
        <4> DEFINE s == L[a]
        <4>2. s \in Seq(addr) /\ Len(s) <= longest /\ L2[a] \in {<<x>>, s, Append(s, x)}
          BY <2>2, <2>3, <4>1
        <4> HIDE DEF s
        <4>3. Len(s) \in Nat /\ Len(Append(s, x)) = Len(s) + 1 /\ Len(<<x>>) = 1
          BY <4>2
        <4>4. \A n \in Nat : n <= longest => n <= 1 + longest /\ n + 1 <= 1 + longest /\ 1 <= 1 + longest
          OBVIOUS
        <4> QED  BY <4>2, <4>3, <4>4
      <3> QED  BY <3>2
    <2>8. L2 \in [addr \union {0} -> Seq(addr)]
      BY <2>5
    <2> QED  BY <2>4, <2>6, <2>7, <2>8 DEF Follows
  <1>5. Lists(L2, O2, next2, addr)
    <2>1. ASSUME NEW a \in addr, next2[a] # 0 PROVE O2[next2[a]] = O2[a]
      BY <1>1, <1>2, <1>3, <2>1
    <2>2. ASSUME NEW a \in addr, NEW b \in addr, next2[a] # 0, next2[a] = next2[b] PROVE a = b
      BY <1>1, <1>2, <1>3, <2>2
    <2> QED  BY <1>1, <1>3, <1>4, <2>1, <2>2 DEF Lists
  <1>6. ASSUME NEW h, h # 0, Begins(O, next, addr, h, l)
        PROVE  Begins(O2, next2, addr, h, l)
    <2>1. ASSUME NEW y \in addr, O2[y] = l, y # h PROVE \E b \in addr : next2[b] = y
      <3>1. CASE y = x
        BY <1>3, <3>1
      <3>2. CASE y # x
        <4>1. PICK b \in addr : next[b] = y
          BY <1>3, <1>6, <2>1, <3>2 DEF Begins
        <4>2. b # x /\ b # t
          BY <1>1, <1>2, <1>3, <2>1, <3>2, <4>1
        <4> QED  BY <1>3, <4>1, <4>2
      <3> QED  BY <3>1, <3>2
    <2>2. h \in addr /\ O[h] = l /\ \A b \in addr : next[b] # h
      BY <1>6 DEF Begins
    <2>3. h # x /\ \A b \in addr : next2[b] # h
      BY <1>2, <1>3, <1>6, <2>2
    <2> QED  BY <1>3, <2>1, <2>2, <2>3 DEF Begins
  <1>7. Begins(O2, next2, addr, next[x], f)
    <2>1. ASSUME NEW y \in addr, O2[y] = f, y # next[x] PROVE \E b \in addr : next2[b] = y
      <3>1. y # x /\ O[y] = f
        BY <1>3, <2>1
      <3>2. PICK b \in addr : next[b] = y
        BY <3>1 DEF Begins
      <3>3. b # x /\ b # t
        BY <1>1, <2>1, <3>2
      <3> QED  BY <1>3, <3>2, <3>3
    <2>2. ASSUME NEW b \in addr, next[x] # 0 PROVE next2[b] # next[x]
      BY <1>1, <1>2, <1>3, <2>2
    <2>3. next[x] # 0 => O2[next[x]] = f
      BY <1>1, <1>2, <1>3
    <2> QED  BY <1>1, <2>1, <2>2, <2>3 DEF Begins
  <1>8. ASSUME NEW g, NEW m, m # f, m # l, Begins(O, next, addr, g, m)
        PROVE  Begins(O2, next2, addr, g, m)
    <2>1. ASSUME NEW y \in addr, O2[y] = m, y # g PROVE \E b \in addr : next2[b] = y
      <3>1. y # x /\ O[y] = m
        BY <1>3, <1>8, <2>1
      <3>2. PICK b \in addr : next[b] = y
        BY <1>8, <2>1, <3>1 DEF Begins
      <3>3. b # x /\ b # t
        BY <1>1, <1>2, <1>8, <3>1, <3>2
      <3> QED  BY <1>3, <3>2, <3>3
    <2>2. g \in addr \union {0} /\ (g # 0 => O[g] = m /\ \A b \in addr : next[b] # g)
      BY <1>8 DEF Begins
    <2>3. g # 0 => O2[g] = m /\ \A b \in addr : next2[b] # g
      BY <1>2, <1>3, <1>8, <2>2
    <2> QED  BY <2>1, <2>2, <2>3 DEF Begins
  <1> QED  BY <1>5, <1>6, <1>7, <1>8 DEF Others, next2, O2, L2

\* The labels of the lists: free entries, entries that record a block, and
\* entries of no block.
Free    == 0
Record  == -1
NoBlock == -3

Plain(l) == l \notin {Free, Record, NoBlock}

\* a, a - 1, .. first
Down(first, a) == [i \in 1 .. a + 1 - first |-> a + 1 - i]

LEMMA DownOne ==
    ASSUME NEW first \in Nat, NEW last \in Nat, NEW S, first .. last \subseteq S,
           NEW a \in first .. last
    PROVE  /\ Down(first, a) \in Seq(S) /\ Len(Down(first, a)) <= last + 1
           /\ Down(first, a) = <<a>> \o (IF a = first THEN <<>> ELSE Down(first, a - 1))
  <1> DEFINE n == a + 1 - first
             s == Down(first, a)
             u == IF a = first THEN <<>> ELSE Down(first, a - 1)
  <1>1. n \in Nat /\ n <= last + 1 /\ DOMAIN s = 1 .. n /\ \A i \in 1 .. n : s[i] = a + 1 - i
    BY DEF Down
  <1>2. \A i \in 1 .. n : a + 1 - i \in S
    <2>1. \A i \in 1 .. n : a + 1 - i \in first .. last
      OBVIOUS
    <2> QED  BY <2>1
  <1>3. s \in Seq(S) /\ Len(s) = n
    <2>1. s = [i \in 1 .. n |-> a + 1 - i]
      BY DEF Down
    <2> HIDE DEF n, s
    <2>2. s \in Seq(S) /\ Len(s) = n
      BY <1>1, <1>2, <2>1
    <2> QED  BY <2>2
  <1>4. u \in Seq(Int) /\ Len(u) = n - 1 /\ \A i \in 1 .. n - 1 : u[i] = a - i
    <2>1. CASE a = first
      BY <2>1
    <2>2. CASE a # first
      <3>1. a - 1 + 1 - first = n - 1 /\ n - 1 \in Nat /\ \A i \in 1 .. n - 1 : a - 1 + 1 - i = a - i
        BY <2>2
      <3>2. u = [i \in 1 .. n - 1 |-> a - i]
        BY <2>2, <3>1 DEF Down
      <3> DEFINE k == n - 1
      <3>3. k \in Nat /\ u = [i \in 1 .. k |-> a - i] /\ \A i \in 1 .. k : a - i \in Int
        BY <3>1, <3>2
      <3> HIDE DEF k, u, n
      <3>4. u \in Seq(Int) /\ Len(u) = k /\ \A i \in 1 .. k : u[i] = a - i
        BY <3>3
      <3> QED  BY <3>4 DEF k
    <2> QED  BY <2>1, <2>2
  <1>5. s = <<a>> \o u
    <2> DEFINE w == <<a>> \o u
    <2>1. w \in Seq(Int) /\ Len(w) = n /\ \A i \in 1 .. n : w[i] = a + 1 - i
      <3> HIDE DEF u, n
      <3>1. w \in Seq(Int) /\ Len(w) = 1 + Len(u)
        BY <1>4
      <3>2. \A i \in 1 .. 1 + Len(u) : w[i] = IF i = 1 THEN a ELSE u[i - 1]
        BY <1>4
      <3>3. 1 + Len(u) = n
        BY <1>1, <1>4
      <3>4. ASSUME NEW i \in 1 .. n PROVE w[i] = a + 1 - i
        <4>1. CASE i = 1
          BY <3>2, <3>3, <4>1
        <4>2. CASE i # 1
          <5>1. i - 1 \in 1 .. n - 1 /\ a - (i - 1) = a + 1 - i
            BY <1>1, <4>2
          <5>2. w[i] = u[i - 1]
            BY <3>2, <3>3, <4>2
          <5> QED  BY <1>4, <5>1, <5>2
        <4> QED  BY <4>1, <4>2
      <3> QED  BY <3>1, <3>3, <3>4
    <2> HIDE DEF w, s, u, n
    <2>2. s = w
      BY <1>1, <1>3, <2>1
    <2> QED  BY <2>2 DEF w
  <1> QED  BY <1>1, <1>3, <1>5

BlockNext(next, addr, c, r, last) ==
    [a \in addr |-> IF a = r THEN c ELSE IF a = r + 1 THEN 0
                     ELSE IF a \in r + 2 .. last THEN a - 1 ELSE next[a]]

BlockOwned(O, addr, r, last) ==
    [a \in addr |-> IF a = r THEN Record ELSE IF a \in r .. last THEN Free ELSE O[a]]

BlockList(L, addr, c, r, last) ==
    [a \in addr \union {0} |->
        IF a = r THEN <<r>> \o L[c]
        ELSE IF a \in r .. last THEN Down(r + 1, a) ELSE L[a]]

NextBlock(O, next, L2, O2, next2, addr, r, last) ==
    /\ Lists(L2, O2, next2, addr)
    /\ Begins(O2, next2, addr, last, Free) /\ Begins(O2, next2, addr, r, Record)
    /\ \A h, m : Plain(m) /\ Begins(O, next, addr, h, m) => Begins(O2, next2, addr, h, m)

\* A block whose first entry records it; the others are free.
LEMMA Grown ==
    ASSUME NEW addr, NEW next, NEW L, NEW O, Lists(L, O, next, addr),
           NEW r \in Nat, NEW last \in Nat, r < last, r .. last \subseteq addr,
           \A a \in r .. last : O[a] = NoBlock,
           \A a \in addr : O[a] = NoBlock => next[a] = 0,
           Begins(O, next, addr, 0, Free), NEW c, Begins(O, next, addr, c, Record)
    PROVE  NextBlock(O, next, BlockList(L, addr, c, r, last), BlockOwned(O, addr, r, last),
                     BlockNext(next, addr, c, r, last), addr, r, last)
  <1> DEFINE next2 == BlockNext(next, addr, c, r, last)
             O2 == BlockOwned(O, addr, r, last)
             L2 == BlockList(L, addr, c, r, last)
  <1>d. /\ next2 = [a \in addr |-> IF a = r THEN c ELSE IF a = r + 1 THEN 0
                                              ELSE IF a \in r + 2 .. last THEN a - 1 ELSE next[a]]
        /\ O2 = [a \in addr |-> IF a = r THEN Record ELSE IF a \in r .. last THEN Free ELSE O[a]]
        /\ L2 = [a \in addr \union {0} |->
                            IF a = r THEN <<r>> \o L[c]
                            ELSE IF a \in r .. last THEN Down(r + 1, a) ELSE L[a]]
    BY DEF BlockNext, BlockOwned, BlockList
  <1> HIDE DEF next2, O2, L2
  <1> USE <1>d
  <1> DEFINE E == r .. last
  <1>0. /\ r \in E /\ r + 1 \in E /\ last \in E /\ last # r /\ E \subseteq addr /\ E \subseteq Nat
        /\ \A a \in E : a # r => a \in r + 1 .. last
        /\ \A a \in E : a # r /\ a # r + 1 => a \in r + 2 .. last /\ a - 1 \in E /\ a - 1 # r
                                              /\ a - 1 # last /\ a - 1 + 1 = a
        /\ \A a \in r + 1 .. last : a \in E /\ a # r
        /\ \A a \in r + 2 .. last : a \in E /\ a # r /\ a # r + 1
        /\ \A a \in E : a # last => a + 1 \in E /\ a + 1 - 1 = a /\ (a # r => a + 1 # r + 1 /\ a + 1 # r)
    OBVIOUS
  <1>a. /\ 0 \notin addr /\ next \in [addr -> addr \union {0}] /\ O \in [addr -> Int]
        /\ \A a \in addr : next[a] # 0 => O[next[a]] = O[a]
        /\ \A a, b \in addr : next[a] # 0 /\ next[a] = next[b] => a = b
    BY DEF Lists
  <1> HIDE DEF E
  <1>1. /\ next2[r] = c /\ next2[r + 1] = 0
        /\ \A a \in E : a # r /\ a # r + 1 => next2[a] = a - 1
        /\ \A a \in addr : a \notin E => next2[a] = next[a]
    <2>1. r + 1 # r
      OBVIOUS
    <2>2. \A a \in addr : next2[a] = IF a = r THEN c ELSE IF a = r + 1 THEN 0
                                     ELSE IF a \in r + 2 .. last THEN a - 1 ELSE next[a]
      OBVIOUS
    <2>3. r \in addr /\ r + 1 \in addr
      BY <1>0
    <2>4. \A a \in addr : a \notin E => a # r /\ a # r + 1 /\ a \notin r + 2 .. last
      BY <1>0
    <2> QED  BY <1>0, <2>1, <2>2, <2>3, <2>4
  <1>2. /\ O2 \in [addr -> Int] /\ O2[r] = Record
        /\ \A a \in E : a # r => O2[a] = Free
        /\ \A a \in addr : a \notin E => O2[a] = O[a]
    <2>1. O2 = [a \in addr |-> IF a = r THEN Record ELSE IF a \in E THEN Free ELSE O[a]]
      BY DEF E
    <2>2. Record \in Int /\ Free \in Int
      BY DEF Record, Free
    <2> QED  BY <1>0, <1>a, <2>1, <2>2
  <1>3. /\ c \in addr \union {0} /\ c \notin E /\ (c # 0 => O[c] = Record /\ \A b \in addr : next[b] # c)
        /\ \A a \in E : O[a] = NoBlock /\ next[a] = 0
    <2>1. \A a \in E : O[a] = NoBlock /\ a \in addr
      BY <1>0 DEF E
    <2>2. Record # NoBlock
      BY DEF Record, NoBlock
    <2> QED  BY <1>a, <2>1, <2>2 DEF Begins
  <1>4. \A b \in addr : next[b] \notin E
    <2>1. ASSUME NEW b \in addr, next[b] \in E PROVE FALSE
      <3>1. next[b] # 0 /\ O[next[b]] = NoBlock
        BY <1>0, <1>3, <1>a, <2>1
      <3>2. O[b] = NoBlock
        BY <1>a, <3>1
      <3> QED  BY <3>1, <3>2
    <2> QED  BY <2>1
  <1>5. \A a \in addr : O[a] # Free
    <2>1. ToSet(L[0]) = {x \in addr : O[x] = Free}
      BY ListIs
    <2>2. L[0] = <<>> /\ ToSet(<<>>) = {}
      BY DEF Lists, Follows, ToSet
    <2> QED  BY <2>1, <2>2
  <1>6. next2 \in [addr -> addr \union {0}]
    <2>1. \A a \in addr : next2[a] \in addr \union {0}
      BY <1>0, <1>1, <1>3, <1>a
    <2> QED  BY <2>1
  <1>7. Follows(L2, next2, addr)
    <2>1. L \in [addr \union {0} -> Seq(addr)] /\ L[0] = <<>> /\ \A a \in addr : L[a] = <<a>> \o L[next[a]]
      BY Zenon DEF Lists, Follows
    <2>2. L2[r] = <<r>> \o L[c] /\ (\A a \in E : a # r => L2[a] = Down(r + 1, a))
          /\ \A a \in addr \union {0} : a \notin E => L2[a] = L[a]
      <3>1. L2 = [a \in addr \union {0} |-> IF a = r THEN <<r>> \o L[c]
                                            ELSE IF a \in E THEN Down(r + 1, a) ELSE L[a]]
        BY DEF E
      <3> QED  BY <1>0, <3>1
    <2>3. 0 \notin E /\ L2[0] = <<>> /\ L2[c] = L[c]
      BY <1>0, <1>3, <1>a, <2>1, <2>2
    <2>4. \A a \in r + 1 .. last :
              /\ Down(r + 1, a) \in Seq(addr) /\ Len(Down(r + 1, a)) <= last + 1
              /\ Down(r + 1, a) = <<a>> \o (IF a = r + 1 THEN <<>> ELSE Down(r + 1, a - 1))
      <3>1. r + 1 \in Nat /\ r + 1 .. last \subseteq addr
        BY <1>0
      <3> QED  BY <3>1, DownOne
    <2>5. <<r>> \o L[c] \in Seq(addr) /\ Len(<<r>> \o L[c]) = 1 + Len(L[c]) /\ Len(L[c]) \in Nat
      <3> DEFINE u == <<r>>
                 s == L[c]
      <3>1. u \in Seq(addr) /\ Len(u) = 1 /\ s \in Seq(addr)
        BY <1>0, <1>3, <2>1
      <3> HIDE DEF u, s
      <3>2. u \o s \in Seq(addr) /\ Len(u \o s) = Len(u) + Len(s)
        BY <3>1, Joined
      <3>3. u \o s \in Seq(addr) /\ Len(u \o s) = 1 + Len(s) /\ Len(s) \in Nat
        BY <3>1, <3>2
      <3> QED  BY <3>3 DEF u, s
    <2>6. ASSUME NEW a \in addr PROVE L2[a] = <<a>> \o L2[next2[a]]
      <3>1. CASE a = r
        BY <1>1, <2>2, <2>3, <3>1
      <3>2. CASE a = r + 1
        <4>1. L2[a] = <<a>> \o <<>>
          <5>1. r + 1 \in r + 1 .. last /\ r + 1 # r
            BY <1>0
          <5>2. L2[a] = Down(r + 1, a)
            BY <1>0, <2>2, <3>2, <5>1
          <5>3. Down(r + 1, r + 1) = <<r + 1>> \o <<>>
            BY <2>4, <5>1
          <5> QED  BY <3>2, <5>2, <5>3
        <4>2. L2[next2[a]] = <<>>
          BY <1>1, <2>3, <3>2
        <4> QED  BY <4>1, <4>2
      <3>3. CASE a \in E /\ a # r /\ a # r + 1
        <4>1. a \in r + 1 .. last /\ a - 1 \in E /\ a - 1 # r
          BY <1>0, <3>3
        <4>2. L2[a] = Down(r + 1, a) /\ L2[a - 1] = Down(r + 1, a - 1) /\ next2[a] = a - 1
          BY <1>1, <2>2, <3>3, <4>1
        <4>3. Down(r + 1, a) = <<a>> \o Down(r + 1, a - 1)
          BY <2>4, <3>3, <4>1
        <4> QED  BY <4>2, <4>3
      <3>4. CASE a \notin E
        <4>1. next2[a] = next[a] /\ next[a] \notin E /\ next[a] \in addr \union {0}
          BY <1>1, <1>4, <1>a, <3>4
        <4>2. L2[a] = L[a] /\ L2[next[a]] = L[next[a]]
          BY <2>2, <3>4, <4>1
        <4> QED  BY <2>1, <4>1, <4>2
      <3> QED  BY <3>1, <3>2, <3>3, <3>4
    <2>7. L2 \in [addr \union {0} -> Seq(addr)]
      <3>1. \A a \in addr \union {0} : L2[a] \in Seq(addr)
        BY <1>0, <2>1, <2>2, <2>4, <2>5
      <3> QED  BY <3>1
    <2>8. \E longest \in Nat : \A a \in addr : Len(L2[a]) <= longest
      <3>1. PICK longest \in Nat : \A a \in addr : Len(L[a]) <= longest
        BY DEF Lists, Follows
      <3>2. Len(L[c]) <= longest
        <4>1. c = 0 => Len(L[c]) = 0
          BY <2>1
        <4> QED  BY <1>3, <3>1, <4>1
      <3>3. \A a \in addr : Len(L[a]) \in Nat
        BY <2>1
      <3> DEFINE all == longest + last + 1
      <3>4. all \in Nat /\ 1 + Len(L[c]) <= all /\ last + 1 <= all
            /\ \A n \in Nat : n <= longest \/ n <= last + 1 => n <= all
        BY <2>5, <3>2
      <3> HIDE DEF all
      <3>5. ASSUME NEW a \in addr PROVE Len(L2[a]) <= all
        <4>1. CASE a = r
          BY <2>2, <2>5, <3>4, <4>1
        <4>2. CASE a \in E /\ a # r
          <5>1. a \in r + 1 .. last /\ L2[a] = Down(r + 1, a)
            BY <1>0, <2>2, <4>2
          <5>2. Len(L2[a]) <= last + 1 /\ Len(L2[a]) \in Nat
            <6>1. Down(r + 1, a) \in Seq(addr) /\ Len(Down(r + 1, a)) <= last + 1
              BY <2>4, <5>1
            <6> QED  BY <5>1, <6>1
          <5> QED  BY <3>4, <5>2
        <4>3. CASE a \notin E
          BY <2>2, <3>1, <3>3, <3>4, <4>3
        <4> QED  BY <1>0, <4>1, <4>2, <4>3
      <3> QED  BY <3>4, <3>5
    <2> QED  BY <2>3, <2>6, <2>7, <2>8 DEF Follows
  <1>8. Lists(L2, O2, next2, addr)
    <2>0. Free # Record
      BY DEF Free, Record
    <2>1. ASSUME NEW a \in addr, next2[a] # 0 PROVE O2[next2[a]] = O2[a]
      <3>1. CASE a \notin E
        BY <1>1, <1>2, <1>4, <1>a, <2>1, <3>1
      <3>2. CASE a = r
        BY <1>1, <1>2, <1>3, <2>1, <3>2
      <3>3. CASE a \in E /\ a # r
        <4>1. a # r + 1
          BY <1>1, <2>1
        <4> QED  BY <1>0, <1>1, <1>2, <3>3, <4>1
      <3> QED  BY <3>1, <3>2, <3>3
    <2>2. ASSUME NEW a \in addr, NEW b \in addr, next2[a] # 0, next2[a] = next2[b] PROVE a = b
      <3>0. \A p \in addr : p = r \/ p = r + 1 \/ (p \in E /\ p # r /\ p # r + 1) \/ p \notin E
        OBVIOUS
      <3>1. \A p \in E : p # r /\ p # r + 1 => next2[p] = p - 1 /\ p - 1 \in E /\ p - 1 + 1 = p
        BY <1>0, <1>1
      <3>2. a # r + 1 /\ b # r + 1
        BY <1>1, <2>2
      <3>3. CASE a \notin E /\ b \notin E
        BY <1>1, <1>a, <2>2, <3>3
      <3>4. CASE a = r
        <4>1. next2[a] = c /\ c \notin E /\ \A p \in addr : next[p] # c
          BY <1>1, <1>3, <2>2, <3>4
        <4> QED  BY <1>1, <2>2, <3>0, <3>1, <3>2, <3>4, <4>1, SMTT(30)
      <3>5. CASE b = r
        <4>1. next2[b] = c /\ c \notin E /\ \A p \in addr : next[p] # c
          BY <1>1, <1>3, <2>2, <3>5
        <4> QED  BY <1>1, <2>2, <3>0, <3>1, <3>2, <3>5, <4>1, ZenonT(60)
      <3>6. CASE a \in E /\ a # r
        <4>1. next2[a] \in E /\ next2[a] + 1 = a
          BY <3>1, <3>2, <3>6
        <4>2. b \in E
          BY <1>1, <1>4, <2>2, <4>1
        <4>3. b # r => next2[b] + 1 = b
          BY <3>1, <3>2, <4>2
        <4> QED  BY <2>2, <3>5, <4>1, <4>3
      <3>7. CASE b \in E /\ b # r
        <4>1. next2[b] \in E /\ next2[b] + 1 = b
          BY <3>1, <3>2, <3>7
        <4>2. a \in E
          BY <1>1, <1>4, <2>2, <4>1
        <4>3. a # r => next2[a] + 1 = a
          BY <3>1, <3>2, <4>2
        <4> QED  BY <2>2, <3>4, <4>1, <4>3
      <3> QED  BY <3>3, <3>4, <3>5, <3>6, <3>7
    <2> QED  BY <1>2, <1>6, <1>7, <1>a, <2>1, <2>2 DEF Lists
  <1>9. Begins(O2, next2, addr, last, Free)
    <2>1. ASSUME NEW b \in addr, next2[b] = last PROVE FALSE
      BY <1>0, <1>1, <1>3, <1>4, <1>a, <2>1
    <2>2. ASSUME NEW y \in addr, O2[y] = Free, y # last PROVE \E b \in addr : next2[b] = y
      <3>0. Free # Record
        BY DEF Free, Record
      <3>1. y \in E /\ y # r
        BY <1>2, <1>5, <2>2, <3>0
      <3>2. y + 1 \in E /\ next2[y + 1] = y
        BY <1>0, <1>1, <2>2, <3>1
      <3> QED  BY <1>0, <3>2
    <2> QED  BY <1>0, <1>2, <2>1, <2>2 DEF Begins
  <1>10. Begins(O2, next2, addr, r, Record)
    <2>1. ASSUME NEW b \in addr, next2[b] = r PROVE FALSE
      BY <1>0, <1>1, <1>3, <1>4, <1>a, <2>1
    <2>2. ASSUME NEW y \in addr, O2[y] = Record, y # r PROVE \E b \in addr : next2[b] = y
      <3>0. Free # Record
        BY DEF Free, Record
      <3>1. y \notin E /\ O[y] = Record
        BY <1>2, <2>2, <3>0
      <3>2. CASE y = c
        BY <1>0, <1>1, <3>2
      <3>3. CASE y # c
        <4>1. PICK b \in addr : next[b] = y
          BY <3>1, <3>3 DEF Begins
        <4>2. b \notin E
          BY <1>3, <1>a, <4>1
        <4> QED  BY <1>1, <4>1, <4>2
      <3> QED  BY <3>2, <3>3
    <2> QED  BY <1>0, <1>2, <2>1, <2>2 DEF Begins
  <1>11. ASSUME NEW h, NEW m, Plain(m), Begins(O, next, addr, h, m) PROVE Begins(O2, next2, addr, h, m)
    <2>0. m # Free /\ m # Record /\ m # NoBlock
      BY <1>11 DEF Plain
    <2>1. h \in addr \union {0} /\ (h # 0 => O[h] = m /\ \A b \in addr : next[b] # h)
      BY <1>11 DEF Begins
    <2>2. h \notin E
      BY <1>0, <1>3, <1>a, <2>0, <2>1
    <2>3. h # 0 => h # c
      BY <1>3, <2>0, <2>1
    <2>4. ASSUME h # 0, NEW b \in addr, next2[b] = h PROVE FALSE
      BY <1>0, <1>1, <2>1, <2>2, <2>3, <2>4
    <2>5. ASSUME NEW y \in addr, O2[y] = m, y # h PROVE \E b \in addr : next2[b] = y
      <3>1. y \notin E /\ O[y] = m
        BY <1>2, <2>0, <2>5
      <3>2. PICK b \in addr : next[b] = y
        BY <1>11, <2>5, <3>1 DEF Begins
      <3>3. b \notin E
        BY <1>3, <1>a, <3>2
      <3> QED  BY <1>1, <3>2, <3>3
    <2>6. h # 0 => O2[h] = m
      BY <1>2, <2>1, <2>2
    <2> QED  BY <2>1, <2>4, <2>5, <2>6 DEF Begins
  <1> QED  BY <1>8, <1>9, <1>10, <1>11 DEF next2, O2, L2, NextBlock

Covered(per, taken) == UNION {b * per + 1 .. (b + 1) * per : b \in taken}

\* Blocks do not overlap.
Separate(per, taken) == Cardinality(Covered(per, taken)) = per * Cardinality(taken)

\* What holds of a pool: L and O are its lists, every entry of a block is in one.
Pool(pool, L, O, addr, per, most) ==
    /\ pool \in PoolType(addr) /\ pool.blocks \subseteq 0 .. most - 1
    /\ Lists(L, O, pool.next, addr)
    /\ Begins(O, pool.next, addr, pool.free, Free)
    /\ Begins(O, pool.next, addr, pool.alloced, Record)
    /\ \A a \in addr : O[a] = NoBlock <=> a \notin Covered(per, pool.blocks)
    /\ \A a \in addr : O[a] = NoBlock => pool.next[a] = 0
    /\ \A a \in addr : O[a] = Record <=> \E b \in pool.blocks : a = b * per + 1
    /\ Separate(per, pool.blocks)

\* Entries in lists of the tree stay as they are.
Stays(pool, L, O, pool2, L2, O2, addr) ==
    /\ \A a \in addr : Plain(O[a]) \/ Plain(O2[a]) =>
           O2[a] = O[a] /\ L2[a] = L[a] /\ pool2.next[a] = pool.next[a]
    /\ \A h, m : Plain(m) /\ Begins(O, pool.next, addr, h, m) => Begins(O2, pool2.next, addr, h, m)

LEMMA Times ==
    ASSUME NEW m \in Nat, NEW n \in Nat, NEW p \in Nat, m < n
    PROVE  (m + 1) * p <= n * p
  <1>1. PICK k \in Nat : n = m + 1 + k
    <2>1. n - m - 1 \in Nat /\ n = m + 1 + (n - m - 1)
      OBVIOUS
    <2> QED  BY <2>1
  <1>2. n * p = (m + 1) * p + k * p
    BY <1>1
  <1>3. k * p \in Nat /\ (m + 1) * p \in Nat
    OBVIOUS
  <1> QED  BY <1>2, <1>3

\* The block that is added is one of those that may be, and not there yet.
LEMMA NewBlock ==
    ASSUME NEW taken, NEW most \in Nat, NEW S, S = (0 .. most - 1) \ taken, S # {}
    PROVE  Min(S) \in Nat /\ Min(S) < most /\ Min(S) \notin taken
  <1>1. S \in SUBSET Nat
    OBVIOUS
  <1>2. PICK m \in S : \A k \in S : m <= k
    BY <1>1, LeastNat
  <1>3. Min(S) \in S
    BY <1>2 DEF Min
  <1> QED  BY <1>3

LEMMA BlockFits ==
    ASSUME NEW per \in Nat \ {0, 1}, NEW most \in Nat, NEW b \in Nat, b < most
    PROVE  /\ b * per + 1 \in Nat /\ b * per + 1 + per - 1 = (b + 1) * per /\ (b + 1) * per \in Nat
           /\ b * per + 1 < (b + 1) * per
           /\ b * per + 1 .. (b + 1) * per \subseteq 1 .. per * most
           /\ \A c \in Nat : c # b =>
                  (b * per + 1 .. (b + 1) * per) \cap (c * per + 1 .. (c + 1) * per) = {}
  <1>1. b * per \in Nat /\ (b + 1) * per = b * per + per
    OBVIOUS
  <1>2. (b + 1) * per <= most * per /\ most * per = per * most
    BY Times
  <1>3. ASSUME NEW c \in Nat, c # b
        PROVE  (b * per + 1 .. (b + 1) * per) \cap (c * per + 1 .. (c + 1) * per) = {}
    <2>1. c * per \in Nat /\ (c + 1) * per = c * per + per
      OBVIOUS
    <2>2. c < b \/ b < c
      BY <1>3
    <2>3. (c + 1) * per <= b * per \/ (b + 1) * per <= c * per
      BY <2>2, Times
    <2> DEFINE x == b * per
               y == c * per
               p == (b + 1) * per
               q == (c + 1) * per
    <2>4. x \in Nat /\ y \in Nat /\ p = x + per /\ q = y + per /\ (q <= x \/ p <= y)
      BY <1>1, <2>1, <2>3
    <2> HIDE DEF x, y, p, q
    <2>5. (x + 1 .. p) \cap (y + 1 .. q) = {}
      BY <2>4
    <2> QED  BY <2>5 DEF x, y, p, q
  <1> DEFINE x == b * per
             p == (b + 1) * per
             t == per * most
  <1>4. x \in Nat /\ p = x + per /\ p <= t /\ t \in Nat
    BY <1>1, <1>2
  <1> HIDE DEF x, p, t
  <1>5. x + 1 \in Nat /\ x + 1 + per - 1 = p /\ p \in Nat /\ x + 1 < p /\ x + 1 .. p \subseteq 1 .. t
    BY <1>4
  <1> QED  BY <1>3, <1>5 DEF x, p, t

LEMMA MoreEntries ==
    ASSUME NEW per \in Nat \ {0, 1}, NEW most \in Nat, NEW taken, taken \subseteq 0 .. most - 1,
           NEW b \in Nat, b < most, b \notin taken, Separate(per, taken)
    PROVE  /\ \A a : a \in Covered(per, taken \union {b})
                      <=> a \in Covered(per, taken) \/ a \in b * per + 1 .. (b + 1) * per
           /\ \A a \in b * per + 1 .. (b + 1) * per : a \notin Covered(per, taken)
           /\ Covered(per, taken) \subseteq 1 .. per * most
           /\ Separate(per, taken \union {b})
  <1> DEFINE new == b * per + 1 .. (b + 1) * per
             old == Covered(per, taken)
  <1>1. Covered(per, taken \union {b}) = old \union new
    BY DEF Covered
  <1>2. old \cap new = {}
    <2>1. \A c \in taken : new \cap (c * per + 1 .. (c + 1) * per) = {}
      <3>1. \A c \in taken : c \in Nat /\ c # b
        OBVIOUS
      <3> QED  BY <3>1, BlockFits
    <2> HIDE DEF new
    <2> QED  BY <2>1 DEF Covered
  <1>3. old \subseteq 1 .. per * most
    <2>1. \A c \in taken : c \in Nat /\ c < most
      OBVIOUS
    <2>2. \A c \in taken : c * per + 1 .. (c + 1) * per \subseteq 1 .. per * most
      BY <2>1, BlockFits
    <2> QED  BY <2>2 DEF Covered
  <1>4. IsFiniteSet(old) /\ IsFiniteSet(new) /\ IsFiniteSet(taken)
    <2>1. per * most \in Nat
      OBVIOUS
    <2>2. \A m, n \in Int : IsFiniteSet(m .. n)
      BY FS_Interval
    <2>3. b * per + 1 \in Int /\ (b + 1) * per \in Int /\ most - 1 \in Int
      OBVIOUS
    <2>4. IsFiniteSet(1 .. per * most) /\ IsFiniteSet(new) /\ IsFiniteSet(0 .. most - 1)
      BY <2>1, <2>2, <2>3
    <2> QED  BY <1>3, <2>4, FS_Subset
  <1>5. Cardinality(new) = per
    <2> DEFINE x == b * per + 1
               y == (b + 1) * per
    <2>1. x \in Int /\ y \in Int /\ x <= y /\ y - x + 1 = per
      OBVIOUS
    <2> HIDE DEF x, y
    <2>2. Cardinality(x .. y) = per
      BY <2>1, FS_Interval
    <2> QED  BY <2>2 DEF x, y
  <1>6. Cardinality(old \union new) = Cardinality(old) + Cardinality(new)
    <2> HIDE DEF old, new
    <2>1. Cardinality(old \union new) = Cardinality(old) + Cardinality(new) - Cardinality(old \cap new)
      BY <1>4, FS_Union
    <2>2. Cardinality(old \cap new) = 0
      BY <1>2, FS_EmptySet
    <2>3. Cardinality(old) \in Nat /\ Cardinality(new) \in Nat
      BY <1>4, FS_CardinalityType
    <2> QED  BY <2>1, <2>2, <2>3
  <1>7. Cardinality(taken \union {b}) = Cardinality(taken) + 1 /\ Cardinality(taken) \in Nat
    BY <1>4, FS_AddElement, FS_CardinalityType
  <1>8. per * (Cardinality(taken) + 1) = per * Cardinality(taken) + per
    BY <1>7
  <1> QED  BY <1>1, <1>2, <1>3, <1>5, <1>6, <1>7, <1>8 DEF Separate

LEMMA Readied ==
    ASSUME NEW per \in Nat \ {0, 1}, NEW most \in Nat, NEW addr, addr = 1 .. per * most,
           NEW pool, NEW L, NEW O, Pool(pool, L, O, addr, per, most),
           NEW pool2 \in Ready(pool, per, most)
    PROVE  /\ pool2.free # 0
           /\ \E L2, O2 : Pool(pool2, L2, O2, addr, per, most) /\ Stays(pool, L, O, pool2, L2, O2, addr)
  <1>a. /\ pool.blocks \in SUBSET Nat /\ pool.free \in addr \union {0}
        /\ pool.alloced \in addr \union {0} /\ pool.next \in [addr -> addr \union {0}]
        /\ pool.blocks \subseteq 0 .. most - 1
    BY DEF Pool, PoolType
  <1>1. CASE pool.free # 0
    <2>1. pool2 = pool
      BY <1>1 DEF Ready
    <2>2. Stays(pool, L, O, pool, L, O, addr)
      BY DEF Stays
    <2> QED  BY <1>1, <2>1, <2>2
  <1>2. CASE pool.free = 0
    <2> DEFINE unused == (0 .. most - 1) \ pool.blocks
               b == Min(unused)
               r == b * per + 1
               last == (b + 1) * per
               next2 == BlockNext(pool.next, addr, pool.alloced, r, last)
               O2 == BlockOwned(O, addr, r, last)
               L2 == BlockList(L, addr, pool.alloced, r, last)
    <2>1. unused # {} /\ pool2 = Grow(pool, per, b)
      BY <1>2 DEF Ready
    <2>2. b \in Nat /\ b < most /\ b \notin pool.blocks
      <3> HIDE DEF unused
      <3>1. unused = (0 .. most - 1) \ pool.blocks
        BY DEF unused
      <3> QED  BY <2>1, <3>1, NewBlock
    <2> HIDE DEF b
    <2>3. /\ r \in Nat /\ last \in Nat /\ r < last /\ r + per - 1 = last
          /\ r .. last \subseteq addr
      BY <2>2, BlockFits
    <2>4. pool2 = [blocks |-> pool.blocks \union {b}, free |-> last, alloced |-> r, next |-> next2]
      <3>1. DOMAIN pool.next = addr
        BY <1>a
      <3> QED  BY <2>1, <2>3, <3>1 DEF Grow, BlockNext
    <2>5. /\ \A a : a \in Covered(per, pool2.blocks) <=> a \in Covered(per, pool.blocks) \/ a \in r .. last
          /\ \A a \in r .. last : a \notin Covered(per, pool.blocks)
          /\ Separate(per, pool2.blocks)
      <3>1. Separate(per, pool.blocks)
        BY DEF Pool
      <3>2. pool2.blocks = pool.blocks \union {b}
        BY <2>4
      <3> DEFINE T == pool.blocks
      <3>3. T \subseteq 0 .. most - 1 /\ b \notin T /\ Separate(per, T)
        BY <1>a, <2>2, <3>1
      <3> HIDE DEF T
      <3>4. /\ \A a : a \in Covered(per, T \union {b})
                      <=> a \in Covered(per, T) \/ a \in b * per + 1 .. (b + 1) * per
            /\ \A a \in b * per + 1 .. (b + 1) * per : a \notin Covered(per, T)
            /\ Separate(per, T \union {b})
        BY <2>2, <3>3, MoreEntries
      <3> QED  BY <3>2, <3>4 DEF T
    <2>6. \A a \in r .. last : O[a] = NoBlock
      BY <2>3, <2>5 DEF Pool
    <2> HIDE DEF r, last, next2, O2, L2
    <2>7. /\ Lists(L2, O2, next2, addr)
          /\ Begins(O2, next2, addr, last, Free) /\ Begins(O2, next2, addr, r, Record)
          /\ \A h, m : Plain(m) /\ Begins(O, pool.next, addr, h, m) => Begins(O2, next2, addr, h, m)
      <3>1. Lists(L, O, pool.next, addr) /\ Begins(O, pool.next, addr, pool.alloced, Record)
            /\ Begins(O, pool.next, addr, 0, Free) /\ \A a \in addr : O[a] = NoBlock => pool.next[a] = 0
        BY <1>2 DEF Pool
      <3>2. NextBlock(O, pool.next, L2, O2, next2, addr, r, last)
        BY <2>3, <2>6, <3>1, Grown DEF next2, O2, L2
      <3> QED  BY <3>2 DEF NextBlock
    <2>8. /\ \A a \in addr : a \in r .. last => O2[a] = IF a = r THEN Record ELSE Free
          /\ \A a \in addr : a \notin r .. last =>
                 O2[a] = O[a] /\ L2[a] = L[a] /\ next2[a] = pool.next[a]
      <3>1. r \in r .. last /\ r + 1 \in r .. last /\ \A a \in r + 2 .. last : a \in r .. last
        BY <2>3
      <3> QED  BY <3>1 DEF O2, L2, next2, BlockNext, BlockOwned, BlockList
    <2>9. Pool(pool2, L2, O2, addr, per, most)
      <3>1. pool2 \in PoolType(addr) /\ pool2.blocks \subseteq 0 .. most - 1
        <4>1. last \in addr /\ r \in addr /\ next2 \in [addr -> addr \union {0}]
          <5>1. next2 \in [addr -> addr \union {0}]
            BY <2>7, Zenon DEF Lists
          <5>2. last \in addr /\ r \in addr
            BY <2>3
          <5> QED  BY <5>1, <5>2
        <4>2. pool.blocks \union {b} \in SUBSET Nat /\ pool.blocks \union {b} \subseteq 0 .. most - 1
          BY <1>a, <2>2
        <4> QED  BY <2>4, <4>1, <4>2 DEF PoolType
      <3>2. \A a \in addr : O2[a] = NoBlock <=> a \notin Covered(per, pool2.blocks)
        <4>1. \A a \in addr : O[a] = NoBlock <=> a \notin Covered(per, pool.blocks)
          BY DEF Pool
        <4> QED  BY <2>5, <2>8, <4>1 DEF Record, Free, NoBlock
      <3>3. \A a \in addr : O2[a] = NoBlock => next2[a] = 0
        <4>1. \A a \in addr : O[a] = NoBlock => pool.next[a] = 0
          BY DEF Pool
        <4> QED  BY <2>8, <4>1 DEF Record, Free, NoBlock
      <3>4. ASSUME NEW a \in addr
            PROVE  O2[a] = Record <=> \E k \in pool2.blocks : a = k * per + 1
        <4>1. O[a] = Record <=> \E k \in pool.blocks : a = k * per + 1
          BY DEF Pool
        <4>2. pool2.blocks = pool.blocks \union {b}
          BY <2>4
        <4>3. CASE a \notin r .. last
          <5>1. a # r
            BY <2>3, <4>3
          <5> QED  BY <2>8, <4>1, <4>2, <4>3, <5>1 DEF r
        <4>4. CASE a = r
          BY <2>3, <2>8, <4>2, <4>4 DEF r
        <4>5. CASE a \in r .. last /\ a # r
          <5>1. O2[a] # Record
            BY <2>8, <4>5 DEF Record, Free
          <5>2. O[a] # Record
            BY <2>6, <4>5 DEF Record, NoBlock
          <5> QED  BY <4>1, <4>2, <4>5, <5>1, <5>2 DEF r
        <4> QED  BY <4>3, <4>4, <4>5
      <3> QED  BY <2>4, <2>5, <2>7, <3>1, <3>2, <3>3, <3>4 DEF Pool
    <2>10. Stays(pool, L, O, pool2, L2, O2, addr)
      <3>1. ASSUME NEW a \in addr, Plain(O[a]) \/ Plain(O2[a])
            PROVE  O2[a] = O[a] /\ L2[a] = L[a] /\ next2[a] = pool.next[a]
        <4>1. a \notin r .. last
          BY <2>6, <2>8, <3>1 DEF Plain
        <4> QED  BY <2>8, <4>1
      <3> QED  BY <2>4, <2>7, <3>1 DEF Stays
    <2>11. pool2.free # 0
      BY <2>3, <2>4
    <2> QED  BY <2>9, <2>10, <2>11
  <1> QED  BY <1>1, <1>2, <1>a

\* The first free entry goes to list l, the other lists stay.
Goes(pool, O, pool2, O2, addr, l) ==
    /\ pool.free \in addr /\ ~ Plain(O[pool.free]) /\ O2[pool.free] = l
    /\ \A a \in addr : a # pool.free => O2[a] = O[a]
    /\ \A h, m : m # l /\ Plain(m) /\ Begins(O, pool.next, addr, h, m) => Begins(O2, pool2.next, addr, h, m)

LEMMA TakenIs ==
    ASSUME NEW addr, NEW pool \in PoolType(addr), NEW next \in [addr -> addr \union {0}],
           pool.free \in addr
    PROVE  /\ Taken(pool, next) \in PoolType(addr)
           /\ Taken(pool, next).next = next /\ Taken(pool, next).free = pool.next[pool.free]
           /\ Taken(pool, next).blocks = pool.blocks /\ Taken(pool, next).alloced = pool.alloced
  BY DEF Taken, PoolType

LEMMA Fetched ==
    ASSUME NEW per, NEW most, NEW addr, NEW pool, NEW L, NEW O, Pool(pool, L, O, addr, per, most),
           pool.free # 0, NEW l \in Int, Plain(l),
           NEW next2, NEW L2, NEW O2, O2 = Owned(O, pool.free, l),
           Lists(L2, O2, next2, addr), Others(O, pool.next, O2, next2, addr, pool.free, Free, l),
           \A a \in addr : O[a] = NoBlock => next2[a] = 0
    PROVE  /\ Pool(Taken(pool, next2), L2, O2, addr, per, most)
           /\ Goes(pool, O, Taken(pool, next2), O2, addr, l)
  <1> DEFINE x == pool.free
             pool2 == Taken(pool, next2)
  <1>1. /\ pool \in PoolType(addr) /\ pool.blocks \subseteq 0 .. most - 1
        /\ Lists(L, O, pool.next, addr)
        /\ Begins(O, pool.next, addr, x, Free)
        /\ Begins(O, pool.next, addr, pool.alloced, Record)
        /\ \A a \in addr : O[a] = NoBlock <=> a \notin Covered(per, pool.blocks)
        /\ \A a \in addr : O[a] = Record <=> \E b \in pool.blocks : a = b * per + 1
        /\ Separate(per, pool.blocks)
    BY DEF Pool
  <1>2. x \in addr /\ O[x] = Free
    BY <1>1 DEF Begins
  <1>3. /\ pool2 \in PoolType(addr) /\ pool2.next = next2 /\ pool2.free = pool.next[x]
        /\ pool2.blocks = pool.blocks /\ pool2.alloced = pool.alloced
    <2>1. next2 \in [addr -> addr \union {0}]
      BY DEF Lists
    <2> QED  BY <1>1, <1>2, <2>1, TakenIs
  <1>4. O2[x] = l /\ \A a \in addr : a # x => O2[a] = O[a]
    <2>1. O \in [addr -> Int]
      BY <1>1 DEF Lists
    <2> QED  BY <1>2, <2>1 DEF Owned
  <1> HIDE DEF x, pool2
  <1>5. l # Free /\ l # Record /\ l # NoBlock /\ Free # Record /\ Free # NoBlock
    BY DEF Plain, Free, Record, NoBlock
  <1>6. Begins(O2, next2, addr, pool2.free, Free)
    <2>1. Begins(O, pool.next, addr, x, Free) => Begins(O2, next2, addr, pool.next[x], Free)
      BY DEF Others, x
    <2> QED  BY <1>1, <1>3, <2>1
  <1>7. \A h, m : m # Free /\ m # l /\ Begins(O, pool.next, addr, h, m) => Begins(O2, next2, addr, h, m)
    BY DEF Others
  <1>8. Begins(O2, next2, addr, pool2.alloced, Record)
    BY <1>1, <1>3, <1>5, <1>7
  <1>9. /\ \A a \in addr : O2[a] = NoBlock <=> a \notin Covered(per, pool.blocks)
        /\ \A a \in addr : O2[a] = NoBlock => next2[a] = 0
        /\ \A a \in addr : O2[a] = Record <=> \E b \in pool.blocks : a = b * per + 1
    BY <1>1, <1>2, <1>4, <1>5
  <1>10. Pool(pool2, L2, O2, addr, per, most)
    BY <1>1, <1>3, <1>6, <1>8, <1>9 DEF Pool
  <1>11. Goes(pool, O, pool2, O2, addr, l)
    <2>1. \A h, m : m # l /\ Plain(m) /\ Begins(O, pool.next, addr, h, m) => Begins(O2, next2, addr, h, m)
      BY <1>7 DEF Plain
    <2>2. ~ Plain(O[x])
      BY <1>2 DEF Plain
    <2> QED  BY <1>2, <1>3, <1>4, <2>1, <2>2 DEF Goes, x
  <1> QED  BY <1>10, <1>11 DEF pool2

LEMMA PoolPushed ==
    ASSUME NEW per, NEW most, NEW addr, NEW pool, NEW L, NEW O, Pool(pool, L, O, addr, per, most),
           pool.free # 0, NEW l \in Int, Plain(l),
           NEW h, Begins(O, pool.next, addr, h, l)
    PROVE  LET next2 == PushNext(pool.next, pool.free, h)
               pool2 == Taken(pool, next2)
               L2    == PushList(L, pool.free, h)
               O2    == Owned(O, pool.free, l)
           IN  /\ Pool(pool2, L2, O2, addr, per, most) /\ Goes(pool, O, pool2, O2, addr, l)
               /\ Begins(O2, pool2.next, addr, pool.free, l)
  <1> DEFINE x == pool.free
             next == pool.next
             next2 == PushNext(pool.next, pool.free, h)
             L2    == PushList(L, pool.free, h)
             O2    == Owned(O, pool.free, l)
  <1>1. Lists(L, O, next, addr) /\ Begins(O, next, addr, x, Free) /\ pool \in PoolType(addr)
    BY DEF Pool
  <1>2. x \in addr /\ l # Free /\ O[x] = Free
    BY <1>1 DEF Begins, Plain
  <1>3. Lists(L2, O2, next2, addr) /\ Begins(O2, next2, addr, x, l)
        /\ Others(O, next, O2, next2, addr, x, Free, l)
    BY <1>1, <1>2, PushedList
  <1>4. \A a \in addr : O[a] = NoBlock => next2[a] = 0
    <2>1. \A a \in addr : O[a] = NoBlock => next[a] = 0 /\ a # x
      BY <1>2 DEF Pool, Free, NoBlock
    <2>2. \A a \in addr : a # x => next2[a] = next[a]
      BY <1>1 DEF PushNext, Lists
    <2> QED  BY <2>1, <2>2
  <1> HIDE DEF next2, L2, O2, x, next
  <1>5. Pool(Taken(pool, next2), L2, O2, addr, per, most) /\ Goes(pool, O, Taken(pool, next2), O2, addr, l)
    BY <1>3, <1>4, Fetched DEF O2, x, next
  <1>6. Taken(pool, next2).next = next2
    <2>1. next2 \in [addr -> addr \union {0}]
      BY <1>3 DEF Lists
    <2> QED  BY <1>1, <1>2, <2>1, TakenIs DEF x
  <1>7. Begins(O2, Taken(pool, next2).next, addr, x, l)
    BY <1>3, <1>6
  <1> QED  BY <1>5, <1>7 DEF next2, L2, O2, x

LEMMA PoolAppended ==
    ASSUME NEW per, NEW most, NEW addr, NEW pool, NEW L, NEW O, Pool(pool, L, O, addr, per, most),
           pool.free # 0, NEW l \in Int, Plain(l),
           NEW h, Begins(O, pool.next, addr, h, l), h # 0,
           NEW t \in addr, O[t] = l, pool.next[t] = 0
    PROVE  LET next2 == AppendNext(pool.next, t, pool.free)
               pool2 == Taken(pool, next2)
               L2    == AppendList(L, addr, t, pool.free)
               O2    == Owned(O, pool.free, l)
           IN  /\ Pool(pool2, L2, O2, addr, per, most) /\ Goes(pool, O, pool2, O2, addr, l)
               /\ Begins(O2, pool2.next, addr, h, l)
  <1> DEFINE x == pool.free
             next == pool.next
             next2 == AppendNext(pool.next, t, pool.free)
             L2    == AppendList(L, addr, t, pool.free)
             O2    == Owned(O, pool.free, l)
  <1>1. Lists(L, O, next, addr) /\ Begins(O, next, addr, x, Free) /\ pool \in PoolType(addr)
    BY DEF Pool
  <1>2. x \in addr /\ l # Free /\ O[x] = Free
    BY <1>1 DEF Begins, Plain
  <1>3. Lists(L2, O2, next2, addr) /\ Begins(O2, next2, addr, h, l)
        /\ Others(O, next, O2, next2, addr, x, Free, l)
    BY <1>1, <1>2, Appended
  <1>4. \A a \in addr : O[a] = NoBlock => next2[a] = 0
    <2>1. \A a \in addr : O[a] = NoBlock => next[a] = 0 /\ a # x /\ a # t
      BY <1>2 DEF Pool, Free, NoBlock, Plain
    <2>2. \A a \in addr : a # x /\ a # t => next2[a] = next[a]
      BY <1>1 DEF AppendNext, Lists
    <2> QED  BY <2>1, <2>2
  <1> HIDE DEF next2, L2, O2, x, next
  <1>5. Pool(Taken(pool, next2), L2, O2, addr, per, most) /\ Goes(pool, O, Taken(pool, next2), O2, addr, l)
    BY <1>3, <1>4, Fetched DEF O2, x, next
  <1>6. Taken(pool, next2).next = next2
    <2>1. next2 \in [addr -> addr \union {0}]
      BY <1>3 DEF Lists
    <2> QED  BY <1>1, <1>2, <2>1, TakenIs DEF x
  <1>7. Begins(O2, Taken(pool, next2).next, addr, h, l)
    BY <1>3, <1>6
  <1> QED  BY <1>5, <1>7 DEF next2, L2, O2, x

\* The label of the list that has only the root.
Top == -2

\* L and O are the lists of the pool of nodes: list n has the children of n.
NodesFit(L, O) ==
    /\ Pool(nodes, L, O, NodeAddr, NodesPerBlock, MaxNodeBlocks)
    /\ children \in [NodeAddr -> NodeAddr \union {0}]
    /\ \A n \in NodeAddr : Begins(O, nodes.next, NodeAddr, children[n], n)
    /\ Begins(O, nodes.next, NodeAddr, root, Top)
    /\ root # 0 => nodes.next[root] = 0
    /\ \A n \in NodeAddr : Plain(O[n]) => O[n] \in NodeAddr \union {Top}
    /\ \A n \in NodeAddr : ~ Plain(O[n]) => children[n] = 0

LEMMA BlocksLaid ==
    /\ NodesPerBlock \in Nat \ {0, 1} /\ PropsPerBlock \in Nat \ {0, 1}
    /\ MaxNodeBlocks \in Nat /\ MaxPropBlocks \in Nat
    /\ NodeAddr = 1 .. NodesPerBlock * MaxNodeBlocks /\ PropAddr = 1 .. PropsPerBlock * MaxPropBlocks
    /\ 0 \notin NodeAddr /\ NodeAddr \subseteq Nat /\ 0 \notin PropAddr
    /\ \A n \in NodeAddr : Plain(n) /\ n # Top /\ n \in Int
    /\ Plain(Top) /\ Top \in Int
  BY BlockAssumption DEF NodeAddr, PropAddr, Plain, Top, Free, Record, NoBlock

LEMMA KidsAre ==
    ASSUME NEW L, NEW O, NodesFit(L, O), NEW n \in NodeAddr
    PROVE  /\ Kids(n) = L[children[n]] /\ Kids(n) \in Seq(NodeAddr)
           /\ \A x : x \in ToSet(Kids(n)) <=> x \in NodeAddr /\ O[x] = n
  <1>1. Lists(L, O, nodes.next, NodeAddr) /\ children[n] \in NodeAddr \union {0}
        /\ Begins(O, nodes.next, NodeAddr, children[n], n)
    BY DEF NodesFit, Pool
  <1>2. Kids(n) = L[children[n]]
    BY <1>1, ChainIs DEF Kids
  <1>3. L[children[n]] \in Seq(NodeAddr) /\ ToSet(L[children[n]]) = {x \in NodeAddr : O[x] = n}
    BY <1>1, ListIs
  <1> QED  BY <1>2, <1>3

\* What LinkChild does to the lists.
ChildIn(O, O2, parent, node) ==
    /\ node \in NodeAddr /\ ~ Plain(O[node]) /\ O2[node] = IF parent = 0 THEN Top ELSE parent
    /\ \A a \in NodeAddr : a # node /\ (Plain(O[a]) \/ Plain(O2[a])) => O2[a] = O[a]
    /\ root' = IF parent = 0 THEN node ELSE root
    /\ parent # 0 => children'[parent] = node
    /\ \A n \in NodeAddr : Kids(n)' = IF n = parent THEN <<node>> \o Kids(n) ELSE Kids(n)

LEMMA ChildLinked ==
    ASSUME NEW L, NEW O, NodesFit(L, O), NEW parent \in NodeAddr \union {0},
           IF parent = 0 THEN root = 0 ELSE Plain(O[parent]),
           NEW name, LinkChild(parent, name)
    PROVE  \E L2, O2, node : NodesFit(L2, O2)' /\ ChildIn(O, O2, parent, node)
  <1> DEFINE addr == NodeAddr
             h == Sibling(parent)
             l == IF parent = 0 THEN Top ELSE parent
  <1>1. PICK pool \in Ready(nodes, NodesPerBlock, MaxNodeBlocks) :
            /\ nodes' = Taken(pool, PushNext(pool.next, pool.free, h))
            /\ IF parent = 0 THEN root' = pool.free /\ children' = children
                             ELSE children' = [children EXCEPT ![parent] = pool.free] /\ root' = root
    BY DEF LinkChild, PushNext
  <1> DEFINE x == pool.free
  <1>a. /\ Pool(nodes, L, O, addr, NodesPerBlock, MaxNodeBlocks)
        /\ children \in [addr -> addr \union {0}]
        /\ \A n \in addr : Begins(O, nodes.next, addr, children[n], n)
        /\ Begins(O, nodes.next, addr, root, Top)
        /\ root # 0 => nodes.next[root] = 0
        /\ \A n \in addr : Plain(O[n]) => O[n] \in addr \union {Top}
        /\ \A n \in addr : ~ Plain(O[n]) => children[n] = 0
    BY DEF NodesFit
  <1>2. pool.free # 0 /\ \E D1, O1 : Pool(pool, D1, O1, addr, NodesPerBlock, MaxNodeBlocks)
                                     /\ Stays(nodes, L, O, pool, D1, O1, addr)
    BY <1>1, <1>a, BlocksLaid, Readied
  <1>3. PICK D1, O1 : Pool(pool, D1, O1, addr, NodesPerBlock, MaxNodeBlocks)
                      /\ Stays(nodes, L, O, pool, D1, O1, addr)
    BY <1>2
  <1>b. /\ \A a \in addr : Plain(O[a]) \/ Plain(O1[a]) =>
               O1[a] = O[a] /\ D1[a] = L[a] /\ pool.next[a] = nodes.next[a]
        /\ \A g, m : Plain(m) /\ Begins(O, nodes.next, addr, g, m) => Begins(O1, pool.next, addr, g, m)
    BY <1>3 DEF Stays
  <1>4. l \in Int /\ Plain(l) /\ Begins(O1, pool.next, addr, h, l)
    <2>1. l \in Int /\ Plain(l)
      BY BlocksLaid
    <2>2. Begins(O, nodes.next, addr, h, l)
      BY <1>a DEF Sibling
    <2> QED  BY <1>b, <2>1, <2>2
  <1> HIDE DEF l, h
  <1> DEFINE next2 == PushNext(pool.next, x, h)
             L2 == PushList(D1, x, h)
             O2 == Owned(O1, x, l)
  <1>5. /\ Pool(nodes', L2, O2, addr, NodesPerBlock, MaxNodeBlocks)
        /\ Goes(pool, O1, nodes', O2, addr, l)
        /\ Begins(O2, nodes'.next, addr, x, l)
    BY <1>1, <1>2, <1>3, <1>4, PoolPushed
  <1>6. /\ x \in addr /\ ~ Plain(O1[x]) /\ O2[x] = l /\ \A a \in addr : a # x => O2[a] = O1[a]
        /\ \A g, m : m # l /\ Plain(m) /\ Begins(O1, pool.next, addr, g, m) => Begins(O2, nodes'.next, addr, g, m)
    BY <1>5 DEF Goes
  <1>7. /\ nodes'.next[x] = h /\ \A a \in addr : a # x => nodes'.next[a] = pool.next[a] /\ L2[a] = D1[a]
        /\ L2[x] = <<x>> \o D1[h] /\ L2[0] = <<>> /\ D1[0] = <<>> /\ L[0] = <<>>
    <2>1. Lists(D1, O1, pool.next, addr) /\ pool \in PoolType(addr) /\ Lists(L2, O2, nodes'.next, addr)
          /\ Lists(L, O, nodes.next, addr)
      BY <1>3, <1>5, <1>a DEF Pool
    <2>2. pool.next \in [addr -> addr \union {0}] /\ D1 \in [addr \union {0} -> Seq(addr)]
      BY <2>1 DEF Lists, Follows
    <2>3. D1[0] = <<>> /\ L2[0] = <<>> /\ L[0] = <<>>
      BY <2>1 DEF Lists, Follows
    <2>4. next2 \in [addr -> addr \union {0}] /\ next2[x] = h /\ \A a \in addr : a # x => next2[a] = pool.next[a]
      <3>1. h \in addr \union {0}
        BY <1>4 DEF Begins
      <3> QED  BY <1>6, <2>2, <3>1 DEF PushNext
    <2>5. nodes'.next = next2
      <3> HIDE DEF next2
      <3>1. nodes' = Taken(pool, next2)
        BY <1>1 DEF next2
      <3> QED  BY <1>6, <2>1, <2>4, <3>1, TakenIs
    <2>6. L2[x] = <<x>> \o D1[h] /\ \A a \in addr : a # x => L2[a] = D1[a]
      BY <1>6, <2>2 DEF PushList
    <2> HIDE DEF next2, L2, O2
    <2> QED  BY <2>3, <2>4, <2>5, <2>6
  <1>8. ~ Plain(O[x]) /\ parent # x
    BY <1>6, <1>b, BlocksLaid
  <1> HIDE DEF next2, L2, O2, x
  <1>9. \A n \in addr : children'[n] = IF n = parent THEN x ELSE children[n]
    BY <1>1, <1>a, BlocksLaid DEF x
  <1>10. children' \in [addr -> addr \union {0}]
    BY <1>1, <1>6, <1>a, BlocksLaid DEF x
  <1>c. parent # 0 => l = parent /\ h = children[parent] /\ parent \in addr
    BY DEF l, h, Sibling
  <1>d. parent = 0 => l = Top /\ h = 0 /\ root = 0
    BY DEF l, h, Sibling
  <1>e. root' = IF parent = 0 THEN x ELSE root
    BY <1>1 DEF x
  <1>11. ASSUME NEW n \in addr PROVE Begins(O2, nodes'.next, addr, children'[n], n)
    <2>1. CASE n = parent
      BY <1>5, <1>9, <1>c, <2>1, BlocksLaid
    <2>2. CASE n # parent
      <3>1. n # l /\ Plain(n)
        BY <1>c, <1>d, <2>2, BlocksLaid
      <3>2. Begins(O1, pool.next, addr, children[n], n)
        BY <1>a, <1>b, <3>1
      <3> QED  BY <1>6, <1>9, <2>2, <3>1, <3>2
    <2> QED  BY <2>1, <2>2
  <1>12. Begins(O2, nodes'.next, addr, root', Top) /\ (root' # 0 => nodes'.next[root'] = 0)
    <2>1. CASE parent = 0
      BY <1>5, <1>7, <1>d, <1>e, <2>1
    <2>2. CASE parent # 0
      <3>1. Begins(O1, pool.next, addr, root, Top) /\ Top # l
        BY <1>a, <1>b, <1>c, <2>2, BlocksLaid
      <3>2. Begins(O2, nodes'.next, addr, root, Top)
        BY <1>6, <3>1, BlocksLaid
      <3>3. root # 0 => root \in addr /\ root # x /\ Plain(O[root])
        BY <1>8, <1>a, BlocksLaid DEF Begins
      <3>4. root # 0 => nodes'.next[root] = 0
        BY <1>7, <1>a, <1>b, <3>3
      <3> QED  BY <1>e, <2>2, <3>2, <3>4
    <2> QED  BY <2>1, <2>2
  <1>13. ASSUME NEW a \in addr, a # x, Plain(O[a]) \/ Plain(O2[a]) PROVE O2[a] = O[a]
    BY <1>6, <1>b, <1>13
  <1>14. \A n \in addr : Plain(O2[n]) => O2[n] \in addr \union {Top}
    BY <1>6, <1>13, <1>a, <1>c, <1>d
  <1>15. ASSUME NEW n \in addr, ~ Plain(O2[n]) PROVE children'[n] = 0
    <2>1. n # x
      BY <1>4, <1>6, <1>15
    <2>2. n # parent
      BY <1>13, <1>15, <1>c, <2>1, BlocksLaid
    <2>3. ~ Plain(O[n])
      BY <1>13, <1>15, <2>1
    <2> QED  BY <1>9, <1>a, <2>2, <2>3
  <1>16. ASSUME NEW D3, NEW O3, D3 = L2, O3 = O2 PROVE NodesFit(D3, O3)'
    BY <1>5, <1>10, <1>11, <1>12, <1>14, <1>15, <1>16 DEF NodesFit
  <1>17. ASSUME NEW n \in addr PROVE Kids(n)' = IF n = parent THEN <<x>> \o Kids(n) ELSE Kids(n)
    <2>1. Kids(n) = L[children[n]]
      BY KidsAre
    <2>2. Kids(n)' = L2[children'[n]]
      <3>1. Lists(L2, O2, nodes'.next, addr) /\ children'[n] \in addr \union {0}
        BY <1>5, <1>10 DEF Pool
      <3>2. Chain(nodes'.next, children'[n]) = L2[children'[n]]
        BY <3>1, ChainIs
      <3> QED  BY <3>2 DEF Kids
    <2>3. D1[children[n]] = L[children[n]] /\ children[n] # x
      <3>1. CASE children[n] = 0
        BY <1>6, <1>7, <3>1, BlocksLaid
      <3>2. CASE children[n] # 0
        <4>1. children[n] \in addr /\ O[children[n]] = n
          BY <1>a, <3>2 DEF Begins
        <4> QED  BY <1>8, <1>b, <4>1, BlocksLaid
      <3> QED  BY <3>1, <3>2
    <2>4. CASE n = parent
      BY <1>7, <1>9, <1>c, <2>1, <2>2, <2>3, <2>4, BlocksLaid
    <2>5. CASE n # parent
      <3>1. L2[children[n]] = D1[children[n]]
        BY <1>7, <1>a, <2>3
      <3> QED  BY <1>9, <2>1, <2>2, <2>3, <2>5, <3>1
    <2> QED  BY <2>4, <2>5
  <1>18. ChildIn(O, O2, parent, x)
    BY <1>6, <1>8, <1>9, <1>13, <1>17, <1>c, <1>d, <1>e DEF ChildIn
  <1>19. PICK D3, O3 : D3 = L2 /\ O3 = O2
    OBVIOUS
  <1> QED  BY <1>16, <1>18, <1>19

\* E and P are the lists of the pool of properties: list n has those of node n.
PropsFit(O, E, P) ==
    /\ Pool(props, E, P, PropAddr, PropsPerBlock, MaxPropBlocks)
    /\ properties \in [NodeAddr -> PropAddr \union {0}] /\ lastProp \in [NodeAddr -> PropAddr \union {0}]
    /\ \A n \in NodeAddr : Begins(P, props.next, PropAddr, properties[n], n)
    /\ \A p \in PropAddr : Plain(P[p]) => P[p] \in NodeAddr
    /\ \A n \in NodeAddr : ~ Plain(O[n]) => properties[n] = 0
    /\ \A n \in NodeAddr : properties[n] # 0 =>
           lastProp[n] \in PropAddr /\ P[lastProp[n]] = n /\ props.next[lastProp[n]] = 0

Contents(list, data) == [i \in DOMAIN list |-> data[list[i]]]

LEMMA PropertiesAre ==
    ASSUME NEW O, NEW E, NEW P, PropsFit(O, E, P), NEW n \in NodeAddr
    PROVE  /\ PropertiesOf(n) = Contents(E[properties[n]], content)
           /\ Chain(props.next, properties[n]) = E[properties[n]]
           /\ E[properties[n]] \in Seq(PropAddr)
           /\ \A x : x \in ToSet(E[properties[n]]) <=> x \in PropAddr /\ P[x] = n
  <1>1. Lists(E, P, props.next, PropAddr) /\ properties[n] \in PropAddr \union {0}
        /\ Begins(P, props.next, PropAddr, properties[n], n)
    BY DEF PropsFit, Pool
  <1>2. Chain(props.next, properties[n]) = E[properties[n]]
    BY <1>1, ChainIs
  <1>3. E[properties[n]] \in Seq(PropAddr) /\ ToSet(E[properties[n]]) = {x \in PropAddr : P[x] = n}
    BY <1>1, ListIs
  <1> QED  BY <1>2, <1>3 DEF PropertiesOf, Contents

\* What another entry does to the contents of a list.
Another(s, x, data, c) ==
    /\ Contents(s, [data EXCEPT ![x] = c]) = Contents(s, data)
    /\ Contents(Append(s, x), [data EXCEPT ![x] = c]) = Append(Contents(s, data), c)

LEMMA ContentsStay ==
    ASSUME NEW addr, NEW s \in Seq(addr), NEW x \in addr, x \notin ToSet(s),
           NEW C, NEW data \in [addr -> C], NEW c
    PROVE  Another(s, x, data, c)
  <1> DEFINE data2 == [data EXCEPT ![x] = c]
             T == C \union {c}
  <1>1. DOMAIN s = 1 .. Len(s) /\ \A i \in 1 .. Len(s) : s[i] \in addr /\ s[i] # x
    BY DEF ToSet
  <1>2. data2[x] = c /\ \A a \in addr : a # x => data2[a] = data[a]
    OBVIOUS
  <1> HIDE DEF data2
  <1>3. Contents(s, data2) = Contents(s, data)
    BY <1>1, <1>2 DEF Contents
  <1>4. Contents(s, data) \in Seq(T) /\ Len(Contents(s, data)) = Len(s)
        /\ \A i \in 1 .. Len(s) : Contents(s, data)[i] = data[s[i]]
    <2>1. Contents(s, data) = [i \in 1 .. Len(s) |-> data[s[i]]] /\ Len(s) \in Nat
      BY <1>1 DEF Contents
    <2>2. \A i \in 1 .. Len(s) : data[s[i]] \in T
      BY <1>1
    <2> HIDE DEF T
    <2> QED  BY <2>1, <2>2
  <1>5. Append(s, x) \in Seq(addr) /\ DOMAIN Append(s, x) = 1 .. Len(s) + 1
        /\ \A i \in 1 .. Len(s) + 1 : Append(s, x)[i] = IF i = Len(s) + 1 THEN x ELSE s[i]
    OBVIOUS
  <1>6. Contents(Append(s, x), data2) = [i \in 1 .. Len(s) + 1 |-> IF i = Len(s) + 1 THEN c ELSE data[s[i]]]
    <2>1. \A i \in 1 .. Len(s) + 1 : data2[Append(s, x)[i]] = IF i = Len(s) + 1 THEN c ELSE data[s[i]]
      <3> TAKE i \in 1 .. Len(s) + 1
      <3>1. CASE i = Len(s) + 1
        BY <1>2, <1>5, <3>1
      <3>2. CASE i # Len(s) + 1
        <4>1. i \in 1 .. Len(s)
          BY <3>2
        <4> QED  BY <1>1, <1>2, <1>5, <3>2, <4>1
      <3> QED  BY <3>1, <3>2
    <2> QED  BY <1>5, <2>1 DEF Contents
  <1>7. Append(Contents(s, data), c) = [i \in 1 .. Len(s) + 1 |-> IF i = Len(s) + 1 THEN c ELSE data[s[i]]]
    <2> DEFINE u == Contents(s, data)
    <2> HIDE DEF u
    <2>1. u \in Seq(T) /\ Len(u) = Len(s) /\ c \in T /\ \A i \in 1 .. Len(s) : u[i] = data[s[i]]
      BY <1>4 DEF u
    <2> HIDE DEF T
    <2>2. Append(u, c) \in Seq(T) /\ DOMAIN Append(u, c) = 1 .. Len(u) + 1
          /\ \A i \in 1 .. Len(u) + 1 : Append(u, c)[i] = IF i = Len(u) + 1 THEN c ELSE u[i]
      BY <2>1
    <2>3. \A i \in 1 .. Len(s) + 1 : i # Len(s) + 1 => u[i] = data[s[i]]
      BY <2>1
    <2>4. \A i \in 1 .. Len(s) + 1 : Append(u, c)[i] = IF i = Len(s) + 1 THEN c ELSE data[s[i]]
      BY <2>1, <2>2, <2>3
    <2>5. Append(u, c) = [i \in DOMAIN Append(u, c) |-> Append(u, c)[i]]
      <3> DEFINE w == Append(u, c)
      <3> HIDE DEF w
      <3>1. w \in Seq(T)
        BY <2>2 DEF w
      <3>2. w = [i \in DOMAIN w |-> w[i]]
        BY <3>1
      <3> QED  BY <3>2 DEF w
    <2> QED  BY <2>1, <2>2, <2>4, <2>5 DEF u
  <1> QED  BY <1>3, <1>6, <1>7 DEF data2, Another

\* The list of node gets entry x of the pool, and no other list changes.
PropIn(O1, pool, E, E2, P2, node, x) ==
    /\ Pool(props', E2, P2, PropAddr, PropsPerBlock, MaxPropBlocks)
    /\ Goes(pool, O1, props', P2, PropAddr, node)
    /\ Begins(P2, props'.next, PropAddr, properties'[node], node)
    /\ props'.next[x] = 0
    /\ \A a \in PropAddr : a # x /\ ~ (P2[a] = node) => props'.next[a] = pool.next[a]
    /\ x \notin ToSet(E[properties[node]])
    /\ E2[properties'[node]] = Append(E[properties[node]], x)
    /\ \A n \in NodeAddr : n # node => E2[properties[n]] = E[properties[n]]

\* What the two cases of an append have in common.
Appendable(E, pool, E1, P1) ==
    /\ pool.free \in PropAddr /\ ~ Plain(P1[pool.free])
    /\ pool.next \in [PropAddr -> PropAddr \union {0}]
    /\ E1 \in [PropAddr \union {0} -> Seq(PropAddr)]
    /\ \A n \in NodeAddr :
           /\ Begins(P1, pool.next, PropAddr, properties[n], n)
           /\ E1[properties[n]] = E[properties[n]] /\ E[properties[n]] \in Seq(PropAddr)
           /\ properties[n] \in PropAddr \union {0} /\ properties[n] # pool.free
           /\ pool.free \notin ToSet(E[properties[n]])
           /\ \A x : x \in ToSet(E[properties[n]]) <=> x \in PropAddr /\ P1[x] = n
           /\ properties[n] # 0 => /\ lastProp[n] \in PropAddr /\ P1[lastProp[n]] = n
                                   /\ pool.next[lastProp[n]] = 0
    /\ E[0] = <<>> /\ E1[0] = <<>>

LEMMA Appending ==
    ASSUME NEW O, NEW E, NEW P, PropsFit(O, E, P), NEW node \in NodeAddr,
           NEW pool, NEW E1, NEW P1,
           Pool(pool, E1, P1, PropAddr, PropsPerBlock, MaxPropBlocks), pool.free # 0,
           Stays(props, E, P, pool, E1, P1, PropAddr)
    PROVE  Appendable(E, pool, E1, P1)
  <1> DEFINE addr == PropAddr
             x == pool.free
  <1>1. x \in addr /\ P1[x] = Free /\ ~ Plain(P1[x])
    BY DEF Pool, Begins, Plain
  <1>2. pool.next \in [addr -> addr \union {0}] /\ E1 \in [addr \union {0} -> Seq(addr)] /\ E1[0] = <<>>
    BY DEF Pool, Lists, Follows
  <1>3. E[0] = <<>> /\ Pool(props, E, P, addr, PropsPerBlock, MaxPropBlocks)
    BY DEF PropsFit, Pool, Lists, Follows
  <1>4. ~ Plain(P[x])
    BY <1>1 DEF Stays
  <1>5. ASSUME NEW n \in NodeAddr
        PROVE  /\ Begins(P1, pool.next, addr, properties[n], n)
               /\ E1[properties[n]] = E[properties[n]] /\ E[properties[n]] \in Seq(addr)
               /\ properties[n] \in addr \union {0} /\ properties[n] # x
               /\ x \notin ToSet(E[properties[n]])
               /\ \A y : y \in ToSet(E[properties[n]]) <=> y \in addr /\ P1[y] = n
               /\ properties[n] # 0 => /\ lastProp[n] \in addr /\ P1[lastProp[n]] = n
                                       /\ pool.next[lastProp[n]] = 0
    <2>1. Plain(n) /\ n \in Int
      BY BlocksLaid
    <2>2. Begins(P, props.next, addr, properties[n], n)
      BY DEF PropsFit
    <2>3. Begins(P1, pool.next, addr, properties[n], n)
      BY <2>1, <2>2 DEF Stays
    <2>4. properties[n] \in addr \union {0} /\ (properties[n] # 0 => P[properties[n]] = n)
      BY <2>2 DEF Begins
    <2>5. E1[properties[n]] = E[properties[n]] /\ properties[n] # x
      <3>1. CASE properties[n] = 0
        BY <1>1, <1>2, <1>3, <3>1, BlocksLaid
      <3>2. CASE properties[n] # 0
        BY <1>4, <2>1, <2>4, <3>2 DEF Stays
      <3> QED  BY <3>1, <3>2
    <2>6. E[properties[n]] \in Seq(addr)
          /\ \A y : y \in ToSet(E[properties[n]]) <=> y \in addr /\ P[y] = n
      BY PropertiesAre
    <2>7. \A y \in addr : P[y] = n <=> P1[y] = n
      BY <2>1 DEF Stays
    <2>8. x \notin ToSet(E[properties[n]])
      BY <1>4, <2>1, <2>6
    <2>9. properties[n] # 0 => lastProp[n] \in addr /\ P[lastProp[n]] = n /\ props.next[lastProp[n]] = 0
      BY DEF PropsFit
    <2>10. properties[n] # 0 => lastProp[n] \in addr /\ P1[lastProp[n]] = n /\ pool.next[lastProp[n]] = 0
      BY <2>1, <2>9 DEF Stays
    <2> QED  BY <2>3, <2>4, <2>5, <2>6, <2>7, <2>8, <2>10
  <1> QED  BY <1>1, <1>2, <1>3, <1>5 DEF Appendable

LEMMA FirstAppended ==
    ASSUME NEW O, NEW E, NEW P, PropsFit(O, E, P), NEW node \in NodeAddr,
           NEW pool, NEW E1, NEW P1,
           Pool(pool, E1, P1, PropAddr, PropsPerBlock, MaxPropBlocks), pool.free # 0,
           Stays(props, E, P, pool, E1, P1, PropAddr),
           properties[node] = 0, props' = Taken(pool, PushNext(pool.next, pool.free, 0)),
           properties'[node] = pool.free
    PROVE  PropIn(P1, pool, E, PushList(E1, pool.free, 0), Owned(P1, pool.free, node), node, pool.free)
  <1> DEFINE addr == PropAddr
             x == pool.free
             next2 == PushNext(pool.next, x, 0)
             E2 == PushList(E1, x, 0)
             P2 == Owned(P1, x, node)
  <1>1. /\ x \in addr /\ pool.next \in [addr -> addr \union {0}] /\ E1 \in [addr \union {0} -> Seq(addr)]
        /\ \A n \in NodeAddr : /\ E1[properties[n]] = E[properties[n]] /\ properties[n] \in addr \union {0}
                               /\ properties[n] # x /\ x \notin ToSet(E[properties[n]])
        /\ E[0] = <<>> /\ E1[0] = <<>>
        /\ Begins(P1, pool.next, addr, 0, node)
    <2>1. Appendable(E, pool, E1, P1)
      BY Appending
    <2> HIDE DEF next2, E2, P2
    <2> QED  BY <2>1 DEF Appendable
  <1>2. Pool(props', E2, P2, addr, PropsPerBlock, MaxPropBlocks) /\ Goes(pool, P1, props', P2, addr, node)
        /\ Begins(P2, props'.next, addr, x, node)
    BY <1>1, BlocksLaid, PoolPushed
  <1>3. next2 \in [addr -> addr \union {0}] /\ next2[x] = 0 /\ \A a \in addr : a # x => next2[a] = pool.next[a]
    BY <1>1 DEF PushNext
  <1>4. props'.next = next2
    <2>1. pool \in PoolType(addr)
      BY DEF Pool
    <2> HIDE DEF next2
    <2>2. props' = Taken(pool, next2)
      BY DEF next2
    <2> QED  BY <1>1, <1>3, <2>1, <2>2, TakenIs
  <1>5. E2[x] = <<x>> \o <<>> /\ \A h \in addr \union {0} : h # x => E2[h] = E1[h]
    BY <1>1 DEF PushList
  <1>6. <<x>> \o <<>> = Append(<<>>, x)
    OBVIOUS
  <1> HIDE DEF x, next2, E2, P2
  <1>7. E2[properties'[node]] = Append(E[properties[node]], x)
    BY <1>1, <1>5, <1>6 DEF x
  <1>8. PropIn(P1, pool, E, E2, P2, node, x)
    BY <1>1, <1>2, <1>3, <1>4, <1>5, <1>7 DEF PropIn, x
  <1> QED  BY <1>8 DEF x, E2, P2

LEMMA NextAppended ==
    ASSUME NEW O, NEW E, NEW P, PropsFit(O, E, P), NEW node \in NodeAddr,
           NEW pool, NEW E1, NEW P1,
           Pool(pool, E1, P1, PropAddr, PropsPerBlock, MaxPropBlocks), pool.free # 0,
           Stays(props, E, P, pool, E1, P1, PropAddr),
           properties[node] # 0, props' = Taken(pool, AppendNext(pool.next, lastProp[node], pool.free)),
           properties'[node] = properties[node]
    PROVE  PropIn(P1, pool, E, AppendList(E1, PropAddr, lastProp[node], pool.free),
                  Owned(P1, pool.free, node), node, pool.free)
  <1> DEFINE addr == PropAddr
             x == pool.free
             t == lastProp[node]
             h == properties[node]
             next2 == AppendNext(pool.next, t, x)
             E2 == AppendList(E1, addr, t, x)
             P2 == Owned(P1, x, node)
  <1>1. /\ x \in addr /\ ~ Plain(P1[x])
        /\ pool.next \in [addr -> addr \union {0}] /\ E1 \in [addr \union {0} -> Seq(addr)]
        /\ \A n \in NodeAddr : /\ E1[properties[n]] = E[properties[n]] /\ properties[n] \in addr \union {0}
                               /\ properties[n] # x /\ x \notin ToSet(E[properties[n]])
                               /\ \A y : y \in ToSet(E[properties[n]]) <=> y \in PropAddr /\ P1[y] = n
        /\ Begins(P1, pool.next, addr, h, node)
        /\ t \in addr /\ P1[t] = node /\ pool.next[t] = 0
    <2>1. Appendable(E, pool, E1, P1)
      BY Appending
    <2> HIDE DEF next2, E2, P2
    <2> QED  BY <2>1 DEF Appendable
  <1>2. Pool(props', E2, P2, addr, PropsPerBlock, MaxPropBlocks) /\ Goes(pool, P1, props', P2, addr, node)
        /\ Begins(P2, props'.next, addr, h, node)
    <2>1. Plain(node) /\ node \in Int
      BY BlocksLaid
    <2>2. Begins(P1, pool.next, addr, h, node) /\ h # 0 /\ t \in addr /\ P1[t] = node /\ pool.next[t] = 0
      BY <1>1
    <2> QED  BY <2>1, <2>2, PoolAppended
  <1>3. next2 \in [addr -> addr \union {0}] /\ next2[x] = 0 /\ t # x
        /\ \A a \in addr : a # x /\ a # t => next2[a] = pool.next[a]
    <2>1. t # x
      BY <1>1, BlocksLaid
    <2> QED  BY <1>1, <2>1, ZenonT(60) DEF AppendNext
  <1>4. props'.next = next2
    <2>1. pool \in PoolType(addr)
      BY DEF Pool
    <2> HIDE DEF next2
    <2>2. props' = Taken(pool, next2)
      BY DEF next2
    <2> QED  BY <1>1, <1>3, <2>1, <2>2, TakenIs
  <1>5. P2[t] = node
    BY <1>2, <1>3, <1>1 DEF Goes
  <1>6. \A a \in addr \union {0} : a # x => E2[a] = IF t \in ToSet(E1[a]) THEN Append(E1[a], x) ELSE E1[a]
    BY DEF AppendList
  <1>7. t \in ToSet(E1[h]) /\ \A n \in NodeAddr : n # node => t \notin ToSet(E1[properties[n]])
    BY <1>1
  <1>8. E2[h] = Append(E1[h], x) /\ \A n \in NodeAddr : n # node => E2[properties[n]] = E1[properties[n]]
    BY <1>1, <1>6, <1>7
  <1> HIDE DEF x, next2, E2, P2, t, h
  <1>9. E2[properties'[node]] = Append(E[properties[node]], x)
    BY <1>1, <1>8 DEF h
  <1>10. \A a \in addr : a # x /\ ~ (P2[a] = node) => props'.next[a] = pool.next[a]
    BY <1>3, <1>4, <1>5
  <1>11. PropIn(P1, pool, E, E2, P2, node, x)
    BY <1>1, <1>2, <1>3, <1>4, <1>8, <1>9, <1>10 DEF PropIn, x, h
  <1> QED  BY <1>11 DEF x, E2, P2, t

ContentType == Names \X (Strings \union {"/"})

LEMMA PropertyAppended ==
    ASSUME NEW O, NEW E, NEW P, PropsFit(O, E, P), NEW node \in NodeAddr, Plain(O[node]),
           NEW C, content \in [PropAddr -> C],
           NEW name, NEW value, AppendProperty(node, name, value)
    PROVE  /\ \E E2, P2 : PropsFit(O, E2, P2)'
           /\ content' \in [PropAddr -> C \union {<<name, value>>}]
           /\ \A n \in NodeAddr :
                  PropertiesOf(n)' = IF n = node THEN Append(PropertiesOf(n), <<name, value>>)
                                     ELSE PropertiesOf(n)
  <1> DEFINE addr == PropAddr
  <1>1. PICK pool \in Ready(props, PropsPerBlock, MaxPropBlocks) :
            /\ props' = Taken(pool, Linked(pool.next, node, pool.free))
            /\ properties' = [properties EXCEPT ![node] = IF @ = 0 THEN pool.free ELSE @]
            /\ lastProp' = [lastProp EXCEPT ![node] = pool.free]
            /\ content' = [content EXCEPT ![pool.free] = <<name, value>>]
    BY DEF AppendProperty
  <1> DEFINE x == pool.free
  <1>a. /\ Pool(props, E, P, addr, PropsPerBlock, MaxPropBlocks)
        /\ properties \in [NodeAddr -> addr \union {0}] /\ lastProp \in [NodeAddr -> addr \union {0}]
        /\ \A n \in NodeAddr : Begins(P, props.next, addr, properties[n], n)
        /\ \A p \in addr : Plain(P[p]) => P[p] \in NodeAddr
        /\ \A n \in NodeAddr : ~ Plain(O[n]) => properties[n] = 0
        /\ \A n \in NodeAddr : properties[n] # 0 =>
               lastProp[n] \in addr /\ P[lastProp[n]] = n /\ props.next[lastProp[n]] = 0
    BY DEF PropsFit
  <1>2. pool.free # 0 /\ \E E1, P1 : Pool(pool, E1, P1, addr, PropsPerBlock, MaxPropBlocks)
                                     /\ Stays(props, E, P, pool, E1, P1, addr)
    BY <1>1, <1>a, BlocksLaid, Readied
  <1>3. PICK E1, P1 : Pool(pool, E1, P1, addr, PropsPerBlock, MaxPropBlocks)
                      /\ Stays(props, E, P, pool, E1, P1, addr)
    BY <1>2
  <1>4. Appendable(E, pool, E1, P1)
    BY <1>2, <1>3, Appending
  <1>5. /\ x \in addr /\ ~ Plain(P1[x])
        /\ \A n \in NodeAddr :
              /\ Begins(P1, pool.next, addr, properties[n], n)
              /\ E[properties[n]] \in Seq(addr) /\ properties[n] # x
              /\ x \notin ToSet(E[properties[n]])
              /\ properties[n] # 0 => /\ lastProp[n] \in addr /\ P1[lastProp[n]] = n
                                      /\ pool.next[lastProp[n]] = 0
    BY <1>4 DEF Appendable
  <1>6. /\ properties'[node] = IF properties[node] = 0 THEN x ELSE properties[node]
        /\ lastProp'[node] = x
        /\ \A n \in NodeAddr : n # node => properties'[n] = properties[n] /\ lastProp'[n] = lastProp[n]
        /\ properties' \in [NodeAddr -> addr \union {0}] /\ lastProp' \in [NodeAddr -> addr \union {0}]
    BY <1>1, <1>5, <1>a
  <1>7. \E E2, P2 : PropIn(P1, pool, E, E2, P2, node, x)
    <2>1. CASE properties[node] = 0
      <3>1. props' = Taken(pool, PushNext(pool.next, pool.free, 0)) /\ properties'[node] = pool.free
        BY <1>1, <1>6, <2>1 DEF Linked, PushNext
      <3>2. PropIn(P1, pool, E, PushList(E1, pool.free, 0), Owned(P1, pool.free, node), node, pool.free)
        BY <1>2, <1>3, <2>1, <3>1, FirstAppended
      <3> QED  BY <3>2
    <2>2. CASE properties[node] # 0
      <3>1. props' = Taken(pool, AppendNext(pool.next, lastProp[node], pool.free))
            /\ properties'[node] = properties[node]
        BY <1>1, <1>6, <2>2 DEF Linked, AppendNext
      <3>2. PropIn(P1, pool, E, AppendList(E1, PropAddr, lastProp[node], pool.free),
                   Owned(P1, pool.free, node), node, pool.free)
        BY <1>2, <1>3, <2>2, <3>1, NextAppended
      <3> QED  BY <3>2
    <2> QED  BY <2>1, <2>2
  <1> HIDE DEF x
  <1>8. PICK E2, P2 : PropIn(P1, pool, E, E2, P2, node, x)
    BY <1>7
  <1>9. /\ Pool(props', E2, P2, addr, PropsPerBlock, MaxPropBlocks)
        /\ Goes(pool, P1, props', P2, addr, node)
        /\ Begins(P2, props'.next, addr, properties'[node], node)
        /\ props'.next[x] = 0
        /\ \A a \in addr : a # x /\ ~ (P2[a] = node) => props'.next[a] = pool.next[a]
        /\ E2[properties'[node]] = Append(E[properties[node]], x)
        /\ \A n \in NodeAddr : n # node => E2[properties[n]] = E[properties[n]]
    BY <1>8 DEF PropIn
  <1>10. /\ P2[x] = node /\ \A a \in addr : a # x => P2[a] = P1[a]
         /\ \A h, m : m # node /\ Plain(m) /\ Begins(P1, pool.next, addr, h, m) => Begins(P2, props'.next, addr, h, m)
    BY <1>9 DEF Goes, x
  <1>11. ASSUME NEW n \in NodeAddr PROVE Begins(P2, props'.next, addr, properties'[n], n)
    <2>1. CASE n = node
      BY <1>9, <2>1
    <2>2. CASE n # node
      BY <1>5, <1>6, <1>10, <2>2, BlocksLaid
    <2> QED  BY <2>1, <2>2
  <1>12. \A p \in addr : Plain(P2[p]) => P2[p] \in NodeAddr
    <2>1. \A p \in addr : Plain(P1[p]) => P1[p] = P[p]
      BY <1>3 DEF Stays
    <2> QED  BY <1>10, <1>a, <2>1
  <1>13. \A n \in NodeAddr : ~ Plain(O[n]) => properties'[n] = 0
    BY <1>6, <1>a
  <1>14. ASSUME NEW n \in NodeAddr, properties'[n] # 0
         PROVE  lastProp'[n] \in addr /\ P2[lastProp'[n]] = n /\ props'.next[lastProp'[n]] = 0
    <2>1. CASE n = node
      BY <1>5, <1>6, <1>9, <1>10, <2>1
    <2>2. CASE n # node
      <3>1. lastProp'[n] = lastProp[n] /\ lastProp[n] \in addr /\ P1[lastProp[n]] = n
            /\ pool.next[lastProp[n]] = 0
        BY <1>5, <1>6, <1>14, <2>2
      <3>2. lastProp[n] # x
        BY <1>5, <3>1, BlocksLaid
      <3>3. P2[lastProp[n]] = n
        BY <1>10, <3>1, <3>2
      <3> QED  BY <1>9, <2>2, <3>1, <3>2, <3>3
    <2> QED  BY <2>1, <2>2
  <1>15. ASSUME NEW E3, NEW P3, E3 = E2, P3 = P2 PROVE PropsFit(O, E3, P3)'
    BY <1>6, <1>9, <1>11, <1>12, <1>13, <1>14, <1>15 DEF PropsFit
  <1>16. \E E3, P3 : PropsFit(O, E3, P3)'
    <2>1. PICK E3, P3 : E3 = E2 /\ P3 = P2
      OBVIOUS
    <2> QED  BY <1>15, <2>1
  <1>17. content' = [content EXCEPT ![x] = <<name, value>>]
    BY <1>1 DEF x
  <1>18. ASSUME NEW n \in NodeAddr
         PROVE  PropertiesOf(n)' = IF n = node THEN Append(PropertiesOf(n), <<name, value>>)
                                   ELSE PropertiesOf(n)
    <2>1. PropertiesOf(n) = Contents(E[properties[n]], content)
      BY PropertiesAre
    <2>2. PropertiesOf(n)' = Contents(E2[properties'[n]], content')
      <3>1. Lists(E2, P2, props'.next, addr) /\ properties'[n] \in addr \union {0}
        BY <1>6, <1>9 DEF Pool
      <3>2. Chain(props'.next, properties'[n]) = E2[properties'[n]]
        BY <3>1, ChainIs
      <3> QED  BY <3>2 DEF PropertiesOf, Contents
    <2> DEFINE s == E[properties[n]]
    <2>3. s \in Seq(addr) /\ x \notin ToSet(s)
      BY <1>5
    <2> HIDE DEF s
    <2>4. Contents(s, content') = Contents(s, content)
          /\ Contents(Append(s, x), content') = Append(Contents(s, content), <<name, value>>)
      <3> DEFINE c == <<name, value>>
      <3> HIDE DEF c
      <3>1. x \in addr /\ content \in [addr -> C]
        BY <1>5
      <3>2. Contents(s, [content EXCEPT ![x] = c]) = Contents(s, content)
            /\ Contents(Append(s, x), [content EXCEPT ![x] = c]) = Append(Contents(s, content), c)
        <4>1. Another(s, x, content, c)
          BY <2>3, <3>1, ContentsStay
        <4> QED  BY <4>1 DEF Another
      <3> QED  BY <1>17, <3>2 DEF c
    <2>5. CASE n = node
      <3>1. E2[properties'[n]] = Append(s, x)
        BY <1>9, <2>5 DEF s
      <3> QED  BY <2>1, <2>2, <2>4, <2>5, <3>1 DEF s
    <2>6. CASE n # node
      <3>1. E2[properties'[n]] = s
        BY <1>6, <1>9, <2>6 DEF s
      <3> QED  BY <2>1, <2>2, <2>4, <2>6, <3>1 DEF s
    <2> QED  BY <2>5, <2>6
  <1>19. content' \in [PropAddr -> C \union {<<name, value>>}]
    BY <1>17
  <1> QED  BY <1>16, <1>18, <1>19

\* B[n] has the nodes from n on downwards, W[n] says how deep n lies; the tree
\* has every node that is in a list of children.
Reach(O, B, W) ==
    /\ B \in [NodeAddr -> SUBSET NodeAddr] /\ W \in [NodeAddr -> Nat]
    /\ \A n, x \in NodeAddr :
           x \in B[n] <=> x = n \/ \E k \in NodeAddr : O[k] = n /\ x \in B[k]
    /\ \A x \in NodeAddr : Plain(O[x]) <=> root # 0 /\ x \in B[root]
    /\ root # 0 => W[root] = 0
    /\ \A n, k \in NodeAddr : O[k] = n => W[k] = W[n] + 1
    /\ \E deepest \in Nat : \A n \in NodeAddr : W[n] <= deepest

\* Induction from the deepest nodes upwards.
LEMMA Upwards ==
    ASSUME NEW O, NEW W \in [NodeAddr -> Nat],
           \A n, k \in NodeAddr : O[k] = n => W[k] = W[n] + 1,
           NEW deepest \in Nat, \A n \in NodeAddr : W[n] <= deepest,
           NEW Bad \in SUBSET NodeAddr,
           \A n \in Bad : \E k \in Bad : O[k] = n
    PROVE  Bad = {}
  <1> SUFFICES ASSUME Bad # {} PROVE FALSE
    OBVIOUS
  <1> DEFINE S == {deepest - W[n] : n \in Bad}
  <1>1. S \in SUBSET Nat /\ S # {}
    <2>1. \A n \in Bad : deepest - W[n] \in Nat
      OBVIOUS
    <2> QED  BY <2>1
  <1>2. PICK m \in S : \A k \in S : m <= k
    <2> HIDE DEF S
    <2> QED  BY <1>1, LeastNat
  <1>3. PICK n \in Bad : m = deepest - W[n]
    BY <1>2
  <1>4. PICK k \in Bad : O[k] = n
    BY <1>3
  <1>5. W[k] = W[n] + 1 /\ W[n] \in Nat /\ deepest - W[k] \in S
    BY <1>3, <1>4
  <1>6. m <= deepest - W[k]
    <2> HIDE DEF S
    <2> QED  BY <1>2, <1>5
  <1> HIDE DEF S
  <1> QED  BY <1>3, <1>5, <1>6

LEMMA MembersAre ==
    ASSUME NEW L, NEW O, NodesFit(L, O), NEW B, NEW W, Reach(O, B, W)
    PROVE  Members = {x \in NodeAddr : Plain(O[x])}
  <1>1. \A n \in NodeAddr : \A x : x \in ToSet(Kids(n)) <=> x \in NodeAddr /\ O[x] = n
    BY KidsAre
  <1> DEFINE step(G) == [n \in NodeAddr |-> {n} \union UNION {G[k] : k \in ToSet(Kids(n))}]
             below == CHOOSE G : G = step(G)
  <1>2. B \in [NodeAddr -> SUBSET NodeAddr]
        /\ \A n, x \in NodeAddr :
              x \in B[n] <=> x = n \/ \E k \in NodeAddr : O[k] = n /\ x \in B[k]
    BY DEF Reach
  <1>3. ASSUME NEW n \in NodeAddr PROVE B[n] = {n} \union UNION {B[k] : k \in ToSet(Kids(n))}
    <2>1. \A k \in NodeAddr : B[k] \in SUBSET NodeAddr
      BY <1>2
    <2>2. \A x \in NodeAddr : x \in B[n] <=> x \in {n} \union UNION {B[k] : k \in ToSet(Kids(n))}
      BY <1>1, <1>2
    <2>3. UNION {B[k] : k \in ToSet(Kids(n))} \subseteq NodeAddr
      BY <1>1, <2>1
    <2> QED  BY <2>1, <2>2, <2>3
  <1>4. B = step(B)
    BY <1>2, <1>3
  <1>5. below = step(below)
    <2> HIDE DEF step
    <2> QED  BY <1>4
  <1>6. \A n \in NodeAddr : below[n] = {n} \union UNION {below[k] : k \in ToSet(Kids(n))}
    <2> HIDE DEF below
    <2> QED  BY <1>5
  <1> DEFINE Bad == {n \in NodeAddr : below[n] # B[n]}
  <1>7. ASSUME NEW n \in Bad PROVE \E k \in Bad : O[k] = n
    <2> SUFFICES ASSUME \A k \in NodeAddr : O[k] = n => below[k] = B[k] PROVE FALSE
      OBVIOUS
    <2> HIDE DEF below
    <2>1. \A k \in ToSet(Kids(n)) : below[k] = B[k]
      BY <1>1
    <2>2. UNION {below[k] : k \in ToSet(Kids(n))} = UNION {B[k] : k \in ToSet(Kids(n))}
      BY <2>1
    <2> QED  BY <1>3, <1>6, <2>2
  <1>8. Bad = {}
    <2> HIDE DEF Bad
    <2>1. Bad \in SUBSET NodeAddr
      BY DEF Bad
    <2>2. W \in [NodeAddr -> Nat] /\ (\A n, k \in NodeAddr : O[k] = n => W[k] = W[n] + 1)
          /\ \E deepest \in Nat : \A n \in NodeAddr : W[n] <= deepest
      BY DEF Reach
    <2> QED  BY <1>7, <2>1, <2>2, Upwards
  <1>9. Members = IF root = 0 THEN {} ELSE below[root]
    BY DEF Members
  <1> HIDE DEF below
  <1>10. root \in NodeAddr \union {0}
    BY DEF NodesFit, Begins
  <1>11. \A x \in NodeAddr : Plain(O[x]) <=> root # 0 /\ x \in B[root]
    BY DEF Reach
  <1>12. root # 0 => Members = B[root]
    BY <1>8, <1>9, <1>10
  <1>13. root # 0 => \A x : x \in Members <=> x \in NodeAddr /\ Plain(O[x])
    BY <1>2, <1>10, <1>11, <1>12
  <1>14. root = 0 => \A x : x \in Members <=> x \in NodeAddr /\ Plain(O[x])
    BY <1>9, <1>11
  <1> QED  BY <1>13, <1>14

\* Only the new node gets another depth.
DepthStays(W, W2, node) == \A n \in NodeAddr : n # node => W2[n] = W[n]

LEMMA ReachChild ==
    ASSUME NEW L, NEW O, NodesFit(L, O), NEW B, NEW W, Reach(O, B, W),
           NEW parent \in NodeAddr \union {0}, IF parent = 0 THEN root = 0 ELSE Plain(O[parent]),
           NEW O2, NEW node, ChildIn(O, O2, parent, node)
    PROVE  \E B2, W2 : Reach(O2, B2, W2)' /\ DepthStays(W, W2, node)
  <1> DEFINE B2 == [m \in NodeAddr |-> IF m = node THEN {node}
                                       ELSE IF parent \in B[m] THEN B[m] \union {node} ELSE B[m]]
             W2 == [W EXCEPT ![node] = IF parent = 0 THEN 0 ELSE W[parent] + 1]
  <1>1. /\ B \in [NodeAddr -> SUBSET NodeAddr] /\ W \in [NodeAddr -> Nat]
        /\ \A n, x \in NodeAddr :
               x \in B[n] <=> x = n \/ \E k \in NodeAddr : O[k] = n /\ x \in B[k]
        /\ \A x \in NodeAddr : Plain(O[x]) <=> root # 0 /\ x \in B[root]
        /\ root # 0 => W[root] = 0
        /\ \A n, k \in NodeAddr : O[k] = n => W[k] = W[n] + 1
    BY DEF Reach
  <1>2. PICK deepest \in Nat : \A n \in NodeAddr : W[n] <= deepest
    BY DEF Reach
  <1>3. /\ node \in NodeAddr /\ ~ Plain(O[node]) /\ O2[node] = IF parent = 0 THEN Top ELSE parent
        /\ \A a \in NodeAddr : a # node /\ (Plain(O[a]) \/ Plain(O2[a])) => O2[a] = O[a]
        /\ root' = IF parent = 0 THEN node ELSE root
    BY DEF ChildIn
  <1>4. \A k \in NodeAddr : O[k] # node
    <2>0. L[0] = <<>>
      BY DEF NodesFit, Pool, Lists, Follows
    <2>1. children[node] = 0 /\ Kids(node) = <<>>
      <3>1. children[node] = 0
        BY <1>3 DEF NodesFit
      <3>2. Kids(node) = L[children[node]]
        BY <1>3, KidsAre
      <3> QED  BY <2>0, <3>1, <3>2
    <2>2. ToSet(Kids(node)) = {}
      BY <2>1 DEF ToSet
    <2> QED  BY <1>3, <2>2, KidsAre
  <1>5. parent # node /\ (parent # 0 => parent \in NodeAddr)
    BY <1>3, BlocksLaid
  <1>6. \A n, k \in NodeAddr : O2[k] = n <=> IF k = node THEN parent = n ELSE O[k] = n
    BY <1>3, <1>5, BlocksLaid
  <1>7. /\ B2 \in [NodeAddr -> SUBSET NodeAddr]
        /\ B2[node] = {node}
        /\ \A m \in NodeAddr : m # node =>
               \A x \in NodeAddr : x \in B2[m] <=> x \in B[m] \/ (x = node /\ parent \in B[m])
    <2>1. B2[node] = {node}
      BY <1>3
    <2>2. \A m \in NodeAddr : m # node => B2[m] = IF parent \in B[m] THEN B[m] \union {node} ELSE B[m]
      OBVIOUS
    <2>3. \A m \in NodeAddr : B[m] \in SUBSET NodeAddr
      BY <1>1
    <2>4. \A m \in NodeAddr : B2[m] \in SUBSET NodeAddr
      <3> HIDE DEF B2
      <3> QED  BY <1>3, <2>1, <2>2, <2>3
    <2>5. B2 = [m \in NodeAddr |-> B2[m]]
      OBVIOUS
    <2> HIDE DEF B2
    <2>6. B2 \in [NodeAddr -> SUBSET NodeAddr]
      BY <2>4, <2>5
    <2>7. \A m \in NodeAddr : m # node =>
              \A x \in NodeAddr : x \in B2[m] <=> x \in B[m] \/ (x = node /\ parent \in B[m])
      <3> HIDE DEF B2
      <3> QED  BY <2>2
    <2> QED  BY <2>1, <2>6, <2>7
  <1> HIDE DEF B2
  <1>8. ASSUME NEW n \in NodeAddr, NEW x \in NodeAddr
        PROVE  x \in B2[n] <=> x = n \/ \E k \in NodeAddr : O2[k] = n /\ x \in B2[k]
    <2>1. CASE n = node
      <3>1. \A k \in NodeAddr : O2[k] # n
        BY <1>4, <1>5, <1>6, <2>1
      <3> QED  BY <1>7, <2>1, <3>1
    <2>2. CASE n # node
      <3>1. x \in B2[n] <=> x \in B[n] \/ (x = node /\ parent \in B[n])
        BY <1>7, <2>2
      <3>2. ASSUME x \in B2[n], x # n PROVE \E k \in NodeAddr : O2[k] = n /\ x \in B2[k]
        <4>1. CASE x \in B[n]
          <5>1. PICK k \in NodeAddr : O[k] = n /\ x \in B[k]
            BY <1>1, <3>2, <4>1
          <5>2. k # node
            BY <1>3, <5>1, BlocksLaid
          <5>3. O2[k] = n
            BY <1>6, <5>1, <5>2
          <5>4. x \in B2[k]
            BY <1>7, <5>1, <5>2
          <5> QED  BY <5>3, <5>4
        <4>2. CASE x = node /\ parent = n
          BY <1>3, <1>6, <1>7, <4>2
        <4>3. CASE x = node /\ parent \in B[n] /\ parent # n
          <5>1. PICK k \in NodeAddr : O[k] = n /\ parent \in B[k]
            BY <1>1, <4>3
          <5>2. k # node
            BY <1>3, <5>1, BlocksLaid
          <5> QED  BY <1>6, <1>7, <4>3, <5>1, <5>2
        <4> QED  BY <3>1, <3>2, <4>1, <4>2, <4>3
      <3>3. ASSUME NEW k \in NodeAddr, O2[k] = n, x \in B2[k] PROVE x \in B2[n]
        <4>1. CASE k = node
          <5>1. parent = n /\ x = node
            BY <1>6, <1>7, <3>3, <4>1
          <5>2. parent \in B[n]
            BY <1>1, <5>1
          <5> QED  BY <3>1, <5>1, <5>2
        <4>2. CASE k # node
          <5>1. O[k] = n /\ (x \in B[k] \/ (x = node /\ parent \in B[k]))
            BY <1>6, <1>7, <3>3, <4>2
          <5> QED  BY <1>1, <3>1, <5>1
        <4> QED  BY <4>1, <4>2
      <3>4. x = n => x \in B2[n]
        <4>1. n \in B[n]
          BY <1>1
        <4> QED  BY <3>1, <4>1
      <3> QED  BY <3>2, <3>3, <3>4
    <2> QED  BY <2>1, <2>2
  <1>9. ASSUME NEW x \in NodeAddr PROVE Plain(O2[x]) <=> root' # 0 /\ x \in B2[root']
    <2>0. x # node => (Plain(O2[x]) <=> Plain(O[x]))
      BY <1>3
    <2>1. CASE parent = 0
      <3>1. \A y \in NodeAddr : ~ Plain(O[y])
        BY <1>1, <2>1
      <3> QED  BY <1>3, <1>7, <2>0, <2>1, <3>1, BlocksLaid
    <2>2. CASE parent # 0
      <3>1. Plain(O[parent]) /\ parent \in NodeAddr
        BY <1>5, <2>2
      <3>2. root # 0 /\ parent \in B[root]
        BY <1>1, <3>1
      <3>3. root \in NodeAddr /\ root # node
        <4>1. root \in NodeAddr
          BY <3>2 DEF NodesFit, Begins
        <4>2. root \in B[root]
          BY <1>1, <4>1
        <4> QED  BY <1>1, <1>3, <3>2, <4>1, <4>2
      <3>4. \A y \in NodeAddr : y \in B2[root] <=> y \in B[root] \/ y = node
        <4> QED  BY <1>7, <3>2, <3>3
      <3>5. Plain(O2[node])
        BY <1>3, <2>2, <3>1, BlocksLaid
      <3>6. root' = root
        BY <1>3, <2>2
      <3>7. Plain(O[x]) <=> x \in B[root]
        BY <1>1, <3>2
      <3> QED  BY <2>0, <3>2, <3>4, <3>5, <3>6, <3>7
    <2> QED  BY <2>1, <2>2
  <1>10. W2 \in [NodeAddr -> Nat] /\ W2[node] = (IF parent = 0 THEN 0 ELSE W[parent] + 1)
         /\ \A n \in NodeAddr : n # node => W2[n] = W[n]
    BY <1>1, <1>3, <1>5
  <1> HIDE DEF W2
  <1>11. ASSUME NEW n \in NodeAddr, NEW k \in NodeAddr, O2[k] = n PROVE W2[k] = W2[n] + 1
    <2>1. CASE k = node
      BY <1>1, <1>5, <1>6, <1>10, <1>11, <2>1, BlocksLaid, SMTT(30)
    <2>2. CASE k # node
      <3>1. O[k] = n
        BY <1>6, <1>11, <2>2
      <3>2. n # node
        BY <1>4, <3>1
      <3> QED  BY <1>1, <1>10, <2>2, <3>1, <3>2
    <2> QED  BY <2>1, <2>2
  <1>12. ASSUME NEW n \in NodeAddr PROVE W2[n] <= deepest + 1
    <2>1. W2[n] \in Nat /\ (parent # 0 => W[parent] \in Nat /\ W[parent] <= deepest)
      BY <1>1, <1>2, <1>5, <1>10
    <2> QED  BY <1>1, <1>2, <1>10, <2>1
  <1>13. \E d \in Nat : \A n \in NodeAddr : W2[n] <= d
    <2>1. deepest + 1 \in Nat
      OBVIOUS
    <2> QED  BY <1>12, <2>1
  <1>r. W2[root'] = 0
    <2>1. CASE parent = 0
      BY <1>3, <1>10, <2>1
    <2>2. CASE parent # 0
      <3>1. root # 0 /\ root' = root
        BY <1>1, <1>3, <1>5, <2>2
      <3>2. root \in NodeAddr
        BY <3>1 DEF NodesFit, Begins
      <3>3. Plain(O[root])
        BY <3>1, <3>2, BlocksLaid DEF NodesFit, Begins
      <3> QED  BY <1>1, <1>3, <1>10, <3>1, <3>2, <3>3
    <2> QED  BY <2>1, <2>2
  <1>14. ASSUME NEW B3, NEW W3, B3 = B2, W3 = W2 PROVE Reach(O2, B3, W3)'
    BY <1>7, <1>8, <1>9, <1>10, <1>11, <1>13, <1>14, <1>r DEF Reach
  <1>15. PICK B3, W3 : B3 = B2 /\ W3 = W2
    OBVIOUS
  <1>16. DepthStays(W, W3, node)
    BY <1>10, <1>15 DEF DepthStays
  <1> QED  BY <1>14, <1>15, <1>16

EmptyList(addr)  == [a \in addr \union {0} |-> IF a = 0 THEN <<>> ELSE <<a>>]
EmptyOwned(addr) == [a \in addr |-> NoBlock]

LEMMA EmptyPool ==
    ASSUME NEW per \in Nat \ {0, 1}, NEW most \in Nat, NEW addr, 0 \notin addr
    PROVE  /\ Pool(Empty(addr), EmptyList(addr), EmptyOwned(addr), addr, per, most)
           /\ \A m : m # NoBlock => Begins(EmptyOwned(addr), Empty(addr).next, addr, 0, m)
  <1> DEFINE L == EmptyList(addr)
             O == EmptyOwned(addr)
             next == [a \in addr |-> 0]
             pool == Empty(addr)
  <1>1. pool.blocks = {} /\ pool.free = 0 /\ pool.alloced = 0 /\ pool.next = next
    BY DEF Empty
  <1>2. pool \in PoolType(addr)
    BY DEF Empty, PoolType
  <1>3. /\ O \in [addr -> Int] /\ \A a \in addr : O[a] = NoBlock
        /\ next \in [addr -> addr \union {0}] /\ \A a \in addr : next[a] = 0
    BY DEF EmptyOwned, NoBlock
  <1>4. Follows(L, next, addr)
    <2>1. L \in [addr \union {0} -> Seq(addr)]
      BY Single DEF EmptyList
    <2>2. L[0] = <<>> /\ \A a \in addr : L[a] = <<a>>
      BY DEF EmptyList
    <2>3. \A a \in addr : L[a] = <<a>> \o L[next[a]] /\ Len(L[a]) <= 1
      <3> TAKE a \in addr
      <3>1. <<a>> \o <<>> = <<a>> /\ Len(<<a>>) = 1
        OBVIOUS
      <3>2. next[a] = 0
        BY <1>3
      <3> HIDE DEF next, L
      <3>3. L[next[a]] = <<>> /\ L[a] = <<a>>
        BY <2>2, <3>2
      <3>4. <<a>> \o L[next[a]] = L[a]
        BY <3>1, <3>3, Zenon
      <3>5. Len(L[a]) = 1
        BY <3>1, <3>3, Zenon
      <3> QED  BY <3>4, <3>5
    <2> QED  BY <2>1, <2>2, <2>3 DEF Follows
  <1> HIDE DEF L, O, next, pool
  <1>5. Lists(L, O, next, addr)
    BY <1>3, <1>4 DEF Lists
  <1>6. \A m : m # NoBlock => Begins(O, next, addr, 0, m)
    BY <1>3 DEF Begins
  <1>7. Covered(per, {}) = {} /\ Separate(per, {})
    <2>1. Covered(per, {}) = {}
      BY DEF Covered
    <2>2. Cardinality({}) = 0 /\ per * 0 = 0
      BY FS_EmptySet
    <2> QED  BY <2>1, <2>2 DEF Separate
  <1>8. Free # NoBlock /\ Record # NoBlock
    BY DEF Free, Record, NoBlock
  <1>9. Pool(pool, L, O, addr, per, most)
    <2>1. Begins(O, next, addr, 0, Free) /\ Begins(O, next, addr, 0, Record)
      BY <1>6, <1>8
    <2>2. \A a \in addr : (O[a] = NoBlock <=> a \notin Covered(per, {})) /\ O[a] # Record
      BY <1>3, <1>7, <1>8
    <2> QED  BY <1>1, <1>2, <1>3, <1>5, <1>7, <2>1, <2>2 DEF Pool
  <1> QED  BY <1>1, <1>6, <1>9 DEF L, O, pool

-----------------------------------------------------------------------------

Contained == {NoContent} \union ContentType

\* What the lists, and the nodes below a node, witness of a state.
Fit(L, O, E, P, B, W) ==
    /\ NodesFit(L, O) /\ PropsFit(O, E, P) /\ Reach(O, B, W)
    /\ content \in [PropAddr -> Contained]

Counters == numNodes \in Nat /\ numProperties \in Nat /\ totalPropertySize \in Nat

Walks == [at : NodeAddr, path : Seq(Strings), create : BOOLEAN, asked : Paths]

Walking(O) == walk = NoWalk \/ (walk \in Walks /\ Plain(O[walk.at]))

Fits == Counters /\ \E L, O, E, P, B, W : Fit(L, O, E, P, B, W)

TreeInv == Counters /\ \E L, O, E, P, B, W : Fit(L, O, E, P, B, W) /\ Walking(O)

LEMMA NothingFits == Nothing => Fits
  <1> SUFFICES ASSUME Nothing PROVE Fits
    OBVIOUS
  <1> DEFINE L == EmptyList(NodeAddr)
             O == EmptyOwned(NodeAddr)
             E == EmptyList(PropAddr)
             P == EmptyOwned(PropAddr)
             B == [n \in NodeAddr |-> {n}]
             W == [n \in NodeAddr |-> 0]
  <1>1. /\ nodes = Empty(NodeAddr) /\ props = Empty(PropAddr)
        /\ root = 0 /\ properties = Zero(NodeAddr) /\ lastProp = Zero(NodeAddr)
        /\ children = Zero(NodeAddr) /\ content = [p \in PropAddr |-> NoContent]
        /\ Counters
    BY DEF Nothing, Counters
  <1>2. /\ properties \in [NodeAddr -> PropAddr \union {0}] /\ lastProp \in [NodeAddr -> PropAddr \union {0}]
        /\ children \in [NodeAddr -> NodeAddr \union {0}] /\ content \in [PropAddr -> Contained]
        /\ \A n \in NodeAddr : properties[n] = 0 /\ children[n] = 0
    BY <1>1 DEF Zero, Contained
  <1>3. /\ \A n \in NodeAddr : O[n] = NoBlock
        /\ \A p \in PropAddr : P[p] = NoBlock
        /\ ~ Plain(NoBlock)
    BY DEF EmptyOwned, Plain
  <1>4. /\ Pool(nodes, L, O, NodeAddr, NodesPerBlock, MaxNodeBlocks)
        /\ \A m : m # NoBlock => Begins(O, nodes.next, NodeAddr, 0, m)
    BY <1>1, BlocksLaid, EmptyPool
  <1>5. /\ Pool(props, E, P, PropAddr, PropsPerBlock, MaxPropBlocks)
        /\ \A m : m # NoBlock => Begins(P, props.next, PropAddr, 0, m)
    BY <1>1, BlocksLaid, EmptyPool
  <1>6. \A n \in NodeAddr : n # NoBlock /\ Top # NoBlock
    BY <1>3, BlocksLaid
  <1> HIDE DEF L, O, E, P
  <1>7. NodesFit(L, O)
    BY <1>1, <1>2, <1>3, <1>4, <1>6, BlocksLaid DEF NodesFit
  <1>7a. Top # NoBlock
    BY DEF Top, NoBlock
  <1>8. PropsFit(O, E, P)
    BY <1>2, <1>3, <1>5, <1>6 DEF PropsFit
  <1>9. Reach(O, B, W)
    <2>1. \A n, k \in NodeAddr : O[k] # n
      BY <1>3, <1>6
    <2>2. B \in [NodeAddr -> SUBSET NodeAddr] /\ \A n, x \in NodeAddr : x \in B[n] <=> x = n
      OBVIOUS
    <2>3. W \in [NodeAddr -> Nat] /\ \A n \in NodeAddr : W[n] <= 0
      OBVIOUS
    <2> HIDE DEF B, W
    <2> QED  BY <1>1, <1>3, <2>1, <2>2, <2>3 DEF Reach
  <1> QED  BY <1>1, <1>2, <1>7, <1>8, <1>9 DEF Fit, Fits

\* A block is released when its first entry is found along the links of those
\* that record a block, so all are.
LEMMA AllReleased ==
    ASSUME NEW per \in Nat \ {0, 1}, NEW most \in Nat, NEW addr, addr = 1 .. per * most,
           NEW pool, NEW L, NEW O, Pool(pool, L, O, addr, per, most)
    PROVE  pool.blocks \ Released(pool, per) = {}
  <1>1. /\ pool \in PoolType(addr) /\ pool.blocks \subseteq 0 .. most - 1
        /\ Lists(L, O, pool.next, addr) /\ Begins(O, pool.next, addr, pool.alloced, Record)
        /\ \A a \in addr : O[a] = Record <=> \E b \in pool.blocks : a = b * per + 1
    BY DEF Pool
  <1>2. Chain(pool.next, pool.alloced) = L[pool.alloced]
    <2>1. pool.alloced \in addr \union {0}
      BY <1>1 DEF Begins
    <2> QED  BY <1>1, <2>1, ChainIs
  <1>3. ToSet(L[pool.alloced]) = {x \in addr : O[x] = Record}
    <2> DEFINE h == pool.alloced
               next == pool.next
               kind == Record
    <2> HIDE DEF h, next, kind
    <2>1. Lists(L, O, next, addr) /\ Begins(O, next, addr, h, kind)
      BY <1>1 DEF h, next, kind
    <2>2. ToSet(L[h]) = {x \in addr : O[x] = kind}
      <3>1. L[h] \in Seq(addr) /\ ToSet(L[h]) = {x \in addr : O[x] = kind}
        BY ONLY <2>1, ListIs
      <3> QED  BY <3>1
    <2> QED  BY <2>2 DEF h, kind
  <1>4. ASSUME NEW b \in pool.blocks PROVE b \in Released(pool, per)
    <2>1. b \in Nat /\ b < most
      BY <1>1
    <2>2. b * per + 1 \in addr
      <3> DEFINE f == b * per + 1
                 l == (b + 1) * per
                 t == per * most
      <3>1. f \in Nat /\ l \in Nat /\ f < l /\ f .. l \subseteq 1 .. t
        BY <2>1, BlockFits
      <3> HIDE DEF f, l, t
      <3>2. f \in f .. l
        BY <3>1
      <3> QED  BY <3>1, <3>2 DEF f, t
    <2>3. O[b * per + 1] = Record
      BY <1>1, <2>2
    <2> QED  BY <1>2, <1>3, <2>2, <2>3 DEF Released
  <1> QED  BY <1>4

LEMMA Counting ==
    ASSUME NEW value \in Strings \union {"/"}
    PROVE  Counted(value) \in Nat
  <1>1. StrLen[value] \in Nat
    BY NameAssumption
  <1> DEFINE n == StrLen[value]
  <1> HIDE DEF n
  <1>2. n + 1 + 3 \in Nat /\ (n + 1 + 3) \div 4 \in Nat
    BY <1>1 DEF n
  <1>3. 4 * ((n + 1 + 3) \div 4) \in Nat
    BY <1>2
  <1> QED  BY <1>3 DEF Counted, RoundToLong, Size, n

LEMMA NameIs == "name" \in Names
  BY NameAssumption

\* What an append does to the properties.
PropertyIn(node, name, value) ==
    \A n \in NodeAddr : PropertiesOf(n)' = IF n = node THEN Append(PropertiesOf(n), <<name, value>>)
                                           ELSE PropertiesOf(n)

LEMMA AppendFits ==
    ASSUME NEW O, NEW E, NEW P, PropsFit(O, E, P), content \in [PropAddr -> Contained],
           NEW node \in NodeAddr, Plain(O[node]),
           NEW name \in Names, NEW value \in Strings \union {"/"}, AppendProperty(node, name, value)
    PROVE  /\ \E E2, P2 : PropsFit(O, E2, P2)'
           /\ content' \in [PropAddr -> Contained]
           /\ PropertyIn(node, name, value)
  <1>1. /\ \E E2, P2 : PropsFit(O, E2, P2)'
        /\ content' \in [PropAddr -> Contained \union {<<name, value>>}]
        /\ PropertyIn(node, name, value)
    BY PropertyAppended DEF PropertyIn
  <1>2. Contained \union {<<name, value>>} = Contained
    BY DEF Contained, ContentType
  <1> QED  BY <1>1, <1>2

-----------------------------------------------------------------------------

FirstProps(name) == {<<>>} \union (IF name = NoName THEN {} ELSE {<< <<"name", name>> >>})

ChildNamed(node, name) ==
    \E first \in FirstProps(name) :
        \A n \in NodeAddr : PropertiesOf(n)' = IF n = node THEN first ELSE PropertiesOf(n)

LEMMA OthersOwned ==
    ASSUME NEW O, NEW E, NEW P, PropsFit(O, E, P), NEW O2, NEW parent, NEW node,
           ChildIn(O, O2, parent, node)
    PROVE  PropsFit(O2, E, P) /\ PropertiesOf(node) = <<>>
  <1>1. node \in NodeAddr /\ ~ Plain(O[node])
        /\ \A a \in NodeAddr : a # node /\ (Plain(O[a]) \/ Plain(O2[a])) => O2[a] = O[a]
    BY DEF ChildIn
  <1>2. \A n \in NodeAddr : ~ Plain(O[n]) => properties[n] = 0
    BY DEF PropsFit
  <1>3. \A n \in NodeAddr : ~ Plain(O2[n]) => properties[n] = 0
    BY <1>1, <1>2
  <1>4. PropsFit(O2, E, P)
    BY <1>3 DEF PropsFit
  <1>5. PropertiesOf(node) = <<>>
    <2>1. E[0] = <<>>
      BY DEF PropsFit, Pool, Lists, Follows
    <2>2. PropertiesOf(node) = Contents(E[properties[node]], content)
      BY <1>1, PropertiesAre
    <2>3. PropertiesOf(node) = Contents(<<>>, content)
      BY <1>1, <1>2, <2>1, <2>2
    <2>4. Contents(<<>>, content) = <<>>
      BY DEF Contents
    <2> QED  BY <2>3, <2>4
  <1> QED  BY <1>4, <1>5

LEMMA ChildFits ==
    ASSUME NEW L, NEW O, NEW E, NEW P, NEW B, NEW W, Fit(L, O, E, P, B, W),
           NEW parent \in NodeAddr \union {0}, IF parent = 0 THEN root = 0 ELSE Plain(O[parent]),
           NEW name \in Strings \union {"/", NoName}, LinkChild(parent, name)
    PROVE  \E L2, O2, E2, P2, B2, W2, node :
               /\ Fit(L2, O2, E2, P2, B2, W2)' /\ ChildIn(O, O2, parent, node) /\ ChildNamed(node, name)
               /\ DepthStays(W, W2, node)
  <1>1. NodesFit(L, O) /\ PropsFit(O, E, P) /\ Reach(O, B, W) /\ content \in [PropAddr -> Contained]
    BY DEF Fit
  <1>2. PICK pool \in Ready(nodes, NodesPerBlock, MaxNodeBlocks) :
            /\ IF parent = 0 THEN root' = pool.free /\ children' = children
                             ELSE children' = [children EXCEPT ![parent] = pool.free] /\ root' = root
            /\ IF name = NoName THEN AppendNothing
               ELSE AppendProperty(pool.free, "name", name) \/ AppendNothing
    BY DEF LinkChild
  <1>3. PICK L2, O2, node : NodesFit(L2, O2)' /\ ChildIn(O, O2, parent, node)
    BY <1>1, ChildLinked
  <1>4. PICK B2, W2 : Reach(O2, B2, W2)' /\ DepthStays(W, W2, node)
    BY <1>1, <1>3, ReachChild
  <1>5. PropsFit(O2, E, P) /\ PropertiesOf(node) = <<>>
    BY <1>1, <1>3, OthersOwned
  <1>6. /\ node \in NodeAddr /\ O2[node] = IF parent = 0 THEN Top ELSE parent
        /\ root' = IF parent = 0 THEN node ELSE root
        /\ parent # 0 => children'[parent] = node
    BY <1>3 DEF ChildIn
  <1>7. pool.free = node /\ Plain(O2[node])
    <2>1. CASE parent = 0
      BY <1>2, <1>6, <2>1, BlocksLaid
    <2>2. CASE parent # 0
      <3>1. children' = [children EXCEPT ![parent] = pool.free] /\ children'[parent] = node
            /\ parent \in NodeAddr /\ children \in [NodeAddr -> NodeAddr \union {0}]
        BY <1>1, <1>2, <1>6, <2>2 DEF NodesFit
      <3>2. pool.free = node
        BY <3>1
      <3> QED  BY <1>6, <2>2, <3>1, <3>2, BlocksLaid
    <2> QED  BY <2>1, <2>2
  <1>8. CASE AppendNothing
    <2>1. props' = props /\ properties' = properties /\ lastProp' = lastProp /\ content' = content
      BY <1>8 DEF AppendNothing
    <2>2. PropsFit(O2, E, P)'
      BY <1>5, <2>1 DEF PropsFit
    <2>3. \A n \in NodeAddr : PropertiesOf(n)' = PropertiesOf(n)
      BY <2>1 DEF PropertiesOf, Chain
    <2>4. ChildNamed(node, name)
      <3>1. <<>> \in FirstProps(name)
        BY DEF FirstProps
      <3>2. \A n \in NodeAddr : PropertiesOf(n)' = IF n = node THEN <<>> ELSE PropertiesOf(n)
        BY <1>5, <2>3
      <3> QED  BY <3>1, <3>2 DEF ChildNamed
    <2>5. content' \in [PropAddr -> Contained]
      BY <1>1, <2>1
    <2>6. Fit(L2, O2, E, P, B2, W2)'
      BY <1>3, <1>4, <2>2, <2>5 DEF Fit
    <2> QED  BY <1>3, <1>4, <2>4, <2>6
  <1>9. CASE name # NoName /\ AppendProperty(node, "name", name)
    <2>1. /\ \E E2, P2 : PropsFit(O2, E2, P2)'
          /\ content' \in [PropAddr -> Contained]
          /\ PropertyIn(node, "name", name)
      <3>1. name \in Strings \union {"/"}
        BY <1>9
      <3> QED  BY <1>1, <1>5, <1>6, <1>7, <1>9, <3>1, NameIs, AppendFits
    <2>2. PICK E2, P2 : PropsFit(O2, E2, P2)'
      BY <2>1
    <2>3. ChildNamed(node, name)
      <3> DEFINE first == << <<"name", name>> >>
      <3>1. first \in FirstProps(name)
        BY <1>9 DEF FirstProps
      <3>2. Append(<<>>, <<"name", name>>) = first
        OBVIOUS
      <3>3. \A n \in NodeAddr : PropertiesOf(n)' = IF n = node THEN first ELSE PropertiesOf(n)
        BY <1>5, <2>1, <3>2 DEF PropertyIn
      <3> HIDE DEF first
      <3> QED  BY <3>1, <3>3 DEF ChildNamed
    <2>4. Fit(L2, O2, E2, P2, B2, W2)'
      BY <1>3, <1>4, <2>1, <2>2 DEF Fit
    <2> QED  BY <1>3, <1>4, <2>3, <2>4
  <1> QED  BY <1>2, <1>7, <1>8, <1>9

LEMMA LinkCounts ==
    ASSUME Counters, NEW parent, NEW name \in Strings \union {"/", NoName}, LinkChild(parent, name)
    PROVE  Counters'
  <1>1. numNodes' = numNodes + 1
    BY DEF LinkChild
  <1>2. PICK node : IF name = NoName THEN AppendNothing
                    ELSE AppendProperty(node, "name", name) \/ AppendNothing
    BY DEF LinkChild
  <1>3. CASE AppendNothing
    BY <1>1, <1>3 DEF AppendNothing, Counters
  <1>4. CASE name # NoName /\ AppendProperty(node, "name", name)
    <2>1. numProperties' = numProperties + 1 /\ totalPropertySize' = totalPropertySize + Counted(name)
      BY <1>4 DEF AppendProperty
    <2>2. Counted(name) \in Nat
      BY <1>4, Counting
    <2> QED  BY <1>1, <2>1, <2>2 DEF Counters
  <1> QED  BY <1>2, <1>3, <1>4

LEMMA TreeInit == Init => TreeInv
  <1> SUFFICES ASSUME Init PROVE TreeInv
    OBVIOUS
  <1>1. Fits /\ walk = NoWalk
    BY NothingFits DEF Init
  <1> QED  BY <1>1 DEF Fits, TreeInv, Walking

LEMMA FitRests ==
    ASSUME NEW L, NEW O, NEW E, NEW P, NEW B, NEW W, Fit(L, O, E, P, B, W),
           UNCHANGED <<nodes, props, tree, info>>
    PROVE  Fit(L, O, E, P, B, W)'
  BY DEF Fit, NodesFit, PropsFit, Reach, tree

LEMMA MemberOwned ==
    ASSUME NEW L, NEW O, NEW E, NEW P, NEW B, NEW W, Fit(L, O, E, P, B, W)
    PROVE  \A n : n \in Members <=> n \in NodeAddr /\ Plain(O[n])
  <1>1. Members = {x \in NodeAddr : Plain(O[x])}
    BY MembersAre DEF Fit
  <1> QED  BY <1>1

\* Where a walk is and what is left of its path.
LEMMA WalkIs ==
    ASSUME NEW O, Walking(O), walk # NoWalk
    PROVE  /\ walk \in Walks /\ walk.at \in NodeAddr /\ Plain(O[walk.at])
           /\ walk.path # <<>> => NextName \in Strings /\ RestOfPath \in Seq(Strings)
  <1>1. walk \in Walks /\ walk.at \in NodeAddr /\ Plain(O[walk.at]) /\ walk.path \in Seq(Strings)
    BY DEF Walking, Walks
  <1>2. ASSUME walk.path # <<>> PROVE NextName \in Strings /\ RestOfPath \in Seq(Strings)
    <2>1. Head(walk.path) \in Strings /\ Tail(walk.path) \in Seq(Strings)
      BY <1>1, <1>2
    <2> DEFINE h == Head(walk.path)
               t == Tail(walk.path)
    <2>2. Long(h) => Head30[h] \in Strings /\ Rest30[h] \in Strings
      BY <2>1, NameAssumption DEF Long
    <2>3. NextName = (IF Long(h) THEN Head30[h] ELSE h)
          /\ RestOfPath = (IF Long(h) THEN <<Rest30[h]>> \o t ELSE t)
      BY DEF NextName, RestOfPath
    <2> HIDE DEF h, t
    <2>4. Long(h) => <<Rest30[h]>> \o t \in Seq(Strings)
      <3>1. ASSUME NEW r \in Strings PROVE <<r>> \o t \in Seq(Strings)
        BY <2>1 DEF t
      <3> QED  BY <2>2, <3>1
    <2> QED  BY <2>1, <2>2, <2>3, <2>4 DEF h, t
  <1> QED  BY <1>1, <1>2

LEMMA FinalizeStep ==
    ASSUME Fits, Finalize
    PROVE  Nothing' /\ walk' = NoWalk
  <1>1. PICK L, O, E, P, B, W : Fit(L, O, E, P, B, W)
    BY DEF Fits
  <1>2. nodes.blocks \ Released(nodes, NodesPerBlock) = {}
    <2>1. Pool(nodes, L, O, NodeAddr, NodesPerBlock, MaxNodeBlocks)
      BY <1>1 DEF Fit, NodesFit
    <2> QED  BY <2>1, BlocksLaid, AllReleased
  <1>3. props.blocks \ Released(props, PropsPerBlock) = {}
    <2>1. Pool(props, E, P, PropAddr, PropsPerBlock, MaxPropBlocks)
      BY <1>1 DEF Fit, PropsFit
    <2> QED  BY <2>1, BlocksLaid, AllReleased
  <1>4. \A addr : [Empty(addr) EXCEPT !.blocks = {}] = Empty(addr)
    BY DEF Empty
  <1>5. /\ nodes' = [Empty(NodeAddr) EXCEPT !.blocks = nodes.blocks \ Released(nodes, NodesPerBlock)]
        /\ props' = [Empty(PropAddr) EXCEPT !.blocks = props.blocks \ Released(props, PropsPerBlock)]
    BY DEF Finalize
  <1>6. nodes' = Empty(NodeAddr) /\ props' = Empty(PropAddr)
    BY <1>2, <1>3, <1>4, <1>5
  <1>7. /\ root' = 0 /\ properties' = Zero(NodeAddr) /\ lastProp' = Zero(NodeAddr)
        /\ children' = Zero(NodeAddr) /\ content' = [p \in PropAddr |-> NoContent]
        /\ numNodes' = 0 /\ numProperties' = 0 /\ totalPropertySize' = 0
        /\ walk' = NoWalk
    BY DEF Finalize, Idle
  <1> QED  BY <1>6, <1>7 DEF Nothing

\* The nodes of the tree, now and after the step.
OwnedAre ==
    \A L, O, E, P, B, W : Fit(L, O, E, P, B, W) => \A n : n \in Members <=> n \in NodeAddr /\ Plain(O[n])

LEMMA MembersOwned == OwnedAre
  BY MemberOwned DEF OwnedAre

LEMMA MembersOwnedNext == OwnedAre'
  BY MembersOwned, PTL

LEMMA MemberOwnedNext ==
    ASSUME NEW L, NEW O, NEW E, NEW P, NEW B, NEW W, Fit(L, O, E, P, B, W)'
    PROVE  \A n : n \in Members' <=> n \in NodeAddr /\ Plain(O[n])
  BY MembersOwnedNext DEF OwnedAre

LEMMA NoMembers == ASSUME root = 0 PROVE Members = {}
  BY DEF Members

\* A new child, as the ordered tree sees it.
LEMMA ChildMaps ==
    ASSUME NEW L, NEW O, NEW E, NEW P, NEW B, NEW W, Fit(L, O, E, P, B, W),
           NEW L2, NEW O2, NEW E2, NEW P2, NEW B2, NEW W2, Fit(L2, O2, E2, P2, B2, W2)',
           NEW parent \in NodeAddr \union {0}, IF parent = 0 THEN root = 0 ELSE Plain(O[parent]),
           NEW node, ChildIn(O, O2, parent, node),
           NEW name, ChildNamed(node, name)
    PROVE  Tree!AddChild(parent, name, node)
  <1>1. /\ node \in NodeAddr /\ ~ Plain(O[node]) /\ O2[node] = IF parent = 0 THEN Top ELSE parent
        /\ \A a \in NodeAddr : a # node /\ (Plain(O[a]) \/ Plain(O2[a])) => O2[a] = O[a]
        /\ root' = IF parent = 0 THEN node ELSE root
        /\ \A n \in NodeAddr : Kids(n)' = IF n = parent THEN <<node>> \o Kids(n) ELSE Kids(n)
    BY DEF ChildIn
  <1>2. PICK first \in FirstProps(name) :
            \A n \in NodeAddr : PropertiesOf(n)' = IF n = node THEN first ELSE PropertiesOf(n)
    BY DEF ChildNamed
  <1>3. \A n : n \in Members <=> n \in NodeAddr /\ Plain(O[n])
    BY MemberOwned
  <1>4. \A n : n \in Members' <=> n \in NodeAddr /\ Plain(O2[n])
    BY MemberOwnedNext
  <1>5. Plain(O2[node])
    BY <1>1, BlocksLaid
  <1>6. Members' = Members \union {node} /\ node \notin Members
    <2>1. \A n : n \in Members' <=> n \in Members \union {node}
      BY <1>1, <1>3, <1>4, <1>5
    <2> QED  BY <1>1, <1>3, <2>1
  <1>7. Kids(node) = <<>> /\ node # parent
    <2>1. children[node] = 0
      BY <1>1 DEF Fit, NodesFit
    <2>2. Kids(node) = L[children[node]]
      BY <1>1, KidsAre DEF Fit
    <2>3. L[0] = <<>>
      BY DEF Fit, NodesFit, Pool, Lists, Follows
    <2>4. node # parent
      BY <1>1, BlocksLaid
    <2> QED  BY <2>1, <2>2, <2>3, <2>4
  <1> DEFINE tree1 == [n \in Members |-> Kids(n)]
             attrs1 == [n \in Members |-> PropertiesOf(n)]
  <1>8. Members \subseteq NodeAddr
    BY <1>3
  <1>9. [n \in Members' |-> Kids(n)']
        = [n \in DOMAIN tree1 \union {node} |->
              IF n = node THEN <<>> ELSE IF n = parent THEN <<node>> \o tree1[n] ELSE tree1[n]]
    <2>1. DOMAIN tree1 \union {node} = Members' /\ \A n \in Members : tree1[n] = Kids(n)
      BY <1>6
    <2> HIDE DEF tree1
    <2>2. \A n \in Members' : Kids(n)' = IF n = node THEN <<>>
                                         ELSE IF n = parent THEN <<node>> \o tree1[n] ELSE tree1[n]
      BY <1>1, <1>6, <1>7, <1>8, <2>1
    <2> QED  BY <2>1, <2>2
  <1>10. [n \in Members' |-> PropertiesOf(n)']
         = [n \in Members' |-> IF n = node THEN first ELSE attrs1[n]]
    BY <1>1, <1>2, <1>6, <1>8
  <1> QED  BY <1>1, <1>2, <1>6, <1>9, <1>10 DEF Tree!AddChild, FirstProps

\* What the ordered tree sees of a state.
TreeView == <<[n \in Members |-> Kids(n)], [n \in Members |-> PropertiesOf(n)], root>>

LEMMA Emptied ==
    ASSUME NEW f, DOMAIN f = {}, f = [n \in DOMAIN f |-> f[n]]
    PROVE  f = <<>>
  OBVIOUS

LEMMA ViewRests ==
    ASSUME UNCHANGED <<nodes, props, tree, info>>
    PROVE  UNCHANGED TreeView
  <1>1. \A n : Kids(n)' = Kids(n) /\ PropertiesOf(n)' = PropertiesOf(n)
    BY DEF Kids, PropertiesOf, Chain, tree
  <1>2. Members' = Members /\ root' = root
    BY DEF Members, Kids, Chain, tree
  <1> QED  BY <1>1, <1>2 DEF TreeView

LEMMA NoTree ==
    ASSUME root = 0
    PROVE  [n \in Members |-> Kids(n)] = <<>> /\ [n \in Members |-> PropertiesOf(n)] = <<>>
  <1>1. Members = {}
    BY NoMembers
  <1> DEFINE f == [n \in Members |-> Kids(n)]
             g == [n \in Members |-> PropertiesOf(n)]
  <1>2. DOMAIN f = {} /\ f = [n \in DOMAIN f |-> f[n]] /\ DOMAIN g = {} /\ g = [n \in DOMAIN g |-> g[n]]
    BY <1>1
  <1> HIDE DEF f, g
  <1>3. f = <<>> /\ g = <<>>
    BY <1>2, Emptied
  <1> QED  BY <1>3 DEF f, g

NoTreeIs == root = 0 => [n \in Members |-> Kids(n)] = <<>> /\ [n \in Members |-> PropertiesOf(n)] = <<>>

LEMMA NoTreeNow == NoTreeIs
  BY NoTree DEF NoTreeIs

LEMMA NoTreeNext == NoTreeIs'
  BY NoTreeNow, PTL

\* What every step of the device tree does.
Steps == TreeInv' /\ (Tree!Next \/ UNCHANGED TreeView)

LEMMA Holds ==
    ASSUME TreeInv
    PROVE  Counters /\ Fits /\ \E L, O, E, P, B, W : Fit(L, O, E, P, B, W) /\ Walking(O)
  BY DEF TreeInv, Fits

LEMMA AddsChild ==
    ASSUME TreeInv, NEW parent \in NodeAddr \union {0}, NEW name \in Strings \union {"/", NoName},
           LinkChild(parent, name),
           IF parent = 0 THEN root = 0 ELSE parent \in Members,
           walk' = NoWalk \/ (parent # 0 /\ walk' \in Walks /\ walk'.at = children'[parent])
    PROVE  TreeInv' /\ \E node \in NodeAddr : Tree!AddChild(parent, name, node)
  <1>1. PICK L, O, E, P, B, W : Fit(L, O, E, P, B, W)
    BY Holds DEF Fits
  <1>2. IF parent = 0 THEN root = 0 ELSE Plain(O[parent])
    BY <1>1, MemberOwned
  <1>3. PICK L2, O2, E2, P2, B2, W2, node :
            Fit(L2, O2, E2, P2, B2, W2)' /\ ChildIn(O, O2, parent, node) /\ ChildNamed(node, name)
    BY <1>1, <1>2, ChildFits
  <1>4. Tree!AddChild(parent, name, node)
    BY <1>1, <1>2, <1>3, ChildMaps
  <1>5. Counters'
    BY Holds, LinkCounts
  <1>6. /\ node \in NodeAddr /\ O2[node] = IF parent = 0 THEN Top ELSE parent
        /\ parent # 0 => children'[parent] = node
    BY <1>3 DEF ChildIn
  <1>7. parent # 0 => Plain(O2[children'[parent]])
    BY <1>6, BlocksLaid
  <1>8. Walking(O2)'
    BY <1>7 DEF Walking
  <1>9. TreeInv'
    BY <1>3, <1>5, <1>8 DEF TreeInv
  <1> QED  BY <1>4, <1>6, <1>9

LEMMA StepInitialize == ASSUME TreeInv, Initialize PROVE Steps
  <1>1. root = 0 /\ LinkChild(0, "/") /\ walk' = NoWalk
    BY DEF Initialize, Idle
  <1>2. TreeInv' /\ \E node \in NodeAddr : Tree!AddChild(0, "/", node)
    BY <1>1, AddsChild
  <1>3. [n \in Members |-> Kids(n)] = <<>>
    BY <1>1, NoTree
  <1> QED  BY <1>2, <1>3 DEF Steps, Tree!Next

LEMMA InMembers ==
    ASSUME TreeInv
    PROVE  /\ Members \subseteq NodeAddr
           /\ DOMAIN [n \in Members |-> Kids(n)] = Members
           /\ \A n \in Members : n # 0 /\ root # 0
  <1>1. PICK L, O, E, P, B, W : Fit(L, O, E, P, B, W)
    BY Holds DEF Fits
  <1>2. \A n : n \in Members <=> n \in NodeAddr /\ Plain(O[n])
    BY <1>1, MemberOwned
  <1>3. root = 0 => Members = {}
    BY NoMembers
  <1> QED  BY <1>2, <1>3, BlocksLaid

LEMMA StepAddChild ==
    ASSUME TreeInv, NEW parent \in Members, NEW name \in Strings \union {NoName},
           AddChild(parent, name)
    PROVE  Steps
  <1>1. LinkChild(parent, name) /\ walk' = NoWalk
    BY DEF AddChild, Idle
  <1>2. parent \in NodeAddr /\ parent # 0 /\ DOMAIN [n \in Members |-> Kids(n)] = Members
    BY InMembers
  <1>3. TreeInv' /\ \E node \in NodeAddr : Tree!AddChild(parent, name, node)
    BY <1>1, <1>2, AddsChild
  <1>4. Tree!Next
    BY <1>2, <1>3 DEF Tree!Next
  <1> QED  BY <1>3, <1>4 DEF Steps

LEMMA MembersRest ==
    ASSUME nodes' = nodes, root' = root, children' = children
    PROVE  Members' = Members
  BY DEF Members, Kids, Chain

LEMMA StepAddProperty ==
    ASSUME TreeInv, NEW node \in Members, NEW name \in Names, NEW value \in Strings,
           AddProperty(node, name, value)
    PROVE  Steps
  <1>1. PICK L, O, E, P, B, W : Fit(L, O, E, P, B, W)
    BY Holds DEF Fits
  <1>2. /\ AppendProperty(node, name, value) /\ walk = NoWalk /\ walk' = walk
        /\ nodes' = nodes /\ root' = root /\ children' = children /\ numNodes' = numNodes
    BY DEF AddProperty, Idle
  <1>3. node \in NodeAddr /\ Plain(O[node])
    BY <1>1, MemberOwned
  <1>4. /\ NodesFit(L, O) /\ PropsFit(O, E, P) /\ Reach(O, B, W)
        /\ content \in [PropAddr -> Contained]
    BY <1>1 DEF Fit
  <1>5. /\ \E E2, P2 : PropsFit(O, E2, P2)'
        /\ content' \in [PropAddr -> Contained]
        /\ PropertyIn(node, name, value)
    BY <1>2, <1>3, <1>4, AppendFits
  <1>6. PICK E2, P2 : PropsFit(O, E2, P2)'
    BY <1>5
  <1>7. NodesFit(L, O)' /\ Reach(O, B, W)'
    BY <1>2, <1>4 DEF NodesFit, Reach
  <1>8. Fit(L, O, E2, P2, B, W)'
    BY <1>5, <1>6, <1>7 DEF Fit
  <1>9. Counters'
    <2>1. numProperties' = numProperties + 1 /\ totalPropertySize' = totalPropertySize + Counted(value)
      BY <1>2 DEF AppendProperty
    <2>2. Counted(value) \in Nat
      BY Counting
    <2> QED  BY <1>2, <2>1, <2>2, Holds DEF Counters
  <1>10. TreeInv'
    <2>1. Walking(O)'
      BY <1>2 DEF Walking
    <2> QED  BY <1>8, <1>9, <2>1 DEF TreeInv
  <1>11. Members' = Members
    BY <1>2, MembersRest
  <1>12. \A n : Kids(n)' = Kids(n)
    BY <1>2 DEF Kids, Chain
  <1> DEFINE tree1 == [n \in Members |-> Kids(n)]
             attrs1 == [n \in Members |-> PropertiesOf(n)]
  <1>13. [n \in Members' |-> Kids(n)'] = tree1
    BY <1>11, <1>12
  <1>14. [n \in Members' |-> PropertiesOf(n)']
         = [attrs1 EXCEPT ![node] = Append(@, <<name, value>>)]
    <2>1. \A n \in Members : PropertiesOf(n)' = IF n = node THEN Append(PropertiesOf(n), <<name, value>>)
                                                ELSE PropertiesOf(n)
      BY <1>5, InMembers DEF PropertyIn
    <2>2. [n \in Members' |-> PropertiesOf(n)']
          = [n \in Members |-> IF n = node THEN Append(PropertiesOf(n), <<name, value>>)
                               ELSE PropertiesOf(n)]
      BY <1>11, <2>1
    <2>3. [attrs1 EXCEPT ![node] = Append(@, <<name, value>>)]
          = [n \in Members |-> IF n = node THEN Append(PropertiesOf(n), <<name, value>>)
                               ELSE PropertiesOf(n)]
      OBVIOUS
    <2> QED  BY <2>2, <2>3
  <1>15. Tree!AddProperty(node, name, value)
    BY <1>2, <1>13, <1>14 DEF Tree!AddProperty
  <1>16. Tree!Next
    BY <1>15, InMembers DEF Tree!Next
  <1> QED  BY <1>10, <1>16 DEF Steps

\* The steps of a search that only read the tree.
LEMMA OnlyReads ==
    ASSUME TreeInv, UNCHANGED <<nodes, props, tree, info>>,
           \/ walk' = NoWalk
           \/ walk' \in Walks /\ walk'.at \in Members
    PROVE  Steps
  <1>1. PICK L, O, E, P, B, W : Fit(L, O, E, P, B, W)
    BY Holds DEF Fits
  <1>2. Fit(L, O, E, P, B, W)'
    BY <1>1, FitRests
  <1>3. walk' = NoWalk \/ (walk' \in Walks /\ Plain(O[walk'.at]))
    BY <1>1, MemberOwned
  <1>4. Walking(O)'
    BY <1>3 DEF Walking
  <1>5. Counters'
    BY Holds DEF Counters, info
  <1>6. TreeInv'
    BY <1>2, <1>4, <1>5 DEF TreeInv
  <1> QED  BY <1>6, ViewRests DEF Steps

\* A walk stands at a node of the tree, and its children are in the tree.
LEMMA WalkStands ==
    ASSUME TreeInv, walk # NoWalk
    PROVE  /\ walk \in Walks /\ walk.at \in Members /\ walk.at \in NodeAddr /\ walk.at # 0
           /\ walk.path # <<>> => NextName \in Strings /\ RestOfPath \in Seq(Strings)
           /\ Kids(walk.at) \in Seq(Members)
  <1>1. PICK L, O, E, P, B, W : Fit(L, O, E, P, B, W) /\ Walking(O)
    BY Holds
  <1>2. /\ walk \in Walks /\ walk.at \in NodeAddr /\ Plain(O[walk.at])
        /\ walk.path # <<>> => NextName \in Strings /\ RestOfPath \in Seq(Strings)
    BY <1>1, WalkIs
  <1>3. \A n : n \in Members <=> n \in NodeAddr /\ Plain(O[n])
    BY <1>1, MemberOwned
  <1>4. Kids(walk.at) \in Seq(NodeAddr)
        /\ \A x : x \in ToSet(Kids(walk.at)) <=> x \in NodeAddr /\ O[x] = walk.at
    BY <1>1, <1>2, KidsAre DEF Fit
  <1>5. \A x \in ToSet(Kids(walk.at)) : x \in Members
    BY <1>2, <1>3, <1>4, BlocksLaid
  <1>6. Kids(walk.at) \in Seq(Members)
    <2> DEFINE s == Kids(walk.at)
    <2>1. s \in Seq(NodeAddr) /\ \A x \in ToSet(s) : x \in Members
      BY <1>4, <1>5
    <2> HIDE DEF s
    <2>2. \A i \in 1 .. Len(s) : s[i] \in Members
      BY <2>1 DEF ToSet
    <2>3. s = [i \in 1 .. Len(s) |-> s[i]] /\ Len(s) \in Nat
      BY <2>1
    <2>4. s \in Seq(Members)
      BY <2>2, <2>3
    <2> QED  BY <2>4 DEF s
  <1> QED  BY <1>2, <1>3, <1>6, BlocksLaid

LEMMA StepFind ==
    ASSUME TreeInv, NEW path \in Paths, NEW create \in BOOLEAN, Find(path, create)
    PROVE  Steps
  <1>1. PICK L, O, E, P, B, W : Fit(L, O, E, P, B, W)
    BY Holds DEF Fits
  <1>2. root # 0 /\ walk' = [at |-> root, path |-> path, create |-> create, asked |-> path]
        /\ UNCHANGED <<nodes, props, tree, info>>
    BY DEF Find
  <1>3. root \in NodeAddr /\ O[root] = Top
    BY <1>1, <1>2 DEF Fit, NodesFit, Begins
  <1>4. root \in Members
    BY <1>1, <1>3, MemberOwned, BlocksLaid
  <1>5. walk' \in Walks /\ walk'.at = root
    BY <1>2, <1>3, NameAssumption DEF Walks
  <1> QED  BY <1>2, <1>4, <1>5, OnlyReads

LEMMA StepFindStep == ASSUME TreeInv, FindStep PROVE Steps
  <1> DEFINE s == Kids(walk.at)
             N == Named(walk.at, NextName)
  <1>1. /\ walk # NoWalk /\ walk.path # <<>> /\ N # {}
        /\ walk' = [walk EXCEPT !.at = s[Min(N)], !.path = RestOfPath]
        /\ UNCHANGED <<nodes, props, tree, info>>
    BY DEF FindStep
  <1>2. walk \in Walks /\ RestOfPath \in Seq(Strings) /\ s \in Seq(Members)
    BY <1>1, WalkStands
  <1>3. N \subseteq DOMAIN s
    BY DEF Named
  <1> HIDE DEF s, N
  <1>4. N \in SUBSET Nat
    BY <1>2, <1>3
  <1>5. \E m \in N : \A k \in N : m <= k
    BY <1>1, <1>4, LeastNat
  <1>6. Min(N) \in N
    BY <1>5 DEF Min
  <1>7. s[Min(N)] \in Members /\ s[Min(N)] \in NodeAddr
    BY <1>2, <1>3, <1>6, InMembers
  <1>8. walk' \in Walks /\ walk'.at = s[Min(N)]
    BY <1>1, <1>2, <1>7 DEF Walks
  <1> QED  BY <1>1, <1>7, <1>8, OnlyReads

LEMMA StepFindCreate == ASSUME TreeInv, FindCreate PROVE Steps
  <1>1. /\ walk # NoWalk /\ walk.path # <<>>
        /\ LinkChild(walk.at, NextName)
        /\ walk' = [walk EXCEPT !.at = children'[walk.at], !.path = RestOfPath]
    BY DEF FindCreate
  <1>2. /\ walk \in Walks /\ walk.at \in Members /\ walk.at \in NodeAddr /\ walk.at # 0
        /\ NextName \in Strings /\ RestOfPath \in Seq(Strings)
    BY <1>1, WalkStands
  <1> DEFINE parent == walk.at
             name == NextName
  <1> HIDE DEF parent, name
  <1>3. children'[parent] \in NodeAddr
    <2>1. PICK L, O, E, P, B, W : Fit(L, O, E, P, B, W)
      BY Holds DEF Fits
    <2>2. Plain(O[parent]) /\ parent # 0 /\ parent \in NodeAddr
      BY <1>2, <2>1, MemberOwned DEF parent
    <2>3. LinkChild(parent, name) /\ name \in Strings \union {"/", NoName}
      BY <1>1, <1>2 DEF parent, name
    <2>4. PICK L2, O2, E2, P2, B2, W2, node :
              Fit(L2, O2, E2, P2, B2, W2)' /\ ChildIn(O, O2, parent, node) /\ ChildNamed(node, name)
      BY <2>1, <2>2, <2>3, ChildFits
    <2> QED  BY <2>2, <2>4 DEF ChildIn
  <1>4. walk' \in Walks /\ walk'.at = children'[parent]
    BY <1>1, <1>2, <1>3 DEF Walks, parent
  <1>5. TreeInv' /\ \E node \in NodeAddr : Tree!AddChild(parent, name, node)
    BY <1>1, <1>2, <1>4, AddsChild DEF parent, name
  <1>6. DOMAIN [n \in Members |-> Kids(n)] = Members
    OBVIOUS
  <1>7. Tree!Next
    BY <1>2, <1>5, <1>6 DEF Tree!Next, parent, name
  <1> QED  BY <1>5, <1>7 DEF Steps

LEMMA StepFindEnd == ASSUME TreeInv, FindEnd PROVE Steps
  BY OnlyReads DEF FindEnd

LEMMA NothingFitsNext == Nothing' => Fits'
  BY NothingFits, PTL

LEMMA StepFinalize == ASSUME TreeInv, Finalize PROVE Steps
  <1>1. Nothing' /\ walk' = NoWalk
    BY Holds, FinalizeStep
  <1>2. Fits'
    BY <1>1, NothingFitsNext
  <1>3. TreeInv'
    BY <1>1, <1>2 DEF Fits, TreeInv, Walking
  <1>4. root' = 0
    BY <1>1 DEF Nothing
  <1>5. [n \in Members |-> Kids(n)]' = <<>> /\ [n \in Members |-> PropertiesOf(n)]' = <<>>
    BY <1>4, NoTreeNext DEF NoTreeIs
  <1>6. Tree!Finalize
    BY <1>4, <1>5 DEF Tree!Finalize
  <1> QED  BY <1>3, <1>6 DEF Steps, Tree!Next

LEMMA TreeStep == ASSUME TreeInv, Next PROVE Steps
  BY StepInitialize, StepAddChild, StepAddProperty, StepFind, StepFindStep, StepFindCreate,
     StepFindEnd, StepFinalize DEF Next

LEMMA ListsApart ==
    ASSUME NEW S, NEW T, IsFiniteSet(S), IsFiniteSet(T), S \cap T = {}
    PROVE  IsFiniteSet(S \union T) /\ Cardinality(S \union T) = Cardinality(S) + Cardinality(T)
  <1>1. IsFiniteSet(S \union T)
        /\ Cardinality(S \union T) = Cardinality(S) + Cardinality(T) - Cardinality(S \cap T)
    BY FS_Union
  <1>2. Cardinality(S \cap T) = 0
    BY FS_EmptySet
  <1>3. Cardinality(S) \in Nat /\ Cardinality(T) \in Nat
    BY FS_CardinalityType
  <1> QED  BY <1>1, <1>2, <1>3

LEMMA EntriesIn ==
    ASSUME NEW per \in Nat \ {0, 1}, NEW most \in Nat, NEW taken, taken \subseteq 0 .. most - 1
    PROVE  Covered(per, taken) \subseteq 1 .. per * most
  <1>1. \A c \in taken : c \in Nat /\ c < most
    OBVIOUS
  <1>2. \A c \in taken : c * per + 1 .. (c + 1) * per \subseteq 1 .. per * most
    BY <1>1, BlockFits
  <1> QED  BY <1>2 DEF Covered

\* An entry of a block records it, is free or is used, and no entry is two of these.
LEMMA PoolPartitioned ==
    ASSUME NEW per \in Nat \ {0, 1}, NEW most \in Nat, NEW addr, addr = 1 .. per * most,
           NEW pool, NEW L, NEW O, Pool(pool, L, O, addr, per, most),
           NEW used, \A x : x \in used <=> x \in addr /\ Plain(O[x])
    PROVE  Partitioned(pool, per, used)
  <1>1. /\ pool \in PoolType(addr) /\ pool.blocks \subseteq 0 .. most - 1
        /\ Lists(L, O, pool.next, addr)
        /\ Begins(O, pool.next, addr, pool.free, Free)
        /\ Begins(O, pool.next, addr, pool.alloced, Record)
        /\ \A a \in addr : O[a] = NoBlock <=> a \notin Covered(per, pool.blocks)
        /\ Separate(per, pool.blocks)
    BY DEF Pool
  <1> DEFINE records == ToSet(Chain(pool.next, pool.alloced))
             idle == ToSet(Chain(pool.next, pool.free))
  <1>2. records = {x \in addr : O[x] = Record}
    <2> DEFINE h == pool.alloced
               next == pool.next
               l == Record
    <2> HIDE DEF h, next, l
    <2>1. Lists(L, O, next, addr) /\ Begins(O, next, addr, h, l) /\ h \in addr \union {0}
      BY <1>1 DEF h, next, l, Begins
    <2>2. L[h] \in Seq(addr) /\ ToSet(L[h]) = {x \in addr : O[x] = l}
      BY ONLY <2>1, ListIs
    <2>3. Chain(next, h) = L[h]
      BY ONLY <2>1, ChainIs
    <2> QED  BY <2>2, <2>3 DEF h, next, l
  <1>3. idle = {x \in addr : O[x] = Free}
    <2> DEFINE h == pool.free
               next == pool.next
               l == Free
    <2> HIDE DEF h, next, l
    <2>1. Lists(L, O, next, addr) /\ Begins(O, next, addr, h, l) /\ h \in addr \union {0}
      BY <1>1 DEF h, next, l, Begins
    <2>2. L[h] \in Seq(addr) /\ ToSet(L[h]) = {x \in addr : O[x] = l}
      BY ONLY <2>1, ListIs
    <2>3. Chain(next, h) = L[h]
      BY ONLY <2>1, ChainIs
    <2> QED  BY <2>2, <2>3 DEF h, next, l
  <1> HIDE DEF records, idle
  <1>4. used = {x \in addr : Plain(O[x])}
    OBVIOUS
  <1>5. Covered(per, pool.blocks) \subseteq addr
    BY <1>1, EntriesIn
  <1>6. records \union idle \union used = Covered(per, pool.blocks)
    <2>1. \A x : x \in records \union idle \union used <=> x \in addr /\ O[x] # NoBlock
      BY <1>2, <1>3, <1>4 DEF Plain, Free, Record, NoBlock
    <2> QED  BY <1>1, <1>5, <2>1
  <1>7. records \cap idle = {} /\ (records \union idle) \cap used = {}
    BY <1>2, <1>3, <1>4 DEF Plain, Free, Record
  <1>8. IsFiniteSet(records) /\ IsFiniteSet(idle) /\ IsFiniteSet(used)
    <2>1. IsFiniteSet(addr)
      <3>1. per * most \in Int
        OBVIOUS
      <3> QED  BY <3>1, FS_Interval
    <2>2. records \subseteq addr /\ idle \subseteq addr /\ used \subseteq addr
      BY <1>2, <1>3, <1>4
    <2> QED  BY <2>1, <2>2, FS_Subset
  <1>9. Cardinality(records) + Cardinality(idle) + Cardinality(used) = per * Cardinality(pool.blocks)
    <2>1. IsFiniteSet(records \union idle)
          /\ Cardinality(records \union idle) = Cardinality(records) + Cardinality(idle)
      BY <1>7, <1>8, ListsApart
    <2>2. Cardinality((records \union idle) \union used) = Cardinality(records \union idle) + Cardinality(used)
      BY <1>7, <1>8, <2>1, ListsApart
    <2>3. Cardinality(Covered(per, pool.blocks)) = per * Cardinality(pool.blocks)
      BY <1>1 DEF Separate
    <2> QED  BY <1>6, <2>1, <2>2, <2>3
  <1> QED  BY <1>6, <1>9 DEF Partitioned, Covered, records, idle

LEMMA TreePartitioned == TreeInv => PoolsPartitioned
  <1> SUFFICES ASSUME TreeInv PROVE PoolsPartitioned
    OBVIOUS
  <1>1. PICK L, O, E, P, B, W : Fit(L, O, E, P, B, W)
    BY Holds DEF Fits
  <1>2. NodesFit(L, O) /\ PropsFit(O, E, P)
    BY <1>1 DEF Fit
  <1>3. \A n : n \in Members <=> n \in NodeAddr /\ Plain(O[n])
    BY <1>1, MemberOwned
  <1>4. Partitioned(nodes, NodesPerBlock, Members)
    <2>1. Pool(nodes, L, O, NodeAddr, NodesPerBlock, MaxNodeBlocks)
      BY <1>2 DEF NodesFit
    <2> QED  BY <1>3, <2>1, BlocksLaid, PoolPartitioned
  <1> DEFINE used == UNION {ToSet(Chain(props.next, properties[n])) : n \in Members}
  <1>5. \A n \in NodeAddr : \A x : x \in ToSet(Chain(props.next, properties[n])) <=> x \in PropAddr /\ P[x] = n
    <2> TAKE n \in NodeAddr
    <2>1. Chain(props.next, properties[n]) = E[properties[n]]
          /\ \A x : x \in ToSet(E[properties[n]]) <=> x \in PropAddr /\ P[x] = n
      BY <1>2, PropertiesAre
    <2> QED  BY <2>1
  <1>6. \A x \in PropAddr : Plain(P[x]) => P[x] \in Members
    <2> SUFFICES ASSUME NEW x \in PropAddr, Plain(P[x]), P[x] \notin Members PROVE FALSE
      OBVIOUS
    <2>1. P[x] \in NodeAddr /\ properties[P[x]] = 0
      BY <1>2, <1>3 DEF PropsFit
    <2>2. E[0] = <<>>
      BY <1>2 DEF PropsFit, Pool, Lists, Follows
    <2>3. x \in ToSet(E[properties[P[x]]])
      BY <1>2, <2>1, PropertiesAre
    <2> QED  BY <2>1, <2>2, <2>3 DEF ToSet
  <1>7. \A x : x \in used <=> x \in PropAddr /\ Plain(P[x])
    <2>1. \A x : x \in used => x \in PropAddr /\ Plain(P[x])
      BY <1>3, <1>5, BlocksLaid
    <2>2. \A x : x \in PropAddr /\ Plain(P[x]) => x \in used
      BY <1>3, <1>5, <1>6
    <2> QED  BY <2>1, <2>2
  <1>8. Partitioned(props, PropsPerBlock, used)
    <2>1. Pool(props, E, P, PropAddr, PropsPerBlock, MaxPropBlocks)
      BY <1>2 DEF PropsFit
    <2> HIDE DEF used
    <2> QED  BY <1>7, <2>1, BlocksLaid, PoolPartitioned
  <1> QED  BY <1>4, <1>8 DEF PoolsPartitioned

LEMMA TreeTypes == TreeInv => TypeOK
  <1> SUFFICES ASSUME TreeInv PROVE TypeOK
    OBVIOUS
  <1>1. PICK L, O, E, P, B, W : Fit(L, O, E, P, B, W) /\ Walking(O)
    BY Holds
  <1>2. /\ nodes \in PoolType(NodeAddr) /\ nodes.blocks \subseteq 0 .. MaxNodeBlocks - 1
        /\ props \in PoolType(PropAddr) /\ props.blocks \subseteq 0 .. MaxPropBlocks - 1
        /\ root \in NodeAddr \union {0}
        /\ properties \in [NodeAddr -> PropAddr \union {0}]
        /\ lastProp \in [NodeAddr -> PropAddr \union {0}]
        /\ children \in [NodeAddr -> NodeAddr \union {0}]
        /\ content \in [PropAddr -> Contained]
    BY <1>1 DEF Fit, NodesFit, PropsFit, Pool, Begins
  <1>3. \A p \in PropAddr : content[p] = NoContent \/ content[p] \in Names \X (Strings \union {"/"})
    BY <1>2 DEF Contained, ContentType
  <1>4. walk = NoWalk \/ (walk.at \in NodeAddr /\ ToSet(walk.path) \subseteq Strings /\ walk.create \in BOOLEAN)
    <2> SUFFICES ASSUME walk # NoWalk
                 PROVE  walk.at \in NodeAddr /\ ToSet(walk.path) \subseteq Strings /\ walk.create \in BOOLEAN
      OBVIOUS
    <2>1. walk.at \in NodeAddr /\ walk.path \in Seq(Strings) /\ walk.create \in BOOLEAN
      BY <1>1 DEF Walking, Walks
    <2> QED  BY <2>1 DEF ToSet
  <1>5. Counters
    BY Holds
  <1> QED  BY <1>2, <1>3, <1>4, <1>5 DEF TypeOK, Counters

\* f has, for i up to n, the nodes that the first i names of p may mean.
Levels(f, O, p, n) ==
    /\ f \in [0 .. n -> SUBSET NodeAddr] /\ f[0] = {root}
    /\ \A i \in 1 .. n : \A x \in NodeAddr : x \in f[i] <=> O[x] \in f[i - 1] /\ GetName(x) = p[i]

LEMMA LevelAdded ==
    ASSUME NEW O, NEW p, NEW n \in Nat, NEW f, Levels(f, O, p, n)
    PROVE  \E g : Levels(g, O, p, n + 1)
  <1> DEFINE new == {x \in NodeAddr : O[x] \in f[n] /\ GetName(x) = p[n + 1]}
             g == [i \in 0 .. n + 1 |-> IF i = n + 1 THEN new ELSE f[i]]
  <1>1. f \in [0 .. n -> SUBSET NodeAddr] /\ f[0] = {root}
        /\ \A i \in 1 .. n : \A x \in NodeAddr : x \in f[i] <=> O[x] \in f[i - 1] /\ GetName(x) = p[i]
    BY DEF Levels
  <1>2. /\ \A i \in 0 .. n : i \in 0 .. n + 1 /\ i # n + 1
        /\ n + 1 \in 0 .. n + 1 /\ n \in 0 .. n /\ 0 \in 0 .. n
        /\ \A i \in 0 .. n + 1 : i = n + 1 \/ i \in 0 .. n
        /\ \A i \in 1 .. n + 1 : i = n + 1 \/ i \in 1 .. n
        /\ \A i \in 1 .. n : i \in 0 .. n /\ i - 1 \in 0 .. n
        /\ n + 1 - 1 = n
    OBVIOUS
  <1>3. g[n + 1] = new /\ \A i \in 0 .. n : g[i] = f[i]
    BY <1>2
  <1>4. new \in SUBSET NodeAddr
    OBVIOUS
  <1>5. \A i \in 0 .. n + 1 : g[i] \in SUBSET NodeAddr
    <2> HIDE DEF g, new
    <2> QED  BY <1>1, <1>2, <1>3, <1>4
  <1>6. g \in [0 .. n + 1 -> SUBSET NodeAddr]
    <2>1. g = [i \in 0 .. n + 1 |-> g[i]]
      OBVIOUS
    <2> HIDE DEF g, new
    <2> QED  BY <1>5, <2>1
  <1>7. \A x \in NodeAddr : x \in new <=> O[x] \in f[n] /\ GetName(x) = p[n + 1]
    OBVIOUS
  <1> HIDE DEF g, new
  <1>8. ASSUME NEW i \in 1 .. n + 1, NEW x \in NodeAddr
        PROVE  x \in g[i] <=> O[x] \in g[i - 1] /\ GetName(x) = p[i]
    <2>1. CASE i = n + 1
      BY <1>2, <1>3, <1>7, <2>1
    <2>2. CASE i \in 1 .. n
      <3>1. g[i] = f[i] /\ g[i - 1] = f[i - 1]
        BY <1>2, <1>3, <2>2
      <3> QED  BY <1>1, <2>2, <3>1
    <2> QED  BY <1>2, <2>1, <2>2
  <1>9. Levels(g, O, p, n + 1)
    BY <1>1, <1>2, <1>3, <1>6, <1>8 DEF Levels
  <1> QED  BY <1>9

LEMMA LevelsUpTo ==
    ASSUME root \in NodeAddr, NEW O, NEW p
    PROVE  \A n \in Nat : \E f : Levels(f, O, p, n)
  <1> DEFINE Bad == {n \in Nat : ~ \E f : Levels(f, O, p, n)}
  <1> SUFFICES ASSUME Bad # {} PROVE FALSE
    OBVIOUS
  <1>1. PICK m \in Bad : \A k \in Bad : m <= k
    <2>1. Bad \in SUBSET Nat
      OBVIOUS
    <2> HIDE DEF Bad
    <2> QED  BY <2>1, LeastNat
  <1>2. m \in Nat /\ ~ \E f : Levels(f, O, p, m)
    OBVIOUS
  <1>3. \A k \in Nat : k < m => \E f : Levels(f, O, p, k)
    <2> TAKE k \in Nat
    <2>1. k \in Bad => ~ (k < m)
      <3> HIDE DEF Bad
      <3>1. k \in Bad => m <= k
        BY <1>1
      <3> QED  BY <1>2, <3>1
    <2> QED  BY <2>1
  <1> HIDE DEF Bad
  <1>4. CASE m = 0
    <2> DEFINE f == [i \in 0 .. 0 |-> {root}]
    <2>1. f \in [0 .. 0 -> SUBSET NodeAddr] /\ f[0] = {root} /\ \A i \in 1 .. 0 : FALSE
      OBVIOUS
    <2> HIDE DEF f
    <2>2. Levels(f, O, p, 0)
      BY <2>1 DEF Levels
    <2> QED  BY <1>2, <1>4, <2>2
  <1>5. CASE m # 0
    <2>1. m - 1 \in Nat /\ m - 1 < m /\ m - 1 + 1 = m
      BY <1>2, <1>5
    <2>2. PICK f : Levels(f, O, p, m - 1)
      BY <1>3, <2>1
    <2>3. \E g : Levels(g, O, p, m - 1 + 1)
      BY <2>1, <2>2, LevelAdded
    <2> QED  BY <1>2, <2>1, <2>3
  <1> QED  BY <1>4, <1>5

\* The recursion of Answering has one solution.
LEMMA AnsweringIs ==
    ASSUME NEW L, NEW O, NodesFit(L, O), NEW q \in Seq(Strings),
           NEW f, Levels(f, O, q, Len(q))
    PROVE  Answering(q) = f[Len(q)]
  <1>1. \A n \in NodeAddr : \A x : x \in ToSet(Kids(n)) <=> x \in NodeAddr /\ O[x] = n
    BY KidsAre
  <1>2. /\ f \in [0 .. Len(q) -> SUBSET NodeAddr] /\ f[0] = {root}
        /\ \A i \in 1 .. Len(q) : \A x \in NodeAddr : x \in f[i] <=> O[x] \in f[i - 1] /\ GetName(x) = q[i]
    BY DEF Levels
  <1> DEFINE last == Len(q)
             level(n, i) == {k \in ToSet(Kids(n)) : GetName(k) = q[i]}
             step(G) == [i \in 0 .. last |-> IF i = 0 THEN {root}
                                             ELSE UNION {level(n, i) : n \in G[i - 1]}]
             at == CHOOSE G : G = step(G)
  <1>3. last \in Nat
    OBVIOUS
  <1>4. /\ 0 \in 0 .. last /\ \A i \in 0 .. last : i = 0 \/ i \in 1 .. last
        /\ \A i \in 1 .. last : i \in 0 .. last /\ i # 0 /\ i - 1 \in 0 .. last /\ i - 1 < i
    BY <1>3
  <1>5. ASSUME NEW i \in 1 .. last PROVE f[i] = UNION {level(n, i) : n \in f[i - 1]}
    <2>1. f[i] \in SUBSET NodeAddr /\ f[i - 1] \in SUBSET NodeAddr
      BY <1>2, <1>4
    <2>2. \A n \in NodeAddr : \A x : x \in level(n, i) <=> x \in NodeAddr /\ O[x] = n /\ GetName(x) = q[i]
      BY <1>1
    <2> HIDE DEF level
    <2>3. \A x : x \in UNION {level(n, i) : n \in f[i - 1]}
                 <=> x \in NodeAddr /\ O[x] \in f[i - 1] /\ GetName(x) = q[i]
      BY <2>1, <2>2
    <2>4. \A x \in NodeAddr : x \in f[i] <=> O[x] \in f[i - 1] /\ GetName(x) = q[i]
      BY <1>2
    <2> QED  BY <2>1, <2>3, <2>4
  <1>6. f = step(f)
    <2> HIDE DEF level
    <2>1. \A i \in 0 .. last : f[i] = IF i = 0 THEN {root} ELSE UNION {level(n, i) : n \in f[i - 1]}
      BY <1>2, <1>4, <1>5
    <2>2. f = [i \in 0 .. last |-> f[i]]
      BY <1>2
    <2> QED  BY <2>1, <2>2
  <1>7. at = step(at)
    <2> HIDE DEF step
    <2> QED  BY <1>6
  <1>8. \A i \in 0 .. last : at[i] = IF i = 0 THEN {root} ELSE UNION {level(n, i) : n \in at[i - 1]}
    <2> HIDE DEF at, level
    <2> QED  BY <1>7
  <1>9. Answering(q) = at[last]
    BY DEF Answering
  <1> HIDE DEF at, step, level
  <1> DEFINE Bad == {i \in 0 .. last : at[i] # f[i]}
  <1>10. Bad = {}
    <2> SUFFICES ASSUME Bad # {} PROVE FALSE
      OBVIOUS
    <2>1. PICK m \in Bad : \A k \in Bad : m <= k
      <3>1. Bad \in SUBSET Nat
        BY <1>3
      <3> HIDE DEF Bad
      <3> QED  BY <3>1, LeastNat
    <2>2. m \in 0 .. last /\ at[m] # f[m]
      OBVIOUS
    <2>3. m \in 1 .. last
      BY <1>2, <1>4, <1>8, <2>2
    <2>4. m - 1 \in 0 .. last /\ m - 1 \notin Bad
      <3> HIDE DEF Bad
      <3>1. m - 1 \in Bad => m <= m - 1
        BY <2>1
      <3> QED  BY <1>3, <1>4, <2>3, <3>1
    <2>5. at[m - 1] = f[m - 1]
      BY <2>4
    <2> HIDE DEF Bad
    <2> QED  BY <1>4, <1>5, <1>8, <2>2, <2>3, <2>5
  <1> QED  BY <1>3, <1>9, <1>10

\* The nodes that the first j names of p may mean.
Meant(p, j) == Answering(SubSeq(p, 1, j))

LEMMA MeantIs ==
    ASSUME NEW L, NEW O, NodesFit(L, O), root # 0, NEW p \in Seq(Strings)
    PROVE  /\ Meant(p, 0) = {root} /\ Meant(p, Len(p)) = Answering(p)
           /\ \A j \in 0 .. Len(p) : Meant(p, j) \in SUBSET NodeAddr
           /\ \A j \in 1 .. Len(p) : \A x \in NodeAddr :
                  x \in Meant(p, j) <=> O[x] \in Meant(p, j - 1) /\ GetName(x) = p[j]
  <1> DEFINE last == Len(p)
  <1>1. last \in Nat
    OBVIOUS
  <1>2. root \in NodeAddr
    BY DEF NodesFit, Begins
  <1>3. PICK f : Levels(f, O, p, last)
    BY <1>1, <1>2, LevelsUpTo
  <1>4. /\ f \in [0 .. last -> SUBSET NodeAddr] /\ f[0] = {root}
        /\ \A i \in 1 .. last : \A x \in NodeAddr : x \in f[i] <=> O[x] \in f[i - 1] /\ GetName(x) = p[i]
    BY <1>3 DEF Levels
  <1>5. ASSUME NEW j \in 0 .. last PROVE Meant(p, j) = f[j]
    <2> DEFINE q == SubSeq(p, 1, j)
               g == [i \in 0 .. j |-> f[i]]
    <2>1. q \in Seq(Strings) /\ Len(q) = j /\ \A i \in 1 .. j : q[i] = p[i]
      OBVIOUS
    <2>2. \A i \in 0 .. j : i \in 0 .. last
      BY <1>1
    <2>3. \A i \in 1 .. j : i \in 0 .. j /\ i - 1 \in 0 .. j /\ i \in 1 .. last
      BY <1>1
    <2>4. g \in [0 .. j -> SUBSET NodeAddr] /\ \A i \in 0 .. j : g[i] = f[i]
      BY <1>4, <2>2
    <2>5. 0 \in 0 .. j /\ j \in 0 .. j /\ j \in Nat
      BY <1>1
    <2> HIDE DEF q, g
    <2>6. Levels(g, O, q, j)
      <3>1. ASSUME NEW i \in 1 .. j, NEW x \in NodeAddr
            PROVE  x \in g[i] <=> O[x] \in g[i - 1] /\ GetName(x) = q[i]
        BY <1>4, <2>1, <2>3, <2>4
      <3> QED  BY <1>4, <2>4, <2>5, <3>1 DEF Levels
    <2>7. Answering(q) = g[Len(q)]
      BY <2>1, <2>6, AnsweringIs
    <2> QED  BY <2>1, <2>4, <2>5, <2>7 DEF Meant, q
  <1>6. SubSeq(p, 1, last) = p
    OBVIOUS
  <1>7. \A j \in 1 .. last : j \in 0 .. last /\ j - 1 \in 0 .. last
    BY <1>1
  <1>8. 0 \in 0 .. last /\ last \in 0 .. last
    BY <1>1
  <1>9. Meant(p, last) = Answering(p)
    BY <1>6 DEF Meant
  <1> HIDE DEF last
  <1>10. Meant(p, 0) = {root} /\ \A j \in 0 .. last : Meant(p, j) \in SUBSET NodeAddr
    BY <1>4, <1>5, <1>8
  <1>11. \A j \in 1 .. last : \A x \in NodeAddr :
            x \in Meant(p, j) <=> O[x] \in Meant(p, j - 1) /\ GetName(x) = p[j]
    BY <1>4, <1>5, <1>7
  <1> QED  BY <1>9, <1>10, <1>11 DEF last

LEMMA Upto ==
    ASSUME NEW last \in Nat, NEW Good \in SUBSET (0 .. last), 0 \in Good,
           \A j \in 1 .. last : j - 1 \in Good => j \in Good
    PROVE  \A j \in 0 .. last : j \in Good
  <1> DEFINE Bad == {j \in 0 .. last : j \notin Good}
  <1> SUFFICES ASSUME Bad # {} PROVE FALSE
    OBVIOUS
  <1>1. PICK m \in Bad : \A k \in Bad : m <= k
    <2>1. Bad \in SUBSET Nat
      OBVIOUS
    <2> HIDE DEF Bad
    <2> QED  BY <2>1, LeastNat
  <1>2. m \in 0 .. last /\ m \notin Good
    OBVIOUS
  <1>3. m \in 1 .. last /\ m - 1 \in 0 .. last /\ m - 1 < m
    BY <1>2
  <1>4. m - 1 \notin Bad
    <2> HIDE DEF Bad
    <2>1. m - 1 \in Bad => m <= m - 1
      BY <1>1
    <2> QED  BY <1>3, <2>1
  <1> QED  BY <1>2, <1>3, <1>4

\* The meaning of paths in a state, for a step to be able to speak of both.
MeantAs(O, p) ==
    /\ Meant(p, 0) = {root} /\ Meant(p, Len(p)) = Answering(p)
    /\ \A j \in 0 .. Len(p) : Meant(p, j) \in SUBSET NodeAddr
    /\ \A j \in 1 .. Len(p) : \A x \in NodeAddr :
           x \in Meant(p, j) <=> O[x] \in Meant(p, j - 1) /\ GetName(x) = p[j]

AllMeant == \A L, O, p : NodesFit(L, O) /\ root # 0 /\ p \in Seq(Strings) => MeantAs(O, p)

LEMMA MeantNow == AllMeant
  BY MeantIs DEF AllMeant, MeantAs

LEMMA MeantNext == AllMeant'
  BY MeantNow, PTL

LEMMA UnambiguousIs ==
    ASSUME NEW p \in Seq(Strings), \A j \in 0 .. Len(p) : Meant(p, j) \in SUBSET NodeAddr
    PROVE  Unambiguous(p) <=> \A j \in 1 .. Len(p) : \E y : Meant(p, j) = {y}
  <1>1. IsFiniteSet(NodeAddr)
    <2>1. NodesPerBlock * MaxNodeBlocks \in Int
      BY BlockAssumption
    <2> QED  BY <2>1, FS_Interval DEF NodeAddr
  <1>2. ASSUME NEW j \in 1 .. Len(p)
        PROVE  Cardinality(Meant(p, j)) = 1 <=> \E y : Meant(p, j) = {y}
    <2>1. j \in 0 .. Len(p)
      OBVIOUS
    <2>2. IsFiniteSet(Meant(p, j))
      BY <1>1, <2>1, FS_Subset
    <2> QED  BY <2>2, FS_Singleton
  <1> QED  BY <1>2 DEF Unambiguous, Meant

Singles == \A p : (p \in Seq(Strings) /\ \A j \in 0 .. Len(p) : Meant(p, j) \in SUBSET NodeAddr)
                  => (Unambiguous(p) <=> \A j \in 1 .. Len(p) : \E y : Meant(p, j) = {y})

LEMMA SinglesNow == Singles
  BY UnambiguousIs DEF Singles

LEMMA SinglesNext == Singles'
  BY SinglesNow, PTL

\* What the first j names mean lies j below the root.
LEMMA MeantDeep ==
    ASSUME NEW L, NEW O, NodesFit(L, O), NEW B, NEW W, Reach(O, B, W), root # 0, NEW p \in Seq(Strings)
    PROVE  \A j \in 0 .. Len(p) : \A x \in Meant(p, j) : x \in NodeAddr /\ W[x] = j /\ Plain(O[x])
  <1> DEFINE last == Len(p)
             Good == {j \in 0 .. last : \A x \in Meant(p, j) : x \in NodeAddr /\ W[x] = j /\ Plain(O[x])}
  <1>1. MeantAs(O, p)
    BY MeantNow DEF AllMeant
  <1>2. /\ Meant(p, 0) = {root}
        /\ \A j \in 0 .. last : Meant(p, j) \in SUBSET NodeAddr
        /\ \A j \in 1 .. last : \A x \in NodeAddr :
               x \in Meant(p, j) <=> O[x] \in Meant(p, j - 1) /\ GetName(x) = p[j]
    BY <1>1 DEF MeantAs
  <1>3. root \in NodeAddr /\ W[root] = 0 /\ Plain(O[root])
    BY BlocksLaid DEF NodesFit, Begins, Reach
  <1>4. last \in Nat
    OBVIOUS
  <1> HIDE DEF last
  <1>5. 0 \in Good
    BY <1>2, <1>3, <1>4
  <1>6. ASSUME NEW j \in 1 .. last, j - 1 \in Good PROVE j \in Good
    <2>1. j \in 0 .. last /\ j - 1 \in 0 .. last /\ j - 1 + 1 = j
      BY <1>4
    <2>2. ASSUME NEW x \in Meant(p, j) PROVE x \in NodeAddr /\ W[x] = j /\ Plain(O[x])
      <3>1. x \in NodeAddr
        BY <1>2, <2>1
      <3>2. O[x] \in Meant(p, j - 1)
        BY <1>2, <3>1
      <3>3. O[x] \in NodeAddr /\ W[O[x]] = j - 1
        BY <1>6, <3>2
      <3>4. W[x] = W[O[x]] + 1
        BY <3>1, <3>3 DEF Reach
      <3> QED  BY <2>1, <3>1, <3>3, <3>4, BlocksLaid
    <2> QED  BY <2>1, <2>2
  <1>7. \A j \in 0 .. last : j \in Good
    <2>1. Good \in SUBSET (0 .. last)
      OBVIOUS
    <2> HIDE DEF Good
    <2> QED  BY <1>4, <1>5, <1>6, <2>1, Upto
  <1> QED  BY <1>7 DEF last

\* A new child answers only where its parent did; what else is meant stays.
LEMMA MeantGrows ==
    ASSUME NEW L, NEW O, NodesFit(L, O), NEW B, NEW W, Reach(O, B, W), root # 0,
           NEW L2, NEW O2, NodesFit(L2, O2)',
           NEW parent \in NodeAddr, Plain(O[parent]), NEW node, ChildIn(O, O2, parent, node),
           NEW name, ChildNamed(node, name),
           NEW p \in Seq(Strings), NEW k \in 0 .. Len(p), W[parent] = k
    PROVE  \A j \in 0 .. Len(p) : \A y \in NodeAddr :
               y \in Meant(p, j)' <=>
                   \/ y \in Meant(p, j)
                   \/ y = node /\ j = k + 1 /\ parent \in Meant(p, k) /\ GetName(node)' = p[k + 1]
  <1> DEFINE last == Len(p)
             answers == parent \in Meant(p, k) /\ GetName(node)' = p[k + 1]
             Good == {j \in 0 .. last : \A y \in NodeAddr :
                         y \in Meant(p, j)' <=>
                             y \in Meant(p, j) \/ (y = node /\ j = k + 1 /\ answers)}
  <1>1. /\ node \in NodeAddr /\ ~ Plain(O[node]) /\ O2[node] = parent
        /\ \A a \in NodeAddr : a # node /\ (Plain(O[a]) \/ Plain(O2[a])) => O2[a] = O[a]
        /\ root' = root /\ parent # 0
    BY BlocksLaid DEF ChildIn
  <1>2. MeantAs(O, p) /\ MeantAs(O2, p)'
    BY <1>1, MeantNow, MeantNext DEF AllMeant
  <1>3. /\ Meant(p, 0) = {root}
        /\ \A j \in 0 .. last : Meant(p, j) \in SUBSET NodeAddr
        /\ \A j \in 1 .. last : \A x \in NodeAddr :
               x \in Meant(p, j) <=> O[x] \in Meant(p, j - 1) /\ GetName(x) = p[j]
    BY <1>2 DEF MeantAs
  <1>4. /\ Meant(p, 0)' = {root}
        /\ \A j \in 0 .. last : Meant(p, j)' \in SUBSET NodeAddr
        /\ \A j \in 1 .. last : \A x \in NodeAddr :
               x \in Meant(p, j)' <=> O2[x] \in Meant(p, j - 1)' /\ GetName(x)' = p[j]
    BY <1>1, <1>2 DEF MeantAs
  <1>5. \A j \in 0 .. last : \A x \in Meant(p, j) : x \in NodeAddr /\ W[x] = j /\ Plain(O[x])
    BY MeantDeep
  <1>6. \A y \in NodeAddr : y # node => GetName(y)' = GetName(y)
    BY DEF ChildNamed, GetName
  <1>7. \A y \in NodeAddr : O[y] # node
    <2>1. children[node] = 0
      BY <1>1 DEF NodesFit
    <2>2. Kids(node) = L[children[node]] /\ \A x : x \in ToSet(Kids(node)) <=> x \in NodeAddr /\ O[x] = node
      BY <1>1, KidsAre
    <2>3. L[0] = <<>>
      BY DEF NodesFit, Pool, Lists, Follows
    <2> QED  BY <2>1, <2>2, <2>3 DEF ToSet
  <1>8. last \in Nat /\ k \in 0 .. last
    OBVIOUS
  <1> HIDE DEF last
  <1>9. 0 \in Good
    <2>1. 0 \in 0 .. last /\ 0 # k + 1
      BY <1>8
    <2> QED  BY <1>3, <1>4, <2>1
  <1>10. ASSUME NEW j \in 1 .. last, j - 1 \in Good PROVE j \in Good
    <2>1. j \in 0 .. last /\ j - 1 \in 0 .. last /\ (j - 1 = k <=> j = k + 1) /\ j \in Int
      BY <1>8
    <2>2. \A y \in NodeAddr : y # node => (y \in Meant(p, j - 1)' <=> y \in Meant(p, j - 1))
      BY <1>10
    <2>3. ASSUME NEW y \in NodeAddr, y # node PROVE y \in Meant(p, j)' <=> y \in Meant(p, j)
      <3>1. y \in Meant(p, j)' <=> O2[y] \in Meant(p, j - 1)' /\ GetName(y) = p[j]
        BY <1>4, <1>6, <2>3
      <3>2. y \in Meant(p, j) <=> O[y] \in Meant(p, j - 1) /\ GetName(y) = p[j]
        BY <1>3
      <3>3. O2[y] \in Meant(p, j - 1)' <=> O[y] \in Meant(p, j - 1)
        <4>1. CASE O2[y] = O[y]
          <5>1. O[y] # node
            BY <1>7
          <5>2. O[y] \in Meant(p, j - 1)' => O[y] \in NodeAddr
            BY <1>4, <2>1
          <5>3. O[y] \in Meant(p, j - 1) => O[y] \in NodeAddr
            BY <1>3, <2>1
          <5> QED  BY <2>2, <4>1, <5>1, <5>2, <5>3
        <4>2. CASE O2[y] # O[y]
          <5>1. ~ Plain(O[y]) /\ ~ Plain(O2[y])
            BY <1>1, <2>3, <4>2
          <5>2. O2[y] \notin NodeAddr /\ O[y] \notin NodeAddr
            BY <5>1, BlocksLaid
          <5> QED  BY <1>3, <1>4, <2>1, <5>2
        <4> QED  BY <4>1, <4>2
      <3> QED  BY <3>1, <3>2, <3>3
    <2>4. node \in Meant(p, j)' <=> j = k + 1 /\ answers
      <3>1. node \in Meant(p, j)' <=> parent \in Meant(p, j - 1)' /\ GetName(node)' = p[j]
        BY <1>1, <1>4
      <3>2. parent # node
        BY <1>1
      <3>3. parent \in Meant(p, j - 1)' <=> parent \in Meant(p, j - 1)
        BY <2>2, <3>2
      <3>4. parent \in Meant(p, j - 1) => j - 1 = k
        BY <1>5, <2>1
      <3> QED  BY <2>1, <3>1, <3>3, <3>4
    <2>5. node \notin Meant(p, j)
      BY <1>1, <1>5, <2>1
    <2> HIDE DEF answers
    <2>6. \A y \in NodeAddr : y \in Meant(p, j)' <=>
                             y \in Meant(p, j) \/ (y = node /\ j = k + 1 /\ answers)
      BY <2>3, <2>4, <2>5
    <2> QED  BY <2>1, <2>6
  <1>11. \A j \in 0 .. last : j \in Good
    <2>1. Good \in SUBSET (0 .. last)
      OBVIOUS
    <2> HIDE DEF Good
    <2> QED  BY <1>8, <1>9, <1>10, <2>1, Upto
  <1> QED  BY <1>11 DEF last

OnePiece(p) == \A i \in DOMAIN p : ~ Long(p[i])

\* A walk has taken k names of p: it is where they lead, or the path is ambiguous.
FoundAt(W, p, k) ==
    /\ walk.path = SubSeq(p, k + 1, Len(p)) /\ W[walk.at] = k
    /\ walk.at \in Meant(p, k) \/ ~ Unambiguous(p)

Found(W) ==
    walk # NoWalk /\ OnePiece(walk.asked) => \E k \in 0 .. Len(walk.asked) : FoundAt(W, walk.asked, k)

FindInv == \E L, O, E, P, B, W : Fit(L, O, E, P, B, W) /\ Walking(O) /\ Found(W)

LEMMA NotFinding ==
    ASSUME TreeInv', walk' = NoWalk
    PROVE  FindInv'
  <1>1. PICK L, O, E, P, B, W : Fit(L, O, E, P, B, W)' /\ Walking(O)'
    BY DEF TreeInv
  <1>2. Found(W)'
    BY DEF Found
  <1> QED  BY <1>1, <1>2 DEF FindInv

\* The rest of a path.
LEMMA RestIs ==
    ASSUME NEW p \in Seq(Strings), NEW k \in 0 .. Len(p), NEW path, path = SubSeq(p, k + 1, Len(p))
    PROVE  /\ path = <<>> => k = Len(p)
           /\ path # <<>> => /\ k + 1 \in 1 .. Len(p) /\ Head(path) = p[k + 1]
                             /\ Tail(path) = SubSeq(p, k + 1 + 1, Len(p))
           /\ SubSeq(p, 0 + 1, Len(p)) = p
  <1>1. path \in Seq(Strings) /\ Len(path) = Len(p) - k
        /\ \A i \in 1 .. Len(p) - k : path[i] = p[k + i]
    OBVIOUS
  <1>2. ASSUME path = <<>> PROVE k = Len(p)
    <2>1. \A q \in Seq(Strings) : q = <<>> => Len(q) = 0
      OBVIOUS
    <2>2. Len(path) = 0
      BY <1>1, <1>2, <2>1
    <2> QED  BY <1>1, <2>2
  <1>3. ASSUME path # <<>>
        PROVE  /\ k + 1 \in 1 .. Len(p) /\ Head(path) = p[k + 1]
               /\ Tail(path) = SubSeq(p, k + 1 + 1, Len(p))
    <2>1. Len(path) >= 1
      BY <1>1, <1>3
    <2>2. k + 1 \in 1 .. Len(p)
      BY <1>1, <2>1
    <2>3. Head(path) = p[k + 1]
      <3>1. Head(path) = path[1]
        BY <1>1, <2>1
      <3>2. 1 \in 1 .. Len(p) - k
        BY <1>1, <2>1
      <3> QED  BY <1>1, <3>1, <3>2
    <2>4. Tail(path) = SubSeq(p, k + 1 + 1, Len(p))
      <3> DEFINE t == Tail(path)
                 s == SubSeq(p, k + 1 + 1, Len(p))
      <3>1. t \in Seq(Strings) /\ Len(t) = Len(p) - k - 1
            /\ \A i \in 1 .. Len(p) - k - 1 : t[i] = path[i + 1]
        <4>1. \A q \in Seq(Strings) : Len(q) >= 1 =>
                  /\ Tail(q) \in Seq(Strings) /\ Len(Tail(q)) = Len(q) - 1
                  /\ \A i \in 1 .. Len(q) - 1 : Tail(q)[i] = q[i + 1]
          OBVIOUS
        <4> QED  BY <1>1, <2>1, <4>1
      <3>2. s \in Seq(Strings) /\ Len(s) = Len(p) - k - 1
            /\ \A i \in 1 .. Len(p) - k - 1 : s[i] = p[k + 1 + i]
        BY <2>2
      <3>3. \A i \in 1 .. Len(p) - k - 1 : i + 1 \in 1 .. Len(p) - k /\ k + (i + 1) = k + 1 + i
        OBVIOUS
      <3> HIDE DEF t, s
      <3>4. \A i \in 1 .. Len(p) - k - 1 : t[i] = s[i]
        BY <1>1, <3>1, <3>2, <3>3
      <3>5. t = s
        <4>1. t = [i \in 1 .. Len(t) |-> t[i]] /\ s = [i \in 1 .. Len(s) |-> s[i]]
          BY <3>1, <3>2
        <4> QED  BY <3>1, <3>2, <3>4, <4>1
      <3> QED  BY <3>5 DEF t, s
    <2> QED  BY <2>2, <2>3, <2>4
  <1>4. SubSeq(p, 0 + 1, Len(p)) = p
    OBVIOUS
  <1> QED  BY <1>2, <1>3, <1>4

LEMMA MeantRests ==
    ASSUME UNCHANGED <<nodes, props, tree, info>>
    PROVE  \A p, j : Meant(p, j)' = Meant(p, j) /\ (Unambiguous(p)' <=> Unambiguous(p))
  <1>2. \A q : Answering(q)' = Answering(q)
    BY DEF Answering, Kids, GetName, PropertiesOf, Chain, tree
  <1> QED  BY <1>2 DEF Meant, Unambiguous

LEMMA Rooted ==
    ASSUME NEW L, NEW O, NEW B, NEW W, NodesFit(L, O), Reach(O, B, W), NEW n \in NodeAddr, Plain(O[n])
    PROVE  root # 0
  BY DEF Reach

\* A search begins.
LEMMA FindBegins ==
    ASSUME TreeInv, NEW path \in Paths, NEW create \in BOOLEAN, Find(path, create)
    PROVE  FindInv'
  <1>1. TreeInv'
    BY StepFind DEF Steps
  <1>2. root # 0 /\ walk' = [at |-> root, path |-> path, create |-> create, asked |-> path]
        /\ UNCHANGED <<nodes, props, tree, info>>
    BY DEF Find
  <1>3. PICK L, O, E, P, B, W : Fit(L, O, E, P, B, W)' /\ Walking(O)'
    BY <1>1 DEF TreeInv
  <1>4. path \in Seq(Strings) /\ Len(path) \in Nat /\ SubSeq(path, 0 + 1, Len(path)) = path
    <2>1. path \in Seq(Strings)
      BY NameAssumption
    <2> QED  BY <2>1
  <1>5. Meant(path, 0)' = {root} /\ W[root] = 0
    <2>1. root' = root /\ NodesFit(L, O)' /\ Reach(O, B, W)'
      BY <1>2, <1>3 DEF Fit, tree
    <2>2. MeantAs(O, path)'
      BY <1>2, <1>4, <2>1, MeantNext DEF AllMeant
    <2> QED  BY <1>2, <2>1, <2>2 DEF MeantAs, Reach
  <1>6. FoundAt(W, path, 0)'
    BY <1>2, <1>4, <1>5 DEF FoundAt
  <1>7. Found(W)'
    <2>1. walk'.asked = path /\ 0 \in 0 .. Len(path)
      BY <1>2, <1>4
    <2> QED  BY <1>6, <2>1 DEF Found
  <1> QED  BY <1>3, <1>7 DEF FindInv

\* The first child of the name.
LEMMA FindGoesOn == ASSUME TreeInv, FindInv, FindStep PROVE FindInv'
  <1>1. PICK L, O, E, P, B, W : Fit(L, O, E, P, B, W) /\ Walking(O) /\ Found(W)
    BY DEF FindInv
  <1> DEFINE s == Kids(walk.at)
             N == Named(walk.at, NextName)
  <1>2. /\ walk # NoWalk /\ walk.path # <<>> /\ N # {}
        /\ walk' = [walk EXCEPT !.at = s[Min(N)], !.path = RestOfPath]
        /\ UNCHANGED <<nodes, props, tree, info>>
    BY DEF FindStep
  <1>3. /\ walk \in Walks /\ RestOfPath \in Seq(Strings) /\ s \in Seq(Members)
        /\ walk.at \in NodeAddr /\ Plain(O[walk.at])
    BY <1>1, <1>2, WalkStands, WalkIs
  <1>4. NodesFit(L, O) /\ Reach(O, B, W)
    BY <1>1 DEF Fit
  <1>5. root # 0
    BY <1>3, <1>4, Rooted
  <1>6. PICK p, path, at : p = walk.asked /\ path = walk.path /\ at = walk.at
    OBVIOUS
  <1>7. p \in Seq(Strings) /\ at \in NodeAddr
    BY <1>3, <1>6, NameAssumption DEF Walks
  <1>8. \A i \in N : i \in DOMAIN s /\ GetName(s[i]) = NextName
    BY DEF Named
  <1>9. \A x : x \in ToSet(s) <=> x \in NodeAddr /\ O[x] = at
    BY <1>3, <1>4, <1>6, KidsAre
  <1> HIDE DEF s, N
  <1>10. Min(N) \in N
    <2>1. N \in SUBSET Nat
      BY <1>3, <1>8
    <2>2. \E m \in N : \A k \in N : m <= k
      BY <1>2, <2>1, LeastNat
    <2> QED  BY <2>2 DEF Min
  <1>11. PICK c : c = s[Min(N)]
    OBVIOUS
  <1>12. c \in NodeAddr /\ O[c] = at /\ GetName(c) = NextName
    <2>1. c \in ToSet(s)
      BY <1>8, <1>10, <1>11 DEF ToSet
    <2> QED  BY <1>8, <1>9, <1>10, <1>11, <2>1
  <1>13. walk'.at = c /\ walk'.path = RestOfPath /\ walk'.asked = p /\ walk' \in Walks
    <2>1. walk' = [walk EXCEPT !.at = c, !.path = RestOfPath]
      BY <1>2, <1>11
    <2> QED  BY <1>3, <1>6, <1>12, <2>1 DEF Walks
  <1>14. ASSUME OnePiece(p) PROVE \E k \in 0 .. Len(p) : FoundAt(W, p, k)'
    <2>1. PICK k \in 0 .. Len(p) : FoundAt(W, p, k)
      BY <1>1, <1>2, <1>6, <1>14 DEF Found
    <2>2. path = SubSeq(p, k + 1, Len(p)) /\ W[at] = k
          /\ (at \in Meant(p, k) \/ ~ Unambiguous(p))
      BY <1>6, <2>1 DEF FoundAt
    <2>3. k + 1 \in 1 .. Len(p) /\ Head(path) = p[k + 1]
          /\ Tail(path) = SubSeq(p, k + 1 + 1, Len(p))
      <3>1. path # <<>>
        BY <1>2, <1>6
      <3> QED  BY <1>7, <2>2, <3>1, RestIs
    <2>4. ~ Long(p[k + 1])
      BY <1>7, <1>14, <2>3 DEF OnePiece
    <2>5. NextName = p[k + 1] /\ RestOfPath = SubSeq(p, k + 1 + 1, Len(p))
      BY <1>6, <2>3, <2>4 DEF NextName, RestOfPath
    <2>6. W[c] = k + 1
      BY <1>4, <1>7, <1>12, <2>2 DEF Reach
    <2>7. at \in Meant(p, k) => c \in Meant(p, k + 1)
      <3>1. MeantAs(O, p)
        BY <1>4, <1>5, <1>7, MeantNow DEF AllMeant
      <3>2. k + 1 - 1 = k
        OBVIOUS
      <3>3. c \in Meant(p, k + 1) <=> O[c] \in Meant(p, k + 1 - 1) /\ GetName(c) = p[k + 1]
        BY <1>12, <2>3, <3>1 DEF MeantAs
      <3> QED  BY <1>12, <2>5, <3>2, <3>3
    <2>8. Meant(p, k + 1)' = Meant(p, k + 1) /\ (Unambiguous(p)' <=> Unambiguous(p))
      BY <1>2, MeantRests
    <2>9. FoundAt(W, p, k + 1)'
      BY <1>13, <2>2, <2>5, <2>6, <2>7, <2>8 DEF FoundAt
    <2>10. k + 1 \in 0 .. Len(p)
      BY <2>3
    <2> QED  BY <2>9, <2>10
  <1>15. Found(W)'
    BY <1>13, <1>14 DEF Found, OnePiece
  <1>16. Fit(L, O, E, P, B, W)'
    BY <1>1, <1>2, FitRests
  <1>17. Walking(O)'
    BY <1>7, <1>12, <1>13, BlocksLaid DEF Walking
  <1> QED  BY <1>15, <1>16, <1>17 DEF FindInv

LEMMA WalkDiffers == \A r \in Walks : r # NoWalk
  <1> TAKE r \in Walks
  <1>1. "at" \in DOMAIN r
    BY DEF Walks
  <1>2. DOMAIN NoWalk = {}
    BY DEF NoWalk
  <1> QED  BY <1>1, <1>2

\* A new child that does not answer leaves nothing to answer where its parent did.
LEMMA MissingName ==
    ASSUME NEW L, NEW O, NodesFit(L, O), NEW B, NEW W, Reach(O, B, W), root # 0,
           NEW L2, NEW O2, NodesFit(L2, O2)',
           NEW at \in NodeAddr, Plain(O[at]), NEW node, ChildIn(O, O2, at, node),
           NEW name, ChildNamed(node, name),
           NEW p \in Seq(Strings), NEW k \in 0 .. Len(p), k + 1 \in 1 .. Len(p), W[at] = k,
           at \in Meant(p, k), Named(at, p[k + 1]) = {}, ~ (GetName(node)' = p[k + 1])
    PROVE  ~ (Unambiguous(p)')
  <1> SUFFICES ASSUME Unambiguous(p)' PROVE FALSE
    OBVIOUS
  <1>1. /\ node \in NodeAddr /\ ~ Plain(O[node]) /\ O2[node] = at
        /\ \A a \in NodeAddr : a # node /\ (Plain(O[a]) \/ Plain(O2[a])) => O2[a] = O[a]
        /\ root' = root /\ at # 0
    BY BlocksLaid DEF ChildIn
  <1>2. MeantAs(O, p) /\ MeantAs(O2, p)'
    BY <1>1, MeantNow, MeantNext DEF AllMeant
  <1>3. \A j \in 1 .. Len(p) : \E y : Meant(p, j)' = {y}
    <2>1. \A j \in 0 .. Len(p) : Meant(p, j)' \in SUBSET NodeAddr
      BY <1>2 DEF MeantAs
    <2> QED  BY <2>1, SinglesNext DEF Singles
  <1>4. \A j \in 0 .. Len(p) : \A y \in NodeAddr :
            y \in Meant(p, j)' <=>
                \/ y \in Meant(p, j)
                \/ y = node /\ j = k + 1 /\ at \in Meant(p, k) /\ GetName(node)' = p[k + 1]
    BY MeantGrows
  <1>5. Meant(p, k)' = {at}
    <2>1. at \in Meant(p, k)'
      BY <1>4
    <2>2. \E y : Meant(p, k)' = {y}
      <3>1. CASE k = 0
        BY <1>2, <3>1 DEF MeantAs
      <3>2. CASE k # 0
        <4>1. k \in 1 .. Len(p)
          BY <3>2
        <4> QED  BY <1>3, <4>1
      <3> QED  BY <3>1, <3>2
    <2> QED  BY <2>1, <2>2
  <1>6. PICK y : Meant(p, k + 1)' = {y}
    BY <1>3
  <1>7. k + 1 - 1 = k /\ k + 1 \in 0 .. Len(p)
    OBVIOUS
  <1>8. y \in NodeAddr /\ y \in Meant(p, k + 1)'
    BY <1>2, <1>6, <1>7 DEF MeantAs
  <1>9. O2[y] = at
    <2>1. O2[y] \in Meant(p, k + 1 - 1)'
      BY <1>2, <1>8 DEF MeantAs
    <2> QED  BY <1>5, <1>7, <2>1
  <1>10. y \in Meant(p, k + 1) /\ y # node
    <2>1. y # node
      <3>1. GetName(y)' = p[k + 1]
        BY <1>2, <1>8 DEF MeantAs
      <3> QED  BY <3>1
    <2> QED  BY <1>4, <1>7, <1>8, <2>1
  <1>11. GetName(y) = p[k + 1] /\ O[y] = at
    <2>1. GetName(y) = p[k + 1]
      BY <1>2, <1>8, <1>10 DEF MeantAs
    <2>2. Plain(O2[y])
      BY <1>9, BlocksLaid
    <2> QED  BY <1>1, <1>8, <1>9, <1>10, <2>1, <2>2
  <1>12. y \in ToSet(Kids(at))
    BY <1>8, <1>11, KidsAre
  <1>13. PICK i \in DOMAIN Kids(at) : Kids(at)[i] = y
    BY <1>12 DEF ToSet
  <1>14. i \in Named(at, p[k + 1])
    BY <1>11, <1>13 DEF Named
  <1> QED  BY <1>14

\* A new child is made.
LEMMA FindMakes == ASSUME TreeInv, FindInv, FindCreate PROVE FindInv'
  <1>1. PICK L, O, E, P, B, W : Fit(L, O, E, P, B, W) /\ Walking(O) /\ Found(W)
    BY DEF FindInv
  <1>2. /\ walk # NoWalk /\ walk.path # <<>> /\ Named(walk.at, NextName) = {}
        /\ LinkChild(walk.at, NextName)
        /\ walk' = [walk EXCEPT !.at = children'[walk.at], !.path = RestOfPath]
    BY DEF FindCreate
  <1>3. /\ walk \in Walks /\ NextName \in Strings /\ RestOfPath \in Seq(Strings)
        /\ walk.at \in NodeAddr /\ Plain(O[walk.at])
    BY <1>1, <1>2, WalkStands, WalkIs
  <1>4. NodesFit(L, O) /\ Reach(O, B, W)
    BY <1>1 DEF Fit
  <1>5. root # 0
    BY <1>3, <1>4, Rooted
  <1>6. PICK p, path, at, name : p = walk.asked /\ path = walk.path /\ at = walk.at /\ name = NextName
    OBVIOUS
  <1>7. p \in Seq(Strings) /\ at \in NodeAddr /\ at # 0 /\ Plain(O[at]) /\ name \in Strings \union {"/", NoName}
    BY <1>3, <1>6, NameAssumption, BlocksLaid DEF Walks
  <1>8. LinkChild(at, name)
    BY <1>2, <1>6
  <1>9. PICK L2, O2, E2, P2, B2, W2, node :
            /\ Fit(L2, O2, E2, P2, B2, W2)' /\ ChildIn(O, O2, at, node) /\ ChildNamed(node, name)
            /\ DepthStays(W, W2, node)
    BY <1>1, <1>7, <1>8, ChildFits
  <1>10. NodesFit(L2, O2)' /\ Reach(O2, B2, W2)'
    BY <1>9 DEF Fit
  <1>11. /\ node \in NodeAddr /\ ~ Plain(O[node]) /\ O2[node] = at /\ children'[at] = node
         /\ root' = root
    BY <1>7, <1>9 DEF ChildIn
  <1>12. walk'.at = node /\ walk'.path = RestOfPath /\ walk'.asked = p /\ walk' \in Walks
    <2>1. walk' = [walk EXCEPT !.at = node, !.path = RestOfPath]
      BY <1>2, <1>6, <1>11
    <2> QED  BY <1>3, <1>6, <1>11, <2>1 DEF Walks
  <1>13. ASSUME OnePiece(p) PROVE \E k \in 0 .. Len(p) : FoundAt(W2, p, k)'
    <2>1. PICK k \in 0 .. Len(p) : FoundAt(W, p, k)
      BY <1>1, <1>2, <1>6, <1>13 DEF Found
    <2>2. path = SubSeq(p, k + 1, Len(p)) /\ W[at] = k
          /\ (at \in Meant(p, k) \/ ~ Unambiguous(p))
      BY <1>6, <2>1 DEF FoundAt
    <2>3. k + 1 \in 1 .. Len(p) /\ Head(path) = p[k + 1]
          /\ Tail(path) = SubSeq(p, k + 1 + 1, Len(p))
      <3>1. path # <<>>
        BY <1>2, <1>6
      <3> QED  BY <1>7, <2>2, <3>1, RestIs
    <2>4. ~ Long(p[k + 1])
      BY <1>7, <1>13, <2>3 DEF OnePiece
    <2>5. NextName = p[k + 1] /\ RestOfPath = SubSeq(p, k + 1 + 1, Len(p)) /\ name = p[k + 1]
      BY <1>6, <2>3, <2>4 DEF NextName, RestOfPath
    <2>6. W2[node] = k + 1
      <3>1. W2[at] = k
        BY <1>7, <1>9, <1>11, <2>2 DEF DepthStays
      <3> QED  BY <1>7, <1>10, <1>11, <3>1 DEF Reach
    <2>7. \A j \in 0 .. Len(p) : \A y \in NodeAddr :
              y \in Meant(p, j)' <=>
                  \/ y \in Meant(p, j)
                  \/ y = node /\ j = k + 1 /\ at \in Meant(p, k) /\ GetName(node)' = p[k + 1]
      BY <1>4, <1>5, <1>7, <1>9, <1>10, <2>2, MeantGrows
    <2>8. k + 1 \in 0 .. Len(p)
      BY <2>3
    <2>9. node \in Meant(p, k + 1)' \/ ~ (Unambiguous(p)')
      <3>1. CASE at \in Meant(p, k) /\ GetName(node)' = p[k + 1]
        BY <1>11, <2>7, <2>8, <3>1
      <3>2. CASE at \in Meant(p, k) /\ ~ (GetName(node)' = p[k + 1])
        <4>1. Named(at, p[k + 1]) = {}
          BY <1>2, <1>6, <2>5
        <4> QED  BY <1>4, <1>5, <1>7, <1>9, <1>10, <2>2, <2>3, <3>2, <4>1, MissingName
      <3>3. CASE at \notin Meant(p, k)
        <4>1. ~ Unambiguous(p)
          BY <2>2, <3>3
        <4>2. MeantAs(O, p) /\ MeantAs(O2, p)'
          BY <1>4, <1>5, <1>7, <1>10, <1>11, MeantNow, MeantNext DEF AllMeant
        <4>3. \A j \in 0 .. Len(p) : Meant(p, j) \in SUBSET NodeAddr /\ Meant(p, j)' \in SUBSET NodeAddr
          BY <4>2 DEF MeantAs
        <4>4. ASSUME NEW j \in 0 .. Len(p) PROVE Meant(p, j)' = Meant(p, j)
          <5>1. \A y \in NodeAddr : y \in Meant(p, j)' <=> y \in Meant(p, j)
            BY <2>7, <3>3
          <5>2. Meant(p, j) \in SUBSET NodeAddr /\ Meant(p, j)' \in SUBSET NodeAddr
            BY <4>3
          <5> QED  BY <5>1, <5>2
        <4>5. Unambiguous(p) <=> \A j \in 1 .. Len(p) : \E y : Meant(p, j) = {y}
          BY <1>7, <4>3, SinglesNow DEF Singles
        <4>6. Unambiguous(p)' <=> \A j \in 1 .. Len(p) : \E y : Meant(p, j)' = {y}
          BY <1>7, <4>3, SinglesNext DEF Singles
        <4>7. \A j \in 1 .. Len(p) : j \in 0 .. Len(p)
          OBVIOUS
        <4>8. (\A j \in 1 .. Len(p) : \E y : Meant(p, j)' = {y})
              => \A j \in 1 .. Len(p) : \E y : Meant(p, j) = {y}
          BY <4>4, <4>7
        <4> QED  BY <4>1, <4>5, <4>6, <4>8
      <3> QED  BY <3>1, <3>2, <3>3
    <2>10. FoundAt(W2, p, k + 1)'
      BY <1>12, <2>5, <2>6, <2>9 DEF FoundAt
    <2> QED  BY <2>8, <2>10
  <1>14. Found(W2)'
    BY <1>12, <1>13 DEF Found, OnePiece
  <1>15. Walking(O2)'
    BY <1>7, <1>11, <1>12, BlocksLaid DEF Walking
  <1> QED  BY <1>9, <1>14, <1>15 DEF FindInv

LEMMA FindInit == Init => FindInv
  <1> SUFFICES ASSUME Init PROVE FindInv
    OBVIOUS
  <1>1. Fits /\ walk = NoWalk
    BY NothingFits DEF Init
  <1>2. PICK L, O, E, P, B, W : Fit(L, O, E, P, B, W)
    BY <1>1 DEF Fits
  <1> QED  BY <1>1, <1>2 DEF FindInv, Walking, Found

LEMMA FindRests == ASSUME FindInv, UNCHANGED vars PROVE FindInv'
  <1>1. PICK L, O, E, P, B, W : Fit(L, O, E, P, B, W) /\ Walking(O) /\ Found(W)
    BY DEF FindInv
  <1>2. UNCHANGED <<nodes, props, tree, info>> /\ walk' = walk
    BY DEF vars
  <1>3. Fit(L, O, E, P, B, W)' /\ Walking(O)'
    BY <1>1, <1>2, FitRests DEF Walking
  <1>4. \A p, j : Meant(p, j)' = Meant(p, j) /\ (Unambiguous(p)' <=> Unambiguous(p))
    BY <1>2, MeantRests
  <1>5. Found(W)'
    BY <1>1, <1>2, <1>4 DEF Found, FoundAt
  <1> QED  BY <1>3, <1>5 DEF FindInv

LEMMA FindTreeStep == ASSUME TreeInv, FindInv, Next PROVE FindInv'
  <1>1. TreeInv'
    BY TreeStep DEF Steps
  <1>2. CASE walk' = NoWalk
    BY <1>1, <1>2, NotFinding
  <1>3. CASE walk' # NoWalk
    <2>1. \/ \E path \in Paths, create \in BOOLEAN : Find(path, create)
          \/ FindStep \/ FindCreate
      BY <1>3, FinalizeStep DEF Next, Initialize, AddChild, AddProperty, FindEnd, Idle, Finalize
    <2> QED  BY <2>1, FindBegins, FindGoesOn, FindMakes
  <1> QED  BY <1>2, <1>3

\* What FindsNamed says of a step.
LEMMA FindEndsWell ==
    ASSUME TreeInv, FindInv, Next, walk # NoWalk, walk' = NoWalk,
           \A i \in DOMAIN walk.asked : ~ Long(walk.asked[i]), Unambiguous(walk.asked)
    PROVE  walk.path = <<>> /\ walk.at \in Answering(walk.asked)
  <1>1. PICK L, O, E, P, B, W : Fit(L, O, E, P, B, W) /\ Walking(O) /\ Found(W)
    BY DEF FindInv
  <1>2. walk \in Walks /\ walk.at \in NodeAddr /\ Plain(O[walk.at])
    BY <1>1, WalkIs
  <1>3. FindEnd
    <2>1. FindStep => FALSE
      <3>1. FindStep => walk' \in Walks
        <4> SUFFICES ASSUME FindStep PROVE walk' \in Walks
          OBVIOUS
        <4>1. TreeInv' /\ walk' = [walk EXCEPT !.at = Kids(walk.at)[Min(Named(walk.at, NextName))],
                                               !.path = RestOfPath]
          BY StepFindStep DEF Steps, FindStep
        <4>2. "at" \in DOMAIN walk'
          BY <1>2, <4>1 DEF Walks
        <4>3. DOMAIN NoWalk = {}
          BY DEF NoWalk
        <4> QED  BY <4>2, <4>3
      <3> QED  BY <3>1, WalkDiffers
    <2>2. FindCreate => FALSE
      <3> SUFFICES ASSUME FindCreate PROVE FALSE
        OBVIOUS
      <3>1. walk' = [walk EXCEPT !.at = children'[walk.at], !.path = RestOfPath]
        BY DEF FindCreate
      <3>2. "at" \in DOMAIN walk'
        BY <1>2, <3>1 DEF Walks
      <3>3. DOMAIN NoWalk = {}
        BY DEF NoWalk
      <3> QED  BY <3>2, <3>3
    <2> QED  BY <2>1, <2>2 DEF Next, Initialize, AddChild, AddProperty, Find, Idle, Finalize
  <1>4. NodesFit(L, O) /\ Reach(O, B, W)
    BY <1>1 DEF Fit
  <1>5. root # 0
    BY <1>2, <1>4, Rooted
  <1>6. PICK p, path, at : p = walk.asked /\ path = walk.path /\ at = walk.at
    OBVIOUS
  <1>7. p \in Seq(Strings) /\ at \in NodeAddr /\ OnePiece(p) /\ Unambiguous(p)
    BY <1>2, <1>6, NameAssumption DEF Walks, OnePiece
  <1>8. PICK k \in 0 .. Len(p) : FoundAt(W, p, k)
    BY <1>1, <1>6, <1>7 DEF Found
  <1>9. path = SubSeq(p, k + 1, Len(p)) /\ at \in Meant(p, k)
    BY <1>6, <1>7, <1>8 DEF FoundAt
  <1>10. MeantAs(O, p)
    BY <1>4, <1>5, <1>7, MeantNow DEF AllMeant
  <1>11. CASE path = <<>>
    <2>1. k = Len(p)
      BY <1>7, <1>9, <1>11, RestIs
    <2> QED  BY <1>6, <1>9, <1>10, <1>11, <2>1 DEF MeantAs
  <1>12. CASE path # <<>>
    <2>1. k + 1 \in 1 .. Len(p) /\ Head(path) = p[k + 1]
      BY <1>7, <1>9, <1>12, RestIs
    <2>2. ~ Long(p[k + 1])
      BY <1>7, <2>1 DEF OnePiece
    <2>3. NextName = p[k + 1]
      BY <1>6, <2>1, <2>2 DEF NextName
    <2>4. Named(at, p[k + 1]) = {}
      BY <1>3, <1>6, <1>12, <2>3 DEF FindEnd
    <2>5. /\ Meant(p, 0) = {root}
          /\ \A j \in 0 .. Len(p) : Meant(p, j) \in SUBSET NodeAddr
          /\ \A j \in 1 .. Len(p) : \A x \in NodeAddr :
                 x \in Meant(p, j) <=> O[x] \in Meant(p, j - 1) /\ GetName(x) = p[j]
      BY <1>10 DEF MeantAs
    <2>6. \A j \in 1 .. Len(p) : \E y : Meant(p, j) = {y}
      BY <1>7, <2>5, SinglesNow DEF Singles
    <2>7. Meant(p, k) = {at}
      <3>1. CASE k = 0
        BY <1>9, <2>5, <3>1
      <3>2. CASE k # 0
        <4>1. k \in 1 .. Len(p)
          BY <3>2
        <4>2. PICK y : Meant(p, k) = {y}
          BY <2>6, <4>1
        <4> QED  BY <1>9, <4>2
      <3> QED  BY <3>1, <3>2
    <2>8. PICK y : Meant(p, k + 1) = {y}
      BY <2>1, <2>6
    <2>9. k + 1 - 1 = k /\ k + 1 \in 0 .. Len(p)
      BY <2>1
    <2>10. y \in NodeAddr
      BY <2>5, <2>8, <2>9
    <2>11. O[y] = at /\ GetName(y) = p[k + 1]
      <3>1. y \in Meant(p, k + 1) <=> O[y] \in Meant(p, k + 1 - 1) /\ GetName(y) = p[k + 1]
        BY <2>1, <2>5, <2>10
      <3> QED  BY <2>7, <2>8, <2>9, <3>1
    <2>12. y \in ToSet(Kids(at))
      BY <1>4, <1>7, <2>10, <2>11, KidsAre
    <2>13. PICK i \in DOMAIN Kids(at) : Kids(at)[i] = y
      BY <2>12 DEF ToSet
    <2>14. i \in Named(at, p[k + 1])
      BY <2>11, <2>13 DEF Named
    <2> QED  BY <2>4, <2>14
  <1> QED  BY <1>11, <1>12

-----------------------------------------------------------------------------
(* The theorems about the device tree *)

LEMMA TreeRests == ASSUME TreeInv, UNCHANGED vars PROVE TreeInv'
  <1>1. PICK L, O, E, P, B, W : Fit(L, O, E, P, B, W) /\ Walking(O)
    BY DEF TreeInv
  <1>2. UNCHANGED <<nodes, props, tree, info>> /\ walk' = walk
    BY DEF vars
  <1>3. Fit(L, O, E, P, B, W)' /\ Walking(O)'
    BY <1>1, <1>2, FitRests DEF Walking
  <1>4. Counters'
    BY <1>2 DEF TreeInv, Counters, info
  <1> QED  BY <1>3, <1>4 DEF TreeInv

LEMMA PartInit == MCInit => TreeInv /\ FindInv /\ Tree!Init
  <1> SUFFICES ASSUME MCInit PROVE TreeInv /\ FindInv /\ Tree!Init
    OBVIOUS
  <1>1. Init
    BY DEF MCInit
  <1>2. root = 0
    BY <1>1 DEF Init, Nothing
  <1>3. Tree!Init
    BY <1>2, NoTree DEF Tree!Init
  <1> QED  BY <1>1, <1>3, TreeInit, FindInit

\* While another part runs, the device tree rests.
LEMMA PartStep ==
    ASSUME TreeInv, FindInv, [MCNext]_<<part, vars, xml, doc>>
    PROVE  TreeInv' /\ FindInv' /\ (Tree!Next \/ UNCHANGED TreeView)
  <1>1. CASE Next
    BY <1>1, TreeStep, FindTreeStep DEF Steps
  <1>2. CASE UNCHANGED vars
    <2>1. UNCHANGED <<nodes, props, tree, info>>
      BY <1>2 DEF vars
    <2>2. UNCHANGED TreeView
      BY <2>1, ViewRests
    <2> QED  BY <1>2, <2>2, TreeRests, FindRests
  <1>3. Next \/ UNCHANGED vars
    BY DEF MCNext
  <1> QED  BY <1>1, <1>2, <1>3

LEMMA PartInvariant == MCSpec => [](TreeInv /\ FindInv)
  <1>1. TreeInv /\ FindInv /\ [MCNext]_<<part, vars, xml, doc>> => (TreeInv /\ FindInv)'
    BY PartStep
  <1> QED  BY PartInit, <1>1, PTL DEF MCSpec

\* device_tree.c: every entry of the blocks that malloc gave is in exactly one
\* of the free list, the list of blocks and the tree, whatever was added,
\* searched for, out of memory or finalized.
THEOREM EntriesStayAccounted == MCSpec => []EntriesAccounted
  <1>1. TreeInv => EntriesAccounted
    BY TreeTypes, TreePartitioned DEF EntriesAccounted
  <1> QED  BY PartInvariant, <1>1, PTL

\* The pools of the parser and of the device tree: no entry of either is lost or
\* used twice, and a symbol counts the tags that name it.
THEOREM PoolsStayAccounted == MCSpec => []PoolsAccounted
  BY TagsAccounted, EntriesStayAccounted, PTL DEF PoolsAccounted

\* DT__AddChild, DT__AddProperty, DT__FindNode, DT__Finalize: the pools and
\* links implement an ordered tree.
THEOREM KeepsTree == MCSpec => ImplementsTree
  <1>1. TreeInv /\ FindInv /\ [MCNext]_<<part, vars, xml, doc>> => [Tree!Next]_TreeView
    BY PartStep
  <1> QED  BY PartInit, PartInvariant, <1>1, PTL DEF MCSpec, ImplementsTree, Tree!Spec, TreeView

\* DT__FindNode: a path of names that are taken in one piece and mean one node
\* is found, however the tree was built and whatever it looked like before.
THEOREM SearchesEnd == MCSpec => FindsNamed
  <1>1. ASSUME TreeInv, FindInv, [MCNext]_<<part, vars, xml, doc>>
        PROVE  [/\ walk # NoWalk /\ walk' = NoWalk
                /\ \A i \in DOMAIN walk.asked : ~ Long(walk.asked[i])
                /\ Unambiguous(walk.asked)
                => walk.path = <<>> /\ walk.at \in Answering(walk.asked)]_vars
    <2>1. CASE UNCHANGED vars
      BY <2>1
    <2>2. CASE Next
      BY <1>1, <2>2, FindEndsWell
    <2>3. Next \/ UNCHANGED vars
      BY <1>1 DEF MCNext
    <2> QED  BY <2>1, <2>2, <2>3
  <1> QED  BY PartInvariant, <1>1, PTL DEF MCSpec, FindsNamed
=============================================================================
