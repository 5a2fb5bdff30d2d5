-------------------------- MODULE NvramList_proofs --------------------------
(***************************************************************************)
(* For lists of every length, and any names, settings and defaults: the    *)
(* list of NVRAM variables and its tail agree, and the list implements the *)
(* dictionary.                                                             *)
(*                                                                         *)
(* The links are a list if they spell out some sequence of nodes.  The     *)
(* proofs carry that sequence along: an append extends it, a removal takes *)
(* one node out, and what the code reads by walking the links is what the  *)
(* sequence says.                                                          *)
(***************************************************************************)
EXTENDS NvramList, FiniteSetTheorems, SequenceTheorems, WellFoundedInduction, TLAPS

\* The header's cell and those of the nodes, in the order of the list.
CellAt(nodes, i) == IF i = 0 THEN Header ELSE nodes[i]

\* The links spell out these nodes, and no other cell leads anywhere.
Spells(n, nodes) ==
    /\ \A i \in 1 .. n : nodes[i] \in 1 .. used
    /\ \A i, j \in 1 .. n : nodes[i] = nodes[j] => i = j
    /\ link[Header] = IF n = 0 THEN NULL ELSE nodes[1]
    /\ \A i \in 1 .. n : link[nodes[i]] = IF i = n THEN NULL ELSE nodes[i + 1]
    /\ tail = IF n = 0 THEN Header ELSE nodes[n]
    /\ \A m \in Nodes : (\A i \in 1 .. n : m # nodes[i]) => link[m] = NULL
    /\ \A i \in 1 .. n : name[nodes[i]] \in Names \ LongNames

\* Each node has a name of its own.
Distinct(n, nodes) ==
    \A i, j \in 1 .. n : name[nodes[i]] = name[nodes[j]] => i = j

\* Until the prompt takes over, the defaults set so far are in the list.
HasDefaults(n, nodes) ==
    phase # "prompt" =>
        \A i \in 1 .. loaded : \E j \in 1 .. n : name[nodes[j]] = Defaults[i][1]

\* All callers use names that a node can keep.
ShortNames == LongNames = {}

IInv ==
    /\ TypeOK
    /\ phase = "delay" => loaded = Len(Defaults)
    /\ \E n \in Nat : \E nodes \in [1 .. n -> Nodes] :
          /\ Spells(n, nodes)
          /\ HasDefaults(n, nodes)
          /\ ShortNames => Distinct(n, nodes)

USE NodeAssumption, SettingAssumption, NameAssumption

\* How many defaults there are, and have been set.
LEMMA DefaultsCounted ==
    /\ Len(Defaults) \in Nat
    /\ TypeOK => loaded \in Nat /\ loaded <= Len(Defaults)
    /\ TypeOK /\ MoreDefaults => loaded + 1 \in 1 .. Len(Defaults) /\ loaded + 1 \in 0 .. Len(Defaults)
    /\ TypeOK /\ ~MoreDefaults => loaded = Len(Defaults)
  <1>1. Len(Defaults) \in Nat
    BY DefaultAssumption
  <1>2. \A count \in Nat : \A l \in 0 .. count :
           /\ l \in Nat /\ l <= count
           /\ l <= count - 1 => l + 1 \in 1 .. count /\ l + 1 \in 0 .. count
           /\ ~ (l <= count - 1) => l = count
    OBVIOUS
  <1>3. TypeOK => loaded \in 0 .. Len(Defaults)
    BY DEF TypeOK
  <1>4. MoreDefaults <=> loaded <= Len(Defaults) - 1
    BY DEF MoreDefaults, Size
  <1> QED  BY <1>1, <1>2, <1>3, <1>4

-----------------------------------------------------------------------------
(* Walking the list *)

\* A set of natural numbers has a least one, which Min finds.
LEMMA LeastNat ==
    ASSUME NEW S \in SUBSET Nat, S # {}
    PROVE  (\E m \in S : \A k \in S : m <= k) /\ Min(S) \in S
  <1> DEFINE less == {p \in Nat \X Nat : p[1] < p[2]}
  <1>1. IsWellFoundedOn(less, Nat)
    BY NatLessThanWellFounded DEF OpToRel
  <1>2. PICK m \in S : \A k \in S : ~ (<<k, m>> \in less)
    <2> HIDE DEF less
    <2> QED  BY <1>1, WFMin
  <1>3. ASSUME NEW k \in S PROVE m <= k
    <2>1. m \in Nat /\ k \in Nat /\ ~ (k < m)
      BY <1>2
    <2> QED  BY <2>1
  <1> QED  BY <1>3 DEF Min

\* A set of one number has it as its least and its largest.
LEMMA OneNumber ==
    ASSUME NEW k \in Nat
    PROVE  Min({k}) = k /\ Max({k}) = k
  BY DEF Min, Max

\* There are no more different numbers up to a limit than the limit says.
LEMMA NoMoreThan ==
    ASSUME NEW n \in Nat, NEW most \in Nat, NEW f \in [1 .. n -> 1 .. most],
           \A i, j \in 1 .. n : f[i] = f[j] => i = j
    PROVE  n <= most
  <1>1. f \in Injection(1 .. n, 1 .. most)
    BY DEF Injection, IsInjective
  <1>2. IsFiniteSet(1 .. most)
    BY FS_Interval
  <1>3. \A m \in Nat : Cardinality(1 .. m) = m
    BY FS_Interval
  <1>4. Cardinality(1 .. n) <= Cardinality(1 .. most)
    BY <1>1, <1>2, FS_Injection
  <1> QED  BY <1>3, <1>4

\* As many members as there are numbers for them.
LEMMA AsMany ==
    ASSUME NEW n \in Nat, NEW f, \A i, j \in 1 .. n : f[i] = f[j] => i = j
    PROVE  Cardinality({f[i] : i \in 1 .. n}) = n
  <1> DEFINE S == {f[i] : i \in 1 .. n}
             g == [i \in 1 .. n |-> f[i]]
  <1>1. g \in Bijection(1 .. n, S)
    BY DEF Bijection, Injection, Surjection, IsInjective
  <1>2. IsFiniteSet(1 .. n) /\ Cardinality(1 .. n) = n
    BY FS_Interval
  <1>3. Cardinality(S) = Cardinality(1 .. n)
    BY <1>1, <1>2, FS_Bijection DEF ExistsBijection
  <1> QED  BY <1>2, <1>3

\* Following the links, node by node, gives the nodes they spell out.
LEMMA WalkSpelled ==
    ASSUME TypeOK, NEW n \in Nat, NEW nodes \in [1 .. n -> Nodes], Spells(n, nodes)
    PROVE  /\ n <= used /\ used <= MaxNodes /\ used \in Nat
           /\ Walk = [i \in 1 .. MaxNodes + 1 |-> IF i <= n THEN nodes[i] ELSE NULL]
  <1> DEFINE D == 1 .. MaxNodes + 1
             step(w) == [i \in D |-> IF i = 1 THEN link[Header] ELSE Follow(w[i - 1])]
             spelled == [i \in D |-> IF i <= n THEN nodes[i] ELSE NULL]
             walk == CHOOSE w : w = step(w)
  <1>1. n <= used /\ used <= MaxNodes /\ used \in Nat
    <2>1. used \in Nat /\ used <= MaxNodes
      BY DEF TypeOK
    <2>2. nodes \in [1 .. n -> 1 .. used] /\ \A i, j \in 1 .. n : nodes[i] = nodes[j] => i = j
      BY DEF Spells
    <2> QED  BY <2>1, <2>2, NoMoreThan
  <1>2. Walk = walk
    BY DEF Walk
  <1>3. spelled = step(spelled)
    <2>1. ASSUME NEW i \in D
          PROVE  spelled[i] = IF i = 1 THEN link[Header] ELSE Follow(spelled[i - 1])
      <3>1. CASE i = 1
        BY <3>1 DEF Spells
      <3>2. CASE i # 1 /\ i - 1 <= n
        <4>1. i - 1 \in 1 .. n /\ i - 1 \in D /\ nodes[i - 1] \in Nodes /\ n \in Nat
          BY <3>2
        <4>2. spelled[i - 1] = nodes[i - 1] /\ nodes[i - 1] # NULL
          BY <4>1 DEF Nodes
        <4>3. link[nodes[i - 1]] = IF i - 1 = n THEN NULL ELSE nodes[i - 1 + 1]
          BY <4>1 DEF Spells
        <4> QED  BY <3>2, <4>1, <4>2, <4>3 DEF Follow
      <3>3. CASE i # 1 /\ ~ (i - 1 <= n)
        BY <3>3 DEF Follow
      <3> QED  BY <3>1, <3>2, <3>3
    <2> QED  BY <2>1
  <1>4. walk = step(walk)
    BY <1>3
  <1>5. ASSUME NEW w, w = step(w) PROVE w = spelled
    <2> DEFINE Differ == {i \in D : w[i] # spelled[i]}
    <2>1. CASE Differ # {}
      <3>1. PICK m \in Differ : \A k \in Differ : m <= k
        <4>1. Differ \in SUBSET Nat
          OBVIOUS
        <4> HIDE DEF Differ
        <4> QED  BY <2>1, <4>1, LeastNat
      <3>2. m # 1
        BY <1>3, <1>5
      <3>3. m \in D /\ m - 1 \in D /\ m - 1 \notin Differ
        BY <3>1, <3>2
      <3>4. w[m - 1] = spelled[m - 1]
        BY <3>3
      <3>5. w[m] = Follow(w[m - 1]) /\ spelled[m] = Follow(spelled[m - 1])
        <4> HIDE DEF spelled
        <4> QED  BY <1>3, <1>5, <3>2, <3>3
      <3> QED  BY <3>1, <3>4, <3>5
    <2>2. CASE Differ = {}
      <3>1. w = [i \in D |-> w[i]]
        BY <1>5
      <3>2. \A i \in D : w[i] = spelled[i]
        BY <2>2
      <3> QED  BY <3>1, <3>2
    <2> QED  BY <2>1, <2>2
  <1> HIDE DEF walk
  <1> QED  BY <1>1, <1>2, <1>4, <1>5

\* What the operations of nvram.c see of the list.
Reads ==
    \A n \in Nat : \A nodes \in [1 .. n -> Nodes] :
        TypeOK /\ Spells(n, nodes) =>
            /\ n <= used /\ used <= MaxNodes
            /\ Walk = [i \in 1 .. MaxNodes + 1 |-> IF i <= n THEN nodes[i] ELSE NULL]
            /\ Listed = {nodes[i] : i \in 1 .. n}
            /\ Length = n
            /\ \A x \in Names : Positions(x) = {i \in 1 .. n : name[nodes[i]] = x}

LEMMA ReadsSpelled == Reads
  <1> SUFFICES ASSUME TypeOK, NEW n \in Nat, NEW nodes \in [1 .. n -> Nodes],
                      Spells(n, nodes)
               PROVE  /\ n <= used /\ used <= MaxNodes
                      /\ Walk = [i \in 1 .. MaxNodes + 1 |-> IF i <= n THEN nodes[i] ELSE NULL]
                      /\ Listed = {nodes[i] : i \in 1 .. n}
                      /\ Length = n
                      /\ \A x \in Names : Positions(x) = {i \in 1 .. n : name[nodes[i]] = x}
    BY DEF Reads
  <1>1. /\ n <= used /\ used <= MaxNodes /\ used \in Nat
        /\ Walk = [i \in 1 .. MaxNodes + 1 |-> IF i <= n THEN nodes[i] ELSE NULL]
    BY WalkSpelled
  <1>2. \A i \in 1 .. n : nodes[i] # NULL /\ nodes[i] \in Nodes /\ i \in 1 .. MaxNodes
    BY <1>1 DEF Nodes
  <1>3. Listed = {nodes[i] : i \in 1 .. n}
    BY <1>1, <1>2 DEF Listed, Range
  <1>4. Length = n
    <2>1. \A i, j \in 1 .. n : nodes[i] = nodes[j] => i = j
      BY DEF Spells
    <2>2. Cardinality({nodes[i] : i \in 1 .. n}) = n
      BY <2>1, AsMany
    <2> QED  BY <1>3, <2>2 DEF Length
  <1>5. \A x \in Names : Positions(x) = {i \in 1 .. n : name[nodes[i]] = x}
    BY <1>1, <1>2 DEF Positions, Nodes
  <1> QED  BY <1>1, <1>3, <1>4, <1>5

\* The same in the state after a step.
LEMMA ReadsSpelledAfter == Reads'
  BY ReadsSpelled, PTL

-----------------------------------------------------------------------------
(* Changing the list *)

\* The store's part of the types.
StoreType ==
    /\ link \in [Cells -> Nodes \union {NULL}]
    /\ tail \in Cells
    /\ name \in [Nodes -> Names \union {NULL}]
    /\ setting \in [Nodes -> Settings]
    /\ overridden \in [Nodes -> {0, 1}]
    /\ used \in 0 .. MaxNodes

\* An append puts a node that was not used before at the end.
LEMMA Appends ==
    ASSUME TypeOK, NEW n \in Nat, NEW nodes \in [1 .. n -> Nodes], Spells(n, nodes),
           NEW x \in Names, NEW v \in Settings, AddNode(x, v)
    PROVE  /\ StoreType'
           /\ \E longer \in [1 .. n + 1 -> Nodes] :
                 /\ \A i \in 1 .. n : longer[i] = nodes[i]
                 /\ longer[n + 1] = used + 1
                 /\ Spells(n + 1, longer)'
  <1>1. PICK node \in Nodes : node = used + 1
    BY DEF AddNode
  <1>2. /\ used' = node /\ tail' = node
        /\ name' = [name EXCEPT ![node] = StoredAs(x)]
        /\ setting' = [setting EXCEPT ![node] = v]
        /\ overridden' = [overridden EXCEPT ![node] = 0]
        /\ link' = [link EXCEPT ![tail] = node, ![node] = NULL]
    BY <1>1 DEF AddNode
  <1>3. StoredAs(x) \in Names \ LongNames
    BY DEF StoredAs
  <1>4. StoreType'
    <2>1. node \in Cells /\ node \in 0 .. MaxNodes
      BY DEF Nodes, Cells
    <2>2. StoredAs(x) \in Names /\ 0 \in {0, 1}
      BY <1>3
    <2>3. link' \in [Cells -> Nodes \union {NULL}] /\ tail' \in Cells
      BY <1>2, <2>1 DEF TypeOK
    <2>4. name' \in [Nodes -> Names \union {NULL}]
      BY <1>2, <2>2 DEF TypeOK
    <2>5. setting' \in [Nodes -> Settings] /\ overridden' \in [Nodes -> {0, 1}]
      BY <1>2, <2>2 DEF TypeOK
    <2> QED  BY <1>2, <2>1, <2>3, <2>4, <2>5 DEF StoreType
  <1>5. PICK longer \in [1 .. n + 1 -> Nodes] :
            longer = [i \in 1 .. n + 1 |-> IF i <= n THEN nodes[i] ELSE node]
    <2>1. \A i \in 1 .. n + 1 : (IF i <= n THEN nodes[i] ELSE node) \in Nodes
      OBVIOUS
    <2> QED  BY <2>1
  <1>6. /\ \A i \in 1 .. n : longer[i] = nodes[i]
        /\ longer[n + 1] = node
    BY <1>5
  <1>7. /\ used \in Nat /\ node \in Nat /\ node = used + 1
        /\ \A i \in 1 .. n : nodes[i] \in Nat /\ nodes[i] <= used /\ nodes[i] # node
    BY <1>1 DEF TypeOK, Spells, Nodes
  <1>8. tail # node /\ tail \in Cells /\ Header # node
    BY <1>7 DEF Spells, Header, Nodes, TypeOK
  <1>9. \A c \in Cells : link'[c] = IF c = tail THEN node ELSE IF c = node THEN NULL ELSE link[c]
    BY <1>2, <1>8 DEF TypeOK, Cells, Nodes
  <1>10. \A m \in Nodes : name'[m] = IF m = node THEN StoredAs(x) ELSE name[m]
    BY <1>2 DEF TypeOK
  <1>11. Spells(n + 1, longer)'
    <2>0. \A i \in 1 .. n + 1 : i \in 1 .. n \/ i = n + 1
      OBVIOUS
    <2>1. \A i \in 1 .. n + 1 : longer[i] \in 1 .. used'
      <3>1. node \in 1 .. used' /\ \A i \in 1 .. n : nodes[i] \in 1 .. used'
        BY <1>2, <1>7 DEF Nodes
      <3> QED  BY <1>6, <2>0, <3>1
    <2>2. \A i, j \in 1 .. n + 1 : longer[i] = longer[j] => i = j
      BY <1>6, <1>7, <2>0 DEF Spells
    <2>3. link'[Header] = longer[1]
      BY <1>6, <1>8, <1>9 DEF Spells, Cells
    <2>4. \A i \in 1 .. n + 1 : link'[longer[i]] = IF i = n + 1 THEN NULL ELSE longer[i + 1]
      <3>1. link'[node] = NULL
        BY <1>8, <1>9 DEF Cells
      <3>2. ASSUME NEW i \in 1 .. n PROVE link'[nodes[i]] = longer[i + 1]
        <4>1. nodes[i] \in Cells /\ nodes[i] # node
          BY <1>7 DEF Cells
        <4>2. CASE i = n
          BY <1>6, <1>9, <4>1, <4>2 DEF Spells
        <4>3. CASE i # n
          <5>1. nodes[i] # tail /\ i + 1 \in 1 .. n
            BY <4>3 DEF Spells
          <5> QED  BY <1>6, <1>9, <4>1, <4>3, <5>1 DEF Spells
        <4> QED  BY <4>2, <4>3
      <3> QED  BY <1>6, <3>1, <3>2
    <2>5. tail' = longer[n + 1]
      BY <1>2, <1>6
    <2>6. ASSUME NEW m \in Nodes, \A i \in 1 .. n + 1 : m # longer[i]
          PROVE  link'[m] = NULL
      <3>1. m # node /\ (\A i \in 1 .. n : m # nodes[i])
        BY <1>6, <2>6
      <3>2. m # tail
        BY <3>1 DEF Spells, Header, Nodes
      <3> QED  BY <1>9, <3>1, <3>2 DEF Spells, Cells
    <2>7. \A i \in 1 .. n + 1 : name'[longer[i]] \in Names \ LongNames
      <3>1. name'[node] \in Names \ LongNames
        BY <1>3, <1>10
      <3>2. \A i \in 1 .. n : name'[nodes[i]] \in Names \ LongNames
        BY <1>7, <1>10 DEF Spells
      <3> QED  BY <1>6, <2>0, <3>1, <3>2
    <2> QED  BY <2>1, <2>2, <2>3, <2>4, <2>5, <2>6, <2>7 DEF Spells
  <1> QED  BY <1>1, <1>4, <1>6, <1>11

\* A removal takes one node out, wherever in the list it was.
LEMMA Removes ==
    ASSUME TypeOK, NEW n \in Nat, NEW nodes \in [1 .. n -> Nodes], Spells(n, nodes),
           NEW p \in 1 .. n, RemoveNode(nodes[p]), UNCHANGED <<name, setting, overridden, used>>
    PROVE  /\ StoreType'
           /\ \E shorter \in [1 .. n - 1 -> Nodes] :
                 /\ \A i \in 1 .. n - 1 : shorter[i] = nodes[IF i < p THEN i ELSE i + 1]
                 /\ Spells(n - 1, shorter)'
  <1> DEFINE cell == CHOOSE c \in Cells : link[c] = nodes[p]
  <1>1. cell = CellAt(nodes, p - 1) /\ cell \in Cells /\ link[cell] = nodes[p]
    <2>1. CellAt(nodes, p - 1) \in Cells /\ link[CellAt(nodes, p - 1)] = nodes[p]
      BY DEF CellAt, Spells, Cells
    <2>2. ASSUME NEW c \in Cells, link[c] = nodes[p] PROVE c = CellAt(nodes, p - 1)
      <3>1. nodes[p] # NULL
        BY DEF Nodes
      <3>2. CASE c = Header
        BY <2>2, <3>1, <3>2 DEF Spells, CellAt
      <3>3. ASSUME NEW i \in 1 .. n, c = nodes[i] PROVE c = CellAt(nodes, p - 1)
        <4>1. i # n /\ nodes[i + 1] = nodes[p]
          BY <2>2, <3>1, <3>3 DEF Spells
        <4>2. i + 1 \in 1 .. n /\ i + 1 = p
          BY <4>1 DEF Spells
        <4> QED  BY <3>3, <4>2 DEF CellAt
      <3>4. c = Header \/ \E i \in 1 .. n : c = nodes[i]
        BY <2>2, <3>1 DEF Spells, Cells
      <3> QED  BY <3>2, <3>3, <3>4
    <2> QED  BY <2>1, <2>2
  <1>2. /\ link' = [link EXCEPT ![cell] = link[nodes[p]], ![nodes[p]] = NULL]
        /\ tail' = IF tail = nodes[p] THEN cell ELSE tail
        /\ name' = name /\ setting' = setting /\ overridden' = overridden /\ used' = used
    BY DEF RemoveNode
  <1> HIDE DEF cell
  <1>3. nodes[p] \in Nodes /\ nodes[p] # Header /\ nodes[p] \in Cells /\ cell # nodes[p]
    BY <1>1 DEF CellAt, Spells, Nodes, Header, Cells
  <1>4. StoreType'
    BY <1>1, <1>2, <1>3 DEF TypeOK, StoreType
  <1>5. \A c \in Cells :
            link'[c] = IF c = nodes[p] THEN NULL ELSE IF c = cell THEN link[nodes[p]] ELSE link[c]
    BY <1>1, <1>2, <1>3 DEF TypeOK
  <1>6. PICK shorter \in [1 .. n - 1 -> Nodes] :
            shorter = [i \in 1 .. n - 1 |-> nodes[IF i < p THEN i ELSE i + 1]]
    <2>1. \A i \in 1 .. n - 1 : nodes[IF i < p THEN i ELSE i + 1] \in Nodes
      OBVIOUS
    <2> QED  BY <2>1
  <1>7. \A i \in 1 .. n - 1 : shorter[i] = IF i < p THEN nodes[i] ELSE nodes[i + 1]
    BY <1>6
  <1>8. Spells(n - 1, shorter)'
    <2>1. \A i \in 1 .. n - 1 : shorter[i] \in 1 .. used'
      BY <1>2, <1>7 DEF Spells
    <2>2. ASSUME NEW i \in 1 .. n - 1, NEW j \in 1 .. n - 1, shorter[i] = shorter[j]
          PROVE  i = j
      <3> DEFINE at(k) == IF k < p THEN k ELSE k + 1
      <3>1. \A k \in 1 .. n - 1 : at(k) \in 1 .. n /\ shorter[k] = nodes[at(k)]
        BY <1>7
      <3>2. at(i) = at(j)
        <4> HIDE DEF at
        <4> QED  BY <2>2, <3>1 DEF Spells
      <3> QED  BY <3>2
    <2>3. link'[Header] = IF n - 1 = 0 THEN NULL ELSE shorter[1]
      <3>1. Header \in Cells
        BY DEF Cells
      <3>2. CASE p = 1
        <4>1. cell = Header /\ link'[Header] = link[nodes[1]]
          BY <1>1, <1>3, <1>5, <3>1, <3>2 DEF CellAt
        <4> QED  BY <1>7, <3>2, <4>1 DEF Spells
      <3>3. CASE p # 1
        <4>1. cell # Header /\ link'[Header] = link[Header]
          BY <1>1, <1>3, <1>5, <3>1, <3>3 DEF CellAt, Nodes, Header
        <4> QED  BY <1>7, <3>3, <4>1 DEF Spells
      <3> QED  BY <3>2, <3>3
    <2>4. ASSUME NEW i \in 1 .. n - 1
          PROVE  link'[shorter[i]] = IF i = n - 1 THEN NULL ELSE shorter[i + 1]
      <3>1. shorter[i] \in Cells /\ shorter[i] # nodes[p]
        BY <1>7 DEF Spells, Cells
      <3>2. CASE i = p - 1
        <4>1. shorter[i] = cell /\ link'[shorter[i]] = link[nodes[p]]
          BY <1>1, <1>5, <1>7, <3>1, <3>2 DEF CellAt
        <4> QED  BY <1>7, <3>2, <4>1 DEF Spells
      <3>3. CASE i # p - 1
        <4>1. shorter[i] # cell
          <5>1. CASE p = 1
            BY <1>1, <3>1, <5>1 DEF CellAt, Nodes, Header
          <5>2. CASE p # 1
            <6>1. cell = nodes[p - 1] /\ p - 1 \in 1 .. n
              BY <1>1, <5>2 DEF CellAt
            <6> QED  BY <1>7, <3>3, <6>1 DEF Spells
          <5> QED  BY <5>1, <5>2
        <4>2. link'[shorter[i]] = link[shorter[i]]
          BY <1>5, <3>1, <4>1
        <4> QED  BY <1>7, <3>3, <4>2 DEF Spells
      <3> QED  BY <3>2, <3>3
    <2>5. tail' = IF n - 1 = 0 THEN Header ELSE shorter[n - 1]
      <3>1. tail = nodes[n]
        BY DEF Spells
      <3>2. CASE p = n
        BY <1>1, <1>2, <1>7, <3>1, <3>2 DEF CellAt
      <3>3. CASE p # n
        <4>1. tail # nodes[p]
          BY <3>1, <3>3 DEF Spells
        <4> QED  BY <1>2, <1>7, <3>1, <3>3, <4>1
      <3> QED  BY <3>2, <3>3
    <2>6. ASSUME NEW m \in Nodes, \A i \in 1 .. n - 1 : m # shorter[i]
          PROVE  link'[m] = NULL
      <3>1. CASE m = nodes[p]
        BY <1>3, <1>5, <3>1
      <3>2. CASE m # nodes[p]
        <4>1. \A i \in 1 .. n : m # nodes[i]
          <5>1. ASSUME NEW i \in 1 .. n, i # p PROVE m # nodes[i]
            <6>1. CASE i < p
              BY <1>7, <2>6, <5>1, <6>1
            <6>2. CASE i > p
              <7>1. i - 1 \in 1 .. n - 1 /\ shorter[i - 1] = nodes[i]
                BY <1>7, <6>2
              <7> QED  BY <2>6, <7>1
            <6> QED  BY <5>1, <6>1, <6>2
          <5> QED  BY <3>2, <5>1
        <4>2. m # cell
          BY <1>1, <4>1 DEF CellAt, Nodes, Header
        <4> QED  BY <1>5, <3>2, <4>1, <4>2 DEF Spells, Cells
      <3> QED  BY <3>1, <3>2
    <2>7. \A i \in 1 .. n - 1 : name'[shorter[i]] \in Names \ LongNames
      BY <1>2, <1>7 DEF Spells
    <2>8. n - 1 \in Nat
      OBVIOUS
    <2> QED  BY <2>1, <2>2, <2>3, <2>4, <2>5, <2>6, <2>7, <2>8 DEF Spells
  <1> QED  BY <1>4, <1>6, <1>8

-----------------------------------------------------------------------------
(* The inductive invariant *)

\* nvram_variable_set changes the node of that name, or appends one.
LEMMA Sets ==
    ASSUME TypeOK, NEW n \in Nat, NEW nodes \in [1 .. n -> Nodes], Spells(n, nodes),
           NEW x \in Names, NEW v \in Settings, VariableSet(x, v)
    PROVE  \/ \E p \in 1 .. n :
                 /\ name[nodes[p]] = x
                 /\ setting' = [setting EXCEPT ![nodes[p]] = v]
                 /\ overridden' = [overridden EXCEPT ![nodes[p]] = 1]
                 /\ UNCHANGED <<link, tail, name, used>>
           \/ (\A i \in 1 .. n : name[nodes[i]] # x) /\ AddNode(x, v)
  <1>1. /\ Positions(x) = {i \in 1 .. n : name[nodes[i]] = x}
        /\ Walk = [i \in 1 .. MaxNodes + 1 |-> IF i <= n THEN nodes[i] ELSE NULL]
        /\ n <= used /\ used <= MaxNodes
    BY ReadsSpelled DEF Reads
  <1>2. CASE Found(x)
    <2>1. PICK p \in 1 .. n : p = Min(Positions(x)) /\ name[nodes[p]] = x
      <3>1. Positions(x) \in SUBSET Nat /\ Positions(x) # {}
        BY <1>1, <1>2 DEF Found
      <3>2. Min(Positions(x)) \in Positions(x)
        BY <3>1, LeastNat
      <3> QED  BY <1>1, <3>2
    <2>2. FirstMatch(x) = nodes[p]
      <3>1. p \in 1 .. MaxNodes + 1 /\ p <= n
        BY <1>1, <2>1 DEF TypeOK
      <3> QED  BY <1>1, <2>1, <3>1 DEF FirstMatch
    <2> QED  BY <1>2, <2>1, <2>2 DEF VariableSet
  <1>3. CASE ~Found(x)
    BY <1>1, <1>3 DEF Found, VariableSet
  <1> QED  BY <1>2, <1>3

\* nvram_variable_unset takes out the node of that name, if there is one.
LEMMA Unsets ==
    ASSUME TypeOK, NEW n \in Nat, NEW nodes \in [1 .. n -> Nodes], Spells(n, nodes),
           NEW x \in Names, VariableUnset(x)
    PROVE  /\ UNCHANGED <<name, setting, overridden, used>>
           /\ \/ \E p \in 1 .. n : name[nodes[p]] = x /\ RemoveNode(nodes[p])
              \/ UNCHANGED store
  <1>1. /\ Positions(x) = {i \in 1 .. n : name[nodes[i]] = x}
        /\ Walk = [i \in 1 .. MaxNodes + 1 |-> IF i <= n THEN nodes[i] ELSE NULL]
        /\ n <= used /\ used <= MaxNodes
    BY ReadsSpelled DEF Reads
  <1>2. CASE Found(x)
    <2>1. PICK p \in 1 .. n : p = Min(Positions(x)) /\ name[nodes[p]] = x
      <3>1. Positions(x) \in SUBSET Nat /\ Positions(x) # {}
        BY <1>1, <1>2 DEF Found
      <3>2. Min(Positions(x)) \in Positions(x)
        BY <3>1, LeastNat
      <3> QED  BY <1>1, <3>2
    <2>2. FirstMatch(x) = nodes[p]
      <3>1. p \in 1 .. MaxNodes + 1 /\ p <= n
        BY <1>1, <2>1 DEF TypeOK
      <3> QED  BY <1>1, <2>1, <3>1 DEF FirstMatch
    <2> QED  BY <1>2, <2>1, <2>2 DEF VariableUnset
  <1>3. CASE ~Found(x)
    BY <1>3 DEF VariableUnset, store
  <1> QED  BY <1>2, <1>3

\* The links spell out a list that begins with the same names and has x.
Grown(n, nodes, m, after, x) ==
    /\ Spells(m, after)' /\ (ShortNames => Distinct(m, after)')
    /\ n <= m
    /\ \A i \in 1 .. n : name'[after[i]] = name[nodes[i]]
    /\ x \notin LongNames => \E j \in 1 .. m : name'[after[j]] = x

\* After a set they do.
LEMMA SetKeeps ==
    ASSUME TypeOK, NEW n \in Nat, NEW nodes \in [1 .. n -> Nodes], Spells(n, nodes),
           ShortNames => Distinct(n, nodes),
           NEW x \in Names, NEW v \in Settings, VariableSet(x, v)
    PROVE  /\ StoreType'
           /\ \E m \in Nat : \E after \in [1 .. m -> Nodes] :
                 Grown(n, nodes, m, after, x)
  <1>1. ASSUME NEW p \in 1 .. n, name[nodes[p]] = x,
               setting' = [setting EXCEPT ![nodes[p]] = v],
               overridden' = [overridden EXCEPT ![nodes[p]] = 1],
               UNCHANGED <<link, tail, name, used>>
        PROVE  /\ StoreType' /\ Spells(n, nodes)' /\ (ShortNames => Distinct(n, nodes)')
               /\ \A i \in 1 .. n : name'[nodes[i]] = name[nodes[i]]
               /\ \E j \in 1 .. n : name'[nodes[j]] = x
    BY <1>1 DEF TypeOK, StoreType, Spells, Distinct, ShortNames
  <1>2. ASSUME \A i \in 1 .. n : name[nodes[i]] # x, AddNode(x, v)
        PROVE  /\ StoreType'
               /\ \E m \in Nat : \E after \in [1 .. m -> Nodes] :
                     Grown(n, nodes, m, after, x)
    <2>1. StoreType'
      BY <1>2, Appends
    <2>2. PICK after \in [1 .. n + 1 -> Nodes] :
             /\ \A i \in 1 .. n : after[i] = nodes[i]
             /\ after[n + 1] = used + 1
             /\ Spells(n + 1, after)'
      BY <1>2, Appends
    <2>3. /\ \A i \in 1 .. n : name'[after[i]] = name[nodes[i]]
          /\ name'[after[n + 1]] = StoredAs(x)
      <3>1. name' = [name EXCEPT ![used + 1] = StoredAs(x)] /\ used + 1 \in Nodes
        BY <1>2 DEF AddNode
      <3>2. \A i \in 1 .. n : nodes[i] # used + 1
        BY DEF Spells, TypeOK
      <3> QED  BY <2>2, <3>1, <3>2 DEF TypeOK
    <2>4. x \notin LongNames => name'[after[n + 1]] = x
      BY <2>3 DEF StoredAs
    <2>5. ShortNames => Distinct(n + 1, after)'
      <3>1. SUFFICES ASSUME ShortNames, NEW i \in 1 .. n + 1, NEW j \in 1 .. n + 1,
                            name'[after[i]] = name'[after[j]]
                     PROVE  i = j
        BY DEF ShortNames, Distinct
      <3>2. (i \in 1 .. n \/ i = n + 1) /\ (j \in 1 .. n \/ j = n + 1)
        OBVIOUS
      <3>3. name'[after[n + 1]] = x
        BY <2>4, <3>1 DEF ShortNames
      <3> QED  BY <1>2, <2>3, <3>1, <3>2, <3>3 DEF Distinct
    <2>6. n + 1 \in Nat /\ n <= n + 1 /\ n + 1 \in 1 .. n + 1
      OBVIOUS
    <2>7. Grown(n, nodes, n + 1, after, x)
      BY <2>2, <2>3, <2>4, <2>5, <2>6 DEF Grown
    <2> QED  BY <2>1, <2>6, <2>7
  <1>3. ASSUME NEW p \in 1 .. n, name[nodes[p]] = x,
               setting' = [setting EXCEPT ![nodes[p]] = v],
               overridden' = [overridden EXCEPT ![nodes[p]] = 1],
               UNCHANGED <<link, tail, name, used>>
        PROVE  /\ StoreType'
               /\ \E m \in Nat : \E after \in [1 .. m -> Nodes] :
                     Grown(n, nodes, m, after, x)
    <2>1. n <= n
      OBVIOUS
    <2>2. Grown(n, nodes, n, nodes, x)
      BY <1>1, <1>3, <2>1 DEF Grown
    <2> QED  BY <1>1, <1>3, <2>2
  <1> QED  BY <1>2, <1>3, Sets

\* After an unset the links spell out a list as well.
LEMMA UnsetKeeps ==
    ASSUME TypeOK, NEW n \in Nat, NEW nodes \in [1 .. n -> Nodes], Spells(n, nodes),
           ShortNames => Distinct(n, nodes),
           NEW x \in Names, VariableUnset(x)
    PROVE  /\ StoreType'
           /\ \E m \in Nat : \E after \in [1 .. m -> Nodes] :
                 Spells(m, after)' /\ (ShortNames => Distinct(m, after)')
  <1>1. UNCHANGED <<name, setting, overridden, used>>
    BY Unsets
  <1>2. ASSUME NEW p \in 1 .. n, RemoveNode(nodes[p])
        PROVE  /\ StoreType'
               /\ \E m \in Nat : \E after \in [1 .. m -> Nodes] :
                     Spells(m, after)' /\ (ShortNames => Distinct(m, after)')
    <2>1. StoreType'
      BY <1>1, <1>2, Removes
    <2>2. PICK after \in [1 .. n - 1 -> Nodes] :
             /\ \A i \in 1 .. n - 1 : after[i] = nodes[IF i < p THEN i ELSE i + 1]
             /\ Spells(n - 1, after)'
      BY <1>1, <1>2, Removes
    <2>3. ShortNames => Distinct(n - 1, after)'
      <3>1. SUFFICES ASSUME ShortNames, NEW i \in 1 .. n - 1, NEW j \in 1 .. n - 1,
                            name'[after[i]] = name'[after[j]]
                     PROVE  i = j
        BY DEF ShortNames, Distinct
      <3>2. (IF i < p THEN i ELSE i + 1) = (IF j < p THEN j ELSE j + 1)
        BY <1>1, <2>2, <3>1 DEF Distinct
      <3> QED  BY <3>2
    <2>4. n - 1 \in Nat
      OBVIOUS
    <2> QED  BY <2>1, <2>2, <2>3, <2>4
  <1>3. ASSUME UNCHANGED store
        PROVE  StoreType' /\ Spells(n, nodes)' /\ (ShortNames => Distinct(n, nodes)')
    BY <1>3 DEF store, TypeOK, StoreType, Spells, Distinct, ShortNames
  <1> QED  BY <1>2, <1>3, Unsets

LEMMA InitIInv == Init => IInv
  <1> SUFFICES ASSUME Init PROVE IInv
    OBVIOUS
  <1>1. TypeOK
    <2>1. (CHOOSE v \in Settings : TRUE) \in Settings
      OBVIOUS
    <2> QED  BY <2>1, DefaultsCounted DEF Init, TypeOK, Cells, Replies
  <1>2. PICK nodes \in [1 .. 0 -> Nodes] : TRUE
    <2>1. [i \in 1 .. 0 |-> i] \in [1 .. 0 -> Nodes]
      OBVIOUS
    <2> QED  BY <2>1
  <1>3. Spells(0, nodes) /\ HasDefaults(0, nodes) /\ Distinct(0, nodes)
    BY DEF Init, Spells, HasDefaults, Distinct, Cells, Header
  <1> QED  BY <1>1, <1>2, <1>3 DEF IInv, Init

LEMMA IInvStep == IInv /\ [Next]_vars => IInv'
  <1> SUFFICES ASSUME IInv, [Next]_vars PROVE IInv'
    OBVIOUS
  <1> USE DEF Replies
  <1>1. PICK n \in Nat : \E nodes \in [1 .. n -> Nodes] :
            Spells(n, nodes) /\ HasDefaults(n, nodes) /\ (ShortNames => Distinct(n, nodes))
    BY DEF IInv
  <1>2. PICK nodes \in [1 .. n -> Nodes] :
            Spells(n, nodes) /\ HasDefaults(n, nodes) /\ (ShortNames => Distinct(n, nodes))
    BY <1>1
  <1>3. /\ TypeOK /\ (phase = "delay" => loaded = Len(Defaults))
        /\ Len(Defaults) \in Nat /\ loaded \in Nat /\ loaded <= Len(Defaults)
        /\ phase \in {"init", "delay", "prompt"} /\ reply \in Replies
    <2>1. TypeOK /\ (phase = "delay" => loaded = Len(Defaults))
      BY DEF IInv
    <2>2. phase \in {"init", "delay", "prompt"} /\ reply \in Replies
      BY <2>1 DEF TypeOK
    <2> QED  BY <2>1, <2>2, DefaultsCounted
  <1>4. ASSUME UNCHANGED store, phase' # "prompt" => phase # "prompt", loaded' = loaded,
               phase' \in {"init", "delay", "prompt"}, reply' \in Replies,
               phase' = "delay" => loaded' = Len(Defaults)
        PROVE  IInv'
    <2>1. TypeOK'
      BY <1>3, <1>4 DEF TypeOK, store
    <2>2. Spells(n, nodes)' /\ HasDefaults(n, nodes)' /\ (ShortNames => Distinct(n, nodes)')
      BY <1>2, <1>4 DEF store, Spells, HasDefaults, Distinct, ShortNames
    <2> QED  BY <1>4, <2>1, <2>2 DEF IInv, ShortNames
  <1>5. CASE InitVariable
    <2> DEFINE x == Defaults[loaded + 1][1]
               v == Defaults[loaded + 1][2]
    <2>1. /\ loaded + 1 \in 1 .. Len(Defaults) /\ loaded \in Nat
          /\ loaded + 1 \in 0 .. Len(Defaults)
      BY <1>3, <1>5, DefaultsCounted DEF InitVariable
    <2>2. x \in Names \ LongNames /\ v \in Settings
      BY <2>1, DefaultAssumption
    <2>3. /\ VariableSet(x, v) /\ loaded' = loaded + 1 /\ phase = "init"
          /\ UNCHANGED <<phase, reply>>
      BY <1>5 DEF InitVariable
    <2> HIDE DEF x, v
    <2>4. StoreType'
      BY <1>2, <1>3, <2>2, <2>3, SetKeeps
    <2>5. PICK m \in Nat : \E after \in [1 .. m -> Nodes] :
              Grown(n, nodes, m, after, x)
      BY <1>2, <1>3, <2>2, <2>3, SetKeeps
    <2>6. PICK after \in [1 .. m -> Nodes] :
              /\ Spells(m, after)' /\ (ShortNames => Distinct(m, after)')
              /\ n <= m
              /\ \A i \in 1 .. n : name'[after[i]] = name[nodes[i]]
              /\ \E j \in 1 .. m : name'[after[j]] = x
      BY <2>2, <2>5 DEF Grown
    <2>7. HasDefaults(m, after)'
      <3>1. ASSUME NEW i \in 1 .. loaded
            PROVE  \E j \in 1 .. m : name'[after[j]] = Defaults[i][1]
        <4>1. PICK j \in 1 .. n : name[nodes[j]] = Defaults[i][1]
          BY <1>2, <2>3, <3>1 DEF HasDefaults
        <4>2. j \in 1 .. m
          BY <2>6
        <4> QED  BY <2>6, <4>1, <4>2
      <3>2. \E j \in 1 .. m : name'[after[j]] = Defaults[loaded + 1][1]
        BY <2>6 DEF x
      <3>3. \A i \in 1 .. loaded + 1 : i \in 1 .. loaded \/ i = loaded + 1
        BY <2>1
      <3> QED  BY <2>3, <3>1, <3>2, <3>3 DEF HasDefaults
    <2>8. TypeOK'
      <3>1. loaded' \in 0 .. Len(Defaults)
        BY <2>1, <2>3
      <3> QED  BY <1>3, <2>3, <2>4, <3>1 DEF TypeOK, StoreType
    <2>9. phase' # "delay"
      BY <2>3
    <2> QED  BY <2>6, <2>7, <2>8, <2>9 DEF IInv, ShortNames
  <1>6. ASSUME NEW x \in Names, NEW v \in Settings, SetenvSet(x, v) PROVE IInv'
    <2>1. VariableSet(x, v) /\ phase' = "prompt" /\ reply' = "none" /\ loaded' = loaded
      BY <1>6 DEF SetenvSet, Command
    <2>2. StoreType'
      BY <1>2, <1>3, <2>1, SetKeeps
    <2>3. PICK m \in Nat : \E after \in [1 .. m -> Nodes] :
              Spells(m, after)' /\ (ShortNames => Distinct(m, after)')
      BY <1>2, <1>3, <2>1, SetKeeps DEF Grown
    <2>4. TypeOK'
      BY <1>3, <2>1, <2>2 DEF TypeOK, StoreType
    <2>5. \A after : HasDefaults(m, after)'
      BY <2>1 DEF HasDefaults
    <2> QED  BY <2>1, <2>3, <2>4, <2>5 DEF IInv, ShortNames
  <1>7. ASSUME NEW x \in Names, SetenvUnset(x) PROVE IInv'
    <2>1. VariableUnset(x) /\ phase' = "prompt" /\ reply' = "none" /\ loaded' = loaded
      BY <1>7 DEF SetenvUnset, Command
    <2>2. StoreType'
      BY <1>2, <1>3, <2>1, UnsetKeeps
    <2>3. PICK m \in Nat : \E after \in [1 .. m -> Nodes] :
              Spells(m, after)' /\ (ShortNames => Distinct(m, after)')
      BY <1>2, <1>3, <2>1, UnsetKeeps
    <2>4. TypeOK'
      BY <1>3, <2>1, <2>2 DEF TypeOK, StoreType
    <2>5. \A after : HasDefaults(m, after)'
      BY <2>1 DEF HasDefaults
    <2> QED  BY <2>1, <2>3, <2>4, <2>5 DEF IInv, ShortNames
  <1>8. CASE InitDone
    <2>1. loaded = Len(Defaults)
      BY <1>3, <1>8, DefaultsCounted DEF InitDone
    <2> QED  BY <1>3, <1>4, <1>8, <2>1 DEF InitDone
  <1>9. CASE DelayBoot
    BY <1>3, <1>4, <1>9 DEF DelayBoot, TypeOK
  <1>10. ASSUME NEW x \in Names, Getenv(x) \/ Printenv(x) PROVE IInv'
    BY <1>4, <1>10 DEF Getenv, Printenv, Command
  <1>11. CASE SetenvOther \/ GetenvUsage \/ PrintenvAll
    BY <1>4, <1>11 DEF SetenvOther, GetenvUsage, PrintenvAll, Command
  <1>12. CASE UNCHANGED vars
    BY <1>3, <1>4, <1>12 DEF vars, TypeOK
  <1> QED
    BY <1>5, <1>6, <1>7, <1>8, <1>9, <1>10, <1>11, <1>12 DEF Next

LEMMA Invariance == Spec => []IInv
  BY InitIInv, IInvStep, PTL DEF Spec

-----------------------------------------------------------------------------
(* What holds of the list *)

LEMMA SpelledListOK == IInv => ListOK
  <1> SUFFICES ASSUME IInv PROVE ListOK
    OBVIOUS
  <1>1. PICK n \in Nat : \E nodes \in [1 .. n -> Nodes] : Spells(n, nodes)
    BY DEF IInv
  <1>2. PICK nodes \in [1 .. n -> Nodes] : Spells(n, nodes)
    BY <1>1
  <1>3. /\ n <= used /\ used <= MaxNodes /\ used \in Nat
        /\ Walk = [i \in 1 .. MaxNodes + 1 |-> IF i <= n THEN nodes[i] ELSE NULL]
        /\ Listed = {nodes[i] : i \in 1 .. n}
        /\ Length = n
    BY <1>2, ReadsSpelled DEF Reads, IInv, TypeOK
  <1>4. Walk[MaxNodes + 1] = NULL
    BY <1>3
  <1>5. Listed \subseteq 1 .. used
    BY <1>2, <1>3 DEF Spells
  <1>6. link[tail] = NULL
    BY <1>2 DEF Spells
  <1>7. tail = IF Length = 0 THEN Header ELSE Walk[Length]
    BY <1>2, <1>3 DEF Spells
  <1> QED  BY <1>4, <1>5, <1>6, <1>7 DEF ListOK

LEMMA SpelledSound == IInv /\ ShortNames => ListSound
  <1> SUFFICES ASSUME IInv, ShortNames PROVE ListSound
    OBVIOUS
  <1>1. PICK n \in Nat : \E nodes \in [1 .. n -> Nodes] :
            Spells(n, nodes) /\ HasDefaults(n, nodes) /\ Distinct(n, nodes)
    BY DEF IInv
  <1>2. PICK nodes \in [1 .. n -> Nodes] :
            Spells(n, nodes) /\ HasDefaults(n, nodes) /\ Distinct(n, nodes)
    BY <1>1
  <1>3. \A x \in Names : Positions(x) = {i \in 1 .. n : name[nodes[i]] = x}
    BY <1>2, ReadsSpelled DEF Reads, IInv
  <1>4. NamesUnique
    <2>1. SUFFICES ASSUME NEW x \in Names PROVE Cardinality(Positions(x)) <= 1
      BY DEF NamesUnique
    <2>2. CASE Positions(x) = {}
      BY <2>2, FS_EmptySet
    <2>3. ASSUME NEW p \in Positions(x) PROVE Cardinality(Positions(x)) = 1
      <3>1. Positions(x) = {p}
        BY <1>2, <1>3, <2>3 DEF Distinct
      <3> QED  BY <3>1, FS_Singleton
    <2> QED  BY <2>2, <2>3
  <1>5. DefaultsLoaded
    <2>1. SUFFICES ASSUME phase = "delay", NEW i \in 1 .. Len(Defaults)
                   PROVE  Found(Defaults[i][1])
      BY DEF DefaultsLoaded
    <2>2. PICK j \in 1 .. n : name[nodes[j]] = Defaults[i][1]
      BY <1>2, <2>1 DEF HasDefaults, IInv
    <2>3. Defaults[i][1] \in Names
      BY <2>1, DefaultAssumption
    <2> QED  BY <1>3, <2>2, <2>3 DEF Found
  <1> QED  BY <1>4, <1>5, SpelledListOK DEF ListSound, IInv

\* nvram_append_node, nvram_remove_node: after any calls of setenv, with names
\* of any length, the list ends, holds only nodes that were handed out, and its
\* tail is where the next node belongs.
THEOREM ListWellFormed == Spec => [](TypeOK /\ ListOK)
  <1>1. IInv => TypeOK
    BY DEF IInv
  <1> QED  BY <1>1, SpelledListOK, Invariance, PTL

\* As long as no name has more than 63 characters, no variable is listed twice
\* either, and every default is there when the prompt is reached.
THEOREM ListIsSound == ASSUME ShortNames PROVE Spec => []ListSound
  <1>1. IInv => ListSound
    BY SpelledSound
  <1> QED  BY <1>1, Invariance, PTL

-----------------------------------------------------------------------------
(* The list implements the dictionary *)

dict     == [n \in Names |-> ReadSetting(n)]
modified == {name[node] : node \in {m \in Listed : overridden[m] = 1}}
listing  == LET w == Walk IN [i \in 1 .. Length |-> name[w[i]]]

\* What the dictionary's variables are, said of the nodes.
Means ==
    \A n \in Nat : \A nodes \in [1 .. n -> Nodes] :
        TypeOK /\ Spells(n, nodes) /\ Distinct(n, nodes) =>
            /\ \A i \in 1 .. n : dict[name[nodes[i]]] = setting[nodes[i]]
            /\ \A x \in Names : (\A i \in 1 .. n : name[nodes[i]] # x) => dict[x] = NULL
            /\ modified = {name[nodes[i]] : i \in {j \in 1 .. n : overridden[nodes[j]] = 1}}
            /\ listing = [i \in 1 .. n |-> name[nodes[i]]]

LEMMA MeansSpelled == Means
  <1> SUFFICES ASSUME TypeOK, NEW n \in Nat, NEW nodes \in [1 .. n -> Nodes],
                      Spells(n, nodes), Distinct(n, nodes)
               PROVE  /\ \A i \in 1 .. n : dict[name[nodes[i]]] = setting[nodes[i]]
                      /\ \A x \in Names : (\A i \in 1 .. n : name[nodes[i]] # x) => dict[x] = NULL
                      /\ modified = {name[nodes[i]] :
                                        i \in {j \in 1 .. n : overridden[nodes[j]] = 1}}
                      /\ listing = [i \in 1 .. n |-> name[nodes[i]]]
    BY DEF Means
  <1>1. /\ n <= used /\ used <= MaxNodes /\ used \in Nat
        /\ Walk = [i \in 1 .. MaxNodes + 1 |-> IF i <= n THEN nodes[i] ELSE NULL]
        /\ Listed = {nodes[i] : i \in 1 .. n}
        /\ Length = n
        /\ \A x \in Names : Positions(x) = {i \in 1 .. n : name[nodes[i]] = x}
    <2>1. used \in Nat
      BY DEF TypeOK
    <2> QED  BY <2>1, ReadsSpelled DEF Reads
  <1>2. \A i \in 1 .. n : Walk[i] = nodes[i] /\ name[nodes[i]] \in Names
    BY <1>1 DEF Spells
  <1>3. ASSUME NEW i \in 1 .. n PROVE dict[name[nodes[i]]] = setting[nodes[i]]
    <2>1. Positions(name[nodes[i]]) = {i}
      <3>1. Positions(name[nodes[i]]) = {j \in 1 .. n : name[nodes[j]] = name[nodes[i]]}
        BY <1>1, <1>2
      <3>2. \A j \in 1 .. n : name[nodes[j]] = name[nodes[i]] => i = j
        BY DEF Distinct
      <3> QED  BY <3>1, <3>2
    <2>2. Max({i}) = i
      <3>1. i \in Nat
        OBVIOUS
      <3> QED  BY <3>1, OneNumber
    <2>3. ReadSetting(name[nodes[i]]) = setting[Walk[i]]
      BY <2>1, <2>2 DEF ReadSetting
    <2> QED  BY <1>2, <2>3 DEF dict
  <1>4. ASSUME NEW x \in Names, \A i \in 1 .. n : name[nodes[i]] # x PROVE dict[x] = NULL
    <2>1. Positions(x) = {}
      BY <1>1, <1>4
    <2> QED  BY <2>1 DEF dict, ReadSetting
  <1>5. modified = {name[nodes[i]] : i \in {j \in 1 .. n : overridden[nodes[j]] = 1}}
    BY <1>1 DEF modified
  <1>6. listing = [i \in 1 .. n |-> name[nodes[i]]]
    BY <1>1, <1>2 DEF listing
  <1> QED  BY <1>3, <1>4, <1>5, <1>6

LEMMA MeansSpelledAfter == Means'
  BY MeansSpelled, PTL

\* A set adds the variable or overrides it.
LEMMA SetMeans ==
    ASSUME ShortNames, TypeOK, TypeOK', NEW n \in Nat, NEW nodes \in [1 .. n -> Nodes],
           Spells(n, nodes), Distinct(n, nodes),
           NEW x \in Names, NEW v \in Settings, VariableSet(x, v)
    PROVE  /\ Dictionary!Add(x, v) \/ Dictionary!Override(x, v)
           /\ ReadSetting(x)' = v
  <1>1. /\ \A i \in 1 .. n : dict[name[nodes[i]]] = setting[nodes[i]]
        /\ \A y \in Names : (\A i \in 1 .. n : name[nodes[i]] # y) => dict[y] = NULL
        /\ modified = {name[nodes[i]] : i \in {j \in 1 .. n : overridden[nodes[j]] = 1}}
        /\ listing = [i \in 1 .. n |-> name[nodes[i]]]
    BY MeansSpelled DEF Means
  <1>2. \A i \in 1 .. n : /\ nodes[i] \in 1 .. used /\ name[nodes[i]] \in Names
                          /\ setting[nodes[i]] \in Settings
    BY DEF Spells, TypeOK
  <1>3. \A i, j \in 1 .. n : (nodes[i] = nodes[j] => i = j) /\ (name[nodes[i]] = name[nodes[j]] => i = j)
    BY DEF Spells, Distinct
  <1>4. dict'[x] = ReadSetting(x)' /\ DOMAIN dict' = Names /\ DOMAIN dict = Names
        /\ dict = [y \in Names |-> dict[y]] /\ dict' = [y \in Names |-> dict'[y]]
    BY DEF dict
  <1>5. ASSUME NEW p \in 1 .. n, name[nodes[p]] = x,
               setting' = [setting EXCEPT ![nodes[p]] = v],
               overridden' = [overridden EXCEPT ![nodes[p]] = 1],
               UNCHANGED <<link, tail, name, used>>
        PROVE  Dictionary!Override(x, v) /\ dict'[x] = v
    <2>1. Spells(n, nodes)' /\ Distinct(n, nodes)'
      BY <1>5 DEF Spells, Distinct
    <2>2. /\ \A i \in 1 .. n : dict'[name'[nodes[i]]] = setting'[nodes[i]]
          /\ \A y \in Names : (\A i \in 1 .. n : name'[nodes[i]] # y) => dict'[y] = NULL
          /\ modified' = {name'[nodes[i]] : i \in {j \in 1 .. n : overridden'[nodes[j]] = 1}}
          /\ listing' = [i \in 1 .. n |-> name'[nodes[i]]]
      BY <2>1, MeansSpelledAfter DEF Means
    <2>3. \A i \in 1 .. n : /\ setting'[nodes[i]] = IF i = p THEN v ELSE setting[nodes[i]]
                            /\ overridden'[nodes[i]] = IF i = p THEN 1 ELSE overridden[nodes[i]]
      BY <1>3, <1>5 DEF TypeOK
    <2>4. dict' = [dict EXCEPT ![x] = v]
      <3>1. ASSUME NEW y \in Names PROVE dict'[y] = IF y = x THEN v ELSE dict[y]
        <4>1. CASE \A i \in 1 .. n : name[nodes[i]] # y
          BY <1>1, <1>5, <2>2, <4>1
        <4>2. ASSUME NEW i \in 1 .. n, name[nodes[i]] = y
              PROVE  dict'[y] = IF y = x THEN v ELSE dict[y]
          BY <1>1, <1>3, <1>5, <2>2, <2>3, <4>2
        <4> QED  BY <4>1, <4>2
      <3> QED  BY <1>4, <3>1
    <2>5. dict[x] # NULL
      BY <1>1, <1>2, <1>5
    <2>6. modified' = modified \union {x}
      <3>1. modified' = {name[nodes[i]] : i \in {j \in 1 .. n : overridden'[nodes[j]] = 1}}
        BY <1>5, <2>2
      <3>2. {j \in 1 .. n : overridden'[nodes[j]] = 1} = {j \in 1 .. n : overridden[nodes[j]] = 1} \union {p}
        BY <2>3
      <3> DEFINE marked == {j \in 1 .. n : overridden[nodes[j]] = 1}
                 now    == {j \in 1 .. n : overridden'[nodes[j]] = 1}
      <3>3. /\ modified = {name[nodes[i]] : i \in marked}
            /\ modified' = {name[nodes[i]] : i \in now}
            /\ now = marked \union {p}
            /\ name[nodes[p]] = x
        BY <1>1, <1>5, <3>1, <3>2
      <3> HIDE DEF marked, now
      <3> QED  BY <3>3
    <2>7. listing' = listing
      BY <1>1, <1>5, <2>2
    <2>8. dict'[x] = v
      BY <1>4, <2>4
    <2> QED
      BY <2>4, <2>5, <2>6, <2>7, <2>8 DEF Dictionary!Override, dict, modified, listing
  <1>6. ASSUME \A i \in 1 .. n : name[nodes[i]] # x, AddNode(x, v)
        PROVE  Dictionary!Add(x, v) /\ dict'[x] = v
    <2>1. PICK after \in [1 .. n + 1 -> Nodes] :
             /\ \A i \in 1 .. n : after[i] = nodes[i]
             /\ after[n + 1] = used + 1
             /\ Spells(n + 1, after)'
      BY <1>6, Appends
    <2>2. /\ \A i \in 1 .. n : /\ name'[nodes[i]] = name[nodes[i]]
                               /\ setting'[nodes[i]] = setting[nodes[i]]
                               /\ overridden'[nodes[i]] = overridden[nodes[i]]
          /\ name'[after[n + 1]] = x /\ setting'[after[n + 1]] = v
          /\ overridden'[after[n + 1]] = 0
      <3>1. /\ name' = [name EXCEPT ![used + 1] = x] /\ used + 1 \in Nodes
            /\ setting' = [setting EXCEPT ![used + 1] = v]
            /\ overridden' = [overridden EXCEPT ![used + 1] = 0]
        BY <1>6 DEF AddNode, StoredAs, ShortNames
      <3>2. \A i \in 1 .. n : nodes[i] # used + 1
        BY <1>2 DEF TypeOK
      <3> QED  BY <2>1, <3>1, <3>2 DEF TypeOK
    <2>3. \A i \in 1 .. n + 1 : i \in 1 .. n \/ i = n + 1
      OBVIOUS
    <2>4. Distinct(n + 1, after)'
      BY <1>3, <1>6, <2>1, <2>2, <2>3 DEF Distinct
    <2>5. n + 1 \in Nat /\ n + 1 \in 1 .. n + 1 /\ \A i \in 1 .. n : i \in 1 .. n + 1
      OBVIOUS
    <2>6. /\ \A i \in 1 .. n + 1 : dict'[name'[after[i]]] = setting'[after[i]]
          /\ \A y \in Names : (\A i \in 1 .. n + 1 : name'[after[i]] # y) => dict'[y] = NULL
          /\ modified' = {name'[after[i]] : i \in {j \in 1 .. n + 1 : overridden'[after[j]] = 1}}
          /\ listing' = [i \in 1 .. n + 1 |-> name'[after[i]]]
      BY <2>1, <2>4, <2>5, MeansSpelledAfter DEF Means
    <2>7. dict' = [dict EXCEPT ![x] = v]
      <3>1. ASSUME NEW y \in Names PROVE dict'[y] = IF y = x THEN v ELSE dict[y]
        <4>1. CASE y = x
          BY <2>2, <2>5, <2>6, <4>1
        <4>2. CASE y # x /\ \A i \in 1 .. n : name[nodes[i]] # y
          <5>1. \A i \in 1 .. n + 1 : name'[after[i]] # y
            BY <2>1, <2>2, <2>3, <4>2
          <5> QED  BY <1>1, <2>6, <4>2, <5>1
        <4>3. ASSUME y # x, NEW i \in 1 .. n, name[nodes[i]] = y
              PROVE  dict'[y] = dict[y]
          BY <1>1, <2>1, <2>2, <2>5, <2>6, <4>3
        <4> QED  BY <4>1, <4>2, <4>3
      <3> QED  BY <1>4, <3>1
    <2>8. dict[x] = NULL
      BY <1>1, <1>6
    <2>9. modified' = modified
      <3>1. ASSUME NEW j \in 1 .. n + 1
            PROVE  overridden'[after[j]] = 1 <=> j \in 1 .. n /\ overridden[nodes[j]] = 1
        BY <2>1, <2>2, <2>3
      <3>2. {j \in 1 .. n + 1 : overridden'[after[j]] = 1} = {j \in 1 .. n : overridden[nodes[j]] = 1}
        BY <2>5, <3>1
      <3>3. \A j \in 1 .. n : name'[after[j]] = name[nodes[j]]
        BY <2>1, <2>2
      <3>4. modified' = {name'[after[i]] : i \in {j \in 1 .. n : overridden[nodes[j]] = 1}}
        BY <2>6, <3>2
      <3>5. \A i \in {j \in 1 .. n : overridden[nodes[j]] = 1} : name'[after[i]] = name[nodes[i]]
        BY <3>3
      <3> QED  BY <1>1, <3>4, <3>5
    <2>10. listing' = Append(listing, x)
      <3>1. listing \in Seq(Names) /\ Len(listing) = n
        BY <1>1, <1>2
      <3>2. /\ Append(listing, x) \in Seq(Names) /\ Len(Append(listing, x)) = n + 1
            /\ \A i \in 1 .. n : Append(listing, x)[i] = listing[i]
            /\ Append(listing, x)[n + 1] = x
        BY <3>1, AppendProperties
      <3>3. Append(listing, x) = [i \in 1 .. n + 1 |-> Append(listing, x)[i]]
        <4> DEFINE longer == Append(listing, x)
        <4>1. longer \in [1 .. Len(longer) -> Names] /\ Len(longer) = n + 1
          BY <3>2, LenProperties
        <4> HIDE DEF longer
        <4>2. longer = [i \in 1 .. n + 1 |-> longer[i]]
          BY <4>1
        <4> QED  BY <4>2 DEF longer
      <3>4. \A i \in 1 .. n + 1 : Append(listing, x)[i] = name'[after[i]]
        BY <1>1, <2>1, <2>2, <2>3, <3>2
      <3> QED  BY <2>6, <3>3, <3>4
    <2>11. dict'[x] = v
      BY <1>4, <2>7
    <2> QED
      BY <2>7, <2>8, <2>9, <2>10, <2>11 DEF Dictionary!Add, dict, modified, listing
  <1> QED  BY <1>4, <1>5, <1>6, Sets

\* An unset takes the variable out, or changes nothing.
LEMMA UnsetMeans ==
    ASSUME TypeOK, TypeOK', NEW n \in Nat, NEW nodes \in [1 .. n -> Nodes],
           Spells(n, nodes), Distinct(n, nodes),
           NEW x \in Names, VariableUnset(x)
    PROVE  Dictionary!Unset(x) \/ UNCHANGED store
  <1>1. /\ \A i \in 1 .. n : dict[name[nodes[i]]] = setting[nodes[i]]
        /\ \A y \in Names : (\A i \in 1 .. n : name[nodes[i]] # y) => dict[y] = NULL
        /\ modified = {name[nodes[i]] : i \in {j \in 1 .. n : overridden[nodes[j]] = 1}}
        /\ listing = [i \in 1 .. n |-> name[nodes[i]]]
    BY MeansSpelled DEF Means
  <1>2. \A i \in 1 .. n : name[nodes[i]] \in Names /\ setting[nodes[i]] \in Settings
    BY DEF Spells, TypeOK
  <1>3. \A i, j \in 1 .. n : name[nodes[i]] = name[nodes[j]] => i = j
    BY DEF Distinct
  <1>4. dict = [y \in Names |-> dict[y]] /\ dict' = [y \in Names |-> dict'[y]]
    BY DEF dict
  <1>5. UNCHANGED <<name, setting, overridden, used>>
    BY Unsets
  <1>6. ASSUME NEW p \in 1 .. n, name[nodes[p]] = x, RemoveNode(nodes[p])
        PROVE  Dictionary!Unset(x)
    <2> DEFINE at(i) == IF i < p THEN i ELSE i + 1
    <2>1. PICK after \in [1 .. n - 1 -> Nodes] :
             /\ \A i \in 1 .. n - 1 : after[i] = nodes[at(i)]
             /\ Spells(n - 1, after)'
      BY <1>5, <1>6, Removes
    <2>2. /\ n - 1 \in Nat
          /\ \A i \in 1 .. n - 1 : at(i) \in 1 .. n /\ at(i) # p
          /\ \A i, j \in 1 .. n - 1 : at(i) = at(j) => i = j
          /\ \A i \in 1 .. n : i # p => \E j \in 1 .. n - 1 : at(j) = i
      <3>1. \A i \in 1 .. n - 1 : at(i) \in 1 .. n /\ at(i) # p
        OBVIOUS
      <3>2. \A i, j \in 1 .. n - 1 : at(i) = at(j) => i = j
        OBVIOUS
      <3>3. ASSUME NEW i \in 1 .. n, i # p PROVE \E j \in 1 .. n - 1 : at(j) = i
        <4>1. CASE i < p
          <5>1. i \in 1 .. n - 1 /\ at(i) = i
            BY <4>1
          <5> QED  BY <5>1
        <4>2. CASE ~ (i < p)
          <5>1. i - 1 \in 1 .. n - 1 /\ at(i - 1) = i
            BY <3>3, <4>2
          <5> QED  BY <5>1
        <4> QED  BY <4>1, <4>2
      <3>4. n - 1 \in Nat
        OBVIOUS
      <3> QED  BY <3>1, <3>2, <3>3, <3>4
    <2> HIDE DEF at
    <2>3. Distinct(n - 1, after)'
      BY <1>3, <1>5, <2>1, <2>2 DEF Distinct
    <2>4. /\ \A i \in 1 .. n - 1 : dict'[name'[after[i]]] = setting'[after[i]]
          /\ \A y \in Names : (\A i \in 1 .. n - 1 : name'[after[i]] # y) => dict'[y] = NULL
          /\ modified' = {name'[after[i]] : i \in {j \in 1 .. n - 1 : overridden'[after[j]] = 1}}
          /\ listing' = [i \in 1 .. n - 1 |-> name'[after[i]]]
      BY <2>1, <2>2, <2>3, MeansSpelledAfter DEF Means
    <2>5. \A i \in 1 .. n - 1 : /\ name'[after[i]] = name[nodes[at(i)]]
                                /\ setting'[after[i]] = setting[nodes[at(i)]]
                                /\ overridden'[after[i]] = overridden[nodes[at(i)]]
      BY <1>5, <2>1
    <2>6. dict' = [dict EXCEPT ![x] = NULL]
      <3>1. ASSUME NEW y \in Names PROVE dict'[y] = IF y = x THEN NULL ELSE dict[y]
        <4>1. CASE y = x
          <5>1. \A i \in 1 .. n - 1 : name'[after[i]] # y
            BY <1>3, <1>6, <2>2, <2>5, <4>1
          <5> QED  BY <2>4, <4>1, <5>1
        <4>2. CASE y # x /\ \A i \in 1 .. n : name[nodes[i]] # y
          <5>1. \A i \in 1 .. n - 1 : name'[after[i]] # y
            BY <2>2, <2>5, <4>2
          <5> QED  BY <1>1, <2>4, <4>2, <5>1
        <4>3. ASSUME y # x, NEW i \in 1 .. n, name[nodes[i]] = y
              PROVE  dict'[y] = dict[y]
          <5>1. PICK j \in 1 .. n - 1 : at(j) = i
            BY <1>6, <2>2, <4>3
          <5> QED  BY <1>1, <2>4, <2>5, <4>3, <5>1
        <4> QED  BY <4>1, <4>2, <4>3
      <3> QED  BY <1>4, <3>1
    <2>7. dict[x] # NULL
      BY <1>1, <1>2, <1>6
    <2>8. modified' = modified \ {x}
      <3>1. ASSUME NEW y \in modified', y = y PROVE y \in modified \ {x}
        <4>1. PICK i \in 1 .. n - 1 : overridden'[after[i]] = 1 /\ y = name'[after[i]]
          BY <2>4, <3>1
        <4>2. at(i) \in 1 .. n /\ at(i) # p /\ y = name[nodes[at(i)]] /\ overridden[nodes[at(i)]] = 1
          BY <2>2, <2>5, <4>1
        <4>3. y \in modified
          BY <1>1, <4>2
        <4>4. y # x
          BY <1>3, <1>6, <4>2
        <4> QED  BY <4>3, <4>4
      <3>2. ASSUME NEW y \in modified \ {x} PROVE y \in modified'
        <4>1. PICK i \in 1 .. n : overridden[nodes[i]] = 1 /\ y = name[nodes[i]]
          BY <1>1, <3>2
        <4>2. PICK j \in 1 .. n - 1 : at(j) = i
          BY <1>6, <2>2, <3>2, <4>1
        <4>3. name'[after[j]] = y /\ overridden'[after[j]] = 1
          BY <2>5, <4>1, <4>2
        <4> QED  BY <2>4, <4>3
      <3> QED  BY <3>1, <3>2
    <2>9. p \in DOMAIN listing /\ listing[p] = x
      BY <1>1, <1>6
    <2>10. listing' = SubSeq(listing, 1, p - 1) \o SubSeq(listing, p + 1, Len(listing))
      <3>1. listing \in Seq(Names) /\ Len(listing) = n
        BY <1>1, <1>2
      <3>2. /\ SubSeq(listing, 1, p - 1) \in Seq(Names) /\ Len(SubSeq(listing, 1, p - 1)) = p - 1
            /\ \A i \in 1 .. p - 1 : SubSeq(listing, 1, p - 1)[i] = listing[i]
        BY <3>1
      <3>3. /\ SubSeq(listing, p + 1, n) \in Seq(Names) /\ Len(SubSeq(listing, p + 1, n)) = n - p
            /\ \A i \in 1 .. n - p : SubSeq(listing, p + 1, n)[i] = listing[p + i]
        BY <3>1
      <3> DEFINE joined == SubSeq(listing, 1, p - 1) \o SubSeq(listing, p + 1, n)
      <3>4. /\ joined \in Seq(Names) /\ Len(joined) = n - 1
            /\ \A i \in 1 .. n - 1 : joined[i] = listing[at(i)]
        <4>1. /\ joined \in Seq(Names) /\ Len(joined) = (p - 1) + (n - p)
              /\ \A i \in 1 .. (p - 1) + (n - p) :
                    joined[i] = IF i <= p - 1 THEN SubSeq(listing, 1, p - 1)[i]
                                ELSE SubSeq(listing, p + 1, n)[i - (p - 1)]
          BY <3>2, <3>3, ConcatProperties
        <4>2. (p - 1) + (n - p) = n - 1
          OBVIOUS
        <4>3. ASSUME NEW i \in 1 .. n - 1 PROVE joined[i] = listing[at(i)]
          <5>1. CASE i <= p - 1
            BY <3>2, <4>1, <4>2, <5>1 DEF at
          <5>2. CASE ~ (i <= p - 1)
            <6>1. i - (p - 1) \in 1 .. n - p /\ p + (i - (p - 1)) = i + 1 /\ ~ (i < p)
              BY <5>2
            <6>2. SubSeq(listing, p + 1, n)[i - (p - 1)] = listing[i + 1]
              BY <3>3, <6>1
            <6>3. joined[i] = SubSeq(listing, p + 1, n)[i - (p - 1)]
              BY <4>1, <4>2, <5>2
            <6> QED  BY <6>1, <6>2, <6>3 DEF at
          <5> QED  BY <5>1, <5>2
        <4> QED  BY <4>1, <4>2, <4>3
      <3> HIDE DEF joined
      <3>5. joined = [i \in 1 .. n - 1 |-> joined[i]]
        <4>1. joined \in [1 .. Len(joined) -> Names]
          BY <3>4, LenProperties
        <4> QED  BY <3>4, <4>1
      <3>6. ASSUME NEW i \in 1 .. n - 1 PROVE joined[i] = name'[after[i]]
        <4>1. at(i) \in 1 .. n /\ joined[i] = listing[at(i)]
          BY <2>2, <3>4
        <4>2. listing[at(i)] = name[nodes[at(i)]]
          BY <1>1, <4>1
        <4> QED  BY <2>5, <4>1, <4>2
      <3>7. listing' = joined
        BY <2>4, <3>5, <3>6
      <3> QED  BY <3>1, <3>7 DEF joined
    <2> QED
      BY <2>6, <2>7, <2>8, <2>9, <2>10
         DEF Dictionary!Unset, Dictionary!RemoveAt, dict, modified, listing
  <1> QED  BY <1>6, Unsets

LEMMA DictionaryInit == Init /\ ShortNames => Dictionary!Init
  <1> SUFFICES ASSUME Init, ShortNames PROVE Dictionary!Init
    OBVIOUS
  <1>1. TypeOK
    BY InitIInv DEF IInv
  <1>2. PICK nodes \in [1 .. 0 -> Nodes] : TRUE
    <2>1. [i \in 1 .. 0 |-> i] \in [1 .. 0 -> Nodes]
      OBVIOUS
    <2> QED  BY <2>1
  <1>3. Spells(0, nodes) /\ Distinct(0, nodes)
    BY DEF Init, Spells, Distinct, Cells, Header
  <1>4. /\ \A x \in Names : dict[x] = NULL
        /\ modified = {}
        /\ listing = [i \in 1 .. 0 |-> name[nodes[i]]]
    <2>1. 0 \in Nat
      OBVIOUS
    <2>2. /\ \A x \in Names : (\A i \in 1 .. 0 : name[nodes[i]] # x) => dict[x] = NULL
          /\ modified = {name[nodes[i]] : i \in {j \in 1 .. 0 : overridden[nodes[j]] = 1}}
          /\ listing = [i \in 1 .. 0 |-> name[nodes[i]]]
      BY <1>1, <1>3, <2>1, MeansSpelled DEF Means
    <2> QED  BY <2>2
  <1>5. dict = [x \in Names |-> NULL] /\ listing = <<>>
    BY <1>4 DEF dict
  <1> QED  BY <1>4, <1>5 DEF Dictionary!Init, dict, modified, listing

\* Every step is a step of the dictionary or none, and a set reads back.
LEMMA DictionaryStep ==
    ASSUME ShortNames, IInv, IInv', [Next]_vars
    PROVE  /\ [Dictionary!Next]_<<dict, modified, listing>>
           /\ \A x \in Names, v \in Settings : SetenvSet(x, v) => ReadSetting(x)' = v
  <1>1. PICK n \in Nat : \E nodes \in [1 .. n -> Nodes] : Spells(n, nodes) /\ Distinct(n, nodes)
    BY DEF IInv
  <1>2. PICK nodes \in [1 .. n -> Nodes] : Spells(n, nodes) /\ Distinct(n, nodes)
    BY <1>1
  <1>3. TypeOK /\ TypeOK'
    BY DEF IInv
  <1>4. ASSUME UNCHANGED store PROVE UNCHANGED <<dict, modified, listing>>
    BY <1>4 DEF store, dict, modified, listing, ReadSetting, Positions, Walk, Follow,
       Listed, Length
  <1>5. ASSUME NEW x \in Names, NEW v \in Settings, VariableSet(x, v)
        PROVE  Dictionary!Next /\ ReadSetting(x)' = v
    BY <1>2, <1>3, <1>5, SetMeans DEF Dictionary!Next
  <1>6. ASSUME NEW x \in Names, VariableUnset(x)
        PROVE  Dictionary!Next \/ UNCHANGED store
    BY <1>2, <1>3, <1>6, UnsetMeans DEF Dictionary!Next
  <1>7. ASSUME InitVariable PROVE Dictionary!Next
    <2>1. loaded + 1 \in 1 .. Len(Defaults)
      BY <1>3, <1>7, DefaultsCounted DEF InitVariable
    <2>2. Defaults[loaded + 1][1] \in Names /\ Defaults[loaded + 1][2] \in Settings
      BY <2>1, DefaultAssumption
    <2>3. VariableSet(Defaults[loaded + 1][1], Defaults[loaded + 1][2])
      BY <1>7 DEF InitVariable
    <2>4. PICK x \in Names, v \in Settings :
              x = Defaults[loaded + 1][1] /\ v = Defaults[loaded + 1][2]
      BY <2>2
    <2>5. VariableSet(x, v)
      BY <2>3, <2>4
    <2> QED  BY <1>5, <2>5
  <1>8. ASSUME NEW x \in Names, NEW v \in Settings, SetenvSet(x, v)
        PROVE  Dictionary!Next /\ ReadSetting(x)' = v
    BY <1>5, <1>8 DEF SetenvSet
  <1>9. ASSUME NEW x \in Names, SetenvUnset(x)
        PROVE  Dictionary!Next \/ UNCHANGED store
    BY <1>6, <1>9 DEF SetenvUnset
  <1>10. ASSUME NEW x \in Names, Getenv(x) \/ Printenv(x) PROVE UNCHANGED store
    BY <1>10 DEF Getenv, Printenv
  <1>11. ASSUME \/ InitDone \/ DelayBoot \/ SetenvOther \/ GetenvUsage \/ PrintenvAll
                \/ UNCHANGED vars
         PROVE  UNCHANGED store
    BY <1>11 DEF InitDone, DelayBoot, SetenvOther, GetenvUsage, PrintenvAll, vars
  <1>12. [Dictionary!Next]_<<dict, modified, listing>>
    BY <1>4, <1>7, <1>8, <1>9, <1>10, <1>11, <1>5 DEF Next
  <1> QED  BY <1>8, <1>12

\* nvram.c keeps a dictionary: what a name reads as, which names were
\* overridden and in which order they print are what the calls of set and unset
\* made them, however nodes were linked and unlinked for it.
THEOREM KeepsDictionary == ASSUME ShortNames PROVE Spec => ImplementsDictionary
  <1>1. Init => Dictionary!Init
    BY DictionaryInit
  <1>2. IInv /\ IInv' /\ [Next]_vars =>
           [Dictionary!Next]_<<[n \in Names |-> ReadSetting(n)],
                              {name[node] : node \in {m \in Listed : overridden[m] = 1}},
                              LET w == Walk IN [i \in 1 .. Length |-> name[w[i]]]>>
    BY DictionaryStep DEF dict, modified, listing
  <1>3. Spec => []IInv
    BY Invariance
  <1> QED  BY <1>1, <1>2, <1>3, PTL DEF Spec, ImplementsDictionary, Dictionary!Spec

\* setenv, then getenv: a variable reads back as it was set, if no name has
\* more than 63 characters.
THEOREM SetsReadBack == ASSUME ShortNames PROVE Spec => SetReadsBack
  <1>1. IInv /\ IInv' /\ [Next]_vars =>
           [\A n \in Names, s \in Settings : SetenvSet(n, s) => ReadSetting(n)' = s]_vars
    BY DictionaryStep
  <1>2. Spec => []IInv
    BY Invariance
  <1> QED  BY <1>1, <1>2, PTL DEF Spec, SetReadsBack
=============================================================================
