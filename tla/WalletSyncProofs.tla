-------------------------- MODULE WalletSyncProofs --------------------------
(***************************************************************************)
(* Proofs about WalletSync: whatever pages arrive, across reorganisations, *)
(* rebuilds, seals and crashes, the block rows of the active file stay one *)
(* linked piece of one chain, its index is the one of these rows, and no   *)
(* stored transaction is lost.                                             *)
(*                                                                         *)
(* TablesOf(X) is the index that belongs to the transactions at the places *)
(* X of a chain, written down without recursion.  upsertTxIndex takes      *)
(* TablesOf(X) to TablesOf of one place more (IndexGrows), so a block and  *)
(* a batch do the same for all of theirs (by induction on the folds), and  *)
(* truncateTables takes it back to the part below a height                 *)
(* (TruncationForgets).  After a seal the index is no longer that of the   *)
(* rows; what stays is Faithful: it knows every row's transactions, and    *)
(* where it does not know an own one, that one lies in the sealed chain.   *)
(***************************************************************************)
EXTENDS WalletSync, FiniteSetTheorems, SequenceTheorems, WellFoundedInduction, TLAPS

(* A non-empty set of naturals has a least member. *)
LEMMA LeastMember ==
    ASSUME NEW S \in SUBSET Nat, S # {}
    PROVE  \E m \in S : \A n \in S : m <= n
<1>1. PICK m \in S : \A n \in S : ~ (<<n, m>> \in OpToRel(<, Nat))
  BY NatLessThanWellFounded, WFMin
<1>2. ASSUME NEW n \in S PROVE m <= n
  <2>1. m \in Nat /\ n \in Nat
    OBVIOUS
  <2>2. ~ (n < m)
    BY <1>1, <2>1 DEF OpToRel
  <2>. QED  BY <2>1, <2>2
<1>. QED  BY <1>2

\* Induction over the natural numbers, a property being the set of those that
\* have it.
LEMMA NaturalInduction ==
  ASSUME NEW Q, 0 \in Q, \A n \in Nat : n \in Q => n + 1 \in Q
  PROVE  \A n \in Nat : n \in Q
<1> DEFINE Bad == Nat \ Q
<1>1. SUFFICES ASSUME Bad # {} PROVE FALSE
  OBVIOUS
<1>2. PICK n \in Bad : \A m \in Bad : n <= m
  <2>1. Bad \in SUBSET Nat
    OBVIOUS
  <2> HIDE DEF Bad
  <2>. QED
    BY <1>1, <2>1, LeastMember
<1>3. n - 1 \in Nat /\ (n - 1) + 1 = n
  OBVIOUS
<1>4. n - 1 \in Q
  BY <1>2, <1>3
<1>. QED
  BY <1>3, <1>4

\* Induction on the subsets of a finite set, smaller ones first.
LEMMA SubsetInduction ==
  ASSUME NEW S, IsFiniteSet(S), NEW Q,
         \A T \in SUBSET S : (\A U \in SUBSET T : U # T => U \in Q) => T \in Q
  PROVE  \A T \in SUBSET S : T \in Q
<1> DEFINE Bad == {n \in Nat : \E T \in SUBSET S : Cardinality(T) = n /\ T \notin Q}
<1>1. \A T \in SUBSET S : IsFiniteSet(T) /\ Cardinality(T) \in Nat
  BY FS_Subset, FS_CardinalityType
<1>2. SUFFICES ASSUME Bad # {} PROVE FALSE
  BY <1>1
<1>3. PICK n \in Bad : \A m \in Bad : n <= m
  <2>1. Bad \in SUBSET Nat
    OBVIOUS
  <2> HIDE DEF Bad
  <2>. QED
    BY <1>2, <2>1, LeastMember
<1>4. PICK T \in SUBSET S : Cardinality(T) = n /\ T \notin Q
  OBVIOUS
<1>5. ASSUME NEW U \in SUBSET T, U # T PROVE U \in Q
  <2>1. Cardinality(U) \in Nat /\ Cardinality(U) <= n /\ Cardinality(U) # n
    BY <1>1, <1>4, <1>5, FS_Subset
  <2>2. Cardinality(U) \notin Bad
    <3> HIDE DEF Bad
    <3>1. n \in Nat
      BY DEF Bad
    <3>. QED
      BY <1>3, <2>1, <3>1
  <2>. QED
    BY <2>1, <2>2
<1>. QED
  BY <1>4, <1>5

\* A finite set of numbers that is not empty has a greatest one.
LEMMA MaxOfNumbers ==
  ASSUME NEW n \in Nat, NEW s \in SUBSET (1..n), s # {}
  PROVE  Max(s) \in s /\ \A i \in s : i <= Max(s)
<1> DEFINE gaps == {n - i : i \in s}
<1>1. gaps \in SUBSET Nat /\ gaps # {}
  <2>1. \A i \in s : n - i \in Nat
    OBVIOUS
  <2>2. gaps # {}
    OBVIOUS
  <2>. QED
    BY <2>1, <2>2
<1>2. PICK gap \in gaps : \A other \in gaps : gap <= other
  <2> HIDE DEF gaps
  <2>. QED
    BY <1>1, LeastMember
<1>3. PICK i \in s : gap = n - i
  OBVIOUS
<1>4. \A j \in s : n - j \in gaps /\ j \in Int
  OBVIOUS
<1> HIDE DEF gaps
<1>5. \A j \in s : i >= j
  <2> TAKE j \in s
  <2>1. n - i <= n - j /\ i \in Int /\ j \in Int
    BY <1>2, <1>3, <1>4
  <2>. QED
    BY <2>1
<1>6. \E k \in s : \A j \in s : k >= j
  BY <1>5
<1>7. Max(s) \in s /\ \A j \in s : Max(s) >= j
  BY <1>6 DEF Max
<1>. QED
  BY <1>4, <1>7

\* The image of a finite set under a function is finite.
LEMMA FiniteImage ==
  ASSUME NEW S, IsFiniteSet(S), NEW f
  PROVE  IsFiniteSet({f[x] : x \in S})
<1> DEFINE image == {f[x] : x \in S}
           g == [x \in S |-> f[x]]
<1>1. g \in Surjection(S, image)
  BY DEF Surjection
<1> HIDE DEF g, image
<1>2. IsFiniteSet(image)
  BY <1>1, FS_Surjection
<1>. QED
  BY <1>2 DEF image

-----------------------------------------------------------------------------
(* The chain below a block holds one block per height, none higher than the block. *)
OneChain(b) ==
    \A c, d \in ChainOf[b] : /\ Height[c] <= Height[b]
                             /\ Height[c] = Height[d] => c = d

LEMMA ChainsAreChains == \A b \in Blocks : OneChain(b)
<1>. DEFINE Bad == {h \in Nat : \E b \in Blocks : Height[b] = h /\ ~ OneChain(b)}
<1>1. SUFFICES Bad = {}
  BY <1>1, ChainStoreAssumption
<1>2. SUFFICES ASSUME Bad # {} PROVE FALSE
  OBVIOUS
<1>3. PICK h \in Bad : \A n \in Bad : h <= n
  <2>. HIDE DEF Bad
  <2>1. Bad \in SUBSET Nat
    BY DEF Bad
  <2>. QED  BY <1>2, <2>1, LeastMember
<1>4. PICK b \in Blocks : Height[b] = h /\ ~ OneChain(b)
  OBVIOUS
<1>5. /\ ChainOf[b] \subseteq Blocks
      /\ ChainOf[b] = {b} \cup IF Parent[b] = NoBlock THEN {} ELSE ChainOf[Parent[b]]
  BY WalletSyncAssumption
<1>6. CASE Parent[b] = NoBlock
  <2>1. ChainOf[b] = {b} /\ Height[b] \in Nat
    BY <1>5, <1>6, ChainStoreAssumption
  <2>. QED  BY <1>4, <2>1 DEF OneChain
<1>7. CASE Parent[b] # NoBlock
  <2>. DEFINE p == Parent[b]
  <2>1. /\ p \in Blocks /\ Height[b] \in Nat /\ Height[p] \in Nat
        /\ Height[p] = Height[b] - 1
    BY <1>7, ChainStoreAssumption
  <2>2. OneChain(p)
    <3>1. Height[p] \notin Bad
      BY <1>3, <1>4, <2>1
    <3>. QED  BY <2>1, <3>1
  <2>3. ChainOf[p] \subseteq Blocks /\ ChainOf[b] = {b} \cup ChainOf[p]
    BY <1>5, <1>7, <2>1, WalletSyncAssumption
  <2>. HIDE DEF p
  <2>4. \A c \in ChainOf[p] : Height[c] \in Nat /\ Height[c] <= Height[p]
    BY <2>2, <2>3, ChainStoreAssumption DEF OneChain
  <2>5. OneChain(b)
    <3>1. ASSUME NEW c \in ChainOf[b], NEW d \in ChainOf[b]
          PROVE  Height[c] <= Height[b] /\ (Height[c] = Height[d] => c = d)
      <4>1. CASE c = b /\ d = b
        BY <2>1, <4>1
      <4>2. CASE c \in ChainOf[p] /\ d = b
        BY <2>1, <2>4, <4>2
      <4>3. CASE c = b /\ d \in ChainOf[p]
        BY <2>1, <2>4, <4>3
      <4>4. CASE c \in ChainOf[p] /\ d \in ChainOf[p]
        BY <2>1, <2>2, <2>4, <4>4 DEF OneChain
      <4>. QED  BY <2>3, <3>1, <4>1, <4>2, <4>3, <4>4
    <3>. QED  BY <3>1 DEF OneChain
  <2>. QED  BY <1>4, <2>5
<1>. QED  BY <1>6, <1>7

-----------------------------------------------------------------------------
(* Linked rows *)

Bounded(R) == \E n \in Nat : \A b \in R : Height[b] <= n
OnePerHeight(R) == \A b, c \in R : Height[b] = Height[c] => b = c
Linked(R) == R \subseteq Blocks /\ Bounded(R) /\ OnePerHeight(R) /\ chainLinkageHolds(R)

(* Rows of bounded height have a highest one, and localTip returns it. *)
LEMMA RowsHaveATip ==
    ASSUME NEW R \in SUBSET Blocks, R # {}, Bounded(R)
    PROVE  localTip(R) \in R /\ \A c \in R : Height[c] <= Height[localTip(R)]
<1>. DEFINE Above == {n \in Nat : \A b \in R : Height[b] <= n}
<1>1. PICK m \in Above : \A n \in Above : m <= n
  <2>1. Above \in SUBSET Nat /\ Above # {}
    BY DEF Bounded
  <2>. HIDE DEF Above
  <2>. QED  BY <2>1, LeastMember
<1>2. \A b \in R : Height[b] \in Nat
  BY ChainStoreAssumption
<1>3. PICK b \in R : Height[b] = m
  <2>1. SUFFICES ASSUME \A b \in R : Height[b] # m PROVE FALSE
    OBVIOUS
  <2>2. m \in Nat /\ \A b \in R : Height[b] < m
    BY <1>2, <2>1
  <2>3. m - 1 \in Nat
    BY <1>2, <2>2
  <2>4. \A b \in R : Height[b] <= m - 1
    BY <1>2, <2>2
  <2>5. m - 1 \in Above
    BY <2>3, <2>4
  <2>. QED  BY <1>1, <2>2, <2>5
<1>4. b \in Tips(R)
  BY <1>3 DEF Tips
<1>5. localTip(R) \in Tips(R)
  BY <1>4 DEF localTip
<1>. QED  BY <1>5 DEF Tips

LEMMA LocalHeightBounds ==
    ASSUME NEW R, Linked(R)
    PROVE  /\ localHeight(R) \in Nat \cup {-1}
           /\ \A b \in R : Height[b] <= localHeight(R)
<1>1. CASE R = {}
  BY <1>1 DEF localHeight
<1>2. CASE R # {}
  <2>1. R \in SUBSET Blocks /\ Bounded(R)
    BY DEF Linked
  <2>2. localTip(R) \in R /\ \A c \in R : Height[c] <= Height[localTip(R)]
    BY <1>2, <2>1, RowsHaveATip
  <2>3. localHeight(R) = Height[localTip(R)]
    BY <1>2 DEF localHeight
  <2>. QED  BY <2>1, <2>2, <2>3, ChainStoreAssumption
<1>. QED  BY <1>1, <1>2

(* truncate keeps the rows linked. *)
LEMMA TruncatedRowsLink ==
    ASSUME NEW R, Linked(R), NEW h \in Nat
    PROVE  Linked(truncateRows(R, h))
<1>. DEFINE K == truncateRows(R, h)
<1>1. K \subseteq R /\ \A b \in K : Height[b] <= h
  BY DEF truncateRows
<1>2. K \subseteq Blocks /\ Bounded(K) /\ OnePerHeight(K)
  BY <1>1 DEF Linked, Bounded, OnePerHeight
<1>3. ASSUME NEW b \in K, ~ \A c \in K : Height[b] <= Height[c]
      PROVE  Parent[b] \in K
  <2>1. b \in R /\ ~ \A c \in R : Height[b] <= Height[c]
    BY <1>1, <1>3
  <2>2. Parent[b] \in R
    BY <2>1 DEF Linked, chainLinkageHolds
  <2>3. b \in Blocks /\ Parent[b] \in Blocks
    BY <2>1, <2>2 DEF Linked
  <2>4. Height[b] \in Nat /\ Height[Parent[b]] = Height[b] - 1
    BY <2>3, ChainStoreAssumption
  <2>5. Height[b] <= h
    BY <1>1
  <2>. QED  BY <2>2, <2>4, <2>5 DEF truncateRows
<1>4. chainLinkageHolds(K)
  BY <1>3 DEF chainLinkageHolds
<1>. QED  BY <1>2, <1>4 DEF Linked

(* appendBlocks keeps the rows linked when it accepts the page. *)
LEMMA AppendedRowsLink ==
    ASSUME NEW R, Linked(R), NEW page, NEW top \in Blocks, page \subseteq ChainOf[top],
           BatchAttaches(R, page)
    PROVE  Linked(R \cup BatchOf(R, page))
<1>. DEFINE N == BatchOf(R, page)
            A == R \cup N
<1>1. /\ R \subseteq Blocks /\ N \subseteq Blocks /\ N \subseteq ChainOf[top]
      /\ \A b \in A : Height[b] \in Nat
  BY WalletSyncAssumption, ChainStoreAssumption DEF Linked, BatchOf
<1>2. \A b \in R : \A c \in N : Height[b] < Height[c]
  <2>1. localHeight(R) \in Nat \cup {-1} /\ \A b \in R : Height[b] <= localHeight(R)
    BY LocalHeightBounds
  <2>2. \A c \in N : Height[c] > localHeight(R)
    BY DEF BatchOf
  <2>. HIDE DEF N
  <2>. QED  BY <1>1, <2>1, <2>2
<1>3. OneChain(top)
  BY ChainsAreChains
<1>4. \A b \in N : Height[b] = 0 \/ Parent[b] \in A
  BY DEF BatchAttaches
<1>. HIDE DEF N
<1>5. Bounded(A)
  <2>1. PICK n \in Nat : \A b \in R : Height[b] <= n
    BY DEF Linked, Bounded
  <2>2. Height[top] \in Nat /\ \A b \in N : Height[b] <= Height[top]
    BY <1>1, <1>3, ChainStoreAssumption DEF OneChain
  <2>3. n + Height[top] \in Nat /\ \A b \in A : Height[b] <= n + Height[top]
    BY <1>1, <2>1, <2>2
  <2>. QED  BY <2>3 DEF Bounded
<1>6. OnePerHeight(A)
  <2>1. ASSUME NEW b \in A, NEW c \in A, Height[b] = Height[c] PROVE b = c
    <3>1. CASE b \in R /\ c \in R
      BY <2>1, <3>1 DEF Linked, OnePerHeight
    <3>2. CASE b \in N /\ c \in N
      BY <1>1, <1>3, <2>1, <3>2 DEF OneChain
    <3>3. CASE b \in R /\ c \in N
      BY <1>1, <1>2, <2>1, <3>3
    <3>4. CASE b \in N /\ c \in R
      BY <1>1, <1>2, <2>1, <3>4
    <3>. QED  BY <3>1, <3>2, <3>3, <3>4
  <2>. QED  BY <2>1 DEF OnePerHeight
<1>7. chainLinkageHolds(A)
  <2>1. ASSUME NEW b \in A
        PROVE  (\A c \in A : Height[b] <= Height[c]) \/ Parent[b] \in A
    <3>1. CASE b \in N
      <4>1. CASE Height[b] = 0
        BY <1>1, <4>1
      <4>. QED  BY <1>4, <3>1, <4>1
    <3>2. CASE b \in R
      <4>1. (\A c \in R : Height[b] <= Height[c]) \/ Parent[b] \in R
        BY <3>2 DEF Linked, chainLinkageHolds
      <4>. QED  BY <1>1, <1>2, <3>2, <4>1
    <3>. QED  BY <3>1, <3>2
  <2>. QED  BY <2>1 DEF chainLinkageHolds
<1>. QED  BY <1>1, <1>5, <1>6, <1>7 DEF Linked, N

(* The anchor that a seal leaves is linked. *)
LEMMA AnchorLinks ==
    ASSUME NEW R, Linked(R), localHeight(R) >= 0
    PROVE  Linked(clearedRows(R))
<1>1. R # {}
  BY DEF localHeight
<1>2. localTip(R) \in Blocks /\ Height[localTip(R)] \in Nat
  BY <1>1, RowsHaveATip, ChainStoreAssumption DEF Linked
<1>. QED  BY <1>2 DEF clearedRows, Linked, Bounded, OnePerHeight, chainLinkageHolds
-----------------------------------------------------------------------------
(* How a batch is indexed: transaction by transaction, block by block *)

LEMMA IndexedIsUpsert ==
    ASSUME NEW t, NEW tx, NEW h
    PROVE  Indexed(t, tx, h) = upsertTxIndex(t, tx, h)
<1>. DEFINE new == upsertTxIndex(t, tx, h)
<1>1. {upsertTxIndex(u, tx, h) : u \in {t}} = {new}
  OBVIOUS
<1>. HIDE DEF new
<1>2. (CHOOSE x \in {new} : TRUE) = new
  OBVIOUS
<1>. QED  BY <1>1, <1>2 DEF Indexed, new

LEMMA PartsAreFinite ==
    ASSUME NEW n \in Nat
    PROVE  \A s \in SUBSET (1..n) :
               IsFiniteSet(s) /\ Cardinality(s) \in Nat /\ Cardinality(s) <= n
<1>1. IsFiniteSet(1..n) /\ Cardinality(1..n) = n
  BY FS_Interval
<1>. QED  BY <1>1, FS_Subset, FS_CardinalityType

(* The function that FoldLeft recurses on in indexBlock. *)
IndexesParts(g, t, b) ==
    g = [s \in SUBSET DOMAIN Transactions[b] |->
            IF s = {} THEN t
            ELSE Indexed(g[s \ {Max(s)}], Transactions[b][Max(s)], Height[b])]
PartsOf(t, b) == CHOOSE g : IndexesParts(g, t, b)

LEMMA BlockIsItsParts ==
    ASSUME NEW t, NEW b
    PROVE  indexBlock(t, b) = PartsOf(t, b)[DOMAIN Transactions[b]]
  BY DEF indexBlock, FoldLeft, MapThenFoldSet, PartsOf, IndexesParts

LEMMA PartsExist ==
    ASSUME NEW t, NEW b, NEW n \in Nat, DOMAIN Transactions[b] = 1..n
    PROVE  IndexesParts(PartsOf(t, b), t, b)
<1>. DEFINE step(g, s) == IF s = {} THEN t
                          ELSE Indexed(g[s \ {Max(s)}], Transactions[b][Max(s)], Height[b])
            Small(k) == {s \in SUBSET (1..n) : Cardinality(s) <= k}
            Solves(g, k) == g = [s \in Small(k) |-> step(g, s)]
            Good == {k \in Nat : \E g : Solves(g, k)}
<1>1. \A s \in SUBSET (1..n) : IsFiniteSet(s) /\ Cardinality(s) \in Nat /\ Cardinality(s) <= n
  BY PartsAreFinite
<1>2. ASSUME NEW s \in SUBSET (1..n), s # {}
      PROVE  /\ Max(s) \in s /\ Cardinality(s) # 0
             /\ Cardinality(s \ {Max(s)}) = Cardinality(s) - 1
  BY <1>1, <1>2, MaxOfNumbers, FS_RemoveElement, FS_EmptySet
<1>3. 0 \in Good
  <2>. DEFINE g == [s \in Small(0) |-> t]
  <2>1. \A s \in Small(0) : step(g, s) = t
    BY <1>1, <1>2
  <2>2. Solves(g, 0)
    BY <2>1
  <2>. QED  BY <2>2
<1>4. ASSUME NEW k \in Nat, k \in Good PROVE k + 1 \in Good
  <2>1. PICK g : Solves(g, k)
    BY <1>4
  <2>. DEFINE h == [s \in Small(k + 1) |-> step(g, s)]
  <2>2. \A s \in Small(k) : s \in Small(k + 1)
    BY <1>1
  <2>3. \A s \in Small(k) : g[s] = h[s]
    BY <2>1, <2>2
  <2>4. \A s \in Small(k + 1) : s # {} => s \ {Max(s)} \in Small(k)
    <3>. SUFFICES ASSUME NEW s \in Small(k + 1), s # {} PROVE s \ {Max(s)} \in Small(k)
      OBVIOUS
    <3>1. Cardinality(s \ {Max(s)}) = Cardinality(s) - 1 /\ Cardinality(s) \in Nat
      BY <1>1, <1>2
    <3>2. Cardinality(s \ {Max(s)}) <= k
      BY <3>1
    <3>. QED  BY <3>2
  <2>5. \A s \in Small(k + 1) : step(g, s) = step(h, s)
    <3>. HIDE DEF h, Small
    <3>. QED  BY <2>3, <2>4
  <2>6. Solves(h, k + 1)
    <3>1. h = [s \in Small(k + 1) |-> step(g, s)]
      OBVIOUS
    <3>. HIDE DEF h, step
    <3>. QED  BY <2>5, <3>1
  <2>. HIDE DEF Solves
  <2>7. \E f : Solves(f, k + 1)
    BY <2>6
  <2>. QED  BY <2>7
<1>5. \A k \in Nat : k \in Good
  <2>. HIDE DEF Good
  <2>. QED  BY <1>3, <1>4, NaturalInduction
<1>6. PICK g : Solves(g, n)
  BY <1>5
<1>7. Small(n) = SUBSET (1..n)
  BY <1>1
<1>8. IndexesParts(g, t, b)
  BY <1>6, <1>7 DEF IndexesParts
<1>. QED  BY <1>8 DEF PartsOf

(* The index after the first k transactions of a block. *)
After(t, b, k) == PartsOf(t, b)[1..k]
UpsertsAll(t, b, n) ==
    \A k \in 1..n : After(t, b, k) = upsertTxIndex(After(t, b, k - 1), TxAt(<<b, k>>), Height[b])

LEMMA BlockIndexes ==
    ASSUME NEW t, NEW b, NEW n \in Nat, DOMAIN Transactions[b] = 1..n
    PROVE  /\ After(t, b, 0) = t
           /\ UpsertsAll(t, b, n)
           /\ indexBlock(t, b) = After(t, b, n)
<1>. DEFINE g == PartsOf(t, b)
<1>1. IndexesParts(g, t, b)
  BY PartsExist
<1>. HIDE DEF g
<1>2. \A s \in SUBSET (1..n) : g[s] = IF s = {} THEN t
            ELSE Indexed(g[s \ {Max(s)}], Transactions[b][Max(s)], Height[b])
  BY <1>1 DEF IndexesParts
<1>3. g[1..0] = t
  <2>1. 1..0 = {}
    OBVIOUS
  <2>. QED  BY <1>2, <2>1
<1>4. ASSUME NEW k \in 1..n
      PROVE  g[1..k] = upsertTxIndex(g[1..(k - 1)], Transactions[b][k], Height[b])
  <2>1. /\ 1..k \in SUBSET (1..n) /\ 1..k # {} /\ k \in 1..k /\ k \in Nat
        /\ (1..k) \ {k} = 1..(k - 1)
    OBVIOUS
  <2>2. Max(1..k) \in 1..k /\ \A i \in 1..k : i <= Max(1..k)
    BY <2>1, MaxOfNumbers
  <2>3. k <= Max(1..k) /\ Max(1..k) <= k /\ Max(1..k) \in Int
    BY <2>1, <2>2
  <2>4. Max(1..k) = k
    BY <2>1, <2>3
  <2>5. g[1..k] = Indexed(g[1..(k - 1)], Transactions[b][k], Height[b])
    BY <1>2, <2>1, <2>4
  <2>. QED  BY <2>5, IndexedIsUpsert
<1>. QED  BY <1>3, <1>4, BlockIsItsParts DEF After, UpsertsAll, g, TxAt

(* The function that MapThenFoldSet recurses on in indexBlocks. *)
IndexesBatch(g, t, B) ==
    g = [s \in SUBSET B |-> IF s = {} THEN t ELSE indexBlock(g[s \ {localTip(s)}], localTip(s))]
BatchIndex(t, B) == CHOOSE g : IndexesBatch(g, t, B)

LEMMA BatchIsIndexed ==
    ASSUME NEW t, NEW B
    PROVE  indexBlocks(t, B) = BatchIndex(t, B)[B]
  BY DEF indexBlocks, MapThenFoldSet, BatchIndex, IndexesBatch

(* A chain is finite, and so is what is stored of it. *)
LEMMA ChainsAreFinite == ASSUME NEW b \in Blocks PROVE IsFiniteSet(ChainOf[b])
<1>. DEFINE at == [h \in 0..Height[b] |-> CHOOSE c \in ChainOf[b] : Height[c] = h]
            image == {at[h] : h \in 0..Height[b]}
<1>1. Height[b] \in Nat /\ \A c \in ChainOf[b] : Height[c] \in 0..Height[b]
  BY ChainsAreChains, WalletSyncAssumption, ChainStoreAssumption DEF OneChain
<1>2. IsFiniteSet(0..Height[b])
  BY <1>1, FS_Interval
<1>3. IsFiniteSet(image)
  <2>. HIDE DEF at
  <2>. QED  BY <1>2, FiniteImage
<1>4. ChainOf[b] \subseteq image
  <2>. SUFFICES ASSUME NEW c \in ChainOf[b] PROVE c = at[Height[c]]
    BY <1>1
  <2>. DEFINE d == CHOOSE d \in ChainOf[b] : Height[d] = Height[c]
  <2>1. d \in ChainOf[b] /\ Height[d] = Height[c]
    OBVIOUS
  <2>2. at[Height[c]] = d
    BY <1>1
  <2>. HIDE DEF d, at
  <2>. QED  BY <2>1, <2>2, ChainsAreChains DEF OneChain
<1>. QED  BY <1>3, <1>4, FS_Subset

(* The highest of some blocks of a chain. *)
LEMMA TipOfSome ==
    ASSUME NEW b \in Blocks, NEW s \in SUBSET ChainOf[b], s # {}
    PROVE  localTip(s) \in s /\ \A c \in s : Height[c] <= Height[localTip(s)]
<1>1. s \in SUBSET Blocks /\ Height[b] \in Nat
  BY WalletSyncAssumption, ChainStoreAssumption
<1>2. \A c \in s : Height[c] <= Height[b]
  BY ChainsAreChains, WalletSyncAssumption DEF OneChain
<1>3. Bounded(s)
  BY <1>1, <1>2 DEF Bounded
<1>. QED  BY <1>1, <1>3, RowsHaveATip

LEMMA BatchIndexExists ==
    ASSUME NEW t, NEW b \in Blocks, NEW B \in SUBSET ChainOf[b]
    PROVE  IndexesBatch(BatchIndex(t, B), t, B)
<1>. DEFINE step(g, s) == IF s = {} THEN t ELSE indexBlock(g[s \ {localTip(s)}], localTip(s))
            Small(k) == {s \in SUBSET B : Cardinality(s) <= k}
            Solves(g, k) == g = [s \in Small(k) |-> step(g, s)]
            Good == {k \in Nat : \E g : Solves(g, k)}
<1>0. IsFiniteSet(B) /\ Cardinality(B) \in Nat
  BY ChainsAreFinite, FS_Subset, FS_CardinalityType
<1>1. \A s \in SUBSET B : IsFiniteSet(s) /\ Cardinality(s) \in Nat /\ Cardinality(s) <= Cardinality(B)
  BY <1>0, FS_Subset, FS_CardinalityType
<1>2. ASSUME NEW s \in SUBSET B, s # {}
      PROVE  /\ localTip(s) \in s /\ Cardinality(s) # 0
             /\ Cardinality(s \ {localTip(s)}) = Cardinality(s) - 1
  <2>1. localTip(s) \in s
    BY <1>2, TipOfSome
  <2>. QED  BY <1>1, <1>2, <2>1, FS_RemoveElement, FS_EmptySet
<1>3. 0 \in Good
  <2>. DEFINE g == [s \in Small(0) |-> t]
  <2>1. \A s \in Small(0) : step(g, s) = t
    BY <1>1, <1>2
  <2>2. Solves(g, 0)
    BY <2>1
  <2>. QED  BY <2>2
<1>4. ASSUME NEW k \in Nat, k \in Good PROVE k + 1 \in Good
  <2>1. PICK g : Solves(g, k)
    BY <1>4
  <2>. DEFINE h == [s \in Small(k + 1) |-> step(g, s)]
  <2>2. \A s \in Small(k) : s \in Small(k + 1)
    BY <1>1
  <2>3. \A s \in Small(k) : g[s] = h[s]
    BY <2>1, <2>2
  <2>4. \A s \in Small(k + 1) : s # {} => s \ {localTip(s)} \in Small(k)
    <3>. SUFFICES ASSUME NEW s \in Small(k + 1), s # {} PROVE s \ {localTip(s)} \in Small(k)
      OBVIOUS
    <3>1. Cardinality(s \ {localTip(s)}) = Cardinality(s) - 1 /\ Cardinality(s) \in Nat
      BY <1>1, <1>2
    <3>2. Cardinality(s \ {localTip(s)}) <= k
      BY <3>1
    <3>. QED  BY <3>2
  <2>5. \A s \in Small(k + 1) : step(g, s) = step(h, s)
    <3>. HIDE DEF h, Small
    <3>. QED  BY <2>3, <2>4
  <2>6. Solves(h, k + 1)
    <3>1. h = [s \in Small(k + 1) |-> step(g, s)]
      OBVIOUS
    <3>. HIDE DEF h, step
    <3>. QED  BY <2>5, <3>1
  <2>. HIDE DEF Solves
  <2>7. \E f : Solves(f, k + 1)
    BY <2>6
  <2>. QED  BY <2>7
<1>5. \A k \in Nat : k \in Good
  <2>. HIDE DEF Good
  <2>. QED  BY <1>3, <1>4, NaturalInduction
<1>6. PICK g : Solves(g, Cardinality(B))
  BY <1>0, <1>5
<1>7. Small(Cardinality(B)) = SUBSET B
  BY <1>1
<1>8. IndexesBatch(g, t, B)
  BY <1>6, <1>7 DEF IndexesBatch
<1>. QED  BY <1>8 DEF BatchIndex

(* Blocks are indexed from the lowest to the highest. *)
LEMMA BatchIndexes ==
    ASSUME NEW t, NEW b \in Blocks, NEW B \in SUBSET ChainOf[b]
    PROVE  /\ BatchIndex(t, B)[{}] = t
           /\ \A s \in SUBSET B : s # {} =>
                  BatchIndex(t, B)[s] = indexBlock(BatchIndex(t, B)[s \ {localTip(s)}], localTip(s))
<1>. DEFINE g == BatchIndex(t, B)
<1>1. IndexesBatch(g, t, B)
  BY BatchIndexExists
<1>. HIDE DEF g
<1>2. \A s \in SUBSET B : g[s] = IF s = {} THEN t ELSE indexBlock(g[s \ {localTip(s)}], localTip(s))
  BY <1>1 DEF IndexesBatch
<1>. QED  BY <1>2 DEF g

-----------------------------------------------------------------------------
(* The index that belongs to the transactions at some places of a chain *)

Ids(X) == {TxAt(p).id : p \in X}
HeightOfId(X, t) == HeightAt(CHOOSE p \in X : TxAt(p).id = t)

Maker(X, o) == CHOOSE p \in X : o \in OutpointsOf(TxAt(p))
MadeIn(X) == UNION {OutpointsOf(TxAt(p)) : p \in X}
AddressAt(p, o) == TxAt(p).outputs[o[2]].address
AddressIn(X, o) == AddressAt(Maker(X, o), o)
OwnMadeIn(X) == {o \in MadeIn(X) : AddressIn(X, o) \in OwnAddresses}

IsSpentIn(X, o) == \E p \in X : o \in SpentBy(TxAt(p))
Spender(X, o) == IF IsSpentIn(X, o) THEN TxAt(CHOOSE p \in X : o \in SpentBy(TxAt(p))).id ELSE Nobody
MatureHeight(p) == IF TxAt(p).type = "mining" THEN HeightAt(p) + Maturity ELSE 0
RowAt(p, o, spender) == [address |-> AddressAt(p, o), height |-> HeightAt(p),
                         mature |-> MatureHeight(p), spent |-> spender]
RowIn(X, o) == RowAt(Maker(X, o), o, Spender(X, o))
RowsOver(X, made) == [o \in made |-> RowIn(X, o)]

AddressesMade(p) == {TxAt(p).outputs[i].address : i \in DOMAIN TxAt(p).outputs}
TouchedBy(X, p) == {AddressIn(X, o) : o \in SpentBy(TxAt(p))} \cup AddressesMade(p)
InputsOf(p) == {<<TxAt(p).id, o>> : o \in SpentBy(TxAt(p))}
MappingsOf(X, p) == {<<a, TxAt(p).id, HeightAt(p)>> : a \in TouchedBy(X, p)}
IsOwnIn(X, p) == TouchedBy(X, p) \cap OwnAddresses # {}
OwnIn(X) == {p \in X : IsOwnIn(X, p)}

TablesOf(X) ==
    [transactions |-> [t \in Ids(X) |-> HeightOfId(X, t)],
     outputs      |-> RowsOver(X, MadeIn(X)),
     inputs       |-> UNION {InputsOf(p) : p \in X},
     addressTxs   |-> UNION {MappingsOf(X, p) : p \in X},
     ownTxs       |-> [t \in Ids(OwnIn(X)) |-> HeightOfId(X, t)],
     ownOutputs   |-> RowsOver(X, OwnMadeIn(X))]

(* Places of a chain, with all that precede them. *)
IsPart(X, b) == b \in Blocks /\ X \subseteq Places(ChainOf[b])
IsInitial(X, b) ==
    IsPart(X, b) /\ \A p \in X : \A q \in Places(ChainOf[b]) : Precedes(q, p) => q \in X

(* What a place is. *)
LEMMA PlaceIs ==
    ASSUME NEW b \in Blocks, NEW p \in Places(ChainOf[b])
    PROVE  /\ p = <<p[1], p[2]>> /\ p[1] \in ChainOf[b] /\ p[1] \in Blocks
           /\ p[2] \in DOMAIN Transactions[p[1]] /\ p[2] \in Nat
           /\ HeightAt(p) \in Nat /\ ~Precedes(p, p)
           /\ TxAt(p).id # Nobody
           /\ \A i \in DOMAIN TxAt(p).outputs : TxAt(p).outputs[i].address # Unknown
<1>1. PICK c \in ChainOf[b] : p \in PlacesIn(c)
  BY DEF Places
<1>2. PICK i \in DOMAIN Transactions[c] : p = <<c, i>>
  BY <1>1 DEF PlacesIn
<1>3. c \in Blocks
  BY WalletSyncAssumption
<1>4. i \in Nat
  <2>1. Transactions[c] \in Seq(Range(Transactions[c]))
    BY <1>3, TransactionsAssumption
  <2>. QED  BY <2>1
<1>5. HeightAt(p) \in Nat
  BY <1>2, <1>3, ChainStoreAssumption DEF HeightAt
<1>6. ~Precedes(p, p)
  BY <1>2, <1>4, <1>5 DEF Precedes
<1>7. p \in Places(Blocks)
  BY <1>1, <1>3 DEF Places
<1>8. /\ TxAt(p).id # Nobody
      /\ \A j \in DOMAIN TxAt(p).outputs : TxAt(p).outputs[j].address # Unknown
  BY <1>7, TransactionsAssumption
<1>. QED  BY <1>2, <1>3, <1>4, <1>5, <1>6, <1>8

(* On a chain, an id, an output and a spending each belong to one transaction. *)
LEMMA ChainIsSound ==
    ASSUME NEW b \in Blocks, NEW p \in Places(ChainOf[b]), NEW q \in Places(ChainOf[b])
    PROVE  /\ TxAt(p).id = TxAt(q).id => p = q
           /\ \A o : o \in OutpointsOf(TxAt(p)) /\ o \in OutpointsOf(TxAt(q)) => p = q
           /\ \A o : o \in SpentBy(TxAt(p)) /\ o \in SpentBy(TxAt(q)) => p = q
           /\ \A o : o \in OutpointsOf(TxAt(p)) /\ o \in SpentBy(TxAt(q)) => Precedes(p, q)
<1>1. IsSoundChain(ChainOf[b])
  BY TransactionsAssumption
<1>2. \A o : o \in OutpointsOf(TxAt(p)) => o[1] = TxAt(p).id
  BY DEF OutpointsOf
<1>3. \A o : o \in OutpointsOf(TxAt(q)) => o[1] = TxAt(q).id
  BY DEF OutpointsOf
<1>4. /\ TxAt(p).id = TxAt(q).id => p = q
      /\ SpentBy(TxAt(p)) \cap SpentBy(TxAt(q)) # {} => p = q
      /\ OutpointsOf(TxAt(p)) \cap SpentBy(TxAt(q)) # {} => Precedes(p, q)
  BY <1>1 DEF IsSoundChain
<1>. QED  BY <1>2, <1>3, <1>4

(* So the index knows them by their place. *)
LEMMA Belongs ==
    ASSUME NEW b \in Blocks, NEW X \in SUBSET Places(ChainOf[b]), NEW p \in X
    PROVE  /\ HeightOfId(X, TxAt(p).id) = HeightAt(p)
           /\ \A o \in OutpointsOf(TxAt(p)) : Maker(X, o) = p
           /\ \A o \in SpentBy(TxAt(p)) : Spender(X, o) = TxAt(p).id
<1>1. HeightOfId(X, TxAt(p).id) = HeightAt(p)
  <2>. DEFINE q == CHOOSE q \in X : TxAt(q).id = TxAt(p).id
  <2>1. q \in X /\ TxAt(q).id = TxAt(p).id
    OBVIOUS
  <2>. HIDE DEF q
  <2>2. q = p
    BY <2>1, ChainIsSound
  <2>. QED  BY <2>2 DEF HeightOfId, q
<1>2. ASSUME NEW o \in OutpointsOf(TxAt(p)) PROVE Maker(X, o) = p
  <2>1. Maker(X, o) \in X /\ o \in OutpointsOf(TxAt(Maker(X, o)))
    BY DEF Maker
  <2>. QED  BY <2>1, ChainIsSound
<1>3. ASSUME NEW o \in SpentBy(TxAt(p)) PROVE Spender(X, o) = TxAt(p).id
  <2>. DEFINE q == CHOOSE q \in X : o \in SpentBy(TxAt(q))
  <2>1. q \in X /\ o \in SpentBy(TxAt(q))
    OBVIOUS
  <2>2. IsSpentIn(X, o)
    BY DEF IsSpentIn
  <2>3. Spender(X, o) = TxAt(q).id
    BY <2>2 DEF Spender
  <2>. HIDE DEF q
  <2>4. q = p
    BY <2>1, ChainIsSound
  <2>. QED  BY <2>3, <2>4
<1>. QED  BY <1>1, <1>2, <1>3

(* What the next transaction of a chain may be relied on: its id and its outputs are new,
   and it spends outputs of earlier ones that none of these has spent. *)
IsNext(X, p, b) == p \notin X /\ IsInitial(X, b) /\ IsInitial(X \cup {p}, b)

LEMMA NextIsNew ==
    ASSUME NEW X, NEW p, NEW b, IsNext(X, p, b)
    PROVE  /\ TxAt(p).id \notin Ids(X)
           /\ \A o \in OutpointsOf(TxAt(p)) : o \notin MadeIn(X) /\ ~IsSpentIn(X \cup {p}, o)
           /\ \A o \in SpentBy(TxAt(p)) : o \in MadeIn(X) /\ ~IsSpentIn(X, o)
<1>1. /\ b \in Blocks /\ X \subseteq Places(ChainOf[b]) /\ p \in Places(ChainOf[b]) /\ p \notin X
      /\ \A q \in X : \A r \in Places(ChainOf[b]) : Precedes(r, q) => r \in X
      /\ \A r \in Places(ChainOf[b]) : Precedes(r, p) => r \in X \cup {p}
  BY DEF IsNext, IsInitial, IsPart
<1>2. ~Precedes(p, p)
  BY <1>1, PlaceIs
<1>3. TxAt(p).id \notin Ids(X)
  BY <1>1, ChainIsSound DEF Ids
<1>4. ASSUME NEW o \in OutpointsOf(TxAt(p)) PROVE o \notin MadeIn(X) /\ ~IsSpentIn(X \cup {p}, o)
  <2>1. o \notin MadeIn(X)
    BY <1>1, ChainIsSound DEF MadeIn
  <2>2. ASSUME NEW q \in X \cup {p}, o \in SpentBy(TxAt(q)) PROVE FALSE
    <3>1. Precedes(p, q)
      BY <1>1, <2>2, ChainIsSound
    <3>. QED  BY <1>1, <1>2, <3>1
  <2>. QED  BY <2>1, <2>2 DEF IsSpentIn
<1>5. ASSUME NEW o \in SpentBy(TxAt(p)) PROVE o \in MadeIn(X) /\ ~IsSpentIn(X, o)
  <2>1. IsSoundChain(ChainOf[b])
    BY <1>1, TransactionsAssumption
  <2>2. PICK q \in Places(ChainOf[b]) : o \in OutpointsOf(TxAt(q))
    BY <1>1, <2>1 DEF IsSoundChain
  <2>3. Precedes(q, p)
    BY <1>1, <2>2, ChainIsSound
  <2>4. q \in X
    BY <1>1, <1>2, <2>3
  <2>5. ~IsSpentIn(X, o)
    BY <1>1, ChainIsSound DEF IsSpentIn
  <2>. QED  BY <2>2, <2>4, <2>5 DEF MadeIn
<1>. QED  BY <1>3, <1>4, <1>5

(* How the rows change with it. *)
LEMMA RowsWithNext ==
    ASSUME NEW X, NEW p, NEW b, IsNext(X, p, b), NEW Y, Y = X \cup {p}
    PROVE  /\ Ids(Y) = Ids(X) \cup {TxAt(p).id}
           /\ HeightOfId(Y, TxAt(p).id) = HeightAt(p)
           /\ \A t \in Ids(X) : HeightOfId(Y, t) = HeightOfId(X, t)
           /\ MadeIn(Y) = MadeIn(X) \cup OutpointsOf(TxAt(p))
           /\ \A o \in MadeIn(X) : Maker(Y, o) = Maker(X, o) /\ Maker(X, o) \in X
           /\ \A o \in OutpointsOf(TxAt(p)) : Maker(Y, o) = p /\ Spender(Y, o) = Nobody
           /\ \A o \in SpentBy(TxAt(p)) : Spender(Y, o) = TxAt(p).id
           /\ \A o : o \notin SpentBy(TxAt(p)) => Spender(Y, o) = Spender(X, o)
<1>1. /\ b \in Blocks /\ X \in SUBSET Places(ChainOf[b]) /\ Y \in SUBSET Places(ChainOf[b])
      /\ p \in Y /\ \A q \in X : q \in Y
  BY DEF IsNext, IsInitial, IsPart
<1>2. \A o \in OutpointsOf(TxAt(p)) : o \notin MadeIn(X) /\ ~IsSpentIn(Y, o)
  BY NextIsNew
<1>3. /\ Ids(Y) = Ids(X) \cup {TxAt(p).id}
      /\ MadeIn(Y) = MadeIn(X) \cup OutpointsOf(TxAt(p))
  BY DEF Ids, MadeIn
<1>4. \A o : o \in SpentBy(TxAt(p)) \/ (IsSpentIn(Y, o) <=> IsSpentIn(X, o))
  BY DEF IsSpentIn
<1>5. HeightOfId(Y, TxAt(p).id) = HeightAt(p)
  BY <1>1, Belongs
<1>6. ASSUME NEW t \in Ids(X) PROVE HeightOfId(Y, t) = HeightOfId(X, t)
  <2>1. PICK q \in X : t = TxAt(q).id
    BY DEF Ids
  <2>. QED  BY <1>1, <2>1, Belongs
<1>7. ASSUME NEW o \in MadeIn(X) PROVE Maker(Y, o) = Maker(X, o) /\ Maker(X, o) \in X
  <2>1. PICK q \in X : o \in OutpointsOf(TxAt(q))
    BY DEF MadeIn
  <2>. QED  BY <1>1, <2>1, Belongs
<1>8. ASSUME NEW o \in OutpointsOf(TxAt(p)) PROVE Maker(Y, o) = p /\ Spender(Y, o) = Nobody
  BY <1>1, <1>2, Belongs DEF Spender
<1>9. ASSUME NEW o \in SpentBy(TxAt(p)) PROVE Spender(Y, o) = TxAt(p).id
  BY <1>1, Belongs
<1>10. ASSUME NEW o, o \notin SpentBy(TxAt(p)) PROVE Spender(Y, o) = Spender(X, o)
  <2>1. CASE IsSpentIn(X, o)
    <3>1. PICK q \in X : o \in SpentBy(TxAt(q))
      BY <2>1 DEF IsSpentIn
    <3>. QED  BY <1>1, <3>1, Belongs
  <2>2. CASE ~IsSpentIn(X, o)
    BY <1>4, <1>10, <2>2 DEF Spender
  <2>. QED  BY <2>1, <2>2
<1>. QED  BY <1>3, <1>5, <1>6, <1>7, <1>8, <1>9, <1>10

-----------------------------------------------------------------------------
(* One transaction more *)

(* upsertTxIndex, table by table. *)
OwnSpent(T, tx) == {o \in SpentBy(tx) : outputAddressOf(T, o) \in OwnAddresses}
OwnMade(tx) == {o \in OutpointsOf(tx) : tx.outputs[o[2]].address \in OwnAddresses}
Touched(T, tx) == ({outputAddressOf(T, o) : o \in SpentBy(tx)} \ {Unknown})
                      \cup {tx.outputs[i].address : i \in DOMAIN tx.outputs}
Mapped(T, tx) == {a \in Touched(T, tx) : \A m \in T.addressTxs : m[1] # a \/ m[2] # tx.id}
Unmarked(T, tx) == {o \in OwnSpent(T, tx) \cap DOMAIN T.ownOutputs : T.ownOutputs[o].spent = Nobody}
Affected(T, tx) == OwnSpent(T, tx) # {} \/ OwnMade(tx) # {}

LEMMA Upserted ==
    ASSUME NEW T, NEW tx, NEW h
    PROVE  upsertTxIndex(T, tx, h) =
             [transactions |-> WithRow(T.transactions, tx.id, h),
              outputs      |-> OutputRows(MarkSpent(T.outputs, SpentBy(tx), tx.id), tx, h, OutpointsOf(tx)),
              inputs       |-> T.inputs \cup {<<tx.id, o>> : o \in SpentBy(tx)},
              addressTxs   |-> T.addressTxs \cup {<<a, tx.id, h>> : a \in Mapped(T, tx)},
              ownTxs       |-> IF Affected(T, tx) THEN WithRow(T.ownTxs, tx.id, h) ELSE T.ownTxs,
              ownOutputs   |-> IF Affected(T, tx)
                               THEN OutputRows(MarkSpent(T.ownOutputs, Unmarked(T, tx), tx.id), tx, h, OwnMade(tx))
                               ELSE T.ownOutputs]
<1>. DEFINE addressed == [o \in SpentBy(tx) |-> outputAddressOf(T, o)]
<1>1. {o \in SpentBy(tx) : addressed[o] \in OwnAddresses} = OwnSpent(T, tx)
  BY DEF OwnSpent
<1>2. {addressed[o] : o \in SpentBy(tx)} = {outputAddressOf(T, o) : o \in SpentBy(tx)}
  OBVIOUS
<1>. QED  BY <1>1, <1>2 DEF upsertTxIndex, OwnMade, Touched, Mapped, Unmarked, Affected

(* Rows with a new one, and rows of outputs of which some are spent. *)
LEMMA WithRowIs ==
    ASSUME NEW D, NEW table, DOMAIN table = D, NEW key, NEW value
    PROVE  /\ DOMAIN WithRow(table, key, value) = D \cup {key}
           /\ WithRow(table, key, value)[key] = value
           /\ \A k \in D \ {key} : WithRow(table, key, value)[k] = table[k]
           /\ WithRow(table, key, value) = [k \in D \cup {key} |-> WithRow(table, key, value)[k]]
  BY DEF WithRow

GrownRows(table, p, marked, made) ==
    [o \in DOMAIN table \cup made |->
        IF o \in made THEN RowAt(p, o, Nobody)
        ELSE IF o \in marked THEN [table[o] EXCEPT !.spent = TxAt(p).id]
        ELSE table[o]]

LEMMA OutputRowsAre ==
    ASSUME NEW table, NEW p, NEW marked, NEW made, made \cap DOMAIN table = {}
    PROVE  OutputRows(MarkSpent(table, marked, TxAt(p).id), TxAt(p), HeightAt(p), made)
             = GrownRows(table, p, marked, made)
  BY DEF OutputRows, MarkSpent, RowAt, AddressAt, MatureHeight, GrownRows

(* With the rows of earlier outputs these are the rows of all outputs. *)
LEMMA RowsGrow ==
    ASSUME NEW X, NEW p, NEW b, IsNext(X, p, b),
           NEW D \in SUBSET MadeIn(X), NEW made \in SUBSET OutpointsOf(TxAt(p)),
           NEW marked, marked = SpentBy(TxAt(p)) \cap D,
           NEW table, table = RowsOver(X, D)
    PROVE  GrownRows(table, p, marked, made) = RowsOver(X \cup {p}, D \cup made)
<1>. DEFINE Y == X \cup {p}
<1>0. Y = X \cup {p}
  OBVIOUS
<1>. HIDE DEF Y
<1>1. /\ \A o \in MadeIn(X) : Maker(Y, o) = Maker(X, o)
      /\ \A o \in OutpointsOf(TxAt(p)) : Maker(Y, o) = p /\ Spender(Y, o) = Nobody
      /\ \A o \in SpentBy(TxAt(p)) : Spender(Y, o) = TxAt(p).id
      /\ \A o : o \notin SpentBy(TxAt(p)) => Spender(Y, o) = Spender(X, o)
  BY <1>0, RowsWithNext
<1>2. ASSUME NEW o \in made PROVE RowIn(Y, o) = RowAt(p, o, Nobody)
  BY <1>1 DEF RowIn
<1>3. ASSUME NEW o \in D, o \in marked
      PROVE  RowIn(Y, o) = [RowIn(X, o) EXCEPT !.spent = TxAt(p).id]
  <2>1. Maker(Y, o) = Maker(X, o) /\ Spender(Y, o) = TxAt(p).id
    BY <1>1, <1>3
  <2>. QED  BY <2>1 DEF RowIn, RowAt
<1>4. ASSUME NEW o \in D, o \notin marked PROVE RowIn(Y, o) = RowIn(X, o)
  <2>1. Maker(Y, o) = Maker(X, o) /\ Spender(Y, o) = Spender(X, o)
    BY <1>1, <1>4
  <2>. QED  BY <2>1 DEF RowIn
<1>5. /\ DOMAIN table = D /\ \A o \in D : table[o] = RowIn(X, o)
  BY DEF RowsOver
<1>6. \A o \in D : o \notin made
  BY NextIsNew
<1>7. \A o \in D \cup made :
         RowIn(Y, o) = IF o \in made THEN RowAt(p, o, Nobody)
                       ELSE IF o \in marked THEN [table[o] EXCEPT !.spent = TxAt(p).id]
                       ELSE table[o]
  BY <1>2, <1>3, <1>4, <1>5
<1>. QED  BY <1>5, <1>7 DEF Y, GrownRows, RowsOver

(* The fields of the index that belongs to some places. *)
LEMMA FieldsOf ==
    ASSUME NEW X
    PROVE  /\ TablesOf(X).transactions = [t \in Ids(X) |-> HeightOfId(X, t)]
           /\ TablesOf(X).outputs = RowsOver(X, MadeIn(X))
           /\ TablesOf(X).inputs = UNION {InputsOf(p) : p \in X}
           /\ TablesOf(X).addressTxs = UNION {MappingsOf(X, p) : p \in X}
           /\ TablesOf(X).ownTxs = [t \in Ids(OwnIn(X)) |-> HeightOfId(X, t)]
           /\ TablesOf(X).ownOutputs = RowsOver(X, OwnMadeIn(X))
  BY DEF TablesOf

LEMMA AddressesKnown ==
    ASSUME NEW X, NEW p, NEW b, IsNext(X, p, b)
    PROVE  /\ \A o \in SpentBy(TxAt(p)) : /\ outputAddressOf(TablesOf(X), o) = AddressIn(X, o)
                                          /\ AddressIn(X, o) # Unknown
           /\ \A o \in MadeIn(X) : AddressIn(X \cup {p}, o) = AddressIn(X, o)
           /\ \A o \in OutpointsOf(TxAt(p)) : AddressIn(X \cup {p}, o) = AddressAt(p, o)
           /\ \A q \in X : TouchedBy(X \cup {p}, q) = TouchedBy(X, q) 
           /\ TouchedBy(X \cup {p}, p) = Touched(TablesOf(X), TxAt(p))
<1>1. /\ b \in Blocks /\ X \subseteq Places(ChainOf[b]) /\ p \in Places(ChainOf[b]) /\ p \notin X
      /\ IsInitial(X, b)
  BY DEF IsNext, IsInitial, IsPart
<1>2. ASSUME NEW o \in MadeIn(X)
      PROVE  AddressIn(X \cup {p}, o) = AddressIn(X, o) /\ Maker(X, o) \in X
  BY RowsWithNext DEF AddressIn
<1>3. ASSUME NEW o \in OutpointsOf(TxAt(p)) PROVE AddressIn(X \cup {p}, o) = AddressAt(p, o)
  <2>1. Maker(X \cup {p}, o) = p
    BY RowsWithNext
  <2>. QED  BY <2>1 DEF AddressIn
<1>4. ASSUME NEW o \in SpentBy(TxAt(p))
      PROVE  outputAddressOf(TablesOf(X), o) = AddressIn(X, o) /\ AddressIn(X, o) # Unknown
  <2>1. o \in MadeIn(X)
    BY NextIsNew
  <2>2. PICK q \in X : o \in OutpointsOf(TxAt(q))
    BY <2>1 DEF MadeIn
  <2>3. Maker(X, o) = q
    BY <1>1, <2>2, Belongs
  <2>4. o[2] \in DOMAIN TxAt(q).outputs
    BY <2>2 DEF OutpointsOf
  <2>5. AddressIn(X, o) # Unknown
    BY <1>1, <2>3, <2>4, PlaceIs DEF AddressIn, AddressAt
  <2>6. TablesOf(X).outputs = RowsOver(X, MadeIn(X))
    BY FieldsOf
  <2>7. o \in DOMAIN TablesOf(X).outputs /\ TablesOf(X).outputs[o].address = AddressIn(X, o)
    BY <2>1, <2>6 DEF RowIn, RowAt, AddressIn, RowsOver
  <2>. QED  BY <2>5, <2>7 DEF outputAddressOf
<1>5. ASSUME NEW q \in X PROVE TouchedBy(X \cup {p}, q) = TouchedBy(X, q)
  <2>1. \A o \in SpentBy(TxAt(q)) : o \in MadeIn(X)
    <3>. SUFFICES ASSUME NEW o \in SpentBy(TxAt(q)) PROVE o \in MadeIn(X)
      OBVIOUS
    <3>1. IsSoundChain(ChainOf[b])
      BY <1>1, TransactionsAssumption
    <3>2. PICK r \in Places(ChainOf[b]) : o \in OutpointsOf(TxAt(r))
      BY <1>1, <3>1 DEF IsSoundChain
    <3>3. Precedes(r, q)
      BY <1>1, <3>2, ChainIsSound
    <3>. QED  BY <1>1, <3>2, <3>3 DEF IsInitial, MadeIn
  <2>2. \A o \in SpentBy(TxAt(q)) : AddressIn(X \cup {p}, o) = AddressIn(X, o)
    BY <1>2, <2>1
  <2>. QED  BY <2>2 DEF TouchedBy
<1>6. TouchedBy(X \cup {p}, p) = Touched(TablesOf(X), TxAt(p))
  <2>1. \A o \in SpentBy(TxAt(p)) : AddressIn(X \cup {p}, o) = outputAddressOf(TablesOf(X), o)
    BY <1>2, <1>4, NextIsNew
  <2>2. \A o \in SpentBy(TxAt(p)) : outputAddressOf(TablesOf(X), o) # Unknown
    BY <1>4
  <2>. DEFINE known(o) == outputAddressOf(TablesOf(X), o)
  <2>3. {known(o) : o \in SpentBy(TxAt(p))} \ {Unknown} = {AddressIn(X \cup {p}, o) : o \in SpentBy(TxAt(p))}
    <3>. HIDE DEF known
    <3>1. \A o \in SpentBy(TxAt(p)) : known(o) = AddressIn(X \cup {p}, o) /\ known(o) # Unknown
      BY <2>1, <2>2 DEF known
    <3>. QED  BY <3>1
  <2>. QED  BY <2>3 DEF TouchedBy, Touched, AddressesMade
<1>. QED  BY <1>2, <1>3, <1>4, <1>5, <1>6

(* Indexing the next transaction gives the index of the longer chain. *)
LEMMA IndexGrows ==
    ASSUME NEW X, NEW p, NEW b, IsNext(X, p, b)
    PROVE  upsertTxIndex(TablesOf(X), TxAt(p), HeightAt(p)) = TablesOf(X \cup {p})
<1>. DEFINE Y == X \cup {p}
            T == TablesOf(X)
            tx == TxAt(p)
<1>0. Y = X \cup {p} /\ tx = TxAt(p)
  OBVIOUS
<1>1. /\ T.transactions = [t \in Ids(X) |-> HeightOfId(X, t)]
      /\ T.outputs = RowsOver(X, MadeIn(X))
      /\ T.inputs = UNION {InputsOf(q) : q \in X}
      /\ T.addressTxs = UNION {MappingsOf(X, q) : q \in X}
      /\ T.ownTxs = [t \in Ids(OwnIn(X)) |-> HeightOfId(X, t)]
      /\ T.ownOutputs = RowsOver(X, OwnMadeIn(X))
  BY FieldsOf
<1>2. /\ tx.id \notin Ids(X)
      /\ \A o \in OutpointsOf(tx) : o \notin MadeIn(X)
      /\ \A o \in SpentBy(tx) : o \in MadeIn(X) /\ ~IsSpentIn(X, o)
  BY NextIsNew
<1>3. /\ \A o \in SpentBy(tx) : outputAddressOf(T, o) = AddressIn(X, o)
      /\ \A o \in MadeIn(X) : AddressIn(Y, o) = AddressIn(X, o)
      /\ \A o \in OutpointsOf(tx) : AddressIn(Y, o) = AddressAt(p, o)
      /\ \A q \in X : TouchedBy(Y, q) = TouchedBy(X, q)
      /\ TouchedBy(Y, p) = Touched(T, tx)
  BY AddressesKnown
<1>. HIDE DEF Y, T
<1>4. /\ Ids(Y) = Ids(X) \cup {tx.id}
      /\ HeightOfId(Y, tx.id) = HeightAt(p)
      /\ \A t \in Ids(X) : HeightOfId(Y, t) = HeightOfId(X, t)
      /\ MadeIn(Y) = MadeIn(X) \cup OutpointsOf(tx)
  BY <1>0, RowsWithNext
<1>. HIDE DEF tx
<1>5. WithRow(T.transactions, tx.id, HeightAt(p)) = [t \in Ids(Y) |-> HeightOfId(Y, t)]
  BY <1>1, <1>2, <1>4 DEF WithRow
<1>6. OutputRows(MarkSpent(T.outputs, SpentBy(tx), tx.id), tx, HeightAt(p), OutpointsOf(tx))
        = RowsOver(Y, MadeIn(Y))
  <2>1. /\ OutpointsOf(tx) \cap DOMAIN T.outputs = {} /\ MadeIn(X) \in SUBSET MadeIn(X)
        /\ SpentBy(tx) = SpentBy(tx) \cap MadeIn(X)
    BY <1>1, <1>2 DEF RowsOver
  <2>2. OutputRows(MarkSpent(T.outputs, SpentBy(tx), tx.id), tx, HeightAt(p), OutpointsOf(tx))
          = GrownRows(T.outputs, p, SpentBy(tx), OutpointsOf(tx))
    BY <2>1, OutputRowsAre DEF tx
  <2>3. GrownRows(T.outputs, p, SpentBy(tx), OutpointsOf(tx))
          = RowsOver(X \cup {p}, MadeIn(X) \cup OutpointsOf(tx))
    BY <1>1, <2>1, RowsGrow DEF tx
  <2>. QED  BY <1>0, <1>4, <2>2, <2>3
<1>7. T.inputs \cup {<<tx.id, o>> : o \in SpentBy(tx)} = UNION {InputsOf(q) : q \in Y}
  <2>1. InputsOf(p) = {<<tx.id, o>> : o \in SpentBy(tx)}
    BY DEF InputsOf, tx
  <2>. QED  BY <1>0, <1>1, <2>1
<1>8. T.addressTxs \cup {<<a, tx.id, HeightAt(p)>> : a \in Mapped(T, tx)}
        = UNION {MappingsOf(Y, q) : q \in Y}
  <2>1. ASSUME NEW q \in X, NEW m \in MappingsOf(X, q) PROVE m[2] # tx.id
    <3>1. m[2] = TxAt(q).id
      BY <2>1 DEF MappingsOf
    <3>. QED  BY <1>2, <3>1 DEF Ids
  <2>2. \A m \in T.addressTxs : m[2] # tx.id
    BY <1>1, <2>1
  <2>3. Mapped(T, tx) = TouchedBy(Y, p)
    BY <1>3, <2>2 DEF Mapped
  <2>4. MappingsOf(Y, p) = {<<a, tx.id, HeightAt(p)>> : a \in Mapped(T, tx)}
    BY <2>3 DEF MappingsOf, tx
  <2>5. \A q \in X : MappingsOf(Y, q) = MappingsOf(X, q)
    BY <1>3 DEF MappingsOf
  <2>. DEFINE old(q) == MappingsOf(X, q)
              new(q) == MappingsOf(Y, q)
  <2>6. (UNION {old(q) : q \in X}) \cup new(p) = UNION {new(q) : q \in Y}
    <3>1. \A q \in X : new(q) = old(q)
      BY <2>5
    <3>. HIDE DEF old, new
    <3>. QED  BY <1>0, <3>1
  <2>. QED  BY <1>1, <2>4, <2>6
<1>9. OwnSpent(T, tx) = {o \in SpentBy(tx) : AddressIn(X, o) \in OwnAddresses}
  BY <1>3 DEF OwnSpent
<1>10. OwnMade(tx) = {o \in OutpointsOf(tx) : AddressIn(Y, o) \in OwnAddresses}
  BY <1>3 DEF OwnMade, AddressAt, tx
<1>11. IsOwnIn(Y, p) <=> Affected(T, tx)
  <2>1. TouchedBy(Y, p) = {AddressIn(Y, o) : o \in SpentBy(tx)} \cup AddressesMade(p)
    BY DEF TouchedBy, tx
  <2>2. \A o \in SpentBy(tx) : AddressIn(Y, o) = AddressIn(X, o)
    BY <1>2, <1>3
  <2>3. AddressesMade(p) \cap OwnAddresses # {} <=> OwnMade(tx) # {}
    <3>1. AddressesMade(p) = {tx.outputs[i].address : i \in DOMAIN tx.outputs}
      BY DEF AddressesMade, tx
    <3>2. OwnMade(tx) = {o \in {<<tx.id, i>> : i \in DOMAIN tx.outputs} :
                            tx.outputs[o[2]].address \in OwnAddresses}
      BY DEF OwnMade, OutpointsOf
    <3>3. ASSUME NEW i \in DOMAIN tx.outputs, tx.outputs[i].address \in OwnAddresses
          PROVE  <<tx.id, i>> \in OwnMade(tx)
      BY <3>2, <3>3
    <3>4. ASSUME NEW o \in OwnMade(tx) PROVE AddressesMade(p) \cap OwnAddresses # {}
      BY <3>1, <3>2
    <3>. QED  BY <3>1, <3>3, <3>4
  <2>4. OwnSpent(T, tx) # {} <=> \E o \in SpentBy(tx) : AddressIn(Y, o) \in OwnAddresses
    BY <1>9, <2>2
  <2>. QED  BY <2>1, <2>3, <2>4 DEF IsOwnIn, Affected
<1>12. /\ \A q \in X : q \in OwnIn(Y) <=> q \in OwnIn(X)
       /\ p \in OwnIn(Y) <=> Affected(T, tx)
       /\ OwnIn(X) \subseteq X /\ OwnIn(Y) \subseteq Y
  BY <1>0, <1>3, <1>11 DEF OwnIn, IsOwnIn
<1>13. (IF Affected(T, tx) THEN WithRow(T.ownTxs, tx.id, HeightAt(p)) ELSE T.ownTxs)
         = [t \in Ids(OwnIn(Y)) |-> HeightOfId(Y, t)]
  <2>1. Ids(OwnIn(X)) \subseteq Ids(X)
    BY <1>12 DEF Ids
  <2>2. CASE Affected(T, tx)
    <3>1. OwnIn(Y) = OwnIn(X) \cup {p}
      BY <1>0, <1>12, <2>2
    <3>2. Ids(OwnIn(Y)) = Ids(OwnIn(X)) \cup {tx.id}
      BY <3>1 DEF Ids, tx
    <3>. QED  BY <1>1, <1>2, <1>4, <2>1, <2>2, <3>2 DEF WithRow
  <2>3. CASE ~Affected(T, tx)
    <3>1. OwnIn(Y) = OwnIn(X)
      BY <1>0, <1>12, <2>3
    <3>. QED  BY <1>1, <1>4, <2>1, <2>3, <3>1
  <2>. QED  BY <2>2, <2>3
<1>14. OwnMadeIn(Y) = OwnMadeIn(X) \cup OwnMade(tx)
  BY <1>3, <1>4, <1>10 DEF OwnMadeIn
<1>15. (IF Affected(T, tx)
        THEN OutputRows(MarkSpent(T.ownOutputs, Unmarked(T, tx), tx.id), tx, HeightAt(p), OwnMade(tx))
        ELSE T.ownOutputs)
         = RowsOver(Y, OwnMadeIn(Y))
  <2>. DEFINE D == OwnMadeIn(X)
              made == OwnMade(tx)
              marked == Unmarked(T, tx)
  <2>1. D \in SUBSET MadeIn(X) /\ made \in SUBSET OutpointsOf(tx) /\ made \cap D = {}
        /\ DOMAIN T.ownOutputs = D
    BY <1>1, <1>2 DEF OwnMadeIn, OwnMade, RowsOver
  <2>2. marked = SpentBy(tx) \cap D
    <3>1. \A o \in D : T.ownOutputs[o].spent = Spender(X, o)
      BY <1>1 DEF RowIn, RowAt, RowsOver
    <3>2. \A o \in SpentBy(tx) : Spender(X, o) = Nobody /\ (o \in OwnSpent(T, tx) <=> o \in D)
      BY <1>2, <1>9 DEF Spender, OwnMadeIn
    <3>. QED  BY <2>1, <3>1, <3>2 DEF Unmarked, OwnSpent
  <2>. HIDE DEF D, made, marked
  <2>3. GrownRows(T.ownOutputs, p, marked, made) = RowsOver(X \cup {p}, D \cup made)
    <3>1. T.ownOutputs = RowsOver(X, D)
      BY <1>1 DEF D
    <3>. QED  BY <2>1, <2>2, <3>1, RowsGrow DEF tx
  <2>4. OutputRows(MarkSpent(T.ownOutputs, marked, tx.id), tx, HeightAt(p), made)
          = GrownRows(T.ownOutputs, p, marked, made)
    BY <2>1, OutputRowsAre DEF tx
  <2>5. D \cup made = OwnMadeIn(Y)
    BY <1>14 DEF D, made
  <2>6. CASE Affected(T, tx)
    BY <1>0, <2>3, <2>4, <2>5, <2>6 DEF marked, made
  <2>7. CASE ~Affected(T, tx)
    <3>1. made = {} /\ marked = {}
      BY <2>7 DEF Affected, Unmarked, made, marked
    <3>2. GrownRows(T.ownOutputs, p, marked, made) = T.ownOutputs
      BY <1>1, <3>1 DEF GrownRows, RowsOver
    <3>. QED  BY <1>0, <2>3, <2>5, <2>7, <3>2
  <2>. QED  BY <2>6, <2>7
<1>16. upsertTxIndex(T, tx, HeightAt(p)) = TablesOf(Y)
  BY <1>5, <1>6, <1>7, <1>8, <1>13, <1>15, Upserted DEF TablesOf
<1>. QED  BY <1>16 DEF T, Y, tx

LEMMA NothingIsIndexed == TablesOf({}) = NoTables
<1>1. Ids({}) = {} /\ MadeIn({}) = {} /\ OwnIn({}) = {} /\ OwnMadeIn({}) = {}
  BY DEF Ids, MadeIn, OwnIn, OwnMadeIn
<1>2. /\ UNION {InputsOf(p) : p \in {}} = {} /\ UNION {MappingsOf({}, p) : p \in {}} = {}
  OBVIOUS
<1>3. [t \in {} |-> HeightOfId({}, t)] = << >> /\ RowsOver({}, {}) = << >>
  BY DEF RowsOver
<1>. QED  BY <1>1, <1>2, <1>3 DEF TablesOf, NoTables

-----------------------------------------------------------------------------
(* One block more, and a batch of them *)

(* Rows of a chain, with all that lie below them. *)
IsLowPart(R, b) ==
    /\ b \in Blocks /\ R \subseteq ChainOf[b]
    /\ \A c \in R : \A d \in ChainOf[b] : Height[d] < Height[c] => d \in R

PartPlaces(R, c, k) == Places(R) \cup {<<c, i>> : i \in 1..k}

LEMMA LengthOfBlock ==
    ASSUME NEW c \in Blocks
    PROVE  \E n \in Nat : DOMAIN Transactions[c] = 1..n
<1>1. Transactions[c] \in Seq(Range(Transactions[c]))
  BY TransactionsAssumption
<1>2. Len(Transactions[c]) \in Nat /\ DOMAIN Transactions[c] = 1..Len(Transactions[c])
  BY <1>1
<1>. QED  BY <1>2

LEMMA PartIsInitial ==
    ASSUME NEW R, NEW b, NEW c, c \notin R, IsLowPart(R, b), IsLowPart(R \cup {c}, b),
           NEW n \in Nat, DOMAIN Transactions[c] = 1..n, NEW k \in 0..n
    PROVE  IsInitial(PartPlaces(R, c, k), b)
<1>. DEFINE X == PartPlaces(R, c, k)
<1>1. /\ b \in Blocks /\ R \subseteq ChainOf[b] /\ c \in ChainOf[b] /\ ChainOf[b] \subseteq Blocks
      /\ \A d \in ChainOf[b] : Height[d] \in Nat
  BY WalletSyncAssumption, ChainStoreAssumption DEF IsLowPart
<1>2. \A p : p \in X <=> (\E d \in R : p \in PlacesIn(d)) \/ (\E i \in 1..k : p = <<c, i>>)
  BY DEF PartPlaces, Places
<1>3. \A d : \A p \in PlacesIn(d) : p[1] = d /\ p[2] \in DOMAIN Transactions[d] /\ p = <<d, p[2]>>
  BY DEF PlacesIn
<1>4. \A i \in 1..k : i \in DOMAIN Transactions[c] /\ <<c, i>> \in PlacesIn(c)
  BY DEF PlacesIn
<1>5. X \subseteq Places(ChainOf[b])
  BY <1>1, <1>2, <1>4 DEF Places
<1>6. ASSUME NEW p \in X, NEW q \in Places(ChainOf[b]), Precedes(q, p) PROVE q \in X
  <2>1. PICK d \in ChainOf[b] : q \in PlacesIn(d)
    BY DEF Places
  <2>2. q[1] = d /\ q[2] \in DOMAIN Transactions[d] /\ q = <<d, q[2]>>
    BY <1>3, <2>1
  <2>3. CASE \E e \in R : p \in PlacesIn(e)
    <3>1. PICK e \in R : p \in PlacesIn(e)
      BY <2>3
    <3>2. p[1] = e
      BY <1>3, <3>1
    <3>3. Height[d] < Height[e] \/ d = e
      BY <1>6, <2>2, <3>2 DEF Precedes, HeightAt
    <3>4. d \in R
      BY <3>1, <3>3 DEF IsLowPart
    <3>. QED  BY <1>2, <2>1, <3>4
  <2>4. CASE \E i \in 1..k : p = <<c, i>>
    <3>1. PICK i \in 1..k : p = <<c, i>>
      BY <2>4
    <3>2. p[1] = c /\ p[2] = i
      BY <3>1
    <3>3. CASE Height[d] < Height[c]
      <4>1. d \in R \cup {c} /\ d # c
        BY <1>1, <3>3 DEF IsLowPart
      <4>. QED  BY <1>2, <2>1, <4>1
    <3>4. CASE d = c /\ q[2] < i
      <4>1. q[2] \in 1..k
        BY <2>2, <3>4
      <4>. QED  BY <1>2, <2>2, <3>4, <4>1
    <3>. QED  BY <1>6, <2>2, <3>2, <3>3, <3>4 DEF Precedes, HeightAt
  <2>. QED  BY <1>2, <2>3, <2>4
<1>. HIDE DEF X
<1>7. IsInitial(X, b)
  BY <1>1, <1>5, <1>6 DEF IsInitial, IsPart
<1>. QED  BY <1>7 DEF X

LEMMA BlockIndexGrows ==
    ASSUME NEW R, NEW b, NEW c, c \notin R, IsLowPart(R, b), IsLowPart(R \cup {c}, b)
    PROVE  indexBlock(TablesOf(Places(R)), c) = TablesOf(Places(R \cup {c}))
<1>1. b \in Blocks /\ c \in ChainOf[b] /\ c \in Blocks /\ R \subseteq Blocks
  BY WalletSyncAssumption DEF IsLowPart
<1>2. PICK n \in Nat : DOMAIN Transactions[c] = 1..n
  BY <1>1, LengthOfBlock
<1>. DEFINE t == TablesOf(Places(R))
            Q == {k \in Nat : k <= n => After(t, c, k) = TablesOf(PartPlaces(R, c, k))}
<1>. HIDE DEF t
<1>3. /\ After(t, c, 0) = t
      /\ \A k \in 1..n : After(t, c, k) = upsertTxIndex(After(t, c, k - 1), TxAt(<<c, k>>), Height[c])
      /\ indexBlock(t, c) = After(t, c, n)
  <2>1. After(t, c, 0) = t /\ UpsertsAll(t, c, n) /\ indexBlock(t, c) = After(t, c, n)
    BY <1>2, BlockIndexes
  <2>. QED  BY <2>1 DEF UpsertsAll
<1>4. PartPlaces(R, c, 0) = Places(R)
  BY DEF PartPlaces
<1>5. 0 \in Q
  BY <1>3, <1>4 DEF t
<1>6. ASSUME NEW k \in Nat, k \in Q PROVE k + 1 \in Q
  <2>. SUFFICES ASSUME k + 1 <= n PROVE After(t, c, k + 1) = TablesOf(PartPlaces(R, c, k + 1))
    OBVIOUS
  <2>. DEFINE X == PartPlaces(R, c, k)
              p == <<c, k + 1>>
  <2>1. k + 1 \in 1..n /\ k \in 0..n /\ k + 1 \in 0..n /\ (k + 1) - 1 = k
    OBVIOUS
  <2>2. PartPlaces(R, c, k + 1) = X \cup {p}
    <3>1. 1..(k + 1) = (1..k) \cup {k + 1}
      OBVIOUS
    <3>. QED  BY <3>1 DEF PartPlaces
  <2>3. p \notin X
    <3>1. \A i \in 1..k : <<c, i>> # p
      OBVIOUS
    <3>2. \A d \in R : p \notin PlacesIn(d)
      BY DEF PlacesIn
    <3>. QED  BY <3>1, <3>2 DEF PartPlaces, Places
  <2>4. IsInitial(X, b) /\ IsInitial(X \cup {p}, b)
    <3>1. IsInitial(PartPlaces(R, c, k), b)
      BY <1>2, <2>1, PartIsInitial
    <3>2. IsInitial(PartPlaces(R, c, k + 1), b)
      BY <1>2, <2>1, PartIsInitial
    <3>. QED  BY <2>2, <3>1, <3>2
  <2>5. After(t, c, k) = TablesOf(X)
    BY <1>6, <2>1
  <2>6. HeightAt(p) = Height[c]
    BY DEF HeightAt
  <2>7. After(t, c, k + 1) = upsertTxIndex(TablesOf(X), TxAt(p), HeightAt(p))
    BY <1>3, <2>1, <2>5, <2>6
  <2>. HIDE DEF X, p
  <2>8. upsertTxIndex(TablesOf(X), TxAt(p), HeightAt(p)) = TablesOf(X \cup {p})
    BY <2>3, <2>4, IndexGrows DEF IsNext
  <2>. QED  BY <2>2, <2>7, <2>8
<1>7. n \in Q
  <2>. HIDE DEF Q
  <2>1. \A k \in Nat : k \in Q
    BY <1>5, <1>6, NaturalInduction
  <2>. QED  BY <2>1
<1>8. PartPlaces(R, c, n) = Places(R \cup {c})
  BY <1>2 DEF PartPlaces, Places, PlacesIn
<1>. QED  BY <1>3, <1>7, <1>8 DEF t

(* What is appended above the rows is indexed on top of them. *)
LEMMA BatchIndexGrows ==
    ASSUME NEW b, NEW R, NEW B, IsLowPart(R, b), IsLowPart(R \cup B, b), R \cap B = {}
    PROVE  indexBlocks(TablesOf(Places(R)), B) = TablesOf(Places(R \cup B))
<1>. DEFINE t == TablesOf(Places(R))
            g == BatchIndex(t, B)
            Q == {s \in SUBSET B : IsLowPart(R \cup s, b) => g[s] = TablesOf(Places(R \cup s))}
<1>1. /\ b \in Blocks /\ B \in SUBSET ChainOf[b] /\ R \in SUBSET ChainOf[b]
      /\ \A d \in ChainOf[b] : Height[d] \in Nat
  BY WalletSyncAssumption, ChainStoreAssumption DEF IsLowPart
<1>2. IsFiniteSet(B)
  BY <1>1, ChainsAreFinite, FS_Subset
<1>3. /\ g[{}] = t
      /\ \A s \in SUBSET B : s # {} => g[s] = indexBlock(g[s \ {localTip(s)}], localTip(s))
  BY <1>1, BatchIndexes
<1>. HIDE DEF g
<1>4. ASSUME NEW s \in SUBSET B, \A u \in SUBSET s : u # s => u \in Q PROVE s \in Q
  <2>. SUFFICES ASSUME IsLowPart(R \cup s, b) PROVE g[s] = TablesOf(Places(R \cup s))
    OBVIOUS
  <2>1. CASE s = {}
    <3>1. R \cup s = R
      BY <2>1
    <3>. QED  BY <1>3, <2>1, <3>1
  <2>2. CASE s # {}
    <3>. DEFINE tip == localTip(s)
                u == s \ {tip}
    <3>1. tip \in s /\ \A c \in s : Height[c] <= Height[tip]
      BY <1>1, <2>2, TipOfSome
    <3>. HIDE DEF tip
    <3>2. u \in SUBSET s /\ u # s /\ u \in SUBSET B /\ tip \notin R \cup u /\ (R \cup u) \cup {tip} = R \cup s
      BY <3>1
    <3>3. IsLowPart(R \cup u, b)
      <4>1. ASSUME NEW c \in R \cup u, NEW d \in ChainOf[b], Height[d] < Height[c] PROVE d \in R \cup u
        <5>1. CASE c \in R
          BY <4>1, <5>1 DEF IsLowPart
        <5>2. CASE c \in u
          <6>1. d \in R \cup s
            BY <4>1, <5>2 DEF IsLowPart
          <6>2. d # tip
            BY <1>1, <3>1, <4>1, <5>2
          <6>. QED  BY <6>1, <6>2
        <5>. QED  BY <4>1, <5>1, <5>2
      <4>. QED  BY <1>1, <3>2, <4>1 DEF IsLowPart
    <3>4. g[u] = TablesOf(Places(R \cup u))
      BY <1>4, <3>2, <3>3
    <3>5. g[s] = indexBlock(g[u], tip)
      BY <1>3, <2>2 DEF tip
    <3>. HIDE DEF u
    <3>6. indexBlock(TablesOf(Places(R \cup u)), tip) = TablesOf(Places((R \cup u) \cup {tip}))
      <4>1. IsLowPart((R \cup u) \cup {tip}, b)
        BY <3>2
      <4>. QED  BY <3>2, <3>3, <4>1, BlockIndexGrows
    <3>. QED  BY <3>2, <3>4, <3>5, <3>6
  <2>. QED  BY <2>1, <2>2
<1>5. B \in Q
  <2>. HIDE DEF Q
  <2>1. \A s \in SUBSET B : s \in Q
    BY <1>2, <1>4, SubsetInduction
  <2>. QED  BY <2>1
<1>6. indexBlocks(t, B) = g[B]
  BY BatchIsIndexed DEF g
<1>. QED  BY <1>5, <1>6

-----------------------------------------------------------------------------
(* Roll-back *)

KeptPlaces(X, h) == {p \in X : HeightAt(p) <= h}

(* What is kept of a chain has all that it needs below it. *)
LEMMA KeptIsInitial ==
    ASSUME NEW X, NEW b, IsInitial(X, b), NEW h \in Nat
    PROVE  IsInitial(KeptPlaces(X, h), b)
<1>. DEFINE K == KeptPlaces(X, h)
<1>1. b \in Blocks /\ X \subseteq Places(ChainOf[b])
  BY DEF IsInitial, IsPart
<1>2. ASSUME NEW p \in K, NEW q \in Places(ChainOf[b]), Precedes(q, p) PROVE q \in K
  <2>1. p \in X /\ HeightAt(p) <= h /\ HeightAt(p) \in Nat /\ HeightAt(q) \in Nat
    BY <1>1, PlaceIs DEF KeptPlaces
  <2>2. q \in X
    BY <1>2, <2>1 DEF IsInitial
  <2>3. HeightAt(q) <= HeightAt(p)
    BY <1>2, <2>1 DEF Precedes, HeightAt
  <2>. QED  BY <2>1, <2>2, <2>3 DEF KeptPlaces
<1>. QED  BY <1>1, <1>2 DEF IsInitial, IsPart, KeptPlaces

(* What the index says of a place does not depend on the places above it. *)
LEMMA LowerPartsAgree ==
    ASSUME NEW X, NEW K, NEW b, IsInitial(X, b), IsInitial(K, b), K \subseteq X
    PROVE  /\ \A t \in Ids(K) : HeightOfId(K, t) = HeightOfId(X, t)
           /\ \A o \in MadeIn(K) : Maker(K, o) = Maker(X, o) /\ Maker(K, o) \in K
           /\ \A o \in MadeIn(K) : AddressIn(K, o) = AddressIn(X, o)
           /\ \A p \in K : TouchedBy(K, p) = TouchedBy(X, p)
<1>1. b \in Blocks /\ X \subseteq Places(ChainOf[b]) /\ K \subseteq Places(ChainOf[b])
  BY DEF IsInitial, IsPart
<1>2. ASSUME NEW t \in Ids(K) PROVE HeightOfId(K, t) = HeightOfId(X, t)
  <2>1. PICK p \in K : t = TxAt(p).id
    BY DEF Ids
  <2>. QED  BY <1>1, <2>1, Belongs
<1>3. ASSUME NEW o \in MadeIn(K)
      PROVE  Maker(K, o) = Maker(X, o) /\ Maker(K, o) \in K /\ AddressIn(K, o) = AddressIn(X, o)
  <2>1. PICK p \in K : o \in OutpointsOf(TxAt(p))
    BY DEF MadeIn
  <2>2. Maker(K, o) = p /\ Maker(X, o) = p
    BY <1>1, <2>1, Belongs
  <2>. QED  BY <2>2 DEF AddressIn
<1>4. ASSUME NEW p \in K PROVE TouchedBy(K, p) = TouchedBy(X, p)
  <2>1. ASSUME NEW o \in SpentBy(TxAt(p)) PROVE o \in MadeIn(K)
    <3>1. IsSoundChain(ChainOf[b])
      BY <1>1, TransactionsAssumption
    <3>2. PICK r \in Places(ChainOf[b]) : o \in OutpointsOf(TxAt(r))
      BY <1>1, <3>1 DEF IsSoundChain
    <3>3. Precedes(r, p)
      BY <1>1, <3>2, ChainIsSound
    <3>. QED  BY <1>1, <3>2, <3>3 DEF IsInitial, MadeIn
  <2>2. \A o \in SpentBy(TxAt(p)) : AddressIn(K, o) = AddressIn(X, o)
    BY <1>3, <2>1
  <2>. QED  BY <2>2 DEF TouchedBy
<1>. QED  BY <1>2, <1>3, <1>4

LEMMA UnspentRows ==
    ASSUME NEW X, NEW b, IsInitial(X, b), NEW h \in Nat, NEW victims,
           \A p \in X : TxAt(p).id \in victims <=> p \notin KeptPlaces(X, h),
           victims \subseteq Ids(X), NEW o \in MadeIn(KeptPlaces(X, h))
    PROVE  RowIn(KeptPlaces(X, h), o) =
             IF RowIn(X, o).spent \in victims THEN [RowIn(X, o) EXCEPT !.spent = Nobody]
             ELSE RowIn(X, o)
<1>. DEFINE K == KeptPlaces(X, h)
<1>1. /\ b \in Blocks /\ X \subseteq Places(ChainOf[b]) /\ K \subseteq Places(ChainOf[b])
      /\ K \subseteq X /\ IsInitial(K, b)
  BY KeptIsInitial DEF IsInitial, IsPart, KeptPlaces
<1>2. \A p \in X : TxAt(p).id \in victims <=> p \notin K
  OBVIOUS
<1>. HIDE DEF K
<1>3. Maker(K, o) = Maker(X, o)
  BY <1>1, LowerPartsAgree DEF K
<1>4. RowIn(X, o).spent = Spender(X, o)
  BY DEF RowIn, RowAt
<1>5. Nobody \notin victims
  <2>1. \A p \in X : TxAt(p).id # Nobody
    BY <1>1, PlaceIs
  <2>. QED  BY <2>1 DEF Ids
<1>6. CASE ~IsSpentIn(X, o)
  <2>1. ~IsSpentIn(K, o)
    BY <1>1, <1>6 DEF IsSpentIn
  <2>2. Spender(X, o) = Nobody /\ Spender(K, o) = Nobody
    BY <1>6, <2>1 DEF Spender
  <2>3. RowIn(K, o) = RowIn(X, o)
    BY <1>3, <2>2 DEF RowIn
  <2>. QED  BY <1>4, <1>5, <2>2, <2>3 DEF K
<1>7. CASE IsSpentIn(X, o)
  <2>1. PICK q \in X : o \in SpentBy(TxAt(q))
    BY <1>7 DEF IsSpentIn
  <2>2. Spender(X, o) = TxAt(q).id
    BY <1>1, <2>1, Belongs
  <2>3. CASE q \in K
    <3>1. Spender(K, o) = TxAt(q).id
      BY <1>1, <2>1, <2>3, Belongs
    <3>2. RowIn(K, o) = RowIn(X, o)
      BY <1>3, <2>2, <3>1 DEF RowIn
    <3>. QED  BY <1>2, <1>4, <2>2, <2>3, <3>2 DEF K
  <2>4. CASE q \notin K
    <3>1. ~IsSpentIn(K, o)
      <4>. SUFFICES ASSUME NEW r \in K, o \in SpentBy(TxAt(r)) PROVE FALSE
        BY DEF IsSpentIn
      <4>1. r = q
        BY <1>1, <2>1, ChainIsSound
      <4>. QED  BY <2>4, <4>1
    <3>2. Spender(K, o) = Nobody
      BY <3>1 DEF Spender
    <3>3. RowIn(K, o) = [RowIn(X, o) EXCEPT !.spent = Nobody]
      BY <1>3, <3>2 DEF RowIn, RowAt
    <3>. QED  BY <1>2, <1>4, <2>2, <2>4, <3>3 DEF K
  <2>. QED  BY <2>3, <2>4
<1>. QED  BY <1>6, <1>7

(* A roll-back leaves the index of the lower part, as if the rest had never been indexed. *)
LEMMA TruncationForgets ==
    ASSUME NEW X, NEW b, IsInitial(X, b), NEW h \in Nat
    PROVE  truncateTables(TablesOf(X), h) = TablesOf(KeptPlaces(X, h))
<1>. DEFINE K == KeptPlaces(X, h)
            T == TablesOf(X)
            victims == {t \in DOMAIN T.transactions : T.transactions[t] > h}
<1>1. /\ b \in Blocks /\ X \subseteq Places(ChainOf[b]) /\ K \subseteq Places(ChainOf[b])
      /\ K \subseteq X /\ IsInitial(K, b)
      /\ \A p \in X : p \in K <=> HeightAt(p) <= h
  BY KeptIsInitial DEF IsInitial, IsPart, KeptPlaces
<1>2. /\ T.transactions = [t \in Ids(X) |-> HeightOfId(X, t)]
      /\ T.outputs = RowsOver(X, MadeIn(X))
      /\ T.inputs = UNION {InputsOf(q) : q \in X}
      /\ T.addressTxs = UNION {MappingsOf(X, q) : q \in X}
      /\ T.ownTxs = [t \in Ids(OwnIn(X)) |-> HeightOfId(X, t)]
      /\ T.ownOutputs = RowsOver(X, OwnMadeIn(X))
  BY FieldsOf
<1>. HIDE DEF T
<1>3. victims = {t \in Ids(X) : HeightOfId(X, t) > h}
  BY <1>2
<1>4. ASSUME NEW p \in X PROVE TxAt(p).id \in victims <=> p \notin K
  <2>1. HeightOfId(X, TxAt(p).id) = HeightAt(p) /\ TxAt(p).id \in Ids(X) /\ HeightAt(p) \in Nat
    BY <1>1, Belongs, PlaceIs DEF Ids
  <2>. QED  BY <1>1, <1>3, <2>1
<1>5. victims \subseteq Ids(X)
  BY <1>3
<1>6. /\ \A t \in Ids(K) : HeightOfId(K, t) = HeightOfId(X, t)
      /\ \A o \in MadeIn(K) : AddressIn(K, o) = AddressIn(X, o)
      /\ \A p \in K : TouchedBy(K, p) = TouchedBy(X, p)
  BY <1>1, LowerPartsAgree
<1>7. \A o \in MadeIn(K) : RowIn(K, o) =
             IF RowIn(X, o).spent \in victims THEN [RowIn(X, o) EXCEPT !.spent = Nobody]
             ELSE RowIn(X, o)
  <2>. HIDE DEF victims
  <2>. QED  BY <1>4, <1>5, UnspentRows
<1>. HIDE DEF victims, K
<1>8. {t \in Ids(X) : t \notin victims} = Ids(K)
  BY <1>1, <1>4 DEF Ids
<1>9. \A p \in X : \A o \in OutpointsOf(TxAt(p)) : o[1] = TxAt(p).id
  BY DEF OutpointsOf
<1>10. {o \in MadeIn(X) : o[1] \notin victims} = MadeIn(K)
  BY <1>1, <1>4, <1>9 DEF MadeIn
<1>11. KeepKeys(T.transactions, LAMBDA t : t \notin victims) = [t \in Ids(K) |-> HeightOfId(K, t)]
  BY <1>2, <1>6, <1>8 DEF KeepKeys
<1>12. KeepKeys(Unspend(T.outputs, victims), LAMBDA o : o[1] \notin victims) = RowsOver(K, MadeIn(K))
  BY <1>2, <1>7, <1>10 DEF KeepKeys, Unspend, RowsOver
<1>13. {i \in T.inputs : i[1] \notin victims} = UNION {InputsOf(q) : q \in K}
  <2>1. \A p \in X : \A i \in InputsOf(p) : i[1] = TxAt(p).id
    BY DEF InputsOf
  <2>. QED  BY <1>1, <1>2, <1>4, <2>1
<1>14. {m \in T.addressTxs : m[2] \notin victims} = UNION {MappingsOf(K, q) : q \in K}
  <2>1. \A p \in X : \A m \in MappingsOf(X, p) : m[2] = TxAt(p).id
    BY DEF MappingsOf
  <2>2. \A q \in K : MappingsOf(K, q) = MappingsOf(X, q)
    BY <1>6 DEF MappingsOf
  <2>3. {m \in T.addressTxs : m[2] \notin victims} = UNION {MappingsOf(X, q) : q \in K}
    BY <1>1, <1>2, <1>4, <2>1
  <2>. QED  BY <2>2, <2>3
<1>15. KeepKeys(T.ownTxs, LAMBDA t : t \notin victims) = [t \in Ids(OwnIn(K)) |-> HeightOfId(K, t)]
  <2>1. \A q \in K : q \in OwnIn(K) <=> q \in OwnIn(X)
    BY <1>1, <1>6 DEF OwnIn, IsOwnIn
  <2>2. OwnIn(X) \subseteq X /\ OwnIn(K) \subseteq K
    BY DEF OwnIn
  <2>3. {t \in Ids(OwnIn(X)) : t \notin victims} = Ids(OwnIn(K))
    BY <1>1, <1>4, <2>1, <2>2 DEF Ids
  <2>4. Ids(OwnIn(K)) \subseteq Ids(K)
    BY <2>2 DEF Ids
  <2>. QED  BY <1>2, <1>6, <2>3, <2>4 DEF KeepKeys
<1>16. KeepKeys(Unspend(T.ownOutputs, victims), LAMBDA o : o[1] \notin victims)
         = RowsOver(K, OwnMadeIn(K))
  <2>1. {o \in OwnMadeIn(X) : o[1] \notin victims} = OwnMadeIn(K)
    BY <1>6, <1>10 DEF OwnMadeIn
  <2>2. OwnMadeIn(K) \subseteq MadeIn(K)
    BY DEF OwnMadeIn
  <2>. QED  BY <1>2, <1>7, <2>1, <2>2 DEF KeepKeys, Unspend, RowsOver
<1>17. truncateTables(T, h) = TablesOf(K)
  BY <1>11, <1>12, <1>13, <1>14, <1>15, <1>16 DEF truncateTables, TablesOf, victims
<1>. QED  BY <1>17 DEF T, K

-----------------------------------------------------------------------------
(* Rows that reach down to a genesis block *)

Rooted(R) == \A b \in R : Height[b] = 0 \/ Parent[b] \in R

LEMMA ChainsReachDown ==
    ASSUME NEW R, Rooted(R), R \subseteq Blocks
    PROVE  \A b \in R : /\ ChainOf[b] \subseteq R
                        /\ \A h \in 0..Height[b] : \E c \in ChainOf[b] : Height[c] = h
<1>. DEFINE Down(b) == /\ ChainOf[b] \subseteq R
                       /\ \A h \in 0..Height[b] : \E c \in ChainOf[b] : Height[c] = h
            Good == {n \in Nat : \A b \in R : Height[b] = n => Down(b)}
<1>1. \A b \in R : b \in Blocks /\ Height[b] \in Nat
  BY ChainStoreAssumption
<1>2. ASSUME NEW b \in R, Height[b] = 0 PROVE Down(b)
  <2>1. ChainOf[b] = {b}
    BY <1>1, <1>2, ChainStoreAssumption, WalletSyncAssumption
  <2>2. \A h \in 0..Height[b] : h = Height[b]
    BY <1>2
  <2>. QED  BY <2>1, <2>2
<1>3. 0 \in Good
  BY <1>2
<1>4. ASSUME NEW n \in Nat, n \in Good PROVE n + 1 \in Good
  <2>. SUFFICES ASSUME NEW b \in R, Height[b] = n + 1 PROVE Down(b)
    OBVIOUS
  <2>1. b \in Blocks /\ Height[b] # 0 /\ Height[b] > 0
    BY <1>1
  <2>2. Parent[b] \in R /\ Parent[b] # NoBlock
    BY <2>1, ChainStoreAssumption DEF Rooted
  <2>3. Height[Parent[b]] = n
    <3>1. Height[Parent[b]] = Height[b] - 1
      BY <2>1, ChainStoreAssumption
    <3>. QED  BY <3>1
  <2>4. Down(Parent[b])
    BY <1>4, <2>2, <2>3
  <2>5. ChainOf[b] = {b} \cup ChainOf[Parent[b]]
    BY <2>1, <2>2, WalletSyncAssumption
  <2>6. \A h \in 0..Height[b] : h \in 0..n \/ h = Height[b]
    OBVIOUS
  <2>. QED  BY <2>3, <2>4, <2>5, <2>6
<1>5. \A n \in Nat : n \in Good
  <2>. HIDE DEF Good
  <2>. QED  BY <1>3, <1>4, NaturalInduction
<1>. QED  BY <1>1, <1>5

(* Such rows are the whole chain below their tip, and lower rows a part of it. *)
LEMMA RootedRowsAreLow ==
    ASSUME NEW A, Linked(A), Rooted(A), A # {}, NEW R, R \subseteq A, Rooted(R)
    PROVE  localTip(A) \in Blocks /\ IsLowPart(R, localTip(A))
<1>. DEFINE tip == localTip(A)
<1>1. A \subseteq Blocks /\ R \subseteq Blocks /\ \A b, c \in A : Height[b] = Height[c] => b = c
  BY DEF Linked, OnePerHeight
<1>2. tip \in A /\ \A c \in A : Height[c] <= Height[tip]
  BY RowsHaveATip DEF Linked
<1>. HIDE DEF tip
<1>3. \A b \in A : Height[b] \in Nat
  BY <1>1, ChainStoreAssumption
<1>4. ChainOf[tip] \subseteq A /\ \A h \in 0..Height[tip] : \E c \in ChainOf[tip] : Height[c] = h
  BY <1>1, <1>2, ChainsReachDown
<1>5. A \subseteq ChainOf[tip]
  <2>. SUFFICES ASSUME NEW b \in A PROVE b \in ChainOf[tip]
    OBVIOUS
  <2>1. Height[b] \in 0..Height[tip]
    BY <1>2, <1>3
  <2>2. PICK c \in ChainOf[tip] : Height[c] = Height[b]
    BY <1>4, <2>1
  <2>. QED  BY <1>1, <1>4, <2>2
<1>6. ASSUME NEW c \in R, NEW d \in ChainOf[tip], Height[d] < Height[c] PROVE d \in R
  <2>1. Height[d] \in 0..Height[c]
    BY <1>3, <1>4, <1>6
  <2>2. PICK e \in ChainOf[c] : Height[e] = Height[d]
    BY <1>1, <2>1, ChainsReachDown
  <2>3. e \in R
    BY <1>1, <2>2, ChainsReachDown
  <2>. QED  BY <1>1, <1>4, <2>2, <2>3
<1>7. IsLowPart(R, tip)
  BY <1>1, <1>2, <1>5, <1>6 DEF IsLowPart
<1>. QED  BY <1>1, <1>2, <1>7 DEF tip

LEMMA NoBatch == ASSUME NEW t PROVE indexBlocks(t, {}) = t
<1>. DEFINE h == [s \in SUBSET {} |-> t]
<1>1. \A s \in SUBSET {} : s = {}
  OBVIOUS
<1>2. IndexesBatch(h, t, {})
  BY <1>1 DEF IndexesBatch
<1>. HIDE DEF h
<1>3. IndexesBatch(BatchIndex(t, {}), t, {})
  BY <1>2 DEF BatchIndex
<1>. DEFINE g == BatchIndex(t, {})
<1>. HIDE DEF g
<1>4. g[{}] = t
  BY <1>1, <1>3 DEF IndexesBatch, g
<1>. QED  BY <1>4, BatchIsIndexed DEF g

(* What appendBlocks, truncate and rebuild do with the index of rooted rows. *)
IsIndexOf(t, R) == t = TablesOf(Places(R)) /\ Rooted(R)

LEMMA NothingStored == IsIndexOf(NoTables, {})
  BY NothingIsIndexed DEF IsIndexOf, Rooted, Places

LEMMA AppendIndexes ==
    ASSUME NEW t, NEW R, IsIndexOf(t, R), NEW B, Linked(R \cup B), R \cap B = {},
           \A b \in B : Height[b] = 0 \/ Parent[b] \in R \cup B
    PROVE  IsIndexOf(indexBlocks(t, B), R \cup B)
<1>1. Rooted(R) /\ Rooted(R \cup B) /\ t = TablesOf(Places(R))
  BY DEF IsIndexOf, Rooted
<1>2. CASE R \cup B = {}
  <2>1. B = {} /\ R \cup B = R
    BY <1>2
  <2>. QED  BY <2>1, NoBatch
<1>3. CASE R \cup B # {}
  <2>. DEFINE A == R \cup B
              tip == localTip(A)
  <2>1. R \subseteq A /\ A \subseteq A
    OBVIOUS
  <2>. HIDE DEF A
  <2>2. Linked(A) /\ Rooted(A) /\ A # {}
    BY <1>1, <1>3 DEF A
  <2>3. IsLowPart(R, tip)
    BY <1>1, <2>1, <2>2, RootedRowsAreLow
  <2>4. IsLowPart(A, tip)
    BY <2>1, <2>2, RootedRowsAreLow
  <2>. HIDE DEF tip
  <2>5. indexBlocks(t, B) = TablesOf(Places(R \cup B))
    BY <1>1, <2>3, <2>4, BatchIndexGrows DEF A
  <2>. QED  BY <1>1, <2>5 DEF IsIndexOf
<1>. QED  BY <1>2, <1>3

LEMMA LowRowsArePrefix ==
    ASSUME NEW R, NEW b, IsLowPart(R, b)
    PROVE  IsInitial(Places(R), b)
<1>1. /\ b \in Blocks /\ R \subseteq ChainOf[b] /\ Places(R) \subseteq Places(ChainOf[b])
  BY DEF IsLowPart, Places
<1>2. ASSUME NEW p \in Places(R), NEW q \in Places(ChainOf[b]), Precedes(q, p)
      PROVE  q \in Places(R)
  <2>1. PICK c \in R : p \in PlacesIn(c)
    BY DEF Places
  <2>2. PICK d \in ChainOf[b] : q \in PlacesIn(d)
    BY DEF Places
  <2>3. p[1] = c /\ q[1] = d
    BY <2>1, <2>2 DEF PlacesIn
  <2>4. d \in R
    BY <1>2, <2>3 DEF IsLowPart, Precedes, HeightAt
  <2>. QED  BY <2>2, <2>4 DEF Places
<1>. QED  BY <1>1, <1>2 DEF IsInitial, IsPart

LEMMA TruncateIndexes ==
    ASSUME NEW t, NEW R, IsIndexOf(t, R), Linked(R), NEW h \in Nat
    PROVE  IsIndexOf(IF localHeight(R) > h THEN truncateTables(t, h) ELSE t, truncateRows(R, h))
<1>. DEFINE K == truncateRows(R, h)
<1>1. t = TablesOf(Places(R)) /\ Rooted(R) /\ R \subseteq Blocks
  BY DEF IsIndexOf, Linked
<1>2. \A b \in R : Height[b] \in Nat /\ Height[b] <= localHeight(R)
  BY <1>1, LocalHeightBounds, ChainStoreAssumption
<1>3. K \subseteq R /\ \A b \in R : b \in K <=> Height[b] <= h
  BY DEF truncateRows
<1>. HIDE DEF K
<1>4. Rooted(K)
  <2>. SUFFICES ASSUME NEW b \in K, Height[b] # 0 PROVE Parent[b] \in K
    BY DEF Rooted
  <2>1. b \in Blocks /\ Parent[b] \in R /\ Height[b] \in Nat
    BY <1>1, <1>2, <1>3 DEF Rooted
  <2>2. Height[Parent[b]] = Height[b] - 1
    BY <2>1, ChainStoreAssumption
  <2>3. Height[Parent[b]] <= h
    BY <1>3, <2>1, <2>2
  <2>. QED  BY <1>3, <2>1, <2>3
<1>5. CASE localHeight(R) > h
  <2>1. R # {}
    BY <1>5 DEF localHeight
  <2>2. IsLowPart(R, localTip(R))
    BY <1>1, <2>1, RootedRowsAreLow
  <2>3. truncateTables(t, h) = TablesOf(KeptPlaces(Places(R), h))
    BY <1>1, <2>2, LowRowsArePrefix, TruncationForgets
  <2>4. KeptPlaces(Places(R), h) = Places(K)
    <3>1. \A b : \A p \in PlacesIn(b) : HeightAt(p) = Height[b]
      BY DEF PlacesIn, HeightAt
    <3>. QED  BY <1>3, <3>1 DEF KeptPlaces, Places
  <2>. QED  BY <1>4, <1>5, <2>3, <2>4 DEF IsIndexOf, K
<1>6. CASE ~ (localHeight(R) > h)
  <2>1. \A b \in R : Height[b] <= h
    <3>1. localHeight(R) \in Nat \cup {-1}
      BY LocalHeightBounds
    <3>. QED  BY <1>2, <1>6, <3>1
  <2>2. K = R
    BY <1>3, <2>1
  <2>. QED  BY <1>6, <2>2 DEF K
<1>. QED  BY <1>5, <1>6

-----------------------------------------------------------------------------
(* What the views of an index show *)

TransactionsAt(X) == {TxAt(p) : p \in X}

LEMMA StoredAre ==
    ASSUME segments = << >>
    PROVE  /\ StoredChain = rows
           /\ StoredTransactions = TransactionsAt(Places(rows))
<1>1. StoredChain = rows
  BY DEF StoredChain
<1>2. StoredTransactions = UNION {Range(Transactions[b]) : b \in rows}
  BY <1>1 DEF StoredTransactions
<1>3. ASSUME NEW b \in rows, NEW tx \in Range(Transactions[b]) PROVE tx \in TransactionsAt(Places(rows))
  <2>1. PICK i \in DOMAIN Transactions[b] : tx = Transactions[b][i]
    BY DEF Range
  <2>. DEFINE p == <<b, i>>
  <2>2. p \in PlacesIn(b) /\ TxAt(p) = tx
    BY <2>1 DEF PlacesIn, TxAt
  <2>. HIDE DEF p
  <2>. QED  BY <2>2 DEF TransactionsAt, Places
<1>4. ASSUME NEW p \in Places(rows) PROVE \E b \in rows : TxAt(p) \in Range(Transactions[b])
  <2>1. PICK b \in rows : p \in PlacesIn(b)
    BY DEF Places
  <2>2. PICK i \in DOMAIN Transactions[b] : p = <<b, i>>
    BY <2>1 DEF PlacesIn
  <2>3. TxAt(p) = Transactions[b][i]
    BY <2>2 DEF TxAt
  <2>. QED  BY <2>3 DEF Range
<1>. QED  BY <1>1, <1>2, <1>3, <1>4 DEF TransactionsAt

(* The ledger's unspent outputs, by place. *)
LEMMA UnspentAre ==
    ASSUME NEW b, NEW X, IsPart(X, b), NEW A
    PROVE  UnspentOf(TransactionsAt(X), A)
             = {o \in MadeIn(X) : ~IsSpentIn(X, o) /\ AddressIn(X, o) \in A}
<1>1. b \in Blocks /\ X \in SUBSET Places(ChainOf[b])
  BY DEF IsPart
<1>2. UNION {OutpointsOf(tx) : tx \in TransactionsAt(X)} = MadeIn(X)
  BY DEF TransactionsAt, MadeIn
<1>3. \A o : (\A tx \in TransactionsAt(X) : o \notin SpentBy(tx)) <=> ~IsSpentIn(X, o)
  BY DEF TransactionsAt, IsSpentIn
<1>4. ASSUME NEW o \in MadeIn(X)
      PROVE  (\E tx \in TransactionsAt(X) : tx.id = o[1] /\ tx.outputs[o[2]].address \in A)
                 <=> AddressIn(X, o) \in A
  <2>1. PICK p \in X : o \in OutpointsOf(TxAt(p))
    BY DEF MadeIn
  <2>2. o[1] = TxAt(p).id
    BY <2>1 DEF OutpointsOf
  <2>3. AddressIn(X, o) = TxAt(p).outputs[o[2]].address
    BY <1>1, <2>1, Belongs DEF AddressIn, AddressAt
  <2>4. \A q \in X : TxAt(q).id = o[1] => q = p
    BY <1>1, <2>2, ChainIsSound
  <2>. QED  BY <2>2, <2>3, <2>4 DEF TransactionsAt
<1>. QED  BY <1>2, <1>3, <1>4 DEF UnspentOf

(* A row is marked spent exactly when a transaction spends it. *)
LEMMA SpentMarks ==
    ASSUME NEW b, NEW X, IsPart(X, b), NEW o
    PROVE  Spender(X, o) = Nobody <=> ~IsSpentIn(X, o)
<1>1. CASE ~IsSpentIn(X, o)
  BY <1>1 DEF Spender
<1>2. CASE IsSpentIn(X, o)
  <2>1. PICK p \in X : o \in SpentBy(TxAt(p))
    BY <1>2 DEF IsSpentIn
  <2>2. p \in Places(ChainOf[b]) /\ X \in SUBSET Places(ChainOf[b]) /\ b \in Blocks
    BY DEF IsPart
  <2>3. Spender(X, o) = TxAt(p).id /\ TxAt(p).id # Nobody
    BY <2>1, <2>2, Belongs, PlaceIs
  <2>. QED  BY <1>2, <2>3
<1>. QED  BY <1>1, <1>2

LEMMA OwnViewIs ==
    ASSUME NEW b, NEW X, IsPart(X, b), NEW a
    PROVE  addressUnspent(TablesOf(X), a)
             = {o \in OwnMadeIn(X) : ~IsSpentIn(X, o) /\ AddressIn(X, o) = a}
<1>. DEFINE T == TablesOf(X)
<1>1. T.ownOutputs = RowsOver(X, OwnMadeIn(X))
  BY FieldsOf
<1>. HIDE DEF T
<1>2. DOMAIN T.ownOutputs = OwnMadeIn(X)
  BY <1>1 DEF RowsOver
<1>3. \A o \in OwnMadeIn(X) : /\ T.ownOutputs[o].spent = Spender(X, o)
                              /\ T.ownOutputs[o].address = AddressIn(X, o)
  BY <1>1 DEF RowsOver, RowIn, RowAt, AddressIn
<1>4. \A o : Spender(X, o) = Nobody <=> ~IsSpentIn(X, o)
  BY SpentMarks
<1>5. addressUnspent(T, a) = {o \in OwnMadeIn(X) : ~IsSpentIn(X, o) /\ AddressIn(X, o) = a}
  BY <1>2, <1>3, <1>4 DEF addressUnspent
<1>. QED  BY <1>5 DEF T

LEMMA ForeignViewIs ==
    ASSUME NEW b, NEW X, IsPart(X, b), NEW a
    PROVE  foreignUnspent(TablesOf(X), << >>, a)
             = {o \in MadeIn(X) : ~IsSpentIn(X, o) /\ AddressIn(X, o) = a}
<1>. DEFINE T == TablesOf(X)
<1>1. /\ T.outputs = RowsOver(X, MadeIn(X))
      /\ T.inputs = UNION {InputsOf(p) : p \in X}
  BY FieldsOf
<1>. HIDE DEF T
<1>2. DOMAIN T.outputs = MadeIn(X)
  BY <1>1 DEF RowsOver
<1>3. \A o \in MadeIn(X) : /\ T.outputs[o].spent = Spender(X, o)
                           /\ T.outputs[o].address = AddressIn(X, o)
  BY <1>1 DEF RowsOver, RowIn, RowAt, AddressIn
<1>4. \A o : Spender(X, o) = Nobody <=> ~IsSpentIn(X, o)
  BY SpentMarks
<1>5. allParts(T, << >>) = {T}
  BY DEF allParts
<1>. DEFINE refs == spentRefsFor({T}, a)
<1>6. \A o \in refs : IsSpentIn(X, o)
  <2>1. \A p \in X : \A i \in InputsOf(p) : i[2] \in SpentBy(TxAt(p))
    BY DEF InputsOf
  <2>2. \A i \in T.inputs : IsSpentIn(X, i[2])
    BY <1>1, <2>1 DEF IsSpentIn
  <2>. QED  BY <2>2 DEF spentRefsFor
<1>. HIDE DEF refs
<1>7. foreignUnspent(T, << >>, a)
        = {o \in DOMAIN T.outputs : /\ T.outputs[o].address = a
                                    /\ T.outputs[o].spent = Nobody /\ o \notin refs}
  BY <1>5 DEF foreignUnspent, refs
<1>8. foreignUnspent(T, << >>, a) = {o \in MadeIn(X) : ~IsSpentIn(X, o) /\ AddressIn(X, o) = a}
  BY <1>2, <1>3, <1>4, <1>6, <1>7
<1>. QED  BY <1>8 DEF T

(* A mined output is spendable when it is mature, another one at once. *)
LEMMA MaturityIs ==
    ASSUME segments = << >>, NEW b, IsPart(Places(rows), b), NEW h \in Nat,
           NEW o, o \in MadeIn(Places(rows))
    PROVE  o \in MatureAt(h) <=> MatureHeight(Maker(Places(rows), o)) <= h
<1>. DEFINE X == Places(rows)
<1>1. b \in Blocks /\ X \in SUBSET Places(ChainOf[b])
  BY DEF IsPart
<1>2. PICK p \in X : o \in OutpointsOf(TxAt(p))
  BY DEF MadeIn
<1>3. Maker(X, o) = p /\ o[1] = TxAt(p).id
  <2>1. o[1] = TxAt(p).id
    BY <1>2 DEF OutpointsOf
  <2>. HIDE DEF X
  <2>2. Maker(X, o) = p
    BY <1>1, <1>2, Belongs
  <2>. QED  BY <2>1, <2>2
<1>4. StoredChain = rows /\ StoredTransactions = TransactionsAt(X)
  BY StoredAre
<1>5. o \in UNION {OutpointsOf(tx) : tx \in StoredTransactions}
  BY <1>2, <1>4 DEF TransactionsAt
<1>6. PICK c \in rows : p \in PlacesIn(c)
  BY DEF Places
<1>7. p[1] = c /\ HeightAt(p) = Height[c] /\ TxAt(p) \in Range(Transactions[c])
  BY <1>6 DEF PlacesIn, HeightAt, TxAt, Range
<1>8. ASSUME NEW d \in rows, NEW tx \in Range(Transactions[d]), tx.id = o[1]
      PROVE  tx = TxAt(p) /\ Height[d] = HeightAt(p)
  <2>1. PICK i \in DOMAIN Transactions[d] : tx = Transactions[d][i]
    BY DEF Range
  <2>. DEFINE q == <<d, i>>
  <2>2. q \in X /\ TxAt(q) = tx /\ q[1] = d
    BY <2>1 DEF Places, PlacesIn, TxAt
  <2>. HIDE DEF q
  <2>3. q = p
    BY <1>1, <1>3, <1>8, <2>2, ChainIsSound
  <2>. QED  BY <2>2, <2>3 DEF HeightAt
<1>. HIDE DEF X
<1>9. o \in MatureAt(h) <=> (TxAt(p).type = "mining" => HeightAt(p) + Maturity <= h)
  <2>1. ASSUME o \in MatureAt(h), TxAt(p).type = "mining" PROVE HeightAt(p) + Maturity <= h
    BY <1>3, <1>4, <1>6, <1>7, <2>1 DEF MatureAt
  <2>2. ASSUME TxAt(p).type = "mining" => HeightAt(p) + Maturity <= h PROVE o \in MatureAt(h)
    <3>1. \A d \in rows : \A tx \in Range(Transactions[d]) :
             tx.id = o[1] /\ tx.type = "mining" => Height[d] + Maturity <= h
      BY <1>8, <2>2
    <3>. QED  BY <1>4, <1>5, <3>1 DEF MatureAt
  <2>. QED  BY <2>1, <2>2
<1>. QED  BY <1>3, <1>9 DEF MatureHeight, X

LEMMA SpendableIsMature ==
    ASSUME segments = << >>, NEW b, IsPart(Places(rows), b), NEW h \in Nat, NEW a,
           tables = TablesOf(Places(rows))
    PROVE  /\ addressUtxos(tables, a, h) \subseteq MatureAt(h)
           /\ addressImmature(tables, a, h) \cap MatureAt(h) = {}
<1>. DEFINE X == Places(rows)
<1>1. tables.ownOutputs = RowsOver(X, OwnMadeIn(X))
  BY FieldsOf
<1>2. ASSUME NEW o \in addressUnspent(tables, a)
      PROVE  o \in MadeIn(X) /\ tables.ownOutputs[o].mature = MatureHeight(Maker(X, o))
  <2>1. o \in DOMAIN tables.ownOutputs
    BY DEF addressUnspent
  <2>2. o \in OwnMadeIn(X)
    BY <1>1, <2>1 DEF RowsOver
  <2>. QED  BY <1>1, <2>2 DEF RowsOver, RowIn, RowAt, OwnMadeIn
<1>3. ASSUME NEW o \in MadeIn(X)
      PROVE  /\ o \in MatureAt(h) <=> MatureHeight(Maker(X, o)) <= h
             /\ MatureHeight(Maker(X, o)) \in Nat
  <2>1. PICK p \in X : o \in OutpointsOf(TxAt(p))
    BY DEF MadeIn
  <2>2. b \in Blocks /\ X \in SUBSET Places(ChainOf[b]) /\ p \in Places(ChainOf[b])
    BY DEF IsPart
  <2>3. Maker(X, o) = p /\ HeightAt(p) \in Nat
    BY <2>1, <2>2, Belongs, PlaceIs
  <2>4. MatureHeight(p) \in Nat
    BY <2>3, TransactionsAssumption DEF MatureHeight
  <2>5. o \in MatureAt(h) <=> MatureHeight(Maker(X, o)) <= h
    BY MaturityIs
  <2>. QED  BY <2>3, <2>4, <2>5
<1>. HIDE DEF X
<1>4. ASSUME NEW o \in addressUtxos(tables, a, h) PROVE o \in MatureAt(h)
  <2>1. o \in addressUnspent(tables, a) /\ tables.ownOutputs[o].mature <= h
    BY DEF addressUtxos
  <2>. QED  BY <1>2, <1>3, <2>1
<1>5. ASSUME NEW o \in addressImmature(tables, a, h) PROVE o \notin MatureAt(h)
  <2>1. o \in addressUnspent(tables, a) /\ tables.ownOutputs[o].mature > h
    BY DEF addressImmature
  <2>. QED  BY <1>2, <1>3, <2>1
<1>. QED  BY <1>4, <1>5

LEMMA IndexShowsRows ==
    ASSUME Linked(rows), IsIndexOf(tables, rows), segments = << >>, chainHeight \in Nat
    PROVE  ViewsFollowRows
<1>. DEFINE X == Places(rows)
<1>1. tables = TablesOf(X) /\ Rooted(rows) /\ rows \subseteq Blocks
  BY DEF IsIndexOf, Linked
<1>2. tables = indexBlocks(NoTables, rows)
  <2>1. IsIndexOf(indexBlocks(NoTables, rows), {} \cup rows)
    <3>1. Linked({} \cup rows) /\ {} \cap rows = {}
      OBVIOUS
    <3>2. \A b \in rows : Height[b] = 0 \/ Parent[b] \in {} \cup rows
      BY <1>1 DEF Rooted
    <3>. QED  BY <3>1, <3>2, NothingStored, AppendIndexes
  <2>2. {} \cup rows = rows
    OBVIOUS
  <2>. QED  BY <1>1, <2>1, <2>2 DEF IsIndexOf
<1>3. StoredTransactions = TransactionsAt(X)
  BY StoredAre
<1>4. CASE rows = {}
  <2>1. X = {}
    BY <1>4 DEF Places
  <2>2. tables = NoTables
    BY <1>1, <2>1, NothingIsIndexed
  <2>3. DOMAIN tables.ownOutputs = {} /\ DOMAIN tables.outputs = {}
    BY <2>2 DEF NoTables
  <2>4. StoredTransactions = {}
    BY <1>3, <2>1 DEF TransactionsAt
  <2>5. OwnUnspentView = {} /\ OwnUnspentOf(StoredTransactions) = {} /\ Addresses = {}
    BY <2>3, <2>4 DEF OwnUnspentView, addressUnspent, OwnUnspentOf, UnspentOf, Addresses
  <2>6. \A a : /\ addressUtxos(tables, a, chainHeight) = {}
               /\ addressImmature(tables, a, chainHeight) = {}
    BY <2>3 DEF addressUtxos, addressImmature, addressUnspent
  <2>. QED  BY <1>2, <2>5, <2>6 DEF ViewsFollowRows
<1>5. CASE rows # {}
  <2>1. PICK b \in Blocks : IsPart(X, b)
    <3>1. localTip(rows) \in Blocks /\ IsLowPart(rows, localTip(rows))
      BY <1>1, <1>5, RootedRowsAreLow
    <3>. QED  BY <3>1, LowRowsArePrefix DEF IsInitial
  <2>. HIDE DEF X
  <2>2. OwnUnspentView = OwnUnspentOf(StoredTransactions)
    <3>1. OwnUnspentOf(StoredTransactions)
            = {o \in MadeIn(X) : ~IsSpentIn(X, o) /\ AddressIn(X, o) \in OwnAddresses}
      BY <1>3, <2>1, UnspentAre DEF OwnUnspentOf
    <3>2. \A a : addressUnspent(tables, a)
                   = {o \in OwnMadeIn(X) : ~IsSpentIn(X, o) /\ AddressIn(X, o) = a}
      BY <1>1, <2>1, OwnViewIs
    <3>. QED  BY <3>1, <3>2 DEF OwnUnspentView, OwnMadeIn
  <2>3. \A a : foreignUnspent(tables, segments, a) = UnspentOf(StoredTransactions, {a})
    <3>. SUFFICES ASSUME NEW a
                  PROVE  foreignUnspent(tables, segments, a) = UnspentOf(StoredTransactions, {a})
      OBVIOUS
    <3>1. UnspentOf(StoredTransactions, {a})
            = {o \in MadeIn(X) : ~IsSpentIn(X, o) /\ AddressIn(X, o) \in {a}}
      BY <1>3, <2>1, UnspentAre
    <3>2. foreignUnspent(tables, segments, a)
            = {o \in MadeIn(X) : ~IsSpentIn(X, o) /\ AddressIn(X, o) = a}
      BY <1>1, <2>1, ForeignViewIs
    <3>. QED  BY <3>1, <3>2
  <2>4. \A a : /\ addressUtxos(tables, a, chainHeight) \subseteq MatureAt(chainHeight)
               /\ addressImmature(tables, a, chainHeight) \cap MatureAt(chainHeight) = {}
    BY <1>1, <2>1, SpendableIsMature DEF X
  <2>. QED  BY <1>2, <2>2, <2>3, <2>4 DEF ViewsFollowRows
<1>. QED  BY <1>4, <1>5

-----------------------------------------------------------------------------
(* Rows above a sealed part *)

LEMMA EveryHeight == \A b \in Blocks : \A h \in 0..Height[b] : \E c \in ChainOf[b] : Height[c] = h
<1>1. Rooted(Blocks)
  BY ChainStoreAssumption DEF Rooted
<1>. QED  BY <1>1, ChainsReachDown

(* A block below a block of a chain is a block of that chain. *)
LEMMA ChainsNest ==
    ASSUME NEW b \in Blocks
    PROVE  b \in ChainOf[b] /\ \A c \in ChainOf[b] : ChainOf[c] \subseteq ChainOf[b]
<1>. DEFINE Nests(d) == \A c \in ChainOf[d] : ChainOf[c] \subseteq ChainOf[d]
            Good == {n \in Nat : \A d \in Blocks : Height[d] = n => Nests(d)}
<1>1. \A d \in Blocks : /\ Height[d] \in Nat
                        /\ ChainOf[d] = {d} \cup IF Parent[d] = NoBlock THEN {} ELSE ChainOf[Parent[d]]
  BY ChainStoreAssumption, WalletSyncAssumption
<1>2. 0 \in Good
  <2>. SUFFICES ASSUME NEW d \in Blocks, Height[d] = 0 PROVE Nests(d)
    OBVIOUS
  <2>1. ChainOf[d] = {d}
    BY <1>1, ChainStoreAssumption
  <2>. QED  BY <2>1
<1>3. ASSUME NEW n \in Nat, n \in Good PROVE n + 1 \in Good
  <2>. SUFFICES ASSUME NEW d \in Blocks, Height[d] = n + 1 PROVE Nests(d)
    OBVIOUS
  <2>1. Parent[d] \in Blocks /\ Parent[d] # NoBlock /\ Height[Parent[d]] = n
    <3>1. Height[d] > 0
      OBVIOUS
    <3>2. Parent[d] # NoBlock /\ Height[Parent[d]] = Height[d] - 1
      BY <3>1, ChainStoreAssumption
    <3>. QED  BY <3>2, ChainStoreAssumption
  <2>2. ChainOf[d] = {d} \cup ChainOf[Parent[d]]
    BY <1>1, <2>1
  <2>3. Nests(Parent[d])
    BY <1>3, <2>1
  <2>. QED  BY <2>2, <2>3
<1>4. \A n \in Nat : n \in Good
  <2>. HIDE DEF Good
  <2>. QED  BY <1>2, <1>3, NaturalInduction
<1>. QED  BY <1>1, <1>4

(* Linked rows are the part of their tip's chain that starts at their lowest height. *)
LEMMA LinkedRowsAreAPart ==
    ASSUME NEW R, Linked(R), R # {}
    PROVE  /\ localTip(R) \in R /\ R \subseteq ChainOf[localTip(R)]
           /\ \A low \in R : \A c \in ChainOf[localTip(R)] : Height[low] <= Height[c] => c \in R
<1>. DEFINE tip == localTip(R)
<1>1. R \subseteq Blocks /\ \A b, c \in R : Height[b] = Height[c] => b = c
  BY DEF Linked, OnePerHeight
<1>2. tip \in R /\ \A c \in R : Height[c] <= Height[tip]
  BY RowsHaveATip DEF Linked
<1>. HIDE DEF tip
<1>3. \A b \in Blocks : Height[b] \in Nat /\ ChainOf[b] \subseteq Blocks
  BY ChainStoreAssumption, WalletSyncAssumption
<1>4. ASSUME NEW low \in R
      PROVE  \A b \in R : \A c \in ChainOf[b] : Height[low] <= Height[c] => c \in R
  <2>. DEFINE Down(b) == \A c \in ChainOf[b] : Height[low] <= Height[c] => c \in R
              Good == {n \in Nat : \A b \in R : Height[b] = n => Down(b)}
  <2>1. ASSUME NEW b \in R, Height[b] <= Height[low] PROVE Down(b)
    <3>. SUFFICES ASSUME NEW c \in ChainOf[b], Height[low] <= Height[c] PROVE c = b
      OBVIOUS
    <3>1. Height[c] <= Height[b] /\ Height[c] \in Nat /\ Height[b] \in Nat /\ Height[low] \in Nat
      BY <1>1, <1>3, ChainsAreChains DEF OneChain
    <3>2. Height[c] = Height[b]
      BY <2>1, <3>1
    <3>3. b \in ChainOf[b]
      BY <1>1, ChainsNest
    <3>. QED  BY <1>1, <3>2, <3>3, ChainsAreChains DEF OneChain
  <2>2. ASSUME NEW b \in R, Height[b] > Height[low], Down(Parent[b]) PROVE Down(b)
    <3>1. b \in Blocks /\ Height[b] # 0
      BY <1>1, <1>3, <2>2
    <3>2. ChainOf[b] = {b} \cup ChainOf[Parent[b]]
      BY <3>1, ChainStoreAssumption, WalletSyncAssumption
    <3>. QED  BY <2>2, <3>2
  <2>3. ASSUME NEW b \in R, Height[b] > Height[low]
        PROVE  Parent[b] \in R /\ Height[Parent[b]] = Height[b] - 1
    <3>1. b \in Blocks /\ Height[b] > 0 /\ ~ \A c \in R : Height[b] <= Height[c]
      BY <1>1, <1>3, <2>3
    <3>. QED  BY <3>1, ChainStoreAssumption DEF Linked, chainLinkageHolds
  <2>4. 0 \in Good
    BY <1>1, <1>3, <2>1
  <2>5. ASSUME NEW n \in Nat, n \in Good PROVE n + 1 \in Good
    <3>. SUFFICES ASSUME NEW b \in R, Height[b] = n + 1 PROVE Down(b)
      OBVIOUS
    <3>1. CASE Height[b] <= Height[low]
      BY <2>1, <3>1
    <3>2. CASE ~ (Height[b] <= Height[low])
      <4>1. Height[b] > Height[low]
        BY <1>1, <1>3, <3>2
      <4>2. Parent[b] \in R /\ Height[Parent[b]] = n
        BY <2>3, <4>1
      <4>3. Down(Parent[b])
        BY <2>5, <4>2
      <4>. QED  BY <2>2, <4>1, <4>3
    <3>. QED  BY <3>1, <3>2
  <2>6. \A n \in Nat : n \in Good
    <3>. HIDE DEF Good
    <3>. QED  BY <2>4, <2>5, NaturalInduction
  <2>. QED  BY <1>1, <1>3, <2>6
<1>5. ASSUME NEW b \in R PROVE b \in ChainOf[tip]
  <2>1. Height[b] \in 0..Height[tip]
    BY <1>1, <1>2, <1>3
  <2>2. PICK c \in ChainOf[tip] : Height[c] = Height[b]
    BY <1>1, <1>2, <2>1, EveryHeight
  <2>3. c \in R
    <3>1. Height[b] <= Height[c]
      BY <2>1, <2>2
    <3>. QED  BY <1>2, <1>4, <3>1
  <2>. QED  BY <1>1, <2>2, <2>3
<1>. QED  BY <1>2, <1>4, <1>5 DEF tip

(* Rows that are linked down to a genesis block or into the sealed part below height s. *)
RootedAt(R, s) == \A b \in R : Height[b] < s \/ Height[b] = 0 \/ Parent[b] \in R

LEMMA RowsCoverFrom ==
    ASSUME NEW R, Linked(R), R # {}, NEW s \in Nat, RootedAt(R, s)
    PROVE  \A c \in ChainOf[localTip(R)] : s <= Height[c] => c \in R
<1>. DEFINE H == {Height[b] : b \in R}
<1>1. R \subseteq Blocks /\ \A b \in R : Height[b] \in Nat
  BY ChainStoreAssumption DEF Linked
<1>2. PICK m \in H : \A n \in H : m <= n
  <2>1. H \in SUBSET Nat /\ H # {}
    BY <1>1
  <2>. HIDE DEF H
  <2>. QED  BY <2>1, LeastMember
<1>3. PICK low \in R : Height[low] = m /\ \A b \in R : Height[low] <= Height[b]
  BY <1>2
<1>4. Height[low] <= s
  <2>1. CASE Height[low] < s \/ Height[low] = 0
    BY <1>1, <2>1
  <2>2. CASE Parent[low] \in R /\ Height[low] # 0
    <3>1. low \in Blocks /\ Height[low] > 0
      BY <1>1, <2>2
    <3>2. Height[Parent[low]] = Height[low] - 1
      BY <3>1, ChainStoreAssumption
    <3>. QED  BY <1>1, <1>3, <2>2, <3>2
  <2>. QED  BY <2>1, <2>2 DEF RootedAt
<1>5. \A c \in ChainOf[localTip(R)] : Height[c] \in Nat
  BY <1>1, LinkedRowsAreAPart, WalletSyncAssumption, ChainStoreAssumption
<1>6. ASSUME NEW c \in ChainOf[localTip(R)], s <= Height[c] PROVE c \in R
  <2>1. Height[low] <= Height[c]
    BY <1>1, <1>4, <1>5, <1>6
  <2>. QED  BY <2>1, LinkedRowsAreAPart
<1>. QED  BY <1>6

-----------------------------------------------------------------------------
(* Where the index finds a transaction *)

HeightsOf(X) == [t \in Ids(X) |-> HeightOfId(X, t)]
PairsOf(X) == {<<TxAt(p).id, HeightAt(p)>> : p \in X}

(* Every stored transaction has its height, and every own one either the same height or
   the height it has in a sealed part, whose pairs are P. *)
OwnAgrees(u, P) ==
    \A i \in DOMAIN u.ownTxs :
        \/ i \in DOMAIN u.transactions /\ u.transactions[i] = u.ownTxs[i]
        \/ <<i, u.ownTxs[i]>> \in P
HasFields(u) ==
    u = [transactions |-> u.transactions, outputs |-> u.outputs, inputs |-> u.inputs,
         addressTxs |-> u.addressTxs, ownTxs |-> u.ownTxs, ownOutputs |-> u.ownOutputs]
Faithful(u, X, P) == HasFields(u) /\ u.transactions = HeightsOf(X) /\ OwnAgrees(u, P)

LEMMA UpsertFinds ==
    ASSUME NEW u, NEW X, NEW P, NEW p, NEW b, IsPart(X \cup {p}, b), p \notin X, Faithful(u, X, P)
    PROVE  Faithful(upsertTxIndex(u, TxAt(p), HeightAt(p)), X \cup {p}, P)
<1>. DEFINE Y == X \cup {p}
            i == TxAt(p).id
            new == upsertTxIndex(u, TxAt(p), HeightAt(p))
<1>1. /\ b \in Blocks /\ X \in SUBSET Places(ChainOf[b]) /\ Y \in SUBSET Places(ChainOf[b])
      /\ p \in Y /\ p \in Places(ChainOf[b]) /\ \A q \in X : q \in Y /\ q # p
  BY DEF IsPart
<1>2. Ids(Y) = Ids(X) \cup {i}
  BY DEF Ids
<1>3. i \notin Ids(X)
  BY <1>1, ChainIsSound DEF Ids
<1>. HIDE DEF Y
<1>4. HeightOfId(Y, i) = HeightAt(p)
  BY <1>1, Belongs
<1>5. ASSUME NEW t \in Ids(X) PROVE HeightOfId(Y, t) = HeightOfId(X, t)
  <2>1. PICK q \in X : t = TxAt(q).id
    BY DEF Ids
  <2>. QED  BY <1>1, <2>1, Belongs
<1>6. /\ new.transactions = WithRow(u.transactions, i, HeightAt(p))
      /\ new.ownTxs = WithRow(u.ownTxs, i, HeightAt(p)) \/ new.ownTxs = u.ownTxs
  BY DEF upsertTxIndex
<1>12. HasFields(new)
  BY DEF upsertTxIndex, HasFields
<1>. HIDE DEF new, i
<1>7. u.transactions = HeightsOf(X) /\ OwnAgrees(u, P)
  BY DEF Faithful
<1>8. /\ DOMAIN new.transactions = Ids(Y)
      /\ \A t \in Ids(Y) : new.transactions[t] = HeightOfId(Y, t)
  BY <1>2, <1>3, <1>4, <1>5, <1>6, <1>7 DEF WithRow, HeightsOf
<1>9. new.transactions = HeightsOf(Y)
  BY <1>2, <1>3, <1>4, <1>5, <1>6, <1>7 DEF WithRow, HeightsOf
<1>10. ASSUME NEW t \in DOMAIN new.ownTxs
       PROVE  \/ t \in DOMAIN new.transactions /\ new.transactions[t] = new.ownTxs[t]
              \/ <<t, new.ownTxs[t]>> \in P
  <2>1. CASE t = i /\ new.ownTxs = WithRow(u.ownTxs, i, HeightAt(p))
    BY <1>2, <1>4, <1>8, <2>1 DEF WithRow
  <2>2. CASE ~ (t = i /\ new.ownTxs = WithRow(u.ownTxs, i, HeightAt(p)))
    <3>1. t \in DOMAIN u.ownTxs /\ new.ownTxs[t] = u.ownTxs[t]
      BY <1>6, <1>10, <2>2 DEF WithRow
    <3>2. CASE t \in DOMAIN u.transactions /\ u.transactions[t] = u.ownTxs[t]
      <4>1. t \in Ids(X) /\ u.transactions[t] = HeightOfId(X, t)
        BY <1>7, <3>2 DEF HeightsOf
      <4>. QED  BY <1>2, <1>5, <1>8, <3>1, <3>2, <4>1
    <3>3. CASE <<t, u.ownTxs[t]>> \in P
      BY <3>1, <3>3
    <3>. QED  BY <1>7, <3>1, <3>2, <3>3 DEF OwnAgrees
  <2>. QED  BY <2>1, <2>2
<1>11. Faithful(new, Y, P)
  BY <1>9, <1>10, <1>12 DEF Faithful, OwnAgrees
<1>. QED  BY <1>11 DEF new, Y

LEMMA BlockFinds ==
    ASSUME NEW u, NEW R, NEW P, NEW b, NEW c, b \in Blocks, c \notin R,
           R \cup {c} \subseteq ChainOf[b], Faithful(u, Places(R), P)
    PROVE  Faithful(indexBlock(u, c), Places(R \cup {c}), P)
<1>1. c \in Blocks /\ R \subseteq Blocks
  BY WalletSyncAssumption
<1>2. PICK n \in Nat : DOMAIN Transactions[c] = 1..n
  BY <1>1, LengthOfBlock
<1>. DEFINE Q == {k \in Nat : k <= n => Faithful(After(u, c, k), PartPlaces(R, c, k), P)}
<1>3. /\ After(u, c, 0) = u
      /\ \A k \in 1..n : After(u, c, k) = upsertTxIndex(After(u, c, k - 1), TxAt(<<c, k>>), Height[c])
      /\ indexBlock(u, c) = After(u, c, n)
  <2>1. After(u, c, 0) = u /\ UpsertsAll(u, c, n) /\ indexBlock(u, c) = After(u, c, n)
    BY <1>2, BlockIndexes
  <2>. QED  BY <2>1 DEF UpsertsAll
<1>4. PartPlaces(R, c, 0) = Places(R)
  BY DEF PartPlaces
<1>5. 0 \in Q
  BY <1>3, <1>4
<1>6. ASSUME NEW k \in Nat, k \in Q PROVE k + 1 \in Q
  <2>. SUFFICES ASSUME k + 1 <= n
                PROVE  Faithful(After(u, c, k + 1), PartPlaces(R, c, k + 1), P)
    OBVIOUS
  <2>. DEFINE X == PartPlaces(R, c, k)
              p == <<c, k + 1>>
  <2>1. k + 1 \in 1..n /\ k <= n /\ (k + 1) - 1 = k
    OBVIOUS
  <2>2. PartPlaces(R, c, k + 1) = X \cup {p}
    <3>1. 1..(k + 1) = (1..k) \cup {k + 1}
      OBVIOUS
    <3>. QED  BY <3>1 DEF PartPlaces
  <2>3. p \notin X
    <3>1. \A i \in 1..k : <<c, i>> # p
      OBVIOUS
    <3>2. \A d \in R : p \notin PlacesIn(d)
      BY DEF PlacesIn
    <3>. QED  BY <3>1, <3>2 DEF PartPlaces, Places
  <2>4. IsPart(X \cup {p}, b)
    <3>1. \A i \in 1..(k + 1) : i \in DOMAIN Transactions[c] /\ <<c, i>> \in PlacesIn(c)
      BY <1>2 DEF PlacesIn
    <3>2. PartPlaces(R, c, k + 1) \subseteq Places(ChainOf[b])
      BY <3>1 DEF PartPlaces, Places
    <3>. QED  BY <2>2, <3>2 DEF IsPart
  <2>5. Faithful(After(u, c, k), X, P)
    BY <1>6, <2>1
  <2>6. After(u, c, k + 1) = upsertTxIndex(After(u, c, k), TxAt(p), HeightAt(p))
    BY <1>3, <2>1 DEF HeightAt
  <2>. HIDE DEF X, p
  <2>. QED  BY <2>2, <2>3, <2>4, <2>5, <2>6, UpsertFinds
<1>7. n \in Q
  <2>. HIDE DEF Q
  <2>1. \A k \in Nat : k \in Q
    BY <1>5, <1>6, NaturalInduction
  <2>. QED  BY <2>1
<1>8. PartPlaces(R, c, n) = Places(R \cup {c})
  BY <1>2 DEF PartPlaces, Places, PlacesIn
<1>. QED  BY <1>3, <1>7, <1>8

LEMMA BatchFinds ==
    ASSUME NEW u, NEW R, NEW B, NEW P, NEW b, b \in Blocks, R \cap B = {},
           R \cup B \subseteq ChainOf[b], Faithful(u, Places(R), P)
    PROVE  Faithful(indexBlocks(u, B), Places(R \cup B), P)
<1>. DEFINE g == BatchIndex(u, B)
            Q == {s \in SUBSET B : Faithful(g[s], Places(R \cup s), P)}
<1>1. B \in SUBSET ChainOf[b] /\ IsFiniteSet(B)
  BY ChainsAreFinite, FS_Subset
<1>2. /\ g[{}] = u
      /\ \A s \in SUBSET B : s # {} => g[s] = indexBlock(g[s \ {localTip(s)}], localTip(s))
  BY <1>1, BatchIndexes
<1>. HIDE DEF g
<1>3. ASSUME NEW s \in SUBSET B, \A v \in SUBSET s : v # s => v \in Q PROVE s \in Q
  <2>1. CASE s = {}
    <3>1. R \cup s = R
      BY <2>1
    <3>. QED  BY <1>2, <2>1, <3>1
  <2>2. CASE s # {}
    <3>. DEFINE tip == localTip(s)
                v == s \ {tip}
    <3>1. tip \in s
      BY <1>1, <2>2, TipOfSome
    <3>2. g[s] = indexBlock(g[v], tip)
      BY <1>2, <2>2
    <3>. HIDE DEF tip
    <3>3. /\ v \in SUBSET s /\ v # s /\ tip \notin R \cup v /\ (R \cup v) \cup {tip} = R \cup s
          /\ (R \cup v) \cup {tip} \subseteq ChainOf[b]
      BY <3>1
    <3>4. Faithful(g[v], Places(R \cup v), P)
      BY <1>3, <3>3
    <3>. HIDE DEF v
    <3>5. Faithful(indexBlock(g[v], tip), Places((R \cup v) \cup {tip}), P)
      BY <3>3, <3>4, BlockFinds
    <3>. QED  BY <3>2, <3>3, <3>5
  <2>. QED  BY <2>1, <2>2
<1>4. B \in Q
  <2>. HIDE DEF Q
  <2>1. \A s \in SUBSET B : s \in Q
    BY <1>1, <1>3, SubsetInduction
  <2>. QED  BY <2>1
<1>5. indexBlocks(u, B) = g[B]
  BY BatchIsIndexed DEF g
<1>. QED  BY <1>4, <1>5

(* A roll-back, and the clearing below the anchor, forget what they should and no more. *)
LEMMA IdsOfRows ==
    ASSUME NEW R, NEW b, b \in Blocks, R \subseteq ChainOf[b], NEW K, K \subseteq R
    PROVE  /\ \A t \in Ids(Places(K)) : HeightOfId(Places(K), t) = HeightOfId(Places(R), t)
           /\ \A c \in R : \A p \in PlacesIn(c) :
                  /\ TxAt(p).id \in Ids(Places(R)) /\ HeightOfId(Places(R), TxAt(p).id) = Height[c]
                  /\ TxAt(p).id \in Ids(Places(K)) <=> c \in K
<1>. DEFINE X == Places(R)
            Y == Places(K)
<1>1. X \in SUBSET Places(ChainOf[b]) /\ Y \in SUBSET Places(ChainOf[b]) /\ Y \subseteq X
  BY DEF Places
<1>2. \A c : \A p \in PlacesIn(c) : p[1] = c /\ HeightAt(p) = Height[c]
  BY DEF PlacesIn, HeightAt
<1>3. \A c \in R : \A p \in PlacesIn(c) : p \in X /\ (p \in Y <=> c \in K)
  BY <1>2 DEF Places
<1>. HIDE DEF X, Y
<1>4. ASSUME NEW t \in Ids(Y) PROVE HeightOfId(Y, t) = HeightOfId(X, t)
  <2>1. PICK p \in Y : t = TxAt(p).id
    BY DEF Ids
  <2>. QED  BY <1>1, <2>1, Belongs
<1>5. ASSUME NEW c \in R, NEW p \in PlacesIn(c)
      PROVE  /\ TxAt(p).id \in Ids(X) /\ HeightOfId(X, TxAt(p).id) = Height[c]
             /\ TxAt(p).id \in Ids(Y) <=> c \in K
  <2>1. p \in X /\ (p \in Y <=> c \in K)
    BY <1>3
  <2>2. HeightOfId(X, TxAt(p).id) = Height[c]
    BY <1>1, <1>2, <2>1, Belongs
  <2>3. TxAt(p).id \in Ids(Y) <=> p \in Y
    BY <1>1, <2>1, ChainIsSound DEF Ids
  <2>. QED  BY <2>1, <2>2, <2>3 DEF Ids
<1>. QED  BY <1>4, <1>5 DEF X, Y

LEMMA IdsOfLinkedRows ==
    ASSUME NEW R, Linked(R), NEW K, K \subseteq R
    PROVE  /\ \A t \in Ids(Places(K)) : t \in Ids(Places(R)) /\ HeightOfId(Places(K), t) = HeightOfId(Places(R), t)
           /\ \A t \in Ids(Places(R)) :
                  \E c \in R : HeightOfId(Places(R), t) = Height[c] /\ (t \in Ids(Places(K)) <=> c \in K)
<1>1. \A t \in Ids(Places(K)) : t \in Ids(Places(R))
  BY DEF Ids, Places
<1>2. ASSUME NEW t \in Ids(Places(R))
      PROVE  \E c \in R : \E p \in PlacesIn(c) : t = TxAt(p).id
  BY DEF Ids, Places
<1>3. CASE R = {}
  <2>1. Ids(Places(R)) = {}
    BY <1>3 DEF Ids, Places
  <2>. QED  BY <1>1, <2>1
<1>4. CASE R # {}
  <2>1. R \subseteq ChainOf[localTip(R)] /\ localTip(R) \in Blocks
    BY <1>4, LinkedRowsAreAPart DEF Linked
  <2>2. \A t \in Ids(Places(K)) : HeightOfId(Places(K), t) = HeightOfId(Places(R), t)
    BY <2>1, IdsOfRows
  <2>3. \A c \in R : \A p \in PlacesIn(c) : /\ HeightOfId(Places(R), TxAt(p).id) = Height[c]
                                            /\ TxAt(p).id \in Ids(Places(K)) <=> c \in K
    BY <2>1, IdsOfRows
  <2>. QED  BY <1>1, <1>2, <2>2, <2>3
<1>. QED  BY <1>3, <1>4

LEMMA TruncationFinds ==
    ASSUME NEW R, Linked(R), NEW h \in Nat, NEW u, NEW P, Faithful(u, Places(R), P)
    PROVE  Faithful(truncateTables(u, h), Places(truncateRows(R, h)), P)
<1>. DEFINE K == truncateRows(R, h)
            victims == {t \in DOMAIN u.transactions : u.transactions[t] > h}
            new == truncateTables(u, h)
<1>1. K \subseteq R /\ \A c \in R : c \in K <=> Height[c] <= h
  BY DEF truncateRows
<1>. HIDE DEF K
<1>2. /\ DOMAIN u.transactions = Ids(Places(R))
      /\ \A t \in Ids(Places(R)) : u.transactions[t] = HeightOfId(Places(R), t)
      /\ OwnAgrees(u, P)
  BY DEF Faithful, HeightsOf
<1>3. ASSUME NEW t \in Ids(Places(R)) PROVE t \notin victims <=> t \in Ids(Places(K))
  <2>1. PICK c \in R : HeightOfId(Places(R), t) = Height[c] /\ (t \in Ids(Places(K)) <=> c \in K)
    BY <1>1, IdsOfLinkedRows
  <2>2. Height[c] \in Nat
    BY ChainStoreAssumption DEF Linked
  <2>. QED  BY <1>1, <1>2, <2>1, <2>2
<1>4. \A t \in Ids(Places(K)) : /\ t \in Ids(Places(R))
                                /\ HeightOfId(Places(K), t) = HeightOfId(Places(R), t)
  BY <1>1, IdsOfLinkedRows
<1>5. /\ HasFields(new)
      /\ new.transactions = KeepKeys(u.transactions, LAMBDA t : t \notin victims)
      /\ new.ownTxs = KeepKeys(u.ownTxs, LAMBDA t : t \notin victims)
  BY DEF truncateTables, HasFields
<1>. HIDE DEF new, victims
<1>6. {t \in Ids(Places(R)) : t \notin victims} = Ids(Places(K))
  BY <1>3, <1>4
<1>7. new.transactions = HeightsOf(Places(K))
  BY <1>2, <1>4, <1>5, <1>6 DEF KeepKeys, HeightsOf
<1>8. ASSUME NEW t \in DOMAIN new.ownTxs
      PROVE  \/ t \in DOMAIN new.transactions /\ new.transactions[t] = new.ownTxs[t]
             \/ <<t, new.ownTxs[t]>> \in P
  <2>1. t \in DOMAIN u.ownTxs /\ t \notin victims /\ new.ownTxs[t] = u.ownTxs[t]
    BY <1>5 DEF KeepKeys
  <2>2. CASE t \in DOMAIN u.transactions /\ u.transactions[t] = u.ownTxs[t]
    <3>1. t \in Ids(Places(K))
      BY <1>2, <1>3, <2>1, <2>2
    <3>. QED  BY <1>2, <1>4, <1>7, <2>1, <2>2, <3>1 DEF HeightsOf
  <2>. QED  BY <1>2, <2>1, <2>2 DEF OwnAgrees
<1>9. Faithful(new, Places(K), P)
  BY <1>5, <1>7, <1>8 DEF Faithful, OwnAgrees
<1>. QED  BY <1>9 DEF new, K

LEMMA ClearedFields ==
    ASSUME NEW u, NEW a, NEW b, NEW c, NEW d, NEW e, NEW f, NEW end,
           u = [transactions |-> a, outputs |-> b, inputs |-> c,
                addressTxs |-> d, ownTxs |-> e, ownOutputs |-> f]
    PROVE  /\ HasFields(clearedTables(u, end))
           /\ clearedTables(u, end).transactions = [t \in {k \in DOMAIN a : a[k] >= end} |-> a[t]]
           /\ clearedTables(u, end).ownTxs = e
<1>. DEFINE outs == KeepKeys(b, LAMBDA o : b[o].height >= end)
            txs == [t \in {k \in DOMAIN a : a[k] >= end} |-> a[t]]
            maps == {m \in d : m[3] >= end}
<1>1. clearedTables(u, end) = [u EXCEPT !.outputs = outs, !.transactions = txs, !.addressTxs = maps]
  BY DEF clearedTables, KeepKeys
<1>. HIDE DEF outs, txs, maps
<1>2. clearedTables(u, end) = [transactions |-> txs, outputs |-> outs, inputs |-> c,
                               addressTxs |-> maps, ownTxs |-> e, ownOutputs |-> f]
  BY <1>1
<1>3. HasFields(clearedTables(u, end)) /\ clearedTables(u, end).transactions = txs
      /\ clearedTables(u, end).ownTxs = e
  BY <1>2 DEF HasFields
<1>. QED  BY <1>3 DEF txs

(* After a seal: what is not in the file any more lies in the sealed chain. *)
LEMMA ClearingFinds ==
    ASSUME NEW R, Linked(R), R # {}, NEW u, NEW P, Faithful(u, Places(R), P),
           NEW Q, P \subseteq Q, PairsOf(Places(R)) \subseteq Q
    PROVE  Faithful(clearedTables(u, localHeight(R)), Places(clearedRows(R)), Q)
<1>. DEFINE K == clearedRows(R)
            end == localHeight(R)
            new == clearedTables(u, end)
<1>1. localTip(R) \in R /\ end = Height[localTip(R)]
  BY LinkedRowsAreAPart DEF localHeight
<1>2. K \subseteq R /\ \A c \in R : c \in K <=> Height[c] >= end
  <2>1. K = {localTip(R)}
    BY DEF clearedRows
  <2>2. \A c \in R : Height[c] <= end /\ Height[c] \in Nat
    BY LocalHeightBounds, ChainStoreAssumption DEF Linked
  <2>3. \A c \in R : Height[c] = end => c = localTip(R)
    BY <1>1 DEF Linked, OnePerHeight
  <2>. HIDE DEF K, end
  <2>4. ASSUME NEW c \in R, Height[c] >= end PROVE c \in K
    <3>1. Height[c] = end
      BY <1>1, <2>2, <2>4
    <3>. QED  BY <2>1, <2>3, <3>1
  <2>5. ASSUME NEW c \in K PROVE c \in R /\ Height[c] >= end
    BY <1>1, <2>1, <2>2
  <2>. QED  BY <2>4, <2>5
<1>. HIDE DEF K, end
<1>3. /\ DOMAIN u.transactions = Ids(Places(R))
      /\ \A t \in Ids(Places(R)) : u.transactions[t] = HeightOfId(Places(R), t)
      /\ OwnAgrees(u, P)
  BY DEF Faithful, HeightsOf
<1>4. {t \in DOMAIN u.transactions : u.transactions[t] >= end} = Ids(Places(K))
  <2>1. ASSUME NEW t \in Ids(Places(R)) PROVE u.transactions[t] >= end <=> t \in Ids(Places(K))
    <3>1. PICK c \in R : HeightOfId(Places(R), t) = Height[c] /\ (t \in Ids(Places(K)) <=> c \in K)
      BY <1>2, IdsOfLinkedRows
    <3>. QED  BY <1>2, <1>3, <3>1
  <2>2. Ids(Places(K)) \subseteq Ids(Places(R))
    BY <1>2, IdsOfLinkedRows
  <2>. QED  BY <1>3, <2>1, <2>2
<1>5. \A t \in Ids(Places(K)) : /\ t \in Ids(Places(R))
                                /\ HeightOfId(Places(K), t) = HeightOfId(Places(R), t)
  BY <1>2, IdsOfLinkedRows
<1>6. /\ HasFields(new)
      /\ new.transactions = [t \in {k \in DOMAIN u.transactions : u.transactions[k] >= end}
                                |-> u.transactions[t]]
      /\ new.ownTxs = u.ownTxs
  <2>1. HasFields(u)
    BY DEF Faithful
  <2>2. u = [transactions |-> u.transactions, outputs |-> u.outputs, inputs |-> u.inputs,
             addressTxs |-> u.addressTxs, ownTxs |-> u.ownTxs, ownOutputs |-> u.ownOutputs]
    BY <2>1 DEF HasFields
  <2>. QED  BY <2>2, ClearedFields
<1>. HIDE DEF new
<1>7. new.transactions = HeightsOf(Places(K))
  BY <1>3, <1>4, <1>5, <1>6 DEF HeightsOf
<1>8. ASSUME NEW t \in DOMAIN u.ownTxs PROVE <<t, u.ownTxs[t]>> \in Q
  <2>1. CASE t \in DOMAIN u.transactions /\ u.transactions[t] = u.ownTxs[t]
    <3>1. u.ownTxs[t] = HeightOfId(Places(R), t) /\ t \in Ids(Places(R))
      BY <1>3, <2>1
    <3>2. <<t, HeightOfId(Places(R), t)>> \in PairsOf(Places(R))
      <4>. DEFINE p == CHOOSE p \in Places(R) : TxAt(p).id = t
      <4>1. p \in Places(R) /\ TxAt(p).id = t /\ HeightOfId(Places(R), t) = HeightAt(p)
        BY <3>1 DEF Ids, HeightOfId
      <4>. HIDE DEF p
      <4>. QED  BY <4>1 DEF PairsOf
    <3>. QED  BY <3>1, <3>2
  <2>. QED  BY <1>3, <2>1 DEF OwnAgrees
<1>9. Faithful(new, Places(K), Q)
  BY <1>6, <1>7, <1>8 DEF Faithful, OwnAgrees
<1>. QED  BY <1>9 DEF new, K, end

LEMMA MorePairs ==
    ASSUME NEW u, NEW X, NEW P, NEW Q, P \subseteq Q, Faithful(u, X, P)
    PROVE  Faithful(u, X, Q)
  BY DEF Faithful, OwnAgrees

LEMMA NothingToFind == \A P : Faithful(NoTables, Places({}), P)
  BY DEF Faithful, HasFields, NoTables, HeightsOf, OwnAgrees, Ids, Places

-----------------------------------------------------------------------------
(* The sealed segments *)

SegmentIsSound(s, top) ==
    /\ s.endHash \in Blocks /\ s.endHash \in ChainOf[top] /\ s.end = Height[s.endHash]
    /\ s.rows \subseteq ChainOf[s.endHash]
    /\ \A c \in ChainOf[s.endHash] : s.start <= Height[c] => c \in s.rows
    /\ s.tables.transactions = HeightsOf(Places(s.rows))
IsList(s) == \E S : s \in Seq(S)
SegmentsAreSound(segs) ==
    IsList(segs) /\ \A k \in DOMAIN segs : SegmentIsSound(segs[k], Last(segs).endHash)
SealedPairs(segs) == IF segs = << >> THEN {} ELSE PairsOf(Places(ChainOf[Last(segs).endHash]))

LEMMA ListFacts ==
    ASSUME NEW s, IsList(s)
    PROVE  /\ Len(s) \in Nat /\ DOMAIN s = 1..Len(s)
           /\ s # << >> => Len(s) \in DOMAIN s /\ Last(s) = s[Len(s)]
<1>1. PICK S : s \in Seq(S)
  BY DEF IsList
<1>2. Len(s) \in Nat /\ DOMAIN s = 1..Len(s) /\ (s # << >> => Len(s) > 0)
  BY <1>1
<1>. QED  BY <1>2 DEF Last

LEMMA ListAppend ==
    ASSUME NEW s, IsList(s), NEW e
    PROVE  /\ IsList(Append(s, e)) /\ Append(s, e) # << >> /\ Last(Append(s, e)) = e
           /\ \A k \in DOMAIN Append(s, e) :
                  Append(s, e)[k] = e \/ (k \in DOMAIN s /\ Append(s, e)[k] = s[k])
<1>1. PICK S : s \in Seq(S)
  BY DEF IsList
<1>. DEFINE T == S \cup {e}
<1>2. s \in Seq(T) /\ e \in T
  BY <1>1, SeqMonotonic
<1>. HIDE DEF T
<1>3. /\ Append(s, e) \in Seq(T) /\ Len(Append(s, e)) = Len(s) + 1 /\ Len(s) \in Nat
      /\ DOMAIN s = 1..Len(s) /\ DOMAIN Append(s, e) = 1..(Len(s) + 1)
      /\ Append(s, e)[Len(s) + 1] = e
      /\ \A k \in 1..Len(s) : Append(s, e)[k] = s[k]
  BY <1>2
<1>. QED  BY <1>3 DEF IsList, Last

LEMMA SealStartBounds ==
    ASSUME NEW segs, SegmentsAreSound(segs)
    PROVE  /\ SealStart(segs) \in Nat
           /\ segs # << >> => /\ Last(segs).endHash \in Blocks
                              /\ SealStart(segs) = Height[Last(segs).endHash] + 1
<1>1. CASE segs = << >>
  BY <1>1 DEF SealStart
<1>2. CASE segs # << >>
  <2>1. Len(segs) \in DOMAIN segs /\ Last(segs) = segs[Len(segs)]
    BY <1>2, ListFacts DEF SegmentsAreSound
  <2>2. Last(segs).endHash \in Blocks /\ Last(segs).end = Height[Last(segs).endHash]
    BY <2>1 DEF SegmentsAreSound, SegmentIsSound
  <2>. QED  BY <1>2, <2>2, ChainStoreAssumption DEF SealStart
<1>. QED  BY <1>1, <1>2

(* Sealing rows that continue the sealed chain leaves sound segments, of a chain that has
   all that was sealed and all the rows. *)
LEMMA SealingIsSound ==
    ASSUME NEW segs, SegmentsAreSound(segs), NEW A, Linked(A), RootedAt(A, SealStart(segs)),
           CanSeal(A, segs), BoundaryMatches(A, segs), NEW u,
           Faithful(u, Places(A), SealedPairs(segs))
    PROVE  LET new == registerSegment(segs, A, u)
           IN  /\ SegmentsAreSound(new)
               /\ A # {} /\ SealStart(new) = localHeight(A) + 1
               /\ SealedPairs(segs) \subseteq SealedPairs(new)
               /\ PairsOf(Places(A)) \subseteq SealedPairs(new)
<1>. DEFINE start == SealStart(segs)
            tip == localTip(A)
            e == [start |-> start, end |-> localHeight(A), endHash |-> tip, rows |-> A, tables |-> u]
            new == Append(segs, e)
<1>1. start \in Nat /\ MinSealHeight \in Nat
  BY SealStartBounds, ChainStoreAssumption
<1>2. localHeight(A) >= start + 1
  BY DEF CanSeal
<1>3. A # {}
  BY <1>1, <1>2 DEF localHeight
<1>4. tip \in A /\ tip \in Blocks /\ A \subseteq ChainOf[tip] /\ localHeight(A) = Height[tip]
  BY <1>3, LinkedRowsAreAPart DEF Linked, localHeight
<1>5. \A c \in ChainOf[tip] : start <= Height[c] => c \in A
  BY <1>1, <1>3, RowsCoverFrom
<1>6. tip \in ChainOf[tip] /\ \A c \in ChainOf[tip] : ChainOf[c] \subseteq ChainOf[tip]
  BY <1>4, ChainsNest
<1>. HIDE DEF tip, start
<1>7. SegmentIsSound(e, tip)
  <2>1. u.transactions = HeightsOf(Places(A))
    BY DEF Faithful
  <2>. QED  BY <1>4, <1>5, <1>6, <2>1 DEF SegmentIsSound
<1>8. segs # << >> => Last(segs).endHash \in Blocks /\ Last(segs).endHash \in ChainOf[tip]
  <2>. SUFFICES ASSUME segs # << >>
                PROVE  Last(segs).endHash \in Blocks /\ Last(segs).endHash \in ChainOf[tip]
    OBVIOUS
  <2>1. Last(segs).endHash \in Blocks /\ start = Height[Last(segs).endHash] + 1
    BY SealStartBounds DEF start
  <2>2. start \in 0..Height[tip]
    BY <1>1, <1>2, <1>4, ChainStoreAssumption
  <2>3. PICK c \in ChainOf[tip] : Height[c] = start
    BY <1>4, <2>2, EveryHeight
  <2>4. c \in A /\ c \in Blocks
    <3>1. start <= Height[c]
      BY <1>1, <2>3
    <3>. QED  BY <1>5, <3>1 DEF Linked
  <2>5. Parent[c] = Last(segs).endHash
    BY <2>3, <2>4 DEF BoundaryMatches, blockAt, start
  <2>6. Parent[c] \in ChainOf[c]
    <3>1. Parent[c] \in Blocks /\ Parent[c] # NoBlock
      BY <2>1, <2>5, ChainStoreAssumption
    <3>2. ChainOf[c] = {c} \cup ChainOf[Parent[c]]
      BY <2>4, <3>1, WalletSyncAssumption
    <3>. QED  BY <3>1, <3>2, ChainsNest
  <2>. QED  BY <1>6, <2>1, <2>3, <2>5, <2>6
<1>9. ASSUME NEW s, segs # << >>, SegmentIsSound(s, Last(segs).endHash) PROVE SegmentIsSound(s, tip)
  <2>1. ChainOf[Last(segs).endHash] \subseteq ChainOf[tip]
    BY <1>6, <1>8, <1>9
  <2>. QED  BY <1>9, <2>1 DEF SegmentIsSound
<1>10. e.endHash = tip /\ e.end = localHeight(A)
  OBVIOUS
<1>. HIDE DEF e
<1>11. /\ IsList(new) /\ new # << >> /\ Last(new) = e
       /\ \A k \in DOMAIN new : new[k] = e \/ (k \in DOMAIN segs /\ new[k] = segs[k])
  BY ListAppend DEF SegmentsAreSound
<1>12. registerSegment(segs, A, u) = new
  BY DEF registerSegment, e, start, tip
<1>. HIDE DEF new
<1>13. SegmentsAreSound(new)
  <2>1. ASSUME NEW k \in DOMAIN new PROVE SegmentIsSound(new[k], tip)
    <3>1. CASE new[k] = e
      BY <1>7, <3>1
    <3>2. CASE k \in DOMAIN segs /\ new[k] = segs[k]
      <4>1. segs # << >>
        BY <3>2
      <4>2. SegmentIsSound(segs[k], Last(segs).endHash)
        BY <3>2 DEF SegmentsAreSound
      <4>. QED  BY <1>9, <3>2, <4>1, <4>2
    <3>. QED  BY <1>11, <3>1, <3>2
  <2>. QED  BY <1>10, <1>11, <2>1 DEF SegmentsAreSound
<1>14. SealStart(new) = localHeight(A) + 1
  BY <1>10, <1>11 DEF SealStart
<1>15. SealedPairs(new) = PairsOf(Places(ChainOf[tip]))
  BY <1>10, <1>11 DEF SealedPairs
<1>16. PairsOf(Places(A)) \subseteq SealedPairs(new)
  BY <1>4, <1>15 DEF PairsOf, Places
<1>17. SealedPairs(segs) \subseteq SealedPairs(new)
  <2>1. CASE segs = << >>
    BY <2>1 DEF SealedPairs
  <2>2. CASE segs # << >>
    <3>1. ChainOf[Last(segs).endHash] \subseteq ChainOf[tip]
      BY <1>6, <1>8, <2>2
    <3>. QED  BY <1>15, <2>2, <3>1 DEF SealedPairs, PairsOf, Places
  <2>. QED  BY <2>1, <2>2
<1>. QED  BY <1>3, <1>12, <1>13, <1>14, <1>16, <1>17

-----------------------------------------------------------------------------
(* The inductive invariant *)

PageOfOneChain == download.page = {} \/ \E b \in Blocks : download.page \subseteq ChainOf[b]
SyncInv == TypeOK /\ Linked(rows) /\ PageOfOneChain

Statuses == {"syncing", "synced", "error"}
Downloads == [at : {"idle", "asked", "answered", "asleep"}, target : Nat,
              local : Nat \cup {-1}, page : SUBSET Blocks]
Calls == [at : {"idle", "asked", "answered"}, height : Nat]

LEMMA InitSync == Init => SyncInv
<1>. SUFFICES ASSUME Init PROVE SyncInv
  OBVIOUS
<1>1. Linked({})
  BY DEF Linked, Bounded, OnePerHeight, chainLinkageHolds
<1>2. NoDownload \in Downloads /\ Idle \in Calls
  BY DEF NoDownload, Idle, Downloads, Calls
<1>3. TypeOK
  BY <1>2 DEF Init, TypeOK, Downloads, Calls
<1>. QED  BY <1>1, <1>3 DEF Init, SyncInv, PageOfOneChain, NoDownload

(* A page that a node answers is part of the chain below its best block. *)
LEMMA PagesLieOnOneChain ==
    ASSUME NEW tip \in Blocks, NEW start
    PROVE  /\ canonicalBlocks(tip, start) \subseteq ChainOf[tip]
           /\ canonicalBlocks(tip, start) \subseteq Blocks
  BY WalletSyncAssumption DEF canonicalBlocks

(* What a page that continues the rows leaves. *)
LEMMA AppendLinks ==
    ASSUME SyncInv, PageContinues
    PROVE  /\ Linked(AppendedRows)
           /\ localHeight(AppendedRows) \in Nat \cup {-1}
<1>1. PICK b \in download.page : TRUE
  BY DEF PageContinues
<1>2. PICK top \in Blocks : download.page \subseteq ChainOf[top]
  BY <1>1 DEF SyncInv, PageOfOneChain
<1>3. Linked(rows) /\ BatchAttaches(rows, download.page)
  BY DEF SyncInv, PageContinues
<1>4. Linked(AppendedRows)
  BY <1>2, <1>3, AppendedRowsLink DEF AppendedRows
<1>. QED  BY <1>4, LocalHeightBounds

(* A download that asks for its next page, or is over, has a type and no page. *)
LEMMA AskingIsTyped ==
    ASSUME NEW target \in Nat, NEW local \in Nat \cup {-1}, NextPage(target, local)
    PROVE  download' \in Downloads /\ download'.page = {}
  BY DEF NextPage, Downloads
LEMMA NoDownloadIsTyped == NoDownload \in Downloads /\ NoDownload.page = {}
  BY DEF NoDownload, Downloads
LEMMA DriftIsTyped ==
    ASSUME SyncInv, Drift
    PROVE  /\ download' \in Downloads /\ download'.page = {}
           /\ anchorFailures' \in Nat /\ syncStatus' \in Statuses
<1>. anchorFailures \in Nat /\ syncStatus \in Statuses /\ download \in Downloads
  BY DEF SyncInv, TypeOK, Downloads, Statuses
<1>1. CASE anchorFailures + 1 >= MaxFailures
  BY <1>1, NoDownloadIsTyped DEF Drift, failLocalChainSync, Statuses
<1>2. CASE ~ (anchorFailures + 1 >= MaxFailures)
  <2>1. download' = [download EXCEPT !.at = "asleep", !.page = {}] /\ syncStatus' = syncStatus
        /\ anchorFailures' = anchorFailures + 1
    BY <1>2 DEF Drift
  <2>2. download' \in Downloads /\ download'.page = {}
    BY <2>1 DEF Downloads
  <2>. QED  BY <2>1, <2>2
<1>. QED  BY <1>1, <1>2

(* Enough for the invariant to hold after a step. *)
LEMMA Afterwards ==
    ASSUME tips' \in [Nodes -> Blocks], Linked(rows)', isOpen' \in BOOLEAN, stopped' \in BOOLEAN,
           syncStatus' \in Statuses, chainHeight' \in Nat, anchorFailures' \in Nat,
           refresh' \in [Refreshes -> Calls], download' \in Downloads, PageOfOneChain'
    PROVE  SyncInv'
  BY DEF SyncInv, TypeOK, Linked, Statuses, Calls, Downloads

LEMMA Before ==
    ASSUME SyncInv
    PROVE  /\ tips \in [Nodes -> Blocks] /\ Linked(rows) /\ isOpen \in BOOLEAN
           /\ stopped \in BOOLEAN /\ syncStatus \in Statuses /\ chainHeight \in Nat
           /\ anchorFailures \in Nat /\ refresh \in [Refreshes -> Calls]
           /\ download \in Downloads /\ PageOfOneChain
  BY DEF SyncInv, TypeOK, Statuses, Calls, Downloads

LEMMA FreshCoreIsTyped ==
    ASSUME FreshCore
    PROVE  /\ isOpen' \in BOOLEAN /\ stopped' \in BOOLEAN /\ syncStatus' \in Statuses
           /\ chainHeight' \in Nat /\ anchorFailures' \in Nat
           /\ refresh' \in [Refreshes -> Calls] /\ download' \in Downloads /\ PageOfOneChain'
<1>1. isOpen' = chainLinkageHolds(rows') /\ chainLinkageHolds(rows') \in BOOLEAN
  BY DEF FreshCore, chainLinkageHolds
<1>2. syncStatus' \in Statuses
  BY DEF FreshCore, Statuses
<1>3. refresh' \in [Refreshes -> Calls]
  BY DEF FreshCore, Idle, Calls
<1>. QED  BY <1>1, <1>2, <1>3, NoDownloadIsTyped DEF FreshCore, PageOfOneChain

LEMMA NextSync == SyncInv /\ [Next]_vars => SyncInv'
<1>. SUFFICES ASSUME SyncInv, [Next]_vars PROVE SyncInv'
  OBVIOUS
<1>. USE Before
<1>1. ASSUME NEW n \in Nodes, NodeMoves(n) PROVE SyncInv'
  <2>1. tips' \in [Nodes -> Blocks]
    BY <1>1 DEF NodeMoves
  <2>2. Linked(rows)' /\ PageOfOneChain'
    BY <1>1 DEF NodeMoves, dbVars, coreVars, PageOfOneChain
  <2>. QED  BY <1>1, <2>1, <2>2, Afterwards DEF NodeMoves, dbVars, coreVars
<1>2. ASSUME NEW r \in Refreshes, Poll(r) PROVE SyncInv'
  <2>1. refresh' \in [Refreshes -> Calls]
    BY <1>2 DEF Poll, Calls
  <2>2. Linked(rows)' /\ PageOfOneChain'
    BY <1>2 DEF Poll, dbVars, PageOfOneChain
  <2>. QED  BY <1>2, <2>1, <2>2, Afterwards DEF Poll, dbVars
<1>3. ASSUME NEW r \in Refreshes, InfoFails(r) PROVE SyncInv'
  <2>1. refresh' \in [Refreshes -> Calls]
    BY <1>3 DEF InfoFails, Idle, Calls
  <2>2. Linked(rows)' /\ PageOfOneChain'
    BY <1>3 DEF InfoFails, dbVars, PageOfOneChain
  <2>. QED  BY <1>3, <2>1, <2>2, Afterwards DEF InfoFails, dbVars
<1>4. ASSUME NEW n \in Nodes, NEW r \in Refreshes, AnswerInfo(n, r) PROVE SyncInv'
  <2>1. Height[tips[n]] \in Nat
    BY ChainStoreAssumption
  <2>2. refresh' \in [Refreshes -> Calls]
    BY <1>4, <2>1 DEF AnswerInfo, Calls
  <2>3. Linked(rows)' /\ PageOfOneChain'
    BY <1>4 DEF AnswerInfo, dbVars, PageOfOneChain
  <2>. QED  BY <1>4, <2>2, <2>3, Afterwards DEF AnswerInfo, dbVars
<1>5. ASSUME NEW n \in Nodes, AnswerPage(n) PROVE SyncInv'
  <2>. DEFINE page == PageOf(n)
  <2>1. tips[n] \in Blocks /\ page \subseteq ChainOf[tips[n]] /\ page \subseteq Blocks
    BY PagesLieOnOneChain DEF PageOf
  <2>2. download' = [download EXCEPT !.at = "answered", !.page = page]
    BY <1>5 DEF AnswerPage
  <2>. HIDE DEF page
  <2>3. download' \in Downloads /\ download'.page = page
    BY <2>1, <2>2 DEF Downloads
  <2>4. PageOfOneChain'
    BY <2>1, <2>3 DEF PageOfOneChain
  <2>5. Linked(rows)'
    BY <1>5 DEF AnswerPage, dbVars
  <2>. QED  BY <1>5, <2>3, <2>4, <2>5, Afterwards DEF AnswerPage, dbVars
<1>6. ASSUME NEW r \in Refreshes, HandleInfo(r) PROVE SyncInv'
  <2>. DEFINE target == refresh[r].height
  <2>1. target \in Nat
    BY DEF Calls
  <2>2. refresh' \in [Refreshes -> Calls] /\ chainHeight' = target
    BY <1>6 DEF HandleInfo, Idle, Calls
  <2>3. /\ Linked(rows)' /\ syncStatus' \in Statuses /\ anchorFailures' \in Nat
        /\ download' \in Downloads /\ PageOfOneChain'
    <3>1. CASE ~isOpen \/ syncStatus = "error"
      BY <1>6, <3>1 DEF HandleInfo, PageOfOneChain
    <3>2. CASE isOpen /\ syncStatus # "error" /\ syncInFlight
      BY <1>6, <3>2 DEF HandleInfo, PageOfOneChain, Statuses
    <3>3. CASE isOpen /\ syncStatus # "error" /\ ~syncInFlight
      <4>1. StartDownload(target)
        BY <1>6, <3>3 DEF HandleInfo
      <4>. DEFINE kept == truncateRows(rows, target)
      <4>2. Linked(kept) /\ rows' = kept
        BY <2>1, <4>1, TruncatedRowsLink DEF StartDownload
      <4>3. localHeight(kept) \in Nat \cup {-1}
        BY <4>2, LocalHeightBounds
      <4>4. CASE localHeight(kept) < target
        <5>1. NextPage(target, localHeight(kept)) /\ anchorFailures' = anchorFailures
              /\ syncStatus' \in Statuses
          BY <4>1, <4>4 DEF StartDownload, Statuses
        <5>2. download' \in Downloads /\ download'.page = {}
          BY <2>1, <4>3, <5>1, AskingIsTyped
        <5>. QED  BY <4>2, <5>1, <5>2 DEF PageOfOneChain
      <4>5. CASE ~ (localHeight(kept) < target)
        <5>1. Finished
          BY <4>1, <4>5 DEF StartDownload
        <5>. QED  BY <4>2, <5>1, NoDownloadIsTyped DEF Finished, PageOfOneChain, Statuses
      <4>. QED  BY <4>4, <4>5
    <3>. QED  BY <3>1, <3>2, <3>3
  <2>. QED  BY <1>6, <2>1, <2>2, <2>3, Afterwards DEF HandleInfo
<1>7. ASSUME PageFails PROVE SyncInv'
  <2>1. Linked(rows)' /\ download' \in Downloads /\ PageOfOneChain'
    BY <1>7, NoDownloadIsTyped DEF PageFails, dbVars, PageOfOneChain
  <2>. QED  BY <1>7, <2>1, Afterwards DEF PageFails, dbVars
<1>8. ASSUME HandlePage PROVE SyncInv'
  <2>1. Linked(AppendedRows) /\ localHeight(AppendedRows) \in Nat \cup {-1}
    BY <1>8, AppendLinks DEF HandlePage
  <2>2. Linked(rows)'
    <3>1. CASE SealNothing
      BY <2>1, <3>1 DEF SealNothing
    <3>2. CASE SealSegment
      <4>1. localHeight(AppendedRows) >= 0
        BY <2>1, <3>2, ChainStoreAssumption DEF SealSegment, WillSeal, TriesToSeal, CanSeal
      <4>2. Linked(clearedRows(AppendedRows))
        BY <2>1, <4>1, AnchorLinks
      <4>. QED  BY <3>2, <4>2 DEF SealSegment
    <3>. QED  BY <1>8, <3>1, <3>2 DEF HandlePage
  <2>3. /\ download' \in Downloads /\ download'.page = {}
        /\ anchorFailures' \in Nat /\ syncStatus' \in Statuses
    <3>. DEFINE reached == localHeight(AppendedRows)
    <3>1. CASE reached < download.target
      <4>1. NextPage(download.target, reached) /\ anchorFailures' = 0 /\ syncStatus' = syncStatus
        BY <1>8, <3>1 DEF HandlePage
      <4>2. download.target \in Nat
        BY DEF Downloads
      <4>. QED  BY <2>1, <4>1, <4>2, AskingIsTyped
    <3>2. CASE ~ (reached < download.target)
      <4>1. Finished
        BY <1>8, <3>2 DEF HandlePage
      <4>. QED  BY <4>1, NoDownloadIsTyped DEF Finished, Statuses
    <3>. QED  BY <3>1, <3>2
  <2>4. PageOfOneChain'
    BY <2>3 DEF PageOfOneChain
  <2>. QED  BY <1>8, <2>2, <2>3, <2>4, Afterwards DEF HandlePage
<1>9. ASSUME HandleDrift PROVE SyncInv'
  <2>1. /\ download' \in Downloads /\ download'.page = {}
        /\ anchorFailures' \in Nat /\ syncStatus' \in Statuses
    BY <1>9, DriftIsTyped DEF HandleDrift
  <2>2. Linked(rows)' /\ PageOfOneChain'
    BY <1>9, <2>1 DEF HandleDrift, dbVars, PageOfOneChain
  <2>. QED  BY <1>9, <2>1, <2>2, Afterwards DEF HandleDrift, dbVars
<1>10. ASSUME HandleBadBoundary PROVE SyncInv'
  <2>1. Linked(rows)'
    BY <1>10, AppendLinks DEF HandleBadBoundary
  <2>2. /\ download' \in Downloads /\ download'.page = {}
        /\ anchorFailures' \in Nat /\ syncStatus' \in Statuses
    BY <1>10, DriftIsTyped DEF HandleBadBoundary
  <2>3. PageOfOneChain'
    BY <2>2 DEF PageOfOneChain
  <2>. QED  BY <1>10, <2>1, <2>2, <2>3, Afterwards DEF HandleBadBoundary
<1>11. ASSUME Wake PROVE SyncInv'
  <2>1. download' \in Downloads /\ download'.page = {}
    <3>1. CASE stopped
      BY <1>11, <3>1, NoDownloadIsTyped DEF Wake
    <3>2. CASE ~stopped
      <4>1. NextPage(download.target, download.local)
        BY <1>11, <3>2 DEF Wake
      <4>2. download.target \in Nat /\ download.local \in Nat \cup {-1}
        BY DEF Downloads
      <4>. QED  BY <4>1, <4>2, AskingIsTyped
    <3>. QED  BY <3>1, <3>2
  <2>2. Linked(rows)' /\ PageOfOneChain'
    BY <1>11, <2>1 DEF Wake, dbVars, PageOfOneChain
  <2>. QED  BY <1>11, <2>1, <2>2, Afterwards DEF Wake, dbVars
<1>12. ASSUME NEW r \in Refreshes, Resync(r) PROVE SyncInv'
  <2>1. Linked({})
    BY DEF Linked, Bounded, OnePerHeight, chainLinkageHolds
  <2>2. refresh' \in [Refreshes -> Calls] /\ syncStatus' \in Statuses
    BY <1>12 DEF Resync, Calls, Statuses
  <2>3. Linked(rows)' /\ PageOfOneChain'
    BY <1>12, <2>1 DEF Resync, PageOfOneChain
  <2>. QED  BY <1>12, <2>2, <2>3, Afterwards DEF Resync
<1>13. ASSUME Stop PROVE SyncInv'
  <2>1. Linked(rows)' /\ PageOfOneChain'
    BY <1>13 DEF Stop, PageOfOneChain
  <2>. QED  BY <1>13, <2>1, Afterwards DEF Stop
<1>14. ASSUME Restart PROVE SyncInv'
  <2>1. Linked(rows)' /\ tips' \in [Nodes -> Blocks]
    BY <1>14 DEF Restart
  <2>. QED  BY <1>14, <2>1, FreshCoreIsTyped, Afterwards DEF Restart
<1>15. ASSUME CrashWhileSealing PROVE SyncInv'
  <2>1. Linked(rows)' /\ tips' \in [Nodes -> Blocks]
    BY <1>15, AppendLinks DEF CrashWhileSealing
  <2>. QED  BY <1>15, <2>1, FreshCoreIsTyped, Afterwards DEF CrashWhileSealing
<1>16. ASSUME UNCHANGED vars PROVE SyncInv'
  <2>1. Linked(rows)' /\ PageOfOneChain'
    BY <1>16 DEF vars, dbVars, coreVars, PageOfOneChain
  <2>. QED  BY <1>16, <2>1, Afterwards DEF vars, dbVars, coreVars
<1>17. ASSUME RefusePage PROVE SyncInv'
  <2>1. Linked(rows)' /\ download' \in Downloads /\ PageOfOneChain'
    BY <1>17, NoDownloadIsTyped DEF RefusePage, dbVars, PageOfOneChain
  <2>. QED  BY <1>17, <2>1, Afterwards DEF RefusePage, dbVars
<1>. QED  BY <1>1, <1>2, <1>3, <1>4, <1>5, <1>6, <1>7, <1>8, <1>9, <1>10, <1>11, <1>12, <1>13,
             <1>14, <1>15, <1>16, <1>17 DEF Next, RefreshRuns, DownloadRuns

-----------------------------------------------------------------------------
(* The stored file and its segments *)

StoreIsSound(R, u, segs) ==
    /\ SegmentsAreSound(segs)
    /\ RootedAt(R, SealStart(segs))
    /\ Faithful(u, Places(R), SealedPairs(segs))
    /\ segs = << >> => IsIndexOf(u, R)
StoredInv == StoreIsSound(rows, tables, segments)

LEMMA NewStoreIsSound == StoreIsSound({}, NoTables, << >>)
<1>1. IsList(<< >>)
  <2>1. << >> \in Seq({})
    OBVIOUS
  <2>. QED  BY <2>1 DEF IsList
<1>2. SegmentsAreSound(<< >>)
  BY <1>1 DEF SegmentsAreSound
<1>3. RootedAt({}, SealStart(<< >>))
  BY DEF RootedAt
<1>. QED  BY <1>2, <1>3, NothingToFind, NothingStored DEF StoreIsSound

LEMMA AppendStores ==
    ASSUME SyncInv, StoredInv, PageContinues
    PROVE  StoreIsSound(AppendedRows, AppendedTables, segments)
<1>. DEFINE N == BatchOf(rows, download.page)
            A == rows \cup N
            s == SealStart(segments)
<1>1. Linked(A) /\ AppendedRows = A /\ AppendedTables = indexBlocks(tables, N)
  BY AppendLinks DEF AppendedRows, AppendedTables
<1>2. rows \cap N = {}
  <2>1. localHeight(rows) \in Nat \cup {-1} /\ \A b \in rows : Height[b] <= localHeight(rows)
    BY LocalHeightBounds DEF SyncInv
  <2>2. \A b \in N : Height[b] > localHeight(rows)
    BY DEF BatchOf
  <2>3. \A b \in rows : Height[b] \in Nat
    BY ChainStoreAssumption DEF SyncInv, Linked
  <2>. HIDE DEF N
  <2>4. ASSUME NEW b \in rows, b \in N PROVE FALSE
    BY <2>1, <2>2, <2>3, <2>4
  <2>. QED  BY <2>4
<1>3. \A b \in N : Height[b] = 0 \/ Parent[b] \in A
  BY DEF PageContinues, BatchAttaches
<1>4. /\ SegmentsAreSound(segments) /\ RootedAt(rows, s)
      /\ Faithful(tables, Places(rows), SealedPairs(segments))
      /\ segments = << >> => IsIndexOf(tables, rows)
  BY DEF StoredInv, StoreIsSound
<1>. HIDE DEF N, s
<1>5. RootedAt(A, s)
  BY <1>3, <1>4 DEF RootedAt
<1>6. Faithful(indexBlocks(tables, N), Places(A), SealedPairs(segments))
  <2>1. CASE A = {}
    <3>1. N = {} /\ A = rows
      BY <2>1
    <3>. QED  BY <1>4, <3>1, NoBatch
  <2>2. CASE A # {}
    <3>1. A \subseteq ChainOf[localTip(A)] /\ localTip(A) \in Blocks
      BY <1>1, <2>2, LinkedRowsAreAPart DEF Linked
    <3>. QED  BY <1>2, <1>4, <3>1, BatchFinds
  <2>. QED  BY <2>1, <2>2
<1>7. segments = << >> => IsIndexOf(indexBlocks(tables, N), A)
  BY <1>1, <1>2, <1>3, <1>4, AppendIndexes
<1>. QED  BY <1>1, <1>4, <1>5, <1>6, <1>7 DEF StoreIsSound, s

LEMMA TruncationStores ==
    ASSUME SyncInv, StoredInv, NEW h \in Nat
    PROVE  StoreIsSound(truncateRows(rows, h),
                        IF localHeight(rows) > h THEN truncateTables(tables, h) ELSE tables,
                        segments)
<1>. DEFINE K == truncateRows(rows, h)
            s == SealStart(segments)
            new == IF localHeight(rows) > h THEN truncateTables(tables, h) ELSE tables
<1>1. Linked(rows) /\ rows \subseteq Blocks
  BY DEF SyncInv, Linked
<1>2. /\ SegmentsAreSound(segments) /\ RootedAt(rows, s)
      /\ Faithful(tables, Places(rows), SealedPairs(segments))
      /\ segments = << >> => IsIndexOf(tables, rows)
  BY DEF StoredInv, StoreIsSound
<1>. HIDE DEF s
<1>3. \A b : b \in K <=> b \in rows /\ Height[b] <= h
  BY DEF truncateRows
<1>4. RootedAt(K, s)
  <2>. SUFFICES ASSUME NEW b \in K, Height[b] # 0, Parent[b] \in rows PROVE Parent[b] \in K
    BY <1>2, <1>3 DEF RootedAt
  <2>1. b \in Blocks /\ Height[b] \in Nat /\ Height[b] <= h
    BY <1>1, <1>3, ChainStoreAssumption
  <2>2. Height[Parent[b]] = Height[b] - 1
    BY <2>1, ChainStoreAssumption
  <2>3. Height[Parent[b]] <= h
    BY <2>1, <2>2
  <2>. QED  BY <1>3, <2>3
<1>5. Faithful(new, Places(K), SealedPairs(segments))
  <2>1. CASE localHeight(rows) > h
    BY <1>1, <1>2, <2>1, TruncationFinds
  <2>2. CASE ~ (localHeight(rows) > h)
    <3>1. localHeight(rows) \in Nat \cup {-1} /\ \A b \in rows : Height[b] <= localHeight(rows)
      BY <1>1, LocalHeightBounds
    <3>2. \A b \in rows : Height[b] <= h
      BY <1>1, <2>2, <3>1, ChainStoreAssumption
    <3>3. K = rows
      BY <1>3, <3>2
    <3>. QED  BY <1>2, <2>2, <3>3
  <2>. QED  BY <2>1, <2>2
<1>6. segments = << >> => IsIndexOf(new, K)
  BY <1>1, <1>2, TruncateIndexes
<1>. QED  BY <1>2, <1>4, <1>5, <1>6 DEF StoreIsSound, s

LEMMA SealStores ==
    ASSUME SyncInv, StoredInv, PageContinues, WillSeal
    PROVE  LET new == registerSegment(segments, AppendedRows, AppendedTables)
           IN  /\ StoreIsSound(AppendedRows, AppendedTables, new)
               /\ StoreIsSound(clearedRows(AppendedRows),
                               clearedTables(AppendedTables, localHeight(AppendedRows)), new)
<1>. DEFINE A == AppendedRows
            u == AppendedTables
            new == registerSegment(segments, A, u)
            end == localHeight(A)
            K == clearedRows(A)
<1>1. Linked(A)
  BY AppendLinks
<1>2. StoreIsSound(A, u, segments)
  BY AppendStores
<1>3. CanSeal(A, segments) /\ BoundaryMatches(A, segments)
  BY DEF WillSeal, TriesToSeal
<1>. HIDE DEF A, u
<1>4. /\ SegmentsAreSound(new) /\ A # {} /\ SealStart(new) = end + 1
      /\ SealedPairs(segments) \subseteq SealedPairs(new)
      /\ PairsOf(Places(A)) \subseteq SealedPairs(new)
  BY <1>1, <1>2, <1>3, SealingIsSound DEF StoreIsSound
<1>5. Faithful(u, Places(A), SealedPairs(segments))
  BY <1>2 DEF StoreIsSound
<1>6. new # << >>
  BY <1>2, ListAppend DEF registerSegment, StoreIsSound, SegmentsAreSound
<1>. HIDE DEF new
<1>7. RootedAt(A, end + 1) /\ RootedAt(K, end + 1)
  <2>1. A \subseteq Blocks /\ end \in Nat \cup {-1} /\ \A b \in A : Height[b] <= end
    BY <1>1, LocalHeightBounds DEF Linked
  <2>2. K \subseteq A
    BY <1>1, <1>4, LinkedRowsAreAPart DEF clearedRows
  <2>. HIDE DEF end, K
  <2>3. \A b \in A : Height[b] < end + 1
    BY <2>1, ChainStoreAssumption
  <2>. QED  BY <2>2, <2>3 DEF RootedAt
<1>8. Faithful(u, Places(A), SealedPairs(new))
  BY <1>4, <1>5, MorePairs
<1>9. Faithful(clearedTables(u, end), Places(K), SealedPairs(new))
  BY <1>1, <1>4, <1>5, ClearingFinds
<1>10. StoreIsSound(A, u, new) /\ StoreIsSound(K, clearedTables(u, end), new)
  BY <1>4, <1>6, <1>7, <1>8, <1>9 DEF StoreIsSound
<1>. QED  BY <1>10 DEF new, A, u

LEMMA NextStored == SyncInv /\ StoredInv /\ [Next]_vars => StoredInv'
<1>. SUFFICES ASSUME SyncInv, StoredInv, [Next]_vars PROVE StoredInv'
  OBVIOUS
<1>1. ASSUME rows' = rows, tables' = tables, segments' = segments PROVE StoredInv'
  BY <1>1 DEF StoredInv
<1>2. ASSUME NEW R, NEW u, NEW segs, StoreIsSound(R, u, segs),
             rows' = R, tables' = u, segments' = segs
      PROVE  StoredInv'
  BY <1>2 DEF StoredInv
<1>3. ASSUME NEW n \in Nodes, NodeMoves(n) PROVE StoredInv'
  BY <1>1, <1>3 DEF NodeMoves, dbVars
<1>4. ASSUME NEW r \in Refreshes, Poll(r) PROVE StoredInv'
  BY <1>1, <1>4 DEF Poll, dbVars
<1>5. ASSUME NEW r \in Refreshes, InfoFails(r) PROVE StoredInv'
  BY <1>1, <1>5 DEF InfoFails, dbVars
<1>6. ASSUME NEW n \in Nodes, NEW r \in Refreshes, AnswerInfo(n, r) PROVE StoredInv'
  BY <1>1, <1>6 DEF AnswerInfo, dbVars
<1>7. ASSUME NEW n \in Nodes, AnswerPage(n) PROVE StoredInv'
  BY <1>1, <1>7 DEF AnswerPage, dbVars
<1>8. ASSUME NEW r \in Refreshes, HandleInfo(r) PROVE StoredInv'
  <2>1. CASE UNCHANGED <<rows, tables>>
    BY <1>1, <1>8, <2>1 DEF HandleInfo
  <2>2. CASE StartDownload(refresh[r].height)
    <3>. DEFINE h == refresh[r].height
    <3>1. h \in Nat
      BY Before DEF Calls
    <3>2. /\ rows' = truncateRows(rows, h) /\ segments' = segments
          /\ tables' = IF localHeight(rows) > h THEN truncateTables(tables, h) ELSE tables
      BY <1>8, <2>2 DEF HandleInfo, StartDownload
    <3>. HIDE DEF h
    <3>. QED  BY <1>2, <3>1, <3>2, TruncationStores
  <2>. QED  BY <1>8, <2>1, <2>2 DEF HandleInfo
<1>9. ASSUME PageFails PROVE StoredInv'
  BY <1>1, <1>9 DEF PageFails, dbVars
<1>10. ASSUME HandlePage PROVE StoredInv'
  <2>1. PageContinues
    BY <1>10 DEF HandlePage
  <2>2. CASE SealNothing
    <3>1. rows' = AppendedRows /\ tables' = AppendedTables /\ segments' = segments
      BY <2>2 DEF SealNothing
    <3>2. StoreIsSound(AppendedRows, AppendedTables, segments)
      BY <2>1, AppendStores
    <3>. QED  BY <1>2, <3>1, <3>2
  <2>3. CASE SealSegment
    <3>1. /\ WillSeal /\ rows' = clearedRows(AppendedRows)
          /\ segments' = registerSegment(segments, AppendedRows, AppendedTables)
          /\ tables' = clearedTables(AppendedTables, localHeight(AppendedRows))
      BY <2>3 DEF SealSegment
    <3>2. StoreIsSound(clearedRows(AppendedRows),
                       clearedTables(AppendedTables, localHeight(AppendedRows)),
                       registerSegment(segments, AppendedRows, AppendedTables))
      BY <2>1, <3>1, SealStores
    <3>. QED  BY <1>2, <3>1, <3>2
  <2>. QED  BY <1>10, <2>2, <2>3 DEF HandlePage
<1>11. ASSUME HandleDrift PROVE StoredInv'
  BY <1>1, <1>11 DEF HandleDrift, dbVars
<1>12. ASSUME HandleBadBoundary PROVE StoredInv'
  <2>1. /\ PageContinues
        /\ rows' = AppendedRows /\ tables' = AppendedTables /\ segments' = segments
    BY <1>12 DEF HandleBadBoundary
  <2>2. StoreIsSound(AppendedRows, AppendedTables, segments)
    BY <2>1, AppendStores
  <2>. QED  BY <1>2, <2>1, <2>2
<1>13. ASSUME Wake PROVE StoredInv'
  BY <1>1, <1>13 DEF Wake, dbVars
<1>14. ASSUME NEW r \in Refreshes, Resync(r) PROVE StoredInv'
  BY <1>2, <1>14, NewStoreIsSound DEF Resync
<1>15. ASSUME Stop PROVE StoredInv'
  BY <1>1, <1>15 DEF Stop
<1>16. ASSUME Restart PROVE StoredInv'
  BY <1>1, <1>16 DEF Restart
<1>17. ASSUME CrashWhileSealing PROVE StoredInv'
  <2>1. /\ PageContinues /\ WillSeal
        /\ rows' = AppendedRows /\ tables' = AppendedTables
        /\ segments' = registerSegment(segments, AppendedRows, AppendedTables)
    BY <1>17 DEF CrashWhileSealing
  <2>2. StoreIsSound(AppendedRows, AppendedTables,
                     registerSegment(segments, AppendedRows, AppendedTables))
    BY <2>1, SealStores
  <2>. QED  BY <1>2, <2>1, <2>2
<1>18. ASSUME UNCHANGED vars PROVE StoredInv'
  BY <1>1, <1>18 DEF vars, dbVars
<1>19. ASSUME RefusePage PROVE StoredInv'
  BY <1>1, <1>19 DEF RefusePage, dbVars
<1>. QED  BY <1>3, <1>4, <1>5, <1>6, <1>7, <1>8, <1>9, <1>10, <1>11, <1>12, <1>13, <1>14, <1>15,
             <1>16, <1>17, <1>18, <1>19 DEF Next, RefreshRuns, DownloadRuns

(* What the lookups return. *)
LEMMA FoundInASegment ==
    ASSUME StoredInv, NEW id, id \notin DOMAIN tables.transactions,
           NEW k \in DOMAIN segments, id \in DOMAIN segments[k].tables.transactions
    PROVE  getLocalTx(tables, segments, id)
<1>. DEFINE found == findSegmentForTxid(tables, segments, id)
<1>1. Len(segments) \in Nat /\ DOMAIN segments = 1..Len(segments) /\ segments # << >>
  BY ListFacts DEF StoredInv, StoreIsSound, SegmentsAreSound
<1>2. found \subseteq DOMAIN segments /\ found # {}
  BY DEF findSegmentForTxid, findSegmentByHeight
<1>3. \A j \in found : id \in DOMAIN segments[j].tables.transactions
  <2>1. CASE found = {j \in DOMAIN segments : id \in DOMAIN segments[j].tables.transactions}
    BY <2>1
  <2>2. CASE found # {j \in DOMAIN segments : id \in DOMAIN segments[j].tables.transactions}
    <3>1. id \in DOMAIN tables.ownTxs /\ found = findSegmentByHeight(segments, tables.ownTxs[id])
      BY <2>2 DEF findSegmentForTxid
    <3>2. <<id, tables.ownTxs[id]>> \in PairsOf(Places(ChainOf[Last(segments).endHash]))
      BY <1>1, <3>1 DEF StoredInv, StoreIsSound, Faithful, OwnAgrees, SealedPairs
    <3>3. PICK p \in Places(ChainOf[Last(segments).endHash]) :
             id = TxAt(p).id /\ tables.ownTxs[id] = HeightAt(p)
      BY <3>2 DEF PairsOf
    <3>4. PICK c \in ChainOf[Last(segments).endHash] : p \in PlacesIn(c)
      BY DEF Places
    <3>5. HeightAt(p) = Height[c]
      BY <3>4 DEF PlacesIn, HeightAt
    <3>6. ASSUME NEW j \in found PROVE id \in DOMAIN segments[j].tables.transactions
      <4>. DEFINE s == segments[j]
      <4>1. j \in DOMAIN segments /\ s.start <= Height[c] /\ Height[c] <= s.end
        BY <3>1, <3>3, <3>5 DEF findSegmentByHeight
      <4>2. SegmentIsSound(s, Last(segments).endHash)
        BY <4>1 DEF StoredInv, StoreIsSound, SegmentsAreSound
      <4>. HIDE DEF s
      <4>3. Last(segments).endHash \in Blocks
        BY <1>1, SealStartBounds DEF StoredInv, StoreIsSound
      <4>4. c \in ChainOf[s.endHash]
        <5>1. c \in Blocks /\ Height[c] \in 0..Height[s.endHash]
          BY <4>1, <4>2, <4>3, WalletSyncAssumption, ChainStoreAssumption DEF SegmentIsSound
        <5>2. PICK d \in ChainOf[s.endHash] : Height[d] = Height[c]
          BY <4>2, <5>1, EveryHeight DEF SegmentIsSound
        <5>3. d \in ChainOf[Last(segments).endHash]
          BY <4>2, <4>3, <5>2, ChainsNest DEF SegmentIsSound
        <5>. QED  BY <3>4, <4>3, <5>2, <5>3, ChainsAreChains DEF OneChain
      <4>5. c \in s.rows /\ s.tables.transactions = HeightsOf(Places(s.rows))
        BY <4>1, <4>2, <4>4 DEF SegmentIsSound
      <4>6. id \in Ids(Places(s.rows))
        BY <3>3, <3>4, <4>5 DEF Ids, Places
      <4>. QED  BY <4>5, <4>6 DEF HeightsOf, s
    <3>. QED  BY <3>6
  <2>. QED  BY <2>1, <2>2
<1>. HIDE DEF found
<1>4. Max(found) \in found /\ \A j \in found : j <= Max(found)
  <2>1. found \subseteq 1..Len(segments)
    BY <1>1, <1>2
  <2>. QED  BY <1>1, <1>2, <2>1, MaxOfNumbers
<1>5. \E j \in found : /\ \A i \in found : i <= j
                       /\ id \in DOMAIN segments[j].tables.transactions
  BY <1>3, <1>4
<1>. QED  BY <1>5 DEF getLocalTx, found

LEMMA StoredAreFound == SyncInv /\ StoredInv => StoredTransactionsAreFound
<1>. SUFFICES ASSUME SyncInv, StoredInv PROVE StoredTransactionsAreFound
  OBVIOUS
<1>1. Linked(rows) /\ tables.transactions = HeightsOf(Places(rows))
  BY DEF SyncInv, StoredInv, StoreIsSound, Faithful
<1>2. ASSUME NEW R, NEW tx, NEW b \in R, tx \in Range(Transactions[b]) PROVE tx.id \in Ids(Places(R))
  <2>1. PICK i \in DOMAIN Transactions[b] : tx = Transactions[b][i]
    BY <1>2 DEF Range
  <2>. DEFINE p == <<b, i>>
  <2>2. p \in Places(R) /\ TxAt(p) = tx
    BY <2>1 DEF Places, PlacesIn, TxAt
  <2>. HIDE DEF p
  <2>. QED  BY <2>2 DEF Ids
<1>3. ASSUME NEW tx \in StoredTransactions PROVE getLocalTx(tables, segments, tx.id)
  <2>1. PICK b \in StoredChain : tx \in Range(Transactions[b])
    BY DEF StoredTransactions
  <2>2. CASE tx.id \in DOMAIN tables.transactions
    BY <2>2 DEF getLocalTx
  <2>3. CASE tx.id \notin DOMAIN tables.transactions
    <3>1. b \notin rows
      BY <1>1, <1>2, <2>1, <2>3 DEF HeightsOf
    <3>2. PICK k \in DOMAIN segments : b \in segments[k].rows
      BY <3>1 DEF StoredChain
    <3>3. segments[k].tables.transactions = HeightsOf(Places(segments[k].rows))
      BY DEF StoredInv, StoreIsSound, SegmentsAreSound, SegmentIsSound
    <3>4. tx.id \in DOMAIN segments[k].tables.transactions
      BY <1>2, <2>1, <3>2, <3>3 DEF HeightsOf
    <3>. QED  BY <2>3, <3>4, FoundInASegment
  <2>. QED  BY <2>2, <2>3
<1>4. ASSUME NEW b \in rows
      PROVE  getBlock(rows, NoBlock, tables, b) = {tx.id : tx \in Range(Transactions[b])}
  <2>1. getBlock(rows, NoBlock, tables, b)
          = {t \in Ids(Places(rows)) : HeightOfId(Places(rows), t) = Height[b]}
    BY <1>1 DEF getBlock, getBlockHeader, HeightsOf
  <2>2. ASSUME NEW tx \in Range(Transactions[b])
        PROVE  tx.id \in Ids(Places(rows)) /\ HeightOfId(Places(rows), tx.id) = Height[b]
    <3>1. {b} \subseteq rows /\ tx.id \in Ids(Places({b}))
      BY <1>2
    <3>2. PICK c \in rows : /\ HeightOfId(Places(rows), tx.id) = Height[c]
                            /\ tx.id \in Ids(Places({b})) <=> c \in {b}
      BY <1>1, <1>2, <3>1, IdsOfLinkedRows
    <3>. QED  BY <1>2, <3>1, <3>2
  <2>3. ASSUME NEW t \in Ids(Places(rows)), HeightOfId(Places(rows), t) = Height[b]
        PROVE  t \in {tx.id : tx \in Range(Transactions[b])}
    <3>1. PICK c \in rows : /\ HeightOfId(Places(rows), t) = Height[c]
                            /\ t \in Ids(Places({b})) <=> c \in {b}
      <4>1. {b} \subseteq rows
        OBVIOUS
      <4>. QED  BY <1>1, <4>1, IdsOfLinkedRows
    <3>2. c = b
      BY <1>1, <2>3, <3>1 DEF Linked, OnePerHeight
    <3>3. PICK p \in Places({b}) : t = TxAt(p).id
      BY <3>1, <3>2 DEF Ids
    <3>4. PICK i \in DOMAIN Transactions[b] : p = <<b, i>>
      BY DEF Places, PlacesIn
    <3>5. TxAt(p) = Transactions[b][i]
      BY <3>4 DEF TxAt
    <3>. QED  BY <3>3, <3>5 DEF Range
  <2>. QED  BY <2>1, <2>2, <2>3
<1>. QED  BY <1>3, <1>4 DEF StoredTransactionsAreFound

-----------------------------------------------------------------------------
(* Theorems *)

(* Whatever pages arrive, late, after a rebuild, across a reorganisation, a seal or a
   crash between the two parts of a seal, the rows of the active file have one block per
   height and every row above the lowest extends the row below it: integrityCheck
   (walletDatabase.ts) passes at every start. *)
THEOREM StoredRowsLink == Spec => []RowsLink
<1>1. SyncInv => RowsLink
  BY DEF SyncInv, Linked, OnePerHeight, RowsLink
<1>. QED  BY InitSync, NextSync, <1>1, PTL DEF Spec

(* The state of the wallet core and of its database keeps its types. *)
THEOREM WalletSyncIsTyped == Spec => []TypeOK
<1>1. SyncInv => TypeOK
  BY DEF SyncInv
<1>. QED  BY InitSync, NextSync, <1>1, PTL DEF Spec

(* Until a first segment is sealed, the index that appends, roll-backs and rebuilds leave is
   the one that indexing the stored blocks from scratch would give: address balances, unspent
   outputs and their maturity are those of the stored chain. *)
THEOREM ViewsAreOfTheRows == Spec => []ViewsFollowRows
<1>1. Init => StoredInv
  BY NewStoreIsSound DEF Init, StoredInv
<1>2. SyncInv /\ StoredInv => ViewsFollowRows
  <2>. SUFFICES ASSUME SyncInv, StoredInv, segments = << >> PROVE ViewsFollowRows
    BY DEF ViewsFollowRows
  <2>1. Linked(rows) /\ chainHeight \in Nat
    BY Before
  <2>2. IsIndexOf(tables, rows)
    BY DEF StoredInv, StoreIsSound
  <2>. QED  BY <2>1, <2>2, IndexShowsRows
<1>. QED  BY InitSync, NextSync, NextStored, <1>1, <1>2, PTL DEF Spec

(* Whatever was appended, rolled back, sealed, cleared or cut short by a crash, getLocalTx
   finds every transaction of the stored chain, and getBlock lists exactly the transactions
   of a stored block. *)
THEOREM NoStoredTransactionIsLost == Spec => []StoredTransactionsAreFound
<1>1. Init => StoredInv
  BY NewStoreIsSound DEF Init, StoredInv
<1>. QED  BY InitSync, NextSync, NextStored, StoredAreFound, <1>1, PTL DEF Spec
=============================================================================
