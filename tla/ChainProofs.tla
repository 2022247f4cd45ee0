----------------------------- MODULE ChainProofs -----------------------------
(***************************************************************************)
(* Theorems about Chain, NodeService and the queries of WalletQueries, for *)
(* every set of blocks and of transactions that may be offered, every set  *)
(* of wallets and every value of the consensus parameters.                 *)
(*                                                                         *)
(*   1. Sums over finite sets: the facts the ledger needs.                 *)
(*   2. Trees of validated blocks and the branches that ancestry reads     *)
(*      off them.                                                          *)
(*   3. The ledger of a branch: what it spends, what it mints, and that    *)
(*      what circulates and what was burned add up to what was issued.     *)
(*   4. Sorting by keys, and the median of the past along a branch.        *)
(*   5. Sound chains: what addBlock preserves, whoever calls it.           *)
(*   6. Chain: its inductive invariant, its properties and the abstract    *)
(*      fork choice.                                                       *)
(*   7. Replay: what a restart makes of the rows of the store.             *)
(*   8. Difficulty: what the retarget asks of the next block.              *)
(*   9. Mempool and jobs.                                                  *)
(*  10. NodeService: its inductive invariant and its properties.           *)
(*  11. Raw transactions: what a wallet signs is what the node accepts.    *)
(*  12. Accounts: a balance is what the history of its addresses explains. *)
(*  13. Pages: windows of one list, whatever is fetched for each.          *)
(*                                                                         *)
(* Induction is by the least number that is a counterexample: no natural   *)
(* number, and hence no height and no cardinality, is less than all.       *)
(***************************************************************************)
EXTENDS NodeService, WalletQueries, FiniteSetTheorems, SequenceTheorems, WellFoundedInduction, TLAPS

-----------------------------------------------------------------------------
(* 1. Sums *)

(* A non-empty set of naturals has a least member. *)
LEMMA LeastNatural ==
  ASSUME NEW S \in SUBSET Nat, S # {}
  PROVE  \E m \in S : \A n \in S : m <= n
<1>1. PICK m \in S : \A n \in S : ~ (<<n, m>> \in OpToRel(<, Nat))
  BY NatLessThanWellFounded, WFMin
<1>2. ASSUME NEW n \in S PROVE m <= n
  <2>1. m \in Nat /\ n \in Nat
    OBVIOUS
  <2>2. ~ (n < m)
    BY <1>1, <2>1 DEF OpToRel
  <2> QED
    BY <2>1, <2>2
<1> QED
  BY <1>2

\* Induction over the natural numbers, a property being the set of those that
\* have it.
LEMMA NaturalInduction ==
  ASSUME NEW Q, 0 \in Q, \A n \in Nat : n \in Q => n + 1 \in Q
  PROVE  \A n \in Nat : n \in Q
<1> DEFINE Bad == Nat \ Q
<1>1. SUFFICES ASSUME Bad # {} PROVE FALSE
  OBVIOUS
<1>2. PICK n \in Bad : \A m \in Bad : n <= m
  <2>1. Bad \in SUBSET Nat
    OBVIOUS
  <2> HIDE DEF Bad
  <2> QED
    BY <1>1, <2>1, LeastNatural
<1>3. n - 1 \in Nat /\ (n - 1) + 1 = n
  OBVIOUS
<1>4. n - 1 \in Q
  BY <1>2, <1>3
<1> QED
  BY <1>3, <1>4

\* Induction on the subsets of a finite set, smaller ones first.
LEMMA SubsetInduction ==
  ASSUME NEW S, IsFiniteSet(S), NEW Q,
         \A T \in SUBSET S : (\A U \in SUBSET T : U # T => U \in Q) => T \in Q
  PROVE  \A T \in SUBSET S : T \in Q
<1> DEFINE Bad == {n \in Nat : \E T \in SUBSET S : Cardinality(T) = n /\ T \notin Q}
<1>1. \A T \in SUBSET S : IsFiniteSet(T) /\ Cardinality(T) \in Nat
  BY FS_Subset, FS_CardinalityType
<1>2. SUFFICES ASSUME Bad # {} PROVE FALSE
  BY <1>1
<1>3. PICK n \in Bad : \A m \in Bad : n <= m
  <2>1. Bad \in SUBSET Nat
    OBVIOUS
  <2> HIDE DEF Bad
  <2> QED
    BY <1>2, <2>1, LeastNatural
<1>4. PICK T \in SUBSET S : Cardinality(T) = n /\ T \notin Q
  OBVIOUS
<1>5. ASSUME NEW U \in SUBSET T, U # T PROVE U \in Q
  <2>1. Cardinality(U) \in Nat /\ Cardinality(U) <= n /\ Cardinality(U) # n
    BY <1>1, <1>4, <1>5, FS_Subset
  <2>2. Cardinality(U) \notin Bad
    <3> HIDE DEF Bad
    <3>1. n \in Nat
      BY DEF Bad
    <3> QED
      BY <1>3, <2>1, <3>1
  <2> QED
    BY <2>1, <2>2
<1> QED
  BY <1>4, <1>5

-----------------------------------------------------------------------------
\* Sums of the values of a function over a finite set.

Chosen(S) == CHOOSE x \in S : TRUE

\* What SumFunctionOnSet unfolds to: g maps every subset of S to its sum.
SumsUp(f, S, g) ==
  g = [s \in SUBSET S |-> IF s = {} THEN 0 ELSE f[Chosen(s)] + g[s \ {Chosen(s)}]]
Summation(f, S) == CHOOSE g : SumsUp(f, S, g)

LEMMA ChosenIsMember == ASSUME NEW S, S # {} PROVE Chosen(S) \in S
BY DEF Chosen

\* There is such a function.
LEMMA SummationExists ==
  ASSUME NEW f, NEW S, IsFiniteSet(S)
  PROVE  \E g : SumsUp(f, S, g)
<1> DEFINE step(g, s) == IF s = {} THEN 0 ELSE f[Chosen(s)] + g[s \ {Chosen(s)}]
           Small(n) == {s \in SUBSET S : Cardinality(s) <= n}
           Solves(g, n) == g = [s \in Small(n) |-> step(g, s)]
           Bad == {n \in Nat : ~ \E g : Solves(g, n)}
<1>1. \A s \in SUBSET S : IsFiniteSet(s) /\ Cardinality(s) \in Nat /\ Cardinality(s) <= Cardinality(S)
  BY FS_Subset, FS_CardinalityType
<1>2. ASSUME NEW s \in SUBSET S, s # {}
      PROVE  /\ Chosen(s) \in s /\ Cardinality(s) # 0
             /\ Cardinality(s \ {Chosen(s)}) = Cardinality(s) - 1
  BY <1>1, <1>2, ChosenIsMember, FS_RemoveElement, FS_EmptySet
<1>3. \E g : Solves(g, 0)
  <2> DEFINE zero == [s \in Small(0) |-> 0]
  <2>1. \A s \in Small(0) : step(zero, s) = 0
    BY <1>1, <1>2
  <2>2. Solves(zero, 0)
    BY <2>1
  <2> QED
    BY <2>2
<1>4. ASSUME NEW n \in Nat, NEW g, Solves(g, n)
      PROVE  \E h : Solves(h, n + 1)
  <2> DEFINE h == [s \in Small(n + 1) |-> step(g, s)]
  <2>2. \A s \in Small(n) : s \in Small(n + 1)
    BY <1>1
  <2>3. \A s \in Small(n) : g[s] = h[s]
    BY <1>4, <2>2
  <2>4. \A s \in Small(n + 1) : s # {} => s \ {Chosen(s)} \in Small(n)
    BY <1>1, <1>2
  <2>5. \A s \in Small(n + 1) : step(g, s) = step(h, s)
    <3> HIDE DEF h, Small
    <3> QED
      BY <2>3, <2>4
  <2>6. Solves(h, n + 1)
    <3>1. h = [s \in Small(n + 1) |-> step(g, s)]
      OBVIOUS
    <3> HIDE DEF h, step
    <3> QED
      BY <2>5, <3>1
  <2> QED
    BY <2>6
<1>5. Bad = {}
  <2> HIDE DEF Solves
  <2>1. SUFFICES ASSUME Bad # {} PROVE FALSE
    OBVIOUS
  <2>2. PICK n \in Bad : \A m \in Bad : n <= m
    <3> HIDE DEF Bad
    <3>1. Bad \in SUBSET Nat
      BY DEF Bad
    <3> QED
      BY <2>1, <3>1, LeastNatural
  <2>3. n # 0 /\ n - 1 \in Nat
    BY <1>3
  <2>4. \E g : Solves(g, n - 1)
    BY <2>2, <2>3
  <2>5. (n - 1) + 1 = n
    OBVIOUS
  <2>6. \E h : Solves(h, n)
    BY <1>4, <2>3, <2>4, <2>5
  <2> QED
    BY <2>6
<1>6. PICK g : Solves(g, Cardinality(S))
  <2> HIDE DEF Solves
  <2> QED
    BY <1>1, <1>5
<1>7. Small(Cardinality(S)) = SUBSET S
  BY <1>1
<1> QED
  BY <1>6, <1>7 DEF SumsUp

LEMMA SumIsSummation ==
  ASSUME NEW f, NEW S, IsFiniteSet(S)
  PROVE  /\ SumFunctionOnSet(f, S) = Summation(f, S)[S]
         /\ SumsUp(f, S, Summation(f, S))
<1>1. SumFunctionOnSet(f, S) = Summation(f, S)[S]
  BY DEF SumFunctionOnSet, FoldFunctionOnSet, MapThenFoldSet, Summation, SumsUp, Chosen
<1>2. SumsUp(f, S, Summation(f, S))
  BY SummationExists DEF Summation
<1> QED
  BY <1>1, <1>2

LEMMA SumOfNothing ==
  ASSUME NEW f
  PROVE  SumFunctionOnSet(f, {}) = 0
<1> DEFINE g == Summation(f, {})
<1>1. SumFunctionOnSet(f, {}) = g[{}] /\ SumsUp(f, {}, g)
  BY SumIsSummation, FS_EmptySet
<1> HIDE DEF g
<1>2. g[{}] = 0
  BY <1>1 DEF SumsUp
<1> QED
  BY <1>1, <1>2

\* The sum takes out the element that CHOOSE chooses, ...
LEMMA SumOfChosen ==
  ASSUME NEW f, NEW S, IsFiniteSet(S), S # {}
  PROVE  SumFunctionOnSet(f, S) = f[Chosen(S)] + SumFunctionOnSet(f, S \ {Chosen(S)})
<1> DEFINE rest == S \ {Chosen(S)}
           g == Summation(f, S)
           h == Summation(f, rest)
<1>1. IsFiniteSet(rest)
  BY FS_Subset
<1>2. \A s \in SUBSET S : g[s] = IF s = {} THEN 0 ELSE f[Chosen(s)] + g[s \ {Chosen(s)}]
  <2>1. SumsUp(f, S, g)
    BY SumIsSummation
  <2> HIDE DEF g
  <2> QED
    BY <2>1 DEF SumsUp
<1>3. \A s \in SUBSET rest : h[s] = IF s = {} THEN 0 ELSE f[Chosen(s)] + h[s \ {Chosen(s)}]
  <2>1. SumsUp(f, rest, h)
    BY <1>1, SumIsSummation
  <2> HIDE DEF h, rest
  <2> QED
    BY <2>1 DEF SumsUp
<1>4. SumFunctionOnSet(f, S) = g[S] /\ SumFunctionOnSet(f, rest) = h[rest]
  <2> HIDE DEF rest
  <2> QED
    BY <1>1, SumIsSummation
<1> HIDE DEF g, h
<1>5. g[rest] = h[rest]
  <2> DEFINE Q == {s \in SUBSET rest : g[s] = h[s]}
  <2>1. ASSUME NEW s \in SUBSET rest, \A u \in SUBSET s : u # s => u \in Q
        PROVE  s \in Q
    <3>1. CASE s = {}
      BY <1>2, <1>3, <3>1
    <3>2. CASE s # {}
      <4>1. Chosen(s) \in s
        BY <3>2, ChosenIsMember
      <4>2. g[s \ {Chosen(s)}] = h[s \ {Chosen(s)}]
        BY <2>1, <4>1
      <4>3. g[s] = f[Chosen(s)] + g[s \ {Chosen(s)}] /\ h[s] = f[Chosen(s)] + h[s \ {Chosen(s)}]
        BY <1>2, <1>3, <3>2
      <4> QED
        BY <4>2, <4>3
    <3> QED
      BY <3>1, <3>2
  <2> HIDE DEF rest, Q
  <2>2. \A s \in SUBSET rest : s \in Q
    BY <1>1, <2>1, SubsetInduction
  <2> QED
    BY <2>2 DEF Q
<1> QED
  BY <1>2, <1>4, <1>5

LEMMA SumIsInt ==
  ASSUME NEW f, NEW S, IsFiniteSet(S), \A x \in S : f[x] \in Int
  PROVE  SumFunctionOnSet(f, S) \in Int
<1> DEFINE Q == {T \in SUBSET S : SumFunctionOnSet(f, T) \in Int}
<1>1. ASSUME NEW T \in SUBSET S, \A U \in SUBSET T : U # T => U \in Q
      PROVE  T \in Q
  <2>1. CASE T = {}
    BY <2>1, SumOfNothing
  <2>2. CASE T # {}
    <3>1. Chosen(T) \in T /\ f[Chosen(T)] \in Int
      BY <2>2, ChosenIsMember
    <3>2. SumFunctionOnSet(f, T \ {Chosen(T)}) \in Int
      BY <1>1, <3>1
    <3>3. IsFiniteSet(T)
      BY FS_Subset
    <3>4. SumFunctionOnSet(f, T) = f[Chosen(T)] + SumFunctionOnSet(f, T \ {Chosen(T)})
      BY <2>2, <3>3, SumOfChosen
    <3> QED
      BY <3>1, <3>2, <3>4
  <2> QED
    BY <2>1, <2>2
<1> HIDE DEF Q
<1>2. S \in Q
  BY <1>1, SubsetInduction
<1> QED
  BY <1>2 DEF Q

\* ... and so it does any other.
LEMMA SumTakesOut ==
  ASSUME NEW f, NEW S, IsFiniteSet(S), \A x \in S : f[x] \in Int, NEW y \in S
  PROVE  SumFunctionOnSet(f, S) = f[y] + SumFunctionOnSet(f, S \ {y})
<1> DEFINE sum(T) == SumFunctionOnSet(f, T)
           Q == {T \in SUBSET S : \A x \in T : sum(T) = f[x] + sum(T \ {x})}
<1>1. \A T \in SUBSET S : IsFiniteSet(T) /\ sum(T) \in Int
  BY FS_Subset, SumIsInt
<1>2. ASSUME NEW T \in SUBSET S, \A U \in SUBSET T : U # T => U \in Q, NEW x \in T
      PROVE  sum(T) = f[x] + sum(T \ {x})
  <2> DEFINE c == Chosen(T)
  <2>1. c \in T /\ sum(T) = f[c] + sum(T \ {c})
    BY <1>1, ChosenIsMember, SumOfChosen
  <2>2. CASE c # x
    <3> DEFINE both == (T \ {c}) \ {x}
    <3>1. /\ T \ {c} \in Q /\ T \ {x} \in Q
          /\ x \in T \ {c} /\ c \in T \ {x} /\ (T \ {x}) \ {c} = both
      BY <1>2, <2>1, <2>2
    <3>2. sum(T \ {c}) = f[x] + sum(both) /\ sum(T \ {x}) = f[c] + sum(both)
      <4> HIDE DEF both, sum, c
      <4> QED
        BY <3>1 DEF both
    <3>3. f[c] \in Int /\ f[x] \in Int /\ sum(both) \in Int
      BY <1>1, <2>1
    <3> HIDE DEF both, sum, c
    <3> QED
      BY <2>1, <3>2, <3>3
  <2> QED
    BY <2>1, <2>2
<1>3. \A T \in SUBSET S : T \in Q
  <2>1. \A T \in SUBSET S : (\A U \in SUBSET T : U # T => U \in Q) => T \in Q
    BY <1>2
  <2> HIDE DEF Q
  <2> QED
    BY <2>1, SubsetInduction
<1> QED
  BY <1>3

LEMMA SumAddsOne ==
  ASSUME NEW f, NEW S, IsFiniteSet(S), NEW y, y \notin S, \A x \in S \cup {y} : f[x] \in Int
  PROVE  /\ SumFunctionOnSet(f, S \cup {y}) = SumFunctionOnSet(f, S) + f[y]
         /\ SumFunctionOnSet(f, S) \in Int
<1>1. IsFiniteSet(S \cup {y}) /\ (S \cup {y}) \ {y} = S
  BY FS_AddElement
<1>2. SumFunctionOnSet(f, S \cup {y}) = f[y] + SumFunctionOnSet(f, (S \cup {y}) \ {y})
  BY <1>1, SumTakesOut
<1>3. SumFunctionOnSet(f, S) \in Int /\ f[y] \in Int
  BY SumIsInt
<1>4. SumFunctionOnSet(f, S \cup {y}) = f[y] + SumFunctionOnSet(f, S)
  BY <1>1, <1>2
<1> QED
  BY <1>3, <1>4

\* Induction on a finite set, element by element.
LEMMA FiniteInduction ==
  ASSUME NEW S, IsFiniteSet(S), NEW Q, {} \in Q,
         \A T \in SUBSET S : \A x \in S \ T : T \in Q => T \cup {x} \in Q
  PROVE  S \in Q
<1>1. ASSUME NEW T \in SUBSET S, \A U \in SUBSET T : U # T => U \in Q
      PROVE  T \in Q
  <2>1. CASE T # {}
    <3>1. PICK x : x \in T
      BY <2>1
    <3>2. T \ {x} \in Q /\ T = (T \ {x}) \cup {x}
      BY <1>1, <3>1
    <3>3. (T \ {x}) \cup {x} \in Q
      BY <3>1, <3>2
    <3> QED
      BY <3>2, <3>3
  <2> QED
    BY <2>1
<1> QED
  BY <1>1, SubsetInduction

\* A sum of positive numbers is positive.
LEMMA SumIsPositive ==
  ASSUME NEW f, NEW S, IsFiniteSet(S), S # {}, \A x \in S : f[x] \in Int /\ f[x] > 0
  PROVE  SumFunctionOnSet(f, S) \in Int /\ SumFunctionOnSet(f, S) > 0
<1> DEFINE Q == {T \in SUBSET S : SumFunctionOnSet(f, T) \in Int /\ SumFunctionOnSet(f, T) >= 0}
<1>1. {} \in Q
  BY SumOfNothing
<1>2. ASSUME NEW T \in SUBSET S, NEW x \in S \ T, T \in Q PROVE T \cup {x} \in Q
  <2>1. IsFiniteSet(T)
    BY FS_Subset
  <2>2. SumFunctionOnSet(f, T \cup {x}) = SumFunctionOnSet(f, T) + f[x]
    BY <2>1, SumAddsOne
  <2> QED
    BY <1>2, <2>2
<1>3. \A T \in SUBSET S : T \in Q
  <2> TAKE T \in SUBSET S
  <2> DEFINE P == {U \in SUBSET T : U \in Q}
  <2>1. IsFiniteSet(T) /\ {} \in P
    BY <1>1, FS_Subset
  <2>2. \A U \in SUBSET T : \A x \in T \ U : U \in P => U \cup {x} \in P
    BY <1>2
  <2> HIDE DEF Q, P
  <2>3. T \in P
    BY <2>1, <2>2, FiniteInduction
  <2> QED
    BY <2>3 DEF P
<1>4. PICK y : y \in S
  OBVIOUS
<1>5. SumFunctionOnSet(f, S) = f[y] + SumFunctionOnSet(f, S \ {y})
  BY <1>4, SumTakesOut
<1>6. SumFunctionOnSet(f, S \ {y}) \in Int /\ SumFunctionOnSet(f, S \ {y}) >= 0
  BY <1>3
<1> QED
  BY <1>4, <1>5, <1>6

\* Only the values on the set count.
LEMMA SumOfSame ==
  ASSUME NEW f, NEW g, NEW S, IsFiniteSet(S), \A x \in S : f[x] \in Int /\ f[x] = g[x]
  PROVE  SumFunctionOnSet(f, S) = SumFunctionOnSet(g, S)
<1> DEFINE Q == {T \in SUBSET S : SumFunctionOnSet(f, T) = SumFunctionOnSet(g, T)}
<1>1. {} \in Q
  BY SumOfNothing
<1>2. ASSUME NEW T \in SUBSET S, NEW x \in S \ T, T \in Q PROVE T \cup {x} \in Q
  <2>1. IsFiniteSet(T)
    BY FS_Subset
  <2>2. /\ SumFunctionOnSet(f, T \cup {x}) = SumFunctionOnSet(f, T) + f[x]
        /\ SumFunctionOnSet(g, T \cup {x}) = SumFunctionOnSet(g, T) + g[x]
    BY <2>1, SumAddsOne
  <2> QED
    BY <1>2, <2>2
<1> HIDE DEF Q
<1>3. S \in Q
  BY <1>1, <1>2, FiniteInduction
<1> QED
  BY <1>3 DEF Q

\* Sums over disjoint sets add up.
LEMMA SumOfUnion ==
  ASSUME NEW f, NEW A, IsFiniteSet(A), NEW B, IsFiniteSet(B), A \cap B = {},
         \A x \in A \cup B : f[x] \in Int
  PROVE  SumFunctionOnSet(f, A \cup B) = SumFunctionOnSet(f, A) + SumFunctionOnSet(f, B)
<1> DEFINE Q == {T \in SUBSET B : SumFunctionOnSet(f, A \cup T)
                                    = SumFunctionOnSet(f, A) + SumFunctionOnSet(f, T)}
<1>0. SumFunctionOnSet(f, A) \in Int
  BY SumIsInt
<1>1. {} \in Q
  <2>1. A \cup {} = A
    OBVIOUS
  <2> QED
    BY <1>0, <2>1, SumOfNothing
<1>2. ASSUME NEW T \in SUBSET B, NEW x \in B \ T, T \in Q PROVE T \cup {x} \in Q
  <2>1. IsFiniteSet(T) /\ IsFiniteSet(A \cup T) /\ x \notin A \cup T /\ f[x] \in Int
    BY FS_Subset, FS_Union
  <2>2. /\ SumFunctionOnSet(f, T \cup {x}) = SumFunctionOnSet(f, T) + f[x]
        /\ SumFunctionOnSet(f, T) \in Int
    BY <2>1, SumAddsOne
  <2>3. SumFunctionOnSet(f, (A \cup T) \cup {x}) = SumFunctionOnSet(f, A \cup T) + f[x]
    BY <2>1, SumAddsOne
  <2>4. SumFunctionOnSet(f, A \cup T) = SumFunctionOnSet(f, A) + SumFunctionOnSet(f, T)
    BY <1>2
  <2>5. f[x] \in Int
    BY <2>1
  <2>6. SumFunctionOnSet(f, (A \cup T) \cup {x})
          = SumFunctionOnSet(f, A) + SumFunctionOnSet(f, T \cup {x})
    BY <1>0, <2>2, <2>3, <2>4, <2>5
  <2>7. (A \cup T) \cup {x} = A \cup (T \cup {x})
    OBVIOUS
  <2> QED
    BY <2>6, <2>7
<1> HIDE DEF Q
<1>3. B \in Q
  BY <1>1, <1>2, FiniteInduction
<1> QED
  BY <1>3 DEF Q

\* A set may be renamed.
LEMMA SumOfImage ==
  ASSUME NEW f, NEW g, NEW h, NEW S, IsFiniteSet(S),
         \A x, y \in S : h[x] = h[y] => x = y,
         \A x \in S : f[h[x]] \in Int /\ g[x] = f[h[x]]
  PROVE  /\ IsFiniteSet({h[x] : x \in S})
         /\ SumFunctionOnSet(f, {h[x] : x \in S}) = SumFunctionOnSet(g, S)
<1> DEFINE image(T) == {h[x] : x \in T}
           Q == {T \in SUBSET S : /\ IsFiniteSet(image(T))
                                  /\ SumFunctionOnSet(f, image(T)) = SumFunctionOnSet(g, T)}
<1>1. {} \in Q
  <2>1. image({}) = {}
    OBVIOUS
  <2> QED
    BY <2>1, SumOfNothing, FS_EmptySet
<1>2. ASSUME NEW T \in SUBSET S, NEW x \in S \ T, T \in Q PROVE T \cup {x} \in Q
  <2>1. /\ IsFiniteSet(T) /\ image(T \cup {x}) = image(T) \cup {h[x]} /\ h[x] \notin image(T)
        /\ IsFiniteSet(image(T))
    BY <1>2, FS_Subset
  <2>2. SumFunctionOnSet(g, T \cup {x}) = SumFunctionOnSet(g, T) + g[x]
    BY <2>1, SumAddsOne
  <2>3. SumFunctionOnSet(f, image(T) \cup {h[x]}) = SumFunctionOnSet(f, image(T)) + f[h[x]]
    <3>1. \A y \in image(T) \cup {h[x]} : f[y] \in Int
      OBVIOUS
    <3> HIDE DEF image
    <3> QED
      BY <2>1, <3>1, SumAddsOne
  <2>4. IsFiniteSet(image(T) \cup {h[x]})
    BY <2>1, FS_AddElement
  <2> QED
    BY <1>2, <2>1, <2>2, <2>3, <2>4
<1> HIDE DEF Q
<1>3. S \in Q
  BY <1>1, <1>2, FiniteInduction
<1> QED
  BY <1>3 DEF Q

LEMMA SumOfPairs ==
  ASSUME NEW f, NEW g, NEW h, NEW S, IsFiniteSet(S),
         \A x \in S : f[x] \in Int /\ g[x] \in Int /\ h[x] = f[x] + g[x]
  PROVE  SumFunctionOnSet(h, S) = SumFunctionOnSet(f, S) + SumFunctionOnSet(g, S)
<1> DEFINE Q == {T \in SUBSET S : SumFunctionOnSet(h, T)
                                    = SumFunctionOnSet(f, T) + SumFunctionOnSet(g, T)}
<1>1. {} \in Q
  BY SumOfNothing
<1>2. ASSUME NEW T \in SUBSET S, NEW x \in S \ T, T \in Q PROVE T \cup {x} \in Q
  <2>1. IsFiniteSet(T)
    BY FS_Subset
  <2>2. SumFunctionOnSet(h, T \cup {x}) = SumFunctionOnSet(h, T) + h[x]
    BY <2>1, SumAddsOne
  <2>3. /\ SumFunctionOnSet(f, T \cup {x}) = SumFunctionOnSet(f, T) + f[x]
        /\ SumFunctionOnSet(f, T) \in Int
    BY <2>1, SumAddsOne
  <2>4. /\ SumFunctionOnSet(g, T \cup {x}) = SumFunctionOnSet(g, T) + g[x]
        /\ SumFunctionOnSet(g, T) \in Int
    BY <2>1, SumAddsOne
  <2> QED
    BY <1>2, <2>2, <2>3, <2>4
<1> HIDE DEF Q
<1>3. S \in Q
  BY <1>1, <1>2, FiniteInduction
<1> QED
  BY <1>3 DEF Q

\* The sum over a family of disjoint sets is the sum of their sums.
LEMMA SumOfFamily ==
  ASSUME NEW f, NEW g, NEW I, IsFiniteSet(I), NEW A,
         \A i \in I : /\ IsFiniteSet(A[i]) /\ g[i] = SumFunctionOnSet(f, A[i])
                      /\ \A x \in A[i] : f[x] \in Int,
         \A i, j \in I : i # j => A[i] \cap A[j] = {}
  PROVE  SumFunctionOnSet(f, UNION {A[i] : i \in I}) = SumFunctionOnSet(g, I)
<1> DEFINE all(J) == UNION {A[i] : i \in J}
           Q == {J \in SUBSET I : /\ IsFiniteSet(all(J))
                                  /\ SumFunctionOnSet(f, all(J)) = SumFunctionOnSet(g, J)}
<1>0. \A i \in I : g[i] \in Int
  BY SumIsInt
<1>1. {} \in Q
  <2>1. all({}) = {}
    OBVIOUS
  <2> QED
    BY <2>1, SumOfNothing, FS_EmptySet
<1>2. ASSUME NEW J \in SUBSET I, NEW i \in I \ J, J \in Q PROVE J \cup {i} \in Q
  <2>1. /\ all(J \cup {i}) = all(J) \cup A[i] /\ all(J) \cap A[i] = {}
        /\ \A x \in all(J) \cup A[i] : f[x] \in Int
    OBVIOUS
  <2>2. IsFiniteSet(J) /\ IsFiniteSet(A[i]) /\ IsFiniteSet(all(J))
    BY <1>2, FS_Subset
  <2>3. SumFunctionOnSet(g, J \cup {i}) = SumFunctionOnSet(g, J) + g[i]
    BY <1>0, <2>2, SumAddsOne
  <2>4. /\ IsFiniteSet(all(J) \cup A[i])
        /\ SumFunctionOnSet(f, all(J) \cup A[i]) = SumFunctionOnSet(f, all(J)) + SumFunctionOnSet(f, A[i])
    <3> DEFINE X == all(J)
               Y == A[i]
    <3>1. IsFiniteSet(X) /\ IsFiniteSet(Y) /\ X \cap Y = {} /\ \A x \in X \cup Y : f[x] \in Int
      BY <2>1, <2>2
    <3> HIDE DEF X, Y
    <3>2. IsFiniteSet(X \cup Y)
      BY <3>1, FS_Union
    <3>3. SumFunctionOnSet(f, X \cup Y) = SumFunctionOnSet(f, X) + SumFunctionOnSet(f, Y)
      BY <3>1, SumOfUnion
    <3> QED
      BY <3>2, <3>3 DEF X, Y
  <2> QED
    BY <1>2, <2>1, <2>3, <2>4
<1> HIDE DEF Q
<1>3. I \in Q
  BY <1>1, <1>2, FiniteInduction
<1> QED
  BY <1>3 DEF Q

\* A sum of zeros.
LEMMA SumOfZeros ==
  ASSUME NEW f, NEW S, IsFiniteSet(S), \A x \in S : f[x] = 0
  PROVE  SumFunctionOnSet(f, S) = 0
<1> DEFINE Q == {T \in SUBSET S : SumFunctionOnSet(f, T) = 0}
<1>1. {} \in Q
  BY SumOfNothing
<1>2. ASSUME NEW T \in SUBSET S, NEW x \in S \ T, T \in Q PROVE T \cup {x} \in Q
  <2>1. IsFiniteSet(T)
    BY FS_Subset
  <2>2. SumFunctionOnSet(f, T \cup {x}) = SumFunctionOnSet(f, T) + f[x]
    BY <2>1, SumAddsOne
  <2> QED
    BY <1>2, <2>2
<1> HIDE DEF Q
<1>3. S \in Q
  BY <1>1, <1>2, FiniteInduction
<1> QED
  BY <1>3 DEF Q

\* A list has finitely many positions.
LEMMA PositionsAreFinite ==
  ASSUME NEW s, s \in Seq(Range(s))
  PROVE  /\ DOMAIN s = 1..Len(s) /\ Len(s) \in Nat
         /\ IsFiniteSet(DOMAIN s)
<1>1. DOMAIN s = 1..Len(s) /\ Len(s) \in Nat
  OBVIOUS
<1>2. IsFiniteSet(1..Len(s))
  BY <1>1, FS_Interval
<1> QED
  BY <1>1, <1>2

-----------------------------------------------------------------------------
(* 2. Trees of validated blocks *)

\* What every reachable chain is: a tree of validated blocks above genesis.
IsTree(tree) ==
  /\ Genesis \in DOMAIN tree
  /\ tree[Genesis] = GenesisEntry
  /\ \E n \in Nat : \A block \in DOMAIN tree : block.header.height <= n
  /\ \A block \in DOMAIN tree \ {Genesis} :
       /\ IsWellFormed(block)
       /\ ParentOf(block) \in DOMAIN tree
       /\ block.header.height = ParentOf(block).header.height + 1
       /\ BlockApplies(tree[ParentOf(block)].state, block)
       /\ tree[block] = entryFor(tree, block)

\* Only genesis has height 0.
LEMMA HeightsInTree ==
  ASSUME NEW tree, IsTree(tree)
  PROVE  /\ Genesis.header.height = 0
         /\ \A block \in DOMAIN tree :
              block.header.height \in Nat /\ (block.header.height = 0 <=> block = Genesis)
<1>1. Genesis.header.height = 0
  BY DEF Genesis, createGenesisBlock
<1>2. \A block \in DOMAIN tree : block.header.height \in Nat
  BY <1>1 DEF IsTree, IsWellFormed
<1>3. \A block \in DOMAIN tree \ {Genesis} : block.header.height # 0
  BY <1>2 DEF IsTree
<1> QED
  BY <1>1, <1>2, <1>3

\* Induction along the branches of a tree.
LEMMA TreeInduction ==
  ASSUME NEW tree, IsTree(tree), NEW Q, Genesis \in Q,
         \A block \in DOMAIN tree \ {Genesis} : ParentOf(block) \in Q => block \in Q
  PROVE  \A block \in DOMAIN tree : block \in Q
<1> DEFINE Bad == {n \in Nat : \E block \in DOMAIN tree : block.header.height = n /\ block \notin Q}
<1>1. SUFFICES ASSUME Bad # {} PROVE FALSE
  BY HeightsInTree
<1>2. PICK n \in Bad : \A m \in Bad : n <= m
  <2>1. Bad \in SUBSET Nat
    OBVIOUS
  <2> HIDE DEF Bad
  <2> QED
    BY <1>1, <2>1, LeastNatural
<1>3. PICK block \in DOMAIN tree : block.header.height = n /\ block \notin Q
  OBVIOUS
<1>4. /\ block # Genesis /\ ParentOf(block) \in DOMAIN tree /\ ParentOf(block) \notin Q
      /\ n = ParentOf(block).header.height + 1
  BY <1>3 DEF IsTree
<1>5. ParentOf(block).header.height \in Nat
  BY <1>4, HeightsInTree
<1>6. ParentOf(block).header.height \in Bad
  BY <1>4, <1>5
<1> HIDE DEF Bad
<1> QED
  BY <1>2, <1>4, <1>5, <1>6

-----------------------------------------------------------------------------
\* The function ancestry recurses on: a path to every block of the tree.
PathStep(tree, path, block) ==
  IF block.header.height = 0 \/ block.header.previousHash \notin DOMAIN tree
  THEN <<block>>
  ELSE Append(path[block.header.previousHash], block)

ArePaths(tree, path) == path = [block \in DOMAIN tree |-> PathStep(tree, path, block)]

PathsOf(tree) == CHOOSE path : ArePaths(tree, path)

LEMMA PathsExist ==
  ASSUME NEW tree, IsTree(tree)
  PROVE  \E path : ArePaths(tree, path)
<1> DEFINE Low(n) == {block \in DOMAIN tree : block.header.height <= n}
           Solves(path, n) == path = [block \in Low(n) |-> PathStep(tree, path, block)]
           Good == {n \in Nat : \E path : Solves(path, n)}
<1>1. 0 \in Good
  <2> DEFINE path == [block \in Low(0) |-> <<block>>]
  <2>1. \A block \in Low(0) : PathStep(tree, path, block) = <<block>>
    BY HeightsInTree DEF PathStep
  <2>2. Solves(path, 0)
    BY <2>1
  <2> QED
    BY <2>2
<1>2. ASSUME NEW n \in Nat, n \in Good PROVE n + 1 \in Good
  <2>1. PICK path : Solves(path, n)
    BY <1>2
  <2> DEFINE longer == [block \in Low(n + 1) |-> PathStep(tree, path, block)]
  <2>2. \A block \in Low(n) : block \in Low(n + 1)
    BY HeightsInTree
  <2>3. \A block \in Low(n) : path[block] = longer[block]
    BY <2>1, <2>2
  <2>4. ASSUME NEW block \in Low(n + 1), block.header.height # 0,
               block.header.previousHash \in DOMAIN tree
        PROVE  block.header.previousHash \in Low(n)
    <3>1. /\ block # Genesis /\ block.header.height \in Nat
          /\ ParentOf(block) \in DOMAIN tree /\ ParentOf(block).header.height \in Nat
      BY <2>4, HeightsInTree DEF ParentOf
    <3>2. block.header.height = ParentOf(block).header.height + 1
      BY <3>1 DEF IsTree
    <3> QED
      BY <2>4, <3>1, <3>2 DEF ParentOf
  <2>5. \A block \in Low(n + 1) : PathStep(tree, path, block) = PathStep(tree, longer, block)
    <3> HIDE DEF longer, Low
    <3> QED
      BY <2>3, <2>4 DEF PathStep
  <2>6. Solves(longer, n + 1)
    <3>1. longer = [block \in Low(n + 1) |-> PathStep(tree, path, block)]
      OBVIOUS
    <3> HIDE DEF longer
    <3> QED
      BY <2>5, <3>1
  <2> HIDE DEF Solves
  <2>7. \E p : Solves(p, n + 1)
    BY <2>6
  <2> QED
    BY <2>7
<1>3. \A n \in Nat : n \in Good
  <2> HIDE DEF Good
  <2> QED
    BY <1>1, <1>2, NaturalInduction
<1>4. PICK n \in Nat : \A block \in DOMAIN tree : block.header.height <= n
  BY DEF IsTree
<1>5. Low(n) = DOMAIN tree
  BY <1>4
<1>6. PICK path : Solves(path, n)
  BY <1>3
<1> QED
  BY <1>5, <1>6 DEF ArePaths

\* Genesis is a branch of its own, and a branch grows by its newest block.
LEMMA AncestryUnfolds ==
  ASSUME NEW tree, IsTree(tree)
  PROVE  /\ ancestry(tree, Genesis) = <<Genesis>>
         /\ \A block \in DOMAIN tree \ {Genesis} :
              ancestry(tree, block) = Append(ancestry(tree, ParentOf(block)), block)
<1> DEFINE path == PathsOf(tree)
<1>1. ASSUME NEW block \in DOMAIN tree PROVE ancestry(tree, block) = path[block]
  BY <1>1 DEF ancestry, PathsOf, ArePaths, PathStep
<1>2. ArePaths(tree, path)
  BY PathsExist DEF PathsOf
<1> HIDE DEF path
<1>3. \A block \in DOMAIN tree : path[block] = PathStep(tree, path, block)
  BY <1>2 DEF ArePaths
<1>4. Genesis \in DOMAIN tree /\ Genesis.header.height = 0
  BY HeightsInTree DEF IsTree
<1>5. ancestry(tree, Genesis) = <<Genesis>>
  BY <1>1, <1>3, <1>4 DEF PathStep
<1>6. ASSUME NEW block \in DOMAIN tree \ {Genesis}
      PROVE  ancestry(tree, block) = Append(ancestry(tree, ParentOf(block)), block)
  <2>1. ParentOf(block) \in DOMAIN tree /\ block.header.height # 0
    BY HeightsInTree DEF IsTree
  <2>2. path[block] = Append(path[ParentOf(block)], block)
    BY <1>3, <2>1 DEF PathStep, ParentOf
  <2> QED
    BY <1>1, <2>1, <2>2
<1> QED
  BY <1>5, <1>6

\* A branch has a block of every height, its newest last.
LEMMA AncestryIsBranch ==
  ASSUME NEW tree, IsTree(tree), NEW block \in DOMAIN tree
  PROVE  LET path == ancestry(tree, block)
         IN  /\ path \in Seq(DOMAIN tree)
             /\ Len(path) = block.header.height + 1
             /\ path[Len(path)] = block
             /\ \A i \in 1..Len(path) : path[i].header.height = i - 1
<1> DEFINE Branch(b) == LET path == ancestry(tree, b)
                        IN  /\ path \in Seq(DOMAIN tree)
                            /\ Len(path) = b.header.height + 1
                            /\ path[Len(path)] = b
                            /\ \A i \in 1..Len(path) : path[i].header.height = i - 1
           Q == {b \in DOMAIN tree : Branch(b)}
<1>1. Genesis \in Q
  <2>1. Genesis \in DOMAIN tree /\ Genesis.header.height = 0
    BY HeightsInTree DEF IsTree
  <2>2. ancestry(tree, Genesis) = <<Genesis>>
    BY AncestryUnfolds
  <2> DEFINE path == <<Genesis>>
  <2>3. path \in Seq(DOMAIN tree) /\ Len(path) = 1 /\ path[1] = Genesis
    BY <2>1
  <2> HIDE DEF path
  <2>4. Branch(Genesis)
    BY <2>1, <2>2, <2>3 DEF path
  <2> QED
    BY <2>1, <2>4
<1>2. ASSUME NEW b \in DOMAIN tree \ {Genesis}, ParentOf(b) \in Q PROVE b \in Q
  <2> DEFINE path == ancestry(tree, ParentOf(b))
             longer == ancestry(tree, b)
  <2>1. /\ b.header.height \in Nat /\ ParentOf(b).header.height \in Nat
        /\ b.header.height = ParentOf(b).header.height + 1
    BY HeightsInTree DEF IsTree
  <2>2. /\ path \in Seq(DOMAIN tree)
        /\ Len(path) = b.header.height
        /\ \A i \in 1..Len(path) : path[i].header.height = i - 1
    BY <1>2, <2>1
  <2>3. longer = Append(path, b)
    BY AncestryUnfolds
  <2> HIDE DEF path, longer
  <2>4. /\ longer \in Seq(DOMAIN tree)
        /\ Len(longer) = b.header.height + 1
        /\ \A i \in 1..Len(longer) : longer[i] = IF i = Len(longer) THEN b ELSE path[i]
    BY <2>1, <2>2, <2>3
  <2>5. \A i \in 1..Len(longer) : longer[i].header.height = i - 1
    <3> TAKE i \in 1..Len(longer)
    <3>1. CASE i = Len(longer)
      BY <2>1, <2>4, <3>1
    <3>2. CASE i # Len(longer)
      <4>1. i \in 1..Len(path) /\ longer[i] = path[i]
        BY <2>1, <2>2, <2>4, <3>2
      <4> QED
        BY <2>2, <4>1
    <3> QED
      BY <3>1, <3>2
  <2>6. longer[Len(longer)] = b
    BY <2>1, <2>4
  <2>7. Branch(b)
    BY <2>4, <2>5, <2>6 DEF longer
  <2> QED
    BY <2>7
<1> HIDE DEF Q
<1>3. block \in Q
  BY <1>1, <1>2, TreeInduction
<1> QED
  BY <1>3 DEF Q

\* A block that two trees hold has one branch and one entry in both: they are
\* read off the block and its ancestors.
LEMMA TreesAgree ==
  ASSUME NEW tree, IsTree(tree), NEW other, IsTree(other)
  PROVE  \A block \in DOMAIN tree \cap DOMAIN other :
           ancestry(tree, block) = ancestry(other, block) /\ tree[block] = other[block]
<1> DEFINE Q == {block \in DOMAIN tree :
                   block \in DOMAIN other =>
                     ancestry(tree, block) = ancestry(other, block) /\ tree[block] = other[block]}
<1>1. Genesis \in Q
  BY AncestryUnfolds DEF IsTree
<1>2. ASSUME NEW block \in DOMAIN tree \ {Genesis}, ParentOf(block) \in Q PROVE block \in Q
  <2> SUFFICES ASSUME block \in DOMAIN other
               PROVE  ancestry(tree, block) = ancestry(other, block) /\ tree[block] = other[block]
    OBVIOUS
  <2>1. ParentOf(block) \in DOMAIN other
    BY DEF IsTree
  <2>2. /\ ancestry(tree, ParentOf(block)) = ancestry(other, ParentOf(block))
        /\ tree[ParentOf(block)] = other[ParentOf(block)]
    BY <1>2, <2>1
  <2>3. ancestry(tree, block) = ancestry(other, block)
    BY <2>2, AncestryUnfolds
  <2>4. tree[block] = entryFor(tree, block) /\ other[block] = entryFor(other, block)
    BY DEF IsTree
  <2>5. entryFor(tree, block) = entryFor(other, block)
    BY <2>2 DEF entryFor, ParentOf
  <2> QED
    BY <2>3, <2>4, <2>5
<1> HIDE DEF Q
<1>3. \A block \in DOMAIN tree : block \in Q
  BY <1>1, <1>2, TreeInduction
<1> QED
  BY <1>3 DEF Q

-----------------------------------------------------------------------------
(* 3. The ledger of a branch *)

\* The subsidy is a positive amount.
LEMMA RewardIsPositive ==
  ASSUME NEW height \in Nat, NEW issued \in 0..TOTAL_SUPPLY
  PROVE  rewardForBlock(height, issued) \in Nat \ {0}
<1>1. phaseTwoReward(TOTAL_SUPPLY - issued) \in Nat \ {0}
  <2> DEFINE rewardEdx == (TOTAL_SUPPLY - issued) \div (EDX_UNIT * PHASE_2_DIVISOR)
  <2>1. rewardEdx \in Int
    BY RewardAssumption
  <2>2. (IF rewardEdx < 1 THEN 1 ELSE rewardEdx) \in Nat \ {0}
    BY <2>1
  <2> QED
    BY <2>2, RewardAssumption DEF phaseTwoReward
<1> QED
  BY <1>1, RewardAssumption DEF rewardForBlock, phaseForHeight

\* Applying a block to a ledger whose issue is within the cap leaves it there.
LEMMA IssueStaysWithinCap ==
  ASSUME NEW state, NEW block,
         state.issued \in 0..TOTAL_SUPPLY, block.header.height \in Nat,
         BlockApplies(state, block)
  PROVE  applyBlock(state, block).issued \in 0..TOTAL_SUPPLY
<1> DEFINE reward == rewardForBlock(block.header.height, state.issued)
<1>1. reward \in Nat \ {0}
  BY RewardIsPositive
<1>2. block.coinbase.outputs[1].amount = reward
  BY DEF BlockApplies, CoinbaseApplies
<1>3. state.issued + reward <= TOTAL_SUPPLY
  BY DEF BlockApplies, CoinbaseApplies, Payable
<1>4. applyBlock(state, block).issued = state.issued + reward
  BY <1>2 DEF applyBlock
<1> HIDE DEF reward
<1> QED
  BY <1>1, <1>3, <1>4, RewardAssumption

\* The outputs a block makes, its subsidy apart.
CreatedIn(block) == UNION {OutpointsOf(tx) : tx \in Range(block.transactions)}

IsSubsidy(outpoint) == "height" \in DOMAIN outpoint.txid

SpentOn(path, outpoint) == \E i \in 1..Len(path) : outpoint \in SpentBy(path[i].transactions)

\* Some block of the branch made this output.
MintedOn(path, outpoint) ==
  IF IsSubsidy(outpoint)
  THEN /\ outpoint.txid.height \in 1..Len(path) - 1
       /\ coinbaseId(path[outpoint.txid.height + 1]) = outpoint.txid
  ELSE \E i \in 1..Len(path) : outpoint.txid \in Range(path[i].transactions)

\* What a branch makes of the ledger: every unspent output was made by the
\* branch and is not spent by it; every spent one was made by it, and is spent
\* by one block only.
LedgerFits(tree, block) ==
  LET path  == ancestry(tree, block)
      utxos == tree[block].state.utxos
  IN  /\ IsFiniteSet(DOMAIN utxos)
      /\ \A o \in DOMAIN utxos :
           /\ utxos[o].amount \in Nat
           /\ MintedOn(path, o)
           /\ ~SpentOn(path, o)
           /\ IsSubsidy(o) => utxos[o].isCoinbase /\ utxos[o].birthHeight = o.txid.height
      /\ \A o : SpentOn(path, o) => MintedOn(path, o)
      /\ \A i, j \in 1..Len(path) :
           i # j => SpentBy(path[i].transactions) \cap SpentBy(path[j].transactions) = {}

-----------------------------------------------------------------------------
\* What a valid block spends is unspent before it, ...
LEMMA SpendsTheUnspent ==
  ASSUME NEW state, NEW block, IsWellFormed(block), BlockApplies(state, block)
  PROVE  \A o \in SpentBy(block.transactions) :
           /\ o \in DOMAIN state.utxos
           /\ IsMature(state.utxos[o], block.header.height)
<1>1. ASSUME NEW tx \in Range(block.transactions), NEW o \in Spends(tx)
      PROVE  o \in DOMAIN state.utxos /\ IsMature(state.utxos[o], block.header.height)
  <2>1. PICK i \in DOMAIN block.transactions : tx = block.transactions[i]
    BY DEF Range
  <2>2. TransactionApplies(state.utxos, tx, block.header.height)
    BY <2>1 DEF BlockApplies
  <2> QED
    BY <2>2 DEF TransactionApplies, InputsAreSpendable
<1> QED
  BY <1>1 DEF SpentBy

\* ... and each of its transactions spends something.
LEMMA SpendsSomething ==
  ASSUME NEW state, NEW block, IsWellFormed(block), BlockApplies(state, block),
         NEW tx \in Range(block.transactions)
  PROVE  /\ IsTransaction(tx)
         /\ \E o : o \in Spends(tx)
         /\ Spends(tx) \subseteq SpentBy(block.transactions)
         /\ TransactionApplies(state.utxos, tx, block.header.height)
<1>1. PICK i \in DOMAIN block.transactions : tx = block.transactions[i]
  BY DEF Range
<1>2. TransactionApplies(state.utxos, tx, block.header.height)
  BY <1>1 DEF BlockApplies
<1>3. IsTransaction(tx)
  BY DEF IsWellFormed
<1>4. Len(tx.inputs) \in 1..MAX_TX_INPUTS /\ tx.inputs \in Seq(Range(tx.inputs))
  BY <1>2, <1>3 DEF TransactionApplies, validateSignedTransactionShape, IsTransaction
<1>5. 1 \in DOMAIN tx.inputs
  BY <1>4, LedgerAssumption
<1>6. tx.inputs[1] \in Spends(tx)
  BY <1>5 DEF Spends, Range
<1> QED
  BY <1>2, <1>3, <1>6 DEF SpentBy

\* The ledger after a block, output by output.
LEMMA LedgerAfter ==
  ASSUME NEW state, NEW block, IsWellFormed(block)
  PROVE  LET utxos   == state.utxos
             new     == applyBlock(state, block).utxos
             subsidy == CoinbaseOutpoint(block)
         IN  /\ DOMAIN new = ((DOMAIN utxos \ SpentBy(block.transactions)) \cup CreatedIn(block))
                               \cup {subsidy}
             /\ new[subsidy] = CoinbaseEntry(block)
             /\ \A o \in CreatedIn(block) : o # subsidy =>
                  /\ new[o].amount = o.txid.outputs[o.index].amount
                  /\ new[o].address = o.txid.outputs[o.index].address
                  /\ new[o].isCoinbase = FALSE /\ new[o].birthHeight = block.header.height
             /\ \A o \in DOMAIN utxos \ SpentBy(block.transactions) :
                  o \notin CreatedIn(block) /\ o # subsidy => new[o] = utxos[o]
<1> DEFINE kept == Restrict(state.utxos, DOMAIN state.utxos \ SpentBy(block.transactions))
           made == OutputsCreated(block)
           both == PutAll(kept, made)
           new  == applyBlock(state, block).utxos
<1>1. new = Put(both, CoinbaseOutpoint(block), CoinbaseEntry(block))
  BY DEF applyBlock
<1>2. /\ DOMAIN kept = DOMAIN state.utxos \ SpentBy(block.transactions)
      /\ \A o \in DOMAIN kept : kept[o] = state.utxos[o]
  BY DEF Restrict
<1>3. /\ DOMAIN made = CreatedIn(block)
      /\ \A o \in CreatedIn(block) : /\ made[o].amount = o.txid.outputs[o.index].amount
                                     /\ made[o].address = o.txid.outputs[o.index].address
                                     /\ made[o].isCoinbase = FALSE
                                     /\ made[o].birthHeight = block.header.height
  BY DEF OutputsCreated, CreatedIn
<1> HIDE DEF kept, made
<1>4. /\ DOMAIN both = DOMAIN kept \cup DOMAIN made
      /\ \A o \in DOMAIN made : both[o] = made[o]
      /\ \A o \in DOMAIN kept \ DOMAIN made : both[o] = kept[o]
  BY DEF PutAll
<1> HIDE DEF both, new
<1>5. /\ DOMAIN new = DOMAIN both \cup {CoinbaseOutpoint(block)}
      /\ new[CoinbaseOutpoint(block)] = CoinbaseEntry(block)
      /\ \A o \in DOMAIN both : o # CoinbaseOutpoint(block) => new[o] = both[o]
  BY <1>1 DEF Put
<1>6. DOMAIN new = ((DOMAIN state.utxos \ SpentBy(block.transactions)) \cup CreatedIn(block))
                     \cup {CoinbaseOutpoint(block)}
  BY <1>2, <1>3, <1>4, <1>5
<1>7. \A o \in CreatedIn(block) : o # CoinbaseOutpoint(block) =>
        /\ new[o].amount = o.txid.outputs[o.index].amount
        /\ new[o].address = o.txid.outputs[o.index].address
        /\ new[o].isCoinbase = FALSE /\ new[o].birthHeight = block.header.height
  BY <1>3, <1>4, <1>5
<1>8. \A o \in DOMAIN state.utxos \ SpentBy(block.transactions) :
        o \notin CreatedIn(block) /\ o # CoinbaseOutpoint(block) => new[o] = state.utxos[o]
  BY <1>2, <1>3, <1>4, <1>5
<1> QED
  BY <1>5, <1>6, <1>7, <1>8 DEF new

\* A branch that grows by a block keeps what it made, and spends more.
LEMMA BranchGrows ==
  ASSUME NEW S, NEW path \in Seq(S), NEW block \in S
  PROVE  LET longer == Append(path, block)
         IN  /\ \A o : SpentOn(longer, o) <=> SpentOn(path, o) \/ o \in SpentBy(block.transactions)
             /\ \A o : MintedOn(path, o) => MintedOn(longer, o)
             /\ \A o : ~IsSubsidy(o) /\ o.txid \in Range(block.transactions) => MintedOn(longer, o)
<1> DEFINE longer == Append(path, block)
<1>1. /\ Len(path) \in Nat /\ Len(longer) = Len(path) + 1
      /\ \A i \in 1..Len(path) : longer[i] = path[i]
      /\ longer[Len(longer)] = block
  OBVIOUS
<1> HIDE DEF longer
<1>2. ASSUME NEW o
      PROVE  SpentOn(longer, o) <=> SpentOn(path, o) \/ o \in SpentBy(block.transactions)
  <2>1. ASSUME SpentOn(longer, o), o \notin SpentBy(block.transactions) PROVE SpentOn(path, o)
    <3>1. PICK i \in 1..Len(longer) : o \in SpentBy(longer[i].transactions)
      BY <2>1 DEF SpentOn
    <3>2. i # Len(longer)
      BY <1>1, <2>1, <3>1
    <3>3. i \in 1..Len(path) /\ longer[i] = path[i]
      BY <1>1, <3>2
    <3> QED
      BY <3>1, <3>3 DEF SpentOn
  <2>2. ASSUME SpentOn(path, o) PROVE SpentOn(longer, o)
    <3>1. PICK i \in 1..Len(path) : o \in SpentBy(path[i].transactions)
      BY <2>2 DEF SpentOn
    <3>2. i \in 1..Len(longer) /\ longer[i] = path[i]
      BY <1>1
    <3> QED
      BY <3>1, <3>2 DEF SpentOn
  <2>3. ASSUME o \in SpentBy(block.transactions) PROVE SpentOn(longer, o)
    <3>1. Len(longer) \in 1..Len(longer)
      BY <1>1
    <3> QED
      BY <1>1, <2>3, <3>1 DEF SpentOn
  <2> QED
    BY <2>1, <2>2, <2>3
<1>3. ASSUME NEW o, MintedOn(path, o) PROVE MintedOn(longer, o)
  <2>1. CASE IsSubsidy(o)
    <3> DEFINE i == o.txid.height + 1
    <3>1. o.txid.height \in 1..Len(path) - 1 /\ coinbaseId(path[i]) = o.txid
      BY <1>3, <2>1 DEF MintedOn
    <3>2. o.txid.height \in 1..Len(longer) - 1 /\ i \in 1..Len(path)
      BY <1>1, <3>1
    <3> HIDE DEF i
    <3>3. longer[i] = path[i]
      BY <1>1, <3>2
    <3> QED
      BY <2>1, <3>1, <3>2, <3>3 DEF MintedOn, i
  <2>2. CASE ~IsSubsidy(o)
    <3>1. PICK i \in 1..Len(path) : o.txid \in Range(path[i].transactions)
      BY <1>3, <2>2 DEF MintedOn
    <3>2. i \in 1..Len(longer) /\ longer[i] = path[i]
      BY <1>1
    <3> QED
      BY <2>2, <3>1, <3>2 DEF MintedOn
  <2> QED
    BY <2>1, <2>2
<1>4. ASSUME NEW o, ~IsSubsidy(o), o.txid \in Range(block.transactions) PROVE MintedOn(longer, o)
  <2>1. Len(longer) \in 1..Len(longer)
    BY <1>1
  <2> QED
    BY <1>1, <1>4, <2>1 DEF MintedOn
<1> QED
  BY <1>2, <1>3, <1>4 DEF longer

\* What a block makes was not there before it: a transaction that a block of
\* the branch holds already would spend what is spent.
LEMMA NewOutputsAreNew ==
  ASSUME NEW tree, IsTree(tree), NEW block \in DOMAIN tree \ {Genesis},
         LedgerFits(tree, ParentOf(block))
  PROVE  LET path == ancestry(tree, ParentOf(block))
         IN  /\ \A o \in CreatedIn(block) : /\ ~IsSubsidy(o) /\ ~MintedOn(path, o)
                                            /\ o.txid \in Range(block.transactions)
             /\ IsSubsidy(CoinbaseOutpoint(block)) /\ ~MintedOn(path, CoinbaseOutpoint(block))
             /\ CoinbaseOutpoint(block).txid = coinbaseId(block)
             /\ CoinbaseOutpoint(block).txid.height = block.header.height
<1> DEFINE parent == ParentOf(block)
           path == ancestry(tree, parent)
<1>1. /\ parent \in DOMAIN tree /\ IsWellFormed(block)
      /\ block.header.height = parent.header.height + 1
      /\ BlockApplies(tree[parent].state, block)
  BY DEF IsTree
<1>2. Len(path) = block.header.height /\ block.header.height \in Nat
  BY <1>1, AncestryIsBranch, HeightsInTree
<1>3. ASSUME NEW o \in CreatedIn(block)
      PROVE  /\ ~IsSubsidy(o) /\ ~MintedOn(path, o)
             /\ o.txid \in Range(block.transactions)
  <2>1. PICK tx \in Range(block.transactions) : o \in OutpointsOf(tx)
    BY DEF CreatedIn
  <2>2. o.txid = tx
    BY <2>1 DEF OutpointsOf
  <2>3. /\ IsTransaction(tx)
        /\ \E spent : spent \in Spends(tx)
        /\ Spends(tx) \subseteq SpentBy(block.transactions)
    BY <1>1, SpendsSomething
  <2>4. ~IsSubsidy(o)
    BY <2>2, <2>3 DEF IsSubsidy, IsTransaction
  <2>5. ASSUME NEW i \in 1..Len(path), tx \in Range(path[i].transactions) PROVE FALSE
    <3>1. PICK spent : spent \in Spends(tx)
      BY <2>3
    <3>2. SpentOn(path, spent)
      BY <2>5, <3>1 DEF SpentOn, SpentBy
    <3>3. spent \in DOMAIN tree[parent].state.utxos
      BY <1>1, <2>3, <3>1, SpendsTheUnspent
    <3> QED
      BY <3>2, <3>3 DEF LedgerFits
  <2> HIDE DEF path
  <2> QED
    BY <2>2, <2>4, <2>5 DEF MintedOn
<1>4. /\ CoinbaseOutpoint(block).txid = coinbaseId(block)
      /\ CoinbaseOutpoint(block).txid.height = block.header.height
      /\ IsSubsidy(CoinbaseOutpoint(block))
  BY DEF CoinbaseOutpoint, coinbaseId, IsSubsidy
<1>5. ~MintedOn(path, CoinbaseOutpoint(block))
  BY <1>2, <1>4 DEF MintedOn
<1> QED
  BY <1>3, <1>4, <1>5

\* The subsidy is an amount.
LEMMA SubsidyIsAmount ==
  ASSUME NEW state, NEW block, IsWellFormed(block), BlockApplies(state, block),
         state.issued \in 0..TOTAL_SUPPLY
  PROVE  /\ CoinbaseEntry(block).amount = rewardForBlock(block.header.height, state.issued)
         /\ CoinbaseEntry(block).amount \in Nat
         /\ CoinbaseEntry(block).isCoinbase = TRUE
         /\ CoinbaseEntry(block).birthHeight = block.header.height
<1>1. CoinbaseEntry(block).amount = rewardForBlock(block.header.height, state.issued)
  BY DEF CoinbaseEntry, BlockApplies, CoinbaseApplies
<1>2. rewardForBlock(block.header.height, state.issued) \in Nat
  BY RewardIsPositive DEF IsWellFormed
<1>3. /\ CoinbaseEntry(block).isCoinbase = TRUE
      /\ CoinbaseEntry(block).birthHeight = block.header.height
  BY DEF CoinbaseEntry
<1> QED
  BY <1>1, <1>2, <1>3

\* The image of a finite set under a function is finite.
LEMMA FiniteImage ==
  ASSUME NEW S, IsFiniteSet(S), NEW f
  PROVE  IsFiniteSet({f[x] : x \in S})
<1> DEFINE image == {f[x] : x \in S}
           g == [x \in S |-> f[x]]
<1>1. g \in Surjection(S, image)
  BY DEF Surjection
<1> HIDE DEF g, image
<1>2. IsFiniteSet(image)
  BY <1>1, FS_Surjection
<1> QED
  BY <1>2 DEF image

\* A block makes finitely many outputs, of amounts.
LEMMA CreatedAreAmounts ==
  ASSUME NEW state, NEW block, IsWellFormed(block), BlockApplies(state, block)
  PROVE  /\ IsFiniteSet(CreatedIn(block))
         /\ \A o \in CreatedIn(block) : o.txid.outputs[o.index].amount \in Nat
<1>1. ASSUME NEW tx \in Range(block.transactions)
      PROVE  /\ IsFiniteSet(OutpointsOf(tx))
             /\ \A o \in OutpointsOf(tx) : o.txid.outputs[o.index].amount \in Nat
  <2>1. IsTransaction(tx)
    BY DEF IsWellFormed
  <2>2. IsFiniteSet(DOMAIN tx.outputs)
    BY <2>1, PositionsAreFinite DEF IsTransaction
  <2>3. IsFiniteSet(OutpointsOf(tx))
    <3> DEFINE f == [i \in DOMAIN tx.outputs |-> [txid |-> tx, index |-> i]]
    <3>1. OutpointsOf(tx) = {f[i] : i \in DOMAIN tx.outputs}
      BY DEF OutpointsOf
    <3> HIDE DEF f
    <3>2. IsFiniteSet({f[i] : i \in DOMAIN tx.outputs})
      BY <2>2, FiniteImage
    <3> QED
      BY <3>1, <3>2
  <2>4. \A o \in OutpointsOf(tx) : o.txid.outputs[o.index].amount \in Nat
    BY <2>1 DEF OutpointsOf, IsTransaction
  <2> QED
    BY <2>3, <2>4
<1>2. IsFiniteSet(Range(block.transactions))
  <2>1. IsFiniteSet(DOMAIN block.transactions)
    BY PositionsAreFinite DEF IsWellFormed
  <2> QED
    BY <2>1, FiniteImage DEF Range
<1>3. IsFiniteSet({OutpointsOf(tx) : tx \in Range(block.transactions)})
  <2> DEFINE f == [tx \in Range(block.transactions) |-> OutpointsOf(tx)]
  <2>1. {OutpointsOf(tx) : tx \in Range(block.transactions)}
          = {f[tx] : tx \in Range(block.transactions)}
    OBVIOUS
  <2> HIDE DEF f
  <2>2. IsFiniteSet({f[tx] : tx \in Range(block.transactions)})
    BY <1>2, FiniteImage
  <2> QED
    BY <2>1, <2>2
<1>4. IsFiniteSet(CreatedIn(block))
  <2> DEFINE F == {OutpointsOf(tx) : tx \in Range(block.transactions)}
  <2>1. IsFiniteSet(F) /\ \A T \in F : IsFiniteSet(T)
    BY <1>1, <1>3
  <2> HIDE DEF F
  <2>2. IsFiniteSet(UNION F)
    BY <2>1, FS_UNION
  <2> QED
    BY <2>2 DEF F, CreatedIn
<1> QED
  BY <1>1, <1>4 DEF CreatedIn

\* The ledger of every branch fits what the branch made and spent.
LEMMA LedgersFit ==
  ASSUME NEW tree, IsTree(tree),
         \A block \in DOMAIN tree : tree[block].state.issued \in 0..TOTAL_SUPPLY
  PROVE  \A block \in DOMAIN tree : LedgerFits(tree, block)
<1> DEFINE Q == {block \in DOMAIN tree : LedgerFits(tree, block)}
<1>1. Genesis \in Q
  <2> DEFINE path == ancestry(tree, Genesis)
             utxos == tree[Genesis].state.utxos
  <2>1. path = <<Genesis>> /\ Genesis.transactions = <<>>
    BY AncestryUnfolds DEF Genesis, createGenesisBlock
  <2>2. DOMAIN utxos = {} /\ Genesis \in DOMAIN tree
    BY DEF IsTree, GenesisEntry, GenesisState
  <2>3. Len(path) = 1 /\ SpentBy(path[1].transactions) = {}
    BY <2>1 DEF SpentBy, Range
  <2> HIDE DEF path, utxos
  <2>4. \A o : ~SpentOn(path, o)
    BY <2>3 DEF SpentOn
  <2>5. LedgerFits(tree, Genesis)
    BY <2>2, <2>3, <2>4, FS_EmptySet DEF LedgerFits, path, utxos
  <2> QED
    BY <2>2, <2>5
<1>2. ASSUME NEW block \in DOMAIN tree \ {Genesis}, ParentOf(block) \in Q
      PROVE  LedgerFits(tree, block)
  <2> DEFINE parent == ParentOf(block)
             state  == tree[parent].state
             path   == ancestry(tree, parent)
             longer == ancestry(tree, block)
             utxos  == state.utxos
             new    == tree[block].state.utxos
             spent  == SpentBy(block.transactions)
             subsidy == CoinbaseOutpoint(block)
  <2>1. /\ parent \in DOMAIN tree /\ LedgerFits(tree, parent) /\ IsWellFormed(block)
        /\ block.header.height = parent.header.height + 1
        /\ BlockApplies(state, block)
        /\ state.issued \in 0..TOTAL_SUPPLY
    BY <1>2 DEF IsTree
  <2>2. new = applyBlock(state, block).utxos
    <3>1. tree[block] = entryFor(tree, block)
      BY DEF IsTree
    <3> QED
      BY <3>1 DEF entryFor, ParentOf
  <2>3. /\ path \in Seq(DOMAIN tree) /\ Len(path) = block.header.height
        /\ block.header.height \in Nat \ {0}
        /\ longer = Append(path, block)
    BY <2>1, AncestryIsBranch, AncestryUnfolds, HeightsInTree
  <2>4. /\ \A o \in spent : o \in DOMAIN utxos
        /\ \A o \in DOMAIN utxos :
             /\ utxos[o].amount \in Nat /\ MintedOn(path, o) /\ ~SpentOn(path, o)
             /\ IsSubsidy(o) => utxos[o].isCoinbase /\ utxos[o].birthHeight = o.txid.height
        /\ \A o : SpentOn(path, o) => MintedOn(path, o)
    BY <2>1, SpendsTheUnspent DEF LedgerFits
  <2>5. /\ \A o \in CreatedIn(block) : /\ ~IsSubsidy(o) /\ ~MintedOn(path, o)
                                       /\ o.txid \in Range(block.transactions)
        /\ IsSubsidy(subsidy) /\ ~MintedOn(path, subsidy)
        /\ subsidy.txid = coinbaseId(block)
        /\ subsidy.txid.height = block.header.height
    BY <2>1, NewOutputsAreNew
  <2>6. /\ DOMAIN new = ((DOMAIN utxos \ spent) \cup CreatedIn(block)) \cup {subsidy}
        /\ new[subsidy] = CoinbaseEntry(block)
        /\ \A o \in CreatedIn(block) : o # subsidy =>
             /\ new[o].amount = o.txid.outputs[o.index].amount
             /\ new[o].isCoinbase = FALSE
        /\ \A o \in DOMAIN utxos \ spent :
             o \notin CreatedIn(block) /\ o # subsidy => new[o] = utxos[o]
    <3> DEFINE after == applyBlock(state, block).utxos
    <3> HIDE DEF state, spent, subsidy
    <3>1. /\ DOMAIN after = ((DOMAIN state.utxos \ SpentBy(block.transactions)) \cup CreatedIn(block))
                              \cup {CoinbaseOutpoint(block)}
          /\ after[CoinbaseOutpoint(block)] = CoinbaseEntry(block)
          /\ \A o \in CreatedIn(block) : o # CoinbaseOutpoint(block) =>
               /\ after[o].amount = o.txid.outputs[o.index].amount
               /\ after[o].address = o.txid.outputs[o.index].address
               /\ after[o].isCoinbase = FALSE /\ after[o].birthHeight = block.header.height
          /\ \A o \in DOMAIN state.utxos \ SpentBy(block.transactions) :
               o \notin CreatedIn(block) /\ o # CoinbaseOutpoint(block) => after[o] = state.utxos[o]
      BY <2>1, LedgerAfter
    <3>2. new = after
      BY <2>2
    <3> HIDE DEF after, new
    <3> QED
      BY <3>1, <3>2 DEF spent, subsidy
  <2>7. /\ \A o : SpentOn(longer, o) <=> SpentOn(path, o) \/ o \in spent
        /\ \A o : MintedOn(path, o) => MintedOn(longer, o)
        /\ \A o : ~IsSubsidy(o) /\ o.txid \in Range(block.transactions) => MintedOn(longer, o)
    BY <2>3, BranchGrows
  <2>8. /\ CoinbaseEntry(block).amount \in Nat
        /\ CoinbaseEntry(block).isCoinbase = TRUE
        /\ CoinbaseEntry(block).birthHeight = block.header.height
    BY <2>1, SubsidyIsAmount
  <2>9. /\ IsFiniteSet(CreatedIn(block))
        /\ \A o \in CreatedIn(block) : o.txid.outputs[o.index].amount \in Nat
    BY <2>1, CreatedAreAmounts
  <2>10. IsFiniteSet(DOMAIN new)
    <3>1. IsFiniteSet(DOMAIN utxos)
      BY <2>1 DEF LedgerFits
    <3> HIDE DEF utxos, new, spent, subsidy
    <3>2. IsFiniteSet(DOMAIN utxos \ spent)
      BY <3>1, FS_Difference
    <3>3. IsFiniteSet((DOMAIN utxos \ spent) \cup CreatedIn(block))
      BY <2>9, <3>2, FS_Union
    <3> QED
      BY <2>6, <3>3, FS_AddElement
  <2>11. MintedOn(longer, subsidy)
    <3> DEFINE i == subsidy.txid.height
    <3>1. i \in 1..Len(longer) - 1 /\ longer[i + 1] = block
      BY <2>3, <2>5
    <3> HIDE DEF i, longer, subsidy
    <3> QED
      BY <2>5, <3>1 DEF MintedOn, i
  <2> HIDE DEF utxos, new, spent, subsidy, path, longer
  <2>12. ASSUME NEW o \in DOMAIN new
         PROVE  /\ new[o].amount \in Nat /\ MintedOn(longer, o) /\ ~SpentOn(longer, o)
                /\ IsSubsidy(o) => new[o].isCoinbase /\ new[o].birthHeight = o.txid.height
    <3>1. CASE o = subsidy
      BY <2>4, <2>5, <2>6, <2>7, <2>8, <2>11, <3>1
    <3>2. CASE o \in CreatedIn(block)
      BY <2>4, <2>5, <2>6, <2>7, <2>9, <3>2
    <3>3. CASE o \in DOMAIN utxos \ spent /\ o \notin CreatedIn(block) /\ o # subsidy
      BY <2>4, <2>6, <2>7, <3>3
    <3> QED
      BY <2>6, <3>1, <3>2, <3>3
  <2>13. \A o : SpentOn(longer, o) => MintedOn(longer, o)
    BY <2>4, <2>7
  <2>14. ASSUME NEW i \in 1..Len(longer), NEW j \in 1..Len(longer), i # j
         PROVE  SpentBy(longer[i].transactions) \cap SpentBy(longer[j].transactions) = {}
    <3>1. /\ Len(path) \in Nat /\ Len(longer) = Len(path) + 1
          /\ longer[Len(longer)] = block
          /\ \A k \in 1..Len(path) : longer[k] = path[k]
      BY <2>3
    <3>2. ASSUME NEW k \in 1..Len(path)
          PROVE  SpentBy(path[k].transactions) \cap spent = {}
      BY <2>4 DEF SpentOn
    <3>3. \A k, l \in 1..Len(path) :
            k # l => SpentBy(path[k].transactions) \cap SpentBy(path[l].transactions) = {}
      BY <2>1 DEF LedgerFits, path
    <3>4. CASE i \in 1..Len(path) /\ j \in 1..Len(path)
      BY <2>14, <3>1, <3>3, <3>4
    <3>5. CASE i = Len(longer) /\ j \in 1..Len(path)
      BY <3>1, <3>2, <3>5 DEF spent
    <3>6. CASE j = Len(longer) /\ i \in 1..Len(path)
      BY <3>1, <3>2, <3>6 DEF spent
    <3> QED
      BY <2>14, <3>1, <3>4, <3>5, <3>6
  <2> QED
    BY <2>10, <2>12, <2>13, <2>14 DEF LedgerFits, new, longer
<1>3. \A block \in DOMAIN tree \ {Genesis} : ParentOf(block) \in Q => block \in Q
  BY <1>2
<1> HIDE DEF Q
<1>4. \A block \in DOMAIN tree : block \in Q
  BY <1>1, <1>3, TreeInduction
<1> QED
  BY <1>4 DEF Q

\* What the inputs of one transaction are worth, counted output by output.
LEMMA InputsAddUp ==
  ASSUME NEW utxos, NEW tx, IsTransaction(tx), IsInjective(tx.inputs),
         NEW f, \A o \in Spends(tx) : f[o] = utxos[o].amount /\ f[o] \in Int
  PROVE  /\ IsFiniteSet(Spends(tx))
         /\ SumFunctionOnSet(f, Spends(tx)) = InputSum(utxos, tx)
<1> DEFINE S == DOMAIN tx.inputs
           h == tx.inputs
           g == [i \in S |-> utxos[tx.inputs[i]].amount]
<1>1. IsFiniteSet(S)
  BY PositionsAreFinite DEF IsTransaction
<1>2. \A x, y \in S : h[x] = h[y] => x = y
  BY DEF IsInjective
<1>3. \A x \in S : f[h[x]] \in Int /\ g[x] = f[h[x]]
  BY DEF Spends, Range
<1>4. Spends(tx) = {h[x] : x \in S}
  BY DEF Spends, Range
<1>5. InputSum(utxos, tx) = SumFunctionOnSet(g, S)
  <2>1. DOMAIN g = S
    OBVIOUS
  <2>2. InputSum(utxos, tx) = SumFunction(g)
    BY DEF InputSum
  <2> HIDE DEF g
  <2> QED
    BY <2>1, <2>2 DEF SumFunction
<1> HIDE DEF S, g, h
<1>6. /\ IsFiniteSet({h[x] : x \in S})
      /\ SumFunctionOnSet(f, {h[x] : x \in S}) = SumFunctionOnSet(g, S)
  BY <1>1, <1>2, <1>3, SumOfImage
<1> QED
  BY <1>4, <1>5, <1>6

\* f is what the outputs of a set are worth.
IsWorth(f, S) == \A o \in S : f[o] = o.txid.outputs[o.index].amount

\* What the outputs of one transaction are worth.
LEMMA OutputsAddUp ==
  ASSUME NEW tx, IsTransaction(tx),
         NEW f, IsWorth(f, OutpointsOf(tx))
  PROVE  /\ IsFiniteSet(OutpointsOf(tx))
         /\ \A o \in OutpointsOf(tx) : f[o] \in Int
         /\ SumFunctionOnSet(f, OutpointsOf(tx)) = SumOutputs(tx.outputs)
<1> DEFINE S == DOMAIN tx.outputs
           h == [i \in S |-> [txid |-> tx, index |-> i]]
           g == [i \in S |-> tx.outputs[i].amount]
<1>1. IsFiniteSet(S)
  BY PositionsAreFinite DEF IsTransaction
<1>2. \A x, y \in S : h[x] = h[y] => x = y
  <2> TAKE x, y \in S
  <2>1. h[x].index = x /\ h[y].index = y
    OBVIOUS
  <2> QED
    BY <2>1
<1>3. OutpointsOf(tx) = {h[x] : x \in S}
  BY DEF OutpointsOf
<1>4. \A x \in S : f[h[x]] \in Int /\ g[x] = f[h[x]]
  <2> TAKE x \in S
  <2>1. h[x] \in OutpointsOf(tx) /\ h[x].txid = tx /\ h[x].index = x
    BY <1>3
  <2>2. f[h[x]] = tx.outputs[x].amount /\ tx.outputs[x].amount \in Nat
    BY <2>1 DEF IsTransaction, IsWorth
  <2> QED
    BY <2>2
<1>5. SumOutputs(tx.outputs) = SumFunctionOnSet(g, S)
  <2>1. DOMAIN g = S
    OBVIOUS
  <2>2. SumOutputs(tx.outputs) = SumFunction(g)
    BY DEF SumOutputs
  <2> HIDE DEF g
  <2> QED
    BY <2>1, <2>2 DEF SumFunction
<1> HIDE DEF S, g, h
<1>6. /\ IsFiniteSet({h[x] : x \in S})
      /\ SumFunctionOnSet(f, {h[x] : x \in S}) = SumFunctionOnSet(g, S)
  BY <1>1, <1>2, <1>4, SumOfImage
<1> QED
  BY <1>3, <1>4, <1>5, <1>6

\* The union of finitely many finite sets is finite.
LEMMA FamilyIsFinite ==
  ASSUME NEW I, IsFiniteSet(I), NEW A, \A i \in I : IsFiniteSet(A[i])
  PROVE  IsFiniteSet(UNION {A[i] : i \in I})
<1> DEFINE parts == {A[i] : i \in I}
<1>1. \A T \in parts : IsFiniteSet(T)
  OBVIOUS
<1>2. IsFiniteSet(parts)
  BY FiniteImage
<1> HIDE DEF parts
<1>3. IsFiniteSet(UNION parts)
  BY <1>1, <1>2, FS_UNION
<1> QED
  BY <1>3 DEF parts

\* What a block spends, counted transaction by transaction: nothing twice, as
\* long as no two of its transactions spend one output.
LEMMA SpendingsAddUp ==
  ASSUME NEW utxos, NEW block, IsWellFormed(block), ConflictFree(block),
         \A i \in DOMAIN block.transactions : IsInjective(block.transactions[i].inputs),
         NEW f, \A o \in SpentBy(block.transactions) : f[o] = utxos[o].amount /\ f[o] \in Int
  PROVE  /\ IsFiniteSet(SpentBy(block.transactions))
         /\ SumFunctionOnSet(f, SpentBy(block.transactions))
              = SumFunctionOnSet([i \in DOMAIN block.transactions |->
                                    InputSum(utxos, block.transactions[i])],
                                 DOMAIN block.transactions)
<1> DEFINE I == DOMAIN block.transactions
           A == [i \in I |-> Spends(block.transactions[i])]
           g == [i \in I |-> InputSum(utxos, block.transactions[i])]
<1>1. IsFiniteSet(I)
  BY PositionsAreFinite DEF IsWellFormed
<1>2. SpentBy(block.transactions) = UNION {A[i] : i \in I}
  BY DEF SpentBy, Range
<1>3. ASSUME NEW i \in I
      PROVE  /\ IsFiniteSet(A[i]) /\ g[i] = SumFunctionOnSet(f, A[i])
             /\ \A x \in A[i] : f[x] \in Int
  <2>1. A[i] = Spends(block.transactions[i]) /\ A[i] \subseteq SpentBy(block.transactions)
    BY <1>2
  <2>2. IsTransaction(block.transactions[i]) /\ IsInjective(block.transactions[i].inputs)
    BY DEF IsWellFormed, Range
  <2>3. g[i] = InputSum(utxos, block.transactions[i])
    OBVIOUS
  <2> HIDE DEF A, g
  <2>4. \A o \in Spends(block.transactions[i]) : f[o] = utxos[o].amount /\ f[o] \in Int
    BY <2>1
  <2> QED
    BY <2>1, <2>2, <2>3, <2>4, InputsAddUp
<1>4. \A i, j \in I : i # j => A[i] \cap A[j] = {}
  BY DEF ConflictFree
<1> HIDE DEF I, A, g
<1>5. SumFunctionOnSet(f, UNION {A[i] : i \in I}) = SumFunctionOnSet(g, I)
  BY <1>1, <1>3, <1>4, SumOfFamily
<1>6. IsFiniteSet(UNION {A[i] : i \in I})
  BY <1>1, <1>3, FamilyIsFinite
<1> QED
  BY <1>2, <1>5, <1>6 DEF I, g

\* What a block makes, counted transaction by transaction.
LEMMA CreationsAddUp ==
  ASSUME NEW block, IsWellFormed(block), IsInjective(block.transactions),
         NEW f, IsWorth(f, CreatedIn(block))
  PROVE  SumFunctionOnSet(f, CreatedIn(block))
           = SumFunctionOnSet([i \in DOMAIN block.transactions |->
                                 SumOutputs(block.transactions[i].outputs)],
                              DOMAIN block.transactions)
<1> DEFINE I == DOMAIN block.transactions
           A == [i \in I |-> OutpointsOf(block.transactions[i])]
           g == [i \in I |-> SumOutputs(block.transactions[i].outputs)]
<1>1. IsFiniteSet(I)
  BY PositionsAreFinite DEF IsWellFormed
<1>2. CreatedIn(block) = UNION {A[i] : i \in I}
  BY DEF CreatedIn, Range
<1>3. ASSUME NEW i \in I
      PROVE  /\ IsFiniteSet(A[i]) /\ g[i] = SumFunctionOnSet(f, A[i])
             /\ \A x \in A[i] : f[x] \in Int
  <2>1. A[i] = OutpointsOf(block.transactions[i]) /\ A[i] \subseteq CreatedIn(block)
    BY <1>2
  <2>2. IsTransaction(block.transactions[i])
    BY DEF IsWellFormed, Range
  <2>3. g[i] = SumOutputs(block.transactions[i].outputs)
    OBVIOUS
  <2> HIDE DEF A, g
  <2>4. IsWorth(f, OutpointsOf(block.transactions[i]))
    BY <2>1 DEF IsWorth
  <2> QED
    BY <2>1, <2>2, <2>3, <2>4, OutputsAddUp
<1>4. ASSUME NEW i \in I, NEW j \in I, i # j PROVE A[i] \cap A[j] = {}
  <2>1. block.transactions[i] # block.transactions[j]
    BY <1>4 DEF IsInjective
  <2>2. /\ \A o \in A[i] : o.txid = block.transactions[i]
        /\ \A o \in A[j] : o.txid = block.transactions[j]
    BY DEF OutpointsOf
  <2> QED
    BY <2>1, <2>2
<1> HIDE DEF I, A, g
<1>5. SumFunctionOnSet(f, UNION {A[i] : i \in I}) = SumFunctionOnSet(g, I)
  BY <1>1, <1>3, <1>4, SumOfFamily
<1> QED
  BY <1>2, <1>5 DEF I, g

\* The fees of a block are an amount.
LEMMA FeesAreAmounts ==
  ASSUME NEW block, IsWellFormed(block)
  PROVE  /\ IsFiniteSet(DOMAIN block.transactions)
         /\ \A i \in DOMAIN block.transactions : block.transactions[i].fee \in Int
         /\ FeesBurned(block.transactions)
              = SumFunctionOnSet([i \in DOMAIN block.transactions |-> block.transactions[i].fee],
                                 DOMAIN block.transactions)
         /\ FeesBurned(block.transactions) \in Int
<1> DEFINE I == DOMAIN block.transactions
           g == [i \in I |-> block.transactions[i].fee]
<1>1. IsFiniteSet(I)
  BY PositionsAreFinite DEF IsWellFormed
<1>2. \A i \in I : block.transactions[i].fee \in Int /\ g[i] \in Int
  <2> TAKE i \in I
  <2>1. IsTransaction(block.transactions[i])
    BY DEF IsWellFormed, Range
  <2> QED
    BY <2>1 DEF IsTransaction
<1>3. FeesBurned(block.transactions) = SumFunctionOnSet(g, I)
  <2>1. DOMAIN g = I /\ FeesBurned(block.transactions) = SumFunction(g)
    BY DEF FeesBurned
  <2> HIDE DEF g
  <2> QED
    BY <2>1 DEF SumFunction
<1>4. SumFunctionOnSet(g, I) \in Int
  <2> HIDE DEF g, I
  <2> QED
    BY <1>1, <1>2, SumIsInt
<1> QED
  BY <1>1, <1>2, <1>3, <1>4

\* A block pays out what it collects, but for the fees it burns.
LEMMA TransactionsBalance ==
  ASSUME NEW state, NEW block, IsWellFormed(block), BlockApplies(state, block)
  PROVE  SumFunctionOnSet([i \in DOMAIN block.transactions |->
                             InputSum(state.utxos, block.transactions[i])],
                          DOMAIN block.transactions)
           = SumFunctionOnSet([i \in DOMAIN block.transactions |->
                                 SumOutputs(block.transactions[i].outputs)],
                              DOMAIN block.transactions)
             + FeesBurned(block.transactions)
<1> DEFINE I == DOMAIN block.transactions
           h == [i \in I |-> InputSum(state.utxos, block.transactions[i])]
           f == [i \in I |-> SumOutputs(block.transactions[i].outputs)]
           g == [i \in I |-> block.transactions[i].fee]
<1>1. /\ IsFiniteSet(I) /\ FeesBurned(block.transactions) = SumFunctionOnSet(g, I)
      /\ \A i \in I : g[i] \in Int
  BY FeesAreAmounts
<1>2. ASSUME NEW i \in I PROVE f[i] \in Int /\ h[i] = f[i] + g[i]
  <2> DEFINE tx == block.transactions[i]
             worth == [o \in OutpointsOf(tx) |-> o.txid.outputs[o.index].amount]
  <2>1. IsTransaction(tx) /\ TransactionApplies(state.utxos, tx, block.header.height)
    BY DEF IsWellFormed, BlockApplies, Range
  <2>2. SumOutputs(tx.outputs) \in Int
    <3>1. IsWorth(worth, OutpointsOf(tx))
      BY DEF IsWorth
    <3> HIDE DEF worth, tx
    <3>2. /\ IsFiniteSet(OutpointsOf(tx))
          /\ \A o \in OutpointsOf(tx) : worth[o] \in Int
          /\ SumFunctionOnSet(worth, OutpointsOf(tx)) = SumOutputs(tx.outputs)
      BY <2>1, <3>1, OutputsAddUp
    <3>3. SumFunctionOnSet(worth, OutpointsOf(tx)) \in Int
      BY <3>2, SumIsInt
    <3> QED
      BY <3>2, <3>3
  <2>3. InputSum(state.utxos, tx) = SumOutputs(tx.outputs) + tx.fee
    BY <2>1 DEF TransactionApplies
  <2> QED
    BY <2>2, <2>3
<1> HIDE DEF I, f, g, h
<1>3. SumFunctionOnSet(h, I) = SumFunctionOnSet(f, I) + SumFunctionOnSet(g, I)
  BY <1>1, <1>2, SumOfPairs
<1> QED
  BY <1>1, <1>3 DEF I, f, h

\* What a block without two spends of one output does to what circulates: it
\* adds the subsidy and burns the fees.
LEMMA CirculatingAfter ==
  ASSUME NEW tree, IsTree(tree), NEW block \in DOMAIN tree \ {Genesis},
         LedgerFits(tree, ParentOf(block)), ConflictFree(block),
         tree[ParentOf(block)].state.issued \in 0..TOTAL_SUPPLY
  PROVE  /\ Circulating(tree[ParentOf(block)].state) \in Int
         /\ Circulating(tree[block].state)
              = Circulating(tree[ParentOf(block)].state) + CoinbaseEntry(block).amount
                  - FeesBurned(block.transactions)
<1> DEFINE parent == ParentOf(block)
           state  == tree[parent].state
           after  == applyBlock(state, block)
           spent  == SpentBy(block.transactions)
           made   == CreatedIn(block)
           kept   == DOMAIN state.utxos \ spent
           subsidy == CoinbaseOutpoint(block)
           f == [o \in DOMAIN state.utxos |-> state.utxos[o].amount]
           g == [o \in DOMAIN after.utxos |-> after.utxos[o].amount]
           inputs == SumFunctionOnSet([i \in DOMAIN block.transactions |->
                                         InputSum(state.utxos, block.transactions[i])],
                                      DOMAIN block.transactions)
           outputs == SumFunctionOnSet([i \in DOMAIN block.transactions |->
                                          SumOutputs(block.transactions[i].outputs)],
                                       DOMAIN block.transactions)
<1>1. /\ IsWellFormed(block) /\ BlockApplies(state, block) /\ tree[block].state = after
      /\ IsFiniteSet(DOMAIN state.utxos)
      /\ \A o \in DOMAIN state.utxos : f[o] \in Nat /\ f[o] = state.utxos[o].amount
  <2>1. tree[block] = entryFor(tree, block) /\ IsWellFormed(block) /\ BlockApplies(state, block)
    BY DEF IsTree
  <2>2. tree[block].state = after
    BY <2>1 DEF entryFor, ParentOf
  <2> QED
    BY <2>1, <2>2 DEF LedgerFits
<1>2. /\ \A o \in spent : o \in DOMAIN state.utxos
      /\ \A o \in made : o \notin DOMAIN state.utxos /\ o # subsidy
      /\ subsidy \notin DOMAIN state.utxos
  <2> DEFINE path == ancestry(tree, parent)
  <2>1. \A o \in spent : o \in DOMAIN state.utxos
    BY <1>1, SpendsTheUnspent
  <2>2. \A o \in DOMAIN state.utxos : MintedOn(path, o)
    BY DEF LedgerFits
  <2>3. /\ \A o \in made : ~IsSubsidy(o) /\ ~MintedOn(path, o)
        /\ IsSubsidy(subsidy) /\ ~MintedOn(path, subsidy)
    BY NewOutputsAreNew
  <2> HIDE DEF path, made, subsidy, state, spent
  <2> QED
    BY <2>1, <2>2, <2>3
<1>3. /\ DOMAIN after.utxos = (kept \cup made) \cup {subsidy}
      /\ after.utxos[subsidy] = CoinbaseEntry(block)
      /\ \A o \in made : after.utxos[o].amount = o.txid.outputs[o.index].amount
      /\ \A o \in kept : after.utxos[o] = state.utxos[o]
  <2> HIDE DEF state
  <2>1. LET utxos   == state.utxos
            new     == after.utxos
            point   == CoinbaseOutpoint(block)
        IN  /\ DOMAIN new = ((DOMAIN utxos \ SpentBy(block.transactions)) \cup CreatedIn(block))
                              \cup {point}
            /\ new[point] = CoinbaseEntry(block)
            /\ \A o \in CreatedIn(block) : o # point =>
                 /\ new[o].amount = o.txid.outputs[o.index].amount
                 /\ new[o].address = o.txid.outputs[o.index].address
                 /\ new[o].isCoinbase = FALSE /\ new[o].birthHeight = block.header.height
            /\ \A o \in DOMAIN utxos \ SpentBy(block.transactions) :
                 o \notin CreatedIn(block) /\ o # point => new[o] = utxos[o]
    BY <1>1, LedgerAfter
  <2> HIDE DEF after
  <2> QED
    BY <1>2, <2>1
<1>4. /\ Circulating(state) = SumFunctionOnSet(f, DOMAIN state.utxos)
      /\ Circulating(after) = SumFunctionOnSet(g, DOMAIN after.utxos)
  <2> HIDE DEF state, after
  <2>1. DOMAIN f = DOMAIN state.utxos /\ Circulating(state) = SumFunction(f)
    BY DEF Circulating
  <2>2. DOMAIN g = DOMAIN after.utxos /\ Circulating(after) = SumFunction(g)
    BY DEF Circulating
  <2> HIDE DEF f, g
  <2> QED
    BY <2>1, <2>2 DEF SumFunction
<1>5. /\ CoinbaseEntry(block).amount \in Nat
      /\ IsFiniteSet(made)
      /\ \A o \in made : o.txid.outputs[o.index].amount \in Nat
      /\ inputs = outputs + FeesBurned(block.transactions)
      /\ FeesBurned(block.transactions) \in Int
  <2>1. CoinbaseEntry(block).amount \in Nat
    BY <1>1, SubsidyIsAmount
  <2>2. IsFiniteSet(made) /\ \A o \in made : o.txid.outputs[o.index].amount \in Nat
    BY <1>1, CreatedAreAmounts
  <2>3. FeesBurned(block.transactions) \in Int
    BY <1>1, FeesAreAmounts
  <2>4. inputs = outputs + FeesBurned(block.transactions)
    <3> HIDE DEF state
    <3> QED
      BY <1>1, TransactionsBalance
  <2> QED
    BY <2>1, <2>2, <2>3, <2>4
<1>6. /\ \A o \in (kept \cup made) \cup {subsidy} : g[o] \in Int
      /\ g[subsidy] = CoinbaseEntry(block).amount
      /\ \A o \in kept : g[o] = f[o]
      /\ IsWorth(g, made)
  <2>1. \A o \in kept : g[o] = f[o] /\ g[o] \in Int
    <3> TAKE o \in kept
    <3>1. g[o] = after.utxos[o].amount /\ after.utxos[o] = state.utxos[o]
      BY <1>3
    <3>2. o \in DOMAIN state.utxos
      OBVIOUS
    <3> HIDE DEF f, g, after, state, kept
    <3> QED
      BY <1>1, <3>1, <3>2
  <2>2. g[subsidy] = CoinbaseEntry(block).amount
    BY <1>3
  <2>3. \A o \in made : g[o] = o.txid.outputs[o.index].amount
    BY <1>3
  <2> HIDE DEF kept, made, g, f, subsidy
  <2> QED
    BY <1>5, <2>1, <2>2, <2>3 DEF IsWorth
<1>7. \A i \in DOMAIN block.transactions : IsInjective(block.transactions[i].inputs)
  BY <1>1 DEF BlockApplies, TransactionApplies, validateSignedTransactionShape
<1>8. /\ IsFiniteSet(spent)
      /\ SumFunctionOnSet(f, spent) = inputs
  <2>1. \A o \in spent : f[o] = state.utxos[o].amount /\ f[o] \in Int
    BY <1>1, <1>2
  <2> HIDE DEF f, state
  <2> QED
    BY <1>1, <1>7, <2>1, SpendingsAddUp
<1>9. SumFunctionOnSet(g, made) = outputs
  <2>1. IsInjective(block.transactions)
    BY <1>1 DEF BlockApplies
  <2> HIDE DEF g
  <2> QED
    BY <1>1, <1>6, <2>1, CreationsAddUp
<1> HIDE DEF f, g, inputs, outputs, made, spent, subsidy, after, state
<1>10. /\ kept \cup spent = DOMAIN state.utxos /\ kept \cap spent = {}
       /\ kept \cap made = {} /\ subsidy \notin kept \cup made
       /\ IsFiniteSet(kept)
  BY <1>1, <1>2, FS_Difference
<1> HIDE DEF kept
<1>11. SumFunctionOnSet(f, kept \cup spent) = SumFunctionOnSet(f, kept) + SumFunctionOnSet(f, spent)
  <2>1. \A o \in kept \cup spent : f[o] \in Int
    BY <1>1, <1>10
  <2> QED
    BY <1>8, <1>10, <2>1, SumOfUnion
<1>12. SumFunctionOnSet(g, kept \cup made) = SumFunctionOnSet(g, kept) + SumFunctionOnSet(g, made)
  BY <1>5, <1>6, <1>10, SumOfUnion
<1>13. SumFunctionOnSet(g, (kept \cup made) \cup {subsidy})
         = SumFunctionOnSet(g, kept \cup made) + g[subsidy]
  <2>1. IsFiniteSet(kept \cup made)
    BY <1>5, <1>10, FS_Union
  <2> QED
    BY <1>6, <1>10, <2>1, SumAddsOne
<1>14. SumFunctionOnSet(g, kept) = SumFunctionOnSet(f, kept)
  BY <1>6, <1>10, SumOfSame
<1>15. SumFunctionOnSet(f, kept) \in Int /\ SumFunctionOnSet(f, spent) \in Int
       /\ SumFunctionOnSet(g, made) \in Int
  <2>1. /\ \A o \in kept : f[o] \in Int
        /\ \A o \in spent : f[o] \in Int
        /\ \A o \in made : g[o] \in Int
    BY <1>1, <1>2, <1>6, <1>10
  <2>2. SumFunctionOnSet(f, kept) \in Int
    BY <1>10, <2>1, SumIsInt
  <2>3. SumFunctionOnSet(f, spent) \in Int
    BY <1>8, <2>1, SumIsInt
  <2>4. SumFunctionOnSet(g, made) \in Int
    BY <1>5, <2>1, SumIsInt
  <2> QED
    BY <2>2, <2>3, <2>4
<1>16. /\ Circulating(state) = SumFunctionOnSet(f, kept) + inputs
       /\ Circulating(after) = SumFunctionOnSet(f, kept) + outputs + CoinbaseEntry(block).amount
       /\ inputs \in Int /\ outputs \in Int
  BY <1>3, <1>4, <1>6, <1>8, <1>9, <1>10, <1>11, <1>12, <1>13, <1>14, <1>15
<1>17. /\ Circulating(state) \in Int
       /\ Circulating(after) = Circulating(state) + CoinbaseEntry(block).amount
                                 - FeesBurned(block.transactions)
  BY <1>5, <1>15, <1>16
<1> QED
  BY <1>1, <1>17 DEF state

\* What a branch issued is what circulates on it and what it burned.
Balances(tree, block) ==
  Circulating(tree[block].state) + Burned(ancestry(tree, block)) = tree[block].state.issued

LEMMA BurnedOnBranch ==
  ASSUME NEW tree, IsTree(tree)
  PROVE  /\ Burned(<<Genesis>>) = 0
         /\ \A block \in DOMAIN tree \ {Genesis} :
              /\ Burned(ancestry(tree, ParentOf(block))) \in Int
              /\ Burned(ancestry(tree, block))
                   = Burned(ancestry(tree, ParentOf(block))) + FeesBurned(block.transactions)
<1>1. \A block \in DOMAIN tree : FeesBurned(block.transactions) \in Int
  <2>1. FeesBurned(Genesis.transactions) = 0
    <3> DEFINE f == [i \in DOMAIN Genesis.transactions |-> Genesis.transactions[i].fee]
    <3>1. Genesis.transactions = <<>>
      BY DEF Genesis, createGenesisBlock
    <3>2. FeesBurned(Genesis.transactions) = SumFunction(f) /\ DOMAIN f = {}
      BY <3>1 DEF FeesBurned
    <3> HIDE DEF f
    <3> QED
      BY <3>2, SumOfNothing DEF SumFunction
  <2>2. \A block \in DOMAIN tree \ {Genesis} : FeesBurned(block.transactions) \in Int
    BY FeesAreAmounts DEF IsTree
  <2> QED
    BY <2>1, <2>2
<1>2. Burned(<<Genesis>>) = 0
  <2> DEFINE path == <<Genesis>>
             f == [i \in DOMAIN path |-> FeesBurned(path[i].transactions)]
             fees == [i \in DOMAIN Genesis.transactions |-> Genesis.transactions[i].fee]
  <2>1. FeesBurned(Genesis.transactions) = 0
    <3>1. Genesis.transactions = <<>>
      BY DEF Genesis, createGenesisBlock
    <3>2. FeesBurned(Genesis.transactions) = SumFunction(fees) /\ DOMAIN fees = {}
      BY <3>1 DEF FeesBurned
    <3> HIDE DEF fees
    <3> QED
      BY <3>2, SumOfNothing DEF SumFunction
  <2>2. DOMAIN f = {} \cup {1} /\ f[1] = 0
    BY <2>1
  <2>3. Burned(path) = SumFunction(f)
    BY DEF Burned
  <2> HIDE DEF f, path
  <2>4. SumFunctionOnSet(f, {} \cup {1}) = SumFunctionOnSet(f, {}) + f[1]
    <3>1. IsFiniteSet({}) /\ 1 \notin {} /\ \A x \in {} \cup {1} : f[x] \in Int
      BY <2>2, FS_EmptySet
    <3> QED
      BY <3>1, SumAddsOne
  <2> QED
    BY <2>2, <2>3, <2>4, SumOfNothing DEF SumFunction, path
<1>3. ASSUME NEW block \in DOMAIN tree \ {Genesis}
      PROVE  /\ Burned(ancestry(tree, ParentOf(block))) \in Int
             /\ Burned(ancestry(tree, block))
                  = Burned(ancestry(tree, ParentOf(block))) + FeesBurned(block.transactions)
  <2> DEFINE path   == ancestry(tree, ParentOf(block))
             longer == ancestry(tree, block)
             n == Len(path)
             f == [i \in DOMAIN path |-> FeesBurned(path[i].transactions)]
             g == [i \in DOMAIN longer |-> FeesBurned(longer[i].transactions)]
  <2>1. /\ path \in Seq(DOMAIN tree) /\ longer = Append(path, block) /\ n \in Nat
    BY AncestryIsBranch, AncestryUnfolds DEF IsTree
  <2>2. Burned(path) = SumFunction(f) /\ Burned(longer) = SumFunction(g)
    BY DEF Burned
  <2> HIDE DEF path, longer, n
  <2>3. DOMAIN f = 1..n /\ DOMAIN g = 1..n \cup {n + 1} /\ n + 1 \notin 1..n
    BY <2>1 DEF n
  <2>4. \A i \in 1..n : f[i] \in Int /\ f[i] = g[i]
    <3> TAKE i \in 1..n
    <3>1. i \in DOMAIN path /\ i \in DOMAIN longer /\ longer[i] = path[i] /\ path[i] \in DOMAIN tree
      BY <2>1 DEF n
    <3>2. f[i] = FeesBurned(path[i].transactions) /\ g[i] = FeesBurned(longer[i].transactions)
      BY <3>1
    <3> QED
      BY <1>1, <3>1, <3>2
  <2>5. g[n + 1] = FeesBurned(block.transactions) /\ g[n + 1] \in Int
    <3>1. n + 1 \in DOMAIN longer /\ longer[n + 1] = block
      BY <2>1 DEF n
    <3> QED
      BY <1>1, <3>1
  <2> HIDE DEF f, g
  <2>6. IsFiniteSet(1..n)
    BY <2>1, FS_Interval
  <2>7. SumFunctionOnSet(f, 1..n) = SumFunctionOnSet(g, 1..n)
    BY <2>4, <2>6, SumOfSame
  <2>8. SumFunctionOnSet(g, 1..n \cup {n + 1}) = SumFunctionOnSet(g, 1..n) + g[n + 1]
    <3>1. \A i \in 1..n \cup {n + 1} : g[i] \in Int
      BY <2>4, <2>5
    <3> QED
      BY <2>3, <2>6, <3>1, SumAddsOne
  <2>9. SumFunctionOnSet(f, 1..n) \in Int
    BY <2>4, <2>6, SumIsInt
  <2> QED
    BY <2>2, <2>3, <2>5, <2>7, <2>8, <2>9 DEF SumFunction, path, longer
<1> QED
  BY <1>2, <1>3

\* Supply is conserved along a branch without double spends inside a block.
LEMMA BranchBalances ==
  ASSUME NEW tree, IsTree(tree),
         \A block \in DOMAIN tree : tree[block].state.issued \in 0..TOTAL_SUPPLY
  PROVE  \A block \in DOMAIN tree :
           (\A i \in DOMAIN ancestry(tree, block) : ConflictFree(ancestry(tree, block)[i]))
             => Balances(tree, block)
<1> DEFINE Clean(block) ==
             \A i \in DOMAIN ancestry(tree, block) : ConflictFree(ancestry(tree, block)[i])
           Q == {block \in DOMAIN tree : Clean(block) => Balances(tree, block)}
<1>1. Genesis \in Q
  <2>1. Genesis \in DOMAIN tree /\ tree[Genesis].state.issued = 0
    BY DEF IsTree, GenesisEntry, GenesisState, GENESIS_ISSUED
  <2>2. Circulating(tree[Genesis].state) = 0
    <3> DEFINE state == tree[Genesis].state
               f == [o \in DOMAIN state.utxos |-> state.utxos[o].amount]
    <3>1. DOMAIN state.utxos = {}
      BY DEF IsTree, GenesisEntry, GenesisState
    <3>2. Circulating(state) = SumFunction(f) /\ DOMAIN f = {}
      BY <3>1 DEF Circulating
    <3> HIDE DEF f, state
    <3>3. Circulating(state) = 0
      BY <3>2, SumOfNothing DEF SumFunction
    <3> QED
      BY <3>3 DEF state
  <2>3. Burned(ancestry(tree, Genesis)) = 0
    BY AncestryUnfolds, BurnedOnBranch
  <2>4. Balances(tree, Genesis)
    BY <2>1, <2>2, <2>3 DEF Balances
  <2> QED
    BY <2>1, <2>4
<1>2. ASSUME NEW block \in DOMAIN tree \ {Genesis}, ParentOf(block) \in Q, Clean(block)
      PROVE  Balances(tree, block)
  <2> DEFINE parent == ParentOf(block)
             path   == ancestry(tree, parent)
             longer == ancestry(tree, block)
  <2>1. parent \in DOMAIN tree /\ path \in Seq(DOMAIN tree) /\ longer = Append(path, block)
    BY AncestryIsBranch, AncestryUnfolds DEF IsTree
  <2>2. ConflictFree(block) /\ \A i \in DOMAIN path : ConflictFree(path[i])
    <3> HIDE DEF path, longer
    <3>1. \A i \in DOMAIN longer : ConflictFree(longer[i])
      BY <1>2 DEF longer
    <3>2. /\ Len(path) + 1 \in DOMAIN longer /\ longer[Len(path) + 1] = block
          /\ \A i \in DOMAIN path : i \in DOMAIN longer /\ longer[i] = path[i]
      BY <2>1
    <3> QED
      BY <3>1, <3>2
  <2>3. Balances(tree, parent)
    BY <1>2, <2>2
  <2>4. /\ Circulating(tree[parent].state) \in Int
        /\ Circulating(tree[block].state)
             = Circulating(tree[parent].state) + CoinbaseEntry(block).amount
                 - FeesBurned(block.transactions)
    <3>1. LedgerFits(tree, parent) /\ tree[parent].state.issued \in 0..TOTAL_SUPPLY
      BY <2>1, LedgersFit
    <3> QED
      BY <2>2, <3>1, CirculatingAfter
  <2>5. /\ Burned(path) \in Int
        /\ Burned(longer) = Burned(path) + FeesBurned(block.transactions)
    BY BurnedOnBranch
  <2>6. tree[block].state.issued = tree[parent].state.issued + CoinbaseEntry(block).amount
    <3>1. tree[block] = entryFor(tree, block)
      BY DEF IsTree
    <3> QED
      BY <3>1 DEF entryFor, ParentOf, applyBlock, CoinbaseEntry
  <2>7. FeesBurned(block.transactions) \in Int /\ CoinbaseEntry(block).amount \in Int
    <3>1. /\ IsWellFormed(block) /\ BlockApplies(tree[parent].state, block)
          /\ tree[parent].state.issued \in 0..TOTAL_SUPPLY
      BY <2>1 DEF IsTree
    <3>2. FeesBurned(block.transactions) \in Int
      BY <3>1, FeesAreAmounts
    <3>3. CoinbaseEntry(block).amount \in Nat
      BY <3>1, SubsidyIsAmount
    <3> QED
      BY <3>2, <3>3
  <2> HIDE DEF path, longer, parent
  <2> QED
    BY <2>3, <2>4, <2>5, <2>6, <2>7 DEF Balances, path, longer
<1>3. \A block \in DOMAIN tree \ {Genesis} : ParentOf(block) \in Q => block \in Q
  BY <1>2
<1> HIDE DEF Q
<1>4. \A block \in DOMAIN tree : block \in Q
  BY <1>1, <1>3, TreeInduction
<1> QED
  BY <1>4 DEF Q

\* Branches spend soundly, block by block.
LEMMA BranchSpends ==
  ASSUME NEW tree, IsTree(tree),
         \A block \in DOMAIN tree : tree[block].state.issued \in 0..TOTAL_SUPPLY,
         NEW block \in DOMAIN tree
  PROVE  LET path == ancestry(tree, block)
         IN  /\ \A i, j \in DOMAIN path :
                  i # j => SpentBy(path[i].transactions) \cap SpentBy(path[j].transactions) = {}
             /\ \A outpoint \in SpentBy(block.transactions) :
                  IsSubsidy(outpoint) =>
                    /\ block.header.height >= outpoint.txid.height + COINBASE_MATURITY
                    /\ coinbaseId(path[outpoint.txid.height + 1]) = outpoint.txid
<1> DEFINE path == ancestry(tree, block)
<1>1. LedgerFits(tree, block) /\ DOMAIN path = 1..Len(path)
  BY LedgersFit, AncestryIsBranch
<1>2. \A i, j \in DOMAIN path :
        i # j => SpentBy(path[i].transactions) \cap SpentBy(path[j].transactions) = {}
  BY <1>1 DEF LedgerFits
<1>3. ASSUME NEW outpoint \in SpentBy(block.transactions), IsSubsidy(outpoint)
      PROVE  /\ block.header.height >= outpoint.txid.height + COINBASE_MATURITY
             /\ coinbaseId(path[outpoint.txid.height + 1]) = outpoint.txid
  <2> DEFINE parent == ParentOf(block)
             state  == tree[parent].state
  <2>1. block # Genesis
    BY <1>3 DEF SpentBy, Range, Genesis, createGenesisBlock
  <2>2. /\ parent \in DOMAIN tree /\ LedgerFits(tree, parent) /\ IsWellFormed(block)
        /\ BlockApplies(state, block)
    BY <2>1, LedgersFit DEF IsTree
  <2>3. outpoint \in DOMAIN state.utxos /\ IsMature(state.utxos[outpoint], block.header.height)
    BY <1>3, <2>2, SpendsTheUnspent
  <2>4. /\ state.utxos[outpoint].isCoinbase
        /\ state.utxos[outpoint].birthHeight = outpoint.txid.height
    BY <1>3, <2>2, <2>3 DEF LedgerFits
  <2>5. SpentOn(path, outpoint)
    <3>1. Len(path) \in 1..Len(path) /\ path[Len(path)] = block
      BY AncestryIsBranch, HeightsInTree
    <3> HIDE DEF path
    <3> QED
      BY <1>3, <3>1 DEF SpentOn
  <2>6. MintedOn(path, outpoint)
    BY <1>1, <2>5 DEF LedgerFits
  <2> QED
    BY <1>3, <2>3, <2>4, <2>6 DEF IsMature, MintedOn
<1> QED
  BY <1>2, <1>3

\* An output is named after what it pays, so its name tells its entry.
EntriesMatch(utxos) ==
  \A o \in DOMAIN utxos :
    /\ utxos[o].address = o.txid.outputs[o.index].address
    /\ utxos[o].amount = o.txid.outputs[o.index].amount

LEMMA EntriesMatchNames ==
  ASSUME NEW tree, IsTree(tree)
  PROVE  \A block \in DOMAIN tree : EntriesMatch(tree[block].state.utxos)
<1> DEFINE Q == {block \in DOMAIN tree : EntriesMatch(tree[block].state.utxos)}
<1>1. Genesis \in Q
  BY DEF IsTree, GenesisEntry, GenesisState, EntriesMatch
<1>2. ASSUME NEW block \in DOMAIN tree \ {Genesis}, ParentOf(block) \in Q PROVE block \in Q
  <2> DEFINE state   == tree[ParentOf(block)].state
             after   == tree[block].state.utxos
             subsidy == CoinbaseOutpoint(block)
  <2>1. /\ IsWellFormed(block)
        /\ tree[block].state = applyBlock(state, block)
    BY DEF IsTree, entryFor, ParentOf
  <2>2. EntriesMatch(state.utxos)
    BY <1>2
  <2>3. /\ subsidy.txid.outputs[subsidy.index].address = CoinbaseEntry(block).address
        /\ subsidy.txid.outputs[subsidy.index].amount = CoinbaseEntry(block).amount
    BY DEF CoinbaseOutpoint, coinbaseId, CoinbaseEntry
  <2> HIDE DEF state, after
  <2>4. LET utxos   == state.utxos
            new     == applyBlock(state, block).utxos
            point   == CoinbaseOutpoint(block)
        IN  /\ DOMAIN new = ((DOMAIN utxos \ SpentBy(block.transactions)) \cup CreatedIn(block))
                              \cup {point}
            /\ new[point] = CoinbaseEntry(block)
            /\ \A o \in CreatedIn(block) : o # point =>
                 /\ new[o].amount = o.txid.outputs[o.index].amount
                 /\ new[o].address = o.txid.outputs[o.index].address
                 /\ new[o].isCoinbase = FALSE /\ new[o].birthHeight = block.header.height
            /\ \A o \in DOMAIN utxos \ SpentBy(block.transactions) :
                 o \notin CreatedIn(block) /\ o # point => new[o] = utxos[o]
    BY <2>1, LedgerAfter
  <2>5. after = applyBlock(state, block).utxos
    BY <2>1 DEF after
  <2> HIDE DEF subsidy
  <2>6. ASSUME NEW o \in DOMAIN after
        PROVE  /\ after[o].address = o.txid.outputs[o.index].address
               /\ after[o].amount = o.txid.outputs[o.index].amount
    <3>1. CASE o = subsidy
      BY <2>3, <2>4, <2>5, <3>1 DEF subsidy
    <3>2. CASE o # subsidy /\ o \in CreatedIn(block)
      BY <2>4, <2>5, <3>2 DEF subsidy
    <3>3. CASE o # subsidy /\ o \notin CreatedIn(block)
      BY <2>2, <2>4, <2>5, <3>3 DEF subsidy, EntriesMatch
    <3> QED
      BY <3>1, <3>2, <3>3
  <2> QED
    BY <2>6 DEF EntriesMatch, after
<1> HIDE DEF Q
<1>3. \A block \in DOMAIN tree : block \in Q
  BY <1>1, <1>2, TreeInduction
<1> QED
  BY <1>3 DEF Q

-----------------------------------------------------------------------------
(* 4. Sorting and the median clock *)

\* A way to put the positions 1..n in the order of their keys.
Sorts(order, keys, n) ==
  /\ order \in [1..n -> 1..n]
  /\ \A i, j \in 1..n : order[i] = order[j] => i = j
  /\ \A i \in 1..n : \E k \in 1..n : order[k] = i
  /\ \A i, j \in 1..n : i < j => keys[order[i]] <= keys[order[j]]

\* Every rank is the rank of one position.
LEMMA RanksAreOnePerPosition ==
  ASSUME NEW n \in Nat, NEW keys \in [1..n -> Int]
  PROVE  /\ \A i \in 1..n : RankIn(keys, i) \in 1..n
         /\ \A i, k \in 1..n : RankIn(keys, i) = RankIn(keys, k) => i = k
         /\ \A i, k \in 1..n : RankIn(keys, i) < RankIn(keys, k) => keys[i] <= keys[k]
         /\ \A r \in 1..n : \E i \in 1..n : RankIn(keys, i) = r
<1> DEFINE UpTo(i) == {j \in 1..n : keys[j] < keys[i] \/ (keys[j] = keys[i] /\ j <= i)}
           rank == [i \in 1..n |-> RankIn(keys, i)]
<1>1. IsFiniteSet(1..n) /\ Cardinality(1..n) = n
  BY FS_Interval
<1>2. ASSUME NEW i \in 1..n
      PROVE  /\ RankIn(keys, i) = Cardinality(UpTo(i)) /\ IsFiniteSet(UpTo(i))
             /\ UpTo(i) \in SUBSET (1..n) /\ i \in UpTo(i)
             /\ RankIn(keys, i) \in 1..n
  <2>1. RankIn(keys, i) = Cardinality(UpTo(i))
    BY DEF RankIn
  <2>2. UpTo(i) \in SUBSET (1..n) /\ i \in UpTo(i)
    OBVIOUS
  <2> HIDE DEF UpTo
  <2>3. IsFiniteSet(UpTo(i)) /\ Cardinality(UpTo(i)) <= n /\ Cardinality(UpTo(i)) \in Nat
    BY <1>1, <2>2, FS_Subset, FS_CardinalityType
  <2>4. Cardinality(UpTo(i)) # 0
    BY <2>2, <2>3, FS_EmptySet
  <2> QED
    BY <2>1, <2>2, <2>3, <2>4
<1>3. ASSUME NEW i \in 1..n, NEW k \in 1..n, keys[i] < keys[k] \/ (keys[i] = keys[k] /\ i < k)
      PROVE  RankIn(keys, i) < RankIn(keys, k)
  <2>1. /\ \A j \in 1..n : keys[j] \in Int
        /\ UpTo(i) \subseteq UpTo(k) /\ k \notin UpTo(i)
    BY <1>3
  <2>2. k \in UpTo(k) /\ IsFiniteSet(UpTo(k))
    BY <1>2
  <2> HIDE DEF UpTo
  <2>3. Cardinality(UpTo(i)) <= Cardinality(UpTo(k)) /\ Cardinality(UpTo(i)) # Cardinality(UpTo(k))
    BY <2>1, <2>2, FS_Subset
  <2>4. Cardinality(UpTo(i)) \in Int /\ Cardinality(UpTo(k)) \in Int
    BY <1>2
  <2> QED
    BY <1>2, <2>3, <2>4
<1> HIDE DEF UpTo
<1>4. \A i, k \in 1..n : RankIn(keys, i) = RankIn(keys, k) => i = k
  <2> SUFFICES ASSUME NEW i \in 1..n, NEW k \in 1..n, RankIn(keys, i) = RankIn(keys, k), i # k
               PROVE  FALSE
    OBVIOUS
  <2>1. /\ ~(keys[i] < keys[k] \/ (keys[i] = keys[k] /\ i < k))
        /\ ~(keys[k] < keys[i] \/ (keys[k] = keys[i] /\ k < i))
    BY <1>2, <1>3
  <2>2. keys[i] \in Int /\ keys[k] \in Int
    OBVIOUS
  <2> QED
    BY <2>1, <2>2
<1>5. \A i, k \in 1..n : RankIn(keys, i) < RankIn(keys, k) => keys[i] <= keys[k]
  <2> SUFFICES ASSUME NEW i \in 1..n, NEW k \in 1..n, RankIn(keys, i) < RankIn(keys, k),
                      ~(keys[i] <= keys[k])
               PROVE  FALSE
    OBVIOUS
  <2>1. keys[k] < keys[i]
    OBVIOUS
  <2>2. RankIn(keys, k) < RankIn(keys, i)
    BY <1>3, <2>1
  <2>3. RankIn(keys, k) \in Int /\ RankIn(keys, i) \in Int
    BY <1>2
  <2> QED
    BY <2>2, <2>3
<1>6. rank \in Injection(1..n, 1..n)
  BY <1>2, <1>4 DEF Injection, IsInjective
<1>7. rank \in Surjection(1..n, 1..n)
  BY <1>1, <1>6, FS_Injection
<1>8. \A r \in 1..n : \E i \in 1..n : RankIn(keys, i) = r
  BY <1>7 DEF Surjection
<1> QED
  BY <1>2, <1>4, <1>5, <1>8

\* SortedBy puts a sequence in such an order.
SortsAs(order, s, keys, n) ==
  Sorts(order, keys, n) /\ SortedBy(s, keys) = [r \in 1..n |-> s[order[r]]]

LEMMA SortedBySorts ==
  ASSUME NEW n \in Nat, NEW keys \in [1..n -> Int], NEW s, DOMAIN s = 1..n
  PROVE  \E order : SortsAs(order, s, keys, n)
<1> DEFINE order == [r \in 1..n |-> CHOOSE i \in 1..n : RankIn(keys, i) = r]
<1>1. \A r \in 1..n : order[r] \in 1..n /\ RankIn(keys, order[r]) = r
  <2> TAKE r \in 1..n
  <2>1. \E i \in 1..n : RankIn(keys, i) = r
    BY RanksAreOnePerPosition
  <2> QED
    BY <2>1
<1>2. SortedBy(s, keys) = [r \in 1..n |-> s[order[r]]]
  BY DEF SortedBy
<1>3. order \in [1..n -> 1..n]
  <2>1. DOMAIN order = 1..n /\ order = [r \in 1..n |-> order[r]]
    OBVIOUS
  <2> HIDE DEF order
  <2> QED
    BY <1>1, <2>1
<1> HIDE DEF order
<1>4. \A i, j \in 1..n : order[i] = order[j] => i = j
  BY <1>1
<1>5. \A i \in 1..n : \E k \in 1..n : order[k] = i
  <2> TAKE i \in 1..n
  <2>1. RankIn(keys, i) \in 1..n
    BY RanksAreOnePerPosition
  <2>2. RankIn(keys, order[RankIn(keys, i)]) = RankIn(keys, i) /\ order[RankIn(keys, i)] \in 1..n
    BY <1>1, <2>1
  <2>3. order[RankIn(keys, i)] = i
    BY <2>2, RanksAreOnePerPosition
  <2> QED
    BY <2>1, <2>3
<1>6. \A i, j \in 1..n : i < j => keys[order[i]] <= keys[order[j]]
  BY <1>1, RanksAreOnePerPosition
<1>7. Sorts(order, keys, n)
  BY <1>3, <1>4, <1>5, <1>6 DEF Sorts
<1> QED
  BY <1>2, <1>7 DEF SortsAs

Below(values, bound) == {i \in DOMAIN values : values[i] < bound}

\* In a sorted sequence, fewer than r values lie below the r-th, and if fewer
\* than r values lie below a bound, the r-th does not.
LEMMA RankAndBelow ==
  ASSUME NEW n \in Nat, NEW values \in [1..n -> Int], NEW order, Sorts(order, values, n),
         NEW r \in 1..n
  PROVE  /\ \A bound \in Int : bound <= values[order[r]] => Cardinality(Below(values, bound)) < r
         /\ \A bound \in Int : Cardinality(Below(values, bound)) < r => values[order[r]] >= bound
<1> DEFINE first(k) == {order[q] : q \in 1..k}
<1>1. IsFiniteSet(1..n) /\ \A k \in 0..n : IsFiniteSet(1..k) /\ Cardinality(1..k) = k
  BY FS_Interval
<1>2. \A bound \in Int : IsFiniteSet(Below(values, bound)) /\ Cardinality(Below(values, bound)) \in Nat
  <2> TAKE bound \in Int
  <2>1. Below(values, bound) \in SUBSET (1..n)
    BY DEF Below
  <2> QED
    BY <1>1, <2>1, FS_Subset, FS_CardinalityType
<1>3. \A k \in 0..n : IsFiniteSet(first(k)) /\ Cardinality(first(k)) = k
  <2> TAKE k \in 0..n
  <2> DEFINE f == [q \in 1..k |-> order[q]]
  <2>1. \A p, q \in 1..k : order[p] = order[q] => p = q
    <3> TAKE p, q \in 1..k
    <3>1. p \in 1..n /\ q \in 1..n
      OBVIOUS
    <3> QED
      BY <3>1 DEF Sorts
  <2>2. f \in [1..k -> first(k)] /\ \A i \in first(k) : \E q \in 1..k : f[q] = i
    OBVIOUS
  <2>3. \A p, q \in 1..k : f[p] = f[q] => p = q
    BY <2>1
  <2> HIDE DEF f, first
  <2>4. f \in Surjection(1..k, first(k))
    BY <2>2 DEF Surjection
  <2>5. f \in Injection(1..k, first(k))
    BY <2>2, <2>3 DEF Injection, IsInjective
  <2>6. f \in Bijection(1..k, first(k))
    BY <2>4, <2>5 DEF Bijection
  <2>7. ExistsBijection(1..k, first(k))
    BY <2>6 DEF ExistsBijection
  <2> QED
    BY <1>1, <2>7, FS_Bijection
<1>4. ASSUME NEW bound \in Int, bound <= values[order[r]]
      PROVE  Cardinality(Below(values, bound)) < r
  <2>1. Below(values, bound) \subseteq first(r - 1)
    <3> SUFFICES ASSUME NEW i \in 1..n, values[i] < bound PROVE i \in first(r - 1)
      BY DEF Below
    <3>1. PICK q \in 1..n : order[q] = i
      BY DEF Sorts
    <3>2. values[i] \in Int /\ values[order[r]] \in Int
      BY DEF Sorts
    <3>3. q < r
      <4>1. q # r
        BY <1>4, <3>1, <3>2
      <4>2. ~(r < q)
        <5>1. r < q => values[order[r]] <= values[i]
          BY <3>1 DEF Sorts
        <5> QED
          BY <1>4, <3>2, <5>1
      <4> QED
        BY <4>1, <4>2
    <3> QED
      BY <3>1, <3>3
  <2>2. r - 1 \in 0..n
    OBVIOUS
  <2> HIDE DEF first
  <2>3. Cardinality(Below(values, bound)) <= r - 1
    <3>1. IsFiniteSet(first(r - 1)) /\ Cardinality(first(r - 1)) = r - 1
      BY <1>3, <2>2
    <3> QED
      BY <2>1, <3>1, FS_Subset
  <2> QED
    BY <1>2, <2>3
<1>5. ASSUME NEW bound \in Int, Cardinality(Below(values, bound)) < r, values[order[r]] < bound
      PROVE  FALSE
  <2>1. first(r) \subseteq Below(values, bound)
    <3> SUFFICES ASSUME NEW q \in 1..r PROVE order[q] \in 1..n /\ values[order[q]] < bound
      BY DEF Below
    <3>1. q \in 1..n /\ (q < r \/ q = r)
      OBVIOUS
    <3>2. order[q] \in 1..n /\ order[r] \in 1..n
      BY <3>1 DEF Sorts
    <3>4. values[order[q]] \in Int /\ values[order[r]] \in Int
      BY <3>2
    <3>3. values[order[q]] <= values[order[r]]
      <4>1. CASE q = r
        BY <3>4, <4>1
      <4>2. CASE q < r
        BY <3>1, <4>2 DEF Sorts
      <4> QED
        BY <3>1, <4>1, <4>2
    <3> QED
      BY <1>5, <3>2, <3>3, <3>4
  <2> HIDE DEF first
  <2>2. Cardinality(first(r)) = r
    <3>1. r \in 0..n
      OBVIOUS
    <3> QED
      BY <1>3, <3>1
  <2>3. r <= Cardinality(Below(values, bound))
    BY <1>2, <2>1, <2>2, FS_Subset
  <2> QED
    BY <1>2, <1>5, <2>3
<1>6. \A bound \in Int : Cardinality(Below(values, bound)) < r => values[order[r]] >= bound
  <2> TAKE bound \in Int
  <2>1. values[order[r]] \in Int
    BY DEF Sorts
  <2> QED
    BY <1>5, <2>1
<1> QED
  BY <1>4, <1>6

\* At most half of the values lie below the median; and it is at least any
\* bound with less than half of the values below it.
LEMMA MedianAndBelow ==
  ASSUME NEW values \in Seq(Int), values # <<>>
  PROVE  /\ medianOf(values) \in Int
         /\ Cardinality(Below(values, medianOf(values))) <= Len(values) \div 2
         /\ \A bound \in Int : Cardinality(Below(values, bound)) <= (Len(values) - 1) \div 2
                                 => medianOf(values) >= bound
<1> DEFINE n == Len(values)
           sorted == SortedBy(values, values)
           middle == n \div 2
           median == medianOf(values)
<1>1. n \in Nat \ {0} /\ values \in [1..n -> Int] /\ DOMAIN values = 1..n
  <2>1. \A i \in 1..Len(values) : values[i] \in Int
    OBVIOUS
  <2> QED
    BY <2>1
<1>2. median = IF n % 2 = 0 THEN (sorted[middle] + sorted[middle + 1]) \div 2 ELSE sorted[middle + 1]
  BY DEF medianOf
<1> HIDE DEF n, sorted, median
<1>3. PICK order : Sorts(order, values, n) /\ sorted = [r \in 1..n |-> values[order[r]]]
  <2>1. \E order : SortsAs(order, values, values, n)
    BY <1>1, SortedBySorts
  <2> QED
    BY <2>1 DEF SortsAs, sorted
<1>4. \A r \in 1..n : sorted[r] = values[order[r]] /\ sorted[r] \in Int
  BY <1>1, <1>3 DEF Sorts
<1>5. ASSUME NEW r \in 1..n
      PROVE  /\ \A bound \in Int : bound <= sorted[r] => Cardinality(Below(values, bound)) < r
             /\ \A bound \in Int : Cardinality(Below(values, bound)) < r => sorted[r] >= bound
  BY <1>1, <1>3, <1>4, RankAndBelow
<1>6. \A bound \in Int : Cardinality(Below(values, bound)) \in Nat
  <2> TAKE bound \in Int
  <2>1. Below(values, bound) \in SUBSET (1..n) /\ IsFiniteSet(1..n)
    BY <1>1, FS_Interval DEF Below
  <2> QED
    BY <2>1, FS_Subset, FS_CardinalityType
<1>7. CASE n % 2 = 0
  <2>1. middle \in 1..n /\ middle + 1 \in 1..n /\ (n - 1) \div 2 = middle - 1 /\ middle \in Nat
    BY <1>1, <1>7
  <2> HIDE DEF middle
  <2>2. sorted[middle] \in Int /\ sorted[middle + 1] \in Int
    BY <1>4, <2>1
  <2>3. median = (sorted[middle] + sorted[middle + 1]) \div 2
    BY <1>2, <1>7
  <2>4. sorted[middle] <= sorted[middle + 1]
    <3>1. middle < middle + 1
      BY <2>1
    <3>2. values[order[middle]] <= values[order[middle + 1]]
      BY <1>3, <2>1, <3>1 DEF Sorts
    <3> QED
      BY <1>4, <2>1, <3>2
  <2>5. median \in Int /\ median <= sorted[middle + 1]
    BY <2>2, <2>3, <2>4
  <2>6. Cardinality(Below(values, median)) < middle + 1
    BY <1>5, <2>1, <2>5
  <2>7. ASSUME NEW bound \in Int, Cardinality(Below(values, bound)) <= middle - 1
        PROVE  median >= bound
    <3>3. Cardinality(Below(values, bound)) \in Nat
      BY <1>6
    <3>1. Cardinality(Below(values, bound)) < middle /\ Cardinality(Below(values, bound)) < middle + 1
      BY <2>1, <2>7, <3>3
    <3>2. sorted[middle] >= bound /\ sorted[middle + 1] >= bound
      BY <1>5, <2>1, <3>1
    <3> QED
      BY <2>2, <2>3, <3>2
  <2>8. Cardinality(Below(values, median)) <= middle
    <3>1. Cardinality(Below(values, median)) \in Nat
      BY <1>6, <2>5
    <3> QED
      BY <2>1, <2>6, <3>1
  <2> QED
    BY <2>1, <2>5, <2>7, <2>8 DEF n, median, middle
<1>8. CASE n % 2 # 0
  <2>1. middle + 1 \in 1..n /\ (n - 1) \div 2 = middle /\ middle \in Nat
    BY <1>1, <1>8
  <2> HIDE DEF middle
  <2>2. median = sorted[middle + 1] /\ median \in Int
    BY <1>2, <1>4, <1>8, <2>1
  <2>3. Cardinality(Below(values, median)) < middle + 1
    BY <1>5, <2>1, <2>2
  <2>4. ASSUME NEW bound \in Int, Cardinality(Below(values, bound)) <= middle
        PROVE  median >= bound
    <3>2. Cardinality(Below(values, bound)) \in Nat
      BY <1>6
    <3>1. Cardinality(Below(values, bound)) < middle + 1
      BY <2>1, <2>4, <3>2
    <3> QED
      BY <1>5, <2>1, <2>2, <3>1
  <2>5. Cardinality(Below(values, median)) <= middle
    <3>1. Cardinality(Below(values, median)) \in Nat
      BY <1>6, <2>2
    <3> QED
      BY <2>1, <2>3, <3>1
  <2> QED
    BY <2>1, <2>2, <2>4, <2>5 DEF n, median, middle
<1> QED
  BY <1>7, <1>8

\* The times of the last blocks of a path, as medianTimePast collects them.
LEMMA LastTimes ==
  ASSUME NEW n \in Nat \ {0}, NEW path, path \in Seq(Range(path)), path # <<>>
  PROVE  LET recent == LastOf(n, path)
             length == IF Len(path) > n THEN n ELSE Len(path)
         IN  /\ DOMAIN recent = 1..length
             /\ \A i \in 1..length : recent[i] = path[Len(path) - length + i]
<1> DEFINE recent == LastOf(n, path)
           length == IF Len(path) > n THEN n ELSE Len(path)
           from == IF Len(path) > n THEN Len(path) - n + 1 ELSE 1
<1>1. Len(path) \in Nat \ {0}
  BY EmptySeq
<1>2. recent = SubSeq(path, from, Len(path))
  BY DEF LastOf
<1>3. /\ from \in 1..Len(path) /\ Len(path) - from + 1 = length /\ length \in 1..Len(path)
      /\ \A i \in Int : from + i - 1 = Len(path) - length + i
  BY <1>1
<1> HIDE DEF from, length, recent
<1>4. recent = [i \in 1..length |-> path[Len(path) - length + i]]
  <2>1. SubSeq(path, from, Len(path)) = [i \in 1..(Len(path) - from + 1) |-> path[from + i - 1]]
    BY <1>1, <1>3
  <2>2. [i \in 1..length |-> path[from + i - 1]] = [i \in 1..length |-> path[Len(path) - length + i]]
    BY <1>3
  <2> QED
    BY <1>2, <1>3, <2>1, <2>2
<1>5. DOMAIN recent = 1..length /\ \A i \in 1..length : recent[i] = path[Len(path) - length + i]
  BY <1>4
<1> QED
  BY <1>5 DEF recent, length

\* A value above the median, pushed into a window that was not full or, the
\* window being of odd span, in place of the oldest value of a full one, never
\* moves the median back.
LEMMA MedianAdvances ==
  ASSUME NEW values \in Seq(Int), values # <<>>, NEW next \in Seq(Int), next # <<>>,
         next[Len(next)] > medianOf(values),
         \/ Len(next) = Len(values) + 1
         \/ Len(next) = Len(values) /\ Len(values) % 2 = 1,
         \A i \in 1..Len(next) - 1 : next[i] = values[i + (Len(values) + 1 - Len(next))]
  PROVE  medianOf(next) >= medianOf(values)
<1> DEFINE bound == medianOf(values)
           n == Len(values)
           m == Len(next)
           d == n + 1 - m
           low == Below(values, bound)
           nextLow == Below(next, bound)
           f == [i \in nextLow |-> i + d]
<1>1. bound \in Int /\ Cardinality(low) <= n \div 2
  BY MedianAndBelow
<1>2. n \in Nat \ {0} /\ m \in Nat \ {0} /\ d \in {0, 1} /\ n \div 2 <= (m - 1) \div 2
  OBVIOUS
<1>3. \A i \in nextLow : i \in 1..(m - 1) /\ i + d \in low
  <2> HIDE DEF bound
  <2> TAKE i \in nextLow
  <2>1. i \in 1..m /\ next[i] < bound
    BY DEF Below
  <2>2. i # m
    BY <1>1, <2>1 DEF bound
  <2>3. i \in 1..(m - 1) /\ i + d \in 1..n
    <3>1. d = n + 1 - m /\ n \in Nat /\ m \in Nat
      BY <1>2
    <3> HIDE DEF n, m, d
    <3> QED
      BY <1>2, <2>1, <2>2, <3>1
  <2>4. values[i + d] = next[i]
    BY <2>3
  <2> QED
    BY <2>1, <2>3, <2>4 DEF Below
<1>4. IsFiniteSet(low) /\ IsFiniteSet(nextLow)
  <2>1. low \subseteq 1..n /\ nextLow \subseteq 1..m
    BY <1>2 DEF Below
  <2>2. IsFiniteSet(1..n) /\ IsFiniteSet(1..m)
    BY <1>2, FS_Interval
  <2> HIDE DEF low, nextLow, n, m
  <2> QED
    BY <2>1, <2>2, FS_Subset
<1>5. Cardinality(low) \in Nat /\ Cardinality(nextLow) \in Nat
  BY <1>4, FS_CardinalityType
<1> HIDE DEF bound, low, nextLow, d, n, m
<1>6. f \in [nextLow -> low] /\ \A i, j \in nextLow : f[i] = f[j] => i = j
  <2>1. \A i \in nextLow : f[i] = i + d /\ i \in Int
    BY <1>2, <1>3
  <2> QED
    BY <1>2, <1>3, <2>1
<1> HIDE DEF f
<1>7. f \in Injection(nextLow, low)
  BY <1>6 DEF Injection, IsInjective
<1>8. Cardinality(nextLow) <= Cardinality(low)
  BY <1>4, <1>7, FS_Injection
<1>9. n \div 2 \in Int /\ (m - 1) \div 2 \in Int
  BY <1>2
<1>10. Cardinality(nextLow) <= (m - 1) \div 2
  BY <1>1, <1>2, <1>5, <1>8, <1>9
<1>11. \A b \in Int : Cardinality(Below(next, b)) <= (Len(next) - 1) \div 2 => medianOf(next) >= b
  BY MedianAndBelow
<1> QED
  BY <1>1, <1>10, <1>11 DEF nextLow, m, bound

\* Every stored block but genesis came after the median time of its parent.
TimestampsAdvance(tree) ==
  \A block \in DOMAIN tree \ {Genesis} :
    block.header.timestampSeconds > medianTimePast(tree, ParentOf(block))

\* The times of the window medianTimePast looks at.
MedianWindow(tree, hash) ==
  LET recent == LastOf(MEDIAN_SPAN, ancestry(tree, hash))
  IN  [i \in DOMAIN recent |-> recent[i].header.timestampSeconds]

LEMMA WindowOfBranch ==
  ASSUME NEW tree, IsTree(tree), NEW hash \in DOMAIN tree
  PROVE  LET path   == ancestry(tree, hash)
             window == MedianWindow(tree, hash)
             length == IF Len(path) > MEDIAN_SPAN THEN MEDIAN_SPAN ELSE Len(path)
         IN  /\ Len(path) \in Nat \ {0}
             /\ window \in Seq(Int) /\ Len(window) = length
             /\ \A i \in 1..length :
                  window[i] = path[Len(path) - length + i].header.timestampSeconds
<1> DEFINE path   == ancestry(tree, hash)
           recent == LastOf(MEDIAN_SPAN, path)
           window == MedianWindow(tree, hash)
           length == IF Len(path) > MEDIAN_SPAN THEN MEDIAN_SPAN ELSE Len(path)
<1>1. /\ path \in Seq(DOMAIN tree) /\ Len(path) = hash.header.height + 1
      /\ hash.header.height \in Nat
  BY AncestryIsBranch, HeightsInTree
<1>2. MEDIAN_SPAN \in Nat \ {0}
  BY DifficultyAssumption
<1>3. \A block \in DOMAIN tree : block.header.timestampSeconds \in Int
  <2>1. Genesis.header.timestampSeconds = GENESIS_TIMESTAMP_SECONDS
    BY DEF Genesis, createGenesisBlock
  <2> QED
    BY <2>1, ConsensusAssumption DEF IsTree, IsWellFormed
<1>4. window = [i \in DOMAIN recent |-> recent[i].header.timestampSeconds]
  BY DEF MedianWindow
<1> HIDE DEF path, window
<1>5. path \in Seq(Range(path)) /\ path # <<>> /\ Len(path) \in Nat \ {0}
  BY <1>1 DEF Range
<1>6. DOMAIN recent = 1..length /\ \A i \in 1..length : recent[i] = path[Len(path) - length + i]
  BY <1>2, <1>5, LastTimes
<1>7. length \in Nat /\ \A i \in 1..length : Len(path) - length + i \in 1..Len(path)
  BY <1>2, <1>5
<1> HIDE DEF recent, length
<1>8. \A i \in 1..length : window[i] = path[Len(path) - length + i].header.timestampSeconds
  BY <1>4, <1>6
<1>9. \A i \in 1..length : window[i] \in Int
  <2> TAKE i \in 1..length
  <2> DEFINE q == Len(path) - length + i
  <2>1. q \in 1..Len(path) /\ window[i] = path[q].header.timestampSeconds
    BY <1>7, <1>8
  <2> HIDE DEF q
  <2>2. path[q] \in DOMAIN tree
    BY <1>1, <2>1
  <2> QED
    BY <1>3, <2>1, <2>2
<1>10. window = [i \in 1..length |-> window[i]]
  BY <1>4, <1>6
<1>11. window \in Seq(Int) /\ Len(window) = length
  BY <1>7, <1>9, <1>10
<1> QED
  BY <1>5, <1>8, <1>11 DEF path, window, length

LEMMA MedianNeverDecreases ==
  ASSUME NEW tree, IsTree(tree), TimestampsAdvance(tree), NEW block \in DOMAIN tree \ {Genesis}
  PROVE  medianTimePast(tree, block) >= medianTimePast(tree, ParentOf(block))
<1> DEFINE parent == ParentOf(block)
           path   == ancestry(tree, parent)
           longer == ancestry(tree, block)
           values == MedianWindow(tree, parent)
           next   == MedianWindow(tree, block)
           K == MEDIAN_SPAN
<1>1. /\ parent \in DOMAIN tree /\ block \in DOMAIN tree
      /\ block.header.timestampSeconds > medianOf(values)
  BY DEF IsTree, TimestampsAdvance, medianTimePast, MedianWindow
<1>2. longer = Append(path, block)
  BY AncestryUnfolds
<1>3. path \in Seq(DOMAIN tree)
  BY <1>1, AncestryIsBranch
<1>4. LET k == IF Len(path) > K THEN K ELSE Len(path)
      IN  /\ Len(path) \in Nat \ {0} /\ values \in Seq(Int) /\ Len(values) = k
          /\ \A i \in 1..k : values[i] = path[Len(path) - k + i].header.timestampSeconds
  BY <1>1, WindowOfBranch
<1>5. LET k == IF Len(longer) > K THEN K ELSE Len(longer)
      IN  /\ next \in Seq(Int) /\ Len(next) = k
          /\ \A i \in 1..k : next[i] = longer[Len(longer) - k + i].header.timestampSeconds
  BY <1>1, WindowOfBranch
<1> HIDE DEF parent, path, longer, values, next
<1>6. /\ Len(longer) = Len(path) + 1
      /\ longer[Len(longer)] = block
      /\ \A i \in 1..Len(path) : longer[i] = path[i]
  BY <1>2, <1>3
<1>7. K \in Nat \ {0} /\ K % 2 = 1
  BY DifficultyAssumption
<1>8. next[Len(next)] = block.header.timestampSeconds
  <2>1. Len(longer) - Len(next) + Len(next) = Len(longer) /\ Len(next) \in 1..Len(next)
    BY <1>4, <1>5, <1>6, <1>7
  <2> QED
    BY <1>5, <1>6, <2>1
<1>9. /\ \/ Len(next) = Len(values) + 1
         \/ Len(next) = Len(values) /\ Len(values) % 2 = 1
      /\ values # <<>> /\ next # <<>>
      /\ Len(values) \in 1..Len(path) /\ Len(next) \in 1..Len(longer)
      /\ Len(values) + 1 - Len(next) \in {0, 1}
      /\ Len(path) - Len(values) = Len(longer) - Len(next) - (Len(values) + 1 - Len(next))
  <2>1. Len(values) # 0 /\ Len(next) # 0
    BY <1>4, <1>5, <1>6, <1>7
  <2>2. values # <<>> /\ next # <<>>
    BY <2>1
  <2>3. \/ Len(next) = Len(values) + 1
        \/ Len(next) = Len(values) /\ Len(values) % 2 = 1
    <3>1. CASE Len(path) >= K
      <4>1. Len(values) = K /\ Len(next) = K
        BY <1>4, <1>5, <1>6, <1>7, <3>1
      <4> QED
        BY <1>7, <4>1
    <3>2. CASE ~(Len(path) >= K)
      <4>1. Len(values) = Len(path)
        BY <1>4, <1>7, <3>2
      <4>2. Len(next) = Len(longer)
        BY <1>4, <1>5, <1>6, <1>7, <3>2
      <4> QED
        BY <1>6, <4>1, <4>2
    <3> QED
      BY <3>1, <3>2
  <2>4. /\ Len(values) \in 1..Len(path) /\ Len(next) \in 1..Len(longer)
        /\ Len(values) + 1 - Len(next) \in {0, 1}
    BY <1>4, <1>5, <1>6, <1>7
  <2>5. Len(path) - Len(values) = Len(longer) - Len(next) - (Len(values) + 1 - Len(next))
    BY <1>4, <1>6, <2>4
  <2> QED
    BY <2>2, <2>3, <2>4, <2>5
<1>10. \A i \in 1..Len(next) - 1 : next[i] = values[i + (Len(values) + 1 - Len(next))]
  <2> TAKE i \in 1..Len(next) - 1
  <2> DEFINE q == Len(longer) - Len(next) + i
             j == i + (Len(values) + 1 - Len(next))
  <2>1. /\ i \in 1..Len(next) /\ q \in 1..Len(path) /\ j \in 1..Len(values)
        /\ Len(path) - Len(values) + j = q
    <3>1. Len(path) \in Int /\ i \in 1..Len(next) - 1
      BY <1>4
    <3> QED
      BY <1>6, <1>9, <3>1
  <2>2. next[i] = longer[q].header.timestampSeconds
    BY <1>5, <2>1
  <2>3. longer[q] = path[q]
    BY <1>6, <2>1
  <2> HIDE DEF j, q
  <2>4. values[j] = path[Len(path) - Len(values) + j].header.timestampSeconds
    BY <1>4, <2>1
  <2>5. next[i] = values[j]
    BY <2>1, <2>2, <2>3, <2>4
  <2> QED
    BY <2>5 DEF j
<1>11. medianOf(next) >= medianOf(values)
  <2>1. values \in Seq(Int) /\ next \in Seq(Int) /\ next[Len(next)] > medianOf(values)
    BY <1>1, <1>4, <1>5, <1>8
  <2> QED
    BY <1>9, <1>10, <2>1, MedianAdvances
<1> QED
  BY <1>11 DEF medianTimePast, MedianWindow, next, values, parent

-----------------------------------------------------------------------------
(* 5. Sound chains *)

\* A block adds a positive amount of work.
LEMMA WorkIsPositive ==
  ASSUME NEW difficulty \in Nat \ {0}
  PROVE  workForDifficulty(difficulty) \in Nat \ {0}
BY DifficultyAssumption DEF workForDifficulty

\* Every entry counts its work and has issued no more than the cap.
EntriesCount(tree) ==
  \A hash \in DOMAIN tree :
    tree[hash].totalWork \in Nat /\ tree[hash].state.issued \in 0..TOTAL_SUPPLY

\* The entry made for an acceptable block has a legal issue and strictly more
\* work than its parent's.
LEMMA EntryIsLegal ==
  ASSUME NEW tree, EntriesCount(tree), NEW nowMs, NEW block, IsWellFormed(block),
         IsAcceptable(tree, nowMs, block)
  PROVE  LET parent == block.header.previousHash
         IN  /\ parent \in DOMAIN tree
             /\ entryFor(tree, block).totalWork \in Nat
             /\ entryFor(tree, block).totalWork > tree[parent].totalWork
             /\ entryFor(tree, block).state.issued \in 0..TOTAL_SUPPLY
<1> DEFINE parent == block.header.previousHash
           added  == workForDifficulty(block.header.difficulty)
<1>1. parent \in DOMAIN tree
  BY DEF IsAcceptable
<1>2. tree[parent].totalWork \in Nat /\ tree[parent].state.issued \in 0..TOTAL_SUPPLY
  BY <1>1 DEF EntriesCount
<1>3. added \in Nat \ {0}
  BY WorkIsPositive DEF IsWellFormed
<1>4. entryFor(tree, block).totalWork = tree[parent].totalWork + added
  BY DEF entryFor
<1>5. entryFor(tree, block).state = applyBlock(tree[parent].state, block)
  BY DEF entryFor
<1>6. BlockApplies(tree[parent].state, block)
  BY DEF IsAcceptable
<1>7. entryFor(tree, block).state.issued \in 0..TOTAL_SUPPLY
  BY <1>2, <1>5, <1>6, IssueStaysWithinCap DEF IsWellFormed
<1> HIDE DEF added
<1>8. /\ entryFor(tree, block).totalWork \in Nat
      /\ entryFor(tree, block).totalWork > tree[parent].totalWork
  BY <1>2, <1>3, <1>4
<1> QED
  BY <1>1, <1>7, <1>8

\* An acceptable block adds its entry and leaves the others alone.
LEMMA TreeGrows ==
  ASSUME NEW tree, IsTree(tree), EntriesCount(tree), NEW nowMs, NEW block, IsWellFormed(block),
         IsAcceptable(tree, nowMs, block)
  PROVE  LET after == TreeAfter(tree, block)
         IN  /\ block \notin DOMAIN tree
             /\ block.header.previousHash \in DOMAIN tree
             /\ DOMAIN after = DOMAIN tree \cup {block}
             /\ \A hash \in DOMAIN tree : after[hash] = tree[hash]
             /\ after[block] = entryFor(tree, block)
             /\ IsTree(after)
             /\ EntriesCount(after)
<1> DEFINE after == TreeAfter(tree, block)
           parent == block.header.previousHash
<1>1. /\ block \notin DOMAIN tree /\ parent \in DOMAIN tree
      /\ block.header.height = parent.header.height + 1
      /\ BlockApplies(tree[parent].state, block)
  BY DEF IsAcceptable, LinkIsValid
<1>2. /\ DOMAIN after = DOMAIN tree \cup {block}
      /\ \A hash \in DOMAIN tree : after[hash] = tree[hash]
      /\ after[block] = entryFor(tree, block)
  BY <1>1 DEF TreeAfter, Put
<1> HIDE DEF after
<1>3. EntriesCount(after)
  <2>1. /\ entryFor(tree, block).totalWork \in Nat
        /\ entryFor(tree, block).state.issued \in 0..TOTAL_SUPPLY
    BY EntryIsLegal
  <2> QED
    BY <1>2, <2>1 DEF EntriesCount
<1>4. IsTree(after)
  <2>1. Genesis \in DOMAIN after /\ after[Genesis] = GenesisEntry
    BY <1>2 DEF IsTree
  <2>2. \E n \in Nat : \A hash \in DOMAIN after : hash.header.height <= n
    <3>1. PICK n \in Nat : \A hash \in DOMAIN tree : hash.header.height <= n
      BY DEF IsTree
    <3>2. \A hash \in DOMAIN tree : hash.header.height \in Nat
      BY HeightsInTree
    <3>3. \A hash \in DOMAIN after : hash.header.height <= n + 1
      BY <1>1, <1>2, <3>1, <3>2
    <3>4. n + 1 \in Nat
      OBVIOUS
    <3> QED
      BY <3>3, <3>4
  <2>3. ASSUME NEW hash \in DOMAIN after \ {Genesis}
        PROVE  /\ IsWellFormed(hash)
               /\ ParentOf(hash) \in DOMAIN after
               /\ hash.header.height = ParentOf(hash).header.height + 1
               /\ BlockApplies(after[ParentOf(hash)].state, hash)
               /\ after[hash] = entryFor(after, hash)
    <3>1. /\ IsWellFormed(hash)
          /\ ParentOf(hash) \in DOMAIN tree
          /\ hash.header.height = ParentOf(hash).header.height + 1
          /\ BlockApplies(tree[ParentOf(hash)].state, hash)
          /\ after[hash] = entryFor(tree, hash)
      <4>1. CASE hash = block
        BY <1>1, <1>2, <4>1 DEF ParentOf
      <4>2. CASE hash # block
        BY <1>2, <4>2 DEF IsTree
      <4> QED
        BY <4>1, <4>2
    <3>2. after[ParentOf(hash)] = tree[ParentOf(hash)]
      BY <1>2, <3>1
    <3>3. entryFor(after, hash) = entryFor(tree, hash)
      BY <3>2 DEF entryFor, ParentOf
    <3> QED
      BY <1>2, <3>1, <3>2, <3>3
  <2> QED
    BY <2>1, <2>2, <2>3 DEF IsTree
<1> QED
  BY <1>1, <1>2, <1>3, <1>4 DEF after

\* The tree a chain starts from.
LEMMA GenesisIsTree ==
  /\ DOMAIN GenesisTree = {Genesis} /\ GenesisTree[Genesis] = GenesisEntry
  /\ IsTree(GenesisTree) /\ EntriesCount(GenesisTree)
<1>1. DOMAIN GenesisTree = {Genesis} /\ GenesisTree[Genesis] = GenesisEntry
  BY DEF Genesis, GenesisTree
<1>2. GenesisEntry.totalWork \in Nat /\ GenesisEntry.state.issued \in 0..TOTAL_SUPPLY
  BY WorkIsPositive, DifficultyAssumption, RewardAssumption
  DEF GenesisEntry, GenesisState, GENESIS_ISSUED
<1>3. Genesis.header.height = 0
  BY DEF Genesis, createGenesisBlock
<1>4. IsTree(GenesisTree)
  BY <1>1, <1>3 DEF IsTree
<1>5. EntriesCount(GenesisTree)
  BY <1>1, <1>2 DEF EntriesCount
<1> QED
  BY <1>1, <1>4, <1>5

\* An acceptable block comes after the median time of its parent, and moves
\* no other median.
LEMMA TimestampsKeepAdvancing ==
  ASSUME NEW tree, IsTree(tree), EntriesCount(tree), TimestampsAdvance(tree),
         NEW nowMs, NEW block, IsWellFormed(block), IsAcceptable(tree, nowMs, block)
  PROVE  TimestampsAdvance(TreeAfter(tree, block))
<1> DEFINE after == TreeAfter(tree, block)
<1>1. DOMAIN after = DOMAIN tree \cup {block} /\ IsTree(after) /\ ParentOf(block) \in DOMAIN tree
  BY TreeGrows DEF ParentOf
<1>2. block.header.timestampSeconds > medianTimePast(tree, ParentOf(block))
  BY DEF IsAcceptable, LinkIsValid, ParentOf
<1> HIDE DEF after
<1>3. \A hash \in DOMAIN tree : medianTimePast(after, hash) = medianTimePast(tree, hash)
  <2>1. \A hash \in DOMAIN tree : ancestry(after, hash) = ancestry(tree, hash)
    BY <1>1, TreesAgree
  <2> QED
    BY <2>1 DEF medianTimePast
<1>4. TimestampsAdvance(after)
  <2> SUFFICES ASSUME NEW hash \in DOMAIN after \ {Genesis}
               PROVE  hash.header.timestampSeconds > medianTimePast(after, ParentOf(hash))
    BY DEF TimestampsAdvance
  <2>1. CASE hash = block
    BY <1>1, <1>2, <1>3, <2>1
  <2>2. CASE hash # block
    <3>1. ParentOf(hash) \in DOMAIN tree /\ hash \in DOMAIN tree \ {Genesis}
      BY <1>1, <2>2 DEF IsTree
    <3> QED
      BY <1>3, <3>1 DEF TimestampsAdvance
  <2> QED
    BY <2>1, <2>2
<1> QED
  BY <1>4 DEF after

\* What every reachable chain is, a tree and its best block, whoever extends
\* it: Chain, or a node that mines, restarts and replays.
SoundChain(tree, best) ==
  /\ tree = [hash \in DOMAIN tree |-> tree[hash]]
  /\ IsTree(tree) /\ EntriesCount(tree) /\ TimestampsAdvance(tree)
  /\ best \in DOMAIN tree
  /\ \A hash \in DOMAIN tree : tree[hash].totalWork <= tree[best].totalWork

LEMMA GenesisIsSound == SoundChain(GenesisTree, Genesis)
<1>1. GenesisTree = [hash \in DOMAIN GenesisTree |-> GenesisTree[hash]]
  BY DEF GenesisTree
<1>2. /\ DOMAIN GenesisTree = {Genesis}
      /\ IsTree(GenesisTree) /\ EntriesCount(GenesisTree)
  BY GenesisIsTree
<1> HIDE DEF Genesis
<1> QED
  BY <1>1, <1>2 DEF SoundChain, TimestampsAdvance, EntriesCount

LEMMA SoundChainGrows ==
  ASSUME NEW tree, NEW best, SoundChain(tree, best),
         NEW nowMs, NEW block, IsWellFormed(block), IsAcceptable(tree, nowMs, block)
  PROVE  SoundChain(TreeAfter(tree, block), BestAfter(tree, best, block))
<1> DEFINE after == TreeAfter(tree, block)
           head  == BestAfter(tree, best, block)
<1>1. after = [hash \in DOMAIN after |-> after[hash]]
  BY DEF TreeAfter, Put
<1>2. IsTree(tree) /\ EntriesCount(tree) /\ TimestampsAdvance(tree)
  BY DEF SoundChain
<1>3. LET new == TreeAfter(tree, block)
      IN  /\ block \notin DOMAIN tree
          /\ block.header.previousHash \in DOMAIN tree
          /\ DOMAIN new = DOMAIN tree \cup {block}
          /\ \A hash \in DOMAIN tree : new[hash] = tree[hash]
          /\ new[block] = entryFor(tree, block)
          /\ IsTree(new)
          /\ EntriesCount(new)
  BY <1>2, TreeGrows
<1>4. TimestampsAdvance(after)
  BY <1>2, TimestampsKeepAdvancing
<1>5. /\ \A hash \in DOMAIN tree : tree[hash].totalWork \in Nat
      /\ \A hash \in DOMAIN tree : tree[hash].totalWork <= tree[best].totalWork
      /\ best \in DOMAIN tree
  BY <1>2 DEF SoundChain, EntriesCount
<1>6. entryFor(tree, block).totalWork \in Nat
  BY <1>3 DEF EntriesCount
<1> HIDE DEF after
<1>7. head \in DOMAIN after /\ \A hash \in DOMAIN after : after[hash].totalWork <= after[head].totalWork
  <2>1. CASE TakesOver(tree, best, block)
    <3>1. head = block
      BY <2>1 DEF BestAfter
    <3>2. tree[best].totalWork < entryFor(tree, block).totalWork
      BY <1>5, <1>6, <2>1 DEF TakesOver
    <3>3. \A hash \in DOMAIN tree : tree[hash].totalWork <= entryFor(tree, block).totalWork
      BY <1>5, <1>6, <3>2
    <3> QED
      BY <1>3, <1>6, <3>1, <3>3 DEF after
  <2>2. CASE ~TakesOver(tree, best, block)
    <3>1. head = best
      BY <2>2 DEF BestAfter
    <3>2. entryFor(tree, block).totalWork <= tree[best].totalWork
      BY <1>5, <1>6, <2>2 DEF TakesOver
    <3> QED
      BY <1>3, <1>5, <3>1, <3>2 DEF after
  <2> QED
    BY <2>1, <2>2
<1> QED
  BY <1>1, <1>3, <1>4, <1>7 DEF SoundChain, after

\* What holds of every sound chain.
LEMMA SoundChainProperties ==
  ASSUME SoundChain(entries, bestHash)
  PROVE  /\ BestHasMostWork
         /\ EntriesExtendParents
         /\ MedianTimeNeverDecreases
         /\ BranchesSpendSoundly
         /\ SupplyIsConserved
<1>1. /\ IsTree(entries) /\ TimestampsAdvance(entries)
      /\ \A block \in DOMAIN entries : entries[block].state.issued \in 0..TOTAL_SUPPLY
  BY DEF SoundChain, EntriesCount
<1>2. BestHasMostWork
  BY DEF SoundChain, BestHasMostWork, Stored, WorkOf
<1>3. EntriesExtendParents
  BY <1>1 DEF IsTree, EntriesExtendParents, Stored, ParentOf
<1>4. MedianTimeNeverDecreases
  BY <1>1, MedianNeverDecreases DEF MedianTimeNeverDecreases, Stored, ParentOf
<1>5. BranchesSpendSoundly
  <2>1. NoOutputSpentTwice
    BY <1>1, BranchSpends DEF NoOutputSpentTwice, Stored
  <2>2. SubsidiesMatureFirst
    BY <1>1, BranchSpends DEF SubsidiesMatureFirst, Stored, IsSubsidy
  <2> QED
    BY <2>1, <2>2 DEF BranchesSpendSoundly
<1>6. SupplyIsConserved
  BY <1>1, BranchBalances DEF SupplyIsConserved, Stored, Balances
<1> QED
  BY <1>2, <1>3, <1>4, <1>5, <1>6

-----------------------------------------------------------------------------
(* 6. The chain *)

\* The inductive invariant.
Invariant == TypeOK /\ SoundChain(entries, bestHash)

\* What a step that stores a block does to the chain.
LEMMA StoredBlock ==
  ASSUME SoundChain(entries, bestHash), NEW block, IsWellFormed(block), addBlock(block)
  PROVE  /\ block \notin Stored
         /\ block.header.previousHash \in Stored
         /\ Stored' = Stored \cup {block}
         /\ \A hash \in Stored : entries'[hash] = entries[hash]
         /\ entries'[block] = entryFor(entries, block)
         /\ bestHash' = IF TakesOver(entries, bestHash, block) THEN block ELSE bestHash
         /\ SoundChain(entries', bestHash')
<1>1. IsAcceptable(entries, now, block)
  BY DEF addBlock
<1>2. IsTree(entries) /\ EntriesCount(entries)
  BY DEF SoundChain
<1>3. entries' = TreeAfter(entries, block) /\ bestHash' = BestAfter(entries, bestHash, block)
  BY DEF addBlock
<1>4. bestHash' = IF TakesOver(entries, bestHash, block) THEN block ELSE bestHash
  BY <1>3 DEF BestAfter
<1>5. LET after == TreeAfter(entries, block)
      IN  /\ block \notin DOMAIN entries
          /\ block.header.previousHash \in DOMAIN entries
          /\ DOMAIN after = DOMAIN entries \cup {block}
          /\ \A hash \in DOMAIN entries : after[hash] = entries[hash]
          /\ after[block] = entryFor(entries, block)
          /\ IsTree(after)
          /\ EntriesCount(after)
  BY <1>1, <1>2, TreeGrows
<1>6. SoundChain(TreeAfter(entries, block), BestAfter(entries, bestHash, block))
  BY <1>1, SoundChainGrows
<1>7. SoundChain(entries', bestHash')
  BY <1>3, <1>6
<1> QED
  BY <1>3, <1>4, <1>5, <1>7 DEF Stored

LEMMA InitInvariant == Init => Invariant
<1> SUFFICES ASSUME Init PROVE Invariant
  OBVIOUS
<1>1. SoundChain(entries, bestHash)
  BY GenesisIsSound DEF Init, Genesis
<1>2. Stored = {Genesis} /\ bestHash = Genesis /\ EntriesCount(entries)
  BY GenesisIsTree DEF Init, Stored, Genesis
<1>3. TypeOK
  BY <1>2, ConsensusAssumption DEF TypeOK, Init, EntriesCount, Stored
<1> QED
  BY <1>1, <1>3 DEF Invariant

LEMMA StepInvariant == Invariant /\ [Next]_vars => Invariant'
<1> SUFFICES ASSUME Invariant, [Next]_vars PROVE Invariant'
  OBVIOUS
<1>1. CASE Tick
  <2>1. entries' = entries /\ bestHash' = bestHash /\ now' = now + TickMs
    BY <1>1 DEF Tick
  <2>2. TypeOK'
    BY <2>1, ClockAssumption DEF TypeOK, Stored, Invariant
  <2> QED
    BY <2>1, <2>2 DEF Invariant
<1>2. ASSUME NEW block \in Blocks, addBlock(block) PROVE Invariant'
  <2>1. IsWellFormed(block) /\ SoundChain(entries, bestHash)
    BY BlocksAssumption DEF Invariant
  <2>2. Stored' = Stored \cup {block} /\ SoundChain(entries', bestHash')
    BY <1>2, <2>1, StoredBlock
  <2>3. now' = now
    BY <1>2 DEF addBlock
  <2>4. EntriesCount(entries') /\ bestHash' \in Stored'
    BY <2>2 DEF SoundChain, Stored
  <2>5. TypeOK'
    BY <2>2, <2>3, <2>4 DEF TypeOK, Genesis, EntriesCount, Stored, Invariant
  <2> QED
    BY <2>2, <2>5 DEF Invariant
<1>3. CASE UNCHANGED vars
  <2>1. entries' = entries /\ bestHash' = bestHash /\ now' = now
    BY <1>3 DEF vars
  <2> QED
    BY <2>1 DEF Invariant, TypeOK, Stored
<1> QED
  BY <1>1, <1>2, <1>3 DEF Next

\* The inductive invariant holds in every reachable state of every instance.
THEOREM ChainInvariant == Spec => []Invariant
<1>1. Init => Invariant
  BY InitInvariant
<1>2. Invariant /\ [Next]_vars => Invariant'
  BY StepInvariant
<1> QED
  BY <1>1, <1>2, PTL DEF Spec

\* Stored blocks were offered, and work and issue are well formed: in
\* particular no branch issues more than the cap.
THEOREM ChainTypeOK == Spec => []TypeOK
BY ChainInvariant, PTL DEF Invariant

\* The best block carries the most cumulative work of all stored blocks.
THEOREM ChainBestHasMostWork == Spec => []BestHasMostWork
BY ChainInvariant, SoundChainProperties, PTL DEF Invariant

\* Every entry is one validated step from its parent's entry.
THEOREM ChainEntriesExtendParents == Spec => []EntriesExtendParents
BY ChainInvariant, SoundChainProperties, PTL DEF Invariant

\* The median time of the past never decreases along a stored branch.
THEOREM ChainMedianTimeNeverDecreases == Spec => []MedianTimeNeverDecreases
BY ChainInvariant, SoundChainProperties, PTL DEF Invariant

\* No branch spends an output twice, and every subsidy that a branch spends
\* was minted on that branch and had matured.
THEOREM ChainBranchesSpendSoundly == Spec => []BranchesSpendSoundly
BY ChainInvariant, SoundChainProperties, PTL DEF Invariant

\* On a branch no block of which spends an output twice, what was issued is
\* what circulates plus the fees burned.
THEOREM ChainSupplyIsConserved == Spec => []SupplyIsConserved
BY ChainInvariant, SoundChainProperties, PTL DEF Invariant

-----------------------------------------------------------------------------
\* The best hash moves only to a block with strictly more work than it has:
\* rivals of equal work never displace the best chain.
THEOREM ChainOnlyMoreWorkReorganises == Spec => OnlyMoreWorkReorganises
<1> DEFINE Moves == bestHash' # bestHash => entries'[bestHash'].totalWork > WorkOf(bestHash)
<1>1. Invariant /\ [Next]_vars => [Moves]_vars
  <2> SUFFICES ASSUME Invariant, Next PROVE Moves
    OBVIOUS
  <2>1. CASE Tick
    BY <2>1 DEF Tick
  <2>2. ASSUME NEW block \in Blocks, addBlock(block) PROVE Moves
    <3>2. IsWellFormed(block) /\ SoundChain(entries, bestHash)
      BY BlocksAssumption DEF Invariant
    <3>1. /\ entries'[block] = entryFor(entries, block)
          /\ bestHash' = IF TakesOver(entries, bestHash, block) THEN block ELSE bestHash
      BY <2>2, <3>2, StoredBlock
    <3> QED
      BY <3>1 DEF TakesOver, WorkOf
  <2> QED
    BY <2>1, <2>2 DEF Next
<1> QED
  BY <1>1, ChainInvariant, PTL DEF Spec, OnlyMoreWorkReorganises

-----------------------------------------------------------------------------
\* The chain implements the abstract fork choice of ForkChoice.

LEMMA InitRefines == Init => Abstract!Init
BY DEF Init, Abstract!Init, Stored, Genesis, GenesisTree

LEMMA StepRefines ==
  Invariant /\ [Next]_vars => [Abstract!Next]_(<<[hash \in Stored |-> WorkOf(hash)], bestHash>>)
<1> DEFINE weight == [hash \in Stored |-> WorkOf(hash)]
<1> SUFFICES ASSUME Invariant, [Next]_vars
             PROVE  Abstract!Next \/ UNCHANGED <<weight, bestHash>>
  OBVIOUS
<1>1. ASSUME NEW block \in Blocks, addBlock(block) PROVE Abstract!Next
  <2>1. /\ block \notin Stored
        /\ block.header.previousHash \in Stored
        /\ Stored' = Stored \cup {block}
        /\ \A hash \in Stored : entries'[hash] = entries[hash]
        /\ entries'[block] = entryFor(entries, block)
        /\ bestHash' = IF TakesOver(entries, bestHash, block) THEN block ELSE bestHash
    <3>1. IsWellFormed(block) /\ SoundChain(entries, bestHash)
      BY BlocksAssumption DEF Invariant
    <3> QED
      BY <1>1, <3>1, StoredBlock
  <2>2. /\ entryFor(entries, block).totalWork \in Nat
        /\ entryFor(entries, block).totalWork > WorkOf(block.header.previousHash)
    <3>1. IsAcceptable(entries, now, block) /\ IsWellFormed(block) /\ EntriesCount(entries)
      BY <1>1, BlocksAssumption DEF addBlock, Invariant, SoundChain
    <3> QED
      BY <3>1, EntryIsLegal DEF WorkOf
  <2>3. weight' = [hash \in Stored' |-> entries'[hash].totalWork]
    BY DEF WorkOf
  <2>4. Abstract!Learn(block)
    BY <2>1, <2>2, <2>3 DEF Abstract!Learn, ParentOf, WorkOf
  <2>5. Abstract!Heaviest(block) <=> TakesOver(entries, bestHash, block)
    <3>1. /\ bestHash \in Stored
          /\ \A hash \in Stored : WorkOf(hash) \in Nat /\ WorkOf(hash) <= WorkOf(bestHash)
      BY DEF Invariant, TypeOK, SoundChain, Stored, WorkOf
    <3>2. weight'[block] = entryFor(entries, block).totalWork
      BY <2>1, <2>3
    <3>3. Abstract!Heaviest(block)
            <=> \A hash \in Stored : WorkOf(hash) < entryFor(entries, block).totalWork
      BY <3>2 DEF Abstract!Heaviest
    <3> QED
      BY <2>2, <3>1, <3>3 DEF TakesOver, WorkOf
  <2> QED
    BY <2>1, <2>3, <2>4, <2>5 DEF Abstract!Next
<1>2. CASE Tick
  BY <1>2 DEF Tick, Stored, WorkOf
<1>3. CASE UNCHANGED vars
  BY <1>3 DEF vars, Stored, WorkOf
<1> QED
  BY <1>1, <1>2, <1>3 DEF Next

\* Fork choice by comparison with the best block alone keeps the promise of
\* the abstract one: the head outweighs every node ever learnt.
THEOREM ChainImplementsForkChoice == Spec => ImplementsForkChoice
<1>1. Init => Abstract!Init
  BY InitRefines
<1>2. Invariant /\ [Next]_vars
        => [Abstract!Next]_(<<[hash \in Stored |-> WorkOf(hash)], bestHash>>)
  BY StepRefines
<1> QED
  BY <1>1, <1>2, ChainInvariant, PTL DEF Spec, ImplementsForkChoice, Abstract!Spec

-----------------------------------------------------------------------------
(* 7. Replay *)

\* What validation asks of a block under its parent, its time ahead of the
\* clock apart: it reads the tree only along the parent's branch.
FitsUnder(tree, block) ==
  LET parent == block.header.previousHash
      header == block.header
  IN  /\ serializedBlockBodyLength(block) <= MAX_BLOCK_BODY_BYTES
      /\ header.version = parent.header.version
      /\ header.height = parent.header.height + 1
      /\ LwmaIsDefined(recentSummaries(tree, parent))
      /\ header.difficulty = nextLwmaDifficulty(recentSummaries(tree, parent))
      /\ header.powSeed = ancestor(tree, parent, expectedSeedHeight(header.height))
      /\ header.timestampSeconds > medianTimePast(tree, parent)
      /\ CommitmentsHold(block)
      /\ block.proven
      /\ BlockApplies(tree[parent].state, block)

TooEarly(block, nowMs) ==
  block.header.timestampSeconds * MS_PER_SECOND > nowMs + TIMESTAMP_FUTURE_TOLERANCE_MS

LEMMA AcceptableFits ==
  ASSUME NEW tree, NEW nowMs \in Int, NEW block, IsWellFormed(block)
  PROVE  IsAcceptable(tree, nowMs, block) <=>
           /\ block \notin DOMAIN tree
           /\ block.header.previousHash \in DOMAIN tree
           /\ FitsUnder(tree, block)
           /\ ~TooEarly(block, nowMs)
<1>1. block.header.timestampSeconds * MS_PER_SECOND \in Int
  BY ConsensusAssumption DEF IsWellFormed
<1>2. block.header.timestampSeconds * MS_PER_SECOND <= nowMs + TIMESTAMP_FUTURE_TOLERANCE_MS
        <=> ~TooEarly(block, nowMs)
  BY <1>1, ConsensusAssumption DEF TooEarly
<1> QED
  BY <1>2 DEF IsAcceptable, LinkIsValid, FitsUnder

\* So a block that fits under its parent in one tree fits in every tree.
LEMMA FitsAlike ==
  ASSUME NEW tree, IsTree(tree), NEW other, IsTree(other), NEW block,
         block.header.previousHash \in DOMAIN tree \cap DOMAIN other, FitsUnder(tree, block)
  PROVE  FitsUnder(other, block)
<1> DEFINE parent == block.header.previousHash
<1>1. ancestry(tree, parent) = ancestry(other, parent) /\ tree[parent] = other[parent]
  BY TreesAgree
<1>2. /\ recentSummaries(other, parent) = recentSummaries(tree, parent)
      /\ medianTimePast(other, parent) = medianTimePast(tree, parent)
      /\ \A height : ancestor(other, parent, height) = ancestor(tree, parent, height)
  BY <1>1 DEF recentSummaries, medianTimePast, ancestor
<1> QED
  BY <1>1, <1>2 DEF FitsUnder

\* A row of the store that is not genesis was validated in some tree.
WasValidated(block) ==
  /\ IsWellFormed(block)
  /\ \E tree : /\ IsTree(tree) /\ block.header.previousHash \in DOMAIN tree
               /\ FitsUnder(tree, block)

LEMMA ValidatedOnce ==
  ASSUME NEW tree, IsTree(tree), NEW nowMs \in Int, NEW block, WasValidated(block)
  PROVE  IsAcceptable(tree, nowMs, block) <=>
           /\ block \notin DOMAIN tree
           /\ block.header.previousHash \in DOMAIN tree
           /\ ~TooEarly(block, nowMs)
<1>1. IsWellFormed(block)
  BY DEF WasValidated
<1>2. PICK other : IsTree(other) /\ block.header.previousHash \in DOMAIN other /\ FitsUnder(other, block)
  BY DEF WasValidated
<1>3. block.header.previousHash \in DOMAIN tree => FitsUnder(tree, block)
  BY <1>2, FitsAlike
<1> QED
  BY <1>1, <1>3, AcceptableFits

-----------------------------------------------------------------------------
\* The function FoldLeft recurses on in loadPersistedBlocks, and the chain
\* after each of the rows.
ReplayStep(nowMs, chain, block) ==
  IF IsAcceptable(chain.tree, nowMs, block)
  THEN [tree |-> TreeAfter(chain.tree, block),
        best |-> BestAfter(chain.tree, chain.best, block)]
  ELSE chain

ReplayStart == [tree |-> GenesisTree, best |-> createGenesisBlock]

Replays(nowMs, rows, g) ==
  g = [s \in SUBSET DOMAIN rows |->
         IF s = {} THEN ReplayStart
         ELSE ReplayStep(nowMs, g[s \ {Max(s)}], rows[Max(s)])]

Replay(nowMs, rows) == CHOOSE g : Replays(nowMs, rows, g)

LEMMA LoadIsReplay ==
  ASSUME NEW saved, NEW nowMs
  PROVE  loadPersistedBlocks(saved, nowMs)
           = Replay(nowMs, allBlocksByHeight(saved))[DOMAIN allBlocksByHeight(saved)]
BY DEF loadPersistedBlocks, FoldLeft, MapThenFoldSet, Replay, Replays, ReplayStep, ReplayStart

\* A finite set of numbers that is not empty has a greatest one.
LEMMA MaxOfNumbers ==
  ASSUME NEW n \in Nat, NEW s \in SUBSET (1..n), s # {}
  PROVE  Max(s) \in s /\ \A i \in s : i <= Max(s)
<1> DEFINE gaps == {n - i : i \in s}
<1>1. gaps \in SUBSET Nat /\ gaps # {}
  <2>1. \A i \in s : n - i \in Nat
    OBVIOUS
  <2>2. gaps # {}
    OBVIOUS
  <2> QED
    BY <2>1, <2>2
<1>2. PICK gap \in gaps : \A other \in gaps : gap <= other
  <2> HIDE DEF gaps
  <2> QED
    BY <1>1, LeastNatural
<1>3. PICK i \in s : gap = n - i
  OBVIOUS
<1>4. \A j \in s : n - j \in gaps /\ j \in Int
  OBVIOUS
<1> HIDE DEF gaps
<1>5. \A j \in s : i >= j
  <2> TAKE j \in s
  <2>1. n - i <= n - j /\ i \in Int /\ j \in Int
    BY <1>2, <1>3, <1>4
  <2> QED
    BY <2>1
<1>6. \E k \in s : \A j \in s : k >= j
  BY <1>5
<1>7. Max(s) \in s /\ \A j \in s : Max(s) >= j
  BY <1>6 DEF Max
<1> QED
  BY <1>4, <1>7

LEMMA ReplayExists ==
  ASSUME NEW n \in Nat, NEW rows, DOMAIN rows = 1..n, NEW nowMs
  PROVE  Replays(nowMs, rows, Replay(nowMs, rows))
<1> DEFINE step(g, s) == IF s = {} THEN ReplayStart
                         ELSE ReplayStep(nowMs, g[s \ {Max(s)}], rows[Max(s)])
           Small(k) == {s \in SUBSET (1..n) : Cardinality(s) <= k}
           Solves(g, k) == g = [s \in Small(k) |-> step(g, s)]
           Good == {k \in Nat : \E g : Solves(g, k)}
<1>1. \A s \in SUBSET (1..n) : IsFiniteSet(s) /\ Cardinality(s) \in Nat /\ Cardinality(s) <= n
  <2>1. IsFiniteSet(1..n) /\ Cardinality(1..n) = n
    BY FS_Interval
  <2> QED
    BY <2>1, FS_Subset, FS_CardinalityType
<1>2. ASSUME NEW s \in SUBSET (1..n), s # {}
      PROVE  /\ Max(s) \in s /\ Cardinality(s) # 0
             /\ Cardinality(s \ {Max(s)}) = Cardinality(s) - 1
  BY <1>1, <1>2, MaxOfNumbers, FS_RemoveElement, FS_EmptySet
<1>3. 0 \in Good
  <2> DEFINE g == [s \in Small(0) |-> ReplayStart]
  <2>1. \A s \in Small(0) : step(g, s) = ReplayStart
    BY <1>1, <1>2
  <2>2. Solves(g, 0)
    BY <2>1
  <2> QED
    BY <2>2
<1>4. ASSUME NEW k \in Nat, k \in Good PROVE k + 1 \in Good
  <2>1. PICK g : Solves(g, k)
    BY <1>4
  <2> DEFINE h == [s \in Small(k + 1) |-> step(g, s)]
  <2>2. \A s \in Small(k) : s \in Small(k + 1)
    BY <1>1
  <2>3. \A s \in Small(k) : g[s] = h[s]
    BY <2>1, <2>2
  <2>4. \A s \in Small(k + 1) : s # {} => s \ {Max(s)} \in Small(k)
    <3> SUFFICES ASSUME NEW s \in Small(k + 1), s # {} PROVE s \ {Max(s)} \in Small(k)
      OBVIOUS
    <3>1. Cardinality(s \ {Max(s)}) = Cardinality(s) - 1 /\ Cardinality(s) \in Nat
      BY <1>1, <1>2
    <3>2. Cardinality(s \ {Max(s)}) <= k
      BY <3>1
    <3> QED
      BY <3>2
  <2>5. \A s \in Small(k + 1) : step(g, s) = step(h, s)
    <3> HIDE DEF h, Small
    <3> QED
      BY <2>3, <2>4
  <2>6. Solves(h, k + 1)
    <3>1. h = [s \in Small(k + 1) |-> step(g, s)]
      OBVIOUS
    <3> HIDE DEF h, step
    <3> QED
      BY <2>5, <3>1
  <2> HIDE DEF Solves
  <2>7. \E f : Solves(f, k + 1)
    BY <2>6
  <2> QED
    BY <2>7
<1>5. \A k \in Nat : k \in Good
  <2> HIDE DEF Good
  <2> QED
    BY <1>3, <1>4, NaturalInduction
<1>6. PICK g : Solves(g, n)
  BY <1>5
<1>7. Small(n) = SUBSET (1..n)
  BY <1>1
<1>8. Replays(nowMs, rows, g)
  BY <1>6, <1>7 DEF Replays
<1> QED
  BY <1>8 DEF Replay

\* The chain after the first k rows: rows are taken one by one, in order.
ChainAfter(nowMs, rows, k) == Replay(nowMs, rows)[1..k]

LEMMA ReplayUnfolds ==
  ASSUME NEW n \in Nat, NEW rows, DOMAIN rows = 1..n, NEW nowMs
  PROVE  /\ ChainAfter(nowMs, rows, 0) = ReplayStart
         /\ \A k \in 1..n : ChainAfter(nowMs, rows, k)
                              = ReplayStep(nowMs, ChainAfter(nowMs, rows, k - 1), rows[k])
<1> DEFINE g == Replay(nowMs, rows)
<1>1. Replays(nowMs, rows, g)
  BY ReplayExists
<1> HIDE DEF g
<1>2. \A s \in SUBSET (1..n) : g[s] = IF s = {} THEN ReplayStart
                                      ELSE ReplayStep(nowMs, g[s \ {Max(s)}], rows[Max(s)])
  BY <1>1 DEF Replays
<1>3. g[1..0] = ReplayStart
  <2>1. 1..0 = {}
    OBVIOUS
  <2> QED
    BY <1>2, <2>1
<1>4. ASSUME NEW k \in 1..n PROVE g[1..k] = ReplayStep(nowMs, g[1..(k - 1)], rows[k])
  <2>1. /\ 1..k \in SUBSET (1..n) /\ 1..k # {} /\ k \in 1..k /\ k \in Nat
        /\ (1..k) \ {k} = 1..(k - 1)
    OBVIOUS
  <2>2. Max(1..k) \in 1..k /\ \A i \in 1..k : i <= Max(1..k)
    BY <2>1, MaxOfNumbers
  <2>3. k <= Max(1..k) /\ Max(1..k) <= k /\ Max(1..k) \in Int
    BY <2>1, <2>2
  <2>4. Max(1..k) = k
    BY <2>1, <2>3
  <2> QED
    BY <1>2, <2>1, <2>4
<1> QED
  BY <1>3, <1>4 DEF ChainAfter, g

-----------------------------------------------------------------------------
\* What the rows of the store are.
ValidRows(saved) ==
  /\ saved \in Seq(Range(saved))
  /\ \A block \in Range(saved) : block = Genesis \/ WasValidated(block)

\* Read back, they come by height.
LEMMA RowsByHeight ==
  ASSUME NEW saved, ValidRows(saved)
  PROVE  LET rows == allBlocksByHeight(saved)
         IN  \E n \in Nat :
               /\ DOMAIN rows = 1..n
               /\ \A k \in 1..n : rows[k] \in Range(saved) /\ rows[k].header.height \in Nat
               /\ \A block \in Range(saved) : \E k \in 1..n : rows[k] = block
               /\ \A i, j \in 1..n : i < j => rows[i].header.height <= rows[j].header.height
<1> DEFINE rows == allBlocksByHeight(saved)
           heights == [i \in DOMAIN saved |-> saved[i].header.height]
           n == Len(saved)
<1>1. n \in Nat /\ DOMAIN saved = 1..n
  BY DEF ValidRows
<1>2. \A block \in Range(saved) : block.header.height \in Nat
  <2>1. Genesis.header.height \in Nat
    BY DEF Genesis, createGenesisBlock
  <2> QED
    BY <2>1 DEF ValidRows, WasValidated, IsWellFormed
<1>3. \A i \in 1..n : saved[i] \in Range(saved) /\ heights[i] = saved[i].header.height
  BY <1>1 DEF Range
<1>4. heights \in [1..n -> Int]
  BY <1>1, <1>2, <1>3
<1>5. rows = SortedBy(saved, heights)
  BY DEF allBlocksByHeight
<1> HIDE DEF rows, heights, n
<1>6. PICK order : SortsAs(order, saved, heights, n)
  BY <1>1, <1>4, SortedBySorts
<1>7. Sorts(order, heights, n) /\ rows = [r \in 1..n |-> saved[order[r]]]
  BY <1>5, <1>6 DEF SortsAs
<1>8. \A k \in 1..n : order[k] \in 1..n /\ rows[k] = saved[order[k]]
  BY <1>7 DEF Sorts
<1>9. \A k \in 1..n : rows[k] \in Range(saved) /\ rows[k].header.height \in Nat
  BY <1>2, <1>3, <1>8
<1>10. ASSUME NEW block \in Range(saved) PROVE \E k \in 1..n : rows[k] = block
  <2>1. PICK i \in 1..n : saved[i] = block
    BY <1>1 DEF Range
  <2>2. PICK k \in 1..n : order[k] = i
    BY <1>7 DEF Sorts
  <2> QED
    BY <1>8, <2>1, <2>2
<1>11. ASSUME NEW i \in 1..n, NEW j \in 1..n, i < j
       PROVE  rows[i].header.height <= rows[j].header.height
  <2>1. heights[order[i]] <= heights[order[j]]
    BY <1>7, <1>11 DEF Sorts
  <2> QED
    BY <1>3, <1>8, <2>1
<1>12. DOMAIN rows = 1..n
  BY <1>7
<1> QED
  BY <1>1, <1>9, <1>10, <1>11, <1>12 DEF rows

\* One row of a replay: it is taken, or its parent is not there yet, or it is
\* ahead of the clock.
LEMMA ReplayedRow ==
  ASSUME NEW chain, SoundChain(chain.tree, chain.best), NEW nowMs \in Int,
         NEW block, block = Genesis \/ WasValidated(block)
  PROVE  LET next == ReplayStep(nowMs, chain, block)
         IN  /\ SoundChain(next.tree, next.best)
             /\ DOMAIN chain.tree \subseteq DOMAIN next.tree
             /\ DOMAIN next.tree \subseteq DOMAIN chain.tree \cup {block}
             /\ \/ block \in DOMAIN next.tree
                \/ block.header.previousHash \notin DOMAIN chain.tree
                \/ TooEarly(block, nowMs)
<1> DEFINE next == ReplayStep(nowMs, chain, block)
<1>1. IsTree(chain.tree) /\ EntriesCount(chain.tree)
  BY DEF SoundChain
<1>2. CASE IsAcceptable(chain.tree, nowMs, block)
  <2>1. block # Genesis
    BY <1>1, <1>2 DEF IsTree, IsAcceptable
  <2>2. IsWellFormed(block)
    BY <2>1 DEF WasValidated
  <2>3. /\ next.tree = TreeAfter(chain.tree, block)
        /\ next.best = BestAfter(chain.tree, chain.best, block)
    BY <1>2 DEF ReplayStep
  <2>4. DOMAIN TreeAfter(chain.tree, block) = DOMAIN chain.tree \cup {block}
    BY DEF TreeAfter, Put
  <2>5. SoundChain(TreeAfter(chain.tree, block), BestAfter(chain.tree, chain.best, block))
    BY <1>2, <2>2, SoundChainGrows
  <2> HIDE DEF next
  <2> QED
    BY <2>3, <2>4, <2>5 DEF next
<1>3. CASE ~IsAcceptable(chain.tree, nowMs, block)
  <2>1. next = chain
    BY <1>3 DEF ReplayStep
  <2>2. CASE block = Genesis
    BY <1>1, <2>1, <2>2 DEF IsTree
  <2>3. CASE WasValidated(block)
    <3>1. \/ block \in DOMAIN chain.tree
          \/ block.header.previousHash \notin DOMAIN chain.tree
          \/ TooEarly(block, nowMs)
      BY <1>1, <1>3, <2>3, ValidatedOnce
    <3> QED
      BY <2>1, <3>1
  <2> QED
    BY <2>2, <2>3
<1> QED
  BY <1>2, <1>3

\* A replay of the store: a sound chain made of rows, from which a row is
\* missing only if its parent is missing or if it is ahead of the clock.
LEMMA ReplayIsSound ==
  ASSUME NEW saved, ValidRows(saved), NEW nowMs \in Int
  PROVE  LET chain == loadPersistedBlocks(saved, nowMs)
         IN  /\ SoundChain(chain.tree, chain.best)
             /\ DOMAIN chain.tree \subseteq Range(saved) \cup {Genesis}
             /\ \A block \in Range(saved) : \/ block \in DOMAIN chain.tree
                                            \/ block.header.previousHash \notin DOMAIN chain.tree
                                            \/ TooEarly(block, nowMs)
<1> DEFINE rows == allBlocksByHeight(saved)
           after(k) == ChainAfter(nowMs, rows, k)
           tree(k) == after(k).tree
<1>1. PICK n \in Nat :
        /\ DOMAIN rows = 1..n
        /\ \A k \in 1..n : rows[k] \in Range(saved) /\ rows[k].header.height \in Nat
        /\ \A block \in Range(saved) : \E k \in 1..n : rows[k] = block
        /\ \A i, j \in 1..n : i < j => rows[i].header.height <= rows[j].header.height
  BY RowsByHeight
<1>2. loadPersistedBlocks(saved, nowMs) = after(n)
  BY <1>1, LoadIsReplay DEF ChainAfter
<1> HIDE DEF rows
<1>3. /\ after(0) = ReplayStart
      /\ \A k \in 1..n : after(k) = ReplayStep(nowMs, after(k - 1), rows[k])
  <2>1. DOMAIN rows = 1..n
    BY <1>1
  <2>2. /\ ChainAfter(nowMs, rows, 0) = ReplayStart
        /\ \A k \in 1..n : ChainAfter(nowMs, rows, k)
                             = ReplayStep(nowMs, ChainAfter(nowMs, rows, k - 1), rows[k])
    BY <2>1, ReplayUnfolds
  <2> QED
    BY <2>2
<1>4. \A k \in 1..n : rows[k] = Genesis \/ WasValidated(rows[k])
  BY <1>1 DEF ValidRows
<1> HIDE DEF after
<1>5. \A k \in 0..n : SoundChain(tree(k), after(k).best)
  <2> DEFINE Q == {k \in Nat : k <= n => SoundChain(tree(k), after(k).best)}
  <2>1. 0 \in Q
    BY <1>3, GenesisIsSound DEF ReplayStart, Genesis
  <2>2. ASSUME NEW k \in Nat, k \in Q PROVE k + 1 \in Q
    <3> SUFFICES ASSUME k + 1 <= n PROVE SoundChain(tree(k + 1), after(k + 1).best)
      OBVIOUS
    <3>1. k + 1 \in 1..n /\ (k + 1) - 1 = k /\ k <= n
      OBVIOUS
    <3>2. after(k + 1) = ReplayStep(nowMs, after(k), rows[k + 1])
      BY <1>3, <3>1
    <3>3. SoundChain(after(k).tree, after(k).best)
      BY <2>2, <3>1
    <3>4. rows[k + 1] = Genesis \/ WasValidated(rows[k + 1])
      BY <1>4, <3>1
    <3> QED
      BY <3>2, <3>3, <3>4, ReplayedRow
  <2> HIDE DEF Q
  <2>3. \A k \in Nat : k \in Q
    BY <2>1, <2>2, NaturalInduction
  <2> QED
    BY <2>3 DEF Q
<1>6. ASSUME NEW k \in 1..n
      PROVE  /\ DOMAIN tree(k - 1) \subseteq DOMAIN tree(k)
             /\ DOMAIN tree(k) \subseteq DOMAIN tree(k - 1) \cup {rows[k]}
             /\ \/ rows[k] \in DOMAIN tree(k)
                \/ rows[k].header.previousHash \notin DOMAIN tree(k - 1)
                \/ TooEarly(rows[k], nowMs)
  <2>1. after(k) = ReplayStep(nowMs, after(k - 1), rows[k])
    BY <1>3
  <2>2. k - 1 \in 0..n
    OBVIOUS
  <2>3. SoundChain(after(k - 1).tree, after(k - 1).best)
    BY <1>5, <2>2
  <2>4. rows[k] = Genesis \/ WasValidated(rows[k])
    BY <1>4
  <2> QED
    BY <2>1, <2>3, <2>4, ReplayedRow
<1>7. DOMAIN tree(0) = {Genesis}
  BY <1>3, GenesisIsTree DEF ReplayStart
<1> HIDE DEF tree
\* What a tree holds beyond an earlier one are rows in between.
<1>8. \A k \in 0..n : \A j \in 0..k :
        /\ DOMAIN tree(j) \subseteq DOMAIN tree(k)
        /\ \A block \in DOMAIN tree(k) \ DOMAIN tree(j) : \E i \in (j + 1)..k : rows[i] = block
  <2> DEFINE Grows(j, k) == /\ DOMAIN tree(j) \subseteq DOMAIN tree(k)
                            /\ \A block \in DOMAIN tree(k) \ DOMAIN tree(j) :
                                 \E i \in (j + 1)..k : rows[i] = block
             Q == {k \in Nat : k <= n => \A j \in 0..k : Grows(j, k)}
  <2>1. 0 \in Q
    OBVIOUS
  <2>2. ASSUME NEW k \in Nat, k \in Q PROVE k + 1 \in Q
    <3> SUFFICES ASSUME k + 1 <= n, NEW j \in 0..(k + 1) PROVE Grows(j, k + 1)
      OBVIOUS
    <3>1. k + 1 \in 1..n /\ (k + 1) - 1 = k /\ k <= n
      OBVIOUS
    <3>2. DOMAIN tree(k) \subseteq DOMAIN tree(k + 1) /\ DOMAIN tree(k + 1) \subseteq DOMAIN tree(k) \cup {rows[k + 1]}
      BY <1>6, <3>1
    <3>3. CASE j = k + 1
      BY <3>3
    <3>4. CASE j # k + 1
      <4>1. j \in 0..k /\ k + 1 \in (j + 1)..(k + 1)
        BY <3>4
      <4>2. Grows(j, k)
        BY <2>2, <3>1, <4>1
      <4>3. \A i \in (j + 1)..k : i \in (j + 1)..(k + 1)
        BY <4>1
      <4> QED
        BY <3>2, <4>1, <4>2, <4>3
    <3> QED
      BY <3>3, <3>4
  <2> HIDE DEF Q
  <2>3. \A k \in Nat : k \in Q
    BY <2>1, <2>2, NaturalInduction
  <2> QED
    BY <2>3 DEF Q
<1>9. n \in 0..n /\ 0 \in 0..n /\ \A k \in 1..n : k - 1 \in 0..n /\ k \in 0..n
  OBVIOUS
<1>10. DOMAIN tree(n) \subseteq Range(saved) \cup {Genesis}
  <2>1. \A block \in DOMAIN tree(n) \ DOMAIN tree(0) : \E i \in 1..n : rows[i] = block
    BY <1>8, <1>9
  <2> QED
    BY <1>1, <1>7, <2>1
<1>11. ASSUME NEW block \in Range(saved), block \notin DOMAIN tree(n), ~TooEarly(block, nowMs)
       PROVE  block.header.previousHash \notin DOMAIN tree(n)
  <2> DEFINE parent == block.header.previousHash
  <2>1. PICK k \in 1..n : rows[k] = block
    BY <1>1
  <2>2. DOMAIN tree(k) \subseteq DOMAIN tree(n)
    BY <1>8, <1>9
  <2>3. parent \notin DOMAIN tree(k - 1)
    BY <1>6, <1>11, <2>1, <2>2
  <2>4. SUFFICES ASSUME parent \in DOMAIN tree(n) PROVE FALSE
    OBVIOUS
  <2>5. PICK i \in ((k - 1) + 1)..n : rows[i] = parent
    BY <1>8, <1>9, <2>3, <2>4
  <2>6. IsTree(tree(n))
    BY <1>5, <1>9 DEF SoundChain
  <2>7. block # Genesis
    BY <1>11, <2>6 DEF IsTree
  <2>8. WasValidated(block)
    BY <2>7 DEF ValidRows
  <2>9. block.header.height = parent.header.height + 1
    BY <2>8 DEF WasValidated, FitsUnder
  <2>10. i \in 1..n /\ (i = k \/ k < i)
    OBVIOUS
  <2>11. parent.header.height \in Nat /\ block.header.height \in Nat
    BY <1>1, <2>1, <2>5, <2>10
  <2>12. i # k
    BY <2>1, <2>5, <2>9, <2>11
  <2>13. block.header.height <= parent.header.height
    BY <1>1, <2>1, <2>5, <2>10, <2>12
  <2> QED
    BY <2>9, <2>11, <2>13
<1>12. loadPersistedBlocks(saved, nowMs).tree = tree(n)
  BY <1>2 DEF tree
<1>13. SoundChain(loadPersistedBlocks(saved, nowMs).tree, loadPersistedBlocks(saved, nowMs).best)
  BY <1>2, <1>5, <1>9 DEF tree
<1> QED
  BY <1>10, <1>11, <1>12, <1>13

-----------------------------------------------------------------------------
(* 8. Difficulty *)

\* The retarget never divides by zero and never asks for a difficulty of zero.
LEMMA RetargetIsNumber ==
  ASSUME NEW window, DOMAIN window = 1..LWMA_WINDOW,
         \A i \in 1..LWMA_WINDOW : /\ window[i].timestampSeconds \in Nat
                                   /\ window[i].difficulty \in Nat \ {0}
  PROVE  WeightedRetarget(window) \in Int
<1> DEFINE steps == 1..LWMA_WINDOW - 1
           times == [i \in steps |-> boundedSolveTime(window[i], window[i + 1]) * i]
           difficulties == [i \in steps |-> window[i + 1].difficulty]
<1>1. LWMA_WINDOW \in Nat /\ LWMA_WINDOW >= 2 /\ TARGET_BLOCK_SECONDS \in Nat \ {0}
  BY DifficultyAssumption
<1>2. IsFiniteSet(steps) /\ steps # {} /\ \A i \in steps : i \in 1..LWMA_WINDOW /\ i + 1 \in 1..LWMA_WINDOW
  <2>1. IsFiniteSet(steps)
    BY <1>1, FS_Interval
  <2>2. 1 \in steps
    BY <1>1
  <2>3. \A i \in steps : i \in 1..LWMA_WINDOW /\ i + 1 \in 1..LWMA_WINDOW
    BY <1>1
  <2> QED
    BY <2>1, <2>2, <2>3
<1>3. ASSUME NEW i \in steps
      PROVE  /\ boundedSolveTime(window[i], window[i + 1]) * i \in Int
             /\ boundedSolveTime(window[i], window[i + 1]) * i > 0
  <2> DEFINE solveTime == window[i + 1].timestampSeconds - window[i].timestampSeconds
             maximum   == TARGET_BLOCK_SECONDS * MAX_TIMESTAMP_DROP_MULTIPLIER
             bounded   == boundedSolveTime(window[i], window[i + 1])
  <2>1. solveTime \in Int
    BY <1>2
  <2>2. maximum \in Int /\ maximum > 0
    BY DifficultyAssumption
  <2>3. bounded = IF solveTime < 1 THEN 1 ELSE IF solveTime > maximum THEN maximum ELSE solveTime
    BY DEF boundedSolveTime
  <2> HIDE DEF solveTime, maximum, bounded
  <2>4. bounded \in Int /\ bounded > 0
    BY <2>1, <2>2, <2>3
  <2>5. i \in Int /\ i > 0
    OBVIOUS
  <2>6. bounded * i \in Int /\ bounded * i > 0
    BY <2>4, <2>5
  <2> QED
    BY <2>6 DEF bounded
<1> HIDE DEF steps
<1>4. DOMAIN times = steps /\ \A i \in steps : times[i] \in Int /\ times[i] > 0
  BY <1>3
<1>5. DOMAIN difficulties = steps /\ \A i \in steps : difficulties[i] \in Int
  BY <1>2
<1>6. WeightedRetarget(window)
        = (SumFunction(difficulties) * TARGET_BLOCK_SECONDS * ((LWMA_WINDOW * (LWMA_WINDOW + 1)) \div 2))
            \div SumFunction(times)
  BY DEF WeightedRetarget, steps
<1> HIDE DEF times, difficulties
<1>7. SumFunction(times) \in Int /\ SumFunction(times) > 0
  BY <1>2, <1>4, SumIsPositive DEF SumFunction
<1>8. SumFunction(difficulties) \in Int
  BY <1>2, <1>5, SumIsInt DEF SumFunction
<1>9. (LWMA_WINDOW * (LWMA_WINDOW + 1)) \div 2 \in Int
  BY <1>1
<1>10. SumFunction(difficulties) * TARGET_BLOCK_SECONDS * ((LWMA_WINDOW * (LWMA_WINDOW + 1)) \div 2) \in Int
  BY <1>1, <1>8, <1>9
<1> QED
  BY <1>6, <1>7, <1>10

LEMMA DifficultyIsPositive ==
  ASSUME NEW n \in Nat \ {0}, n <= LWMA_WINDOW, NEW recent, DOMAIN recent = 1..n,
         recent = [i \in 1..n |-> recent[i]],
         \A i \in 1..n : /\ recent[i].timestampSeconds \in Nat
                         /\ recent[i].difficulty \in Nat \ {0}
  PROVE  nextLwmaDifficulty(recent) \in Nat \ {0}
<1>1. /\ recent \in Seq(Range(recent)) /\ recent # <<>> /\ Len(recent) = n
      /\ Last(recent).difficulty \in Nat \ {0}
  <2>1. \A i \in 1..n : recent[i] \in Range(recent)
    BY DEF Range
  <2>2. recent \in Seq(Range(recent)) /\ Len(recent) = n
    BY <2>1
  <2>3. n \in 1..n
    OBVIOUS
  <2> QED
    BY <2>2, <2>3 DEF Last
<1>2. LWMA_WINDOW \in Nat \ {0} /\ MINIMUM_DIFFICULTY \in Nat \ {0}
  BY DifficultyAssumption
<1>3. CASE n < LWMA_WINDOW
  BY <1>1, <1>3 DEF nextLwmaDifficulty
<1>4. CASE ~(n < LWMA_WINDOW)
  <2> DEFINE window == LastOf(LWMA_WINDOW, recent)
             next   == WeightedRetarget(window)
             previous == Last(recent).difficulty
  <2>1. n = LWMA_WINDOW
    BY <1>2, <1>4
  <2>2. DOMAIN window = 1..LWMA_WINDOW /\ \A i \in 1..LWMA_WINDOW : window[i] = recent[i]
    <3>0. recent \in Seq(Range(recent)) /\ recent # <<>> /\ LWMA_WINDOW \in Nat \ {0}
      BY <1>1, <1>2
    <3>1. LET last == LastOf(LWMA_WINDOW, recent)
              length == IF Len(recent) > LWMA_WINDOW THEN LWMA_WINDOW ELSE Len(recent)
          IN  /\ DOMAIN last = 1..length
              /\ \A i \in 1..length : last[i] = recent[Len(recent) - length + i]
      BY <3>0, LastTimes
    <3> HIDE DEF window
    <3>2. /\ DOMAIN window = 1..LWMA_WINDOW
          /\ \A i \in 1..LWMA_WINDOW : window[i] = recent[LWMA_WINDOW - LWMA_WINDOW + i]
      BY <1>1, <1>2, <2>1, <3>1 DEF window
    <3>3. \A i \in 1..LWMA_WINDOW : LWMA_WINDOW - LWMA_WINDOW + i = i
      BY <1>2
    <3> QED
      BY <3>2, <3>3
  <2> HIDE DEF window
  <2>3. next \in Int
    BY <2>1, <2>2, RetargetIsNumber
  <2>4. nextLwmaDifficulty(recent)
          = AtLeast(AtLeast(MINIMUM_DIFFICULTY, previous \div 3), AtMost(previous * 3, next))
    BY <1>1, <1>4 DEF nextLwmaDifficulty, window
  <2>5. previous \in Nat \ {0}
    BY <1>1
  <2> HIDE DEF next, previous
  <2>6. previous \div 3 \in Int /\ previous * 3 \in Int
    BY <2>5
  <2>7. AtMost(previous * 3, next) \in Int
    BY <2>3, <2>6 DEF AtMost
  <2>8. /\ AtLeast(MINIMUM_DIFFICULTY, previous \div 3) \in Int
        /\ AtLeast(MINIMUM_DIFFICULTY, previous \div 3) >= MINIMUM_DIFFICULTY
    BY <1>2, <2>6 DEF AtLeast
  <2>9. /\ nextLwmaDifficulty(recent) \in Int
        /\ nextLwmaDifficulty(recent) >= AtLeast(MINIMUM_DIFFICULTY, previous \div 3)
    BY <2>4, <2>7, <2>8 DEF AtLeast
  <2> QED
    BY <1>2, <2>8, <2>9
<1> QED
  BY <1>3, <1>4

\* What a job asks of its miner.
LEMMA NextDifficultyIsPositive ==
  ASSUME NEW tree, IsTree(tree), NEW hash \in DOMAIN tree
  PROVE  nextLwmaDifficulty(recentSummaries(tree, hash)) \in Nat \ {0}
<1> DEFINE path    == ancestry(tree, hash)
           recent  == LastOf(LWMA_WINDOW, path)
           summary == recentSummaries(tree, hash)
           n == IF Len(path) > LWMA_WINDOW THEN LWMA_WINDOW ELSE Len(path)
<1>1. /\ path \in Seq(DOMAIN tree) /\ Len(path) = hash.header.height + 1
      /\ hash.header.height \in Nat
  BY AncestryIsBranch, HeightsInTree
<1>2. LWMA_WINDOW \in Nat \ {0}
  BY DifficultyAssumption
<1>3. \A block \in DOMAIN tree : /\ block.header.timestampSeconds \in Nat
                                 /\ block.header.difficulty \in Nat \ {0}
  <2>1. /\ Genesis.header.timestampSeconds = GENESIS_TIMESTAMP_SECONDS
        /\ Genesis.header.difficulty = INITIAL_DIFFICULTY
    BY DEF Genesis, createGenesisBlock
  <2> QED
    BY <2>1, ConsensusAssumption, DifficultyAssumption DEF IsTree, IsWellFormed
<1>4. summary = [i \in DOMAIN recent |-> recent[i].header]
  BY DEF recentSummaries
<1> HIDE DEF path, summary
<1>5. path \in Seq(Range(path)) /\ path # <<>> /\ Len(path) \in Nat \ {0}
  BY <1>1 DEF Range
<1>6. DOMAIN recent = 1..n /\ \A i \in 1..n : recent[i] = path[Len(path) - n + i]
  BY <1>2, <1>5, LastTimes
<1>7. n \in Nat \ {0} /\ n <= LWMA_WINDOW /\ \A i \in 1..n : Len(path) - n + i \in 1..Len(path)
  BY <1>2, <1>5
<1> HIDE DEF recent, n
<1>8. ASSUME NEW i \in 1..n
      PROVE  /\ summary[i].timestampSeconds \in Nat
             /\ summary[i].difficulty \in Nat \ {0}
  <2> DEFINE q == Len(path) - n + i
  <2>1. q \in 1..Len(path) /\ summary[i] = path[q].header
    BY <1>4, <1>6, <1>7
  <2> HIDE DEF q
  <2>2. path[q] \in DOMAIN tree
    BY <1>1, <2>1
  <2> QED
    BY <1>3, <2>1, <2>2
<1>9. DOMAIN summary = 1..n /\ summary = [i \in 1..n |-> summary[i]]
  BY <1>4, <1>6
<1>10. nextLwmaDifficulty(summary) \in Nat \ {0}
  BY <1>7, <1>8, <1>9, DifficultyIsPositive
<1> QED
  BY <1>10 DEF summary

-----------------------------------------------------------------------------
(* 9. Mempool and jobs *)

\* What the mempool has checked of a transaction once it was valid at some tip:
\* everything but whether its inputs are there and mature.
NamedInputs(tx) ==
  [i \in DOMAIN tx.inputs |-> tx.inputs[i].txid.outputs[tx.inputs[i].index].amount]

Checked(tx) ==
  /\ IsTransaction(tx)
  /\ validateSignedTransactionShape(tx)
  /\ \A o \in Spends(tx) : o.txid.outputs[o.index].address = tx.sender
  /\ SumFunction(NamedInputs(tx)) = SumOutputs(tx.outputs) + tx.fee

\* The sum of the inputs is the same in every state that holds them all.
LEMMA InputsAsNamed ==
  ASSUME NEW utxos, EntriesMatch(utxos), NEW tx, IsTransaction(tx),
         \A o \in Spends(tx) : o \in DOMAIN utxos
  PROVE  InputSum(utxos, tx) = SumFunction(NamedInputs(tx))
<1>1. \A i \in DOMAIN tx.inputs : tx.inputs[i] \in Spends(tx)
  BY DEF Spends, Range
<1>2. \A i \in DOMAIN tx.inputs :
        utxos[tx.inputs[i]].amount = tx.inputs[i].txid.outputs[tx.inputs[i].index].amount
  BY <1>1 DEF EntriesMatch
<1>3. [i \in DOMAIN tx.inputs |-> utxos[tx.inputs[i]].amount] = NamedInputs(tx)
  BY <1>2 DEF NamedInputs
<1> QED
  BY <1>3 DEF InputSum

LEMMA CheckedByTip ==
  ASSUME NEW utxos, EntriesMatch(utxos), NEW tx, IsTransaction(tx), NEW height,
         TransactionApplies(utxos, tx, height)
  PROVE  Checked(tx)
<1>1. \A o \in Spends(tx) : o \in DOMAIN utxos /\ utxos[o].address = tx.sender
  BY DEF TransactionApplies, InputsAreSpendable
<1>2. \A o \in Spends(tx) : o.txid.outputs[o.index].address = tx.sender
  BY <1>1 DEF EntriesMatch
<1>3. InputSum(utxos, tx) = SumFunction(NamedInputs(tx))
  BY <1>1, InputsAsNamed
<1> QED
  BY <1>2, <1>3 DEF Checked, TransactionApplies

LEMMA CheckedApplies ==
  ASSUME NEW utxos, EntriesMatch(utxos), NEW tx, Checked(tx), NEW height,
         \A o \in Spends(tx) : o \in DOMAIN utxos /\ IsMature(utxos[o], height)
  PROVE  TransactionApplies(utxos, tx, height)
<1>1. IsTransaction(tx) /\ validateSignedTransactionShape(tx)
  BY DEF Checked
<1>2. InputSum(utxos, tx) = SumFunction(NamedInputs(tx))
  BY <1>1, InputsAsNamed
<1>3. \A o \in Spends(tx) : utxos[o].address = tx.sender
  BY DEF Checked, EntriesMatch
<1>4. InputsAreSpendable(utxos, tx, height)
  BY <1>3 DEF InputsAreSpendable
<1> QED
  BY <1>1, <1>2, <1>4 DEF TransactionApplies, Checked

-----------------------------------------------------------------------------
\* What the mempool is: checked transactions no two of which spend one output.
Apart(pool) ==
  \A i, j \in DOMAIN pool : i # j => Spends(pool[i]) \cap Spends(pool[j]) = {}

Orderly(pool) ==
  /\ pool \in Seq(Range(pool))
  /\ \A tx \in Range(pool) : Checked(tx)
  /\ Apart(pool)

LEMMA EmptyPoolIsOrderly == Orderly(<<>>)
BY DEF Orderly, Apart, Range

\* Its transactions are distinct, since each of them spends something.
LEMMA OrderlyIsInjective ==
  ASSUME NEW pool, Orderly(pool)
  PROVE  IsInjective(pool)
<1> SUFFICES ASSUME NEW i \in DOMAIN pool, NEW j \in DOMAIN pool, pool[i] = pool[j], i # j
             PROVE  FALSE
  BY DEF IsInjective
<1>1. Checked(pool[i])
  BY DEF Orderly, Range
<1>2. /\ pool[i].inputs \in Seq(Range(pool[i].inputs))
      /\ Len(pool[i].inputs) \in 1..MAX_TX_INPUTS
  BY <1>1 DEF Checked, IsTransaction, validateSignedTransactionShape
<1>3. 1 \in DOMAIN pool[i].inputs
  <2>1. DOMAIN pool[i].inputs = 1..Len(pool[i].inputs)
    BY <1>2
  <2>2. Len(pool[i].inputs) \in Nat /\ Len(pool[i].inputs) >= 1
    BY <1>2, LedgerAssumption
  <2> QED
    BY <2>1, <2>2
<1>4. pool[i].inputs[1] \in Spends(pool[i])
  BY <1>3 DEF Spends, Range
<1> QED
  BY <1>4 DEF Orderly, Apart

LEMMA ListIsOrderly ==
  ASSUME NEW pool, Orderly(pool)
  PROVE  Orderly(list(pool))
<1> DEFINE n == IF Len(pool) > LIST_LIMIT THEN LIST_LIMIT ELSE Len(pool)
           listed == list(pool)
<1>1. pool \in Seq(Range(pool)) /\ Len(pool) \in Nat /\ DOMAIN pool = 1..Len(pool)
  BY DEF Orderly
<1>2. n \in Nat /\ n <= Len(pool)
  BY <1>1, MempoolAssumption
<1>3. listed = SubSeq(pool, 1, n)
  BY DEF list
<1> HIDE DEF n, listed
<1>4. /\ DOMAIN listed = 1..n /\ Len(listed) = n
      /\ \A i \in 1..n : i \in 1..Len(pool) /\ listed[i] = pool[i]
  <2>1. \A i \in 1..n : i \in 1..Len(pool) /\ 1 + i - 1 = i
    BY <1>1, <1>2
  <2>2. \A i \in 1..Len(pool) : pool[i] \in Range(pool)
    BY <1>1 DEF Range
  <2>3. 1 \in 1..(Len(pool) + 1) /\ n \in (1 - 1)..Len(pool) /\ n - 1 + 1 = n
    BY <1>1, <1>2
  <2>4. /\ SubSeq(pool, 1, n) = [i \in 1..n |-> pool[i]]
    BY <1>1, <1>2, <2>1
  <2>5. listed = [i \in 1..n |-> pool[i]]
    BY <1>3, <2>4
  <2> QED
    BY <1>2, <2>1, <2>5
<1>5. \A i \in 1..n : listed[i] \in Range(listed)
  BY <1>4 DEF Range
<1>6. listed \in Seq(Range(listed))
  <2>1. listed = [i \in 1..n |-> listed[i]]
    BY <1>1, <1>2, <1>3, <1>4
  <2> QED
    BY <1>2, <1>5, <2>1
<1>7. \A tx \in Range(listed) : Checked(tx)
  BY <1>1, <1>4 DEF Orderly, Range
<1>8. Apart(listed)
  BY <1>1, <1>4 DEF Orderly, Apart
<1> QED
  BY <1>6, <1>7, <1>8 DEF Orderly, listed

\* A full mempool drops its oldest transaction for the new one.
LEMMA AcceptKeepsOrder ==
  ASSUME NEW pool, Orderly(pool), NEW tx, Checked(tx), ~ConflictsWithPending(pool, tx)
  PROVE  Orderly(accept(pool, tx))
<1> DEFINE kept == IF Len(pool) >= MAX_ITEMS THEN Tail(pool) ELSE pool
           after == Append(kept, tx)
           m == Len(kept)
<1>1. pool \in Seq(Range(pool)) /\ Len(pool) \in Nat /\ DOMAIN pool = 1..Len(pool)
  BY DEF Orderly
<1>2. PICK d \in {0, 1} : /\ kept \in Seq(Range(pool)) /\ m \in Nat
                          /\ \A i \in 1..m : i + d \in 1..Len(pool) /\ kept[i] = pool[i + d]
  <2>1. CASE Len(pool) >= MAX_ITEMS
    <3> DEFINE tail == Tail(pool)
    <3>1. kept = tail /\ pool # <<>>
      BY <1>1, <2>1, MempoolAssumption
    <3>2. /\ tail \in Seq(Range(pool)) /\ Len(tail) = Len(pool) - 1
          /\ \A i \in 1..Len(tail) : tail[i] = pool[i + 1]
      BY <1>1, <3>1, HeadTailProperties
    <3>3. \A i \in 1..Len(tail) : i + 1 \in 1..Len(pool)
      BY <1>1, <3>2
    <3>4. Len(tail) \in Nat
      BY <3>2
    <3> HIDE DEF tail
    <3> QED
      BY <3>1, <3>2, <3>3, <3>4
  <2>2. CASE ~(Len(pool) >= MAX_ITEMS)
    <3>1. kept = pool
      BY <2>2
    <3> HIDE DEF kept
    <3>2. \A i \in 1..m : i + 0 = i
      BY <1>1, <3>1
    <3> QED
      BY <1>1, <3>1, <3>2
  <2> QED
    BY <2>1, <2>2
<1> HIDE DEF kept
<1>3. /\ DOMAIN after = 1..(m + 1) /\ after[m + 1] = tx
      /\ \A i \in 1..m : after[i] = kept[i]
  BY <1>2
<1>4. \A i \in 1..(m + 1) : i = m + 1 \/ i \in 1..m
  BY <1>2
<1>5. after \in Seq(Range(pool) \cup {tx})
  <2>1. kept \in Seq(Range(pool) \cup {tx})
    BY <1>2
  <2> QED
    BY <2>1
<1> HIDE DEF after, m
<1>6. after \in Seq(Range(after))
  <2>1. \A i \in 1..(m + 1) : after[i] \in Range(after)
    BY <1>3 DEF Range
  <2>2. after = [i \in 1..(m + 1) |-> after[i]]
    BY <1>3, <1>5
  <2>3. m + 1 \in Nat
    BY <1>2
  <2> QED
    BY <2>1, <2>2, <2>3
<1>7. \A i \in 1..m : /\ after[i] \in Range(pool) /\ Spends(after[i]) \cap Spends(tx) = {}
  <2> TAKE i \in 1..m
  <2>1. after[i] \in Range(pool)
    BY <1>1, <1>2, <1>3 DEF Range
  <2> QED
    BY <2>1 DEF ConflictsWithPending, SpentBy
<1>8. \A t \in Range(after) : Checked(t)
  <2>1. \A i \in DOMAIN after : after[i] = tx \/ after[i] \in Range(pool)
    BY <1>3, <1>4, <1>7
  <2> QED
    BY <2>1 DEF Range, Orderly
<1>9. Apart(after)
  <2> SUFFICES ASSUME NEW i \in 1..(m + 1), NEW j \in 1..(m + 1), i # j
               PROVE  Spends(after[i]) \cap Spends(after[j]) = {}
    BY <1>3 DEF Apart
  <2>1. CASE i \in 1..m /\ j \in 1..m
    <3>1. i + d \in 1..Len(pool) /\ j + d \in 1..Len(pool) /\ i + d # j + d
      BY <1>2, <2>1
    <3>2. after[i] = pool[i + d] /\ after[j] = pool[j + d]
      BY <1>2, <1>3, <2>1
    <3> QED
      BY <1>1, <3>1, <3>2 DEF Orderly, Apart
  <2>2. CASE i = m + 1 /\ j \in 1..m
    BY <1>3, <1>7, <2>2
  <2>3. CASE j = m + 1 /\ i \in 1..m
    BY <1>3, <1>7, <2>3
  <2> QED
    BY <1>4, <2>1, <2>2, <2>3
<1> QED
  BY <1>6, <1>8, <1>9 DEF Orderly, accept, after, kept

-----------------------------------------------------------------------------
\* The function FoldLeft recurses on in removeCommitted, and what is kept of
\* the first transactions.
KeepStep(block, kept, tx) ==
  IF tx \in Range(block.transactions) THEN kept ELSE Append(kept, tx)

Filters(block, pool, g) ==
  g = [s \in SUBSET DOMAIN pool |->
         IF s = {} THEN <<>> ELSE KeepStep(block, g[s \ {Max(s)}], pool[Max(s)])]

Filter(block, pool) == CHOOSE g : Filters(block, pool, g)

LEMMA RemovalIsFilter ==
  ASSUME NEW pool, NEW block
  PROVE  removeCommitted(pool, block) = Filter(block, pool)[DOMAIN pool]
BY DEF removeCommitted, FoldLeft, MapThenFoldSet, Filter, Filters, KeepStep

LEMMA FilterExists ==
  ASSUME NEW n \in Nat, NEW pool, DOMAIN pool = 1..n, NEW block
  PROVE  Filters(block, pool, Filter(block, pool))
<1> DEFINE step(g, s) == IF s = {} THEN <<>>
                         ELSE KeepStep(block, g[s \ {Max(s)}], pool[Max(s)])
           Small(k) == {s \in SUBSET (1..n) : Cardinality(s) <= k}
           Solves(g, k) == g = [s \in Small(k) |-> step(g, s)]
           Good == {k \in Nat : \E g : Solves(g, k)}
<1>1. \A s \in SUBSET (1..n) : IsFiniteSet(s) /\ Cardinality(s) \in Nat /\ Cardinality(s) <= n
  <2>1. IsFiniteSet(1..n) /\ Cardinality(1..n) = n
    BY FS_Interval
  <2> QED
    BY <2>1, FS_Subset, FS_CardinalityType
<1>2. ASSUME NEW s \in SUBSET (1..n), s # {}
      PROVE  /\ Max(s) \in s /\ Cardinality(s) # 0
             /\ Cardinality(s \ {Max(s)}) = Cardinality(s) - 1
  BY <1>1, <1>2, MaxOfNumbers, FS_RemoveElement, FS_EmptySet
<1>3. 0 \in Good
  <2> DEFINE g == [s \in Small(0) |-> <<>>]
  <2>1. \A s \in Small(0) : step(g, s) = <<>>
    BY <1>1, <1>2
  <2>2. Solves(g, 0)
    BY <2>1
  <2> QED
    BY <2>2
<1>4. ASSUME NEW k \in Nat, k \in Good PROVE k + 1 \in Good
  <2>1. PICK g : Solves(g, k)
    BY <1>4
  <2> DEFINE h == [s \in Small(k + 1) |-> step(g, s)]
  <2>2. \A s \in Small(k) : s \in Small(k + 1)
    BY <1>1
  <2>3. \A s \in Small(k) : g[s] = h[s]
    BY <2>1, <2>2
  <2>4. \A s \in Small(k + 1) : s # {} => s \ {Max(s)} \in Small(k)
    <3> SUFFICES ASSUME NEW s \in Small(k + 1), s # {} PROVE s \ {Max(s)} \in Small(k)
      OBVIOUS
    <3>1. Cardinality(s \ {Max(s)}) = Cardinality(s) - 1 /\ Cardinality(s) \in Nat
      BY <1>1, <1>2
    <3>2. Cardinality(s \ {Max(s)}) <= k
      BY <3>1
    <3> QED
      BY <3>2
  <2>5. \A s \in Small(k + 1) : step(g, s) = step(h, s)
    <3> HIDE DEF h, Small
    <3> QED
      BY <2>3, <2>4
  <2>6. Solves(h, k + 1)
    <3>1. h = [s \in Small(k + 1) |-> step(g, s)]
      OBVIOUS
    <3> HIDE DEF h, step
    <3> QED
      BY <2>5, <3>1
  <2> HIDE DEF Solves
  <2>7. \E f : Solves(f, k + 1)
    BY <2>6
  <2> QED
    BY <2>7
<1>5. \A k \in Nat : k \in Good
  <2> HIDE DEF Good
  <2> QED
    BY <1>3, <1>4, NaturalInduction
<1>6. PICK g : Solves(g, n)
  BY <1>5
<1>7. Small(n) = SUBSET (1..n)
  BY <1>1
<1>8. Filters(block, pool, g)
  BY <1>6, <1>7 DEF Filters
<1> QED
  BY <1>8 DEF Filter

\* What is kept of the first k transactions.
KeptAfter(block, pool, k) == Filter(block, pool)[1..k]

LEMMA FilterUnfolds ==
  ASSUME NEW n \in Nat, NEW pool, DOMAIN pool = 1..n, NEW block
  PROVE  /\ KeptAfter(block, pool, 0) = <<>>
         /\ \A k \in 1..n : KeptAfter(block, pool, k)
                              = KeepStep(block, KeptAfter(block, pool, k - 1), pool[k])
<1> DEFINE g == Filter(block, pool)
<1>1. Filters(block, pool, g)
  BY FilterExists
<1> HIDE DEF g
<1>2. \A s \in SUBSET (1..n) : g[s] = IF s = {} THEN <<>>
                                      ELSE KeepStep(block, g[s \ {Max(s)}], pool[Max(s)])
  BY <1>1 DEF Filters
<1>3. g[1..0] = <<>>
  <2>1. 1..0 = {}
    OBVIOUS
  <2> QED
    BY <1>2, <2>1
<1>4. ASSUME NEW k \in 1..n PROVE g[1..k] = KeepStep(block, g[1..(k - 1)], pool[k])
  <2>1. /\ 1..k \in SUBSET (1..n) /\ 1..k # {} /\ k \in 1..k /\ k \in Nat
        /\ (1..k) \ {k} = 1..(k - 1)
    OBVIOUS
  <2>2. Max(1..k) \in 1..k /\ \A i \in 1..k : i <= Max(1..k)
    BY <2>1, MaxOfNumbers
  <2>3. k <= Max(1..k) /\ Max(1..k) <= k /\ Max(1..k) \in Int
    BY <2>1, <2>2
  <2>4. Max(1..k) = k
    BY <2>1, <2>3
  <2> QED
    BY <1>2, <2>1, <2>4
<1> QED
  BY <1>3, <1>4 DEF KeptAfter, g

\* What is left after a block is part of the mempool, in its order.
LEMMA RemovalKeepsOrder ==
  ASSUME NEW pool, Orderly(pool), NEW block
  PROVE  Orderly(removeCommitted(pool, block))
<1> DEFINE n == Len(pool)
           R == Range(pool)
           kept(k) == KeptAfter(block, pool, k)
           Drawn(s, k) == /\ s \in Seq(R)
                          /\ \A i \in 1..Len(s) : \E p \in 1..k : s[i] = pool[p]
                          /\ \A i, j \in 1..Len(s) : i # j => Spends(s[i]) \cap Spends(s[j]) = {}
           Q == {k \in Nat : k <= n => Drawn(kept(k), k)}
<1>1. n \in Nat /\ DOMAIN pool = 1..n /\ \A p \in 1..n : pool[p] \in R
  BY DEF Orderly, Range
<1>2. /\ kept(0) = <<>>
      /\ \A k \in 1..n : kept(k) = KeepStep(block, kept(k - 1), pool[k])
  BY <1>1, FilterUnfolds
<1>3. removeCommitted(pool, block) = kept(n)
  BY <1>1, RemovalIsFilter DEF KeptAfter
<1>4. \A p, q \in 1..n : p # q => Spends(pool[p]) \cap Spends(pool[q]) = {}
  BY <1>1 DEF Orderly, Apart
<1> HIDE DEF n, R, kept, Drawn
<1>5. 0 \in Q
  <2>1. <<>> \in Seq(R) /\ Len(<<>>) = 0
    OBVIOUS
  <2>2. Drawn(<<>>, 0)
    BY <2>1 DEF Drawn
  <2> QED
    BY <1>2, <2>2
<1>6. ASSUME NEW k \in Nat, k \in Q PROVE k + 1 \in Q
  <2> SUFFICES ASSUME k + 1 <= n PROVE Drawn(kept(k + 1), k + 1)
    OBVIOUS
  <2> DEFINE s == kept(k)
             m == Len(s)
             tx == pool[k + 1]
             longer == Append(s, tx)
  <2>1. k + 1 \in 1..n /\ (k + 1) - 1 = k /\ k <= n
    BY <1>1
  <2>2. kept(k + 1) = KeepStep(block, s, tx)
    BY <1>2, <2>1
  <2>3. Drawn(s, k)
    BY <1>6, <2>1
  <2>4. \A p \in 1..k : p \in 1..(k + 1) /\ p \in 1..n /\ p # k + 1
    BY <1>1, <2>1
  <2>5. k + 1 \in 1..(k + 1)
    OBVIOUS
  <2>6. Drawn(s, k + 1)
    <3> HIDE DEF s
    <3> QED
      BY <2>3, <2>4 DEF Drawn
  <2>7. Drawn(longer, k + 1)
    <3> HIDE DEF s
    <3>1. /\ longer \in Seq(R) /\ m \in Nat /\ Len(longer) = m + 1
          /\ longer[m + 1] = tx /\ \A i \in 1..m : longer[i] = s[i]
      BY <1>1, <2>1, <2>3 DEF Drawn
    <3>2. \A i \in 1..(m + 1) : i = m + 1 \/ i \in 1..m
      BY <3>1
    <3> HIDE DEF m, tx, longer
    <3>3. \A i \in 1..m : \E p \in 1..k : longer[i] = pool[p]
      BY <2>3, <3>1 DEF Drawn, m
    <3>4. \A i \in 1..(m + 1) : \E p \in 1..(k + 1) : longer[i] = pool[p]
      BY <2>4, <2>5, <3>1, <3>2, <3>3 DEF tx
    <3>5. \A i \in 1..m : Spends(longer[i]) \cap Spends(longer[m + 1]) = {}
      <4> TAKE i \in 1..m
      <4>1. PICK p \in 1..k : longer[i] = pool[p]
        BY <3>3
      <4> QED
        BY <1>4, <2>1, <2>4, <3>1, <4>1 DEF tx
    <3>6. \A i, j \in 1..m : i # j => Spends(longer[i]) \cap Spends(longer[j]) = {}
      BY <2>3, <3>1 DEF Drawn, m
    <3>7. \A i, j \in 1..(m + 1) : i # j => Spends(longer[i]) \cap Spends(longer[j]) = {}
      BY <3>2, <3>5, <3>6
    <3> QED
      BY <3>1, <3>4, <3>7 DEF Drawn
  <2> HIDE DEF s, longer, tx
  <2> QED
    BY <2>2, <2>6, <2>7 DEF KeepStep, longer
<1>7. n \in Q
  <2> HIDE DEF Q
  <2> QED
    BY <1>1, <1>5, <1>6, NaturalInduction
<1>8. Drawn(kept(n), n)
  BY <1>1, <1>7
<1> DEFINE left == kept(n)
<1>9. left \in Seq(R) /\ Len(left) \in Nat /\ DOMAIN left = 1..Len(left)
  BY <1>8 DEF Drawn
<1> HIDE DEF left
<1>10. \A i \in 1..Len(left) : left[i] \in R /\ left[i] \in Range(left)
  BY <1>9 DEF Range
<1>11. left \in Seq(Range(left))
  <2>1. left = [i \in 1..Len(left) |-> left[i]]
    BY <1>9
  <2> QED
    BY <1>9, <1>10, <2>1
<1>12. \A tx \in Range(left) : Checked(tx)
  BY <1>9, <1>10 DEF Orderly, Range, R
<1>13. Apart(left)
  BY <1>8, <1>9 DEF Apart, Drawn, left
<1> QED
  BY <1>3, <1>11, <1>12, <1>13 DEF Orderly, left

-----------------------------------------------------------------------------
\* What a mining job is: a block under a stored parent that pays one well-formed
\* address its subsidy, with transactions from an orderly mempool.
JobFits(tree, block) ==
  LET parent == block.header.previousHash
      output == block.coinbase.outputs[1]
  IN  /\ block = [header |-> block.header, nonce |-> block.nonce, coinbase |-> block.coinbase,
                  transactions |-> block.transactions, proven |-> block.proven]
      /\ IsWellFormed(block) /\ Orderly(block.transactions)
      /\ parent \in DOMAIN tree /\ block.header.height = parent.header.height + 1
      /\ block.coinbase # NoCoinbase /\ Len(block.coinbase.outputs) = 1
      /\ output.address \in Addresses /\ block.header.payoutAddress = output.address
      /\ output.amount = rewardForBlock(block.header.height, tree[parent].state.issued)

LEMMA CreatedJobFits ==
  ASSUME NEW tree, NEW best, SoundChain(tree, best), NEW pool, Orderly(pool),
         NEW address \in Addresses, now \in Nat
  PROVE  JobFits(tree, createJob(tree, best, pool, address).block)
<1> DEFINE height == best.header.height + 1
           amount == rewardForBlock(height, tree[best].state.issued)
           coinbase == [outputs |-> <<[address |-> address, amount |-> amount]>>]
           difficulty == nextLwmaDifficulty(recentSummaries(tree, best))
           block == createJob(tree, best, pool, address).block
<1>1. IsTree(tree) /\ best \in DOMAIN tree
  BY DEF SoundChain
<1>2. best.header.height \in Nat /\ height \in Nat
  BY <1>1, HeightsInTree
<1>3. difficulty \in Nat \ {0}
  BY <1>1, NextDifficultyIsPositive
<1>4. now \div MS_PER_SECOND \in Nat
  BY ConsensusAssumption
<1>5. /\ block.header.height = height /\ block.header.previousHash = best
      /\ block.header.timestampSeconds = now \div MS_PER_SECOND
      /\ block.header.difficulty = difficulty /\ block.header.payoutAddress = address
      /\ block.coinbase = coinbase /\ block.transactions = list(pool)
      /\ block = [header |-> block.header, nonce |-> block.nonce, coinbase |-> block.coinbase,
                  transactions |-> block.transactions, proven |-> block.proven]
  BY DEF createJob, nextConsensusData
<1>6. /\ Len(coinbase.outputs) = 1 /\ coinbase.outputs[1] = [address |-> address, amount |-> amount]
      /\ coinbase.outputs \in Seq(Range(coinbase.outputs))
  <2> DEFINE output == [address |-> address, amount |-> amount]
  <2>1. coinbase.outputs = <<output>> /\ <<output>>[1] = output
    OBVIOUS
  <2> HIDE DEF output
  <2>2. <<output>> \in Seq(Range(<<output>>)) /\ Len(<<output>>) = 1
    BY DEF Range
  <2> QED
    BY <2>1, <2>2 DEF output
<1>7. coinbase # NoCoinbase
  <2>1. DOMAIN coinbase = {"outputs"} /\ DOMAIN NoCoinbase = {}
    BY DEF NoCoinbase
  <2> HIDE DEF coinbase
  <2> QED
    BY <2>1
<1> HIDE DEF block, coinbase, difficulty, height, amount
<1>8. Orderly(block.transactions)
  BY <1>5, ListIsOrderly
<1>9. IsWellFormed(block)
  <2>1. \A tx \in Range(block.transactions) : IsTransaction(tx)
    BY <1>8 DEF Orderly, Checked
  <2> QED
    BY <1>2, <1>3, <1>4, <1>5, <1>6, <1>8, <2>1 DEF IsWellFormed, Orderly
<1>10. /\ block.header.previousHash \in DOMAIN tree
       /\ block.header.height = block.header.previousHash.header.height + 1
  BY <1>1, <1>5 DEF height
<1>11. /\ block.coinbase # NoCoinbase /\ Len(block.coinbase.outputs) = 1
       /\ block.coinbase.outputs[1].address = address
       /\ block.coinbase.outputs[1].amount = amount
  BY <1>5, <1>6, <1>7
<1>12. amount = rewardForBlock(block.header.height, tree[block.header.previousHash].state.issued)
  BY <1>5 DEF amount
<1> QED
  BY <1>5, <1>8, <1>9, <1>10, <1>11, <1>12 DEF JobFits, block

\* A job outlives every block that does not end the process.
LEMMA JobStaysFit ==
  ASSUME NEW tree, NEW other, NEW block, JobFits(tree, block),
         DOMAIN tree \subseteq DOMAIN other, \A hash \in DOMAIN tree : other[hash] = tree[hash]
  PROVE  JobFits(other, block)
<1>1. /\ block.header.previousHash \in DOMAIN other
      /\ other[block.header.previousHash] = tree[block.header.previousHash]
  BY DEF JobFits
<1> QED
  BY <1>1 DEF JobFits

\* What it takes for consensus to accept its body.
LEMMA FitJobApplies ==
  ASSUME NEW tree, IsTree(tree), NEW block, JobFits(tree, block),
         LET state == tree[block.header.previousHash].state
         IN  /\ \A o \in SpentBy(block.transactions) :
                  o \in DOMAIN state.utxos /\ IsMature(state.utxos[o], block.header.height)
             /\ Payable(block.header.height, state.issued)
  PROVE  BlockApplies(tree[block.header.previousHash].state, block)
<1> DEFINE state == tree[block.header.previousHash].state
           txs == block.transactions
<1>1. block.header.previousHash \in DOMAIN tree /\ Orderly(txs)
  BY DEF JobFits
<1>2. EntriesMatch(state.utxos)
  BY <1>1, EntriesMatchNames
<1>3. block.header.height >= 1
  <2>1. /\ block.header.previousHash.header.height \in Nat
        /\ block.header.height = block.header.previousHash.header.height + 1
    BY <1>1, HeightsInTree DEF JobFits
  <2> QED
    BY <2>1
<1>4. CoinbaseApplies(state.issued, block)
  BY DEF CoinbaseApplies, JobFits
<1>5. IsInjective(txs)
  BY <1>1, OrderlyIsInjective
<1>6. \A i \in DOMAIN txs : TransactionApplies(state.utxos, txs[i], block.header.height)
  <2> TAKE i \in DOMAIN txs
  <2>1. txs[i] \in Range(txs)
    BY DEF Range
  <2>2. Checked(txs[i])
    BY <1>1, <2>1 DEF Orderly
  <2>3. \A o \in Spends(txs[i]) : o \in SpentBy(txs)
    BY <2>1 DEF SpentBy
  <2>4. \A o \in Spends(txs[i]) : o \in DOMAIN state.utxos /\ IsMature(state.utxos[o], block.header.height)
    BY <2>3
  <2> HIDE DEF state, txs
  <2> QED
    BY <1>2, <2>2, <2>4, CheckedApplies
<1> QED
  BY <1>3, <1>4, <1>5, <1>6 DEF BlockApplies

\* The block of a share: the job's, with a nonce and a proof.
Share(block, nonce, proof) == [block EXCEPT !.nonce = nonce, !.proven = proof]

LEMMA ShareOfJob ==
  ASSUME NEW tree, NEW block, JobFits(tree, block), NEW nonce, NEW proof
  PROVE  LET share == Share(block, nonce, proof)
         IN  /\ IsWellFormed(share) /\ ConflictFree(share)
             /\ share.proven = proof /\ share.header = block.header
<1> DEFINE share == Share(block, nonce, proof)
<1>1. block = [header |-> block.header, nonce |-> block.nonce, coinbase |-> block.coinbase,
               transactions |-> block.transactions, proven |-> block.proven]
  BY DEF JobFits
<1>2. DOMAIN block = {"header", "nonce", "coinbase", "transactions", "proven"}
  BY <1>1
<1>3. /\ share.proven = proof /\ share.header = block.header
      /\ share.transactions = block.transactions /\ share.coinbase = block.coinbase
  BY <1>2 DEF Share
<1> HIDE DEF share
<1>4. IsWellFormed(block) /\ Apart(block.transactions)
  BY DEF JobFits, Orderly
<1>5. IsWellFormed(share) /\ ConflictFree(share)
  BY <1>3, <1>4 DEF IsWellFormed, ConflictFree, Apart
<1> QED
  BY <1>3, <1>5 DEF share

-----------------------------------------------------------------------------
LEMMA SavedRows ==
  ASSUME NEW saved, saved \in Seq(Range(saved)), NEW block
  PROVE  /\ saveBlock(saved, block) \in Seq(Range(saveBlock(saved, block)))
         /\ Range(saveBlock(saved, block)) = Range(saved) \cup {block}
<1>1. CASE block \in Range(saved)
  BY <1>1 DEF saveBlock
<1>2. CASE block \notin Range(saved)
  <2> DEFINE longer == Append(saved, block)
             n == Len(saved)
  <2>1. saveBlock(saved, block) = longer
    BY <1>2 DEF saveBlock
  <2>2. n \in Nat /\ DOMAIN saved = 1..n /\ DOMAIN longer = 1..(n + 1)
    OBVIOUS
  <2>3. longer[n + 1] = block /\ \A i \in 1..n : longer[i] = saved[i]
    OBVIOUS
  <2>4. saved \in Seq(Range(saved) \cup {block})
    OBVIOUS
  <2>5. longer \in Seq(Range(saved) \cup {block})
    BY <2>4
  <2> HIDE DEF longer, n
  <2>6. n + 1 \in 1..(n + 1) /\ \A i \in 1..(n + 1) : i = n + 1 \/ i \in 1..n
    BY <2>2
  <2>7. \A i \in 1..n : i \in 1..(n + 1)
    BY <2>2
  <2>8. Range(longer) = Range(saved) \cup {block}
    BY <2>2, <2>3, <2>6, <2>7 DEF Range
  <2> QED
    BY <2>1, <2>5, <2>8
<1> QED
  BY <1>1, <1>2

\* A store that holds the blocks of a tree, and none from beyond the clock,
\* rebuilds that tree and a head as heavy.
LEMMA StoreRebuilds ==
  ASSUME NEW tree, NEW best, SoundChain(tree, best), NEW saved, ValidRows(saved),
         Range(saved) = DOMAIN tree, NEW nowMs \in Int,
         \A block \in Range(saved) : ~TooEarly(block, nowMs)
  PROVE  LET rebuilt == loadPersistedBlocks(saved, nowMs)
         IN  /\ rebuilt.tree = tree
             /\ rebuilt.tree[rebuilt.best].totalWork = tree[best].totalWork
<1> DEFINE chain == loadPersistedBlocks(saved, nowMs)
           other == chain.tree
           head == chain.best
<1>1. /\ SoundChain(other, head)
      /\ DOMAIN other \subseteq Range(saved) \cup {Genesis}
      /\ \A block \in Range(saved) : \/ block \in DOMAIN other
                                     \/ block.header.previousHash \notin DOMAIN other
                                     \/ TooEarly(block, nowMs)
  BY ReplayIsSound
<1> HIDE DEF other, head
<1>2. IsTree(tree) /\ IsTree(other)
  BY <1>1 DEF SoundChain
<1>3. Genesis \in DOMAIN tree /\ Genesis \in DOMAIN other
  BY <1>2 DEF IsTree
<1>4. \A block \in DOMAIN tree : block \in DOMAIN other
  <2> DEFINE Q == DOMAIN other
  <2>1. Genesis \in Q
    BY <1>3
  <2>2. \A block \in DOMAIN tree \ {Genesis} : ParentOf(block) \in Q => block \in Q
    BY <1>1 DEF ParentOf
  <2> HIDE DEF Q
  <2>3. \A block \in DOMAIN tree : block \in Q
    BY <1>2, <2>1, <2>2, TreeInduction
  <2> QED
    BY <2>3 DEF Q
<1>5. DOMAIN other = DOMAIN tree
  BY <1>1, <1>3, <1>4
<1>6. \A block \in DOMAIN tree : tree[block] = other[block]
  BY <1>2, <1>5, TreesAgree
<1>7. other = tree
  BY <1>1, <1>5, <1>6 DEF SoundChain
<1>8. other[head].totalWork = tree[best].totalWork
  <2>1. /\ head \in DOMAIN tree /\ best \in DOMAIN tree
        /\ tree[head].totalWork <= tree[best].totalWork
        /\ tree[best].totalWork <= tree[head].totalWork
    BY <1>1, <1>7 DEF SoundChain
  <2>2. tree[head].totalWork \in Nat /\ tree[best].totalWork \in Nat
    BY <2>1 DEF SoundChain, EntriesCount
  <2> QED
    BY <1>7, <2>1, <2>2
<1> QED
  BY <1>7, <1>8 DEF other, head

-----------------------------------------------------------------------------
(* 10. The node *)

\* The inductive invariant of a node, in parts.  The chain is sound and made of
\* validated blocks ...
NodeChainPart ==
  /\ SoundChain(entries, bestHash) /\ now \in Nat
  /\ \A block \in Stored : block = Genesis \/ WasValidated(block)

\* ... the store lacks no more of its blocks than there were failed writes ...
NodeStorePart ==
  /\ ValidRows(store) /\ Genesis \in Range(store)
  /\ failures \in Nat /\ IsFiniteSet(Stored \ Range(store))
  /\ Cardinality(Stored \ Range(store)) <= failures

\* ... while the clock never goes back, nothing accepted is ahead of it, and
\* while no write failed either, the chain has every row ...
NodeClockPart ==
  MaxClockLoss = 0 =>
    /\ \A block \in Stored \cup Range(store) : ~TooEarly(block, now)
    /\ failures = 0 => Range(store) \subseteq Stored

\* ... mempool and job are what the code checked when it made them ...
NodeWorkPart ==
  /\ Orderly(mempool)
  /\ job # NoJob => JobFits(entries, job.block)

\* ... and no accepted block spends an output twice, if no offered one does.
NodeConflictPart ==
  (\A block \in Blocks : ConflictFree(block)) =>
    \A block \in Stored \cup Range(store) : ConflictFree(block)

NodeInvariant ==
  NodeChainPart /\ NodeStorePart /\ NodeClockPart /\ NodeWorkPart /\ NodeConflictPart

LEMMA ValidatedHasTime ==
  ASSUME NEW block, block = Genesis \/ WasValidated(block)
  PROVE  block.header.timestampSeconds * MS_PER_SECOND \in Nat
<1>1. Genesis.header.timestampSeconds = GENESIS_TIMESTAMP_SECONDS
  BY DEF Genesis, createGenesisBlock
<1>2. block.header.timestampSeconds \in Nat
  BY <1>1, ConsensusAssumption DEF WasValidated, IsWellFormed
<1> QED
  BY <1>2, ConsensusAssumption

LEMMA NodeInitInvariant == NodeInit => NodeInvariant
<1> SUFFICES ASSUME NodeInit PROVE NodeInvariant
  OBVIOUS
<1>1. /\ Init /\ store = <<Genesis>> /\ mempool = <<>> /\ job = NoJob /\ failures = 0
  BY DEF NodeInit, Genesis
<1>2. SoundChain(entries, bestHash) /\ Stored = {Genesis}
  BY <1>1, GenesisIsSound, GenesisIsTree DEF Init, Genesis, Stored
<1>3. Range(store) = {Genesis} /\ store \in Seq({Genesis})
  BY <1>1 DEF Range
<1>4. now = GENESIS_TIMESTAMP_SECONDS * MS_PER_SECOND
  BY <1>1 DEF Init
<1>5. NodeChainPart
  BY <1>2, <1>4, ConsensusAssumption DEF NodeChainPart
<1>6. NodeStorePart
  <2>1. Stored \ Range(store) = {}
    BY <1>2, <1>3
  <2>2. IsFiniteSet({}) /\ Cardinality({}) = 0
    BY FS_EmptySet
  <2>3. IsFiniteSet(Stored \ Range(store)) /\ Cardinality(Stored \ Range(store)) <= failures
    BY <1>1, <2>1, <2>2
  <2>4. ValidRows(store)
    BY <1>3 DEF ValidRows
  <2> QED
    BY <1>1, <1>3, <2>3, <2>4 DEF NodeStorePart
<1>7. NodeClockPart
  <2>1. Genesis.header.timestampSeconds = GENESIS_TIMESTAMP_SECONDS
    BY DEF Genesis, createGenesisBlock
  <2>2. ~TooEarly(Genesis, now)
    BY <1>4, <2>1, ConsensusAssumption DEF TooEarly
  <2> QED
    BY <1>2, <1>3, <2>2 DEF NodeClockPart
<1>8. NodeWorkPart
  BY <1>1, EmptyPoolIsOrderly DEF NodeWorkPart
<1>9. NodeConflictPart
  <2>1. Genesis.transactions = <<>>
    BY DEF Genesis, createGenesisBlock
  <2>2. ConflictFree(Genesis)
    BY <2>1 DEF ConflictFree
  <2> QED
    BY <1>2, <1>3, <2>2 DEF NodeConflictPart
<1> QED
  BY <1>5, <1>6, <1>7, <1>8, <1>9 DEF NodeInvariant

\* A block the chain takes is a row like those of the store.
LEMMA AddedBlock ==
  ASSUME NodeChainPart, NEW block, IsWellFormed(block), addBlock(block)
  PROVE  /\ WasValidated(block) /\ ~TooEarly(block, now) /\ block.proven
         /\ block \notin Stored /\ Stored' = Stored \cup {block} /\ now' = now
         /\ \A hash \in Stored : entries'[hash] = entries[hash]
         /\ NodeChainPart'
<1>1. IsAcceptable(entries, now, block) /\ now' = now
  BY DEF addBlock
<1>2. now \in Int /\ IsTree(entries) /\ SoundChain(entries, bestHash)
  BY DEF NodeChainPart, SoundChain
<1>3. /\ block.header.previousHash \in Stored
      /\ FitsUnder(entries, block) /\ ~TooEarly(block, now)
  BY <1>1, <1>2, AcceptableFits DEF Stored
<1>4. WasValidated(block)
  BY <1>2, <1>3 DEF WasValidated, Stored
<1>5. /\ block \notin Stored /\ Stored' = Stored \cup {block}
      /\ \A hash \in Stored : entries'[hash] = entries[hash]
      /\ SoundChain(entries', bestHash')
  BY <1>2, StoredBlock
<1>6. block.proven
  BY <1>1 DEF IsAcceptable
<1>7. NodeChainPart'
  BY <1>1, <1>4, <1>5 DEF NodeChainPart
<1> QED
  BY <1>1, <1>3, <1>4, <1>5, <1>6, <1>7

LEMMA AcceptingKeepsInvariant ==
  ASSUME NodeInvariant, NEW block, IsWellFormed(block), acceptBlock(block),
         (\A b \in Blocks : ConflictFree(b)) => ConflictFree(block)
  PROVE  NodeInvariant'
<1> USE DEF NodeInvariant
<1> DEFINE missing == Stored \ Range(store)
<1>1. /\ ValidRows(store) /\ Genesis \in Range(store) /\ failures \in Nat
      /\ IsFiniteSet(missing) /\ Cardinality(missing) <= failures
  BY DEF NodeStorePart
<1>2. Cardinality(missing) \in Nat
  BY <1>1, FS_CardinalityType
<1>3. /\ saveBlock(store, block) \in Seq(Range(saveBlock(store, block)))
      /\ Range(saveBlock(store, block)) = Range(store) \cup {block}
  BY <1>1, SavedRows DEF ValidRows
<1>4. CASE acceptNewBlock(block)
  <2>1. /\ addBlock(block) /\ store' = saveBlock(store, block)
        /\ mempool' = removeCommitted(mempool, block)
        /\ job' = job /\ failures' = failures
    BY <1>4 DEF acceptNewBlock, onBlockAccepted, CanEncode
  <2>2. /\ WasValidated(block) /\ ~TooEarly(block, now)
        /\ Stored' = Stored \cup {block} /\ now' = now
        /\ \A hash \in Stored : entries'[hash] = entries[hash]
        /\ NodeChainPart'
    BY <2>1, AddedBlock
  <2>3. ValidRows(store')
    BY <1>1, <1>3, <2>1, <2>2 DEF ValidRows
  <2>4. NodeStorePart'
    <3>1. (Stored \ Range(store))' \in SUBSET missing
      BY <1>3, <2>1, <2>2
    <3>2. /\ IsFiniteSet((Stored \ Range(store))')
          /\ Cardinality((Stored \ Range(store))') <= Cardinality(missing)
          /\ Cardinality((Stored \ Range(store))') \in Nat
      BY <1>1, <3>1, FS_Subset, FS_CardinalityType
    <3>3. Cardinality((Stored \ Range(store))') <= failures'
      BY <1>1, <1>2, <2>1, <3>2
    <3> QED
      BY <1>1, <1>3, <2>1, <2>3, <3>2, <3>3 DEF NodeStorePart
  <2>5. NodeClockPart'
    BY <1>3, <2>1, <2>2 DEF NodeClockPart
  <2>6. NodeWorkPart'
    <3>1. Orderly(mempool')
      BY <2>1, RemovalKeepsOrder DEF NodeWorkPart
    <3>2. job # NoJob => JobFits(entries', job.block)
      <4> SUFFICES ASSUME job # NoJob PROVE JobFits(entries', job.block)
        OBVIOUS
      <4>1. JobFits(entries, job.block)
        BY DEF NodeWorkPart
      <4>2. DOMAIN entries \subseteq DOMAIN entries' /\ \A hash \in DOMAIN entries : entries'[hash] = entries[hash]
        BY <2>2 DEF Stored
      <4> QED
        BY <4>1, <4>2, JobStaysFit
    <3> QED
      BY <2>1, <3>1, <3>2 DEF NodeWorkPart
  <2>7. NodeConflictPart'
    BY <1>3, <2>1, <2>2 DEF NodeConflictPart
  <2> QED
    BY <2>2, <2>4, <2>5, <2>6, <2>7
<1>5. CASE acceptUnsavedBlock(block)
  <2>1. /\ addBlock(block) /\ store' = store /\ mempool' = mempool
        /\ job' = job /\ failures' = failures + 1
    BY <1>5 DEF acceptUnsavedBlock
  <2>2. /\ ~TooEarly(block, now)
        /\ Stored' = Stored \cup {block} /\ now' = now
        /\ \A hash \in Stored : entries'[hash] = entries[hash]
        /\ NodeChainPart'
    BY <2>1, AddedBlock
  <2>3. NodeStorePart'
    <3>1. (Stored \ Range(store))' \in SUBSET (missing \cup {block})
      BY <2>1, <2>2
    <3>2. /\ IsFiniteSet(missing \cup {block})
          /\ Cardinality(missing \cup {block}) <= Cardinality(missing) + 1
      <4> HIDE DEF missing
      <4> QED
        BY <1>1, <1>2, FS_AddElement
    <3>3. /\ IsFiniteSet((Stored \ Range(store))')
          /\ Cardinality((Stored \ Range(store))') <= Cardinality(missing \cup {block})
          /\ Cardinality((Stored \ Range(store))') \in Nat
          /\ Cardinality(missing \cup {block}) \in Nat
      <4> HIDE DEF missing
      <4> QED
        BY <3>1, <3>2, FS_Subset, FS_CardinalityType
    <3>4. Cardinality((Stored \ Range(store))') <= failures'
      BY <1>1, <1>2, <2>1, <3>2, <3>3
    <3>5. failures' \in Nat
      BY <1>1, <2>1
    <3> QED
      BY <1>1, <2>1, <3>3, <3>4, <3>5 DEF NodeStorePart
  <2>4. NodeClockPart'
    <3>1. failures' # 0
      BY <1>1, <2>1
    <3> QED
      BY <2>1, <2>2, <3>1 DEF NodeClockPart
  <2>5. NodeWorkPart'
    <3>1. job # NoJob => JobFits(entries', job.block)
      <4> SUFFICES ASSUME job # NoJob PROVE JobFits(entries', job.block)
        OBVIOUS
      <4>1. JobFits(entries, job.block)
        BY DEF NodeWorkPart
      <4>2. DOMAIN entries \subseteq DOMAIN entries' /\ \A hash \in DOMAIN entries : entries'[hash] = entries[hash]
        BY <2>2 DEF Stored
      <4> QED
        BY <4>1, <4>2, JobStaysFit
    <3> QED
      BY <2>1, <3>1 DEF NodeWorkPart
  <2>6. NodeConflictPart'
    BY <2>1, <2>2 DEF NodeConflictPart
  <2> QED
    BY <2>2, <2>3, <2>4, <2>5, <2>6
<1>6. CASE acceptKnownBlock(block)
  <2>1. /\ block \in Stored /\ store' = saveBlock(store, block)
        /\ mempool' = removeCommitted(mempool, block)
        /\ entries' = entries /\ bestHash' = bestHash /\ now' = now
        /\ job' = job /\ failures' = failures
    BY <1>6 DEF acceptKnownBlock, Stored
  <2>2. NodeChainPart' /\ Stored' = Stored
    BY <2>1 DEF NodeChainPart, Stored
  <2>3. block = Genesis \/ WasValidated(block)
    BY <2>1 DEF NodeChainPart
  <2>4. ValidRows(store')
    BY <1>1, <1>3, <2>1, <2>3 DEF ValidRows
  <2>5. NodeStorePart'
    <3>1. (Stored \ Range(store))' \in SUBSET missing
      BY <1>3, <2>1, <2>2
    <3>2. /\ IsFiniteSet((Stored \ Range(store))')
          /\ Cardinality((Stored \ Range(store))') <= Cardinality(missing)
          /\ Cardinality((Stored \ Range(store))') \in Nat
      BY <1>1, <3>1, FS_Subset, FS_CardinalityType
    <3>3. Cardinality((Stored \ Range(store))') <= failures'
      BY <1>1, <1>2, <2>1, <3>2
    <3> QED
      BY <1>1, <1>3, <2>1, <2>4, <3>2, <3>3 DEF NodeStorePart
  <2>6. NodeClockPart'
    BY <1>3, <2>1, <2>2 DEF NodeClockPart
  <2>7. NodeWorkPart'
    BY <2>1, RemovalKeepsOrder DEF NodeWorkPart
  <2>8. NodeConflictPart'
    BY <1>3, <2>1, <2>2 DEF NodeConflictPart
  <2> QED
    BY <2>2, <2>5, <2>6, <2>7, <2>8
<1> QED
  BY <1>4, <1>5, <1>6 DEF acceptBlock

-----------------------------------------------------------------------------
\* Once out of the future, a block stays out of it while the clock runs.
LEMMA TimePasses ==
  ASSUME NEW block, block = Genesis \/ WasValidated(block), NEW earlier \in Nat, NEW later \in Nat,
         earlier <= later, ~TooEarly(block, earlier)
  PROVE  ~TooEarly(block, later)
<1>1. block.header.timestampSeconds * MS_PER_SECOND \in Nat
  BY ValidatedHasTime
<1> DEFINE time == block.header.timestampSeconds * MS_PER_SECOND
<1> HIDE DEF time
<1>2. time \in Nat /\ ~(time > earlier + TIMESTAMP_FUTURE_TOLERANCE_MS)
  BY <1>1 DEF time, TooEarly
<1>3. ~(time > later + TIMESTAMP_FUTURE_TOLERANCE_MS)
  BY <1>2, ConsensusAssumption
<1> QED
  BY <1>3 DEF time, TooEarly

LEMMA RestartKeepsInvariant == NodeInvariant /\ Restart => NodeInvariant'
<1> SUFFICES ASSUME NodeInvariant, Restart PROVE NodeInvariant'
  OBVIOUS
<1> USE DEF NodeInvariant
<1> DEFINE chain == loadPersistedBlocks(store, now')
<1>1. /\ entries' = chain.tree /\ bestHash' = chain.best
      /\ store' = store /\ mempool' = <<>> /\ job' = NoJob /\ failures' = failures
  BY DEF Restart
<1>2. PICK lost \in 0..MaxClockLoss : lost <= now /\ now' = now - lost
  BY DEF Restart
<1>3. now \in Nat /\ lost \in Nat
  BY <1>2 DEF NodeChainPart
<1>4. now' \in Nat
  BY <1>2, <1>3
<1>5. ValidRows(store) /\ Genesis \in Range(store)
  BY DEF NodeStorePart
<1>6. /\ SoundChain(chain.tree, chain.best)
      /\ DOMAIN chain.tree \subseteq Range(store) \cup {Genesis}
      /\ \A block \in Range(store) : \/ block \in DOMAIN chain.tree
                                     \/ block.header.previousHash \notin DOMAIN chain.tree
                                     \/ TooEarly(block, now')
  BY <1>4, <1>5, ReplayIsSound
<1>7. Stored' \subseteq Range(store)
  BY <1>1, <1>5, <1>6 DEF Stored
<1>8. NodeChainPart'
  BY <1>1, <1>4, <1>5, <1>6, <1>7 DEF NodeChainPart, ValidRows
<1>9. NodeStorePart'
  <2>1. (Stored \ Range(store))' = {}
    BY <1>1, <1>7
  <2>2. IsFiniteSet({}) /\ Cardinality({}) = 0
    BY FS_EmptySet
  <2>3. failures \in Nat
    BY DEF NodeStorePart
  <2>4. 0 <= failures'
    BY <1>1, <2>3
  <2>5. IsFiniteSet((Stored \ Range(store))') /\ Cardinality((Stored \ Range(store))') <= failures'
    BY <2>1, <2>2, <2>4
  <2> QED
    BY <1>1, <1>5, <2>3, <2>5 DEF NodeStorePart
<1>10. NodeClockPart'
  <2> SUFFICES ASSUME MaxClockLoss = 0
               PROVE  /\ \A block \in Stored' \cup Range(store) : ~TooEarly(block, now')
                      /\ failures = 0 => Range(store) \subseteq Stored'
    BY <1>1 DEF NodeClockPart
  <2>1. now' = now
    BY <1>2, <1>3
  <2>2. \A block \in Range(store) : ~TooEarly(block, now')
    BY <2>1 DEF NodeClockPart
  <2>3. ASSUME failures = 0 PROVE Range(store) \subseteq Stored'
    <3>1. /\ SoundChain(entries, bestHash) /\ Range(store) \subseteq Stored
          /\ IsFiniteSet(Stored \ Range(store)) /\ Cardinality(Stored \ Range(store)) <= 0
      BY <2>3 DEF NodeChainPart, NodeClockPart, NodeStorePart
    <3>2. Cardinality(Stored \ Range(store)) = 0
      BY <3>1, FS_CardinalityType
    <3>3. Stored \ Range(store) = {}
      BY <3>1, <3>2, FS_EmptySet
    <3>4. Range(store) = DOMAIN entries
      BY <3>1, <3>3 DEF Stored
    <3>5. chain.tree = entries
      <4>1. now' \in Int
        BY <1>4
      <4> QED
        BY <1>5, <2>2, <3>1, <3>4, <4>1, StoreRebuilds
    <3> QED
      BY <1>1, <3>4, <3>5 DEF Stored
  <2> QED
    BY <1>7, <2>2, <2>3
<1>11. NodeWorkPart'
  BY <1>1, EmptyPoolIsOrderly DEF NodeWorkPart
<1>12. NodeConflictPart'
  BY <1>1, <1>7 DEF NodeConflictPart
<1> QED
  BY <1>8, <1>9, <1>10, <1>11, <1>12

\* What handlers that leave chain, store and clock alone may do.
LEMMA WorkKeepsInvariant ==
  ASSUME NodeInvariant, UNCHANGED <<entries, bestHash, now, store, failures>>, NodeWorkPart'
  PROVE  NodeInvariant'
<1>1. /\ entries' = entries /\ bestHash' = bestHash /\ now' = now
      /\ store' = store /\ failures' = failures /\ Stored' = Stored
  BY DEF Stored
<1>2. NodeChainPart' /\ NodeStorePart'
  BY <1>1 DEF NodeInvariant, NodeChainPart, NodeStorePart
<1>3. NodeClockPart' /\ NodeConflictPart'
  BY <1>1 DEF NodeInvariant, NodeClockPart, NodeConflictPart
<1> QED
  BY <1>2, <1>3 DEF NodeInvariant

LEMMA TickKeepsInvariant == NodeInvariant /\ NodeTick => NodeInvariant'
<1> SUFFICES ASSUME NodeInvariant, NodeTick PROVE NodeInvariant'
  OBVIOUS
<1>1. /\ entries' = entries /\ bestHash' = bestHash /\ now' = now + TickMs
      /\ store' = store /\ mempool' = mempool /\ job' = job /\ failures' = failures
      /\ Stored' = Stored
  BY DEF NodeTick, Tick, service, Stored
<1>2. now \in Nat /\ now' \in Nat /\ now <= now'
  BY <1>1, ClockAssumption DEF NodeInvariant, NodeChainPart
<1>3. NodeChainPart'
  BY <1>1, <1>2 DEF NodeInvariant, NodeChainPart
<1>4. NodeStorePart' /\ NodeWorkPart' /\ NodeConflictPart'
  BY <1>1 DEF NodeInvariant, NodeStorePart, NodeWorkPart, NodeConflictPart
<1>5. NodeClockPart'
  <2>1. \A block \in Stored \cup Range(store) : block = Genesis \/ WasValidated(block)
    BY DEF NodeInvariant, NodeChainPart, NodeStorePart, ValidRows
  <2>2. ASSUME NEW block \in Stored \cup Range(store), ~TooEarly(block, now)
        PROVE  ~TooEarly(block, now')
    BY <1>2, <2>1, <2>2, TimePasses
  <2> QED
    BY <1>1, <2>2 DEF NodeInvariant, NodeClockPart
<1> QED
  BY <1>3, <1>4, <1>5 DEF NodeInvariant

LEMMA NodeStepInvariant == NodeInvariant /\ [NodeNext]_nodeVars => NodeInvariant'
<1> SUFFICES ASSUME NodeInvariant, [NodeNext]_nodeVars PROVE NodeInvariant'
  OBVIOUS
<1>1. ASSUME NEW tx \in Transactions, acceptTransaction(tx) PROVE NodeInvariant'
  <2> DEFINE utxos == entries[bestHash].state.utxos
  <2>1. /\ TransactionApplies(utxos, tx, bestHash.header.height)
        /\ ~ConflictsWithPending(mempool, tx) /\ mempool' = accept(mempool, tx)
        /\ UNCHANGED <<entries, bestHash, now, store, failures>> /\ job' = job
    BY <1>1 DEF acceptTransaction
  <2>2. IsTree(entries) /\ bestHash \in DOMAIN entries
    BY DEF NodeInvariant, NodeChainPart, SoundChain
  <2>3. EntriesMatch(utxos)
    BY <2>2, EntriesMatchNames
  <2> HIDE DEF utxos
  <2>4. Checked(tx)
    BY <2>1, <2>3, CheckedByTip, TransactionsAssumption
  <2>5. Orderly(mempool')
    BY <2>1, <2>4, AcceptKeepsOrder DEF NodeInvariant, NodeWorkPart
  <2>6. NodeWorkPart'
    BY <2>1, <2>5 DEF NodeInvariant, NodeWorkPart
  <2> QED
    BY <2>1, <2>6, WorkKeepsInvariant
<1>2. ASSUME NEW block \in Blocks, acceptBlock(block) PROVE NodeInvariant'
  BY <1>2, AcceptingKeepsInvariant, BlocksAssumption
<1>3. ASSUME NEW address \in Addresses PROVE JobFits(entries, createJob(entries, bestHash, mempool, address).block)
  BY CreatedJobFits DEF NodeInvariant, NodeChainPart, NodeWorkPart
<1>4. ASSUME NEW s \in Connections, NEW address \in Addresses, authorize(s, address)
      PROVE  NodeInvariant'
  <2>1. /\ UNCHANGED <<entries, bestHash, now, store, failures>> /\ mempool' = mempool
        /\ job' = job \/ job' = createJob(entries, bestHash, mempool, address)
    BY <1>4 DEF authorize, sendJob
  <2>2. NodeWorkPart'
    BY <1>3, <2>1 DEF NodeInvariant, NodeWorkPart
  <2> QED
    BY <2>1, <2>2, WorkKeepsInvariant
<1>5. ASSUME NEW address \in Addresses, miningTemplate(address) PROVE NodeInvariant'
  <2>1. /\ UNCHANGED <<entries, bestHash, now, store, failures>> /\ mempool' = mempool
        /\ job' = createJob(entries, bestHash, mempool, address)
    BY <1>5 DEF miningTemplate
  <2>2. NodeWorkPart'
    BY <1>3, <2>1 DEF NodeInvariant, NodeWorkPart
  <2> QED
    BY <2>1, <2>2, WorkKeepsInvariant
<1>6. ASSUME NEW s \in Connections, NEW nonce \in Nonces, submitShare(s, nonce)
      PROVE  NodeInvariant'
  <2> DEFINE share == Share(job.block, nonce, job.block = work[s].block)
  <2>1. job # NoJob /\ acceptBlock(share)
    BY <1>6 DEF submitShare, Share
  <2>2. JobFits(entries, job.block)
    BY <2>1 DEF NodeInvariant, NodeWorkPart
  <2>3. IsWellFormed(share) /\ ConflictFree(share)
    BY <2>2, ShareOfJob
  <2> HIDE DEF share
  <2> QED
    BY <2>1, <2>3, AcceptingKeepsInvariant
<1>7. CASE UNCHANGED nodeVars
  <2>1. UNCHANGED <<entries, bestHash, now, store, failures>> /\ mempool' = mempool /\ job' = job
    BY <1>7 DEF nodeVars
  <2>2. NodeWorkPart'
    BY <2>1 DEF NodeInvariant, NodeWorkPart
  <2> QED
    BY <2>1, <2>2, WorkKeepsInvariant
<1> QED
  BY <1>1, <1>2, <1>4, <1>5, <1>6, <1>7, RestartKeepsInvariant, TickKeepsInvariant DEF NodeNext

\* The inductive invariant of a node holds through reorganisations, failed
\* writes, restarts and clock losses.
THEOREM NodeIsInvariant == NodeSpec => []NodeInvariant
<1>1. NodeInit => NodeInvariant
  BY NodeInitInvariant
<1>2. NodeInvariant /\ [NodeNext]_nodeVars => NodeInvariant'
  BY NodeStepInvariant
<1> QED
  BY <1>1, <1>2, PTL DEF NodeSpec

-----------------------------------------------------------------------------
\* What the chain of a node promises, it promises through mining, failed writes
\* and restarts: the best block has the most work, every entry is one validated
\* step from its parent's, the median time never decreases along a branch, and
\* no branch spends an output twice or a subsidy too early.
THEOREM NodeChainIsSound ==
  NodeSpec => [](/\ BestHasMostWork /\ EntriesExtendParents
                 /\ MedianTimeNeverDecreases /\ BranchesSpendSoundly)
<1>1. NodeInvariant => /\ BestHasMostWork /\ EntriesExtendParents
                       /\ MedianTimeNeverDecreases /\ BranchesSpendSoundly
  BY SoundChainProperties DEF NodeInvariant, NodeChainPart
<1> QED
  BY <1>1, NodeIsInvariant, PTL

\* As long as no block from elsewhere spends an output twice, the blocks mined
\* from the mempool keep the supply: what was issued on any branch is what
\* circulates on it plus the fees burned.
THEOREM NodeSupplyIsConserved ==
  ASSUME \A block \in Blocks : ConflictFree(block)
  PROVE  NodeSpec => []MinedSupplyIsConserved
<1>1. NodeInvariant => MinedSupplyIsConserved
  <2> SUFFICES ASSUME NodeInvariant, NEW hash \in Stored
               PROVE  Circulating(entries[hash].state) + Burned(ancestry(entries, hash))
                        = entries[hash].state.issued
    BY DEF MinedSupplyIsConserved, Stored
  <2> DEFINE path == ancestry(entries, hash)
  <2>1. SoundChain(entries, bestHash)
    BY DEF NodeInvariant, NodeChainPart
  <2>2. SupplyIsConserved
    BY <2>1, SoundChainProperties
  <2>3. path \in Seq(Stored)
    BY <2>1, AncestryIsBranch DEF SoundChain, Stored
  <2>4. \A i \in DOMAIN path : path[i] \in Stored
    <3> HIDE DEF path
    <3> QED
      BY <2>3
  <2>5. \A i \in DOMAIN path : ConflictFree(path[i])
    BY <2>4 DEF NodeInvariant, NodeConflictPart
  <2> QED
    BY <2>2, <2>5 DEF SupplyIsConserved
<1> QED
  BY <1>1, NodeIsInvariant, PTL

\* A job can only become unacceptable by its inputs or by the cap.
THEOREM NodeJobsFailOnlyByInputsOrCap == NodeSpec => []JobsFailOnlyByInputsOrCap
<1>1. NodeInvariant => JobsFailOnlyByInputsOrCap
  <2> SUFFICES ASSUME NodeInvariant PROVE JobsFailOnlyByInputsOrCap
    OBVIOUS
  <2>1. IsTree(entries)
    BY DEF NodeInvariant, NodeChainPart, SoundChain
  <2>2. job # NoJob => JobFits(entries, job.block)
    BY DEF NodeInvariant, NodeWorkPart
  <2> QED
    BY <2>1, <2>2, FitJobApplies DEF JobsFailOnlyByInputsOrCap
<1> QED
  BY <1>1, NodeIsInvariant, PTL

\* While the clock never goes back, a store no write of which failed rebuilds
\* the very tree, and a head as heavy as the one in memory.
THEOREM NodeStoreRebuildsTheChain ==
  ASSUME MaxClockLoss = 0
  PROVE  NodeSpec => []StoreRebuildsTheChain
<1>1. NodeInvariant => StoreRebuildsTheChain
  <2> SUFFICES ASSUME NodeInvariant, failures = 0 PROVE StoreRebuildsTheChain
    BY DEF StoreRebuildsTheChain
  <2>1. /\ SoundChain(entries, bestHash) /\ now \in Nat /\ Range(store) \subseteq Stored
        /\ ValidRows(store) /\ \A block \in Range(store) : ~TooEarly(block, now)
        /\ IsFiniteSet(Stored \ Range(store)) /\ Cardinality(Stored \ Range(store)) <= 0
    BY DEF NodeInvariant, NodeChainPart, NodeClockPart, NodeStorePart
  <2>2. Cardinality(Stored \ Range(store)) = 0
    BY <2>1, FS_CardinalityType
  <2>3. Stored \ Range(store) = {}
    BY <2>1, <2>2, FS_EmptySet
  <2>4. Range(store) = DOMAIN entries /\ now \in Int
    BY <2>1, <2>3 DEF Stored
  <2> QED
    BY <2>1, <2>4, StoreRebuilds DEF StoreRebuildsTheChain
<1> QED
  BY <1>1, NodeIsInvariant, PTL

\* A restart loses only blocks whose write failed, rows without their parent
\* and rows ahead of a clock that was set back.
THEOREM NodeReplayLosesOnlyOrphans == NodeSpec => ReplayLosesOnlyOrphans
<1> DEFINE Loses ==
      restarts' # restarts =>
        /\ Cardinality(DOMAIN entries \ Range(store)) <= failures
        /\ \A block \in Range(store) :
             \/ block \in DOMAIN entries'
             \/ block.header.previousHash \notin DOMAIN entries'
             \/ block.header.timestampSeconds * MS_PER_SECOND
                  > now' + TIMESTAMP_FUTURE_TOLERANCE_MS
<1>1. NodeInvariant /\ [NodeNext]_nodeVars => [Loses]_nodeVars
  <2> SUFFICES ASSUME NodeInvariant, NodeNext, restarts' # restarts PROVE Loses
    OBVIOUS
  <2>1. Restart
    BY DEF NodeNext, acceptTransaction, acceptBlock, acceptNewBlock, acceptUnsavedBlock,
           acceptKnownBlock, authorize, miningTemplate, submitShare, NodeTick
  <2>2. /\ Cardinality(DOMAIN entries \ Range(store)) <= failures /\ ValidRows(store)
        /\ now \in Nat
    BY DEF NodeInvariant, NodeStorePart, NodeChainPart, Stored
  <2>3. now' \in Int /\ entries' = loadPersistedBlocks(store, now').tree
    BY <2>1, <2>2 DEF Restart
  <2>4. \A block \in Range(store) : \/ block \in DOMAIN entries'
                                    \/ block.header.previousHash \notin DOMAIN entries'
                                    \/ TooEarly(block, now')
    BY <2>2, <2>3, ReplayIsSound
  <2> QED
    BY <2>2, <2>4 DEF TooEarly
<1> QED
  BY <1>1, NodeIsInvariant, PTL DEF NodeSpec, ReplayLosesOnlyOrphans

\* A share enters the chain only as the block its miner hashed, paying the
\* address that miner was given work for.
THEOREM NodeSharesPayTheirMiner == NodeSpec => SharesPayTheirMiner
<1> DEFINE Pays ==
      \A s \in Connections, nonce \in Nonces :
        (submitShare(s, nonce) /\ DOMAIN entries' # DOMAIN entries)
          => \E block \in DOMAIN entries' \ DOMAIN entries :
               block.header.payoutAddress = work[s].block.header.payoutAddress
<1>1. NodeInvariant /\ [NodeNext]_nodeVars => [Pays]_nodeVars
  <2> SUFFICES ASSUME NodeInvariant, NEW s \in Connections, NEW nonce \in Nonces,
                      submitShare(s, nonce), DOMAIN entries' # DOMAIN entries
               PROVE  \E block \in DOMAIN entries' \ DOMAIN entries :
                        block.header.payoutAddress = work[s].block.header.payoutAddress
    OBVIOUS
  <2> DEFINE proof == (job.block = work[s].block)
             share == Share(job.block, nonce, proof)
  <2>1. job # NoJob /\ acceptBlock(share)
    BY DEF submitShare, Share
  <2>2. JobFits(entries, job.block)
    BY <2>1 DEF NodeInvariant, NodeWorkPart
  <2>3. IsWellFormed(share) /\ share.proven = proof /\ share.header = job.block.header
    <3> HIDE DEF proof
    <3> QED
      BY <2>2, ShareOfJob
  <2> HIDE DEF share
  <2>4. addBlock(share)
    BY <2>1 DEF acceptBlock, acceptNewBlock, acceptUnsavedBlock, acceptKnownBlock
  <2>5. share.proven /\ share \notin Stored /\ Stored' = Stored \cup {share}
    BY <2>3, <2>4, AddedBlock DEF NodeInvariant
  <2>6. job.block = work[s].block
    BY <2>3, <2>5
  <2> QED
    BY <2>3, <2>5, <2>6 DEF Stored
<1> QED
  BY <1>1, NodeIsInvariant, PTL DEF NodeSpec, SharesPayTheirMiner

-----------------------------------------------------------------------------
(* 11. Raw transactions *)

\* The best branch: genesis, which has no transactions, and validated blocks.
IsBranchBlock(i) ==
  /\ i \in 1..Len(BestPath) /\ i \in Nat
  /\ BestPath[i] \in Stored /\ BestPath[i].header.height = i - 1
  /\ i = 1 => BestPath[i] = Genesis
  /\ i # 1 =>
       /\ BestPath[i] # Genesis
       /\ IsWellFormed(BestPath[i])
       /\ BestPath[i].header.previousHash \in Stored
       /\ BestPath[i].header.previousHash = BestPath[i - 1]
       /\ BlockApplies(entries[BestPath[i].header.previousHash].state, BestPath[i])

\* Along a branch every block follows the one before it.
LEMMA ParentsOnBranch ==
  ASSUME NEW tree, IsTree(tree)
  PROVE  \A block \in DOMAIN tree : \A i \in 2..Len(ancestry(tree, block)) :
           ancestry(tree, block)[i].header.previousHash = ancestry(tree, block)[i - 1]
<1> DEFINE Q == {block \in DOMAIN tree : \A i \in 2..Len(ancestry(tree, block)) :
                   ancestry(tree, block)[i].header.previousHash = ancestry(tree, block)[i - 1]}
<1>1. Genesis \in Q
  BY AncestryUnfolds DEF IsTree
<1>2. ASSUME NEW block \in DOMAIN tree \ {Genesis}, ParentOf(block) \in Q PROVE block \in Q
  <2> DEFINE parent == ParentOf(block)
             path   == ancestry(tree, parent)
  <2>1. /\ path \in Seq(DOMAIN tree) /\ Len(path) \in Nat \ {0} /\ path[Len(path)] = parent
    <3>1. parent \in DOMAIN tree
      BY <1>2
    <3> HIDE DEF parent
    <3>2. parent.header.height \in Nat
      BY <3>1, HeightsInTree
    <3> QED
      BY <3>1, <3>2, AncestryIsBranch
  <2>2. ancestry(tree, block) = Append(path, block)
    BY AncestryUnfolds
  <2>3. parent = block.header.previousHash
    BY DEF ParentOf
  <2>4. \A i \in 2..Len(path) : path[i].header.previousHash = path[i - 1]
    BY <1>2
  <2> HIDE DEF parent, path
  <2>5. ASSUME NEW i \in 2..Len(Append(path, block))
        PROVE  Append(path, block)[i].header.previousHash = Append(path, block)[i - 1]
    BY <2>1, <2>3, <2>4
  <2> QED
    BY <2>2, <2>5
<1> HIDE DEF Q
<1>3. \A block \in DOMAIN tree : block \in Q
  BY <1>1, <1>2, TreeInduction
<1> QED
  BY <1>3 DEF Q

\* What is known of the best branch, block by block.
LEMMA BranchBlocks ==
  ASSUME SoundChain(entries, bestHash)
  PROVE  /\ DOMAIN BestPath = 1..Len(BestPath) /\ Len(BestPath) \in Nat \ {0}
         /\ BestPath \in Seq(Stored)
         /\ Height = Len(BestPath) - 1 /\ Height \in Nat
         /\ BestPath[Len(BestPath)] = bestHash
         /\ \A i \in DOMAIN BestPath : IsBranchBlock(i)
<1>1. /\ IsTree(entries) /\ bestHash \in Stored
  BY DEF SoundChain, Stored
<1>2. /\ BestPath \in Seq(Stored) /\ Len(BestPath) = Height + 1 /\ Height \in Nat
      /\ BestPath[Len(BestPath)] = bestHash
      /\ \A i \in 1..Len(BestPath) : BestPath[i].header.height = i - 1
  BY <1>1, AncestryIsBranch, HeightsInTree DEF BestPath, Height, Stored
<1>3. DOMAIN BestPath = 1..Len(BestPath) /\ Len(BestPath) \in Nat \ {0}
  BY <1>2
<1>4. \A i \in 2..Len(BestPath) : BestPath[i].header.previousHash = BestPath[i - 1]
  BY <1>1, ParentsOnBranch DEF BestPath, Stored
<1>5. ASSUME NEW i \in DOMAIN BestPath PROVE IsBranchBlock(i)
  <2>1. i \in 1..Len(BestPath) /\ i \in Nat
    BY <1>3
  <2>2. BestPath[i] \in Stored /\ BestPath[i].header.height = i - 1
    BY <1>2, <2>1
  <2>3. i = 1 <=> BestPath[i] = Genesis
    BY <1>1, <2>1, <2>2, HeightsInTree DEF Stored
  <2>4. i # 1 => i \in 2..Len(BestPath)
    BY <2>1
  <2> QED
    BY <1>1, <1>4, <2>1, <2>2, <2>3, <2>4 DEF IsBranchBlock, IsTree, ParentOf, Stored
<1> QED
  BY <1>2, <1>3, <1>5

\* The transactions of a branch block: it is not genesis, and its parent's
\* state lets them apply.
LEMMA BranchTransaction ==
  ASSUME SoundChain(entries, bestHash), NEW i \in DOMAIN BestPath,
         NEW tx \in Range(BestPath[i].transactions)
  PROVE  /\ i \in 2..Len(BestPath)
         /\ IsTransaction(tx)
         /\ TransactionApplies(entries[BestPath[i].header.previousHash].state.utxos, tx, i - 1)
         /\ Spends(tx) \subseteq SpentBy(BestPath[i].transactions)
<1>1. IsBranchBlock(i)
  BY BranchBlocks
<1>2. i # 1
  BY <1>1 DEF IsBranchBlock, Genesis, createGenesisBlock, Range
<1> QED
  BY <1>1, <1>2, SpendsSomething DEF IsBranchBlock

\* Every state of a sound chain is as its branch made it.
LEMMA StatesFit ==
  ASSUME SoundChain(entries, bestHash)
  PROVE  \A block \in Stored : /\ LedgerFits(entries, block)
                               /\ EntriesMatch(entries[block].state.utxos)
<1>1. IsTree(entries) /\ \A block \in DOMAIN entries : entries[block].state.issued \in 0..TOTAL_SUPPLY
  BY DEF SoundChain, EntriesCount
<1> QED
  BY <1>1, LedgersFit, EntriesMatchNames DEF Stored

\* The wallet knows the address of whatever its branch made.
LEMMA KnownOutput ==
  ASSUME SoundChain(entries, bestHash), NEW o, MintedOn(BestPath, o)
  PROVE  outputAddressOf(o) = o.txid.outputs[o.index].address
<1>1. DOMAIN BestPath = 1..Len(BestPath) /\ Len(BestPath) \in Nat
  BY BranchBlocks
<1>2. CASE IsSubsidy(o)
  <2>1. /\ o.txid.height + 1 \in 2..Len(BestPath)
        /\ coinbaseId(BestPath[o.txid.height + 1]) = o.txid
    BY <1>1, <1>2 DEF MintedOn
  <2> QED
    BY <2>1 DEF outputAddressOf
<1>3. CASE ~IsSubsidy(o)
  <2>1. \E i \in DOMAIN BestPath : o.txid \in Range(BestPath[i].transactions)
    BY <1>1, <1>3 DEF MintedOn
  <2> QED
    BY <2>1 DEF outputAddressOf
<1> QED
  BY <1>2, <1>3

\* What a spendable output of the wallet is.
LEMMA MatureOutput ==
  ASSUME NEW own, NEW address, NEW o \in DOMAIN BestState.utxos,
         NEW u \in getTxOut(own, o), u.address = address, u.spendable
  PROVE  BestState.utxos[o].address = address /\ IsMature(BestState.utxos[o], Height)
<1>1. PICK k \in DOMAIN own : u \in utxosOf(own[k])
  BY DEF getTxOut, fetchWalletUtxos
<1>2. PICK p \in DOMAIN BestState.utxos :
        u = [outpoint |-> p, address |-> BestState.utxos[p].address,
             amount |-> BestState.utxos[p].amount,
             birthHeight |-> BestState.utxos[p].birthHeight,
             isCoinbase |-> BestState.utxos[p].isCoinbase,
             spendable |-> IsMature(BestState.utxos[p], Height)]
  BY <1>1, Zenon DEF utxosOf
<1>3. p = o
  BY <1>2 DEF getTxOut
<1> QED
  BY <1>2, <1>3

\* A body that pays mature outputs of one address to the wallet, less a fee.
PaysItself(own, inputs, total, fee) ==
  [createrawtransaction(inputs, <<[address |-> own[1], amount |-> total - fee]>>) EXCEPT !.fee = fee]

\* The same body, signed by an address.
SignedBy(own, inputs, total, fee, address) ==
  [inputs |-> inputs, outputs |-> <<[address |-> own[1], amount |-> total - fee]>>, fee |-> fee,
   sender |-> address, signed |-> TRUE]

\* The inputs a caller puts together: mature outputs of one address, once each.
LEMMA InputsAreMature ==
  ASSUME NEW own, NEW address, NEW inputs \in MatureInputs(own, address)
  PROVE  \E n \in 1..MAX_TX_INPUTS :
           /\ n \in Nat /\ DOMAIN inputs = 1..n /\ Len(inputs) = n /\ IsInjective(inputs)
           /\ \A k \in 1..n : /\ inputs[k] \in DOMAIN BestState.utxos
                              /\ BestState.utxos[inputs[k]].address = address
                              /\ IsMature(BestState.utxos[inputs[k]], Height)
<1> DEFINE mature == {o \in DOMAIN BestState.utxos :
                        \E u \in getTxOut(own, o) : u.address = address /\ u.spendable}
<1>1. /\ IsInjective(inputs)
      /\ inputs \in UNION {[1..n -> mature] : n \in 1..MAX_TX_INPUTS}
  BY DEF MatureInputs
<1>2. PICK n \in 1..MAX_TX_INPUTS : inputs \in [1..n -> mature]
  <2> HIDE DEF mature
  <2> QED
    BY <1>1
<1>3. \A o \in mature : /\ o \in DOMAIN BestState.utxos
                        /\ BestState.utxos[o].address = address
                        /\ IsMature(BestState.utxos[o], Height)
  BY MatureOutput
<1> HIDE DEF mature
<1>4. n \in Nat
  BY LedgerAssumption
<1>5. inputs \in Seq(mature) /\ Len(inputs) = n
  BY <1>2, <1>4
<1> QED
  BY <1>1, <1>2, <1>3, <1>4, <1>5

\* A body, spelled out.
IsBody(raw, inputs, outputs, fee, sender, signed) ==
  raw = [inputs |-> inputs, outputs |-> outputs, fee |-> fee, sender |-> sender,
         signed |-> signed]
\* What EXCEPT makes of a body.
LEMMA Rewritten ==
  ASSUME NEW raw, NEW inputs, NEW outputs, NEW fee, NEW sender, NEW signed,
         IsBody(raw, inputs, outputs, fee, sender, signed), NEW value
  PROVE  /\ IsBody([raw EXCEPT !.fee = value], inputs, outputs, value, sender, signed)
         /\ IsBody([raw EXCEPT !.sender = value], inputs, outputs, fee, value, signed)
         /\ IsBody([raw EXCEPT !.signed = value], inputs, outputs, fee, sender, value)
<1>1. IsBody([raw EXCEPT !.fee = value], inputs, outputs, value, sender, signed)
  BY DEF IsBody
<1>2. IsBody([raw EXCEPT !.sender = value], inputs, outputs, fee, value, signed)
  BY DEF IsBody
<1>3. IsBody([raw EXCEPT !.signed = value], inputs, outputs, fee, sender, value)
  BY DEF IsBody
<1> QED
  BY <1>1, <1>2, <1>3

\* A body that is signed keeps all the rest.
LEMMA SignedOf ==
  ASSUME NEW raw, NEW inputs, NEW outputs, NEW fee, NEW sender, NEW signed,
         IsBody(raw, inputs, outputs, fee, sender, signed), NEW payer
  PROVE  IsBody([raw EXCEPT !.sender = payer, !.signed = TRUE], inputs, outputs, fee, payer, TRUE)
<1>1. IsBody([raw EXCEPT !.sender = payer], inputs, outputs, fee, payer, signed)
  BY Rewritten, Zenon
<1>2. IsBody([[raw EXCEPT !.sender = payer] EXCEPT !.signed = TRUE],
             inputs, outputs, fee, payer, TRUE)
  BY <1>1, Rewritten, Zenon
<1> QED
  BY <1>2, Zenon

\* Funding such a body changes nothing, and the owner of its inputs signs it.
LEMMA FundedAndSigned ==
  ASSUME SoundChain(entries, bestHash), NEW own \in Wallets, NEW i \in DOMAIN own,
         NEW inputs \in MatureInputs(own, own[i]), NEW total \in Int, NEW fee \in Int
  PROVE  LET body == PaysItself(own, inputs, total, fee)
         IN  /\ fundRawTransaction(own, body) = [body |-> body, changepos |-> 0]
             /\ signRawTransaction(own, body) = SignedBy(own, inputs, total, fee, own[i])
<1> DEFINE body == PaysItself(own, inputs, total, fee)
           ours == {k \in DOMAIN body.outputs : body.outputs[k].address \in Range(own)}
           utxos == BestState.utxos
<1>1. body = [inputs |-> inputs, outputs |-> <<[address |-> own[1], amount |-> total - fee]>>,
              fee |-> fee, sender |-> NoHash, signed |-> FALSE]
  <2>1. IsBody(createrawtransaction(inputs, <<[address |-> own[1], amount |-> total - fee]>>), inputs,
               <<[address |-> own[1], amount |-> total - fee]>>, 0, NoHash, FALSE)
    BY Zenon DEF createrawtransaction, IsBody
  <2>2. IsBody(PaysItself(own, inputs, total, fee), inputs,
               <<[address |-> own[1], amount |-> total - fee]>>, fee, NoHash, FALSE)
    BY <2>1, Rewritten, Zenon DEF PaysItself
  <2> QED
    BY <2>2, Zenon DEF IsBody
<1>2. own # <<>> /\ own \in Seq(Addresses) /\ 1 \in DOMAIN own /\ own[1] \in Range(own)
      /\ own[i] \in Range(own)
  <2>1. own # <<>> /\ own \in Seq(Addresses)
    BY WalletsAssumption
  <2>2. 1 \in DOMAIN own
    BY <2>1
  <2> QED
    BY <2>1, <2>2 DEF Range
<1>3. ours = {1}
  BY <1>1, <1>2
<1>4. Min({1}) = 1
  BY DEF Min
<1>5. fundRawTransaction(own, body) = [body |-> body, changepos |-> 0]
  <2> HIDE DEF body
  <2>1. fundRawTransaction(own, body)
          = [body |-> body, changepos |-> IF ours = {} THEN -1 ELSE Min(ours) - 1]
    BY DEF fundRawTransaction
  <2> HIDE DEF ours
  <2> QED
    BY <1>3, <1>4, <2>1
<1>6. inputs # <<>> /\ inputs[1] \in DOMAIN utxos /\ utxos[inputs[1]].address = own[i]
  <2>1. PICK n \in 1..MAX_TX_INPUTS :
          /\ n \in Nat /\ DOMAIN inputs = 1..n /\ Len(inputs) = n
          /\ \A k \in 1..n : /\ inputs[k] \in DOMAIN BestState.utxos
                             /\ BestState.utxos[inputs[k]].address = own[i]
    BY InputsAreMature
  <2>2. 1 \in 1..n /\ Len(inputs) # 0
    BY <2>1
  <2> QED
    BY <2>1, <2>2
<1>7. /\ utxos = entries[bestHash].state.utxos /\ bestHash \in Stored
      /\ BestPath = ancestry(entries, bestHash)
  BY DEF BestState, BestPath, SoundChain, Stored
<1>8. outputAddressOf(inputs[1]) = own[i]
  <2>1. MintedOn(BestPath, inputs[1])
    BY <1>6, <1>7, StatesFit DEF LedgerFits
  <2>2. utxos[inputs[1]].address = inputs[1].txid.outputs[inputs[1].index].address
    BY <1>6, <1>7, StatesFit DEF EntriesMatch
  <2> QED
    BY <1>6, <2>1, <2>2, KnownOutput
<1>9. signRawTransaction(own, body) = SignedBy(own, inputs, total, fee, own[i])
  <2>1. signRawTransaction(own, body) = [body EXCEPT !.sender = own[i], !.signed = TRUE]
    <3>1. body.signed = FALSE /\ body.inputs = inputs
      BY <1>1
    <3> HIDE DEF body
    <3> QED
      BY <1>2, <1>6, <1>8, <3>1 DEF signRawTransaction, addressKey
  <2>2. IsBody(body, inputs, <<[address |-> own[1], amount |-> total - fee]>>, fee, NoHash, FALSE)
    BY <1>1, Zenon DEF IsBody
  <2> HIDE DEF body
  <2>3. IsBody([body EXCEPT !.sender = own[i], !.signed = TRUE],
               inputs, <<[address |-> own[1], amount |-> total - fee]>>, fee, own[i], TRUE)
    BY <2>2, SignedOf, Zenon
  <2> QED
    BY <2>1, <2>3, Zenon DEF SignedBy, IsBody
<1> QED
  BY <1>5, <1>9

\* The node accepts it.
LEMMA SignedBodyApplies ==
  ASSUME SoundChain(entries, bestHash), NEW own \in Wallets, NEW i \in DOMAIN own,
         NEW inputs \in MatureInputs(own, own[i]), NEW total, NEW fee,
         total = SumFunction([k \in DOMAIN inputs |-> BestState.utxos[inputs[k]].amount]),
         fee \in 1..(total - 1)
  PROVE  /\ total \in Int /\ fee \in Int
         /\ TransactionApplies(BestState.utxos, SignedBy(own, inputs, total, fee, own[i]), Height)
<1> DEFINE utxos == BestState.utxos
           tx == SignedBy(own, inputs, total, fee, own[i])
           amounts == [k \in DOMAIN inputs |-> utxos[inputs[k]].amount]
           output == [address |-> own[1], amount |-> total - fee]
<1>1. own[1] \in Addresses
  BY WalletsAssumption
<1>2. PICK n \in 1..MAX_TX_INPUTS :
        /\ n \in Nat /\ DOMAIN inputs = 1..n /\ Len(inputs) = n /\ IsInjective(inputs)
        /\ \A k \in 1..n : /\ inputs[k] \in DOMAIN utxos
                           /\ utxos[inputs[k]].address = own[i]
                           /\ IsMature(utxos[inputs[k]], Height)
  BY InputsAreMature
<1>4. \A o \in DOMAIN utxos : utxos[o].amount \in Nat
  BY StatesFit DEF LedgerFits, BestState, SoundChain, Stored
<1>5. total \in Int
  <2>1. IsFiniteSet(1..n) /\ DOMAIN amounts = 1..n /\ \A k \in 1..n : amounts[k] \in Int
    <3>1. IsFiniteSet(1..n)
      BY <1>2, FS_Interval
    <3> HIDE DEF utxos
    <3> QED
      BY <1>2, <1>4, <3>1
  <2>2. total = SumFunctionOnSet(amounts, 1..n)
    BY <2>1 DEF SumFunction
  <2> HIDE DEF amounts
  <2> QED
    BY <2>1, <2>2, SumIsInt
<1>6. fee \in Int /\ fee > 0 /\ total - fee \in Int /\ total - fee > 0
  BY <1>5
<1>7. /\ tx.inputs = inputs /\ tx.outputs = <<output>> /\ tx.fee = fee /\ tx.signed
      /\ tx.sender = own[i]
  BY DEF SignedBy
<1> HIDE DEF tx
<1>9. validateSignedTransactionShape(tx)
  <2>1. Len(tx.inputs) \in 1..MAX_TX_INPUTS /\ IsInjective(tx.inputs)
    BY <1>2, <1>7
  <2>2. Len(tx.outputs) \in 1..MAX_TX_OUTPUTS /\ DOMAIN tx.outputs = {1} /\ tx.outputs[1] = output
    BY <1>7, LedgerAssumption
  <2>3. output.address \in Addresses /\ output.amount > 0
    BY <1>1, <1>6
  <2> HIDE DEF output
  <2>4. \A k \in DOMAIN tx.outputs : tx.outputs[k].address \in Addresses /\ tx.outputs[k].amount > 0
    BY <2>2, <2>3
  <2> QED
    BY <1>6, <1>7, <2>1, <2>2, <2>4 DEF validateSignedTransactionShape
<1>10. InputsAreSpendable(utxos, tx, Height)
  BY <1>2, <1>7 DEF InputsAreSpendable, Spends, Range
<1>11. InputSum(utxos, tx) = total
  BY <1>7 DEF InputSum
<1>12. SumOutputs(tx.outputs) = total - fee
  <2> DEFINE f == [k \in DOMAIN tx.outputs |-> tx.outputs[k].amount]
  <2>1. DOMAIN f = {1} /\ f[1] = total - fee
    BY <1>7
  <2>2. SumOutputs(tx.outputs) = SumFunctionOnSet(f, {1})
    BY <2>1 DEF SumOutputs, SumFunction
  <2> HIDE DEF f
  <2>3. SumFunctionOnSet(f, {1}) = SumFunctionOnSet(f, {}) + f[1]
    <3>1. {} \cup {1} = {1} /\ IsFiniteSet({}) /\ 1 \notin {} /\ \A x \in {} \cup {1} : f[x] \in Int
      BY <1>6, <2>1, FS_EmptySet
    <3> QED
      BY <3>1, SumAddsOne
  <2> QED
    BY <1>6, <2>1, <2>2, <2>3, SumOfNothing
<1>13. InputSum(utxos, tx) = SumOutputs(tx.outputs) + tx.fee
  BY <1>5, <1>6, <1>7, <1>11, <1>12
<1>14. TransactionApplies(utxos, tx, Height)
  BY <1>9, <1>10, <1>13 DEF TransactionApplies
<1> QED
  BY <1>5, <1>6, <1>14 DEF tx

\* What the node tells of a transaction of its best branch: its inputs,
\* outputs and fee, from whichever block it is in.
LEMMA RawOfBranch ==
  ASSUME SoundChain(entries, bestHash), NEW i \in DOMAIN BestPath,
         NEW tx \in Range(BestPath[i].transactions)
  PROVE  getRawTransaction(tx)
           = {[inputs |-> tx.inputs, outputs |-> tx.outputs, fee |-> tx.fee,
               sender |-> NoHash, signed |-> FALSE]}
<1> DEFINE raw == [inputs |-> tx.inputs, outputs |-> tx.outputs, fee |-> tx.fee,
                   sender |-> NoHash, signed |-> FALSE]
           rawOf(view) == [inputs |-> [k \in DOMAIN view.inputs |-> view.inputs[k].outpoint],
                           outputs |-> view.outputs, fee |-> view.fee,
                           sender |-> NoHash, signed |-> FALSE]
<1>1. i \in 2..Len(BestPath) /\ IsTransaction(tx)
  BY BranchTransaction
<1>2. tx.inputs = [k \in DOMAIN tx.inputs |-> tx.inputs[k]]
  BY <1>1 DEF IsTransaction
<1>3. ASSUME NEW block
      PROVE  LET view == transactionItem(block, tx, tx.sender)
             IN  /\ view.outputs = tx.outputs /\ view.fee = tx.fee
                 /\ [k \in DOMAIN view.inputs |-> view.inputs[k].outpoint] = tx.inputs
  <2> DEFINE view  == transactionItem(block, tx, tx.sender)
             utxos == entries[block.header.previousHash].state.utxos
             shown == [k \in DOMAIN tx.inputs |->
                         [outpoint |-> tx.inputs[k], address |-> utxos[tx.inputs[k]].address,
                          amount |-> utxos[tx.inputs[k]].amount]]
  <2>1. view.outputs = tx.outputs /\ view.fee = tx.fee /\ view.inputs = shown
    BY DEF transactionItem, TransferItem
  <2>2. [k \in DOMAIN shown |-> shown[k].outpoint] = [k \in DOMAIN tx.inputs |-> tx.inputs[k]]
    OBVIOUS
  <2> HIDE DEF view, shown
  <2>3. [k \in DOMAIN view.inputs |-> view.inputs[k].outpoint]
          = [k \in DOMAIN shown |-> shown[k].outpoint]
    BY <2>1, Zenon
  <2>4. [k \in DOMAIN view.inputs |-> view.inputs[k].outpoint] = tx.inputs
    BY <1>2, <2>2, <2>3, Zenon
  <2> QED
    BY <2>1, <2>4 DEF view
<1>4. \A block : coinbaseId(block) # tx
  <2>1. "sender" \in DOMAIN tx
    BY <1>1 DEF IsTransaction
  <2> QED
    BY <2>1 DEF coinbaseId
<1>5. \A view \in findTransaction(tx) : \E block : view = transactionItem(block, tx, tx.sender)
  BY <1>4 DEF findTransaction
<1>6. transactionItem(BestPath[i], tx, tx.sender) \in findTransaction(tx)
  BY <1>1 DEF findTransaction
<1>7. \A view \in findTransaction(tx) : rawOf(view) = raw
  BY <1>3, <1>5
<1>8. getRawTransaction(tx) = {rawOf(view) : view \in findTransaction(tx)}
  BY DEF getRawTransaction
<1> HIDE DEF rawOf, raw
<1>9. {rawOf(view) : view \in findTransaction(tx)} = {raw}
  BY <1>6, <1>7
<1> QED
  BY <1>8, <1>9 DEF raw

\* Signed again by the wallet that sent it, it is the same transaction.
LEMMA SignedAgain ==
  ASSUME SoundChain(entries, bestHash), NEW i \in DOMAIN BestPath,
         NEW tx \in Range(BestPath[i].transactions), NEW own, tx.sender \in Range(own)
  PROVE  {signRawTransaction(own, body) : body \in getRawTransaction(tx)} = {tx}
<1> DEFINE raw == [inputs |-> tx.inputs, outputs |-> tx.outputs, fee |-> tx.fee,
                   sender |-> NoHash, signed |-> FALSE]
           o == tx.inputs[1]
           utxos == entries[BestPath[i].header.previousHash].state.utxos
<1>1. /\ i \in 2..Len(BestPath)
      /\ IsTransaction(tx) /\ TransactionApplies(utxos, tx, i - 1)
      /\ Spends(tx) \subseteq SpentBy(BestPath[i].transactions)
  BY BranchTransaction
<1>2. /\ tx.signed = TRUE /\ tx.inputs # <<>> /\ 1 \in DOMAIN tx.inputs /\ o \in Spends(tx)
  <2>1. tx.signed /\ tx.signed \in BOOLEAN /\ Len(tx.inputs) \in 1..MAX_TX_INPUTS
        /\ tx.inputs \in Seq(Range(tx.inputs))
    BY <1>1 DEF TransactionApplies, validateSignedTransactionShape, IsTransaction
  <2>2. tx.inputs # <<>> /\ 1 \in DOMAIN tx.inputs
    BY <2>1, LedgerAssumption
  <2> QED
    BY <2>1, <2>2 DEF Spends, Range
<1>3. o \in DOMAIN utxos /\ utxos[o].address = tx.sender
  BY <1>1, <1>2 DEF TransactionApplies, InputsAreSpendable
<1>4. /\ bestHash \in Stored /\ BestPath = ancestry(entries, bestHash)
      /\ BestPath[i].header.previousHash \in Stored
  BY <1>1, BranchBlocks DEF BestPath, SoundChain, Stored, IsBranchBlock
<1>5. outputAddressOf(o) = tx.sender
  <2>1. SpentOn(BestPath, o)
    BY <1>1, <1>2 DEF SpentOn
  <2>2. MintedOn(BestPath, o)
    BY <1>4, <2>1, StatesFit DEF LedgerFits
  <2>3. utxos[o].address = o.txid.outputs[o.index].address
    BY <1>3, <1>4, StatesFit DEF EntriesMatch
  <2> QED
    BY <1>3, <2>2, <2>3, KnownOutput
<1>6. signRawTransaction(own, raw) = tx
  <2>1. signRawTransaction(own, raw)
          = [inputs |-> tx.inputs, outputs |-> tx.outputs, fee |-> tx.fee,
             sender |-> tx.sender, signed |-> TRUE]
    BY <1>2, <1>5 DEF signRawTransaction, addressKey
  <2> QED
    BY <1>1, <1>2, <2>1 DEF IsTransaction
<1>7. getRawTransaction(tx) = {raw}
  BY RawOfBranch
<1> HIDE DEF raw
<1> QED
  BY <1>6, <1>7

\* Whatever a caller puts together from mature outputs of one address is
\* signed by its key and accepted; and what was sent is signed to itself.
LEMMA RawIsAccepted == SoundChain(entries, bestHash) => SignedRawIsAccepted
<1> SUFFICES ASSUME SoundChain(entries, bestHash), NEW own \in Wallets
    PROVE  /\ \A i \in DOMAIN own : \A inputs \in MatureInputs(own, own[i]), fee \in RawFees :
                LET total == SumFunction([k \in DOMAIN inputs |-> BestState.utxos[inputs[k]].amount])
                    body  == PaysItself(own, inputs, total, fee)
                IN  fee \in 1..(total - 1) =>
                      \E funded \in {fundRawTransaction(own, body)} :
                      \E signed \in {signRawTransaction(own, funded.body)} :
                        /\ signed.outputs[funded.changepos + 1].address \in Range(own)
                        /\ decodeRawTransaction(signed).txid = {signed}
                        /\ sendRawTransaction(signed) /\ testMempoolAccept(signed)
           /\ \A i \in DOMAIN BestPath : \A tx \in Range(BestPath[i].transactions) :
                tx.sender \in Range(own) =>
                  {signRawTransaction(own, body) : body \in getRawTransaction(tx)} = {tx}
  BY Zenon DEF SignedRawIsAccepted, PaysItself
<1>1. ASSUME NEW i \in DOMAIN own, NEW inputs \in MatureInputs(own, own[i]), NEW fee \in RawFees,
             NEW total, total = SumFunction([k \in DOMAIN inputs |-> BestState.utxos[inputs[k]].amount]),
             fee \in 1..(total - 1)
      PROVE  \E funded \in {fundRawTransaction(own, PaysItself(own, inputs, total, fee))} :
             \E signed \in {signRawTransaction(own, funded.body)} :
               /\ signed.outputs[funded.changepos + 1].address \in Range(own)
               /\ decodeRawTransaction(signed).txid = {signed}
               /\ sendRawTransaction(signed) /\ testMempoolAccept(signed)
  <2> DEFINE body == PaysItself(own, inputs, total, fee)
             tx   == SignedBy(own, inputs, total, fee, own[i])
  <2>1. /\ total \in Int /\ fee \in Int
        /\ TransactionApplies(BestState.utxos, tx, Height)
    BY <1>1, SignedBodyApplies
  <2>2. /\ fundRawTransaction(own, body) = [body |-> body, changepos |-> 0]
        /\ signRawTransaction(own, body) = tx
    BY <2>1, FundedAndSigned
  <2>3. own[1] \in Range(own)
    BY WalletsAssumption DEF Range
  <2>4. tx.signed = TRUE /\ tx.outputs[1].address = own[1]
    BY DEF SignedBy
  <2> HIDE DEF body, tx
  <2>5. /\ tx.outputs[0 + 1].address \in Range(own)
        /\ decodeRawTransaction(tx).txid = {tx}
        /\ sendRawTransaction(tx) /\ testMempoolAccept(tx)
    BY <2>1, <2>3, <2>4
       DEF decodeRawTransaction, sendRawTransaction, testMempoolAccept, TransactionApplies
  <2>6. \E funded \in {fundRawTransaction(own, body)} :
        \E signed \in {signRawTransaction(own, funded.body)} :
               /\ signed.outputs[funded.changepos + 1].address \in Range(own)
               /\ decodeRawTransaction(signed).txid = {signed}
               /\ sendRawTransaction(signed) /\ testMempoolAccept(signed)
    BY <2>2, <2>5
  <2> QED
    BY <2>6 DEF body
<1>2. ASSUME NEW i \in DOMAIN BestPath, NEW tx \in Range(BestPath[i].transactions),
             tx.sender \in Range(own)
      PROVE  {signRawTransaction(own, body) : body \in getRawTransaction(tx)} = {tx}
  BY <1>2, SignedAgain
<1> QED
  BY <1>1, <1>2, Zenon

\* What a caller builds from the wallet's mature outputs is accepted once the
\* wallet has signed it, and what the wallet sent is what it signs again.
THEOREM ChainSignedRawIsAccepted == Spec => []SignedRawIsAccepted
BY ChainInvariant, RawIsAccepted, PTL DEF Invariant

-----------------------------------------------------------------------------
(* 12. Accounts *)

\* A list of items, and what they explain.
IsHistory(items) ==
  /\ \E S : items \in Seq(S)
  /\ \A i \in DOMAIN items : Change(items[i]) \in Int

\* What items explain is a sum over their positions.
LEMMA ExplainedIsSum ==
  ASSUME NEW items
  PROVE  Explained(items)
           = SumFunctionOnSet([i \in DOMAIN items |-> Change(items[i])], DOMAIN items)
<1> DEFINE f == [i \in DOMAIN items |-> Change(items[i])]
<1>1. Explained(items) = SumFunction(f) /\ DOMAIN f = DOMAIN items
  BY DEF Explained
<1> HIDE DEF f
<1>2. Explained(items) = SumFunctionOnSet(f, DOMAIN items)
  BY <1>1 DEF SumFunction
<1> QED
  BY <1>2 DEF f

\* It is a number.
LEMMA ExplainedIsInt ==
  ASSUME NEW items, IsHistory(items)
  PROVE  Explained(items) \in Int
<1> DEFINE f == [i \in DOMAIN items |-> Change(items[i])]
<1>1. Explained(items) = SumFunctionOnSet(f, DOMAIN items)
  BY ExplainedIsSum
<1>2. IsFiniteSet(DOMAIN items) /\ \A i \in DOMAIN items : f[i] \in Int
  <2>1. PICK S : items \in Seq(S)
    BY DEF IsHistory
  <2>2. DOMAIN items = 1..Len(items) /\ Len(items) \in Nat
    BY <2>1
  <2> QED
    BY <2>2, FS_Interval DEF IsHistory
<1> HIDE DEF f
<1> QED
  BY <1>1, <1>2, SumIsInt

\* No items explain nothing.
LEMMA ExplainedOfNone == IsHistory(<<>>) /\ Explained(<<>>) = 0
<1> DEFINE f == [i \in DOMAIN <<>> |-> Change(<<>>[i])]
<1>1. Explained(<<>>) = SumFunctionOnSet(f, DOMAIN <<>>)
  BY ExplainedIsSum
<1>2. DOMAIN <<>> = {}
  OBVIOUS
<1> HIDE DEF f
<1>3. Explained(<<>>) = 0
  BY <1>1, <1>2, SumOfNothing
<1>4. <<>> \in Seq({})
  OBVIOUS
<1> QED
  BY <1>2, <1>3, <1>4 DEF IsHistory

\* One item explains its change.
LEMMA ExplainedOfOne ==
  ASSUME NEW item, Change(item) \in Int
  PROVE  IsHistory(<<item>>) /\ Explained(<<item>>) = Change(item)
<1> DEFINE items == <<item>>
           f == [i \in DOMAIN items |-> Change(items[i])]
<1>1. Explained(items) = SumFunctionOnSet(f, DOMAIN items)
  BY ExplainedIsSum
<1>2. DOMAIN items = {} \cup {1} /\ Len(items) = 1 /\ items[1] = item /\ {} \cup {1} = 1..1
  OBVIOUS
<1>3. f[1] = Change(item)
  OBVIOUS
<1> HIDE DEF f, items
<1>4. SumFunctionOnSet(f, {} \cup {1}) = SumFunctionOnSet(f, {}) + f[1]
  <2>1. IsFiniteSet({}) /\ 1 \notin {} /\ \A i \in {} \cup {1} : f[i] \in Int
    BY <1>3, FS_EmptySet
  <2> QED
    BY <2>1, SumAddsOne
<1>5. Explained(items) = Change(item)
  BY <1>1, <1>2, <1>3, <1>4, SumOfNothing
<1>6. IsHistory(items)
  <2>1. items \in Seq({item})
    BY DEF items
  <2> QED
    BY <1>2, <2>1 DEF IsHistory
<1> QED
  BY <1>5, <1>6 DEF items

\* Two lists, one after the other, explain what both explain.
LEMMA ExplainedTogether ==
  ASSUME NEW s, NEW t, IsHistory(s), IsHistory(t)
  PROVE  IsHistory(s \o t) /\ Explained(s \o t) = Explained(s) + Explained(t)
<1> DEFINE n == Len(s)
           m == Len(t)
           both == s \o t
           f == [i \in DOMAIN s |-> Change(s[i])]
           g == [i \in DOMAIN t |-> Change(t[i])]
           h == [i \in DOMAIN both |-> Change(both[i])]
           shift == [i \in 1..m |-> i + n]
<1>0. PICK S : s \in Seq(S) /\ t \in Seq(S)
  <2>1. PICK A, B : s \in Seq(A) /\ t \in Seq(B)
    BY DEF IsHistory
  <2>2. s \in Seq(A \cup B) /\ t \in Seq(A \cup B)
    BY <2>1
  <2> QED
    BY <2>2
<1>1. n \in Nat /\ m \in Nat /\ DOMAIN s = 1..n /\ DOMAIN t = 1..m
  BY <1>0
<1>2. /\ DOMAIN both = 1..(n + m) /\ Len(both) = n + m /\ both \in Seq(S)
      /\ \A i \in 1..n : both[i] = s[i]
      /\ \A i \in 1..m : both[i + n] = t[i]
  <2>1. both \in Seq(S) /\ Len(both) = n + m
        /\ \A i \in 1..(n + m) : both[i] = IF i <= n THEN s[i] ELSE t[i - n]
    BY <1>0
  <2>2. DOMAIN both = 1..(n + m) /\ Len(both) = n + m
    BY <1>1, <2>1
  <2> HIDE DEF both, n, m
  <2>3. \A i \in 1..n : i \in 1..(n + m) /\ i <= n
    BY <1>1
  <2>4. \A i \in 1..m : i + n \in 1..(n + m) /\ ~(i + n <= n) /\ (i + n) - n = i
    BY <1>1
  <2> QED
    BY <2>1, <2>2, <2>3, <2>4
<1> HIDE DEF n, m, both
<1>3. /\ \A i \in 1..n : f[i] \in Int /\ f[i] = h[i]
      /\ \A i \in 1..m : h[shift[i]] \in Int /\ g[i] = h[shift[i]]
  <2>1. \A i \in 1..n : f[i] = Change(s[i]) /\ Change(s[i]) \in Int /\ i \in DOMAIN both
    <3> TAKE i \in 1..n
    <3>1. i \in DOMAIN s /\ i \in DOMAIN both
      BY <1>1, <1>2
    <3> HIDE DEF f
    <3>2. Change(s[i]) \in Int
      BY <3>1 DEF IsHistory
    <3> QED
      BY <3>1, <3>2 DEF f
  <2>2. \A i \in 1..m : g[i] = Change(t[i]) /\ Change(t[i]) \in Int /\ shift[i] \in DOMAIN both
                        /\ shift[i] = i + n
    <3> TAKE i \in 1..m
    <3>1. shift[i] = i + n /\ i + n \in 1..(n + m)
      BY <1>1
    <3>2. g[i] = Change(t[i]) /\ Change(t[i]) \in Int
      BY <1>1 DEF IsHistory
    <3> HIDE DEF shift, g
    <3> QED
      BY <1>2, <3>1, <3>2
  <2>3. \A i \in DOMAIN both : h[i] = Change(both[i])
    OBVIOUS
  <2> HIDE DEF f, g, h, shift
  <2> QED
    BY <1>2, <2>1, <2>2, <2>3
<1>4. /\ {shift[i] : i \in 1..m} = (n + 1)..(n + m)
      /\ \A i, j \in 1..m : shift[i] = shift[j] => i = j
  <2>1. \A k \in (n + 1)..(n + m) : k - n \in 1..m /\ shift[k - n] = k
    BY <1>1
  <2>2. \A i \in 1..m : shift[i] \in (n + 1)..(n + m)
    BY <1>1
  <2>3. \A i, j \in 1..m : shift[i] = shift[j] => i = j
    BY <1>1
  <2> HIDE DEF shift
  <2> QED
    BY <2>1, <2>2, <2>3
<1>5. /\ DOMAIN f = 1..n /\ DOMAIN g = 1..m
      /\ 1..(n + m) = 1..n \cup (n + 1)..(n + m) /\ 1..n \cap (n + 1)..(n + m) = {}
      /\ IsFiniteSet(1..n) /\ IsFiniteSet(1..m) /\ IsFiniteSet((n + 1)..(n + m))
  BY <1>1, FS_Interval
<1>6. /\ Explained(s) = SumFunctionOnSet(f, 1..n)
      /\ Explained(t) = SumFunctionOnSet(g, 1..m)
      /\ Explained(both) = SumFunctionOnSet(h, 1..(n + m))
  BY <1>1, <1>2, ExplainedIsSum
<1>7. \A i \in 1..(n + m) : h[i] \in Int
  <2> HIDE DEF f, g, h, shift
  <2>1. \A k \in (n + 1)..(n + m) : \E i \in 1..m : k = shift[i]
    BY <1>4
  <2>2. \A k \in (n + 1)..(n + m) : h[k] \in Int
    BY <1>3, <2>1
  <2> QED
    BY <1>3, <1>5, <2>2
<1>8. IsHistory(both)
  <2>1. \A i \in DOMAIN both : Change(both[i]) = h[i]
    OBVIOUS
  <2> HIDE DEF h
  <2>2. \A i \in DOMAIN both : Change(both[i]) \in Int
    BY <1>2, <1>7, <2>1
  <2> QED
    BY <1>2, <2>2 DEF IsHistory
<1> HIDE DEF f, g, h, shift
<1>9. SumFunctionOnSet(f, 1..n) = SumFunctionOnSet(h, 1..n)
  <2> DEFINE A == 1..n
  <2>1. IsFiniteSet(A) /\ \A i \in A : f[i] \in Int /\ f[i] = h[i]
    BY <1>3, <1>5
  <2> HIDE DEF A
  <2>2. SumFunctionOnSet(f, A) = SumFunctionOnSet(h, A)
    BY <2>1, SumOfSame
  <2> QED
    BY <2>2 DEF A
<1>10. SumFunctionOnSet(h, (n + 1)..(n + m)) = SumFunctionOnSet(g, 1..m)
  <2> DEFINE A == 1..m
  <2>0. /\ IsFiniteSet(A) /\ \A i, j \in A : shift[i] = shift[j] => i = j
        /\ \A i \in A : h[shift[i]] \in Int /\ g[i] = h[shift[i]]
    BY <1>3, <1>4, <1>5
  <2> HIDE DEF A
  <2>1. SumFunctionOnSet(h, {shift[i] : i \in A}) = SumFunctionOnSet(g, A)
    BY <2>0, SumOfImage
  <2> USE DEF A
  <2> QED
    BY <1>4, <2>1
<1>11. SumFunctionOnSet(h, 1..n \cup (n + 1)..(n + m))
         = SumFunctionOnSet(h, 1..n) + SumFunctionOnSet(h, (n + 1)..(n + m))
  <2> DEFINE A == 1..n
             B == (n + 1)..(n + m)
  <2>1. IsFiniteSet(A) /\ IsFiniteSet(B) /\ A \cap B = {} /\ \A x \in A \cup B : h[x] \in Int
    BY <1>5, <1>7
  <2> HIDE DEF A, B
  <2>2. SumFunctionOnSet(h, A \cup B) = SumFunctionOnSet(h, A) + SumFunctionOnSet(h, B)
    BY <2>1, SumOfUnion
  <2> QED
    BY <2>2 DEF A, B
<1> QED
  BY <1>5, <1>6, <1>8, <1>9, <1>10, <1>11 DEF both

-----------------------------------------------------------------------------
\* The function FlattenSeq recurses on.
Flattens(g, lists) ==
  g = [i \in 1..Len(lists) |-> IF i = 1 THEN lists[i] ELSE g[i - 1] \o lists[i]]

\* There is such a function for every list of lists.
LEMMA FlattenExists ==
  ASSUME NEW lists, NEW n \in Nat, Len(lists) = n
  PROVE  \E g : Flattens(g, lists)
<1> DEFINE step(g, i) == IF i = 1 THEN lists[i] ELSE g[i - 1] \o lists[i]
           Good == {k \in Nat : \E g : g = [i \in 1..k |-> step(g, i)]}
<1>1. 0 \in Good
  <2> DEFINE g == [i \in 1..0 |-> <<>>]
  <2>1. g = [i \in 1..0 |-> step(g, i)]
    OBVIOUS
  <2> QED
    BY <2>1
<1>2. ASSUME NEW k \in Nat, k \in Good PROVE k + 1 \in Good
  <2>1. PICK g : g = [i \in 1..k |-> step(g, i)]
    BY <1>2
  <2> DEFINE h == [i \in 1..(k + 1) |-> step(g, i)]
  <2>2. \A i \in 1..k : h[i] = g[i]
    <3>1. \A i \in 1..k : i \in 1..(k + 1)
      OBVIOUS
    <3> HIDE DEF step
    <3> QED
      BY <2>1, <3>1
  <2>3. \A i \in 1..(k + 1) : i # 1 => i - 1 \in 1..k
    OBVIOUS
  <2> HIDE DEF h
  <2>4. \A i \in 1..(k + 1) : step(g, i) = step(h, i)
    BY <2>2, <2>3
  <2>5. h = [i \in 1..(k + 1) |-> step(h, i)]
    <3>1. h = [i \in 1..(k + 1) |-> step(g, i)]
      BY DEF h
    <3> HIDE DEF step
    <3> QED
      BY <2>4, <3>1
  <2> HIDE DEF step
  <2> QED
    BY <2>5
<1>3. \A k \in Nat : k \in Good
  <2> HIDE DEF Good
  <2> QED
    BY <1>1, <1>2, NaturalInduction
<1>4. PICK g : g = [i \in 1..n |-> step(g, i)]
  BY <1>3
<1> QED
  BY <1>4 DEF Flattens

\* Lists put together explain what each of them explains.
LEMMA ExplainedOfAll ==
  ASSUME NEW lists, NEW S, lists \in Seq(S), \A i \in DOMAIN lists : IsHistory(lists[i])
  PROVE  /\ IsHistory(FlattenSeq(lists))
         /\ Explained(FlattenSeq(lists))
              = SumFunctionOnSet([i \in DOMAIN lists |-> Explained(lists[i])], DOMAIN lists)
<1> DEFINE n == Len(lists)
           e == [i \in DOMAIN lists |-> Explained(lists[i])]
           g == CHOOSE g : Flattens(g, lists)
<1>1. n \in Nat /\ DOMAIN lists = 1..n
  OBVIOUS
<1>2. CASE n = 0
  <2>1. lists = <<>> /\ DOMAIN lists = {}
    BY <1>1, <1>2
  <2>2. FlattenSeq(lists) = <<>>
    BY <2>1, <1>2 DEF FlattenSeq
  <2> HIDE DEF e
  <2>3. SumFunctionOnSet(e, DOMAIN lists) = 0
    BY <2>1, SumOfNothing
  <2> QED
    BY <2>2, <2>3, ExplainedOfNone DEF e
<1>3. CASE n # 0
  <2>1. FlattenSeq(lists) = g[n]
    BY <1>3, Zenon DEF FlattenSeq, Flattens
  <2>2. Flattens(g, lists)
    BY <1>1, FlattenExists
  <2> HIDE DEF g
  <2>3. \A i \in 1..n : g[i] = IF i = 1 THEN lists[i] ELSE g[i - 1] \o lists[i]
    BY <2>2 DEF Flattens
  <2> DEFINE Adds(k) == IsHistory(g[k]) /\ Explained(g[k]) = SumFunctionOnSet(e, 1..k)
             Q == {k \in Nat : k + 1 \in 1..n => Adds(k + 1)}
  <2>4. \A i \in 1..n : e[i] = Explained(lists[i]) /\ e[i] \in Int
    BY <1>1, ExplainedIsInt
  <2> HIDE DEF n, e
  <2>5. 0 \in Q
    <3> SUFFICES ASSUME 1 \in 1..n PROVE Adds(1)
      BY DEF Q
    <3>1. g[1] = lists[1] /\ IsHistory(g[1])
      BY <1>1, <2>3
    <3>2. SumFunctionOnSet(e, {} \cup {1}) = SumFunctionOnSet(e, {}) + e[1]
      <4>1. IsFiniteSet({}) /\ 1 \notin {} /\ \A i \in {} \cup {1} : e[i] \in Int
        BY <2>4, FS_EmptySet
      <4> QED
        BY <4>1, SumAddsOne
    <3>3. {} \cup {1} = 1..1
      OBVIOUS
    <3>4. SumFunctionOnSet(e, 1..1) = 0 + e[1] /\ e[1] \in Int
      BY <2>4, <3>2, <3>3, SumOfNothing
    <3> QED
      BY <2>4, <3>1, <3>4
  <2>6. ASSUME NEW k \in Nat, k \in Q PROVE k + 1 \in Q
    <3> SUFFICES ASSUME (k + 1) + 1 \in 1..n PROVE Adds((k + 1) + 1)
      BY DEF Q
    <3> DEFINE i == k + 1
               j == (k + 1) + 1
    <3>1. i \in 1..n /\ j \in 1..n /\ j # 1 /\ j - 1 = i
      BY <1>1
    <3>2. Adds(i)
      BY <2>6, <3>1
    <3>3. g[j] = g[i] \o lists[j] /\ IsHistory(lists[j])
      BY <1>1, <2>3, <3>1
    <3>4. IsHistory(g[j]) /\ Explained(g[j]) = Explained(g[i]) + Explained(lists[j])
      BY <3>2, <3>3, ExplainedTogether
    <3>5. SumFunctionOnSet(e, 1..i \cup {j}) = SumFunctionOnSet(e, 1..i) + e[j]
      <4>1. IsFiniteSet(1..i)
        BY FS_Interval
      <4>2. j \notin 1..i /\ \A x \in 1..i \cup {j} : x \in 1..n
        BY <1>1, <3>1
      <4>3. \A x \in 1..i \cup {j} : e[x] \in Int
        BY <2>4, <4>2
      <4> HIDE DEF i, j
      <4> QED
        BY <4>1, <4>2, <4>3, SumAddsOne
    <3>6. 1..i \cup {j} = 1..j
      OBVIOUS
    <3> QED
      BY <2>4, <3>1, <3>2, <3>4, <3>5, <3>6
  <2> HIDE DEF Q, Adds
  <2>7. \A k \in Nat : k \in Q
    BY <2>5, <2>6, NaturalInduction
  <2>8. Adds(n)
    <3>1. n - 1 \in Nat /\ (n - 1) + 1 = n /\ n \in 1..n
      BY <1>1, <1>3
    <3> QED
      BY <2>7, <3>1 DEF Q
  <2> QED
    BY <1>1, <2>1, <2>8 DEF Adds, e
<1> QED
  BY <1>2, <1>3

-----------------------------------------------------------------------------
\* What the outputs of a transaction pay to an address, and to all others.
Paid(outputs, a) ==
  SumFunctionOnSet([i \in DOMAIN outputs |-> IF outputs[i].address = a THEN outputs[i].amount ELSE 0],
                   DOMAIN outputs)
PaidToOthers(outputs, a) ==
  SumFunctionOnSet([i \in DOMAIN outputs |-> IF outputs[i].address # a THEN outputs[i].amount ELSE 0],
                   DOMAIN outputs)

\* What an address gains by a transaction.
Gain(tx, a) ==
  Paid(tx.outputs, a) - (IF tx.sender = a THEN SumOutputs(tx.outputs) + tx.fee ELSE 0)

\* What a transaction pays to an address and to all others is all it pays.
LEMMA PaymentsAddUp ==
  ASSUME NEW tx, IsTransaction(tx), NEW a
  PROVE  /\ Paid(tx.outputs, a) \in Int /\ PaidToOthers(tx.outputs, a) \in Int
         /\ SumOutputs(tx.outputs) = Paid(tx.outputs, a) + PaidToOthers(tx.outputs, a)
         /\ (\A i \in DOMAIN tx.outputs : tx.outputs[i].address # a) => Paid(tx.outputs, a) = 0
<1> DEFINE S == DOMAIN tx.outputs
           f == [i \in S |-> IF tx.outputs[i].address = a THEN tx.outputs[i].amount ELSE 0]
           g == [i \in S |-> IF tx.outputs[i].address # a THEN tx.outputs[i].amount ELSE 0]
           h == [i \in S |-> tx.outputs[i].amount]
<1>1. IsFiniteSet(S)
  BY PositionsAreFinite DEF IsTransaction
<1>2. \A i \in S : f[i] \in Int /\ g[i] \in Int /\ h[i] = f[i] + g[i]
  <2> TAKE i \in S
  <2>1. h[i] \in Nat
    BY DEF IsTransaction
  <2>2. f[i] = (IF tx.outputs[i].address = a THEN h[i] ELSE 0)
        /\ g[i] = (IF tx.outputs[i].address # a THEN h[i] ELSE 0)
    OBVIOUS
  <2> HIDE DEF f, g, h
  <2> QED
    BY <2>1, <2>2
<1>3. /\ Paid(tx.outputs, a) = SumFunctionOnSet(f, S)
      /\ PaidToOthers(tx.outputs, a) = SumFunctionOnSet(g, S)
  BY DEF Paid, PaidToOthers
<1>4. SumOutputs(tx.outputs) = SumFunctionOnSet(h, S)
  <2>1. SumOutputs(tx.outputs) = SumFunction(h) /\ DOMAIN h = S
    BY DEF SumOutputs
  <2> HIDE DEF h
  <2> QED
    BY <2>1 DEF SumFunction
<1>5. (\A i \in S : tx.outputs[i].address # a) => \A i \in S : f[i] = 0
  OBVIOUS
<1> HIDE DEF f, g, h
<1>6. (\A i \in S : f[i] = 0) => SumFunctionOnSet(f, S) = 0
  <2> HIDE DEF S
  <2> QED
    BY <1>1, SumOfZeros
<1>7. /\ SumFunctionOnSet(f, S) \in Int /\ SumFunctionOnSet(g, S) \in Int
      /\ SumFunctionOnSet(h, S) = SumFunctionOnSet(f, S) + SumFunctionOnSet(g, S)
  <2> HIDE DEF S
  <2> QED
    BY <1>1, <1>2, SumIsInt, SumOfPairs
<1> QED
  BY <1>3, <1>4, <1>5, <1>6, <1>7 DEF S

\* The amounts of the items are these payments.
LEMMA AmountsToAddresses ==
  ASSUME NEW outputs, NEW a
  PROVE  /\ AmountTo(outputs, LAMBDA b : b = a) = Paid(outputs, a)
         /\ AmountTo(outputs, LAMBDA b : b # a) = PaidToOthers(outputs, a)
<1> DEFINE f == [i \in DOMAIN outputs |-> IF outputs[i].address = a THEN outputs[i].amount ELSE 0]
           g == [i \in DOMAIN outputs |-> IF outputs[i].address # a THEN outputs[i].amount ELSE 0]
<1>1. /\ AmountTo(outputs, LAMBDA b : b = a) = SumFunction(f) /\ DOMAIN f = DOMAIN outputs
      /\ AmountTo(outputs, LAMBDA b : b # a) = SumFunction(g) /\ DOMAIN g = DOMAIN outputs
  BY DEF AmountTo
<1> HIDE DEF f, g
<1>2. /\ SumFunction(f) = SumFunctionOnSet(f, DOMAIN outputs)
      /\ SumFunction(g) = SumFunctionOnSet(g, DOMAIN outputs)
  BY <1>1 DEF SumFunction
<1> QED
  BY <1>1, <1>2 DEF Paid, PaidToOthers, f, g

\* The item of a transaction shows what its address gains by it, and an address
\* that gets no item gains nothing.
LEMMA ItemShowsGain ==
  ASSUME NEW tx, IsTransaction(tx), NEW a, NEW block
  PROVE  /\ Gain(tx, a) \in Int
         /\ IF Involves(tx, a) THEN Change(transactionItem(block, tx, a)) = Gain(tx, a)
                               ELSE Gain(tx, a) = 0
<1> DEFINE item == transactionItem(block, tx, a)
<1>1. /\ Paid(tx.outputs, a) \in Int /\ PaidToOthers(tx.outputs, a) \in Int /\ tx.fee \in Int
      /\ SumOutputs(tx.outputs) = Paid(tx.outputs, a) + PaidToOthers(tx.outputs, a)
      /\ (\A i \in DOMAIN tx.outputs : tx.outputs[i].address # a) => Paid(tx.outputs, a) = 0
  BY PaymentsAddUp DEF IsTransaction
<1>2. CASE tx.sender = a
  <2>1. item.category = "send" /\ item.fee = tx.fee
        /\ item.amount = AmountTo(tx.outputs, LAMBDA b : b # tx.sender)
    BY <1>2 DEF transactionItem, TransferItem
  <2>2. item.amount = PaidToOthers(tx.outputs, a)
    BY <1>2, <2>1, AmountsToAddresses
  <2> HIDE DEF item
  <2>3. Change(item) = -(PaidToOthers(tx.outputs, a) + tx.fee)
    BY <2>1, <2>2 DEF Change
  <2>4. Gain(tx, a) = Paid(tx.outputs, a) - (SumOutputs(tx.outputs) + tx.fee)
    BY <1>2 DEF Gain
  <2> QED
    BY <1>1, <1>2, <2>3, <2>4 DEF Involves, item
<1>3. CASE tx.sender # a
  <2>1. item.category = "receive"
        /\ item.amount = AmountTo(tx.outputs, LAMBDA b : b = a)
    BY <1>3 DEF transactionItem, TransferItem
  <2>2. item.amount = Paid(tx.outputs, a)
    BY <2>1, AmountsToAddresses
  <2> HIDE DEF item
  <2>3. Change(item) = Paid(tx.outputs, a)
    BY <2>1, <2>2 DEF Change
  <2>4. Gain(tx, a) = Paid(tx.outputs, a)
    BY <1>1, <1>3 DEF Gain
  <2> QED
    BY <1>1, <1>3, <2>3, <2>4 DEF Involves, item
<1> QED
  BY <1>2, <1>3

\* What an address gains by a block.
BlockGain(block, a) ==
  (IF block.coinbase.outputs[1].address = a THEN block.coinbase.outputs[1].amount ELSE 0)
    + SumFunctionOnSet([i \in DOMAIN block.transactions |-> Gain(block.transactions[i], a)],
                       DOMAIN block.transactions)

\* The items of a block show what the address gains by it.
LEMMA ItemsShowGain ==
  ASSUME NEW block, IsWellFormed(block), block.coinbase.outputs[1].amount \in Int, NEW a
  PROVE  /\ IsHistory(ItemsOf(block, a)) /\ Explained(ItemsOf(block, a)) = BlockGain(block, a)
         /\ BlockGain(block, a) \in Int
<1> DEFINE txs   == block.transactions
           itemsFor(i) == IF Involves(txs[i], a) THEN <<transactionItem(block, txs[i], a)>> ELSE <<>>
           lists == [i \in DOMAIN txs |-> itemsFor(i)]
           first == IF block.coinbase.outputs[1].address = a THEN <<coinbaseItem(block)>> ELSE <<>>
           paid  == IF block.coinbase.outputs[1].address = a
                    THEN block.coinbase.outputs[1].amount ELSE 0
           e == [i \in DOMAIN lists |-> Explained(lists[i])]
           g == [i \in DOMAIN txs |-> Gain(txs[i], a)]
<1>1. DOMAIN txs = 1..Len(txs) /\ Len(txs) \in Nat /\ IsFiniteSet(DOMAIN txs)
      /\ \A i \in DOMAIN txs : IsTransaction(txs[i])
  <2>1. DOMAIN txs = 1..Len(txs) /\ Len(txs) \in Nat /\ IsFiniteSet(DOMAIN txs)
    BY PositionsAreFinite DEF IsWellFormed
  <2>2. \A i \in DOMAIN txs : IsTransaction(txs[i])
    BY DEF IsWellFormed, Range
  <2> QED
    BY <2>1, <2>2
<1>2. ASSUME NEW i \in DOMAIN txs
      PROVE  IsHistory(itemsFor(i)) /\ Explained(itemsFor(i)) = Gain(txs[i], a) /\ Gain(txs[i], a) \in Int
  <2> DEFINE tx == txs[i]
             item == transactionItem(block, tx, a)
  <2>1. /\ Gain(tx, a) \in Int
        /\ IF Involves(tx, a) THEN Change(item) = Gain(tx, a) ELSE Gain(tx, a) = 0
    BY <1>1, ItemShowsGain
  <2> HIDE DEF tx, item
  <2>2. CASE Involves(tx, a)
    <3>1. IsHistory(<<item>>) /\ Explained(<<item>>) = Gain(tx, a)
      BY <2>1, <2>2, ExplainedOfOne
    <3> QED
      BY <2>1, <2>2, <3>1 DEF tx, item
  <2>3. CASE ~Involves(tx, a)
    BY <2>1, <2>3, ExplainedOfNone DEF tx
  <2> QED
    BY <2>2, <2>3
<1>3. IsHistory(first) /\ Explained(first) = paid /\ paid \in Int
  <2> DEFINE item == coinbaseItem(block)
  <2>1. Change(item) = block.coinbase.outputs[1].amount
    BY DEF Change, coinbaseItem
  <2> HIDE DEF item
  <2>2. IsHistory(<<item>>) /\ Explained(<<item>>) = block.coinbase.outputs[1].amount
    BY <2>1, ExplainedOfOne
  <2> QED
    BY <2>2, ExplainedOfNone DEF item
<1>4. DOMAIN lists = DOMAIN txs /\ \A i \in DOMAIN txs : lists[i] = itemsFor(i)
  OBVIOUS
<1>5. \E S : lists \in Seq(S)
  <2> HIDE DEF list
  <2>1. lists \in [1..Len(txs) -> {itemsFor(i) : i \in DOMAIN txs}]
    BY <1>1
  <2> HIDE DEF lists
  <2>2. lists \in Seq({itemsFor(i) : i \in DOMAIN txs})
    BY <1>1, <2>1
  <2> QED
    BY <2>2
<1>6. /\ IsHistory(FlattenSeq(lists))
      /\ Explained(FlattenSeq(lists)) = SumFunctionOnSet(e, DOMAIN lists)
  <2>1. \A i \in DOMAIN lists : IsHistory(lists[i])
    BY <1>2, <1>4
  <2> HIDE DEF lists
  <2> QED
    BY <1>5, <2>1, ExplainedOfAll
<1>7. ItemsOf(block, a) = first \o FlattenSeq(lists)
  BY DEF ItemsOf
<1>8. \A i \in DOMAIN txs : e[i] \in Int /\ e[i] = g[i]
  <2>1. \A i \in DOMAIN txs : e[i] = Explained(lists[i]) /\ g[i] = Gain(txs[i], a)
    BY <1>4
  <2> HIDE DEF e, g, lists, list
  <2> QED
    BY <1>2, <1>4, <2>1
<1>9. BlockGain(block, a) = paid + SumFunctionOnSet(g, DOMAIN txs)
  BY DEF BlockGain
<1> HIDE DEF list, lists, first, paid, e, g, txs
<1>10. SumFunctionOnSet(e, DOMAIN txs) = SumFunctionOnSet(g, DOMAIN txs)
       /\ SumFunctionOnSet(e, DOMAIN txs) \in Int
  BY <1>1, <1>8, SumOfSame, SumIsInt
<1>11. /\ IsHistory(first \o FlattenSeq(lists))
       /\ Explained(first \o FlattenSeq(lists)) = Explained(first) + Explained(FlattenSeq(lists))
  BY <1>3, <1>6, ExplainedTogether
<1> QED
  BY <1>3, <1>4, <1>6, <1>7, <1>9, <1>10, <1>11

-----------------------------------------------------------------------------
\* What an output is worth to an address, read off its name, and what an
\* address holds of a ledger.
Worth(a, o) ==
  IF o.txid.outputs[o.index].address = a THEN o.txid.outputs[o.index].amount ELSE 0

Held(utxos, a) == SumFunctionOnSet([o \in DOMAIN utxos |-> Worth(a, o)], DOMAIN utxos)

IsWorthTo(a, w, S) == \A o \in S : w[o] = Worth(a, o)

\* What a transaction makes and spends is worth to an address what it pays to
\* it and, if it is the sender, all that it pays and burns.
LEMMA TransactionMoves ==
  ASSUME NEW utxos, EntriesMatch(utxos), \A o \in DOMAIN utxos : utxos[o].amount \in Nat,
         NEW tx, IsTransaction(tx), NEW height, TransactionApplies(utxos, tx, height),
         NEW a, NEW w, IsWorthTo(a, w, OutpointsOf(tx)), IsWorthTo(a, w, Spends(tx))
  PROVE  /\ IsFiniteSet(OutpointsOf(tx)) /\ IsFiniteSet(Spends(tx))
         /\ \A o \in OutpointsOf(tx) \cup Spends(tx) : w[o] \in Int
         /\ SumFunctionOnSet(w, OutpointsOf(tx)) \in Int /\ SumFunctionOnSet(w, Spends(tx)) \in Int
         /\ SumFunctionOnSet(w, OutpointsOf(tx)) - SumFunctionOnSet(w, Spends(tx)) = Gain(tx, a)
<1> DEFINE S == DOMAIN tx.outputs
           h == [i \in S |-> [txid |-> tx, index |-> i]]
           g == [i \in S |-> IF tx.outputs[i].address = a THEN tx.outputs[i].amount ELSE 0]
<1>1. IsFiniteSet(S)
  BY PositionsAreFinite DEF IsTransaction
<1>2. \A x, y \in S : h[x] = h[y] => x = y
  <2> TAKE x, y \in S
  <2>1. h[x].index = x /\ h[y].index = y
    OBVIOUS
  <2> QED
    BY <2>1
<1>3. OutpointsOf(tx) = {h[x] : x \in S}
  BY DEF OutpointsOf
<1>4. \A x \in S : w[h[x]] \in Int /\ g[x] = w[h[x]]
  <2> TAKE x \in S
  <2>1. h[x] \in OutpointsOf(tx) /\ h[x].txid = tx /\ h[x].index = x
    BY <1>3
  <2>2. w[h[x]] = IF tx.outputs[x].address = a THEN tx.outputs[x].amount ELSE 0
    BY <2>1 DEF IsWorthTo, Worth
  <2>3. tx.outputs[x].amount \in Nat
    BY DEF IsTransaction
  <2> QED
    BY <2>2, <2>3
<1>5. Paid(tx.outputs, a) = SumFunctionOnSet(g, S)
  BY DEF Paid
<1> HIDE DEF S, g, h
<1>6. /\ IsFiniteSet(OutpointsOf(tx))
      /\ SumFunctionOnSet(w, OutpointsOf(tx)) = Paid(tx.outputs, a)
      /\ \A o \in OutpointsOf(tx) : w[o] \in Int
  <2>1. /\ IsFiniteSet({h[x] : x \in S})
        /\ SumFunctionOnSet(w, {h[x] : x \in S}) = SumFunctionOnSet(g, S)
    BY <1>1, <1>2, <1>4, SumOfImage
  <2> QED
    BY <1>3, <1>4, <1>5, <2>1
<1>7. \A o \in Spends(tx) :
        /\ utxos[o].amount \in Int
        /\ w[o] = IF tx.sender = a THEN utxos[o].amount ELSE 0
  <2> TAKE o \in Spends(tx)
  <2>1. o \in DOMAIN utxos /\ utxos[o].address = tx.sender
    BY DEF TransactionApplies, InputsAreSpendable
  <2>2. /\ utxos[o].address = o.txid.outputs[o.index].address
        /\ utxos[o].amount = o.txid.outputs[o.index].amount /\ utxos[o].amount \in Nat
    BY <2>1 DEF EntriesMatch
  <2> QED
    BY <2>1, <2>2 DEF IsWorthTo, Worth
<1>8. IsFiniteSet(Spends(tx))
  <2>1. IsFiniteSet(DOMAIN tx.inputs)
    BY PositionsAreFinite DEF IsTransaction
  <2>2. Spends(tx) = {tx.inputs[i] : i \in DOMAIN tx.inputs}
    BY DEF Spends, Range
  <2> QED
    BY <2>1, <2>2, FiniteImage
<1>9. SumFunctionOnSet(w, Spends(tx)) = IF tx.sender = a THEN SumOutputs(tx.outputs) + tx.fee ELSE 0
  <2>1. CASE tx.sender = a
    <3>1. IsInjective(tx.inputs)
      BY DEF TransactionApplies, validateSignedTransactionShape
    <3>2. \A o \in Spends(tx) : w[o] = utxos[o].amount /\ w[o] \in Int
      BY <1>7, <2>1
    <3>3. SumFunctionOnSet(w, Spends(tx)) = InputSum(utxos, tx)
      BY <3>1, <3>2, InputsAddUp
    <3> QED
      BY <2>1, <3>3 DEF TransactionApplies
  <2>2. CASE tx.sender # a
    <3>1. \A o \in Spends(tx) : w[o] = 0
      BY <1>7, <2>2
    <3> QED
      BY <1>8, <2>2, <3>1, SumOfZeros
  <2> QED
    BY <2>1, <2>2
<1>10. /\ Paid(tx.outputs, a) \in Int /\ SumOutputs(tx.outputs) \in Int /\ tx.fee \in Int
  BY PaymentsAddUp DEF IsTransaction
<1>11. \A o \in Spends(tx) : w[o] \in Int
  BY <1>7
<1> QED
  BY <1>6, <1>8, <1>9, <1>10, <1>11 DEF Gain

\* A block without two spends of one output moves what its transactions gain.
LEMMA TransactionsMove ==
  ASSUME NEW state, EntriesMatch(state.utxos),
         \A o \in DOMAIN state.utxos : state.utxos[o].amount \in Nat,
         NEW block, IsWellFormed(block), BlockApplies(state, block), ConflictFree(block),
         NEW a, NEW w, IsWorthTo(a, w, CreatedIn(block)), IsWorthTo(a, w, SpentBy(block.transactions))
  PROVE  /\ IsFiniteSet(CreatedIn(block)) /\ IsFiniteSet(SpentBy(block.transactions))
         /\ SumFunctionOnSet(w, CreatedIn(block)) - SumFunctionOnSet(w, SpentBy(block.transactions))
              = SumFunctionOnSet([i \in DOMAIN block.transactions |-> Gain(block.transactions[i], a)],
                                 DOMAIN block.transactions)
<1> DEFINE txs == block.transactions
           I == DOMAIN txs
           A == [i \in I |-> OutpointsOf(txs[i])]
           B == [i \in I |-> Spends(txs[i])]
           f == [i \in I |-> SumFunctionOnSet(w, A[i])]
           g == [i \in I |-> SumFunctionOnSet(w, B[i])]
           gain == [i \in I |-> Gain(txs[i], a)]
<1>1. IsFiniteSet(I) /\ IsInjective(txs)
  BY PositionsAreFinite DEF IsWellFormed, BlockApplies
<1>2. CreatedIn(block) = UNION {A[i] : i \in I} /\ SpentBy(txs) = UNION {B[i] : i \in I}
  BY DEF CreatedIn, SpentBy, Range
<1>3. ASSUME NEW i \in I
      PROVE  /\ IsFiniteSet(A[i]) /\ \A o \in A[i] : w[o] \in Int
             /\ IsFiniteSet(B[i]) /\ \A o \in B[i] : w[o] \in Int
             /\ f[i] = SumFunctionOnSet(w, A[i]) /\ f[i] \in Int
             /\ g[i] = SumFunctionOnSet(w, B[i]) /\ g[i] \in Int
             /\ gain[i] \in Int /\ f[i] = gain[i] + g[i]
  <2> DEFINE tx == txs[i]
  <2>1. A[i] = OutpointsOf(tx) /\ B[i] = Spends(tx) /\ gain[i] = Gain(tx, a)
        /\ f[i] = SumFunctionOnSet(w, A[i]) /\ g[i] = SumFunctionOnSet(w, B[i])
        /\ A[i] \subseteq CreatedIn(block) /\ B[i] \subseteq SpentBy(txs)
    BY <1>2
  <2>2. IsTransaction(tx) /\ TransactionApplies(state.utxos, tx, block.header.height)
    BY DEF IsWellFormed, Range, BlockApplies
  <2> HIDE DEF tx, A, B, f, g, gain
  <2>3. IsWorthTo(a, w, OutpointsOf(tx)) /\ IsWorthTo(a, w, Spends(tx))
    BY <2>1 DEF IsWorthTo
  <2>4. /\ IsFiniteSet(OutpointsOf(tx)) /\ IsFiniteSet(Spends(tx))
        /\ \A o \in OutpointsOf(tx) \cup Spends(tx) : w[o] \in Int
        /\ SumFunctionOnSet(w, OutpointsOf(tx)) \in Int /\ SumFunctionOnSet(w, Spends(tx)) \in Int
        /\ SumFunctionOnSet(w, OutpointsOf(tx)) - SumFunctionOnSet(w, Spends(tx)) = Gain(tx, a)
    BY <2>2, <2>3, TransactionMoves
  <2> QED
    BY <2>1, <2>4
<1>4. ASSUME NEW i \in I, NEW j \in I, i # j
      PROVE  A[i] \cap A[j] = {} /\ B[i] \cap B[j] = {}
  <2>1. txs[i] # txs[j]
    BY <1>1, <1>4 DEF IsInjective
  <2>2. /\ \A o \in A[i] : o.txid = txs[i]
        /\ \A o \in A[j] : o.txid = txs[j]
    BY DEF OutpointsOf
  <2>3. B[i] \cap B[j] = {}
    BY <1>4 DEF ConflictFree
  <2> QED
    BY <2>1, <2>2, <2>3
<1> HIDE DEF A, B, f, g, gain, I, txs
<1>5. SumFunctionOnSet(w, UNION {A[i] : i \in I}) = SumFunctionOnSet(f, I)
  <2>1. \A i \in I : /\ IsFiniteSet(A[i]) /\ f[i] = SumFunctionOnSet(w, A[i])
                     /\ \A o \in A[i] : w[o] \in Int
    BY <1>3
  <2>2. \A i, j \in I : i # j => A[i] \cap A[j] = {}
    BY <1>4
  <2> QED
    BY <1>1, <2>1, <2>2, SumOfFamily
<1>6. SumFunctionOnSet(w, UNION {B[i] : i \in I}) = SumFunctionOnSet(g, I)
  <2>1. \A i \in I : /\ IsFiniteSet(B[i]) /\ g[i] = SumFunctionOnSet(w, B[i])
                     /\ \A o \in B[i] : w[o] \in Int
    BY <1>3
  <2>2. \A i, j \in I : i # j => B[i] \cap B[j] = {}
    BY <1>4
  <2> QED
    BY <1>1, <2>1, <2>2, SumOfFamily
<1>7. /\ SumFunctionOnSet(f, I) = SumFunctionOnSet(gain, I) + SumFunctionOnSet(g, I)
      /\ SumFunctionOnSet(gain, I) \in Int /\ SumFunctionOnSet(g, I) \in Int
  BY <1>1, <1>3, SumOfPairs, SumIsInt
<1>8. SumFunctionOnSet(f, I) - SumFunctionOnSet(g, I) = SumFunctionOnSet(gain, I)
  BY <1>7
<1>9. IsFiniteSet(UNION {A[i] : i \in I}) /\ IsFiniteSet(UNION {B[i] : i \in I})
  BY <1>1, <1>3, FamilyIsFinite
<1> QED
  BY <1>2, <1>5, <1>6, <1>8, <1>9 DEF gain, I, txs

\* What an address holds after such a block.
LEMMA HeldAfter ==
  ASSUME NEW tree, IsTree(tree), NEW block \in DOMAIN tree \ {Genesis},
         LedgerFits(tree, ParentOf(block)), ConflictFree(block),
         tree[ParentOf(block)].state.issued \in 0..TOTAL_SUPPLY, NEW a
  PROVE  /\ Held(tree[ParentOf(block)].state.utxos, a) \in Int
         /\ BlockGain(block, a) \in Int
         /\ Held(tree[block].state.utxos, a)
              = Held(tree[ParentOf(block)].state.utxos, a) + BlockGain(block, a)
<1> DEFINE parent  == ParentOf(block)
           state   == tree[parent].state
           old     == DOMAIN state.utxos
           new     == DOMAIN tree[block].state.utxos
           spent   == SpentBy(block.transactions)
           made    == CreatedIn(block)
           kept    == old \ spent
           subsidy == CoinbaseOutpoint(block)
           w == [o \in old \cup new |-> Worth(a, o)]
           gains == SumFunctionOnSet([i \in DOMAIN block.transactions |-> Gain(block.transactions[i], a)],
                                     DOMAIN block.transactions)
           paid == IF block.coinbase.outputs[1].address = a
                   THEN block.coinbase.outputs[1].amount ELSE 0
<1>1. /\ IsWellFormed(block) /\ BlockApplies(state, block) /\ IsFiniteSet(old)
      /\ tree[block].state = applyBlock(state, block)
      /\ parent \in DOMAIN tree /\ block \in DOMAIN tree
      /\ \A o \in old : state.utxos[o].amount \in Nat
      /\ EntriesMatch(state.utxos)
  <2>1. tree[block] = entryFor(tree, block) /\ IsWellFormed(block) /\ BlockApplies(state, block)
        /\ parent \in DOMAIN tree
    BY DEF IsTree
  <2>2. tree[block].state = applyBlock(state, block)
    BY <2>1 DEF entryFor, ParentOf
  <2>3. EntriesMatch(state.utxos)
    BY <2>1, EntriesMatchNames
  <2> QED
    BY <2>1, <2>2, <2>3 DEF LedgerFits
<1>2. new = (kept \cup made) \cup {subsidy}
  <2> HIDE DEF state
  <2> QED
    BY <1>1, LedgerAfter
<1>3. /\ \A o \in spent : o \in old
      /\ \A o \in made : o \notin old /\ o # subsidy
      /\ subsidy \notin old
  <2> DEFINE path == ancestry(tree, parent)
  <2>1. \A o \in spent : o \in old
    BY <1>1, SpendsTheUnspent
  <2>2. \A o \in old : MintedOn(path, o)
    BY DEF LedgerFits
  <2>3. /\ \A o \in made : ~IsSubsidy(o) /\ ~MintedOn(path, o)
        /\ IsSubsidy(subsidy) /\ ~MintedOn(path, subsidy)
    BY NewOutputsAreNew
  <2> HIDE DEF path, made, subsidy, state, spent, old
  <2> QED
    BY <2>1, <2>2, <2>3
<1>4. \A o \in old \cup new : w[o] = Worth(a, o)
  OBVIOUS
<1>5. /\ IsFiniteSet(made) /\ IsFiniteSet(spent)
      /\ SumFunctionOnSet(w, made) - SumFunctionOnSet(w, spent) = gains
  <2>1. IsWorthTo(a, w, made) /\ IsWorthTo(a, w, spent)
    <3> HIDE DEF w, old, spent, made, kept, subsidy
    <3> QED
      BY <1>2, <1>3, <1>4 DEF IsWorthTo
  <2> HIDE DEF w, state
  <2> QED
    BY <1>1, <2>1, TransactionsMove DEF old
<1>6. paid \in Int /\ w[subsidy] = paid
  <2>1. block.coinbase.outputs[1].amount \in Nat
    BY <1>1, SubsidyIsAmount DEF CoinbaseEntry
  <2>2. Worth(a, subsidy) = paid
    BY DEF Worth, CoinbaseOutpoint, coinbaseId
  <2>3. subsidy \in new
    BY <1>2
  <2> HIDE DEF subsidy, w
  <2> QED
    BY <1>4, <2>1, <2>2, <2>3
<1>7. \A o \in old \cup new : w[o] \in Int
  <2>1. \A o \in old : w[o] \in Int
    <3> TAKE o \in old
    <3>1. o.txid.outputs[o.index].amount \in Nat
      BY <1>1 DEF EntriesMatch
    <3>2. w[o] = Worth(a, o)
      BY <1>4
    <3> HIDE DEF w
    <3> QED
      BY <3>1, <3>2 DEF Worth
  <2>2. \A o \in made : w[o] \in Int
    <3> TAKE o \in made
    <3>1. o.txid.outputs[o.index].amount \in Nat
      BY <1>1, CreatedAreAmounts
    <3>2. w[o] = Worth(a, o)
      <4> HIDE DEF made, old, kept, subsidy, w
      <4> QED
        BY <1>2, <1>4
    <3> HIDE DEF w
    <3> QED
      BY <3>1, <3>2 DEF Worth
  <2> HIDE DEF w, old, made, kept, subsidy, new
  <2> QED
    BY <1>2, <1>6, <2>1, <2>2 DEF kept
<1>8. /\ Held(state.utxos, a) = SumFunctionOnSet(w, old)
      /\ Held(tree[block].state.utxos, a) = SumFunctionOnSet(w, new)
  <2> DEFINE u == [o \in old |-> Worth(a, o)]
             v == [o \in new |-> Worth(a, o)]
  <2>1. /\ Held(state.utxos, a) = SumFunctionOnSet(u, old)
        /\ Held(tree[block].state.utxos, a) = SumFunctionOnSet(v, new)
    BY DEF Held
  <2>2. /\ \A o \in old : u[o] = w[o]
        /\ \A o \in new : v[o] = w[o]
    OBVIOUS
  <2>3. IsFiniteSet(old) /\ IsFiniteSet(new)
    <3> HIDE DEF old, made, spent, subsidy, new
    <3>1. IsFiniteSet(kept) /\ IsFiniteSet({subsidy})
      BY <1>1, FS_Difference, FS_Singleton
    <3> HIDE DEF kept
    <3> QED
      BY <1>1, <1>2, <1>5, <3>1, FS_Union
  <2> HIDE DEF u, v, w, old, new
  <2>4. /\ \A o \in old : u[o] \in Int /\ u[o] = w[o]
        /\ \A o \in new : v[o] \in Int /\ v[o] = w[o]
    BY <1>7, <2>2
  <2> QED
    BY <2>1, <2>3, <2>4, SumOfSame
<1>9. BlockGain(block, a) = paid + gains
  BY DEF BlockGain
<1>10. /\ kept \cup spent = old /\ kept \cap spent = {}
       /\ kept \cap made = {} /\ subsidy \notin kept \cup made
       /\ IsFiniteSet(kept)
  <2> HIDE DEF old, spent, made, subsidy
  <2> QED
    BY <1>1, <1>3, FS_Difference
<1> HIDE DEF w, gains, paid, made, spent, subsidy, old, new, kept, state
<1>11. /\ SumFunctionOnSet(w, kept) \in Int /\ SumFunctionOnSet(w, spent) \in Int
       /\ SumFunctionOnSet(w, made) \in Int
  <2>1. \A o \in kept \cup spent \cup made : w[o] \in Int
    BY <1>2, <1>7, <1>10
  <2> QED
    BY <1>5, <1>10, <2>1, SumIsInt
<1>12. SumFunctionOnSet(w, old) = SumFunctionOnSet(w, kept) + SumFunctionOnSet(w, spent)
  <2>1. \A o \in kept \cup spent : w[o] \in Int
    BY <1>7, <1>10
  <2>2. SumFunctionOnSet(w, kept \cup spent) = SumFunctionOnSet(w, kept) + SumFunctionOnSet(w, spent)
    BY <1>5, <1>10, <2>1, SumOfUnion
  <2> QED
    BY <1>10, <2>2
<1>13. SumFunctionOnSet(w, kept \cup made) = SumFunctionOnSet(w, kept) + SumFunctionOnSet(w, made)
  <2>1. \A o \in kept \cup made : w[o] \in Int
    BY <1>2, <1>7
  <2> QED
    BY <1>5, <1>10, <2>1, SumOfUnion
<1>14. SumFunctionOnSet(w, new) = SumFunctionOnSet(w, kept \cup made) + w[subsidy]
  <2>1. IsFiniteSet(kept \cup made)
    BY <1>5, <1>10, FS_Union
  <2>2. \A o \in (kept \cup made) \cup {subsidy} : w[o] \in Int
    BY <1>2, <1>7
  <2>3. SumFunctionOnSet(w, (kept \cup made) \cup {subsidy})
          = SumFunctionOnSet(w, kept \cup made) + w[subsidy]
    BY <1>10, <2>1, <2>2, SumAddsOne
  <2> QED
    BY <1>2, <2>3
<1> QED
  BY <1>5, <1>6, <1>8, <1>9, <1>11, <1>12, <1>13, <1>14 DEF state

-----------------------------------------------------------------------------
\* What an address gains along a path, the first block left out.
Gained(path, a) ==
  SumFunctionOnSet([i \in 1..(Len(path) - 1) |-> BlockGain(path[i + 1], a)], 1..(Len(path) - 1))

\* A longer path gains what its last block does.
LEMMA GainedLonger ==
  ASSUME NEW S, NEW path \in Seq(S), Len(path) >= 1, NEW block, NEW a,
         BlockGain(block, a) \in Int,
         \A i \in DOMAIN path : i # 1 => BlockGain(path[i], a) \in Int
  PROVE  /\ Gained(path, a) \in Int
         /\ Gained(Append(path, block), a) = Gained(path, a) + BlockGain(block, a)
<1> DEFINE n == Len(path) - 1
           longer == Append(path, block)
           f == [i \in 1..n |-> BlockGain(path[i + 1], a)]
           g == [i \in 1..(Len(longer) - 1) |-> BlockGain(longer[i + 1], a)]
<1>1. n \in Nat /\ Len(path) = n + 1 /\ Len(longer) = n + 2 /\ Len(longer) - 1 = n + 1
  OBVIOUS
<1>2. /\ 1..(n + 1) = 1..n \cup {n + 1} /\ n + 1 \notin 1..n
      /\ IsFiniteSet(1..n)
  <2> HIDE DEF n
  <2>1. 1..(n + 1) = 1..n \cup {n + 1} /\ n + 1 \notin 1..n
    BY <1>1
  <2>2. IsFiniteSet(1..n)
    BY <1>1, FS_Interval
  <2> QED
    BY <2>1, <2>2
<1>3. \A i \in 1..n : /\ i + 1 \in DOMAIN path /\ i + 1 # 1
                      /\ longer[i + 1] = path[i + 1]
  BY <1>1
<1>4. longer[n + 2] = block
  BY <1>1
<1>5. /\ Gained(path, a) = SumFunctionOnSet(f, 1..n)
      /\ Gained(longer, a) = SumFunctionOnSet(g, 1..(n + 1))
  BY <1>1 DEF Gained
<1>6. /\ \A i \in 1..n : f[i] = BlockGain(path[i + 1], a)
      /\ \A i \in 1..(n + 1) : g[i] = BlockGain(longer[i + 1], a)
  BY <1>1
<1> HIDE DEF f, g, n, longer
<1>7. /\ \A i \in 1..n : f[i] \in Int /\ f[i] = g[i]
      /\ g[n + 1] = BlockGain(block, a)
  <2>1. n + 1 \in 1..(n + 1) /\ (n + 1) + 1 = n + 2 /\ \A i \in 1..n : i \in 1..(n + 1)
    BY <1>1
  <2> QED
    BY <1>3, <1>4, <1>6, <2>1
<1>8. SumFunctionOnSet(g, 1..n \cup {n + 1}) = SumFunctionOnSet(g, 1..n) + g[n + 1]
  <2> DEFINE positions == 1..n
             y  == n + 1
  <2>1. \A i \in positions \cup {y} : g[i] \in Int
    BY <1>7
  <2>2. IsFiniteSet(positions) /\ y \notin positions
    BY <1>2
  <2> HIDE DEF positions, y
  <2>3. SumFunctionOnSet(g, positions \cup {y}) = SumFunctionOnSet(g, positions) + g[y]
    BY <2>1, <2>2, SumAddsOne
  <2> QED
    BY <2>3 DEF positions, y
<1>9. SumFunctionOnSet(f, 1..n) = SumFunctionOnSet(g, 1..n) /\ SumFunctionOnSet(f, 1..n) \in Int
  BY <1>2, <1>7, SumOfSame, SumIsInt
<1> QED
  BY <1>2, <1>5, <1>7, <1>8, <1>9 DEF longer

\* An address holds what it has gained along the branch.
LEMMA HeldOnBranch ==
  ASSUME NEW tree, IsTree(tree),
         \A block \in DOMAIN tree : tree[block].state.issued \in 0..TOTAL_SUPPLY, NEW a
  PROVE  \A block \in DOMAIN tree :
           (\A i \in DOMAIN ancestry(tree, block) : ConflictFree(ancestry(tree, block)[i]))
             => /\ Held(tree[block].state.utxos, a) = Gained(ancestry(tree, block), a)
                /\ \A i \in DOMAIN ancestry(tree, block) :
                     i # 1 => BlockGain(ancestry(tree, block)[i], a) \in Int
<1> DEFINE Clean(block) ==
             \A i \in DOMAIN ancestry(tree, block) : ConflictFree(ancestry(tree, block)[i])
           Fits(block) ==
             /\ Held(tree[block].state.utxos, a) = Gained(ancestry(tree, block), a)
             /\ \A i \in DOMAIN ancestry(tree, block) :
                  i # 1 => BlockGain(ancestry(tree, block)[i], a) \in Int
           Q == {block \in DOMAIN tree : Clean(block) => Fits(block)}
<1>1. Genesis \in Q
  <2>1. Genesis \in DOMAIN tree /\ DOMAIN tree[Genesis].state.utxos = {}
    BY DEF IsTree, GenesisEntry, GenesisState
  <2>2. ancestry(tree, Genesis) = <<Genesis>>
    BY AncestryUnfolds
  <2>3. Held(tree[Genesis].state.utxos, a) = 0
    <3> DEFINE utxos == tree[Genesis].state.utxos
               f == [o \in DOMAIN utxos |-> Worth(a, o)]
    <3>1. Held(utxos, a) = SumFunctionOnSet(f, DOMAIN utxos)
      BY DEF Held
    <3> HIDE DEF f
    <3> QED
      BY <2>1, <3>1, SumOfNothing
  <2>4. Gained(<<Genesis>>, a) = 0
    <3> DEFINE f == [i \in 1..(Len(<<Genesis>>) - 1) |-> BlockGain(<<Genesis>>[i + 1], a)]
    <3>1. 1..(Len(<<Genesis>>) - 1) = {}
      OBVIOUS
    <3>2. Gained(<<Genesis>>, a) = SumFunctionOnSet(f, 1..(Len(<<Genesis>>) - 1))
      BY DEF Gained
    <3> HIDE DEF f
    <3> QED
      BY <3>1, <3>2, SumOfNothing
  <2>5. \A i \in DOMAIN <<Genesis>> : i = 1
    OBVIOUS
  <2> QED
    BY <2>1, <2>2, <2>3, <2>4, <2>5
<1>2. ASSUME NEW block \in DOMAIN tree \ {Genesis}, ParentOf(block) \in Q, Clean(block)
      PROVE  Fits(block)
  <2> DEFINE parent == ParentOf(block)
             path   == ancestry(tree, parent)
             longer == ancestry(tree, block)
  <2>1. parent \in DOMAIN tree /\ path \in Seq(DOMAIN tree) /\ longer = Append(path, block)
        /\ Len(path) >= 1
    <3>1. parent \in DOMAIN tree /\ longer = Append(path, block)
      BY AncestryUnfolds DEF IsTree
    <3>2. path \in Seq(DOMAIN tree) /\ Len(path) = parent.header.height + 1
      BY <3>1, AncestryIsBranch
    <3>3. parent.header.height \in Nat
      BY <3>1, HeightsInTree
    <3> QED
      BY <3>1, <3>2, <3>3
  <2>2. /\ ConflictFree(block) /\ \A i \in DOMAIN path : ConflictFree(path[i])
        /\ \A i \in DOMAIN longer : \/ i \in DOMAIN path /\ longer[i] = path[i]
                                    \/ i = Len(path) + 1 /\ longer[i] = block
    <3> HIDE DEF path, longer
    <3>1. \A i \in DOMAIN longer : ConflictFree(longer[i])
      BY <1>2 DEF longer
    <3>2. /\ Len(path) + 1 \in DOMAIN longer /\ longer[Len(path) + 1] = block
          /\ \A i \in DOMAIN path : i \in DOMAIN longer /\ longer[i] = path[i]
          /\ \A i \in DOMAIN longer : i \in DOMAIN path \/ i = Len(path) + 1
      BY <2>1
    <3>3. ConflictFree(block) /\ \A i \in DOMAIN path : ConflictFree(path[i])
      BY <3>1, <3>2
    <3>4. ASSUME NEW i \in DOMAIN longer
          PROVE  \/ i \in DOMAIN path /\ longer[i] = path[i]
                 \/ i = Len(path) + 1 /\ longer[i] = block
      BY <3>2
    <3> QED
      BY <3>3, <3>4
  <2>3. Fits(parent)
    BY <1>2, <2>2
  <2>4. /\ BlockGain(block, a) \in Int
        /\ Held(tree[block].state.utxos, a)
             = Held(tree[parent].state.utxos, a) + BlockGain(block, a)
    <3>1. LedgerFits(tree, parent) /\ tree[parent].state.issued \in 0..TOTAL_SUPPLY
      BY <2>1, LedgersFit
    <3> QED
      BY <2>2, <3>1, HeldAfter
  <2>5. \A i \in DOMAIN path : i # 1 => BlockGain(path[i], a) \in Int
    BY <2>3
  <2>6. \A i \in DOMAIN longer : i # 1 => BlockGain(longer[i], a) \in Int
    <3> HIDE DEF path, longer, parent
    <3> QED
      BY <2>2, <2>4, <2>5
  <2>7. Gained(longer, a) = Gained(path, a) + BlockGain(block, a)
    <3> HIDE DEF path, longer, parent
    <3> QED
      BY <2>1, <2>4, <2>5, GainedLonger
  <2>8. Held(tree[parent].state.utxos, a) = Gained(path, a)
    BY <2>3
  <2> HIDE DEF path, parent
  <2> QED
    BY <2>4, <2>6, <2>7, <2>8
<1>3. \A block \in DOMAIN tree \ {Genesis} : ParentOf(block) \in Q => block \in Q
  BY <1>2
<1> HIDE DEF Q
<1>4. \A block \in DOMAIN tree : block \in Q
  BY <1>1, <1>3, TreeInduction
<1> QED
  BY <1>4 DEF Q

\* An output was made by a block of its branch, above genesis.
LEMMA BirthsFit ==
  ASSUME NEW tree, IsTree(tree)
  PROVE  \A block \in DOMAIN tree : \A o \in DOMAIN tree[block].state.utxos :
           tree[block].state.utxos[o].birthHeight \in 1..block.header.height
<1> DEFINE Q == {block \in DOMAIN tree : \A o \in DOMAIN tree[block].state.utxos :
                   tree[block].state.utxos[o].birthHeight \in 1..block.header.height}
<1>1. Genesis \in Q
  <2>1. Genesis \in DOMAIN tree /\ DOMAIN tree[Genesis].state.utxos = {}
    BY DEF IsTree, GenesisEntry, GenesisState
  <2> QED
    BY <2>1
<1>2. ASSUME NEW block \in DOMAIN tree \ {Genesis}, ParentOf(block) \in Q PROVE block \in Q
  <2> DEFINE parent == ParentOf(block)
             state  == tree[parent].state
             old    == state.utxos
             new    == applyBlock(state, block).utxos
             made   == CreatedIn(block)
             subsidy == CoinbaseOutpoint(block)
  <2>1. /\ IsWellFormed(block) /\ tree[block].state.utxos = new
        /\ block.header.height = parent.header.height + 1 /\ parent.header.height \in Nat
    <3>1. tree[block] = entryFor(tree, block) /\ IsWellFormed(block) /\ parent \in DOMAIN tree
      BY DEF IsTree
    <3>2. tree[block].state = applyBlock(state, block)
      BY <3>1 DEF entryFor, ParentOf
    <3>3. block.header.height = parent.header.height + 1
      BY DEF IsTree
    <3> QED
      BY <3>1, <3>2, <3>3, HeightsInTree
  <2>2. /\ DOMAIN new = ((DOMAIN old \ SpentBy(block.transactions)) \cup made) \cup {subsidy}
        /\ new[subsidy] = CoinbaseEntry(block)
        /\ \A o \in made : o # subsidy => new[o].birthHeight = block.header.height
        /\ \A o \in DOMAIN old \ SpentBy(block.transactions) :
             o \notin made /\ o # subsidy => new[o] = old[o]
    <3> HIDE DEF state, new
    <3>1. LET utxos == state.utxos
              after == applyBlock(state, block).utxos
              coin  == CoinbaseOutpoint(block)
          IN  /\ DOMAIN after = ((DOMAIN utxos \ SpentBy(block.transactions)) \cup CreatedIn(block))
                                   \cup {coin}
              /\ after[coin] = CoinbaseEntry(block)
              /\ \A o \in CreatedIn(block) : o # coin =>
                   /\ after[o].amount = o.txid.outputs[o.index].amount
                   /\ after[o].address = o.txid.outputs[o.index].address
                   /\ after[o].isCoinbase = FALSE /\ after[o].birthHeight = block.header.height
              /\ \A o \in DOMAIN utxos \ SpentBy(block.transactions) :
                   o \notin CreatedIn(block) /\ o # coin => after[o] = utxos[o]
      BY <2>1, LedgerAfter
    <3> QED
      BY <3>1 DEF new
  <2>3. CoinbaseEntry(block).birthHeight = block.header.height
    BY DEF CoinbaseEntry
  <2>4. \A o \in DOMAIN old : old[o].birthHeight \in 1..parent.header.height
    BY <1>2
  <2> HIDE DEF old, new, made, subsidy, parent, state
  <2>5. ASSUME NEW o \in DOMAIN new PROVE new[o].birthHeight \in 1..block.header.height
    <3>1. CASE o = subsidy
      BY <2>1, <2>2, <2>3, <3>1
    <3>2. CASE o \in made /\ o # subsidy
      BY <2>1, <2>2, <3>2
    <3>3. CASE o \notin made /\ o # subsidy
      <4>1. o \in DOMAIN old /\ new[o] = old[o]
        BY <2>2, <2>5, <3>3
      <4> QED
        BY <2>1, <2>4, <4>1
    <3> QED
      BY <3>1, <3>2, <3>3
  <2> QED
    BY <2>1, <2>5
<1>3. \A block \in DOMAIN tree \ {Genesis} : ParentOf(block) \in Q => block \in Q
  BY <1>2
<1> HIDE DEF Q
<1>4. \A block \in DOMAIN tree : block \in Q
  BY <1>1, <1>3, TreeInduction
<1> QED
  BY <1>4 DEF Q

-----------------------------------------------------------------------------
\* No block of the best branch spends an output twice.
CleanBranch == \A i \in DOMAIN BestPath : ConflictFree(BestPath[i])

\* What the items of the block at a position below the tip show.
ItemsBelow(i, a) == ItemsOf(BestPath[Len(BestPath) + 1 - i], a)

\* The whole history of an address, newest block first.
LEMMA WholeHistoryAddsUp ==
  ASSUME SoundChain(entries, bestHash), NEW a, Len(history(a, MostItems)) < MostItems,
         NEW n, n = Len(BestPath) - 1,
         \A i \in 1..n : IsHistory(ItemsBelow(i, a))
  PROVE  /\ IsHistory(history(a, MostItems))
         /\ Explained(history(a, MostItems))
              = SumFunctionOnSet([i \in 1..n |-> Explained(ItemsBelow(i, a))], 1..n)
<1> DEFINE newest == Reverse(Tail(BestPath))
           lists  == [i \in DOMAIN newest |-> ItemsOf(newest[i], a)]
           all    == FlattenSeq(lists)
           e == [i \in DOMAIN lists |-> Explained(lists[i])]
           f == [i \in 1..n |-> Explained(ItemsBelow(i, a))]
<1>1. BestPath \in Seq(Stored) /\ Len(BestPath) \in Nat \ {0}
  BY BranchBlocks
<1>2. n \in Nat /\ Len(BestPath) = n + 1
  BY <1>1
<1>3. DOMAIN newest = 1..n /\ \A i \in 1..n : newest[i] = BestPath[n + 2 - i]
  <2> HIDE DEF BestPath
  <2> DEFINE rest == Tail(BestPath)
  <2>1. rest \in Seq(Stored) /\ Len(rest) = n /\ \A i \in 1..n : rest[i] = BestPath[i + 1]
    BY <1>1, <1>2
  <2>2. newest = [i \in 1..Len(rest) |-> rest[(Len(rest) - i) + 1]]
    BY DEF Reverse
  <2> HIDE DEF rest, newest
  <2>3. DOMAIN newest = 1..n /\ \A i \in 1..n : newest[i] = rest[(n - i) + 1]
    BY <2>1, <2>2
  <2>4. \A i \in 1..n : (n - i) + 1 \in 1..n /\ ((n - i) + 1) + 1 = n + 2 - i
    BY <1>2
  <2>5. ASSUME NEW i \in 1..n PROVE newest[i] = BestPath[n + 2 - i]
    <3> DEFINE j == (n - i) + 1
    <3>1. j \in 1..n /\ j + 1 = n + 2 - i /\ newest[i] = rest[j]
      BY <2>3, <2>4
    <3> HIDE DEF j
    <3>2. rest[j] = BestPath[j + 1]
      BY <2>1, <3>1
    <3> QED
      BY <3>1, <3>2
  <2> QED
    BY <2>3, <2>5
<1>4. DOMAIN lists = 1..n /\ \A i \in 1..n : lists[i] = ItemsBelow(i, a)
  <2> HIDE DEF newest, BestPath
  <2>1. \A i \in 1..n : Len(BestPath) + 1 - i = n + 2 - i
    BY <1>2
  <2> QED
    BY <1>3, <2>1 DEF ItemsBelow
<1>5. lists \in Seq({lists[i] : i \in 1..n})
  <2> DEFINE S == {lists[i] : i \in 1..n}
  <2>1. lists = [i \in 1..n |-> lists[i]] /\ \A i \in 1..n : lists[i] \in S
    BY <1>4
  <2> HIDE DEF S, lists
  <2>2. lists \in [1..n -> S]
    BY <2>1
  <2> QED
    BY <1>2, <2>2 DEF S
<1>6. IsHistory(all) /\ Explained(all) = SumFunctionOnSet(e, DOMAIN lists)
  <2> HIDE DEF lists
  <2>1. \A i \in DOMAIN lists : IsHistory(lists[i])
    BY <1>4
  <2> QED
    BY <1>5, <2>1, ExplainedOfAll
<1>7. e = f
  <2> HIDE DEF lists
  <2> QED
    BY <1>4
<1> DEFINE limit == MostItems
<1>8. history(a, MostItems) = FirstOf(limit, all)
  BY DEF history, MostItems
<1>9. FirstOf(limit, all) = all
  <2>1. limit \in Nat /\ limit >= 1 /\ Len(history(a, MostItems)) < limit
    BY SMT DEF MostItems
  <2> HIDE DEF all, limit
  <2>2. PICK S : all \in Seq(S)
    BY <1>6 DEF IsHistory
  <2>3. FirstOf(limit, all) = SubSeq(all, 1, IF limit < Len(all) THEN limit ELSE Len(all))
    BY DEF FirstOf
  <2>4. ~(limit < Len(all))
    <3>1. SUFFICES ASSUME limit < Len(all) PROVE FALSE
      OBVIOUS
    <3>2. Len(SubSeq(all, 1, limit)) = limit
      BY <2>1, <2>2, <3>1
    <3> QED
      BY <1>8, <2>1, <2>3, <3>1, <3>2
  <2>5. SubSeq(all, 1, Len(all)) = all
    BY <2>2
  <2> QED
    BY <2>3, <2>4, <2>5
<1> HIDE DEF e, all, lists, limit
<1> QED
  BY <1>4, <1>6, <1>7, <1>8, <1>9

\* The subsidy of a valid block is an amount.
LEMMA SubsidyIsInt ==
  ASSUME NEW state, NEW block, IsWellFormed(block), BlockApplies(state, block),
         state.issued \in 0..TOTAL_SUPPLY
  PROVE  block.coinbase.outputs[1].amount \in Int
<1>1. CoinbaseEntry(block).amount \in Nat
  BY SubsidyIsAmount
<1> QED
  BY <1>1 DEF CoinbaseEntry

\* The history of an address explains what it holds.
LEMMA HistoryShowsHeld ==
  ASSUME SoundChain(entries, bestHash), CleanBranch, NEW a, Len(history(a, MostItems)) < MostItems
  PROVE  /\ Explained(history(a, MostItems)) = Held(BestState.utxos, a)
         /\ Held(BestState.utxos, a) \in Int
<1> DEFINE n == Len(BestPath) - 1
           h == [i \in 1..n |-> n + 1 - i]
           e == [i \in 1..n |-> Explained(ItemsBelow(i, a))]
           f == [i \in 1..n |-> BlockGain(BestPath[i + 1], a)]
<1>1. /\ Len(BestPath) \in Nat \ {0} /\ DOMAIN BestPath = 1..Len(BestPath)
      /\ \A i \in DOMAIN BestPath : IsBranchBlock(i)
  BY BranchBlocks
<1>2. n \in Nat /\ Len(BestPath) = n + 1
  BY <1>1
<1>3. ASSUME NEW i \in 2..Len(BestPath)
      PROVE  /\ IsHistory(ItemsOf(BestPath[i], a))
             /\ Explained(ItemsOf(BestPath[i], a)) = BlockGain(BestPath[i], a)
             /\ BlockGain(BestPath[i], a) \in Int
  <2> DEFINE block == BestPath[i]
             state == entries[block.header.previousHash].state
  <2>1. i \in DOMAIN BestPath /\ i # 1
    BY <1>1
  <2>2. /\ IsWellFormed(block) /\ BlockApplies(state, block)
        /\ block.header.previousHash \in Stored
    BY <1>1, <2>1 DEF IsBranchBlock
  <2>3. state.issued \in 0..TOTAL_SUPPLY
    BY <2>2 DEF SoundChain, EntriesCount, Stored
  <2>4. block.coinbase.outputs[1].amount \in Int
    <3> HIDE DEF state, block
    <3> QED
      BY <2>2, <2>3, SubsidyIsInt
  <2> HIDE DEF block
  <2>5. /\ IsHistory(ItemsOf(block, a)) /\ Explained(ItemsOf(block, a)) = BlockGain(block, a)
        /\ BlockGain(block, a) \in Int
    BY <2>2, <2>4, ItemsShowGain
  <2> QED
    BY <2>5 DEF block
<1>4. /\ Held(BestState.utxos, a) = Gained(BestPath, a)
  <2>1. IsTree(entries) /\ bestHash \in DOMAIN entries
        /\ \A block \in DOMAIN entries : entries[block].state.issued \in 0..TOTAL_SUPPLY
    BY DEF SoundChain, EntriesCount
  <2>2. \A i \in DOMAIN ancestry(entries, bestHash) : ConflictFree(ancestry(entries, bestHash)[i])
    BY DEF CleanBranch, BestPath
  <2>3. Held(entries[bestHash].state.utxos, a) = Gained(ancestry(entries, bestHash), a)
    BY <2>1, <2>2, HeldOnBranch
  <2> QED
    BY <2>3 DEF BestState, BestPath
<1>5. Gained(BestPath, a) = SumFunctionOnSet(f, 1..n)
  BY DEF Gained
<1>6. \A i \in 1..n : /\ Len(BestPath) + 1 - i \in 2..Len(BestPath)
                      /\ h[i] \in 1..n /\ h[i] + 1 = Len(BestPath) + 1 - i
                      /\ \A j \in 1..n : h[i] = h[j] => i = j
  <2> HIDE DEF BestPath, n
  <2> QED
    BY <1>2
<1>7. \A i \in 1..n : /\ IsHistory(ItemsBelow(i, a))
                      /\ e[i] = f[h[i]] /\ f[h[i]] \in Int
  <2> TAKE i \in 1..n
  <2> DEFINE k == Len(BestPath) + 1 - i
  <2>1. k \in 2..Len(BestPath) /\ h[i] \in 1..n /\ h[i] + 1 = k
    BY <1>6
  <2>2. ItemsBelow(i, a) = ItemsOf(BestPath[k], a) /\ e[i] = Explained(ItemsBelow(i, a))
    BY DEF ItemsBelow
  <2>3. f[h[i]] = BlockGain(BestPath[h[i] + 1], a)
    <3> HIDE DEF h
    <3> QED
      BY <2>1
  <2> HIDE DEF k, h, e, f, n, BestPath
  <2> QED
    BY <1>3, <2>1, <2>2, <2>3
<1>8. {h[i] : i \in 1..n} = 1..n
  <2>1. ASSUME NEW j \in 1..n PROVE \E i \in 1..n : h[i] = j
    <3> HIDE DEF BestPath, n
    <3>1. n + 1 - j \in 1..n /\ n + 1 - (n + 1 - j) = j
      BY <1>2
    <3> QED
      BY <3>1
  <2>2. \A i \in 1..n : h[i] \in 1..n
    BY <1>6
  <2> DEFINE I == 1..n
  <2>3. (\A j \in I : \E i \in I : h[i] = j) /\ \A i \in I : h[i] \in I
    BY <2>1, <2>2
  <2> HIDE DEF h, n, I
  <2>4. {h[i] : i \in I} = I
    BY <2>3
  <2> QED
    BY <2>4 DEF I
<1>9. IsFiniteSet(1..n)
  <2> HIDE DEF n
  <2> QED
    BY <1>2, FS_Interval
<1>10. SumFunctionOnSet(f, 1..n) = SumFunctionOnSet(e, 1..n)
  <2> HIDE DEF f, e, h, n
  <2> DEFINE I == 1..n
  <2>1. IsFiniteSet(I) /\ {h[i] : i \in I} = I
    BY <1>8, <1>9
  <2>2. /\ \A x, y \in I : h[x] = h[y] => x = y
        /\ \A x \in I : f[h[x]] \in Int /\ e[x] = f[h[x]]
    BY <1>6, <1>7
  <2> DEFINE image == {h[i] : i \in I}
  <2> HIDE DEF I
  <2>3. SumFunctionOnSet(f, image) = SumFunctionOnSet(e, I)
    BY <2>1, <2>2, SumOfImage
  <2>4. image = I
    BY <2>1
  <2> HIDE DEF image
  <2>5. SumFunctionOnSet(f, I) = SumFunctionOnSet(e, I)
    BY <2>3, <2>4
  <2> QED
    BY <2>5 DEF I
<1>11. Explained(history(a, MostItems)) = SumFunctionOnSet(e, 1..n)
  <2> HIDE DEF e, f, h
  <2>1. \A i \in 1..n : IsHistory(ItemsBelow(i, a))
    <3> HIDE DEF n
    <3> QED
      BY <1>7
  <2>2. Explained(history(a, MostItems))
          = SumFunctionOnSet([i \in 1..n |-> Explained(ItemsBelow(i, a))], 1..n)
    BY <2>1, WholeHistoryAddsUp
  <2> QED
    BY <2>2 DEF e
<1>12. SumFunctionOnSet(e, 1..n) \in Int
  <2> DEFINE I == 1..n
  <2> HIDE DEF e, n, f, h
  <2>1. IsFiniteSet(I) /\ \A i \in I : e[i] \in Int
    BY <1>7, <1>9
  <2> HIDE DEF I
  <2>2. SumFunctionOnSet(e, I) \in Int
    BY <2>1, SumIsInt
  <2> QED
    BY <2>2 DEF I
<1> HIDE DEF e, f, n
<1> QED
  BY <1>4, <1>5, <1>10, <1>11, <1>12

-----------------------------------------------------------------------------
\* An output as the node shows it, some outputs shown, and those of an address
\* and of a wallet.
Utxos == BestState.utxos

Shown(o) ==
  [outpoint |-> o, address |-> Utxos[o].address, amount |-> Utxos[o].amount,
   birthHeight |-> Utxos[o].birthHeight, isCoinbase |-> Utxos[o].isCoinbase,
   spendable |-> IsMature(Utxos[o], Height)]

AllShown(T) == {Shown(o) : o \in T}
OutputsOf(a) == {o \in DOMAIN Utxos : Utxos[o].address = a}
OutputsOwned(own) == UNION {OutputsOf(own[i]) : i \in DOMAIN own}
Amounts == [o \in DOMAIN Utxos |-> Utxos[o].amount]

\* What is known of the outputs of the best state.
LEMMA OutputsFit ==
  ASSUME SoundChain(entries, bestHash)
  PROVE  /\ IsFiniteSet(DOMAIN Utxos) /\ Height \in Nat
         /\ \A o \in DOMAIN Utxos :
              /\ Utxos[o].amount \in Nat /\ Utxos[o].birthHeight \in 1..Height
              /\ Utxos[o].address = o.txid.outputs[o.index].address
              /\ Utxos[o].amount = o.txid.outputs[o.index].amount
<1>1. IsTree(entries) /\ bestHash \in DOMAIN entries /\ bestHash \in Stored
  BY DEF SoundChain, Stored
<1>2. LedgerFits(entries, bestHash) /\ EntriesMatch(Utxos)
  BY <1>1, StatesFit DEF Utxos, BestState
<1>3. IsFiniteSet(DOMAIN Utxos) /\ \A o \in DOMAIN Utxos : Utxos[o].amount \in Nat
  BY <1>2 DEF LedgerFits, Utxos, BestState
<1>4. \A o \in DOMAIN Utxos : Utxos[o].birthHeight \in 1..Height
  BY <1>1, BirthsFit DEF Utxos, BestState, Height
<1>5. Height \in Nat
  BY <1>1, HeightsInTree DEF Height
<1> QED
  BY <1>2, <1>3, <1>4, <1>5 DEF EntriesMatch

\* The answer of the node for an address.
LEMMA NodeShows ==
  ASSUME NEW a
  PROVE  utxosOf(a) = AllShown(OutputsOf(a))
BY DEF utxosOf, AllShown, Shown, OutputsOf, Utxos

\* The wallet adds up the amounts of the outputs.
LEMMA ShownAddUp ==
  ASSUME SoundChain(entries, bestHash), NEW T, T \subseteq DOMAIN Utxos
  PROVE  /\ SumAmounts(AllShown(T)) = SumFunctionOnSet(Amounts, T)
         /\ SumFunctionOnSet(Amounts, T) \in Int
<1> DEFINE h == [o \in T |-> Shown(o)]
           f == [u \in AllShown(T) |-> u.amount]
<1>1. IsFiniteSet(T) /\ \A o \in T : Amounts[o] \in Int /\ Amounts[o] = Utxos[o].amount
  <2>1. /\ IsFiniteSet(DOMAIN Utxos)
        /\ \A o \in DOMAIN Utxos : Utxos[o].amount \in Nat
    BY OutputsFit
  <2>2. IsFiniteSet(T)
    BY <2>1, FS_Subset
  <2> QED
    BY <2>1, <2>2 DEF Amounts
<1>2. \A x, y \in T : h[x] = h[y] => x = y
  <2> TAKE x, y \in T
  <2>1. h[x] = Shown(x) /\ h[y] = Shown(y)
    OBVIOUS
  <2>2. Shown(x).outpoint = x /\ Shown(y).outpoint = y
    BY DEF Shown
  <2> QED
    BY <2>1, <2>2
<1>3. AllShown(T) = {h[x] : x \in T}
  BY DEF AllShown
<1>4. \A x \in T : f[h[x]] \in Int /\ Amounts[x] = f[h[x]]
  <2> TAKE x \in T
  <2>1. h[x] = Shown(x) /\ h[x] \in AllShown(T)
    BY <1>3
  <2>2. Shown(x).amount = Utxos[x].amount
    BY DEF Shown
  <2> HIDE DEF h
  <2>3. f[h[x]] = h[x].amount
    BY <2>1
  <2> HIDE DEF f
  <2> QED
    BY <1>1, <2>1, <2>2, <2>3
<1>5. SumAmounts(AllShown(T)) = SumFunctionOnSet(f, AllShown(T))
  <2>1. SumAmounts(AllShown(T)) = SumFunction(f) /\ DOMAIN f = AllShown(T)
    BY DEF SumAmounts
  <2> HIDE DEF f
  <2> QED
    BY <2>1 DEF SumFunction
<1> HIDE DEF f, h
<1>6. SumFunctionOnSet(f, {h[x] : x \in T}) = SumFunctionOnSet(Amounts, T)
  BY <1>1, <1>2, <1>4, SumOfImage
<1>7. SumFunctionOnSet(Amounts, T) \in Int
  BY <1>1, SumIsInt
<1> QED
  BY <1>3, <1>5, <1>6, <1>7

\* The outputs of an address are worth what it holds.
LEMMA OutputsAreHeld ==
  ASSUME SoundChain(entries, bestHash), NEW a
  PROVE  SumFunctionOnSet(Amounts, OutputsOf(a)) = Held(Utxos, a)
<1> DEFINE D == DOMAIN Utxos
           mine == OutputsOf(a)
           rest == D \ mine
           w == [o \in D |-> Worth(a, o)]
<1>1. /\ IsFiniteSet(D)
      /\ \A o \in D : /\ Utxos[o].amount \in Nat
                      /\ Utxos[o].address = o.txid.outputs[o.index].address
                      /\ Utxos[o].amount = o.txid.outputs[o.index].amount
  BY OutputsFit
<1>2. /\ \A o \in mine : w[o] = Amounts[o] /\ w[o] \in Int
      /\ \A o \in rest : w[o] = 0
  BY <1>1 DEF OutputsOf, Worth, Amounts
<1>3. mine \cup rest = D /\ mine \cap rest = {}
  BY DEF OutputsOf
<1>4. IsFiniteSet(mine) /\ IsFiniteSet(rest)
  BY <1>1, FS_Subset DEF OutputsOf
<1>5. Held(Utxos, a) = SumFunctionOnSet(w, D)
  BY DEF Held
<1> HIDE DEF D, mine, rest, w
<1>6. SumFunctionOnSet(w, mine \cup rest) = SumFunctionOnSet(w, mine) + SumFunctionOnSet(w, rest)
  <2>1. \A o \in mine \cup rest : w[o] \in Int
    BY <1>2
  <2> QED
    BY <1>3, <1>4, <2>1, SumOfUnion
<1>7. SumFunctionOnSet(w, rest) = 0
  BY <1>2, <1>4, SumOfZeros
<1>8. SumFunctionOnSet(w, mine) = SumFunctionOnSet(Amounts, mine) /\ SumFunctionOnSet(w, mine) \in Int
  BY <1>2, <1>4, SumOfSame, SumIsInt
<1>9. SumFunctionOnSet(w, D) = SumFunctionOnSet(Amounts, mine)
  <2>1. SumFunctionOnSet(w, mine) = SumFunctionOnSet(w, mine \cup rest)
    BY <1>6, <1>7, <1>8
  <2> QED
    BY <1>3, <1>8, <2>1
<1> QED
  BY <1>5, <1>9 DEF mine

\* What the wallet fetches, and the same as listunspent and scantxoutset ask
\* for it.
LEMMA WalletFetches ==
  ASSUME NEW own
  PROVE  /\ fetchWalletUtxos(own) = AllShown(OutputsOwned(own))
         /\ OutputsOwned(own) \subseteq DOMAIN Utxos
<1>1. \A i \in DOMAIN own : utxosOf(own[i]) = AllShown(OutputsOf(own[i]))
  BY NodeShows
<1>2. fetchWalletUtxos(own) = UNION {AllShown(OutputsOf(own[i])) : i \in DOMAIN own}
  BY <1>1 DEF fetchWalletUtxos
<1>3. UNION {AllShown(OutputsOf(own[i])) : i \in DOMAIN own} = AllShown(OutputsOwned(own))
  BY DEF AllShown, OutputsOwned
<1>4. OutputsOwned(own) \subseteq DOMAIN Utxos
  BY DEF OutputsOwned, OutputsOf
<1> QED
  BY <1>2, <1>3, <1>4

\* listunspent lists the outputs of the address asked for, or all of them.
LEMMA WalletLists ==
  ASSUME SoundChain(entries, bestHash), Height <= MostConfirmations, NEW own, NEW i \in DOMAIN own
  PROVE  /\ listUnspent(own, 0, MostConfirmations, {own[i]}) = AllShown(OutputsOf(own[i]))
         /\ listUnspent(own, 0, MostConfirmations, {}) = AllShown(OutputsOwned(own))
<1> DEFINE all == AllShown(OutputsOwned(own))
           most == MostConfirmations
<1>1. \A o \in DOMAIN Utxos : Confirmations(Shown(o)) \in 0..most
  <2>1. Height \in Nat /\ Height <= most /\ most \in Nat
        /\ \A o \in DOMAIN Utxos : Utxos[o].birthHeight \in 1..Height
    <3>1. MostConfirmations \in Nat
      BY SMT DEF MostConfirmations
    <3> QED
      BY <3>1, OutputsFit
  <2> HIDE DEF most
  <2> TAKE o \in DOMAIN Utxos
  <2>2. Shown(o).birthHeight = Utxos[o].birthHeight
    BY DEF Shown
  <2>3. Confirmations(Shown(o)) = Height - Utxos[o].birthHeight + 1
    BY <2>2 DEF Confirmations
  <2> QED
    BY <2>1, <2>3
<1>2. fetchWalletUtxos(own) = all /\ OutputsOwned(own) \subseteq DOMAIN Utxos
  BY WalletFetches
<1>3. \A u \in all : Confirmations(u) \in 0..most
  <2> HIDE DEF most
  <2> QED
    BY <1>1, <1>2 DEF AllShown
<1>4. listUnspent(own, 0, MostConfirmations, {})
        = {u \in all : ({} # {} => u.address \in {} \cap Range(own)) /\ Confirmations(u) \in 0..most}
  BY <1>2 DEF listUnspent
<1>5. listUnspent(own, 0, MostConfirmations, {own[i]})
        = {u \in all : ({own[i]} # {} => u.address \in {own[i]} \cap Range(own))
                       /\ Confirmations(u) \in 0..most}
  BY <1>2 DEF listUnspent
<1>6. {u \in all : ({} # {} => u.address \in {} \cap Range(own)) /\ Confirmations(u) \in 0..most} = all
  <2> HIDE DEF all, most
  <2> QED
    BY <1>3
<1>7. {u \in all : u.address = own[i]} = AllShown(OutputsOf(own[i]))
  <2>1. \A o : Shown(o).address = Utxos[o].address
    BY DEF Shown
  <2>2. ASSUME NEW u, u \in all, u.address = own[i] PROVE u \in AllShown(OutputsOf(own[i]))
    <3>1. PICK o \in OutputsOwned(own) : u = Shown(o)
      BY <2>2 DEF AllShown
    <3>2. o \in DOMAIN Utxos /\ Utxos[o].address = own[i]
      BY <1>2, <2>1, <2>2, <3>1
    <3> QED
      BY <3>1, <3>2 DEF AllShown, OutputsOf
  <2>3. ASSUME NEW u, u \in AllShown(OutputsOf(own[i])) PROVE u \in all /\ u.address = own[i]
    <3>1. PICK o \in OutputsOf(own[i]) : u = Shown(o)
      BY <2>3 DEF AllShown
    <3>2. o \in OutputsOwned(own) /\ Utxos[o].address = own[i]
      BY <3>1 DEF OutputsOwned, OutputsOf
    <3> QED
      BY <2>1, <3>1, <3>2 DEF AllShown
  <2> HIDE DEF all
  <2> QED
    BY <2>2, <2>3
<1>8. {u \in all : ({own[i]} # {} => u.address \in {own[i]} \cap Range(own))
                   /\ Confirmations(u) \in 0..most} = {u \in all : u.address = own[i]}
  <2>1. own[i] \in Range(own)
    BY DEF Range
  <2> HIDE DEF all, most
  <2> QED
    BY <1>3, <2>1
<1> QED
  BY <1>4, <1>5, <1>6, <1>7, <1>8

\* scantxoutset adds up the same outputs.
LEMMA NodeScans ==
  ASSUME NEW own, own \in Seq(Addresses)
  PROVE  scanTxOutSet(Range(own)).total_amount = SumAmounts(AllShown(OutputsOwned(own)))
<1>1. Range(own) \cap Addresses = {own[i] : i \in DOMAIN own}
  BY DEF Range
<1>2. UNION {utxosOf(address) : address \in {own[i] : i \in DOMAIN own}} = fetchWalletUtxos(own)
  BY DEF fetchWalletUtxos
<1>3. UNION {utxosOf(address) : address \in Range(own) \cap Addresses} = AllShown(OutputsOwned(own))
  BY <1>1, <1>2, WalletFetches
<1> QED
  BY <1>3 DEF scanTxOutSet

\* An output is spendable or immature, and never both.
LEMMA SpendableOrImmature ==
  ASSUME SoundChain(entries, bestHash), NEW own
  PROVE  LET all == SumAmounts(AllShown(OutputsOwned(own)))
         IN  /\ getBalanceDetail(own).chain = all
             /\ fetchWalletBalance(own).available + getBalances(own).immature = all
<1> DEFINE owned == OutputsOwned(own)
           all   == AllShown(owned)
           ripe  == {o \in owned : IsMature(Utxos[o], Height)}
           green == owned \ ripe
<1>1. fetchWalletUtxos(own) = all /\ owned \subseteq DOMAIN Utxos
  BY WalletFetches
<1>2. /\ getBalanceDetail(own).chain = SumAmounts(all)
      /\ fetchWalletBalance(own).available = SumAmounts({u \in all : u.spendable})
      /\ getBalances(own).immature = SumAmounts({u \in all : IsImmature(u)})
  <2> HIDE DEF all
  <2> QED
    BY <1>1 DEF getBalanceDetail, fetchWalletBalance, getBalances
<1>3. ASSUME NEW o \in owned
      PROVE  /\ Shown(o).spendable <=> o \in ripe
             /\ IsImmature(Shown(o)) <=> o \in green
  <2>1. /\ Shown(o).spendable = IsMature(Utxos[o], Height)
        /\ Shown(o).isCoinbase = Utxos[o].isCoinbase /\ Shown(o).birthHeight = Utxos[o].birthHeight
    BY DEF Shown
  <2>2. Height \in Nat /\ Utxos[o].birthHeight \in Nat /\ COINBASE_MATURITY \in Nat
    BY <1>1, OutputsFit, LedgerAssumption
  <2>3. ~IsMature(Utxos[o], Height) =>
          Utxos[o].isCoinbase /\ Height < Utxos[o].birthHeight + COINBASE_MATURITY
    BY <2>2 DEF IsMature
  <2> QED
    BY <2>1, <2>3 DEF IsImmature
<1>4. {u \in all : u.spendable} = AllShown(ripe) /\ {u \in all : IsImmature(u)} = AllShown(green)
  <2> HIDE DEF ripe, green, owned
  <2> QED
    BY <1>3 DEF AllShown, ripe, green
<1>5. /\ SumAmounts(all) = SumFunctionOnSet(Amounts, owned)
      /\ SumAmounts(AllShown(ripe)) = SumFunctionOnSet(Amounts, ripe)
      /\ SumAmounts(AllShown(green)) = SumFunctionOnSet(Amounts, green)
  <2>1. ripe \subseteq DOMAIN Utxos /\ green \subseteq DOMAIN Utxos
    BY <1>1
  <2> HIDE DEF ripe, green, owned
  <2> QED
    BY <1>1, <2>1, ShownAddUp
<1>6. SumFunctionOnSet(Amounts, owned)
        = SumFunctionOnSet(Amounts, ripe) + SumFunctionOnSet(Amounts, green)
  <2>1. ripe \cup green = owned /\ ripe \cap green = {} /\ owned \subseteq DOMAIN Utxos
    BY <1>1
  <2>2. /\ IsFiniteSet(DOMAIN Utxos)
        /\ \A o \in DOMAIN Utxos : Utxos[o].amount \in Nat
    BY OutputsFit
  <2>3. \A o \in DOMAIN Utxos : Amounts[o] \in Int
    BY <2>2 DEF Amounts
  <2> HIDE DEF ripe, green, owned
  <2>4. IsFiniteSet(ripe) /\ IsFiniteSet(green)
    BY <2>1, <2>2, FS_Subset
  <2>5. \A o \in ripe \cup green : Amounts[o] \in Int
    BY <2>1, <2>3
  <2>6. SumFunctionOnSet(Amounts, ripe \cup green)
          = SumFunctionOnSet(Amounts, ripe) + SumFunctionOnSet(Amounts, green)
    BY <2>1, <2>4, <2>5, SumOfUnion
  <2> QED
    BY <2>1, <2>6
<1> HIDE DEF all, ripe, green, owned
<1> QED
  BY <1>2, <1>4, <1>5, <1>6 DEF all, owned

\* What the addresses of a wallet hold together: no output belongs to two.
LEMMA AddressesAddUp ==
  ASSUME SoundChain(entries, bestHash), CleanBranch,
         NEW own \in Wallets, FitsOneAnswer(own)
  PROVE  /\ \A i \in DOMAIN own :
              SumAmounts(AllShown(OutputsOf(own[i]))) = Explained(history(own[i], MostItems))
         /\ SumAmounts(AllShown(OutputsOwned(own)))
              = SumFunction([i \in DOMAIN own |-> Explained(history(own[i], MostItems))])
<1> DEFINE I == DOMAIN own
           A == [i \in I |-> OutputsOf(own[i])]
           g == [i \in I |-> Explained(history(own[i], MostItems))]
<1>1. own \in Seq(Addresses) /\ IsInjective(own) /\ IsFiniteSet(I)
  <2>1. own \in Seq(Addresses) /\ IsInjective(own)
    BY WalletsAssumption
  <2>2. DOMAIN own = 1..Len(own) /\ Len(own) \in Nat
    BY <2>1
  <2> QED
    BY <2>1, <2>2, FS_Interval
<1>2. ASSUME NEW i \in I
      PROVE  /\ IsFiniteSet(A[i]) /\ g[i] = SumFunctionOnSet(Amounts, A[i])
             /\ \A o \in A[i] : Amounts[o] \in Int
             /\ SumAmounts(AllShown(OutputsOf(own[i]))) = Explained(history(own[i], MostItems))
             /\ A[i] \subseteq DOMAIN Utxos
  <2> DEFINE a == own[i]
  <2>1. Len(history(a, MostItems)) < MostItems
    BY DEF FitsOneAnswer
  <2>2. g[i] = Explained(history(a, MostItems)) /\ A[i] = OutputsOf(a)
    OBVIOUS
  <2> HIDE DEF a, g, A
  <2>3. Explained(history(a, MostItems)) = Held(Utxos, a)
    BY <2>1, HistoryShowsHeld DEF Utxos
  <2>4. SumFunctionOnSet(Amounts, OutputsOf(a)) = Held(Utxos, a)
    BY OutputsAreHeld
  <2>5. OutputsOf(a) \subseteq DOMAIN Utxos
    BY DEF OutputsOf
  <2>6. SumAmounts(AllShown(OutputsOf(a))) = SumFunctionOnSet(Amounts, OutputsOf(a))
    BY <2>5, ShownAddUp
  <2>7. /\ IsFiniteSet(DOMAIN Utxos)
        /\ \A o \in DOMAIN Utxos : Utxos[o].amount \in Nat
    BY OutputsFit
  <2>8. IsFiniteSet(OutputsOf(a)) /\ \A o \in OutputsOf(a) : Amounts[o] \in Int
    BY <2>5, <2>7, FS_Subset DEF Amounts
  <2> QED
    BY <2>2, <2>3, <2>4, <2>5, <2>6, <2>8 DEF a
<1>3. ASSUME NEW i \in I, NEW j \in I, i # j PROVE A[i] \cap A[j] = {}
  <2>1. own[i] # own[j]
    BY <1>1, <1>3 DEF IsInjective
  <2> QED
    BY <2>1 DEF OutputsOf
<1>4. OutputsOwned(own) = UNION {A[i] : i \in I}
  BY DEF OutputsOwned
<1>5. \A i \in DOMAIN own :
        SumAmounts(AllShown(OutputsOf(own[i]))) = Explained(history(own[i], MostItems))
  BY <1>2
<1>6. SumFunction(g) = SumFunctionOnSet(g, I)
  <2>1. DOMAIN g = I
    OBVIOUS
  <2> HIDE DEF g, I
  <2> QED
    BY <2>1 DEF SumFunction
<1> HIDE DEF I, A, g
<1>7. SumFunctionOnSet(Amounts, UNION {A[i] : i \in I}) = SumFunctionOnSet(g, I)
  <2>1. \A i \in I : /\ IsFiniteSet(A[i]) /\ g[i] = SumFunctionOnSet(Amounts, A[i])
                     /\ \A o \in A[i] : Amounts[o] \in Int
    BY <1>2
  <2>2. \A i, j \in I : i # j => A[i] \cap A[j] = {}
    BY <1>3
  <2> QED
    BY <1>1, <2>1, <2>2, SumOfFamily
<1>8. SumAmounts(AllShown(OutputsOwned(own))) = SumFunctionOnSet(Amounts, OutputsOwned(own))
  BY WalletFetches, ShownAddUp
<1> QED
  BY <1>4, <1>5, <1>6, <1>7, <1>8 DEF g, I

\* The accounts of every wallet agree on the best branch of a sound chain.
LEMMA BalanceIsExplained ==
  ASSUME SoundChain(entries, bestHash)
  PROVE  HistoryExplainsBalance
<1>1. SUFFICES ASSUME CleanBranch,
                      NEW own \in {own \in Wallets : FitsOneAnswer(own)}
               PROVE  LET chain == getBalanceDetail(own).chain
                      IN  /\ \A i \in DOMAIN own :
                               SumAmounts(listUnspent(own, 0, MostConfirmations, {own[i]}))
                                 = Explained(history(own[i], MostItems))
                          /\ chain = SumAmounts(listUnspent(own, 0, MostConfirmations, {}))
                          /\ chain = scanTxOutSet(Range(own)).total_amount
                          /\ chain = fetchWalletBalance(own).available + getBalances(own).immature
                          /\ chain = SumFunction([i \in DOMAIN own |->
                                                    Explained(history(own[i], MostItems))])
  BY DEF HistoryExplainsBalance, CleanBranch
<1> DEFINE chain == getBalanceDetail(own).chain
           all   == SumAmounts(AllShown(OutputsOwned(own)))
<1>2. own \in Wallets /\ FitsOneAnswer(own) /\ Height <= MostConfirmations
  BY DEF FitsOneAnswer
<1>3. own \in Seq(Addresses) /\ own # <<>>
  BY <1>2, WalletsAssumption
<1>4. 1 \in DOMAIN own
  <2>1. Len(own) \in Nat /\ DOMAIN own = 1..Len(own)
    BY <1>3
  <2>2. Len(own) # 0
    BY <1>3
  <2> QED
    BY <2>1, <2>2
<1>5. chain = all /\ fetchWalletBalance(own).available + getBalances(own).immature = all
  BY SpendableOrImmature
<1>6. scanTxOutSet(Range(own)).total_amount = all
  BY <1>3, NodeScans
<1>7. /\ \A i \in DOMAIN own :
           SumAmounts(AllShown(OutputsOf(own[i]))) = Explained(history(own[i], MostItems))
      /\ all = SumFunction([i \in DOMAIN own |-> Explained(history(own[i], MostItems))])
  BY <1>1, <1>2, AddressesAddUp
<1>8. \A i \in DOMAIN own :
        /\ listUnspent(own, 0, MostConfirmations, {own[i]}) = AllShown(OutputsOf(own[i]))
        /\ listUnspent(own, 0, MostConfirmations, {}) = AllShown(OutputsOwned(own))
  BY <1>2, WalletLists
<1>9. listUnspent(own, 0, MostConfirmations, {}) = AllShown(OutputsOwned(own))
  BY <1>4, <1>8
<1>10. \A i \in DOMAIN own : SumAmounts(listUnspent(own, 0, MostConfirmations, {own[i]}))
                               = Explained(history(own[i], MostItems))
  BY <1>7, <1>8
<1>11. SumAmounts(listUnspent(own, 0, MostConfirmations, {})) = all
  BY <1>9
<1> HIDE DEF chain, all
<1> QED
  BY <1>5, <1>6, <1>7, <1>10, <1>11 DEF chain

\* Safety of the wallet's accounts: in every reachable state the balance, its
\* parts, listunspent and scantxoutset come to what the histories of its
\* addresses explain.
THEOREM ChainHistoryExplainsBalance == Spec => []HistoryExplainsBalance
<1>1. Invariant => HistoryExplainsBalance
  BY BalanceIsExplained DEF Invariant
<1> QED
  BY <1>1, ChainInvariant, PTL

-----------------------------------------------------------------------------
(* 13. Pages *)

\* The k-th item of the list of the i-th address, as a page holds it.
Entry(P, i, k) == [from |-> <<i, k>>, item |-> P[i][k]]

\* The first m of every list.
PageOf(P, i, m) == {Entry(P, i, k) : k \in {k \in DOMAIN P[i] : k <= m}}
Cut(P, m) == UNION {PageOf(P, i, m) : i \in DOMAIN P}

IsList(s) == \E n \in Nat : DOMAIN s = 1..n

\* Lists of items, newest first, without a transaction twice in one of them; a
\* transaction on two of them has one time.
AreHistories(P) ==
  /\ IsList(P)
  /\ \A i \in DOMAIN P :
       /\ IsList(P[i])
       /\ \A k \in DOMAIN P[i] : P[i][k].time \in Int
       /\ \A k, l \in DOMAIN P[i] :
            k < l => P[i][k].time >= P[i][l].time /\ P[i][k].txid # P[i][l].txid
  /\ \A i, j \in DOMAIN P : \A k \in DOMAIN P[i], l \in DOMAIN P[j] :
       P[i][k].txid = P[j][l].txid => P[i][k].time = P[j][l].time

\* What was fetched is a short place on one of the lists.
LEMMA CutHoldsEntries ==
  ASSUME NEW P, NEW m, NEW x
  PROVE  x \in Cut(P, m) <=>
           \E i \in DOMAIN P : \E k \in DOMAIN P[i] : k <= m /\ x = Entry(P, i, k)
BY DEF Cut, PageOf

\* The places of a list have no gaps.
LEMMA ListPositions ==
  ASSUME NEW s, IsList(s)
  PROVE  \A k \in DOMAIN s : k \in Nat /\ k >= 1 /\ \A j \in 1..k : j \in DOMAIN s
<1>1. PICK n \in Nat : DOMAIN s = 1..n
  BY DEF IsList
<1> QED
  BY <1>1

\* Nor have the lists and the places of histories.
LEMMA HistoryPositions ==
  ASSUME NEW P, AreHistories(P)
  PROVE  /\ DOMAIN P \subseteq Nat
         /\ \A i \in DOMAIN P : /\ DOMAIN P[i] \subseteq Nat
                               /\ \A k \in DOMAIN P[i] : /\ P[i][k].time \in Int
                                                         /\ \A j \in 1..k : j \in DOMAIN P[i]
BY ListPositions DEF AreHistories

\* The orders of fetching and sorting, by list and position.
LEMMA EntriesCompare ==
  ASSUME NEW P, NEW i, NEW k, NEW j, NEW l
  PROVE  /\ Entry(P, i, k).item = P[i][k]
         /\ ComesBefore(Entry(P, i, k), Entry(P, j, l)) <=> (i < j \/ (i = j /\ k < l))
         /\ SortsBefore(Entry(P, i, k), Entry(P, j, l)) <=>
              \/ P[i][k].time > P[j][l].time
              \/ P[i][k].time = P[j][l].time /\ (i < j \/ (i = j /\ k < l))
BY DEF Entry, ComesBefore, SortsBefore

\* Sorting is a strict order, and what is on one list is sorted already.
LEMMA SortingOrders ==
  ASSUME NEW P, AreHistories(P), NEW m, NEW x \in Cut(P, m), NEW y \in Cut(P, m), NEW z \in Cut(P, m)
  PROVE  /\ SortsBefore(x, y) /\ SortsBefore(y, z) => SortsBefore(x, z)
         /\ ~SortsBefore(x, x)
<1>1. PICK i, k : i \in DOMAIN P /\ k \in DOMAIN P[i] /\ x = Entry(P, i, k)
  BY CutHoldsEntries
<1>2. PICK j, l : j \in DOMAIN P /\ l \in DOMAIN P[j] /\ y = Entry(P, j, l)
  BY CutHoldsEntries
<1>3. PICK g, h : g \in DOMAIN P /\ h \in DOMAIN P[g] /\ z = Entry(P, g, h)
  BY CutHoldsEntries
<1>4. /\ i \in Nat /\ j \in Nat /\ g \in Nat /\ k \in Nat /\ l \in Nat /\ h \in Nat
      /\ P[i][k].time \in Int /\ P[j][l].time \in Int /\ P[g][h].time \in Int
  BY <1>1, <1>2, <1>3, HistoryPositions
<1> DEFINE t == P[i][k].time
           u == P[j][l].time
           v == P[g][h].time
<1>5. /\ SortsBefore(x, y) <=> t > u \/ (t = u /\ (i < j \/ (i = j /\ k < l)))
      /\ SortsBefore(y, z) <=> u > v \/ (u = v /\ (j < g \/ (j = g /\ l < h)))
      /\ SortsBefore(x, z) <=> t > v \/ (t = v /\ (i < g \/ (i = g /\ k < h)))
      /\ SortsBefore(x, x) <=> t > t \/ (t = t /\ (i < i \/ (i = i /\ k < k)))
  BY <1>1, <1>2, <1>3, EntriesCompare
<1>6. t \in Int /\ u \in Int /\ v \in Int
  BY <1>4
<1> HIDE DEF t, u, v
<1> QED
  BY <1>4, <1>5, <1>6

\* Finitely many items are fetched.
LEMMA CutIsFinite ==
  ASSUME NEW P, AreHistories(P), NEW m
  PROVE  IsFiniteSet(Cut(P, m))
<1> DEFINE A == [i \in DOMAIN P |-> PageOf(P, i, m)]
<1>1. ASSUME NEW i \in DOMAIN P PROVE IsFiniteSet(PageOf(P, i, m))
  <2> DEFINE S == {k \in DOMAIN P[i] : k <= m}
             f == [k \in S |-> Entry(P, i, k)]
  <2>1. IsFiniteSet(S)
    <3>1. PICK n \in Nat : DOMAIN P[i] = 1..n
      BY DEF AreHistories, IsList
    <3>2. IsFiniteSet(1..n)
      BY FS_Interval
    <3>3. S \in SUBSET (1..n)
      BY <3>1
    <3> QED
      BY <3>2, <3>3, FS_Subset
  <2> HIDE DEF S
  <2>2. {f[k] : k \in S} = {Entry(P, i, k) : k \in S}
    OBVIOUS
  <2>3. IsFiniteSet({f[k] : k \in S})
    BY <2>1, FiniteImage
  <2> QED
    BY <2>2, <2>3 DEF PageOf, S
<1>2. IsFiniteSet(DOMAIN P)
  BY FS_Interval DEF AreHistories, IsList
<1>3. \A i \in DOMAIN P : IsFiniteSet(A[i])
  BY <1>1
<1>4. UNION {A[i] : i \in DOMAIN P} = Cut(P, m)
  BY DEF Cut
<1> HIDE DEF A
<1>5. IsFiniteSet(UNION {A[i] : i \in DOMAIN P})
  BY <1>2, <1>3, FamilyIsFinite
<1> QED
  BY <1>4, <1>5

\* Of every transaction that was fetched, the first item is kept.
LEMMA FirstIsKept ==
  ASSUME NEW P, AreHistories(P), NEW m, NEW x \in Cut(P, m)
  PROVE  \E y \in NotSeen(Cut(P, m)) :
           /\ y.item.txid = x.item.txid
           /\ y = x \/ ComesBefore(y, x)
<1>1. PICK i, k : i \in DOMAIN P /\ k \in DOMAIN P[i] /\ k <= m /\ x = Entry(P, i, k)
  BY CutHoldsEntries
<1> DEFINE Holds(j) == \E l \in DOMAIN P[j] : l <= m /\ P[j][l].txid = x.item.txid
           S == {j \in DOMAIN P : Holds(j)}
<1>2. x.item = P[i][k]
  BY <1>1, EntriesCompare
<1>3. i \in S
  BY <1>1, <1>2
<1>4. DOMAIN P \subseteq Nat /\ \A j \in DOMAIN P : DOMAIN P[j] \subseteq Nat
  BY HistoryPositions
<1>5. PICK j \in S : \A g \in S : j <= g
  <2>1. S \in SUBSET Nat /\ S # {}
    BY <1>3, <1>4
  <2> HIDE DEF S
  <2> QED
    BY <2>1, LeastNatural
<1>6. PICK l \in DOMAIN P[j] : l <= m /\ P[j][l].txid = x.item.txid
  BY <1>5
<1> DEFINE y == Entry(P, j, l)
<1>7. y \in Cut(P, m) /\ y.item = P[j][l]
  BY <1>5, <1>6, CutHoldsEntries, EntriesCompare
<1>8. ASSUME NEW z \in Cut(P, m), ComesBefore(z, y) PROVE z.item.txid # y.item.txid
  <2>1. PICK g, h : g \in DOMAIN P /\ h \in DOMAIN P[g] /\ h <= m /\ z = Entry(P, g, h)
    BY CutHoldsEntries
  <2>2. z.item = P[g][h] /\ (g < j \/ (g = j /\ h < l))
    BY <1>8, <2>1, EntriesCompare
  <2>3. CASE g < j
    <3>1. g \notin S
      BY <1>4, <1>5, <2>1, <2>3
    <3> QED
      BY <1>6, <1>7, <2>1, <2>2, <3>1
  <2>4. CASE g = j /\ h < l
    <3>1. P[j][h].txid # P[j][l].txid
      BY <2>1, <2>4, <1>5, <1>6 DEF AreHistories
    <3> QED
      BY <1>7, <2>2, <2>4, <3>1
  <2> QED
    BY <2>2, <2>3, <2>4
<1>9. y \in NotSeen(Cut(P, m))
  BY <1>7, <1>8 DEF NotSeen
<1>10. y = x \/ ComesBefore(y, x)
  <2>1. ComesBefore(y, x) <=> (j < i \/ (j = i /\ l < k))
    BY <1>1, EntriesCompare
  <2>2. j <= i /\ j \in Nat /\ i \in Nat /\ k \in Nat /\ l \in Nat
    BY <1>1, <1>3, <1>4, <1>5, <1>6
  <2>3. j = i => ~(k < l)
    <3>1. SUFFICES ASSUME j = i, k < l PROVE FALSE
      OBVIOUS
    <3>2. P[i][k].txid # P[i][l].txid
      BY <1>1, <1>6, <3>1 DEF AreHistories
    <3> QED
      BY <1>2, <1>6, <3>1, <3>2
  <2>4. j = i /\ l = k => y = x
    BY <1>1
  <2> HIDE DEF S
  <2> QED
    BY <2>1, <2>2, <2>3, <2>4
<1> QED
  BY <1>6, <1>7, <1>9, <1>10

\* What is below the first m of its list comes behind m others.
LEMMA DeepItemsRankLow ==
  ASSUME NEW P, AreHistories(P), NEW m \in Nat, NEW M, m <= M, M \in Nat,
         NEW i \in DOMAIN P, NEW k \in DOMAIN P[i], k > m,
         NEW j \in DOMAIN P, NEW l \in DOMAIN P[j],
         Entry(P, i, k) = Entry(P, j, l) \/ SortsBefore(Entry(P, i, k), Entry(P, j, l))
  PROVE  Rank(NotSeen(Cut(P, M)), Entry(P, j, l)) >= m
<1> DEFINE all == NotSeen(Cut(P, M))
           w == Entry(P, i, k)
           y == Entry(P, j, l)
           A == {z \in all : SortsBefore(z, y)}
           Kept(h, z) == /\ z \in all
                         /\ z.item.txid = P[i][h].txid
                         /\ z = Entry(P, i, h) \/ ComesBefore(z, Entry(P, i, h))
           f == [h \in 1..m |-> CHOOSE z : Kept(h, z)]
<1>1. /\ i \in Nat /\ k \in Nat /\ j \in Nat /\ l \in Nat
      /\ \A h \in 1..k : h \in DOMAIN P[i]
      /\ P[i][k].time \in Int /\ P[j][l].time \in Int
  BY HistoryPositions
<1>2. \A h \in 1..m : h \in Nat /\ h \in DOMAIN P[i] /\ h < k /\ h <= M
  BY <1>1
<1>3. ASSUME NEW h \in 1..m PROVE Kept(h, f[h])
  <2>1. Entry(P, i, h) \in Cut(P, M)
    BY <1>2, CutHoldsEntries
  <2>2. Entry(P, i, h).item = P[i][h]
    BY EntriesCompare
  <2>3. \E z : Kept(h, z)
    BY <2>1, <2>2, FirstIsKept
  <2> HIDE DEF Kept
  <2> QED
    BY <2>3
<1>4. ASSUME NEW h \in 1..m, NEW z, Kept(h, z) PROVE z \in A
  <2>1. z \in Cut(P, M)
    BY <1>4 DEF NotSeen
  <2>2. PICK g, n : g \in DOMAIN P /\ n \in DOMAIN P[g] /\ z = Entry(P, g, n)
    BY <2>1, CutHoldsEntries
  <2>3. g \in Nat /\ n \in Nat /\ P[g][n].time \in Int
    BY <2>2, HistoryPositions
  <2>4. P[g][n].time = P[i][h].time
    <3>1. P[g][n].txid = P[i][h].txid
      BY <1>4, <2>2, EntriesCompare
    <3> QED
      BY <1>2, <2>2, <3>1 DEF AreHistories
  <2>5. P[i][h].time >= P[i][k].time /\ P[i][h].time \in Int
    BY <1>2, HistoryPositions DEF AreHistories
  <2>6. g < i \/ (g = i /\ n <= h)
    <3>1. CASE z = Entry(P, i, h)
      <4>1. z.from = <<g, n>> /\ z.from = <<i, h>>
        BY <2>2, <3>1 DEF Entry
      <4> QED
        BY <1>2, <2>3, <4>1
    <3>2. CASE ComesBefore(z, Entry(P, i, h))
      BY <1>2, <2>2, <2>3, <3>2, EntriesCompare
    <3> QED
      BY <1>4, <3>1, <3>2
  <2>7. SortsBefore(z, w)
    <3>1. SortsBefore(z, w) <=> \/ P[g][n].time > P[i][k].time
                                \/ P[g][n].time = P[i][k].time /\ (g < i \/ (g = i /\ n < k))
      BY <2>2, EntriesCompare
    <3> DEFINE t == P[g][n].time
               u == P[i][k].time
    <3>2. t >= u /\ t \in Int /\ u \in Int
      BY <1>1, <2>3, <2>4, <2>5
    <3> HIDE DEF t, u
    <3>3. t > u \/ t = u
      BY <3>2
    <3>4. g < i \/ (g = i /\ n < k)
      BY <1>1, <1>2, <2>3, <2>6
    <3> QED
      BY <3>1, <3>3, <3>4 DEF t, u
  <2>8. SortsBefore(z, y)
    <3>1. CASE w = y
      BY <2>7, <3>1
    <3>2. CASE SortsBefore(w, y)
      <4>1. PICK N \in Nat : M <= N /\ k <= N /\ l <= N /\ n <= N
        <5> DEFINE N == ((M + k) + l) + n
        <5>1. N \in Nat /\ M <= N /\ k <= N /\ l <= N /\ n <= N
          BY <1>1, <2>3
        <5> QED
          BY <5>1
      <4>2. w \in Cut(P, N) /\ y \in Cut(P, N) /\ z \in Cut(P, N)
        BY <2>2, <4>1, CutHoldsEntries
      <4> HIDE DEF w, y
      <4> QED
        BY <2>7, <3>2, <4>2, SortingOrders
    <3> QED
      BY <3>1, <3>2
  <2> QED
    BY <1>4, <2>8
<1>5. f \in Injection(1..m, A)
  <2>1. f \in [1..m -> A]
    BY <1>3, <1>4
  <2>2. ASSUME NEW g \in 1..m, NEW h \in 1..m, f[g] = f[h] PROVE g = h
    <3>1. P[i][g].txid = P[i][h].txid
      <4>1. Kept(g, f[g]) /\ Kept(h, f[h])
        BY <1>3
      <4> HIDE DEF f
      <4> QED
        BY <2>2, <4>1
    <3>2. ~(g < h) /\ ~(h < g)
      BY <1>2, <3>1 DEF AreHistories
    <3> QED
      BY <1>2, <3>2
  <2> HIDE DEF f, A
  <2> QED
    BY <2>1, <2>2 DEF Injection, IsInjective
<1>6. IsFiniteSet(A)
  <2>1. A \in SUBSET Cut(P, M)
    BY DEF NotSeen
  <2> QED
    BY <2>1, CutIsFinite, FS_Subset
<1>7. Cardinality(1..m) <= Cardinality(A) /\ Cardinality(1..m) = m
  <2> HIDE DEF f, A
  <2>1. Cardinality(1..m) <= Cardinality(A)
    BY <1>5, <1>6, FS_Injection
  <2>2. Cardinality(1..m) = m
    <3>1. Cardinality(1..m) = IF 1 > m THEN 0 ELSE m - 1 + 1
      BY FS_Interval
    <3> QED
      BY <3>1
  <2> QED
    BY <2>1, <2>2
<1>8. Cardinality(A) \in Nat
  BY <1>6, FS_CardinalityType
<1>9. Rank(all, y) = Cardinality(A)
  BY DEF Rank
<1> HIDE DEF A, y, all
<1>10. Rank(all, y) >= m
  BY <1>7, <1>8, <1>9
<1> QED
  BY <1>10 DEF all, y

\* What sorts before something has a lower rank.
LEMMA RanksAscend ==
  ASSUME NEW P, AreHistories(P), NEW M \in Nat,
         NEW x \in NotSeen(Cut(P, M)), NEW z \in NotSeen(Cut(P, M))
  PROVE  /\ Rank(NotSeen(Cut(P, M)), x) \in Nat /\ Rank(NotSeen(Cut(P, M)), z) \in Nat
         /\ SortsBefore(z, x) => Rank(NotSeen(Cut(P, M)), z) < Rank(NotSeen(Cut(P, M)), x)
<1> DEFINE all == NotSeen(Cut(P, M))
           A == {y \in all : SortsBefore(y, x)}
           B == {y \in all : SortsBefore(y, z)}
<1>1. all \subseteq Cut(P, M)
  BY DEF NotSeen
<1>2. IsFiniteSet(A) /\ IsFiniteSet(B)
  <2>1. A \in SUBSET Cut(P, M) /\ B \in SUBSET Cut(P, M)
    BY <1>1
  <2> HIDE DEF A, B
  <2> QED
    BY <2>1, CutIsFinite, FS_Subset
<1>3. Rank(all, x) = Cardinality(A) /\ Rank(all, z) = Cardinality(B)
  BY DEF Rank
<1>4. Cardinality(A) \in Nat /\ Cardinality(B) \in Nat
  <2> HIDE DEF A, B
  <2> QED
    BY <1>2, FS_CardinalityType
<1>5. ASSUME SortsBefore(z, x) PROVE B \in SUBSET A /\ z \in A /\ z \notin B
  <2>1. x \in Cut(P, M) /\ z \in Cut(P, M)
    BY <1>1
  <2>2. ASSUME NEW y \in all, SortsBefore(y, z) PROVE SortsBefore(y, x)
    <3>1. y \in Cut(P, M)
      BY <1>1
    <3> QED
      BY <1>5, <2>1, <2>2, <3>1, SortingOrders
  <2>3. ~SortsBefore(z, z)
    BY <2>1, SortingOrders
  <2> QED
    BY <1>5, <2>2, <2>3
<1>6. SortsBefore(z, x) => Cardinality(B) < Cardinality(A)
  <2> SUFFICES ASSUME SortsBefore(z, x) PROVE Cardinality(B) < Cardinality(A)
    OBVIOUS
  <2> HIDE DEF A, B
  <2>1. Cardinality(B) <= Cardinality(A) /\ (Cardinality(A) = Cardinality(B) => A = B)
    BY <1>2, <1>5, FS_Subset
  <2> QED
    BY <1>4, <1>5, <2>1
<1> QED
  BY <1>3, <1>4, <1>6 DEF all

\* What the shorter pages hold of the longer ones is kept from both.
LEMMA KeptFromShorter ==
  ASSUME NEW P, NEW m \in Nat, NEW M \in Nat, m <= M, AreHistories(P)
  PROVE  /\ Cut(P, m) \subseteq Cut(P, M)
         /\ NotSeen(Cut(P, M)) \cap Cut(P, m) \subseteq NotSeen(Cut(P, m))
         /\ \A x \in Cut(P, M) \ Cut(P, m) :
              \E i, k : i \in DOMAIN P /\ k \in DOMAIN P[i] /\ k > m /\ x = Entry(P, i, k)
<1>1. Cut(P, m) \subseteq Cut(P, M)
  <2> SUFFICES ASSUME NEW x \in Cut(P, m) PROVE x \in Cut(P, M)
    OBVIOUS
  <2>1. PICK i, k : i \in DOMAIN P /\ k \in DOMAIN P[i] /\ k <= m /\ x = Entry(P, i, k)
    BY CutHoldsEntries
  <2>2. k <= M
    BY <2>1, HistoryPositions
  <2> QED
    BY <2>1, <2>2, CutHoldsEntries
<1>2. ASSUME NEW x \in Cut(P, M) \ Cut(P, m)
      PROVE  \E i, k : i \in DOMAIN P /\ k \in DOMAIN P[i] /\ k > m /\ x = Entry(P, i, k)
  <2>1. PICK i, k : i \in DOMAIN P /\ k \in DOMAIN P[i] /\ k <= M /\ x = Entry(P, i, k)
    BY CutHoldsEntries
  <2>2. ~(k <= m)
    BY <2>1, CutHoldsEntries
  <2>3. k > m
    BY <2>1, <2>2, HistoryPositions
  <2> QED
    BY <2>1, <2>3
<1> QED
  BY <1>1, <1>2 DEF NotSeen

\* The first m of the merge of pages of m items are those of the merge of
\* longer pages.
LEMMA MergesAgree ==
  ASSUME NEW P, AreHistories(P), NEW m \in Nat, NEW M \in Nat, m <= M, NEW x
  PROVE  LET all  == NotSeen(Cut(P, M))
             some == NotSeen(Cut(P, m))
         IN  /\ x \in all /\ Rank(all, x) < m <=> x \in some /\ Rank(some, x) < m
             /\ x \in all /\ Rank(all, x) < m => Rank(all, x) = Rank(some, x)
<1> DEFINE all  == NotSeen(Cut(P, M))
           some == NotSeen(Cut(P, m))
<1>1. /\ Cut(P, m) \subseteq Cut(P, M) /\ all \cap Cut(P, m) \subseteq some
      /\ all \subseteq Cut(P, M) /\ some \subseteq Cut(P, m)
      /\ \A y \in Cut(P, M) \ Cut(P, m) :
           \E i, k : i \in DOMAIN P /\ k \in DOMAIN P[i] /\ k > m /\ y = Entry(P, i, k)
  BY KeptFromShorter DEF NotSeen
<1>2. ASSUME NEW N \in {m, M}, NEW y \in NotSeen(Cut(P, N)), NEW w \in Cut(P, M) \ Cut(P, m),
             w = y \/ SortsBefore(w, y)
      PROVE  ~(Rank(NotSeen(Cut(P, N)), y) < m)
  <2>1. PICK i, k : i \in DOMAIN P /\ k \in DOMAIN P[i] /\ k > m /\ w = Entry(P, i, k)
    BY <1>1
  <2>2. y \in Cut(P, N)
    BY DEF NotSeen
  <2>3. PICK j, l : j \in DOMAIN P /\ l \in DOMAIN P[j] /\ y = Entry(P, j, l)
    BY <2>2, CutHoldsEntries
  <2>4. m <= N /\ N \in Nat
    OBVIOUS
  <2>5. Rank(NotSeen(Cut(P, N)), y) >= m
    BY <1>2, <2>1, <2>3, <2>4, DeepItemsRankLow
  <2>6. Rank(NotSeen(Cut(P, N)), y) \in Nat
    BY <2>4, RanksAscend
  <2> QED
    BY <2>5, <2>6
<1>3. ASSUME NEW y \in all, Rank(all, y) < m PROVE y \in some
  <2>1. y \in Cut(P, m)
    BY <1>1, <1>2, <1>3
  <2> QED
    BY <1>1, <2>1
<1>4. ASSUME NEW y \in some
      PROVE  \E w \in all : /\ w.item.txid = y.item.txid
                            /\ w.item.time = y.item.time
                            /\ w # y => ComesBefore(w, y) /\ w \notin Cut(P, m)
  <2>1. y \in Cut(P, M)
    BY <1>1
  <2>2. PICK w \in all : w.item.txid = y.item.txid /\ (w = y \/ ComesBefore(w, y))
    BY <2>1, FirstIsKept
  <2>3. ComesBefore(w, y) => w \notin Cut(P, m)
    BY <2>2 DEF NotSeen
  <2>4. PICK i, k : i \in DOMAIN P /\ k \in DOMAIN P[i] /\ w = Entry(P, i, k)
    BY <1>1, CutHoldsEntries
  <2>5. PICK j, l : j \in DOMAIN P /\ l \in DOMAIN P[j] /\ y = Entry(P, j, l)
    BY <2>1, CutHoldsEntries
  <2>6. w.item = P[i][k] /\ y.item = P[j][l]
    BY <2>4, <2>5, EntriesCompare
  <2>7. w.item.time = y.item.time
    BY <2>2, <2>4, <2>5, <2>6 DEF AreHistories
  <2> QED
    BY <2>2, <2>3, <2>7
<1>5. ASSUME NEW y \in some, Rank(some, y) < m PROVE y \in all
  <2>1. PICK w \in all : /\ w.item.txid = y.item.txid
                         /\ w.item.time = y.item.time
                         /\ w # y => ComesBefore(w, y) /\ w \notin Cut(P, m)
    BY <1>4
  <2>2. w # y => SortsBefore(w, y)
    BY <2>1 DEF SortsBefore
  <2>3. w # y => ~(Rank(some, y) < m)
    BY <1>1, <1>2, <2>1, <2>2
  <2> QED
    BY <1>5, <2>1, <2>3
<1>6. ASSUME NEW y \in all, y \in some, Rank(all, y) < m PROVE Rank(all, y) = Rank(some, y)
  <2>1. ASSUME NEW z \in all, SortsBefore(z, y) PROVE z \in some
    <3>1. Rank(all, z) < Rank(all, y) /\ Rank(all, z) \in Nat /\ Rank(all, y) \in Nat
      BY <2>1, RanksAscend
    <3>2. Rank(all, z) < m
      BY <1>6, <3>1
    <3> QED
      BY <1>3, <3>2
  <2>2. ASSUME NEW z \in some, SortsBefore(z, y) PROVE z \in all
    <3>1. PICK w \in all : /\ w.item.txid = z.item.txid
                           /\ w.item.time = z.item.time
                           /\ w # z => ComesBefore(w, z) /\ w \notin Cut(P, m)
      BY <1>4
    <3>2. ASSUME w # z PROVE FALSE
      <4>1. SortsBefore(w, z)
        BY <3>1, <3>2 DEF SortsBefore
      <4>2. w \in Cut(P, M) /\ z \in Cut(P, M) /\ y \in Cut(P, M)
        BY <1>1
      <4>3. SortsBefore(w, y)
        BY <2>2, <4>1, <4>2, SortingOrders
      <4>4. w \in some
        BY <2>1, <4>3
      <4> QED
        BY <1>1, <3>1, <3>2, <4>4
    <3> QED
      BY <3>1, <3>2
  <2>3. {z \in all : SortsBefore(z, y)} = {z \in some : SortsBefore(z, y)}
    BY <2>1, <2>2
  <2> QED
    BY <2>3 DEF Rank
<1>7. ASSUME NEW y \in some, y \in all, Rank(some, y) < m PROVE Rank(all, y) = Rank(some, y)
  <2>1. ASSUME NEW z \in some, SortsBefore(z, y) PROVE z \in all
    <3>1. Rank(some, z) < Rank(some, y) /\ Rank(some, z) \in Nat /\ Rank(some, y) \in Nat
      BY <2>1, RanksAscend
    <3>2. Rank(some, z) < m
      BY <1>7, <3>1
    <3> QED
      BY <1>5, <3>2
  <2>2. ASSUME NEW z \in all, SortsBefore(z, y) PROVE z \in some
    <3>1. z \in Cut(P, m)
      BY <1>1, <1>2, <1>7, <2>2
    <3> QED
      BY <1>1, <3>1
  <2>3. {z \in all : SortsBefore(z, y)} = {z \in some : SortsBefore(z, y)}
    BY <2>1, <2>2
  <2> QED
    BY <2>3 DEF Rank
<1> HIDE DEF all, some
<1>8. x \in all /\ Rank(all, x) < m => x \in some /\ Rank(some, x) < m
  BY <1>3, <1>6
<1>9. x \in some /\ Rank(some, x) < m => x \in all /\ Rank(all, x) < m
  BY <1>5, <1>7
<1> QED
  BY <1>3, <1>6, <1>8, <1>9 DEF all, some

\* How much of a list a window shows.
Shows(n, c, s) == IF n <= s THEN 0 ELSE IF c < n - s THEN c ELSE n - s

OnPage(items, c, s) == [k \in 1..Shows(Len(items), c, s) |-> items[s + k]]

\* A window, place by place.
LEMMA WindowShows ==
  ASSUME NEW items, \E S : items \in Seq(S), NEW c \in Nat, NEW s \in Nat
  PROVE  Window(items, c, s) = OnPage(items, c, s)
<1>0. PICK S : items \in Seq(S)
  OBVIOUS
<1> DEFINE n == Len(items)
           rest == SubSeq(items, s + 1, n)
           r == IF n <= s THEN 0 ELSE n - s
           q == IF c < r THEN c ELSE r
<1>1. n \in Nat /\ DOMAIN items = 1..n /\ n = Len(items)
  BY <1>0
<1> HIDE DEF n
<1>2. /\ r \in Nat /\ q \in Nat /\ q <= r /\ q = Shows(n, c, s)
      /\ s + 1 > n => r = 0
      /\ s + 1 <= n => n - (s + 1) + 1 = r
  <2>1. Shows(n, c, s) = q
    BY <1>1 DEF Shows
  <2>2. /\ r \in Nat
        /\ s + 1 > n => r = 0
        /\ s + 1 <= n => n - (s + 1) + 1 = r
    <3>1. CASE n <= s
      <4>1. r = 0 /\ ~(s + 1 <= n)
        BY <1>1, <3>1
      <4> HIDE DEF r
      <4> QED
        BY <4>1
    <3>2. CASE ~(n <= s)
      <4>1. r = n - s /\ s + 1 <= n /\ ~(s + 1 > n) /\ n - s \in Nat /\ n - (s + 1) + 1 = n - s
        BY <1>1, <3>2
      <4> HIDE DEF r
      <4> QED
        BY <4>1
    <3> QED
      BY <3>1, <3>2
  <2> HIDE DEF r
  <2>3. q \in Nat /\ q <= r
    BY <2>2
  <2> QED
    BY <2>1, <2>2, <2>3
<1>3. rest \in Seq(S) /\ Len(rest) = r /\ \A k \in 1..r : rest[k] = items[s + k]
  <2>2. CASE s + 1 > n
    <3>1. r = 0
      BY <1>2, <2>2
    <3>2. rest = <<>>
      BY <1>0, <1>1, <2>2
    <3> HIDE DEF rest
    <3>3. Len(rest) = 0
      BY <3>2
    <3>4. rest \in Seq(S)
      BY <3>2
    <3>5. \A k \in 1..0 : FALSE
      OBVIOUS
    <3> HIDE DEF r, rest
    <3> QED
      BY <3>1, <3>3, <3>4, <3>5
  <2>3. CASE s + 1 <= n
    <3>1. rest \in Seq(S) /\ Len(rest) = n - (s + 1) + 1
      BY <1>0, <1>1, <2>3
    <3>2. n - (s + 1) + 1 = r
      BY <1>2, <2>3
    <3>3. ASSUME NEW k \in 1..r PROVE rest[k] = items[s + k]
      <4>1. k \in 1..(n - (s + 1) + 1) /\ k + (s + 1) - 1 = s + k
        <5>1. k \in 1..(n - (s + 1) + 1)
          BY <3>2
        <5> HIDE DEF r
        <5> QED
          BY <5>1
      <4>2. rest[k] = items[(s + 1) + k - 1]
        BY <1>0, <1>1, <2>3, <4>1
      <4>3. (s + 1) + k - 1 = s + k
        BY <1>2
      <4> QED
        BY <4>2, <4>3
    <3> QED
      BY <3>1, <3>2, <3>3
  <2> QED
    BY <1>1, <2>2, <2>3
<1> HIDE DEF rest, r
<1>4. Window(items, c, s) = SubSeq(rest, 1, q)
  BY <1>1, <1>3 DEF Window, FirstOf, rest
<1>5. SubSeq(rest, 1, q) = [k \in 1..q |-> rest[k]]
  BY <1>2, <1>3
<1>6. [k \in 1..q |-> rest[k]] = [k \in 1..q |-> items[s + k]]
  <2>1. \A k \in 1..q : k \in 1..r
    BY <1>2
  <2> HIDE DEF q
  <2> QED
    BY <1>3, <2>1
<1> QED
  BY <1>1, <1>2, <1>4, <1>5, <1>6 DEF OnPage

\* The list that is merged from what was fetched.
MergeOf(all) == [k \in 1..Cardinality(all) |-> (CHOOSE x \in all : Rank(all, x) = k - 1).item]

\* A merge has as many places as items, and no rank is higher.
LEMMA MergeIsList ==
  ASSUME NEW P, AreHistories(P), NEW M \in Nat
  PROVE  LET all == NotSeen(Cut(P, M))
         IN  /\ Cardinality(all) \in Nat
             /\ \E S : MergeOf(all) \in Seq(S)
             /\ Len(MergeOf(all)) = Cardinality(all)
             /\ \A x : Rank(all, x) \in Nat /\ Rank(all, x) <= Cardinality(all)
<1> DEFINE all == NotSeen(Cut(P, M))
           n == Cardinality(all)
           S == {MergeOf(all)[k] : k \in 1..n}
<1>1. IsFiniteSet(all)
  <2>1. all \in SUBSET Cut(P, M)
    BY DEF NotSeen
  <2> HIDE DEF all
  <2> QED
    BY <2>1, CutIsFinite, FS_Subset
<1>2. n \in Nat
  BY <1>1, FS_CardinalityType
<1> HIDE DEF all
<1>3. MergeOf(all) = [k \in 1..n |-> MergeOf(all)[k]] /\ DOMAIN MergeOf(all) = 1..n
  BY DEF MergeOf
<1> HIDE DEF n
<1>4. MergeOf(all) \in [1..n -> S]
  BY <1>3
<1> HIDE DEF S
<1>5. MergeOf(all) \in Seq(S) /\ Len(MergeOf(all)) = n
  BY <1>2, <1>3, <1>4
<1>6. ASSUME NEW x PROVE Rank(all, x) \in Nat /\ Rank(all, x) <= n
  <2> DEFINE A == {y \in all : SortsBefore(y, x)}
  <2>1. A \in SUBSET all /\ Rank(all, x) = Cardinality(A)
    BY DEF Rank
  <2> HIDE DEF A
  <2>2. IsFiniteSet(A) /\ Cardinality(A) <= n
    BY <1>1, <2>1, FS_Subset DEF n
  <2> QED
    BY <2>1, <2>2, FS_CardinalityType
<1> QED
  BY <1>2, <1>5, <1>6 DEF all, n

\* A window is the same in the merge of longer pages, as long as the shorter
\* ones reach to its end.
LEMMA WindowsAgree ==
  ASSUME NEW P, AreHistories(P), NEW m \in Nat, NEW M \in Nat, m <= M,
         NEW c \in Nat, NEW s \in Nat, s + c <= m
  PROVE  Window(MergeOf(NotSeen(Cut(P, m))), c, s) = Window(MergeOf(NotSeen(Cut(P, M))), c, s)
<1> DEFINE all  == NotSeen(Cut(P, M))
           some == NotSeen(Cut(P, m))
           n == Cardinality(all)
           o == Cardinality(some)
<1>1. CASE Cut(P, M) \subseteq Cut(P, m)
  <2>1. Cut(P, M) = Cut(P, m)
    BY <1>1, KeptFromShorter
  <2> QED
    BY <2>1
<1>2. CASE ~(Cut(P, M) \subseteq Cut(P, m))
  <2>1. PICK i, k : i \in DOMAIN P /\ k \in DOMAIN P[i] /\ k > m
    BY <1>2, KeptFromShorter
  <2>2. m <= m /\ Rank(all, Entry(P, i, k)) >= m /\ Rank(some, Entry(P, i, k)) >= m
    BY <2>1, DeepItemsRankLow
  <2>3. /\ n \in Nat /\ Len(MergeOf(all)) = n
        /\ \A x : Rank(all, x) \in Nat /\ Rank(all, x) <= n
        /\ o \in Nat /\ Len(MergeOf(some)) = o
        /\ \A x : Rank(some, x) \in Nat /\ Rank(some, x) <= o
    BY MergeIsList, Zenon
  <2>4. n >= m /\ o >= m
    BY <2>2, <2>3
  <2>5. PICK S : MergeOf(all) \in Seq(S)
    BY MergeIsList
  <2>6. PICK T : MergeOf(some) \in Seq(T)
    BY MergeIsList
  <2>7. ASSUME NEW k1 \in 1..m PROVE MergeOf(all)[k1] = MergeOf(some)[k1]
    <3> DEFINE A == {x \in all : Rank(all, x) = k1 - 1}
               B == {x \in some : Rank(some, x) = k1 - 1}
    <3>1. k1 - 1 < m /\ k1 \in 1..n /\ k1 \in 1..o
      BY <2>3, <2>4
    <3>2. ASSUME NEW x PROVE x \in A <=> x \in B
      <4>1. /\ x \in all /\ Rank(all, x) < m <=> x \in some /\ Rank(some, x) < m
            /\ x \in all /\ Rank(all, x) < m => Rank(all, x) = Rank(some, x)
        BY MergesAgree
      <4> HIDE DEF all, some
      <4> QED
        BY <3>1, <4>1
    <3>3. A = B
      BY <3>2
    <3>4. MergeOf(all)[k1] = (CHOOSE x : x \in A).item
      BY <3>1, Zenon DEF MergeOf
    <3>5. MergeOf(some)[k1] = (CHOOSE x : x \in B).item
      BY <3>1, Zenon DEF MergeOf
    <3> QED
      BY <3>3, <3>4, <3>5
  <2>8. Shows(n, c, s) = c /\ Shows(o, c, s) = c
    <3> HIDE DEF n, o
    <3> QED
      BY <2>3, <2>4 DEF Shows
  <2>9. /\ Window(MergeOf(all), c, s) = [j \in 1..c |-> MergeOf(all)[s + j]]
        /\ Window(MergeOf(some), c, s) = [j \in 1..c |-> MergeOf(some)[s + j]]
    <3> HIDE DEF n, o, all, some
    <3>1. Window(MergeOf(all), c, s) = OnPage(MergeOf(all), c, s)
      BY <2>5, WindowShows
    <3>2. Window(MergeOf(some), c, s) = OnPage(MergeOf(some), c, s)
      BY <2>6, WindowShows
    <3> QED
      BY <2>3, <2>8, <3>1, <3>2 DEF OnPage
  <2>10. \A j \in 1..c : s + j \in 1..m
    OBVIOUS
  <2> HIDE DEF all, some
  <2>11. [j \in 1..c |-> MergeOf(all)[s + j]] = [j \in 1..c |-> MergeOf(some)[s + j]]
    BY <2>7, <2>10
  <2> QED
    BY <2>9, <2>11 DEF all, some
<1> QED
  BY <1>1, <1>2

IsSequence(s) == \E S : s \in Seq(S)

\* A sequence has the places up to its length.
LEMMA SequencePositions ==
  ASSUME NEW s, IsSequence(s)
  PROVE  Len(s) \in Nat /\ DOMAIN s = 1..Len(s)
BY DEF IsSequence

\* One sequence behind another.
LEMMA JoinedPositions ==
  ASSUME NEW s, NEW t, IsSequence(s), IsSequence(t)
  PROVE  /\ IsSequence(s \o t)
         /\ Len(s \o t) = Len(s) + Len(t)
         /\ \A k \in 1..Len(s) : (s \o t)[k] = s[k]
         /\ \A k \in 1..(Len(s) + Len(t)) : ~(k <= Len(s)) =>
              k - Len(s) \in 1..Len(t) /\ (s \o t)[k] = t[k - Len(s)]
<1>1. PICK S : s \in Seq(S)
  BY DEF IsSequence
<1>2. PICK T : t \in Seq(T)
  BY DEF IsSequence
<1>3. s \in Seq(S \cup T) /\ t \in Seq(S \cup T)
  BY <1>1, <1>2
<1>4. s \o t \in Seq(S \cup T) /\ Len(s \o t) = Len(s) + Len(t)
  BY <1>3
<1>5. \A k \in 1..Len(s) : (s \o t)[k] = s[k]
  BY <1>3
<1>6. ASSUME NEW k \in 1..(Len(s) + Len(t)), ~(k <= Len(s))
      PROVE  k - Len(s) \in 1..Len(t) /\ (s \o t)[k] = t[k - Len(s)]
  BY <1>3, <1>6
<1> QED
  BY <1>4, <1>5, <1>6 DEF IsSequence

\* Where the elements of a flattened list come from: list and place, in order.
Precedes(p, q) == p.list < q.list \/ (p.list = q.list /\ p.place < q.place)

ArePlaces(g, lists, at) ==
  /\ \A k \in DOMAIN g : /\ at[k].list \in DOMAIN lists
                         /\ at[k].place \in DOMAIN lists[at[k].list]
                         /\ g[k] = lists[at[k].list][at[k].place]
  /\ \A k, l \in DOMAIN g : k < l => Precedes(at[k], at[l])

\* The same for the first lists only.
ArePlacesUpTo(n, g, lists, at) ==
  ArePlaces(g, lists, at) /\ \A k \in DOMAIN g : at[k].list <= n

\* The first list alone.
LEMMA PlacesOfFirst ==
  ASSUME NEW lists, 1 \in DOMAIN lists, IsSequence(lists[1])
  PROVE  \E at : ArePlacesUpTo(1, lists[1], lists, at)
<1> DEFINE at == [k \in DOMAIN lists[1] |-> [list |-> 1, place |-> k]]
<1>1. \A k \in DOMAIN lists[1] : at[k].list = 1 /\ at[k].place = k
  OBVIOUS
<1> HIDE DEF at
<1>2. ArePlacesUpTo(1, lists[1], lists, at)
  BY <1>1 DEF ArePlacesUpTo, ArePlaces, Precedes
<1> QED
  BY <1>2

\* One list more.
LEMMA PlacesOfNext ==
  ASSUME NEW n \in Nat, NEW lists, n + 1 \in DOMAIN lists, IsSequence(lists[n + 1]),
         DOMAIN lists \subseteq Nat, \A i \in DOMAIN lists : DOMAIN lists[i] \subseteq Nat,
         NEW g, IsSequence(g), NEW at, ArePlacesUpTo(n, g, lists, at)
  PROVE  \E to : ArePlacesUpTo(n + 1, g \o lists[n + 1], lists, to)
<1> DEFINE m == Len(g)
           t == lists[n + 1]
           h == g \o t
           to == [k \in 1..(m + Len(t)) |-> IF k <= m THEN at[k] ELSE [list |-> n + 1, place |-> k - m]]
<1>1. /\ m \in Nat /\ DOMAIN g = 1..m /\ Len(t) \in Nat /\ DOMAIN t = 1..Len(t)
      /\ DOMAIN h = 1..(m + Len(t))
      /\ \A k \in 1..m : h[k] = g[k]
      /\ \A k \in 1..(m + Len(t)) : ~(k <= m) => k - m \in 1..Len(t) /\ h[k] = t[k - m]
  <2>1. Len(h) = m + Len(t) /\ IsSequence(h)
    BY JoinedPositions
  <2> QED
    BY <2>1, JoinedPositions, SequencePositions
<1>2. /\ \A k \in 1..(m + Len(t)) : k <= m => k \in 1..m /\ to[k] = at[k]
      /\ \A k \in 1..(m + Len(t)) : ~(k <= m) => to[k].list = n + 1 /\ to[k].place = k - m
  BY <1>1
<1> HIDE DEF m, h, to
<1>3. ASSUME NEW k \in DOMAIN h
      PROVE  /\ to[k].list \in DOMAIN lists
             /\ to[k].place \in DOMAIN lists[to[k].list]
             /\ h[k] = lists[to[k].list][to[k].place]
             /\ to[k].list <= n + 1
  <2>1. CASE k <= m
    <3>1. k \in DOMAIN g /\ to[k] = at[k] /\ h[k] = g[k]
      BY <1>1, <1>2, <2>1
    <3>2. /\ at[k].list \in DOMAIN lists /\ at[k].list <= n /\ at[k].list \in Nat
          /\ at[k].place \in DOMAIN lists[at[k].list]
          /\ g[k] = lists[at[k].list][at[k].place]
      BY <3>1 DEF ArePlacesUpTo, ArePlaces
    <3> QED
      BY <3>1, <3>2
  <2>2. CASE ~(k <= m)
    <3>1. to[k].list = n + 1 /\ to[k].place = k - m /\ k - m \in 1..Len(t) /\ h[k] = t[k - m]
      BY <1>1, <1>2, <2>2
    <3> QED
      BY <1>1, <3>1
  <2> QED
    BY <2>1, <2>2
<1>4. ASSUME NEW k \in DOMAIN h, NEW l \in DOMAIN h, k < l PROVE Precedes(to[k], to[l])
  <2>1. CASE l <= m
    <3>1. k \in DOMAIN g /\ l \in DOMAIN g /\ to[k] = at[k] /\ to[l] = at[l]
      BY <1>1, <1>2, <1>4, <2>1
    <3> QED
      BY <1>4, <3>1 DEF ArePlacesUpTo, ArePlaces
  <2>2. CASE k <= m /\ ~(l <= m)
    <3>1. k \in DOMAIN g /\ to[k] = at[k] /\ to[l].list = n + 1
      BY <1>1, <1>2, <2>2
    <3>2. at[k].list <= n /\ at[k].list \in Nat
      BY <3>1 DEF ArePlacesUpTo, ArePlaces
    <3> QED
      BY <3>1, <3>2 DEF Precedes
  <2>3. CASE ~(k <= m) /\ ~(l <= m)
    <3>1. to[k].list = n + 1 /\ to[k].place = k - m /\ to[l].list = n + 1 /\ to[l].place = l - m
      BY <1>1, <1>2, <2>3
    <3>2. k - m < l - m
      BY <1>1, <1>4
    <3> QED
      BY <3>1, <3>2 DEF Precedes
  <2> QED
    BY <1>1, <1>4, <2>1, <2>2, <2>3
<1>5. ArePlacesUpTo(n + 1, h, lists, to)
  BY <1>3, <1>4 DEF ArePlacesUpTo, ArePlaces
<1> QED
  BY <1>5 DEF h

\* Every element of a flattened list has its place, in order.
LEMMA FlattenPlaces ==
  ASSUME NEW lists, IsSequence(lists), \A i \in DOMAIN lists : IsSequence(lists[i])
  PROVE  /\ IsSequence(FlattenSeq(lists))
         /\ \E at : ArePlaces(FlattenSeq(lists), lists, at)
<1> DEFINE n == Len(lists)
           g == CHOOSE g : Flattens(g, lists)
<1>1. n \in Nat /\ DOMAIN lists = 1..n
  BY SequencePositions
<1>2. CASE n = 0
  <2>1. FlattenSeq(lists) = lists /\ DOMAIN lists = {}
    BY <1>1, <1>2 DEF FlattenSeq
  <2> QED
    BY <2>1 DEF ArePlaces
<1>3. CASE n # 0
  <2>1. FlattenSeq(lists) = g[n]
    BY <1>3, Zenon DEF FlattenSeq, Flattens
  <2>2. Flattens(g, lists)
    BY <1>1, FlattenExists
  <2> HIDE DEF g
  <2>3. \A i \in 1..n : g[i] = IF i = 1 THEN lists[i] ELSE g[i - 1] \o lists[i]
    BY <2>2 DEF Flattens
  <2> DEFINE Good(k) == IsSequence(g[k]) /\ \E at : ArePlacesUpTo(k, g[k], lists, at)
             Q == {k \in Nat : k + 1 \in 1..n => Good(k + 1)}
  <2>4. DOMAIN lists \subseteq Nat /\ \A i \in DOMAIN lists : DOMAIN lists[i] \subseteq Nat
    BY <1>1, SequencePositions
  <2> HIDE DEF n
  <2>5. 0 \in Q
    <3> SUFFICES ASSUME 1 \in 1..n PROVE Good(1)
      BY DEF Q
    <3>1. g[1] = lists[1] /\ 1 \in DOMAIN lists /\ IsSequence(lists[1])
      BY <1>1, <2>3
    <3> QED
      BY <3>1, PlacesOfFirst
  <2>6. ASSUME NEW k \in Nat, k \in Q PROVE k + 1 \in Q
    <3> SUFFICES ASSUME (k + 1) + 1 \in 1..n PROVE Good((k + 1) + 1)
      BY DEF Q
    <3> DEFINE i == k + 1
    <3>1. i \in Nat /\ i \in 1..n /\ i + 1 \in 1..n /\ i + 1 # 1 /\ (i + 1) - 1 = i
      BY <1>1
    <3>2. Good(i)
      BY <2>6, <3>1
    <3> HIDE DEF i
    <3>3. g[i + 1] = g[i] \o lists[i + 1] /\ IsSequence(lists[i + 1]) /\ i + 1 \in DOMAIN lists
      BY <1>1, <2>3, <3>1
    <3>4. IsSequence(g[i + 1])
      BY <3>2, <3>3, JoinedPositions
    <3>5. PICK at : ArePlacesUpTo(i, g[i], lists, at)
      BY <3>2
    <3>6. \E to : ArePlacesUpTo(i + 1, g[i] \o lists[i + 1], lists, to)
      BY <2>4, <3>1, <3>2, <3>3, <3>5, PlacesOfNext
    <3> QED
      BY <3>3, <3>4, <3>6 DEF i
  <2> HIDE DEF Q, Good
  <2>7. \A k \in Nat : k \in Q
    BY <2>5, <2>6, NaturalInduction
  <2>8. Good(n)
    <3>1. n - 1 \in Nat /\ (n - 1) + 1 = n /\ n \in 1..n
      BY <1>1, <1>3
    <3> QED
      BY <2>7, <3>1 DEF Q
  <2> QED
    BY <2>1, <2>8 DEF Good, ArePlacesUpTo
<1> QED
  BY <1>2, <1>3

\* An item of an address: the subsidy of a block, or the q-th transfer of it.
IsItemOf(item, block, q, a) ==
  IF q = 0
  THEN block.coinbase.outputs[1].address = a /\ item = coinbaseItem(block)
  ELSE /\ q \in DOMAIN block.transactions
       /\ Involves(block.transactions[q], a)
       /\ item = transactionItem(block, block.transactions[q], a)

\* The items of a block come in the order of its transactions.
AreItemsOf(items, block, a, source) ==
  /\ \A k \in DOMAIN items : source[k] \in Nat /\ IsItemOf(items[k], block, source[k], a)
  /\ \A k, l \in DOMAIN items : k < l => source[k] < source[l]

\* The items of a block are of its subsidy and of its transactions, in order.
LEMMA ItemsOfBlock ==
  ASSUME NEW block, IsWellFormed(block), NEW a
  PROVE  /\ IsSequence(ItemsOf(block, a))
         /\ \E source : AreItemsOf(ItemsOf(block, a), block, a, source)
<1> DEFINE txs   == block.transactions
           item(i) == transactionItem(block, txs[i], a)
           itemsFor(i) == IF Involves(txs[i], a) THEN <<item(i)>> ELSE <<>>
           lists == [i \in DOMAIN txs |-> itemsFor(i)]
           first == IF block.coinbase.outputs[1].address = a THEN <<coinbaseItem(block)>> ELSE <<>>
           rest  == FlattenSeq(lists)
           all   == first \o rest
<1>1. DOMAIN txs = 1..Len(txs) /\ Len(txs) \in Nat
  BY PositionsAreFinite DEF IsWellFormed
<1>2. /\ DOMAIN lists = DOMAIN txs
      /\ \A i \in DOMAIN txs : lists[i] = itemsFor(i)
  OBVIOUS
<1>3. \A i \in DOMAIN txs : /\ IsSequence(itemsFor(i))
                            /\ \A p \in DOMAIN itemsFor(i) :
                                 p = 1 /\ Involves(txs[i], a) /\ itemsFor(i)[p] = item(i)
  <2> SUFFICES ASSUME NEW i \in DOMAIN txs
               PROVE  /\ IsSequence(itemsFor(i))
                      /\ \A p \in DOMAIN itemsFor(i) :
                           p = 1 /\ Involves(txs[i], a) /\ itemsFor(i)[p] = item(i)
    OBVIOUS
  <2> DEFINE x == item(i)
  <2>1. itemsFor(i) = IF Involves(txs[i], a) THEN <<x>> ELSE <<>>
    OBVIOUS
  <2> HIDE DEF x, item, itemsFor
  <2>2. <<x>> \in Seq({x}) /\ <<>> \in Seq({x})
    OBVIOUS
  <2>3. IsSequence(<<x>>) /\ IsSequence(<<>>)
    BY <2>2 DEF IsSequence
  <2>4. DOMAIN <<x>> = {1} /\ <<x>>[1] = x /\ DOMAIN <<>> = {}
    OBVIOUS
  <2>5. CASE Involves(txs[i], a)
    <3>1. itemsFor(i) = <<x>>
      BY <2>1, <2>5
    <3> QED
      BY <2>3, <2>4, <2>5, <3>1 DEF x
  <2>6. CASE ~Involves(txs[i], a)
    <3>1. itemsFor(i) = <<>>
      BY <2>1, <2>6
    <3> QED
      BY <2>3, <2>4, <3>1
  <2> QED
    BY <2>5, <2>6
<1>4. IsSequence(lists)
  <2> DEFINE T == {itemsFor(i) : i \in DOMAIN txs}
  <2> HIDE DEF itemsFor
  <2>1. lists \in [1..Len(txs) -> T]
    BY <1>1
  <2> HIDE DEF lists, T
  <2>2. lists \in Seq(T)
    BY <1>1, <2>1
  <2> QED
    BY <2>2 DEF IsSequence
<1> HIDE DEF lists, itemsFor, item
<1>5. IsSequence(rest) /\ \E at : ArePlaces(rest, lists, at)
  <2>1. \A i \in DOMAIN lists : IsSequence(lists[i])
    BY <1>2, <1>3
  <2> QED
    BY <1>4, <2>1, FlattenPlaces
<1>6. PICK at : ArePlaces(rest, lists, at)
  BY <1>5
<1>7. IsSequence(first) /\ Len(first) \in {0, 1}
      /\ (Len(first) = 1 => block.coinbase.outputs[1].address = a /\ first[1] = coinbaseItem(block))
  <2> DEFINE x == coinbaseItem(block)
  <2> HIDE DEF x
  <2>1. <<x>> \in Seq({x}) /\ <<>> \in Seq({x})
    OBVIOUS
  <2>2. IsSequence(<<x>>) /\ IsSequence(<<>>)
    BY <2>1 DEF IsSequence
  <2>3. Len(<<x>>) = 1 /\ Len(<<>>) = 0 /\ <<x>>[1] = x
    OBVIOUS
  <2>4. CASE block.coinbase.outputs[1].address = a
    <3>1. first = <<x>>
      BY <2>4 DEF x
    <3> HIDE DEF first
    <3> QED
      BY <2>2, <2>3, <2>4, <3>1 DEF x
  <2>5. CASE block.coinbase.outputs[1].address # a
    <3>1. first = <<>>
      BY <2>5
    <3> HIDE DEF first
    <3> QED
      BY <2>2, <2>3, <3>1
  <2> QED
    BY <2>4, <2>5
<1> HIDE DEF first, rest
<1> DEFINE f == Len(first)
           r == Len(rest)
           source == [k \in 1..(f + r) |-> IF k <= f THEN 0 ELSE at[k - f].list]
<1>8. /\ f \in {0, 1} /\ r \in Nat /\ DOMAIN rest = 1..r /\ DOMAIN first = 1..f
      /\ IsSequence(all) /\ DOMAIN all = 1..(f + r)
      /\ \A k \in 1..f : all[k] = first[k]
      /\ \A k \in 1..(f + r) : ~(k <= f) => k - f \in 1..r /\ all[k] = rest[k - f]
  <2>1. /\ IsSequence(all) /\ Len(all) = f + r
        /\ \A k \in 1..f : all[k] = first[k]
        /\ \A k \in 1..(f + r) : ~(k <= f) => k - f \in 1..r /\ all[k] = rest[k - f]
    BY <1>5, <1>7, JoinedPositions
  <2> QED
    BY <1>5, <1>7, <2>1, SequencePositions
<1> HIDE DEF all
<1>9. /\ \A k \in 1..(f + r) : k <= f => source[k] = 0 /\ k \in 1..f /\ f = 1 /\ k = 1
      /\ \A k \in 1..(f + r) : ~(k <= f) => source[k] = at[k - f].list
  BY <1>8
<1> HIDE DEF source, f, r
<1>10. ASSUME NEW j \in 1..r
       PROVE  /\ at[j].list \in DOMAIN txs /\ at[j].list \in Nat /\ at[j].list # 0
              /\ at[j].place = 1
              /\ Involves(txs[at[j].list], a) /\ rest[j] = item(at[j].list)
  <2>1. /\ at[j].list \in DOMAIN lists
        /\ at[j].place \in DOMAIN lists[at[j].list]
        /\ rest[j] = lists[at[j].list][at[j].place]
    BY <1>6, <1>8 DEF ArePlaces
  <2>2. at[j].list \in DOMAIN txs /\ at[j].list \in Nat /\ at[j].list # 0
    BY <1>1, <1>2, <2>1
  <2> QED
    BY <1>2, <1>3, <2>1, <2>2
<1>11. ASSUME NEW k \in DOMAIN all
       PROVE  source[k] \in Nat /\ IsItemOf(all[k], block, source[k], a)
  <2>1. CASE k <= f
    <3>1. source[k] = 0 /\ k = 1 /\ f = 1 /\ all[k] = first[k]
      BY <1>8, <1>9, <2>1
    <3> QED
      BY <1>7, <3>1 DEF IsItemOf, f
  <2>2. CASE ~(k <= f)
    <3>1. source[k] = at[k - f].list /\ k - f \in 1..r /\ all[k] = rest[k - f]
      BY <1>8, <1>9, <2>2
    <3> DEFINE q == at[k - f].list
    <3>2. /\ q \in DOMAIN txs /\ q \in Nat /\ q # 0
          /\ Involves(txs[q], a) /\ rest[k - f] = item(q)
      BY <1>10, <3>1
    <3>3. source[k] = q
      BY <3>1
    <3> HIDE DEF q
    <3> QED
      BY <3>1, <3>2, <3>3 DEF IsItemOf, item
  <2> QED
    BY <2>1, <2>2
<1>12. ASSUME NEW k \in DOMAIN all, NEW l \in DOMAIN all, k < l PROVE source[k] < source[l]
  <2>1. ~(l <= f) /\ l - f \in 1..r /\ source[l] = at[l - f].list
    <3>1. l # 1 /\ k \in Nat /\ k >= 1 /\ l \in Nat
      BY <1>8, <1>12
    <3> QED
      BY <1>8, <1>9, <3>1
  <2>2. source[l] \in Nat /\ source[l] # 0
    BY <1>10, <2>1
  <2>3. CASE k <= f
    BY <1>8, <1>9, <2>2, <2>3
  <2>4. CASE ~(k <= f)
    <3>1. k - f \in 1..r /\ source[k] = at[k - f].list /\ k - f < l - f
      <4>1. k \in Int /\ l \in Int /\ f \in Int
        BY <1>8
      <4>2. k - f < l - f
        BY <1>12, <4>1
      <4>3. k \in 1..(f + r)
        BY <1>8
      <4> QED
        BY <1>8, <1>9, <2>4, <4>2, <4>3
    <3> DEFINE i == k - f
               j == l - f
    <3>2. i \in 1..r /\ j \in 1..r /\ i < j /\ source[k] = at[i].list /\ source[l] = at[j].list
      BY <2>1, <3>1
    <3> HIDE DEF i, j
    <3>3. Precedes(at[i], at[j])
      BY <1>6, <1>8, <3>2 DEF ArePlaces
    <3>4. at[i].place = 1 /\ at[j].place = 1
      BY <1>10, <3>2
    <3> QED
      BY <3>2, <3>3, <3>4 DEF Precedes
  <2> QED
    BY <2>3, <2>4
<1>13. AreItemsOf(all, block, a, source)
  BY <1>11, <1>12 DEF AreItemsOf
<1>14. ItemsOf(block, a) = all
  BY DEF ItemsOf, all, first, rest, lists, itemsFor, item
<1> QED
  BY <1>8, <1>13, <1>14

\* The blocks above genesis from the tip down, and all items of an address.
Newest == Reverse(Tail(BestPath))
ListsOf(a) == [i \in DOMAIN Newest |-> ItemsOf(Newest[i], a)]
AllItems(a) == FlattenSeq(ListsOf(a))

\* There is a list for every block above genesis, newest first.
LEMMA ListsOfBranch ==
  ASSUME SoundChain(entries, bestHash), NEW a, NEW n, n = Len(BestPath) - 1
  PROVE  /\ n \in Nat /\ DOMAIN ListsOf(a) = 1..n
         /\ \A i \in 1..n : ListsOf(a)[i] = ItemsBelow(i, a)
         /\ IsSequence(ListsOf(a))
<1> DEFINE newest == Newest
           lists  == [i \in DOMAIN newest |-> ItemsOf(newest[i], a)]
<1>1. BestPath \in Seq(Stored) /\ Len(BestPath) \in Nat \ {0}
  BY BranchBlocks
<1>2. n \in Nat /\ Len(BestPath) = n + 1
  BY <1>1
<1>3. DOMAIN newest = 1..n /\ \A i \in 1..n : newest[i] = BestPath[n + 2 - i]
  <2> HIDE DEF BestPath
  <2> DEFINE rest == Tail(BestPath)
  <2>1. rest \in Seq(Stored) /\ Len(rest) = n /\ \A i \in 1..n : rest[i] = BestPath[i + 1]
    BY <1>1, <1>2
  <2>2. newest = [i \in 1..Len(rest) |-> rest[(Len(rest) - i) + 1]]
    BY DEF Reverse, Newest
  <2> HIDE DEF rest, newest
  <2>3. DOMAIN newest = 1..n /\ \A i \in 1..n : newest[i] = rest[(n - i) + 1]
    BY <2>1, <2>2
  <2>4. \A i \in 1..n : (n - i) + 1 \in 1..n /\ ((n - i) + 1) + 1 = n + 2 - i
    BY <1>2
  <2>5. ASSUME NEW i \in 1..n PROVE newest[i] = BestPath[n + 2 - i]
    <3> DEFINE j == (n - i) + 1
    <3>1. j \in 1..n /\ j + 1 = n + 2 - i /\ newest[i] = rest[j]
      BY <2>3, <2>4
    <3> HIDE DEF j
    <3>2. rest[j] = BestPath[j + 1]
      BY <2>1, <3>1
    <3> QED
      BY <3>1, <3>2
  <2> QED
    BY <2>3, <2>5
<1>4. DOMAIN lists = 1..n /\ \A i \in 1..n : lists[i] = ItemsBelow(i, a)
  <2> HIDE DEF newest, BestPath
  <2>1. \A i \in 1..n : Len(BestPath) + 1 - i = n + 2 - i
    BY <1>2
  <2> QED
    BY <1>3, <2>1 DEF ItemsBelow
<1>5. lists \in Seq({lists[i] : i \in 1..n})
  <2> DEFINE S == {lists[i] : i \in 1..n}
  <2>1. lists = [i \in 1..n |-> lists[i]] /\ \A i \in 1..n : lists[i] \in S
    BY <1>4
  <2> HIDE DEF S, lists
  <2>2. lists \in [1..n -> S]
    BY <2>1
  <2> QED
    BY <1>2, <2>2 DEF S
<1>6. ListsOf(a) = lists
  BY DEF ListsOf
<1> HIDE DEF lists
<1> QED
  BY <1>2, <1>4, <1>5, <1>6 DEF IsSequence

\* Where the items of an address come from, newest block first.
AreSources(items, a, pos, source) ==
  /\ \A k \in DOMAIN items : /\ pos[k] \in 2..Len(BestPath) /\ source[k] \in Nat
                             /\ IsItemOf(items[k], BestPath[pos[k]], source[k], a)
  /\ \A k, l \in DOMAIN items : k < l =>
       pos[l] < pos[k] \/ (pos[k] = pos[l] /\ source[k] < source[l])

\* Every item of an address comes from a block of the branch, in that order.
LEMMA ItemsHaveSources ==
  ASSUME SoundChain(entries, bestHash), NEW a
  PROVE  /\ IsSequence(AllItems(a))
         /\ \E pos, source : AreSources(AllItems(a), a, pos, source)
<1> DEFINE n == Len(BestPath) - 1
           lists == ListsOf(a)
           all == AllItems(a)
           block(i) == BestPath[Len(BestPath) + 1 - i]
           src == [i \in 1..n |-> CHOOSE s : AreItemsOf(ItemsOf(block(i), a), block(i), a, s)]
<1>1. /\ n \in Nat /\ DOMAIN lists = 1..n /\ IsSequence(lists)
      /\ \A i \in 1..n : lists[i] = ItemsOf(block(i), a)
  BY ListsOfBranch DEF ItemsBelow
<1>2. /\ Len(BestPath) \in Nat \ {0} /\ DOMAIN BestPath = 1..Len(BestPath)
      /\ \A i \in DOMAIN BestPath : IsBranchBlock(i)
  BY BranchBlocks
<1>3. \A i \in 1..n : Len(BestPath) + 1 - i \in 2..Len(BestPath)
  BY <1>2
<1>4. ASSUME NEW i \in 1..n
      PROVE  /\ IsSequence(lists[i])
             /\ AreItemsOf(lists[i], block(i), a, src[i])
  <2>1. IsWellFormed(block(i))
    BY <1>2, <1>3 DEF IsBranchBlock
  <2>2. IsSequence(ItemsOf(block(i), a)) /\ \E s : AreItemsOf(ItemsOf(block(i), a), block(i), a, s)
    BY <2>1, ItemsOfBlock
  <2>3. src[i] = CHOOSE s : AreItemsOf(ItemsOf(block(i), a), block(i), a, s)
    OBVIOUS
  <2> HIDE DEF src, block
  <2> QED
    BY <1>1, <2>2, <2>3
<1> HIDE DEF src, block, lists
<1>5. IsSequence(all) /\ \E at : ArePlaces(all, lists, at)
  <2>1. \A i \in DOMAIN lists : IsSequence(lists[i])
    BY <1>1, <1>4
  <2> QED
    BY <1>1, <2>1, FlattenPlaces DEF AllItems, lists
<1>6. PICK at : ArePlaces(all, lists, at)
  BY <1>5
<1> DEFINE pos == [k \in DOMAIN all |-> Len(BestPath) + 1 - at[k].list]
           source == [k \in DOMAIN all |-> src[at[k].list][at[k].place]]
<1>7. \A k \in DOMAIN all : /\ pos[k] = Len(BestPath) + 1 - at[k].list
                            /\ source[k] = src[at[k].list][at[k].place]
  OBVIOUS
<1>8. \A k \in DOMAIN all : /\ at[k].list \in 1..n /\ at[k].list \in DOMAIN lists
                            /\ at[k].place \in DOMAIN lists[at[k].list]
                            /\ all[k] = lists[at[k].list][at[k].place]
  BY <1>1, <1>6 DEF ArePlaces
<1> HIDE DEF pos, source, all, n
<1>9. ASSUME NEW k \in DOMAIN all
      PROVE  /\ pos[k] \in 2..Len(BestPath) /\ source[k] \in Nat
             /\ IsItemOf(all[k], BestPath[pos[k]], source[k], a)
  <2> DEFINE i == at[k].list
             p == at[k].place
  <2>1. i \in 1..n /\ p \in DOMAIN lists[i] /\ all[k] = lists[i][p]
    BY <1>8
  <2>2. pos[k] = Len(BestPath) + 1 - i /\ source[k] = src[i][p]
    BY <1>7
  <2> HIDE DEF i, p
  <2>3. AreItemsOf(lists[i], block(i), a, src[i])
    BY <1>4, <2>1
  <2>4. src[i][p] \in Nat /\ IsItemOf(lists[i][p], block(i), src[i][p], a)
    BY <2>1, <2>3 DEF AreItemsOf
  <2>5. block(i) = BestPath[pos[k]] /\ pos[k] \in 2..Len(BestPath)
    BY <1>3, <2>1, <2>2 DEF block
  <2> QED
    BY <2>1, <2>2, <2>4, <2>5
<1>10. ASSUME NEW k \in DOMAIN all, NEW l \in DOMAIN all, k < l
       PROVE  pos[l] < pos[k] \/ (pos[k] = pos[l] /\ source[k] < source[l])
  <2> DEFINE i == at[k].list
             j == at[l].list
             p == at[k].place
             q == at[l].place
  <2>1. Precedes(at[k], at[l])
    BY <1>6, <1>10 DEF ArePlaces, all
  <2>2. i < j \/ (i = j /\ p < q)
    BY <2>1 DEF Precedes
  <2>3. i \in 1..n /\ j \in 1..n /\ p \in DOMAIN lists[i] /\ q \in DOMAIN lists[j]
    BY <1>8
  <2>4. /\ pos[k] = Len(BestPath) + 1 - i /\ pos[l] = Len(BestPath) + 1 - j
        /\ source[k] = src[i][p] /\ source[l] = src[j][q]
    BY <1>7
  <2> HIDE DEF i, j, p, q
  <2>5. CASE i < j
    <3>1. i \in Int /\ j \in Int /\ Len(BestPath) \in Int
      BY <1>2, <2>3
    <3> QED
      BY <2>4, <2>5, <3>1
  <2>6. CASE i = j /\ p < q
    <3>1. src[i][p] < src[i][q]
      BY <1>4, <2>3, <2>6 DEF AreItemsOf
    <3> QED
      BY <2>4, <2>6, <3>1
  <2> QED
    BY <2>2, <2>5, <2>6
<1>11. AreSources(all, a, pos, source)
  BY <1>9, <1>10 DEF AreSources
<1> QED
  BY <1>5, <1>11 DEF all

\* Who asks decides only what an item counts.
LEMMA TransferItems ==
  ASSUME NEW block, NEW tx, NEW a
  PROVE  \E category, amount, from :
           /\ transactionItem(block, tx, a) = TransferItem(block, tx, category, amount, from)
           /\ from = IF tx.sender = a THEN NoHash ELSE tx.sender
<1>1. CASE tx.sender = a
  BY <1>1, Zenon DEF transactionItem
<1>2. CASE tx.sender # a
  BY <1>2, Zenon DEF transactionItem
<1> QED
  BY <1>1, <1>2

\* What the item of a source shows, whoever asks.
LEMMA ItemShowsSource ==
  ASSUME NEW item, NEW block, NEW q, NEW a, IsItemOf(item, block, q, a)
  PROVE  /\ item.txid = IF q = 0 THEN coinbaseId(block) ELSE block.transactions[q]
         /\ item.time = block.header.timestampSeconds
<1>1. CASE q = 0
  BY <1>1 DEF IsItemOf, coinbaseItem
<1>2. CASE q # 0
  <2> DEFINE tx == block.transactions[q]
  <2>1. PICK category, amount, from : item = TransferItem(block, tx, category, amount, from)
    BY <1>2, TransferItems DEF IsItemOf
  <2>2. /\ TransferItem(block, tx, category, amount, from).txid = tx
        /\ TransferItem(block, tx, category, amount, from).time = block.header.timestampSeconds
    <3> HIDE DEF tx
    <3> QED
      BY DEF TransferItem
  <2>3. item.txid = tx /\ item.time = block.header.timestampSeconds
    BY <2>1, <2>2
  <2> HIDE DEF tx
  <2>4. (IF q = 0 THEN coinbaseId(block) ELSE block.transactions[q]) = tx
    BY <1>2 DEF tx
  <2> QED
    BY <2>3, <2>4
<1> QED
  BY <1>1, <1>2

\* An item of an address is of a source in a block of the branch.
IsAt(item, p, q, a) ==
  p \in 2..Len(BestPath) /\ q \in Nat /\ IsItemOf(item, BestPath[p], q, a)

\* On a branch a transaction has one place.
LEMMA SourcesDiffer ==
  ASSUME SoundChain(entries, bestHash)
  PROVE  \A item, other, p, q, a, r, s, b :
           IsAt(item, p, q, a) /\ IsAt(other, r, s, b) /\ item.txid = other.txid => p = r /\ q = s
<1> SUFFICES ASSUME NEW item, NEW other, NEW p, NEW q, NEW a, NEW r, NEW s, NEW b,
                    IsAt(item, p, q, a), IsAt(other, r, s, b), item.txid = other.txid
             PROVE  p = r /\ q = s
  BY Zenon
<1>0. /\ p \in 2..Len(BestPath) /\ q \in Nat /\ IsItemOf(item, BestPath[p], q, a)
      /\ r \in 2..Len(BestPath) /\ s \in Nat /\ IsItemOf(other, BestPath[r], s, b)
  BY DEF IsAt
<1> DEFINE B == BestPath[p]
           C == BestPath[r]
<1>1. /\ p \in DOMAIN BestPath /\ r \in DOMAIN BestPath /\ p \in Nat /\ r \in Nat /\ p # 1 /\ r # 1
      /\ IsBranchBlock(p) /\ IsBranchBlock(r)
  BY <1>0, BranchBlocks
<1>2. /\ item.txid = IF q = 0 THEN coinbaseId(B) ELSE B.transactions[q]
      /\ other.txid = IF s = 0 THEN coinbaseId(C) ELSE C.transactions[s]
  BY <1>0, ItemShowsSource
<1>3. /\ q # 0 => q \in DOMAIN B.transactions /\ B.transactions[q] \in Range(B.transactions)
      /\ s # 0 => s \in DOMAIN C.transactions /\ C.transactions[s] \in Range(C.transactions)
  BY <1>0 DEF IsItemOf, Range
<1>4. CASE q = 0 /\ s = 0
  <2>1. coinbaseId(B) = coinbaseId(C)
    BY <1>2, <1>4
  <2>2. B.header.height = C.header.height
    BY <2>1 DEF coinbaseId
  <2>3. B.header.height = p - 1 /\ C.header.height = r - 1
    BY <1>1 DEF IsBranchBlock
  <2>4. p - 1 = r - 1
    BY <2>2, <2>3
  <2> QED
    BY <1>1, <1>4, <2>4
<1>5. ASSUME NEW block, NEW i \in DOMAIN BestPath, NEW tx \in Range(BestPath[i].transactions)
      PROVE  tx # coinbaseId(block)
  <2>1. IsTransaction(tx)
    BY BranchTransaction
  <2>2. "height" \notin DOMAIN tx
    BY <2>1 DEF IsTransaction
  <2>3. "height" \in DOMAIN coinbaseId(block)
    BY DEF coinbaseId
  <2> QED
    BY <2>2, <2>3
<1>6. CASE q = 0 /\ s # 0
  BY <1>1, <1>2, <1>3, <1>5, <1>6
<1>7. CASE q # 0 /\ s = 0
  BY <1>1, <1>2, <1>3, <1>5, <1>7
<1>8. CASE q # 0 /\ s # 0
  <2> DEFINE tx == B.transactions[q]
  <2>1. tx \in Range(B.transactions) /\ tx \in Range(C.transactions) /\ tx = C.transactions[s]
    BY <1>2, <1>3, <1>8
  <2>2. /\ IsTree(entries) /\ bestHash \in DOMAIN entries
        /\ \A block \in DOMAIN entries : entries[block].state.issued \in 0..TOTAL_SUPPLY
    BY DEF SoundChain, EntriesCount
  <2>3. /\ B \in DOMAIN entries \ {Genesis} /\ IsWellFormed(B)
    BY <1>0, <1>1 DEF IsBranchBlock, Stored
  <2>4. IsInjective(B.transactions) /\ BlockApplies(entries[ParentOf(B)].state, B)
    BY <2>2, <2>3 DEF IsTree, BlockApplies
  <2>5. PICK o : o \in Spends(tx)
    BY <2>1, <2>3, <2>4, SpendsSomething
  <2>6. o \in SpentBy(B.transactions) /\ o \in SpentBy(C.transactions)
    BY <2>1, <2>5 DEF SpentBy
  <2>7. p = r
    <3>1. \A i, j \in DOMAIN BestPath :
            i # j => SpentBy(BestPath[i].transactions) \cap SpentBy(BestPath[j].transactions) = {}
      BY <2>2, BranchSpends DEF BestPath
    <3> QED
      BY <1>1, <2>6, <3>1
  <2>8. q = s
    BY <1>3, <1>8, <2>1, <2>4, <2>7 DEF IsInjective
  <2> QED
    BY <2>7, <2>8
<1> QED
  BY <1>4, <1>6, <1>7, <1>8

\* Along the whole branch.
LEMMA TimesAscend ==
  ASSUME SoundChain(entries, bestHash), TimesAdvance
  PROVE  /\ \A i \in DOMAIN BestPath : BestPath[i].header.timestampSeconds \in Int
         /\ \A i, j \in DOMAIN BestPath : i <= j =>
              BestPath[i].header.timestampSeconds <= BestPath[j].header.timestampSeconds
<1> DEFINE t(i) == BestPath[i].header.timestampSeconds
           Q == {d \in Nat : \A i \in DOMAIN BestPath : i + d \in DOMAIN BestPath => t(i) <= t(i + d)}
<1>1. /\ Len(BestPath) \in Nat \ {0} /\ DOMAIN BestPath = 1..Len(BestPath)
      /\ \A i \in DOMAIN BestPath : IsBranchBlock(i)
  BY BranchBlocks
<1>2. ASSUME NEW i \in DOMAIN BestPath PROVE t(i) \in Int
  <2>1. CASE i = 1
    <3>1. BestPath[i] = Genesis
      BY <1>1, <2>1 DEF IsBranchBlock
    <3> QED
      BY <3>1, ConsensusAssumption DEF Genesis, createGenesisBlock
  <2>2. CASE i # 1
    BY <1>1, <2>2 DEF IsBranchBlock, IsWellFormed
  <2> QED
    BY <2>1, <2>2
<1>3. 0 \in Q
  <2>1. \A i \in DOMAIN BestPath : i + 0 = i
    BY <1>1
  <2> HIDE DEF t
  <2>2. \A i \in DOMAIN BestPath : t(i) <= t(i + 0)
    BY <1>2, <2>1
  <2> QED
    BY <2>2
<1>4. ASSUME NEW d \in Nat, d \in Q PROVE d + 1 \in Q
  <2> SUFFICES ASSUME NEW i \in DOMAIN BestPath, i + (d + 1) \in DOMAIN BestPath
               PROVE  t(i) <= t(i + (d + 1))
    OBVIOUS
  <2> DEFINE j == i + d
  <2>1. j \in DOMAIN BestPath /\ j + 1 = i + (d + 1) /\ j + 1 # 1 /\ (j + 1) - 1 = j
    BY <1>1
  <2>2. t(i) <= t(j)
    BY <1>4, <2>1
  <2>3. t(j) <= t(j + 1)
    BY <2>1 DEF TimesAdvance
  <2>4. t(i) \in Int /\ t(j) \in Int /\ t(j + 1) \in Int
    BY <1>2, <2>1
  <2> HIDE DEF t
  <2>5. t(i) <= t(j + 1)
    BY <2>2, <2>3, <2>4
  <2> QED
    BY <2>1, <2>5
<1> HIDE DEF Q
<1>5. \A d \in Nat : d \in Q
  BY <1>3, <1>4, NaturalInduction
<1>6. ASSUME NEW i \in DOMAIN BestPath, NEW j \in DOMAIN BestPath, i <= j PROVE t(i) <= t(j)
  <2>1. j - i \in Nat /\ i + (j - i) = j
    BY <1>1, <1>6
  <2> QED
    BY <1>5, <2>1 DEF Q
<1> QED
  BY <1>2, <1>6

\* The lists of the addresses of a wallet.
AllListsOf(own) == [i \in DOMAIN own |-> AllItems(own[i])]

\* While times advance, the lists of a wallet are sorted and agree.
LEMMA ListsAreHistories ==
  ASSUME SoundChain(entries, bestHash), TimesAdvance, NEW own, IsList(own)
  PROVE  AreHistories(AllListsOf(own))
<1> DEFINE P == AllListsOf(own)
           time(p) == BestPath[p].header.timestampSeconds
<1>1. DOMAIN P = DOMAIN own /\ \A i \in DOMAIN own : P[i] = AllItems(own[i])
  BY DEF AllListsOf
<1>2. /\ Len(BestPath) \in Nat /\ DOMAIN BestPath = 1..Len(BestPath)
      /\ \A p \in 2..Len(BestPath) : p \in DOMAIN BestPath
  BY BranchBlocks
<1>3. ASSUME NEW i \in DOMAIN own
      PROVE  /\ IsList(P[i])
             /\ \E pos, source : AreSources(P[i], own[i], pos, source)
  <2>1. IsSequence(P[i]) /\ \E pos, source : AreSources(P[i], own[i], pos, source)
    BY <1>1, ItemsHaveSources
  <2> QED
    BY <2>1, SequencePositions DEF IsList
<1>4. ASSUME NEW i \in DOMAIN own, NEW k \in DOMAIN P[i]
      PROVE  \E p \in 2..Len(BestPath), q \in Nat : IsItemOf(P[i][k], BestPath[p], q, own[i])
  BY <1>3 DEF AreSources
<1>5. ASSUME NEW i \in DOMAIN own, NEW k \in DOMAIN P[i] PROVE P[i][k].time \in Int
  <2>1. PICK p \in 2..Len(BestPath), q \in Nat : IsItemOf(P[i][k], BestPath[p], q, own[i])
    BY <1>4
  <2>2. P[i][k].time = time(p)
    BY <2>1, ItemShowsSource
  <2> QED
    BY <1>2, <2>2, TimesAscend
<1>6. ASSUME NEW i \in DOMAIN own, NEW k \in DOMAIN P[i], NEW l \in DOMAIN P[i], k < l
      PROVE  P[i][k].time >= P[i][l].time /\ P[i][k].txid # P[i][l].txid
  <2>1. PICK pos, source : AreSources(P[i], own[i], pos, source)
    BY <1>3
  <2>2. /\ pos[k] \in 2..Len(BestPath) /\ source[k] \in Nat
        /\ IsItemOf(P[i][k], BestPath[pos[k]], source[k], own[i])
        /\ pos[l] \in 2..Len(BestPath) /\ source[l] \in Nat
        /\ IsItemOf(P[i][l], BestPath[pos[l]], source[l], own[i])
        /\ pos[l] < pos[k] \/ (pos[k] = pos[l] /\ source[k] < source[l])
    BY <1>6, <2>1 DEF AreSources
  <2>3. /\ ~(pos[k] = pos[l] /\ source[k] = source[l])
        /\ IsAt(P[i][k], pos[k], source[k], own[i]) /\ IsAt(P[i][l], pos[l], source[l], own[i])
    <3> HIDE DEF P
    <3> QED
      BY <2>2 DEF IsAt
  <2>4. P[i][k].txid # P[i][l].txid
    <3> HIDE DEF P
    <3> QED
      BY <2>3, SourcesDiffer, Zenon
  <2>5. pos[l] <= pos[k]
    BY <2>2
  <2>6. time(pos[l]) <= time(pos[k]) /\ time(pos[l]) \in Int /\ time(pos[k]) \in Int
    BY <1>2, <2>2, <2>5, TimesAscend
  <2>7. P[i][k].time = time(pos[k]) /\ P[i][l].time = time(pos[l])
    BY <2>2, ItemShowsSource
  <2> HIDE DEF time
  <2>8. time(pos[k]) >= time(pos[l])
    BY <2>6
  <2> QED
    BY <2>4, <2>7, <2>8
<1>7. ASSUME NEW i \in DOMAIN own, NEW j \in DOMAIN own, NEW k \in DOMAIN P[i], NEW l \in DOMAIN P[j],
             P[i][k].txid = P[j][l].txid
      PROVE  P[i][k].time = P[j][l].time
  <2>1. PICK p \in 2..Len(BestPath), q \in Nat : IsItemOf(P[i][k], BestPath[p], q, own[i])
    BY <1>4
  <2>2. PICK r \in 2..Len(BestPath), s \in Nat : IsItemOf(P[j][l], BestPath[r], s, own[j])
    BY <1>4
  <2>3. p = r
    <3> HIDE DEF P
    <3>1. IsAt(P[i][k], p, q, own[i]) /\ IsAt(P[j][l], r, s, own[j])
      BY <2>1, <2>2 DEF IsAt
    <3> QED
      BY <1>7, <3>1, SourcesDiffer, Zenon
  <2> QED
    BY <2>1, <2>2, <2>3, ItemShowsSource
<1> HIDE DEF P
<1>8. AreHistories(P)
  BY <1>1, <1>3, <1>5, <1>6, <1>7 DEF AreHistories, IsList
<1> QED
  BY <1>8 DEF P

\* How many items an answer of /wallet/history holds at most.
Clip(limit) == IF limit < 1 THEN 1 ELSE IF limit > MostItems THEN MostItems ELSE limit

\* The limit of an answer is a number of items.
LEMMA ClipBounds ==
  ASSUME NEW limit \in Int
  PROVE  /\ Clip(limit) \in Nat /\ Clip(limit) >= 1 /\ Clip(limit) <= MostItems
         /\ MostItems \in Nat /\ Clip(MostItems) = MostItems
         /\ limit >= 1 /\ limit <= MostItems => Clip(limit) = limit
         /\ limit > MostItems => Clip(limit) = MostItems
BY DEF Clip, MostItems

\* The first elements of a sequence.
LEMMA FirstOfSequence ==
  ASSUME NEW seq, IsSequence(seq), NEW m \in Nat
  PROVE  /\ IsSequence(FirstOf(m, seq))
         /\ DOMAIN FirstOf(m, seq) = {k \in DOMAIN seq : k <= m}
         /\ \A k \in DOMAIN FirstOf(m, seq) : FirstOf(m, seq)[k] = seq[k]
         /\ Len(seq) <= m => FirstOf(m, seq) = seq
<1>1. PICK S : seq \in Seq(S)
  BY DEF IsSequence
<1>0. PICK n \in Nat : DOMAIN seq = 1..n /\ n = Len(seq)
  BY <1>1
<1>2. PICK q \in Nat : SubSeq(seq, 1, q) = FirstOf(m, seq) /\ q <= n /\ q <= m
                       /\ \A k \in 1..n : k <= m => k <= q
  <2> DEFINE r == IF m < n THEN m ELSE n
  <2>1. r \in Nat /\ r <= n /\ r <= m /\ \A k \in 1..n : k <= m => k <= r
    OBVIOUS
  <2>2. FirstOf(m, seq) = SubSeq(seq, 1, r)
    BY <1>0, Zenon DEF FirstOf
  <2> QED
    BY <2>1, <2>2
<1>3. FirstOf(m, seq) = SubSeq(seq, 1, q)
  BY <1>2
<1> DEFINE t == [k \in 1..q |-> seq[k]]
<1>4. SubSeq(seq, 1, q) = t
  <2>1. q <= Len(seq)
    BY <1>0, <1>2
  <2> QED
    BY <1>1, <2>1
<1>5. DOMAIN t = 1..q /\ \A k \in 1..q : t[k] = seq[k]
  OBVIOUS
<1> HIDE DEF t
<1>6. 1..q = {k \in DOMAIN seq : k <= m}
  <2>1. q <= n
    BY <1>2
  <2>2. q <= m
    BY <1>2
  <2>3. \A k \in 1..n : k <= m => k <= q
    BY <1>2
  <2>4. \A k \in 1..q : k \in 1..n
    BY <2>1
  <2>5. \A k \in 1..q : k <= m
    BY <2>2
  <2>6. \A k \in 1..n : k <= m => k \in 1..q
    BY <2>3
  <2>7. DOMAIN seq = 1..n
    BY <1>0
  <2> QED
    BY <2>4, <2>5, <2>6, <2>7, Zenon
<1>7. Len(seq) <= m => t = seq
  <2> SUFFICES ASSUME Len(seq) <= m PROVE t = seq
    OBVIOUS
  <2>0. \A k \in DOMAIN seq : k <= m
    <3>1. n <= m /\ DOMAIN seq = 1..n
      BY <1>0
    <3> QED
      BY <3>1
  <2>1. DOMAIN t = DOMAIN seq /\ \A k \in DOMAIN seq : t[k] = seq[k]
    BY <2>0, <1>5, <1>6, Zenon
  <2>2. seq = [k \in DOMAIN seq |-> seq[k]] /\ t = [k \in DOMAIN t |-> t[k]]
    BY <1>1 DEF t
  <2> QED
    BY <2>1, <2>2, Zenon
<1>8. IsSequence(t)
  <2> DEFINE T == {t[k] : k \in 1..q}
  <2>1. t = [k \in 1..q |-> t[k]]
    BY DEF t
  <2>2. t \in [1..q -> T]
    BY <2>1
  <2> HIDE DEF T
  <2> QED
    <3>1. t \in Seq(T)
      BY <2>2
    <3> QED
      BY <3>1, Zenon DEF IsSequence
<1> QED
  BY <1>0, <1>3, <1>4, <1>5, <1>6, <1>7, <1>8

\* An answer holds the first items of an address.
LEMMA HistoryIsFirst ==
  ASSUME NEW a, NEW limit
  PROVE  history(a, limit) = FirstOf(Clip(limit), AllItems(a))
BY Zenon DEF history, Clip, AllItems, ListsOf, Newest

\* What is fetched for a page are the first items of every address.
LEMMA FetchedIsCut ==
  ASSUME SoundChain(entries, bestHash), NEW own, NEW limit \in Int
  PROVE  Fetched(own, limit) = Cut(AllListsOf(own), Clip(limit))
<1> DEFINE m == Clip(limit)
           P == AllListsOf(own)
           page(i) == {[from |-> <<i, k>>, item |-> history(own[i], limit)[k]]
                         : k \in DOMAIN history(own[i], limit)}
<1>1. DOMAIN P = DOMAIN own /\ \A i \in DOMAIN own : P[i] = AllItems(own[i])
  BY DEF AllListsOf
<1>2. ASSUME NEW i \in DOMAIN own
      PROVE  page(i) = PageOf(P, i, m)
  <2> DEFINE h == history(own[i], limit)
  <2>1. DOMAIN h = {k \in DOMAIN P[i] : k <= m} /\ \A k \in DOMAIN h : h[k] = P[i][k]
    <3>1. h = FirstOf(m, P[i])
      BY <1>1, HistoryIsFirst
    <3>2. IsSequence(P[i]) /\ m \in Nat
      BY <1>1, ItemsHaveSources, ClipBounds
    <3> HIDE DEF h, P, m
    <3> QED
      BY <3>1, <3>2, FirstOfSequence, Zenon
  <2>2. page(i) = {[from |-> <<i, k>>, item |-> h[k]] : k \in DOMAIN h}
    OBVIOUS
  <2> HIDE DEF h, P, m, page
  <2>3. {[from |-> <<i, k>>, item |-> h[k]] : k \in DOMAIN h} = {Entry(P, i, k) : k \in DOMAIN h}
    BY <2>1 DEF Entry
  <2> QED
    BY <2>1, <2>2, <2>3 DEF PageOf
<1>3. Fetched(own, limit) = UNION {page(i) : i \in DOMAIN own}
  BY DEF Fetched
<1> HIDE DEF page, P, m
<1>4. {page(i) : i \in DOMAIN own} = {PageOf(P, i, m) : i \in DOMAIN P}
  BY <1>1, <1>2
<1> QED
  BY <1>3, <1>4 DEF Cut, P, m

\* And the page is cut from their merge.
LEMMA MergedIsMerge ==
  ASSUME SoundChain(entries, bestHash), NEW own, NEW limit \in Int
  PROVE  MergedHistory(own, limit) = MergeOf(NotSeen(Cut(AllListsOf(own), Clip(limit))))
<1> DEFINE all == NotSeen(Fetched(own, limit))
<1>1. MergedHistory(own, limit) = MergeOf(all)
  BY Zenon DEF MergedHistory, MergeOf
<1> QED
  BY <1>1, FetchedIsCut

\* Whatever is fetched for a window, it is a window of the whole list.
LEMMA PageOfWhole ==
  ASSUME SoundChain(entries, bestHash), TimesAdvance, NEW own, IsList(own),
         NEW c \in Nat, c >= 1, NEW s \in Nat
  PROVE  listTransactions(own, c, s) = Window(MergedHistory(own, MostItems), c, s)
<1> DEFINE wanted == 2 * (IF c > 1 THEN c ELSE 1) + 2 * s
           P == AllListsOf(own)
           m == Clip(wanted)
<1>1. wanted \in Nat /\ wanted >= 1 /\ s + c <= wanted
  <2>1. (IF c > 1 THEN c ELSE 1) = c
    OBVIOUS
  <2> QED
    BY <2>1
<1>2. listTransactions(own, c, s) = Window(MergedHistory(own, wanted), c, s)
  BY DEF listTransactions
<1> HIDE DEF wanted
<1>3. AreHistories(P)
  BY ListsAreHistories
<1> HIDE DEF P
<1>4. /\ MergedHistory(own, wanted) = MergeOf(NotSeen(Cut(P, m)))
      /\ MergedHistory(own, MostItems) = MergeOf(NotSeen(Cut(P, MostItems)))
      /\ MostItems \in Nat /\ m \in Nat /\ m <= MostItems
      /\ wanted <= MostItems => m = wanted
      /\ wanted > MostItems => m = MostItems
  <2>1. MostItems \in Int
    BY DEF MostItems
  <2> QED
    BY <1>1, <2>1, MergedIsMerge, ClipBounds DEF P
<1> HIDE DEF m
<1>5. CASE m = MostItems
  BY <1>2, <1>4, <1>5
<1>6. CASE m = wanted
  <2>1. s + c <= m
    BY <1>1, <1>6
  <2>2. Window(MergeOf(NotSeen(Cut(P, m))), c, s) = Window(MergeOf(NotSeen(Cut(P, MostItems))), c, s)
    BY <1>3, <1>4, <2>1, WindowsAgree
  <2> QED
    BY <1>2, <1>4, <2>2
<1> QED
  BY <1>1, <1>4, <1>5, <1>6

\* The whole list is a sequence.
LEMMA MergedIsList ==
  ASSUME SoundChain(entries, bestHash), TimesAdvance, NEW own, IsList(own)
  PROVE  IsSequence(MergedHistory(own, MostItems))
<1>1. MostItems \in Int /\ Clip(MostItems) \in Nat
  BY ClipBounds DEF MostItems
<1>2. AreHistories(AllListsOf(own))
  BY ListsAreHistories
<1> QED
  BY <1>1, <1>2, MergedIsMerge, MergeIsList DEF IsSequence

\* The window of a window.
LEMMA WindowIsPage ==
  ASSUME NEW items, IsSequence(items), NEW c \in Nat, NEW s \in Nat
  PROVE  FirstOf(c, Window(items, c, s)) = Window(items, c, s)
<1> DEFINE w == Window(items, c, s)
           n == Shows(Len(items), c, s)
<1>1. w = [k \in 1..n |-> items[s + k]]
  BY WindowShows DEF IsSequence, OnPage
<1>2. n \in Nat /\ n <= c
  <2>1. Len(items) \in Nat
    BY SequencePositions
  <2> QED
    BY <2>1 DEF Shows
<1>3. IsSequence(w) /\ Len(w) = n
  <2> DEFINE S == {w[k] : k \in 1..n}
  <2>1. w = [k \in 1..n |-> w[k]]
    BY <1>1
  <2> HIDE DEF w, n
  <2>2. w \in [1..n -> S]
    BY <2>1
  <2>3. w \in Seq(S)
    BY <1>2, <2>2
  <2>4. DOMAIN w = 1..n
    BY <2>1
  <2> QED
    BY <1>2, <2>3, <2>4 DEF IsSequence
<1> HIDE DEF w, n
<1>4. FirstOf(c, w) = w
  BY <1>2, <1>3, FirstOfSequence
<1> QED
  BY <1>4 DEF w

\* With or without a label, the call shows that window.
LEMMA CallShowsPage ==
  ASSUME SoundChain(entries, bestHash), TimesAdvance, NEW own, IsList(own),
         NEW count, IsCount(count), NEW skip, IsSkip(skip)
  PROVE  LET page == Window(MergedHistory(own, MostItems), parseCount(count, 20), parseSkip(skip))
         IN  /\ listtransactions(own, <<Label, count, skip>>) = page
             /\ listtransactions(own, <<count, skip>>) = page
<1> DEFINE c == parseCount(count, 20)
           s == parseSkip(skip)
           page == Window(MergedHistory(own, MostItems), c, s)
<1>1. c \in Nat /\ c >= 1 /\ s \in Nat
  BY DEF IsCount, IsSkip, parseCount, parseSkip
<1>2. count # Label
  BY LabelAssumption DEF IsCount
<1>3. FirstOf(c, listTransactions(own, c, s)) = page
  BY <1>1, PageOfWhole, MergedIsList, WindowIsPage
<1>4. /\ Argument(<<Label, count, skip>>, 1) = Label /\ Argument(<<Label, count, skip>>, 2) = count
      /\ Argument(<<Label, count, skip>>, 3) = skip
      /\ Argument(<<count, skip>>, 1) = count /\ Argument(<<count, skip>>, 2) = skip
  BY DEF Argument
<1>5. listtransactions(own, <<Label, count, skip>>) = FirstOf(c, listTransactions(own, c, s))
  BY <1>4 DEF listtransactions
<1>6. listtransactions(own, <<count, skip>>) = FirstOf(c, listTransactions(own, c, s))
  BY <1>2, <1>4 DEF listtransactions
<1> QED
  BY <1>3, <1>5, <1>6

\* Every rank below their number is the rank of one that is kept.
LEMMA RanksFill ==
  ASSUME NEW P, AreHistories(P), NEW M \in Nat, NEW k \in 1..Cardinality(NotSeen(Cut(P, M)))
  PROVE  \E x \in NotSeen(Cut(P, M)) : Rank(NotSeen(Cut(P, M)), x) = k - 1
<1> DEFINE all == NotSeen(Cut(P, M))
           n == Cardinality(all)
           f == [x \in all |-> Rank(all, x) + 1]
<1>1. all \subseteq Cut(P, M) /\ IsFiniteSet(all) /\ n \in Nat
  <2>1. all \in SUBSET Cut(P, M)
    BY DEF NotSeen
  <2> HIDE DEF all
  <2> QED
    BY <2>1, CutIsFinite, FS_Subset, FS_CardinalityType
<1>2. ASSUME NEW x \in all PROVE Rank(all, x) \in Nat /\ Rank(all, x) < n
  <2> DEFINE A == {y \in all : SortsBefore(y, x)}
  <2>1. x \notin A
    BY <1>1, SortingOrders
  <2>2. A \in SUBSET (all \ {x}) /\ Rank(all, x) = Cardinality(A)
    BY <2>1 DEF Rank
  <2> HIDE DEF A, all
  <2>3. IsFiniteSet(all \ {x}) /\ Cardinality(all \ {x}) = n - 1
    BY <1>1, FS_RemoveElement
  <2>4. IsFiniteSet(A) /\ Cardinality(A) <= n - 1 /\ Cardinality(A) \in Nat
    BY <2>2, <2>3, FS_Subset, FS_CardinalityType
  <2> HIDE DEF n
  <2> QED
    BY <1>1, <2>2, <2>4
<1>3. ASSUME NEW x \in all, NEW y \in all, x # y PROVE Rank(all, x) # Rank(all, y)
  <2>1. PICK i, l : i \in DOMAIN P /\ l \in DOMAIN P[i] /\ x = Entry(P, i, l)
    BY <1>1, CutHoldsEntries
  <2>2. PICK j, h : j \in DOMAIN P /\ h \in DOMAIN P[j] /\ y = Entry(P, j, h)
    BY <1>1, CutHoldsEntries
  <2>3. /\ i \in Nat /\ j \in Nat /\ l \in Nat /\ h \in Nat
        /\ P[i][l].time \in Int /\ P[j][h].time \in Int
    BY <2>1, <2>2, HistoryPositions
  <2>4. i # j \/ l # h
    BY <1>3, <2>1, <2>2
  <2> DEFINE t == P[i][l].time
             u == P[j][h].time
  <2>5. /\ SortsBefore(x, y) <=> t > u \/ (t = u /\ (i < j \/ (i = j /\ l < h)))
        /\ SortsBefore(y, x) <=> u > t \/ (u = t /\ (j < i \/ (j = i /\ h < l)))
    BY <2>1, <2>2, EntriesCompare
  <2>6. t \in Int /\ u \in Int
    BY <2>3
  <2> HIDE DEF t, u, all
  <2>7. SortsBefore(x, y) \/ SortsBefore(y, x)
    BY <2>3, <2>4, <2>5, <2>6
  <2>8. Rank(all, x) < Rank(all, y) \/ Rank(all, y) < Rank(all, x)
    BY <2>7, RanksAscend DEF all
  <2> QED
    BY <1>2, <2>8
<1> HIDE DEF all
<1>4. f \in [all -> 1..n]
  BY <1>1, <1>2
<1>5. \A x, y \in all : f[x] = f[y] => x = y
  BY <1>2, <1>3
<1>6. \A x \in all : f[x] = Rank(all, x) + 1
  OBVIOUS
<1> HIDE DEF f, n
<1>7. f \in Injection(all, 1..n)
  BY <1>4, <1>5 DEF Injection, IsInjective
<1>8. IsFiniteSet(1..n) /\ Cardinality(1..n) = n
  BY <1>1, FS_Interval
<1>9. f \in Surjection(all, 1..n)
  BY <1>7, <1>8, FS_Injection DEF n
<1>10. PICK x \in all : f[x] = k
  BY <1>9 DEF Surjection, n, all
<1>11. Rank(all, x) = k - 1
  <2>1. Rank(all, x) + 1 = k /\ Rank(all, x) \in Nat /\ k \in Int
    BY <1>2, <1>6, <1>10
  <2> QED
    BY <2>1
<1> QED
  BY <1>11 DEF all

\* What is merged was on one of the lists.
LEMMA MergedComeFrom ==
  ASSUME NEW P, AreHistories(P), NEW M \in Nat, NEW k \in DOMAIN MergeOf(NotSeen(Cut(P, M)))
  PROVE  \E i \in DOMAIN P : \E l \in DOMAIN P[i] : MergeOf(NotSeen(Cut(P, M)))[k] = P[i][l]
<1> DEFINE all == NotSeen(Cut(P, M))
           x == CHOOSE x \in all : Rank(all, x) = k - 1
<1>1. k \in 1..Cardinality(all) /\ MergeOf(all)[k] = x.item
  BY Zenon DEF MergeOf
<1>2. x \in all
  BY <1>1, RanksFill, Zenon
<1>3. x \in Cut(P, M)
  BY <1>2 DEF NotSeen
<1> HIDE DEF x, all
<1>4. PICK i, l : i \in DOMAIN P /\ l \in DOMAIN P[i] /\ x = Entry(P, i, l)
  BY <1>3, CutHoldsEntries
<1>5. x.item = P[i][l]
  BY <1>4, EntriesCompare
<1> QED
  BY <1>1, <1>4, <1>5 DEF all

\* Every item of the whole list has a source on the branch.
LEMMA WholeHasSources ==
  ASSUME SoundChain(entries, bestHash), TimesAdvance, NEW own, IsList(own),
         NEW i \in DOMAIN MergedHistory(own, MostItems)
  PROVE  \E a \in Range(own) : \E p, q : IsAt(MergedHistory(own, MostItems)[i], p, q, a)
<1> DEFINE P == AllListsOf(own)
           whole == MergedHistory(own, MostItems)
<1>1. whole = MergeOf(NotSeen(Cut(P, MostItems))) /\ MostItems \in Nat
  BY MergedIsMerge, ClipBounds DEF MostItems
<1>2. AreHistories(P)
  BY ListsAreHistories
<1>3. DOMAIN P = DOMAIN own /\ \A j \in DOMAIN own : P[j] = AllItems(own[j])
  BY DEF AllListsOf
<1> HIDE DEF P, whole
<1>4. PICK j, k : j \in DOMAIN own /\ k \in DOMAIN P[j] /\ whole[i] = P[j][k]
  BY <1>1, <1>2, <1>3, MergedComeFrom DEF whole
<1>5. PICK pos, source : AreSources(P[j], own[j], pos, source)
  BY <1>3, <1>4, ItemsHaveSources
<1>6. IsAt(whole[i], pos[k], source[k], own[j])
  BY <1>4, <1>5 DEF AreSources, IsAt
<1>7. own[j] \in Range(own)
  BY <1>4 DEF Range
<1> QED
  BY <1>6, <1>7 DEF whole

\* The lookup of a transaction of the branch, by what it shows of a block.
LookupOf(block, q) ==
  IF q = 0 THEN coinbaseItem(block)
  ELSE transactionItem(block, block.transactions[q], block.transactions[q].sender)

\* The node finds the transaction of an item by its id.
LEMMA LookupIsFound ==
  ASSUME SoundChain(entries, bestHash), NEW item, NEW p, NEW q, NEW a, IsAt(item, p, q, a)
  PROVE  LookupOf(BestPath[p], q) \in findTransaction(item.txid)
<1> DEFINE B == BestPath[p]
<1>1. p \in 2..Len(BestPath) /\ q \in Nat /\ IsItemOf(item, B, q, a)
  BY DEF IsAt
<1>2. item.txid = IF q = 0 THEN coinbaseId(B) ELSE B.transactions[q]
  BY <1>1, ItemShowsSource
<1>3. CASE q = 0
  <2>1. LookupOf(B, q) = coinbaseItem(B) /\ item.txid = coinbaseId(B)
    BY <1>2, <1>3 DEF LookupOf
  <2> HIDE DEF B
  <2>2. coinbaseItem(B) \in {coinbaseItem(B) : b \in {b \in {B} : coinbaseId(b) = item.txid}}
    BY <2>1
  <2> QED
    BY <1>1, <2>1, <2>2 DEF findTransaction, B
<1>4. CASE q # 0
  <2> DEFINE tx == B.transactions[q]
  <2>1. q \in DOMAIN B.transactions /\ tx = item.txid
    BY <1>1, <1>2, <1>4 DEF IsItemOf
  <2>2. tx \in Range(B.transactions) \cap {item.txid}
    BY <2>1 DEF Range
  <2>3. LookupOf(B, q) = transactionItem(B, tx, tx.sender)
    BY <1>4 DEF LookupOf
  <2> HIDE DEF tx, B
  <2>4. transactionItem(B, tx, tx.sender)
          \in {transactionItem(B, t, t.sender) : t \in Range(B.transactions) \cap {item.txid}}
    BY <2>2
  <2> QED
    BY <1>1, <2>3, <2>4 DEF findTransaction, B
<1> QED
  BY <1>3, <1>4

\* What the item of a transfer shows, whoever asks.
ShowsTransfer(item, block, tx) ==
  LET utxos == entries[block.header.previousHash].state.utxos
  IN  /\ item.txid = tx /\ item.type = "transfer" /\ item.height = block.header.height
      /\ item.time = block.header.timestampSeconds /\ item.fee = tx.fee
      /\ item.inputs = [i \in DOMAIN tx.inputs |->
                          [outpoint |-> tx.inputs[i], address |-> utxos[tx.inputs[i]].address,
                           amount |-> utxos[tx.inputs[i]].amount]]
      /\ item.outputs = tx.outputs

\* What an item shows of a block does not depend on who asks.
LEMMA LookupShowsItem ==
  ASSUME NEW item, NEW block, NEW q, NEW a, IsItemOf(item, block, q, a)
  PROVE  LET view == LookupOf(block, q)
         IN  /\ view.txid = item.txid
             /\ \A field \in {"type", "height", "time", "fee", "inputs", "outputs"} :
                  view[field] = item[field]
<1>1. CASE q = 0
  BY <1>1 DEF IsItemOf, LookupOf
<1>2. CASE q # 0
  <2> DEFINE tx == block.transactions[q]
             sender == tx.sender
             view == LookupOf(block, q)
  <2>1. PICK category, amount, from : item = TransferItem(block, tx, category, amount, from)
    BY <1>2, TransferItems DEF IsItemOf
  <2>2. PICK category1, amount1, from1 :
          view = TransferItem(block, tx, category1, amount1, from1)
    BY <1>2, TransferItems DEF LookupOf
  <2> HIDE DEF tx, view
  <2>3. ShowsTransfer(item, block, tx)
    BY <2>1 DEF TransferItem, ShowsTransfer
  <2>4. ShowsTransfer(view, block, tx)
    BY <2>2 DEF TransferItem, ShowsTransfer
  <2>5. /\ view.txid = item.txid /\ view["type"] = item["type"] /\ view["height"] = item["height"]
        /\ view["time"] = item["time"] /\ view["fee"] = item["fee"]
        /\ view["inputs"] = item["inputs"] /\ view["outputs"] = item["outputs"]
    BY <2>3, <2>4, Zenon DEF ShowsTransfer
  <2> QED
    BY <2>5 DEF view
<1> QED
  BY <1>1, <1>2

\* The wallet shows what an address of its list was asked for.
LEMMA LookupIsShown ==
  ASSUME SoundChain(entries, bestHash), NEW own, NEW a \in Range(own),
         NEW item, NEW p, NEW q, IsAt(item, p, q, a)
  PROVE  LookupOf(BestPath[p], q) \in getTransaction(own, item.txid)
<1> DEFINE B == BestPath[p]
           view == LookupOf(B, q)
<1>1. p \in 2..Len(BestPath) /\ q \in Nat /\ IsItemOf(item, B, q, a)
  BY DEF IsAt
<1>2. view \in findTransaction(item.txid)
  BY LookupIsFound
<1>3. \/ \E i \in DOMAIN view.inputs : view.inputs[i].address \in Range(own)
      \/ \E i \in DOMAIN view.outputs : view.outputs[i].address \in Range(own)
  <2>0. p \in DOMAIN BestPath /\ IsBranchBlock(p) /\ p # 1
    BY <1>1, BranchBlocks
  <2>1. CASE q = 0
    <3>1. B \in DOMAIN entries \ {Genesis} /\ IsWellFormed(B) /\ IsTree(entries)
      BY <2>0 DEF IsBranchBlock, Stored, SoundChain
    <3>2. 1 \in DOMAIN B.coinbase.outputs
      <4>1. CoinbaseApplies(entries[ParentOf(B)].state.issued, B)
        BY <3>1 DEF IsTree, BlockApplies
      <4>2. Len(B.coinbase.outputs) = 1 /\ B.coinbase # NoCoinbase
        BY <4>1 DEF CoinbaseApplies
      <4>3. B.coinbase.outputs \in Seq(Range(B.coinbase.outputs))
        BY <3>1, <4>2 DEF IsWellFormed
      <4> QED
        BY <4>2, <4>3
    <3>3. view.outputs = B.coinbase.outputs /\ B.coinbase.outputs[1].address = a
      BY <1>1, <2>1 DEF LookupOf, coinbaseItem, IsItemOf
    <3> QED
      BY <3>2, <3>3
  <2>2. CASE q # 0
    <3> DEFINE tx == B.transactions[q]
               utxos == entries[B.header.previousHash].state.utxos
    <3>1. q \in DOMAIN B.transactions /\ Involves(tx, a)
      BY <1>1, <2>2 DEF IsItemOf
    <3>2. tx \in Range(B.transactions)
      BY <3>1 DEF Range
    <3>3. TransactionApplies(utxos, tx, p - 1) /\ IsTransaction(tx)
      BY <2>0, <3>2, BranchTransaction
    <3>4. PICK category, amount, from : view = TransferItem(B, tx, category, amount, from)
      BY <2>2, TransferItems DEF LookupOf
    <3> HIDE DEF view, tx, utxos
    <3>5. /\ view.outputs = tx.outputs
          /\ view.inputs = [i \in DOMAIN tx.inputs |->
                              [outpoint |-> tx.inputs[i], address |-> utxos[tx.inputs[i]].address,
                               amount |-> utxos[tx.inputs[i]].amount]]
      BY <3>4 DEF TransferItem, utxos
    <3>6. CASE tx.sender = a
      <4>1. 1 \in DOMAIN tx.inputs /\ utxos[tx.inputs[1]].address = tx.sender
        <5>1. tx.inputs \in Seq(Range(tx.inputs)) /\ Len(tx.inputs) \in 1..MAX_TX_INPUTS
          BY <3>3 DEF IsTransaction, TransactionApplies, validateSignedTransactionShape
        <5>2. 1 \in DOMAIN tx.inputs
          BY <5>1, LedgerAssumption
        <5>3. tx.inputs[1] \in Spends(tx)
          BY <5>2 DEF Spends, Range
        <5> QED
          BY <3>3, <5>2, <5>3 DEF TransactionApplies, InputsAreSpendable
      <4>2. 1 \in DOMAIN view.inputs /\ view.inputs[1].address = a
        BY <3>5, <3>6, <4>1
      <4> QED
        BY <4>2
    <3>7. CASE tx.sender # a
      BY <3>1, <3>5, <3>7 DEF Involves
    <3> QED
      BY <3>6, <3>7
  <2> QED
    BY <2>1, <2>2
<1> HIDE DEF view
<1>4. view \in getTransaction(own, item.txid)
  BY <1>2, <1>3 DEF getTransaction
<1> QED
  BY <1>4 DEF view

\* The block a lookup names holds the transaction.
LEMMA RawNamesBlock ==
  ASSUME SoundChain(entries, bestHash), NEW txid, NEW raw \in getRawTransactionVerbose(txid)
  PROVE  txid \in Range(raw.blockhash.transactions) \cup {coinbaseId(raw.blockhash)}
<1>1. PICK view \in findTransaction(txid) :
        raw = Put(view, "blockhash", ancestor(entries, bestHash, view.height))
  BY DEF getRawTransactionVerbose
<1>2. raw.blockhash = ancestor(entries, bestHash, view.height)
  BY <1>1 DEF Put
<1>3. PICK r \in 2..Len(BestPath) :
        \/ coinbaseId(BestPath[r]) = txid /\ view = coinbaseItem(BestPath[r])
        \/ /\ txid \in Range(BestPath[r].transactions)
           /\ view = transactionItem(BestPath[r], txid, txid.sender)
  BY DEF findTransaction
<1>4. view.height = BestPath[r].header.height
  <2>1. CASE view = coinbaseItem(BestPath[r])
    BY <2>1 DEF coinbaseItem
  <2>2. CASE view = transactionItem(BestPath[r], txid, txid.sender)
    <3>1. PICK category, amount, from :
            view = TransferItem(BestPath[r], txid, category, amount, from)
      BY <2>2, TransferItems
    <3> QED
      BY <3>1 DEF TransferItem
  <2> QED
    BY <1>3, <2>1, <2>2
<1>5. r \in DOMAIN BestPath /\ IsBranchBlock(r) /\ r \in Nat
  BY BranchBlocks
<1>6. view.height + 1 = r
  BY <1>4, <1>5 DEF IsBranchBlock
<1>7. raw.blockhash = BestPath[r]
  BY <1>2, <1>6, Zenon DEF ancestor, BestPath
<1> QED
  BY <1>3, <1>7

\* What is on the list is found by its id, as it is shown.
LEMMA LookupAgrees ==
  ASSUME SoundChain(entries, bestHash), TimesAdvance, NEW own, IsList(own),
         NEW i \in DOMAIN MergedHistory(own, MostItems)
  PROVE  LET item == MergedHistory(own, MostItems)[i]
         IN  \E view \in gettransaction(own, <<item.txid>>) :
               /\ \A field \in {"type", "height", "time", "fee", "inputs", "outputs"} :
                    view[field] = item[field]
               /\ \A raw \in getRawTransactionVerbose(item.txid) :
                    view.txid \in Range(raw.blockhash.transactions) \cup {coinbaseId(raw.blockhash)}
<1> DEFINE item == MergedHistory(own, MostItems)[i]
<1>1. PICK a \in Range(own) : \E p, q : IsAt(item, p, q, a)
  BY WholeHasSources
<1>0. PICK p, q : IsAt(item, p, q, a)
  BY <1>1
<1> HIDE DEF item
<1> DEFINE view == LookupOf(BestPath[p], q)
<1>2. view \in getTransaction(own, item.txid)
  BY <1>0, LookupIsShown
<1>3. gettransaction(own, <<item.txid>>) = getTransaction(own, item.txid)
  BY DEF gettransaction
<1>4. /\ view.txid = item.txid
      /\ \A field \in {"type", "height", "time", "fee", "inputs", "outputs"} :
           view[field] = item[field]
  <2>1. IsItemOf(item, BestPath[p], q, a)
    BY <1>0 DEF IsAt
  <2> QED
    BY <2>1, LookupShowsItem
<1> HIDE DEF view
<1>5. \A raw \in getRawTransactionVerbose(item.txid) :
        view.txid \in Range(raw.blockhash.transactions) \cup {coinbaseId(raw.blockhash)}
  BY <1>4, RawNamesBlock
<1>6. \E v \in gettransaction(own, <<item.txid>>) :
        /\ \A field \in {"type", "height", "time", "fee", "inputs", "outputs"} :
             v[field] = item[field]
        /\ \A raw \in getRawTransactionVerbose(item.txid) :
             v.txid \in Range(raw.blockhash.transactions) \cup {coinbaseId(raw.blockhash)}
  BY <1>2, <1>3, <1>4, <1>5
<1> QED
  BY <1>6 DEF item

\* While the times of the best branch do not go back, the pages of
\* listtransactions are windows of one list, however many items are fetched for
\* each, and what is on the list is found by its id (rpc/server.ts,
\* walletCore.ts listTransactions and getTransaction).
THEOREM ChainPagesShowOneHistory == Spec => []PagesShowOneHistory
<1>1. ASSUME SoundChain(entries, bestHash) PROVE PagesShowOneHistory
  <2> SUFFICES ASSUME TimesAdvance, NEW own \in Wallets
               PROVE  LET whole == MergedHistory(own, MostItems)
                      IN  /\ \A count \in {count \in PageSizes \cup {Absent} : IsCount(count)} :
                             \A skip \in {skip \in PageSizes \cup {0, Absent} : IsSkip(skip)} :
                               /\ listtransactions(own, <<Label, count, skip>>)
                                    = Window(whole, parseCount(count, 20), parseSkip(skip))
                               /\ listtransactions(own, <<count, skip>>)
                                    = listtransactions(own, <<Label, count, skip>>)
                          /\ \A i \in DOMAIN whole :
                               \E view \in gettransaction(own, <<whole[i].txid>>) :
                                 /\ \A field \in {"type", "height", "time", "fee", "inputs", "outputs"} :
                                      view[field] = whole[i][field]
                                 /\ \A raw \in getRawTransactionVerbose(whole[i].txid) :
                                      view.txid \in Range(raw.blockhash.transactions)
                                                      \cup {coinbaseId(raw.blockhash)}
    BY Zenon DEF PagesShowOneHistory
  <2>1. IsList(own)
    BY WalletsAssumption DEF IsList
  <2>2. \A count \in {count \in PageSizes \cup {Absent} : IsCount(count)} :
        \A skip \in {skip \in PageSizes \cup {0, Absent} : IsSkip(skip)} :
          /\ listtransactions(own, <<Label, count, skip>>)
               = Window(MergedHistory(own, MostItems), parseCount(count, 20), parseSkip(skip))
          /\ listtransactions(own, <<count, skip>>) = listtransactions(own, <<Label, count, skip>>)
    <3>1. ASSUME NEW count, IsCount(count), NEW skip, IsSkip(skip)
          PROVE  /\ listtransactions(own, <<Label, count, skip>>)
                      = Window(MergedHistory(own, MostItems), parseCount(count, 20), parseSkip(skip))
                 /\ listtransactions(own, <<count, skip>>)
                      = Window(MergedHistory(own, MostItems), parseCount(count, 20), parseSkip(skip))
      BY <1>1, <2>1, <3>1, CallShowsPage
    <3> SUFFICES ASSUME NEW count, IsCount(count), NEW skip, IsSkip(skip)
                 PROVE  /\ listtransactions(own, <<Label, count, skip>>)
                             = Window(MergedHistory(own, MostItems), parseCount(count, 20), parseSkip(skip))
                        /\ listtransactions(own, <<count, skip>>)
                             = listtransactions(own, <<Label, count, skip>>)
      OBVIOUS
    <3> QED
      BY <3>1, Zenon
  <2> QED
    BY <1>1, <2>1, <2>2, LookupAgrees
<1>2. Invariant => PagesShowOneHistory
  BY <1>1 DEF Invariant
<1> QED
  BY <1>2, ChainInvariant, PTL

=============================================================================
