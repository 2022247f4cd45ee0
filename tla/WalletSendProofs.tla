-------------------------- MODULE WalletSendProofs --------------------------
(***************************************************************************)
(* Proofs about spending (WalletSend) and the planner (TransactionPlanner):*)
(* whatever the calls, the lost requests and the blocks, no coin is spent  *)
(* twice, every plan is sound and nobody is paid more than was asked.      *)
(*                                                                         *)
(* Sums: over a set, a family of sets, the payments of a sequence.  The    *)
(* payments are laid end to end on a line; what lies between two positions *)
(* is what a chunk pays, so the chunks of a plan pay adjoining stretches.  *)
(*                                                                         *)
(* The planner: the fold over the coins keeps PlanInv, the chunks so far   *)
(* pay the line up to plan.paid and spend no coin of the batch.            *)
(*                                                                         *)
(* The invariant of the calls, CallInv: the transactions the node took and *)
(* never dropped are disjoint, and so are those of the mempool; the others *)
(* are mined and spend no living coin; a block's new coins have names that *)
(* no coin had before; a call has no plan while it reads, and keeps the    *)
(* one it makes; every transaction the node took is one of a plan.         *)
(***************************************************************************)
EXTENDS WalletSend, FiniteSetTheorems, SequenceTheorems, WellFoundedInduction, TLAPS

-----------------------------------------------------------------------------
(* Sums over finite sets *)

(* A non-empty set of naturals has a least member. *)
LEMMA LeastNatural ==
  ASSUME NEW S \in SUBSET Nat, S # {}
  PROVE  \E m \in S : \A n \in S : m <= n
<1>1. PICK m \in S : \A n \in S : ~ (<<n, m>> \in OpToRel(<, Nat))
  BY NatLessThanWellFounded, WFMin
<1>2. ASSUME NEW n \in S PROVE m <= n
  <2>1. m \in Nat /\ n \in Nat
    OBVIOUS
  <2>2. ~ (n < m)
    BY <1>1, <2>1 DEF OpToRel
  <2> QED
    BY <2>1, <2>2
<1> QED
  BY <1>2

\* Induction over the natural numbers, a property being the set of those that
\* have it.
LEMMA NaturalInduction ==
  ASSUME NEW Q, 0 \in Q, \A n \in Nat : n \in Q => n + 1 \in Q
  PROVE  \A n \in Nat : n \in Q
<1> DEFINE Bad == Nat \ Q
<1>1. SUFFICES ASSUME Bad # {} PROVE FALSE
  OBVIOUS
<1>2. PICK n \in Bad : \A m \in Bad : n <= m
  <2>1. Bad \in SUBSET Nat
    OBVIOUS
  <2> HIDE DEF Bad
  <2> QED
    BY <1>1, <2>1, LeastNatural
<1>3. n - 1 \in Nat /\ (n - 1) + 1 = n
  OBVIOUS
<1>4. n - 1 \in Q
  BY <1>2, <1>3
<1> QED
  BY <1>3, <1>4

\* Induction on the subsets of a finite set, smaller ones first.
LEMMA SubsetInduction ==
  ASSUME NEW S, IsFiniteSet(S), NEW Q,
         \A T \in SUBSET S : (\A U \in SUBSET T : U # T => U \in Q) => T \in Q
  PROVE  \A T \in SUBSET S : T \in Q
<1> DEFINE Bad == {n \in Nat : \E T \in SUBSET S : Cardinality(T) = n /\ T \notin Q}
<1>1. \A T \in SUBSET S : IsFiniteSet(T) /\ Cardinality(T) \in Nat
  BY FS_Subset, FS_CardinalityType
<1>2. SUFFICES ASSUME Bad # {} PROVE FALSE
  BY <1>1
<1>3. PICK n \in Bad : \A m \in Bad : n <= m
  <2>1. Bad \in SUBSET Nat
    OBVIOUS
  <2> HIDE DEF Bad
  <2> QED
    BY <1>2, <2>1, LeastNatural
<1>4. PICK T \in SUBSET S : Cardinality(T) = n /\ T \notin Q
  OBVIOUS
<1>5. ASSUME NEW U \in SUBSET T, U # T PROVE U \in Q
  <2>1. Cardinality(U) \in Nat /\ Cardinality(U) <= n /\ Cardinality(U) # n
    BY <1>1, <1>4, <1>5, FS_Subset
  <2>2. Cardinality(U) \notin Bad
    <3> HIDE DEF Bad
    <3>1. n \in Nat
      BY DEF Bad
    <3> QED
      BY <1>3, <2>1, <3>1
  <2> QED
    BY <2>1, <2>2
<1> QED
  BY <1>4, <1>5

-----------------------------------------------------------------------------
\* Sums of the values of a function over a finite set.

Chosen(S) == CHOOSE x \in S : TRUE

\* What SumFunctionOnSet unfolds to: g maps every subset of S to its sum.
SumsUp(f, S, g) ==
  g = [s \in SUBSET S |-> IF s = {} THEN 0 ELSE f[Chosen(s)] + g[s \ {Chosen(s)}]]
Summation(f, S) == CHOOSE g : SumsUp(f, S, g)

LEMMA ChosenIsMember == ASSUME NEW S, S # {} PROVE Chosen(S) \in S
BY DEF Chosen

\* There is such a function.
LEMMA SummationExists ==
  ASSUME NEW f, NEW S, IsFiniteSet(S)
  PROVE  \E g : SumsUp(f, S, g)
<1> DEFINE step(g, s) == IF s = {} THEN 0 ELSE f[Chosen(s)] + g[s \ {Chosen(s)}]
           Small(n) == {s \in SUBSET S : Cardinality(s) <= n}
           Solves(g, n) == g = [s \in Small(n) |-> step(g, s)]
           Bad == {n \in Nat : ~ \E g : Solves(g, n)}
<1>1. \A s \in SUBSET S : IsFiniteSet(s) /\ Cardinality(s) \in Nat /\ Cardinality(s) <= Cardinality(S)
  BY FS_Subset, FS_CardinalityType
<1>2. ASSUME NEW s \in SUBSET S, s # {}
      PROVE  /\ Chosen(s) \in s /\ Cardinality(s) # 0
             /\ Cardinality(s \ {Chosen(s)}) = Cardinality(s) - 1
  BY <1>1, <1>2, ChosenIsMember, FS_RemoveElement, FS_EmptySet
<1>3. \E g : Solves(g, 0)
  <2> DEFINE zero == [s \in Small(0) |-> 0]
  <2>1. \A s \in Small(0) : step(zero, s) = 0
    BY <1>1, <1>2
  <2>2. Solves(zero, 0)
    BY <2>1
  <2> QED
    BY <2>2
<1>4. ASSUME NEW n \in Nat, NEW g, Solves(g, n)
      PROVE  \E h : Solves(h, n + 1)
  <2> DEFINE h == [s \in Small(n + 1) |-> step(g, s)]
  <2>2. \A s \in Small(n) : s \in Small(n + 1)
    BY <1>1
  <2>3. \A s \in Small(n) : g[s] = h[s]
    BY <1>4, <2>2
  <2>4. \A s \in Small(n + 1) : s # {} => s \ {Chosen(s)} \in Small(n)
    BY <1>1, <1>2
  <2>5. \A s \in Small(n + 1) : step(g, s) = step(h, s)
    <3> HIDE DEF h, Small
    <3> QED
      BY <2>3, <2>4
  <2>6. Solves(h, n + 1)
    <3>1. h = [s \in Small(n + 1) |-> step(g, s)]
      OBVIOUS
    <3> HIDE DEF h, step
    <3> QED
      BY <2>5, <3>1
  <2> QED
    BY <2>6
<1>5. Bad = {}
  <2> HIDE DEF Solves
  <2>1. SUFFICES ASSUME Bad # {} PROVE FALSE
    OBVIOUS
  <2>2. PICK n \in Bad : \A m \in Bad : n <= m
    <3> HIDE DEF Bad
    <3>1. Bad \in SUBSET Nat
      BY DEF Bad
    <3> QED
      BY <2>1, <3>1, LeastNatural
  <2>3. n # 0 /\ n - 1 \in Nat
    BY <1>3
  <2>4. \E g : Solves(g, n - 1)
    BY <2>2, <2>3
  <2>5. (n - 1) + 1 = n
    OBVIOUS
  <2>6. \E h : Solves(h, n)
    BY <1>4, <2>3, <2>4, <2>5
  <2> QED
    BY <2>6
<1>6. PICK g : Solves(g, Cardinality(S))
  <2> HIDE DEF Solves
  <2> QED
    BY <1>1, <1>5
<1>7. Small(Cardinality(S)) = SUBSET S
  BY <1>1
<1> QED
  BY <1>6, <1>7 DEF SumsUp

LEMMA SumIsSummation ==
  ASSUME NEW f, NEW S, IsFiniteSet(S)
  PROVE  /\ SumFunctionOnSet(f, S) = Summation(f, S)[S]
         /\ SumsUp(f, S, Summation(f, S))
<1>1. SumFunctionOnSet(f, S) = Summation(f, S)[S]
  BY DEF SumFunctionOnSet, FoldFunctionOnSet, MapThenFoldSet, Summation, SumsUp, Chosen
<1>2. SumsUp(f, S, Summation(f, S))
  BY SummationExists DEF Summation
<1> QED
  BY <1>1, <1>2

LEMMA SumOfNothing ==
  ASSUME NEW f
  PROVE  SumFunctionOnSet(f, {}) = 0
<1> DEFINE g == Summation(f, {})
<1>1. SumFunctionOnSet(f, {}) = g[{}] /\ SumsUp(f, {}, g)
  BY SumIsSummation, FS_EmptySet
<1> HIDE DEF g
<1>2. g[{}] = 0
  BY <1>1 DEF SumsUp
<1> QED
  BY <1>1, <1>2

\* The sum takes out the element that CHOOSE chooses, ...
LEMMA SumOfChosen ==
  ASSUME NEW f, NEW S, IsFiniteSet(S), S # {}
  PROVE  SumFunctionOnSet(f, S) = f[Chosen(S)] + SumFunctionOnSet(f, S \ {Chosen(S)})
<1> DEFINE rest == S \ {Chosen(S)}
           g == Summation(f, S)
           h == Summation(f, rest)
<1>1. IsFiniteSet(rest)
  BY FS_Subset
<1>2. \A s \in SUBSET S : g[s] = IF s = {} THEN 0 ELSE f[Chosen(s)] + g[s \ {Chosen(s)}]
  <2>1. SumsUp(f, S, g)
    BY SumIsSummation
  <2> HIDE DEF g
  <2> QED
    BY <2>1 DEF SumsUp
<1>3. \A s \in SUBSET rest : h[s] = IF s = {} THEN 0 ELSE f[Chosen(s)] + h[s \ {Chosen(s)}]
  <2>1. SumsUp(f, rest, h)
    BY <1>1, SumIsSummation
  <2> HIDE DEF h, rest
  <2> QED
    BY <2>1 DEF SumsUp
<1>4. SumFunctionOnSet(f, S) = g[S] /\ SumFunctionOnSet(f, rest) = h[rest]
  <2> HIDE DEF rest
  <2> QED
    BY <1>1, SumIsSummation
<1> HIDE DEF g, h
<1>5. g[rest] = h[rest]
  <2> DEFINE Q == {s \in SUBSET rest : g[s] = h[s]}
  <2>1. ASSUME NEW s \in SUBSET rest, \A u \in SUBSET s : u # s => u \in Q
        PROVE  s \in Q
    <3>1. CASE s = {}
      BY <1>2, <1>3, <3>1
    <3>2. CASE s # {}
      <4>1. Chosen(s) \in s
        BY <3>2, ChosenIsMember
      <4>2. g[s \ {Chosen(s)}] = h[s \ {Chosen(s)}]
        BY <2>1, <4>1
      <4>3. g[s] = f[Chosen(s)] + g[s \ {Chosen(s)}] /\ h[s] = f[Chosen(s)] + h[s \ {Chosen(s)}]
        BY <1>2, <1>3, <3>2
      <4> QED
        BY <4>2, <4>3
    <3> QED
      BY <3>1, <3>2
  <2> HIDE DEF rest, Q
  <2>2. \A s \in SUBSET rest : s \in Q
    BY <1>1, <2>1, SubsetInduction
  <2> QED
    BY <2>2 DEF Q
<1> QED
  BY <1>2, <1>4, <1>5

LEMMA SumIsInt ==
  ASSUME NEW f, NEW S, IsFiniteSet(S), \A x \in S : f[x] \in Int
  PROVE  SumFunctionOnSet(f, S) \in Int
<1> DEFINE Q == {T \in SUBSET S : SumFunctionOnSet(f, T) \in Int}
<1>1. ASSUME NEW T \in SUBSET S, \A U \in SUBSET T : U # T => U \in Q
      PROVE  T \in Q
  <2>1. CASE T = {}
    BY <2>1, SumOfNothing
  <2>2. CASE T # {}
    <3>1. Chosen(T) \in T /\ f[Chosen(T)] \in Int
      BY <2>2, ChosenIsMember
    <3>2. SumFunctionOnSet(f, T \ {Chosen(T)}) \in Int
      BY <1>1, <3>1
    <3>3. IsFiniteSet(T)
      BY FS_Subset
    <3>4. SumFunctionOnSet(f, T) = f[Chosen(T)] + SumFunctionOnSet(f, T \ {Chosen(T)})
      BY <2>2, <3>3, SumOfChosen
    <3> QED
      BY <3>1, <3>2, <3>4
  <2> QED
    BY <2>1, <2>2
<1> HIDE DEF Q
<1>2. S \in Q
  BY <1>1, SubsetInduction
<1> QED
  BY <1>2 DEF Q

\* ... and so it does any other.
LEMMA SumTakesOut ==
  ASSUME NEW f, NEW S, IsFiniteSet(S), \A x \in S : f[x] \in Int, NEW y \in S
  PROVE  SumFunctionOnSet(f, S) = f[y] + SumFunctionOnSet(f, S \ {y})
<1> DEFINE sum(T) == SumFunctionOnSet(f, T)
           Q == {T \in SUBSET S : \A x \in T : sum(T) = f[x] + sum(T \ {x})}
<1>1. \A T \in SUBSET S : IsFiniteSet(T) /\ sum(T) \in Int
  BY FS_Subset, SumIsInt
<1>2. ASSUME NEW T \in SUBSET S, \A U \in SUBSET T : U # T => U \in Q, NEW x \in T
      PROVE  sum(T) = f[x] + sum(T \ {x})
  <2> DEFINE c == Chosen(T)
  <2>1. c \in T /\ sum(T) = f[c] + sum(T \ {c})
    BY <1>1, ChosenIsMember, SumOfChosen
  <2>2. CASE c # x
    <3> DEFINE both == (T \ {c}) \ {x}
    <3>1. /\ T \ {c} \in Q /\ T \ {x} \in Q
          /\ x \in T \ {c} /\ c \in T \ {x} /\ (T \ {x}) \ {c} = both
      BY <1>2, <2>1, <2>2
    <3>2. sum(T \ {c}) = f[x] + sum(both) /\ sum(T \ {x}) = f[c] + sum(both)
      <4> HIDE DEF both, sum, c
      <4> QED
        BY <3>1 DEF both
    <3>3. f[c] \in Int /\ f[x] \in Int /\ sum(both) \in Int
      BY <1>1, <2>1
    <3> HIDE DEF both, sum, c
    <3> QED
      BY <2>1, <3>2, <3>3
  <2> QED
    BY <2>1, <2>2
<1>3. \A T \in SUBSET S : T \in Q
  <2>1. \A T \in SUBSET S : (\A U \in SUBSET T : U # T => U \in Q) => T \in Q
    BY <1>2
  <2> HIDE DEF Q
  <2> QED
    BY <2>1, SubsetInduction
<1> QED
  BY <1>3

LEMMA SumAddsOne ==
  ASSUME NEW f, NEW S, IsFiniteSet(S), NEW y, y \notin S, \A x \in S \cup {y} : f[x] \in Int
  PROVE  /\ SumFunctionOnSet(f, S \cup {y}) = SumFunctionOnSet(f, S) + f[y]
         /\ SumFunctionOnSet(f, S) \in Int
<1>1. IsFiniteSet(S \cup {y}) /\ (S \cup {y}) \ {y} = S
  BY FS_AddElement
<1>2. SumFunctionOnSet(f, S \cup {y}) = f[y] + SumFunctionOnSet(f, (S \cup {y}) \ {y})
  BY <1>1, SumTakesOut
<1>3. SumFunctionOnSet(f, S) \in Int /\ f[y] \in Int
  BY SumIsInt
<1>4. SumFunctionOnSet(f, S \cup {y}) = f[y] + SumFunctionOnSet(f, S)
  BY <1>1, <1>2
<1> QED
  BY <1>3, <1>4

\* Induction on a finite set, element by element.
LEMMA FiniteInduction ==
  ASSUME NEW S, IsFiniteSet(S), NEW Q, {} \in Q,
         \A T \in SUBSET S : \A x \in S \ T : T \in Q => T \cup {x} \in Q
  PROVE  S \in Q
<1>1. ASSUME NEW T \in SUBSET S, \A U \in SUBSET T : U # T => U \in Q
      PROVE  T \in Q
  <2>1. CASE T # {}
    <3>1. PICK x : x \in T
      BY <2>1
    <3>2. T \ {x} \in Q /\ T = (T \ {x}) \cup {x}
      BY <1>1, <3>1
    <3>3. (T \ {x}) \cup {x} \in Q
      BY <3>1, <3>2
    <3> QED
      BY <3>2, <3>3
  <2> QED
    BY <2>1
<1> QED
  BY <1>1, SubsetInduction

\* Only the values on the set count.
LEMMA SumOfSame ==
  ASSUME NEW f, NEW g, NEW S, IsFiniteSet(S), \A x \in S : f[x] \in Int /\ f[x] = g[x]
  PROVE  SumFunctionOnSet(f, S) = SumFunctionOnSet(g, S)
<1> DEFINE Q == {T \in SUBSET S : SumFunctionOnSet(f, T) = SumFunctionOnSet(g, T)}
<1>1. {} \in Q
  BY SumOfNothing
<1>2. ASSUME NEW T \in SUBSET S, NEW x \in S \ T, T \in Q PROVE T \cup {x} \in Q
  <2>1. IsFiniteSet(T)
    BY FS_Subset
  <2>2. /\ SumFunctionOnSet(f, T \cup {x}) = SumFunctionOnSet(f, T) + f[x]
        /\ SumFunctionOnSet(g, T \cup {x}) = SumFunctionOnSet(g, T) + g[x]
    BY <2>1, SumAddsOne
  <2> QED
    BY <1>2, <2>2
<1> HIDE DEF Q
<1>3. S \in Q
  BY <1>1, <1>2, FiniteInduction
<1> QED
  BY <1>3 DEF Q

\* Sums over disjoint sets add up.
LEMMA SumOfUnion ==
  ASSUME NEW f, NEW A, IsFiniteSet(A), NEW B, IsFiniteSet(B), A \cap B = {},
         \A x \in A \cup B : f[x] \in Int
  PROVE  SumFunctionOnSet(f, A \cup B) = SumFunctionOnSet(f, A) + SumFunctionOnSet(f, B)
<1> DEFINE Q == {T \in SUBSET B : SumFunctionOnSet(f, A \cup T)
                                    = SumFunctionOnSet(f, A) + SumFunctionOnSet(f, T)}
<1>0. SumFunctionOnSet(f, A) \in Int
  BY SumIsInt
<1>1. {} \in Q
  <2>1. A \cup {} = A
    OBVIOUS
  <2> QED
    BY <1>0, <2>1, SumOfNothing
<1>2. ASSUME NEW T \in SUBSET B, NEW x \in B \ T, T \in Q PROVE T \cup {x} \in Q
  <2>1. IsFiniteSet(T) /\ IsFiniteSet(A \cup T) /\ x \notin A \cup T /\ f[x] \in Int
    BY FS_Subset, FS_Union
  <2>2. /\ SumFunctionOnSet(f, T \cup {x}) = SumFunctionOnSet(f, T) + f[x]
        /\ SumFunctionOnSet(f, T) \in Int
    BY <2>1, SumAddsOne
  <2>3. SumFunctionOnSet(f, (A \cup T) \cup {x}) = SumFunctionOnSet(f, A \cup T) + f[x]
    BY <2>1, SumAddsOne
  <2>4. SumFunctionOnSet(f, A \cup T) = SumFunctionOnSet(f, A) + SumFunctionOnSet(f, T)
    BY <1>2
  <2>5. f[x] \in Int
    BY <2>1
  <2>6. SumFunctionOnSet(f, (A \cup T) \cup {x})
          = SumFunctionOnSet(f, A) + SumFunctionOnSet(f, T \cup {x})
    BY <1>0, <2>2, <2>3, <2>4, <2>5
  <2>7. (A \cup T) \cup {x} = A \cup (T \cup {x})
    OBVIOUS
  <2> QED
    BY <2>6, <2>7
<1> HIDE DEF Q
<1>3. B \in Q
  BY <1>1, <1>2, FiniteInduction
<1> QED
  BY <1>3 DEF Q

\* A set may be renamed.
LEMMA SumOfImage ==
  ASSUME NEW f, NEW g, NEW h, NEW S, IsFiniteSet(S),
         \A x, y \in S : h[x] = h[y] => x = y,
         \A x \in S : f[h[x]] \in Int /\ g[x] = f[h[x]]
  PROVE  /\ IsFiniteSet({h[x] : x \in S})
         /\ SumFunctionOnSet(f, {h[x] : x \in S}) = SumFunctionOnSet(g, S)
<1> DEFINE image(T) == {h[x] : x \in T}
           Q == {T \in SUBSET S : /\ IsFiniteSet(image(T))
                                  /\ SumFunctionOnSet(f, image(T)) = SumFunctionOnSet(g, T)}
<1>1. {} \in Q
  <2>1. image({}) = {}
    OBVIOUS
  <2> QED
    BY <2>1, SumOfNothing, FS_EmptySet
<1>2. ASSUME NEW T \in SUBSET S, NEW x \in S \ T, T \in Q PROVE T \cup {x} \in Q
  <2>1. /\ IsFiniteSet(T) /\ image(T \cup {x}) = image(T) \cup {h[x]} /\ h[x] \notin image(T)
        /\ IsFiniteSet(image(T))
    BY <1>2, FS_Subset
  <2>2. SumFunctionOnSet(g, T \cup {x}) = SumFunctionOnSet(g, T) + g[x]
    BY <2>1, SumAddsOne
  <2>3. SumFunctionOnSet(f, image(T) \cup {h[x]}) = SumFunctionOnSet(f, image(T)) + f[h[x]]
    <3>1. \A y \in image(T) \cup {h[x]} : f[y] \in Int
      OBVIOUS
    <3> HIDE DEF image
    <3> QED
      BY <2>1, <3>1, SumAddsOne
  <2>4. IsFiniteSet(image(T) \cup {h[x]})
    BY <2>1, FS_AddElement
  <2> QED
    BY <1>2, <2>1, <2>2, <2>3, <2>4
<1> HIDE DEF Q
<1>3. S \in Q
  BY <1>1, <1>2, FiniteInduction
<1> QED
  BY <1>3 DEF Q

LEMMA SumOfPairs ==
  ASSUME NEW f, NEW g, NEW h, NEW S, IsFiniteSet(S),
         \A x \in S : f[x] \in Int /\ g[x] \in Int /\ h[x] = f[x] + g[x]
  PROVE  SumFunctionOnSet(h, S) = SumFunctionOnSet(f, S) + SumFunctionOnSet(g, S)
<1> DEFINE Q == {T \in SUBSET S : SumFunctionOnSet(h, T)
                                    = SumFunctionOnSet(f, T) + SumFunctionOnSet(g, T)}
<1>1. {} \in Q
  BY SumOfNothing
<1>2. ASSUME NEW T \in SUBSET S, NEW x \in S \ T, T \in Q PROVE T \cup {x} \in Q
  <2>1. IsFiniteSet(T)
    BY FS_Subset
  <2>2. SumFunctionOnSet(h, T \cup {x}) = SumFunctionOnSet(h, T) + h[x]
    BY <2>1, SumAddsOne
  <2>3. /\ SumFunctionOnSet(f, T \cup {x}) = SumFunctionOnSet(f, T) + f[x]
        /\ SumFunctionOnSet(f, T) \in Int
    BY <2>1, SumAddsOne
  <2>4. /\ SumFunctionOnSet(g, T \cup {x}) = SumFunctionOnSet(g, T) + g[x]
        /\ SumFunctionOnSet(g, T) \in Int
    BY <2>1, SumAddsOne
  <2> QED
    BY <1>2, <2>2, <2>3, <2>4
<1> HIDE DEF Q
<1>3. S \in Q
  BY <1>1, <1>2, FiniteInduction
<1> QED
  BY <1>3 DEF Q

\* The sum over a family of disjoint sets is the sum of their sums.
IsFamily(f, g, I, A, U) ==
  /\ IsFiniteSet(I)
  /\ \A i \in I : IsFiniteSet(A[i]) /\ g[i] = SumFunctionOnSet(f, A[i])
  /\ \A i \in I : \A x \in A[i] : f[x] \in Int
  /\ \A i, j \in I : i # j => A[i] \cap A[j] = {}
  /\ \A x : x \in U <=> \E i \in I : x \in A[i]

LEMMA SumOfFamily ==
  ASSUME NEW f, NEW g, NEW I, NEW A, NEW U, IsFamily(f, g, I, A, U)
  PROVE  IsFiniteSet(U) /\ SumFunctionOnSet(f, U) = SumFunctionOnSet(g, I)
<1> USE DEF IsFamily
<1> DEFINE all(J) == UNION {A[i] : i \in J}
           Q == {J \in SUBSET I : /\ IsFiniteSet(all(J))
                                  /\ SumFunctionOnSet(f, all(J)) = SumFunctionOnSet(g, J)}
<1>0. \A i \in I : g[i] \in Int
  BY SumIsInt
<1>1. {} \in Q
  <2>1. all({}) = {}
    OBVIOUS
  <2> QED
    BY <2>1, SumOfNothing, FS_EmptySet
<1>2. ASSUME NEW J \in SUBSET I, NEW i \in I \ J, J \in Q PROVE J \cup {i} \in Q
  <2>1. /\ all(J \cup {i}) = all(J) \cup A[i] /\ all(J) \cap A[i] = {}
        /\ \A x \in all(J) \cup A[i] : f[x] \in Int
    OBVIOUS
  <2>2. IsFiniteSet(J) /\ IsFiniteSet(A[i]) /\ IsFiniteSet(all(J))
    BY <1>2, FS_Subset
  <2>3. SumFunctionOnSet(g, J \cup {i}) = SumFunctionOnSet(g, J) + g[i]
    BY <1>0, <2>2, SumAddsOne
  <2>4. /\ IsFiniteSet(all(J) \cup A[i])
        /\ SumFunctionOnSet(f, all(J) \cup A[i]) = SumFunctionOnSet(f, all(J)) + SumFunctionOnSet(f, A[i])
    <3> DEFINE X == all(J)
               Y == A[i]
    <3>1. IsFiniteSet(X) /\ IsFiniteSet(Y) /\ X \cap Y = {} /\ \A x \in X \cup Y : f[x] \in Int
      BY <2>1, <2>2
    <3> HIDE DEF X, Y
    <3>2. IsFiniteSet(X \cup Y)
      BY <3>1, FS_Union
    <3>3. SumFunctionOnSet(f, X \cup Y) = SumFunctionOnSet(f, X) + SumFunctionOnSet(f, Y)
      BY <3>1, SumOfUnion
    <3> QED
      BY <3>2, <3>3 DEF X, Y
  <2> QED
    BY <1>2, <2>1, <2>3, <2>4
<1> HIDE DEF Q
<1>3. I \in Q
  BY <1>1, <1>2, FiniteInduction
<1>4. all(I) = U
  OBVIOUS
<1> HIDE DEF all
<1> QED
  BY <1>3, <1>4 DEF Q

(* Sums of natural numbers. *)
LEMMA SumIsNat ==
  ASSUME NEW f, NEW S, IsFiniteSet(S), \A x \in S : f[x] \in Nat
  PROVE  SumFunctionOnSet(f, S) \in Nat
<1> DEFINE Q == {T \in SUBSET S : SumFunctionOnSet(f, T) \in Nat}
<1>1. {} \in Q
  BY SumOfNothing
<1>2. ASSUME NEW T \in SUBSET S, NEW x \in S \ T, T \in Q PROVE T \cup {x} \in Q
  <2>1. IsFiniteSet(T)
    BY FS_Subset
  <2>2. SumFunctionOnSet(f, T \cup {x}) = SumFunctionOnSet(f, T) + f[x]
    BY <2>1, SumAddsOne
  <2> QED
    BY <1>2, <2>2
<1> HIDE DEF Q
<1>3. S \in Q
  BY <1>1, <1>2, FiniteInduction
<1> QED
  BY <1>3 DEF Q

LEMMA SumOfSubset ==
  ASSUME NEW f, NEW S, IsFiniteSet(S), \A x \in S : f[x] \in Nat, NEW T \in SUBSET S
  PROVE  /\ SumFunctionOnSet(f, T) \in Nat /\ SumFunctionOnSet(f, S \ T) \in Nat
         /\ SumFunctionOnSet(f, S) = SumFunctionOnSet(f, T) + SumFunctionOnSet(f, S \ T)
<1>1. IsFiniteSet(T) /\ IsFiniteSet(S \ T) /\ T \cap (S \ T) = {} /\ S = T \cup (S \ T)
  BY FS_Subset
<1>2. SumFunctionOnSet(f, T) \in Nat /\ SumFunctionOnSet(f, S \ T) \in Nat
  BY <1>1, SumIsNat
<1> DEFINE R == S \ T
<1>3. IsFiniteSet(R) /\ T \cap R = {} /\ \A x \in T \cup R : f[x] \in Int
  BY <1>1
<1> HIDE DEF R
<1>4. SumFunctionOnSet(f, T \cup R) = SumFunctionOnSet(f, T) + SumFunctionOnSet(f, R)
  BY <1>1, <1>3, SumOfUnion
<1> QED
  BY <1>1, <1>2, <1>4 DEF R

LEMMA SumOfZeros ==
  ASSUME NEW f, NEW S, IsFiniteSet(S), \A x \in S : f[x] = 0
  PROVE  SumFunctionOnSet(f, S) = 0
<1> DEFINE Q == {T \in SUBSET S : SumFunctionOnSet(f, T) = 0}
<1>1. {} \in Q
  BY SumOfNothing
<1>2. ASSUME NEW T \in SUBSET S, NEW x \in S \ T, T \in Q PROVE T \cup {x} \in Q
  <2>1. IsFiniteSet(T)
    BY FS_Subset
  <2>2. SumFunctionOnSet(f, T \cup {x}) = SumFunctionOnSet(f, T) + f[x]
    BY <2>1, SumAddsOne
  <2> QED
    BY <1>2, <2>2
<1> HIDE DEF Q
<1>3. S \in Q
  BY <1>1, <1>2, FiniteInduction
<1> QED
  BY <1>3 DEF Q

LEMMA SumGrows ==
  ASSUME NEW f, NEW g, NEW S, IsFiniteSet(S),
         \A x \in S : f[x] \in Int /\ g[x] \in Int /\ f[x] <= g[x]
  PROVE  SumFunctionOnSet(f, S) <= SumFunctionOnSet(g, S)
<1> DEFINE Q == {T \in SUBSET S : SumFunctionOnSet(f, T) <= SumFunctionOnSet(g, T)}
<1>1. {} \in Q
  BY SumOfNothing
<1>2. ASSUME NEW T \in SUBSET S, NEW x \in S \ T, T \in Q PROVE T \cup {x} \in Q
  <2>1. IsFiniteSet(T)
    BY FS_Subset
  <2>2. /\ SumFunctionOnSet(f, T \cup {x}) = SumFunctionOnSet(f, T) + f[x]
        /\ SumFunctionOnSet(f, T) \in Int
    BY <2>1, SumAddsOne
  <2>3. /\ SumFunctionOnSet(g, T \cup {x}) = SumFunctionOnSet(g, T) + g[x]
        /\ SumFunctionOnSet(g, T) \in Int
    BY <2>1, SumAddsOne
  <2> QED
    BY <1>2, <2>2, <2>3
<1> HIDE DEF Q
<1>3. S \in Q
  BY <1>1, <1>2, FiniteInduction
<1> QED
  BY <1>3 DEF Q

-----------------------------------------------------------------------------
(* The payments, laid end to end *)

IsPaymentList(payments) ==
  payments \in Seq(Range(payments)) /\ \A i \in DOMAIN payments : payments[i][2] \in Nat \ {0}

\* How far the first k payments reach.
Reach(payments, k) == SumFunctionOnSet(Amounts(payments), 1..k)

LEMMA ListPositions ==
  ASSUME NEW s, s \in Seq(Range(s))
  PROVE  /\ Len(s) \in Nat /\ DOMAIN s = 1..Len(s) /\ IsFiniteSet(DOMAIN s)
<1>1. Len(s) \in Nat /\ DOMAIN s = 1..Len(s)
  OBVIOUS
<1> QED
  BY <1>1, FS_Interval

LEMMA PaymentAmounts ==
  ASSUME NEW payments, IsPaymentList(payments)
  PROVE  /\ DOMAIN Amounts(payments) = DOMAIN payments
         /\ \A i \in DOMAIN payments : /\ Amounts(payments)[i] = payments[i][2]
                                       /\ Amounts(payments)[i] \in Nat \ {0}
  BY DEF IsPaymentList, Amounts

LEMMA ReachGrows ==
  ASSUME NEW payments, IsPaymentList(payments)
  PROVE  /\ Reach(payments, 0) = 0
         /\ \A k \in 0..Len(payments) : Reach(payments, k) \in Nat
         /\ \A i \in DOMAIN payments :
              /\ StartOf(payments, i) = Reach(payments, i - 1)
              /\ Reach(payments, i) = Reach(payments, i - 1) + payments[i][2]
         /\ TotalOf(payments) = Reach(payments, Len(payments))
<1> DEFINE A == Amounts(payments)
           n == Len(payments)
<1>1. n \in Nat /\ DOMAIN payments = 1..n
  BY ListPositions DEF IsPaymentList
<1>2. \A i \in 1..n : A[i] = payments[i][2] /\ A[i] \in Nat
  BY <1>1, PaymentAmounts
<1>3. ASSUME NEW k \in 0..n PROVE SumFunctionOnSet(A, 1..k) \in Nat
  <2> HIDE DEF A
  <2>1. IsFiniteSet(1..k)
    BY <1>1, FS_Interval
  <2>2. \A i \in 1..k : A[i] \in Nat
    BY <1>1, <1>2
  <2> QED
    BY <2>1, <2>2, SumIsNat
<1>4. ASSUME NEW i \in 1..n
      PROVE  SumFunctionOnSet(A, 1..i) = SumFunctionOnSet(A, 1..(i - 1)) + A[i]
  <2> DEFINE T == 1..(i - 1)
  <2> HIDE DEF A
  <2>1. IsFiniteSet(T)
    BY <1>1, FS_Interval
  <2>2. i \notin T /\ 1..i = T \cup {i}
    BY <1>1
  <2>3. \A x \in T \cup {i} : A[x] \in Int
    BY <1>1, <1>2
  <2> HIDE DEF T
  <2>4. SumFunctionOnSet(A, T \cup {i}) = SumFunctionOnSet(A, T) + A[i]
    BY <2>1, <2>2, <2>3, SumAddsOne
  <2> QED
    BY <2>2, <2>4 DEF T
<1>5. SumFunctionOnSet(A, 1..0) = 0
  <2>1. 1..0 = {}
    OBVIOUS
  <2> QED
    BY <2>1, SumOfNothing
<1>6. TotalOf(payments) = SumFunctionOnSet(A, 1..n)
  BY <1>1, PaymentAmounts DEF TotalOf, SumFunction
<1> HIDE DEF A
<1> QED
  BY <1>1, <1>2, <1>3, <1>4, <1>5, <1>6 DEF Reach, StartOf, A

\* Later payments start where the earlier ones end, or further on.
LEMMA ReachIsMonotone ==
  ASSUME NEW payments, IsPaymentList(payments),
         NEW k \in 0..Len(payments), NEW m \in 0..Len(payments), k <= m
  PROVE  Reach(payments, k) <= Reach(payments, m)
<1> DEFINE n == Len(payments)
           Q == {d \in Nat : k + d <= n => Reach(payments, k) <= Reach(payments, k + d)}
<1>0. n \in Nat /\ DOMAIN payments = 1..n
  BY ListPositions DEF IsPaymentList
<1>1. 0 \in Q
  BY <1>0, ReachGrows
<1>2. ASSUME NEW d \in Nat, d \in Q PROVE d + 1 \in Q
  <2>1. SUFFICES ASSUME k + (d + 1) <= n
                 PROVE  Reach(payments, k) <= Reach(payments, k + (d + 1))
    OBVIOUS
  <2> DEFINE i == k + (d + 1)
  <2>2. i \in DOMAIN payments /\ i - 1 = k + d /\ k + d \in 0..n /\ k + d <= n
    BY <1>0, <2>1
  <2>3. Reach(payments, k) <= Reach(payments, k + d)
    BY <1>2, <2>2
  <2>4. Reach(payments, i) = Reach(payments, i - 1) + payments[i][2] /\ payments[i][2] \in Nat
    <3> HIDE DEF i
    <3> QED
      BY <2>2, ReachGrows DEF IsPaymentList
  <2>5. Reach(payments, k) \in Nat /\ Reach(payments, k + d) \in Nat
    BY <2>2, ReachGrows
  <2> HIDE DEF i
  <2>6. Reach(payments, k) <= Reach(payments, i)
    BY <2>2, <2>3, <2>4, <2>5
  <2> QED
    BY <2>6 DEF i
<1> HIDE DEF Q
<1>3. m - k \in Q
  BY <1>1, <1>2, NaturalInduction
<1>4. k + (m - k) = m /\ m <= n
  BY <1>0
<1> QED
  BY <1>3, <1>4 DEF Q

-----------------------------------------------------------------------------
(* What lies between two positions of the line *)

Part(payments, i, from, to) == Larger(0, Overlap(payments, i, from, to))
Parts(payments, from, to) == [i \in DOMAIN payments |-> Part(payments, i, from, to)]
PaidIn(payments, J, from, to) == SumFunctionOnSet(Parts(payments, from, to), J)

LEMMA ReachFacts ==
  ASSUME NEW payments, IsPaymentList(payments), NEW i \in DOMAIN payments
  PROVE  /\ Reach(payments, i - 1) \in Nat /\ Reach(payments, i) \in Nat
         /\ payments[i][2] \in Nat /\ payments[i][2] > 0
         /\ Reach(payments, i) = Reach(payments, i - 1) + payments[i][2]
         /\ Reach(payments, i) <= TotalOf(payments) /\ TotalOf(payments) \in Nat
<1>1. Len(payments) \in Nat /\ DOMAIN payments = 1..Len(payments)
  BY ListPositions DEF IsPaymentList
<1>2. payments[i][2] \in Nat \ {0}
  BY DEF IsPaymentList
<1>3. /\ Reach(payments, i - 1) \in Nat /\ Reach(payments, i) \in Nat
      /\ Reach(payments, i) = Reach(payments, i - 1) + payments[i][2]
  BY <1>1, ReachGrows
<1>4. Reach(payments, i) <= TotalOf(payments) /\ TotalOf(payments) \in Nat
  BY <1>1, ReachGrows, ReachIsMonotone
<1> QED
  BY <1>2, <1>3, <1>4

LEMMA PartIs ==
  ASSUME NEW payments, IsPaymentList(payments), NEW J \in SUBSET DOMAIN payments, NEW i \in J,
         NEW from \in Nat, NEW to \in Nat
  PROVE  /\ Parts(payments, from, to)[i]
              = Larger(0, Smaller(Reach(payments, i), to) - Larger(Reach(payments, i - 1), from))
         /\ Parts(payments, from, to)[i] \in Nat
<1>1. i \in DOMAIN payments
  OBVIOUS
<1>2. StartOf(payments, i) = Reach(payments, i - 1)
  BY <1>1, ReachGrows
<1>3. Parts(payments, from, to)[i]
        = Larger(0, Smaller(Reach(payments, i), to) - Larger(Reach(payments, i - 1), from))
  BY <1>1, <1>2, ReachFacts DEF Parts, Part, Overlap
<1> QED
  BY <1>1, <1>3, ReachFacts DEF Larger, Smaller

\* Two stretches that meet are one stretch.
LEMMA PartsMeet ==
  ASSUME NEW payments, IsPaymentList(payments), NEW J \in SUBSET DOMAIN payments,
         NEW from \in Nat, NEW mid \in Nat, NEW to \in Nat, from <= mid, mid <= to
  PROVE  PaidIn(payments, J, from, to) = PaidIn(payments, J, from, mid) + PaidIn(payments, J, mid, to)
<1>1. ASSUME NEW i \in J
      PROVE  /\ Parts(payments, from, mid)[i] \in Int /\ Parts(payments, mid, to)[i] \in Int
             /\ Parts(payments, from, to)[i]
                  = Parts(payments, from, mid)[i] + Parts(payments, mid, to)[i]
  <2>1. i \in DOMAIN payments
    OBVIOUS
  <2> DEFINE start == Reach(payments, i - 1)
             end == Reach(payments, i)
  <2>2. start \in Nat /\ end \in Nat /\ start < end
    BY <2>1, ReachFacts
  <2>3. ASSUME NEW a \in Nat, NEW b \in Nat
        PROVE  Parts(payments, a, b)[i] = Larger(0, Smaller(end, b) - Larger(start, a))
    BY PartIs
  <2> HIDE DEF start, end
  <2>4. /\ Parts(payments, from, to)[i] = Larger(0, Smaller(end, to) - Larger(start, from))
        /\ Parts(payments, from, mid)[i] = Larger(0, Smaller(end, mid) - Larger(start, from))
        /\ Parts(payments, mid, to)[i] = Larger(0, Smaller(end, to) - Larger(start, mid))
    BY <2>3
  <2> QED
    BY <2>2, <2>4 DEF Larger, Smaller
<1>2. IsFiniteSet(J)
  BY ListPositions, FS_Subset DEF IsPaymentList
<1> QED
  BY <1>1, <1>2, SumOfPairs DEF PaidIn

\* Between a position and itself lies nothing.
LEMMA NothingPaid ==
  ASSUME NEW payments, IsPaymentList(payments), NEW J \in SUBSET DOMAIN payments, NEW m \in Nat
  PROVE  PaidIn(payments, J, m, m) = 0
<1>1. ASSUME NEW i \in J PROVE Parts(payments, m, m)[i] = 0
  <2>1. Parts(payments, m, m)[i]
          = Larger(0, Smaller(Reach(payments, i), m) - Larger(Reach(payments, i - 1), m))
    BY PartIs
  <2>2. Reach(payments, i) \in Nat /\ Reach(payments, i - 1) \in Nat
    <3>1. i \in DOMAIN payments
      OBVIOUS
    <3> QED
      BY <3>1, ReachFacts
  <2> QED
    BY <2>1, <2>2 DEF Larger, Smaller
<1>2. IsFiniteSet(J)
  BY ListPositions, FS_Subset DEF IsPaymentList
<1> QED
  BY <1>1, <1>2, SumOfZeros DEF PaidIn

\* The whole line is the payments.
LEMMA AllPaid ==
  ASSUME NEW payments, IsPaymentList(payments), NEW J \in SUBSET DOMAIN payments
  PROVE  PaidIn(payments, J, 0, TotalOf(payments)) = SumFunctionOnSet(Amounts(payments), J)
<1>1. ASSUME NEW i \in J
      PROVE  /\ Parts(payments, 0, TotalOf(payments))[i] \in Int
             /\ Parts(payments, 0, TotalOf(payments))[i] = Amounts(payments)[i]
  <2> DEFINE T == TotalOf(payments)
  <2>0. i \in DOMAIN payments
    OBVIOUS
  <2>1. T \in Nat
    BY <2>0, ReachFacts
  <2>2. Parts(payments, 0, T)[i]
          = Larger(0, Smaller(Reach(payments, i), T) - Larger(Reach(payments, i - 1), 0))
    <3> HIDE DEF T
    <3> QED
      BY <2>1, PartIs
  <2>3. /\ Reach(payments, i - 1) \in Nat /\ payments[i][2] \in Nat
        /\ Reach(payments, i) = Reach(payments, i - 1) + payments[i][2] /\ Reach(payments, i) <= T
    BY <2>0, ReachFacts
  <2>4. Amounts(payments)[i] = payments[i][2]
    BY <2>0, PaymentAmounts
  <2> HIDE DEF T
  <2>5. Parts(payments, 0, T)[i] \in Int /\ Parts(payments, 0, T)[i] = Amounts(payments)[i]
    BY <2>1, <2>2, <2>3, <2>4 DEF Larger, Smaller
  <2> QED
    BY <2>5 DEF T
<1>2. IsFiniteSet(J)
  BY ListPositions, FS_Subset DEF IsPaymentList
<1> QED
  BY <1>1, <1>2, SumOfSame DEF PaidIn

\* From the start up to m lies m.
LEMMA PaidUpTo ==
  ASSUME NEW payments, IsPaymentList(payments), NEW m \in 0..TotalOf(payments)
  PROVE  PaidIn(payments, DOMAIN payments, 0, m) = m
<1> DEFINE n == Len(payments)
           f == Parts(payments, 0, m)
           Q == {k \in Nat : k <= n => SumFunctionOnSet(f, 1..k) = Smaller(Reach(payments, k), m)}
<1>0. n \in Nat /\ DOMAIN payments = 1..n /\ TotalOf(payments) = Reach(payments, n)
      /\ Reach(payments, n) \in Nat /\ m \in Nat
  BY ListPositions, ReachGrows DEF IsPaymentList
<1>1. 0 \in Q
  <2>1. 1..0 = {} /\ Reach(payments, 0) = 0
    BY ReachGrows
  <2>2. Smaller(0, m) = 0
    BY <1>0 DEF Smaller
  <2> QED
    BY <2>1, <2>2, SumOfNothing
<1>2. ASSUME NEW k \in Nat, k \in Q PROVE k + 1 \in Q
  <2>1. SUFFICES ASSUME k + 1 <= n
                 PROVE  SumFunctionOnSet(f, 1..(k + 1)) = Smaller(Reach(payments, k + 1), m)
    OBVIOUS
  <2> DEFINE i == k + 1
             T == 1..k
  <2>2. i \in DOMAIN payments /\ i - 1 = k /\ k <= n
    BY <1>0, <2>1
  <2>3. SumFunctionOnSet(f, T) = Smaller(Reach(payments, k), m)
    BY <1>2, <2>2
  <2>4. \A x \in T \cup {i} : f[x] \in Int
    <3> DEFINE U == T \cup {i}
    <3>1. U \in SUBSET DOMAIN payments
      BY <1>0, <2>1
    <3> HIDE DEF U
    <3>2. \A x \in U : Parts(payments, 0, m)[x] \in Nat
      BY <1>0, <3>1, PartIs
    <3> QED
      BY <3>2 DEF U
  <2>5. IsFiniteSet(T) /\ i \notin T /\ 1..i = T \cup {i}
    BY FS_Interval
  <2>6. f[i] = Larger(0, Smaller(Reach(payments, i), m) - Larger(Reach(payments, i - 1), 0))
    <3>1. DOMAIN payments \in SUBSET DOMAIN payments
      OBVIOUS
    <3> HIDE DEF i
    <3> QED
      BY <1>0, <2>2, <3>1, PartIs
  <2>7. /\ Reach(payments, i - 1) \in Nat /\ payments[i][2] \in Nat
        /\ Reach(payments, i) = Reach(payments, i - 1) + payments[i][2]
    <3> HIDE DEF i
    <3> QED
      BY <2>2, ReachFacts
  <2> HIDE DEF f, i, T
  <2>8. SumFunctionOnSet(f, T \cup {i}) = SumFunctionOnSet(f, T) + f[i]
    BY <2>4, <2>5, SumAddsOne
  <2>9. SumFunctionOnSet(f, T \cup {i}) = Smaller(Reach(payments, i), m)
    BY <1>0, <2>2, <2>3, <2>6, <2>7, <2>8 DEF Larger, Smaller
  <2> QED
    BY <2>5, <2>9 DEF i
<1> HIDE DEF Q
<1>3. n \in Q
  BY <1>0, <1>1, <1>2, NaturalInduction
<1>4. SumFunctionOnSet(f, 1..n) = Smaller(Reach(payments, n), m)
  BY <1>0, <1>3 DEF Q
<1> QED
  BY <1>0, <1>4 DEF PaidIn, Smaller

-----------------------------------------------------------------------------
(* The outputs of a chunk *)

Touched(payments, from, to) == {i \in DOMAIN payments : Overlap(payments, i, from, to) > 0}
OfAddress(payments, a) == {i \in DOMAIN payments : payments[i][1] = a}

LEMMA OverlapIs ==
  ASSUME NEW payments, IsPaymentList(payments), NEW i \in DOMAIN payments,
         NEW from \in Nat, NEW to \in Nat
  PROVE  /\ Overlap(payments, i, from, to)
              = Smaller(Reach(payments, i), to) - Larger(Reach(payments, i - 1), from)
         /\ Overlap(payments, i, from, to) \in Int
         /\ Parts(payments, from, to)[i] = Larger(0, Overlap(payments, i, from, to))
<1>1. StartOf(payments, i) = Reach(payments, i - 1)
  BY ReachGrows
<1>2. Overlap(payments, i, from, to)
        = Smaller(Reach(payments, i), to) - Larger(Reach(payments, i - 1), from)
  BY <1>1, ReachFacts DEF Overlap
<1> QED
  BY <1>2, ReachFacts DEF Larger, Smaller, Parts, Part

\* What a stretch touches are neighbours.
LEMMA TouchedIsInterval ==
  ASSUME NEW payments, IsPaymentList(payments), NEW from \in Nat, NEW to \in Nat,
         Touched(payments, from, to) # {}
  PROVE  \E lo, hi \in Nat : /\ lo = Min(Touched(payments, from, to)) /\ lo <= hi
                             /\ Touched(payments, from, to) = lo..hi
<1> DEFINE X == Touched(payments, from, to)
           n == Len(payments)
           D == {n - x : x \in X}
<1>1. n \in Nat /\ DOMAIN payments = 1..n
  BY ListPositions DEF IsPaymentList
<1>2. X \in SUBSET (1..n) /\ X \in SUBSET Nat
  BY <1>1 DEF Touched
<1>3. PICK lo \in X : \A x \in X : lo <= x
  <2> HIDE DEF X
  <2> QED
    BY <1>2, LeastNatural DEF X
<1>4. PICK hi \in X : \A x \in X : x <= hi
  <2>1. D \in SUBSET Nat /\ D # {}
    <3> HIDE DEF X
    <3> QED
      BY <1>1, <1>2, <1>3
  <2>2. PICK d \in D : \A e \in D : d <= e
    <3> HIDE DEF D
    <3> QED
      BY <2>1, LeastNatural
  <2>3. PICK x \in X : d = n - x
    OBVIOUS
  <2> HIDE DEF X
  <2>4. \A y \in X : n - y \in D
    OBVIOUS
  <2>5. \A y \in X : y <= x
    <3> SUFFICES ASSUME NEW y \in X PROVE y <= x
      OBVIOUS
    <3>1. d <= n - y
      BY <2>2, <2>4
    <3> QED
      BY <1>1, <1>2, <2>3, <3>1
  <2> QED
    BY <2>5
<1>5. lo \in Nat /\ hi \in Nat /\ lo <= hi /\ lo \in 1..n /\ hi \in 1..n
  <2> HIDE DEF X
  <2> QED
    BY <1>2, <1>3, <1>4
<1>6. ASSUME NEW k \in lo..hi PROVE k \in X
  <2>1. CASE k = lo \/ k = hi
    BY <1>3, <1>4, <2>1
  <2>2. CASE lo < k /\ k < hi
    <3>1. k \in DOMAIN payments /\ lo \in DOMAIN payments /\ hi \in DOMAIN payments
      BY <1>1, <1>5
    <3>2. /\ Overlap(payments, lo, from, to) > 0 /\ Overlap(payments, hi, from, to) > 0
      BY <1>3, <1>4 DEF Touched
    <3>3. from < Reach(payments, lo)
      <4>1. Overlap(payments, lo, from, to)
              = Smaller(Reach(payments, lo), to) - Larger(Reach(payments, lo - 1), from)
        BY <3>1, OverlapIs
      <4>2. Reach(payments, lo) \in Nat /\ Reach(payments, lo - 1) \in Nat
        BY <3>1, ReachFacts
      <4> QED
        BY <3>2, <4>1, <4>2 DEF Larger, Smaller
    <3>4. Reach(payments, hi - 1) < to
      <4>1. Overlap(payments, hi, from, to)
              = Smaller(Reach(payments, hi), to) - Larger(Reach(payments, hi - 1), from)
        BY <3>1, OverlapIs
      <4>2. Reach(payments, hi) \in Nat /\ Reach(payments, hi - 1) \in Nat
        BY <3>1, ReachFacts
      <4> QED
        BY <3>2, <4>1, <4>2 DEF Larger, Smaller
    <3>5. Reach(payments, lo) <= Reach(payments, k - 1)
      <4>1. lo \in 0..n /\ k - 1 \in 0..n /\ lo <= k - 1
        BY <1>1, <1>5, <2>2
      <4> QED
        BY <4>1, ReachIsMonotone
    <3>6. Reach(payments, k) <= Reach(payments, hi - 1)
      <4>1. k \in 0..n /\ hi - 1 \in 0..n /\ k <= hi - 1
        BY <1>1, <1>5, <2>2
      <4> QED
        BY <4>1, ReachIsMonotone
    <3>7. /\ Reach(payments, lo) \in Nat /\ Reach(payments, hi - 1) \in Nat
          /\ Reach(payments, k - 1) \in Nat /\ Reach(payments, k) \in Nat
          /\ Reach(payments, k) = Reach(payments, k - 1) + payments[k][2]
          /\ payments[k][2] \in Nat /\ payments[k][2] > 0
      BY <3>1, ReachFacts
    <3>8. Overlap(payments, k, from, to)
            = Smaller(Reach(payments, k), to) - Larger(Reach(payments, k - 1), from)
      BY <3>1, OverlapIs
    <3>9. Overlap(payments, k, from, to) > 0
      BY <3>3, <3>4, <3>5, <3>6, <3>7, <3>8 DEF Larger, Smaller
    <3> QED
      BY <3>1, <3>9 DEF Touched
  <2> HIDE DEF X
  <2> QED
    BY <1>5, <2>1, <2>2
<1>7. X = lo..hi
  <2> HIDE DEF X
  <2>1. X \subseteq lo..hi
    BY <1>2, <1>3, <1>4, <1>5
  <2>2. lo..hi \subseteq X
    BY <1>6
  <2> QED
    BY <2>1, <2>2
<1>8. lo = Min(X)
  <2> DEFINE m == Min(X)
  <2>1. m \in X /\ \A y \in X : m <= y
    BY <1>3 DEF Min
  <2> HIDE DEF m, X
  <2>2. m <= lo /\ lo <= m /\ m \in Nat
    BY <1>2, <1>3, <2>1
  <2> QED
    BY <1>5, <2>2 DEF m
<1> QED
  BY <1>5, <1>7, <1>8

\* The outputs are the touched payments, in their order.
LEMMA OutputsAre ==
  ASSUME NEW payments, IsPaymentList(payments), NEW from \in Nat, NEW to \in Nat
  PROVE  \E lo, n \in Nat :
           /\ DOMAIN PaidBetween(payments, from, to) = 1..n
           /\ \A k \in 1..n : PaidBetween(payments, from, to)[k]
                = <<payments[lo + k - 1][1], Overlap(payments, lo + k - 1, from, to)>>
           /\ Touched(payments, from, to) = {lo + k - 1 : k \in 1..n}
           /\ PaidBetween(payments, from, to) \in Seq(Range(PaidBetween(payments, from, to)))
<1> DEFINE X == Touched(payments, from, to)
           o == PaidBetween(payments, from, to)
           at(i) == <<payments[i][1], Overlap(payments, i, from, to)>>
<1>1. o = [k \in 1..Cardinality(X) |-> at(Min(X) + k - 1)]
  BY DEF PaidBetween, Touched
<1>2. PICK lo, n \in Nat : /\ Cardinality(X) = n /\ (n > 0 => lo = Min(X))
                           /\ X = {lo + k - 1 : k \in 1..n}
  <2>1. CASE X = {}
    <3>1. Cardinality(X) = 0
      BY <2>1, FS_EmptySet
    <3>2. X = {0 + k - 1 : k \in 1..0}
      BY <2>1
    <3> HIDE DEF X
    <3> QED
      BY <3>1, <3>2
  <2>2. CASE X # {}
    <3>1. PICK lo, hi \in Nat : lo = Min(X) /\ lo <= hi /\ X = lo..hi
      BY <2>2, TouchedIsInterval
    <3>2. Cardinality(lo..hi) = hi - lo + 1
      BY <3>1, FS_Interval
    <3>3. lo..hi = {lo + k - 1 : k \in 1..(hi - lo + 1)}
      <4>1. ASSUME NEW x \in lo..hi PROVE \E k \in 1..(hi - lo + 1) : x = lo + k - 1
        <5>1. x - lo + 1 \in 1..(hi - lo + 1) /\ x = lo + (x - lo + 1) - 1
          BY <3>1
        <5> QED
          BY <5>1
      <4>2. ASSUME NEW k \in 1..(hi - lo + 1) PROVE lo + k - 1 \in lo..hi
        BY <3>1
      <4> QED
        BY <4>1, <4>2
    <3>4. hi - lo + 1 \in Nat
      BY <3>1
    <3> HIDE DEF X
    <3>5. Cardinality(X) = hi - lo + 1 /\ X = {lo + k - 1 : k \in 1..(hi - lo + 1)}
      BY <3>1, <3>2, <3>3
    <3> QED
      BY <3>1, <3>4, <3>5
  <2> QED
    BY <2>1, <2>2
<1>3. DOMAIN o = 1..n /\ \A k \in 1..n : o[k] = at(lo + k - 1)
  <2> HIDE DEF at, X, o
  <2>1. \A k \in 1..n : n > 0
    BY <1>2
  <2> QED
    BY <1>1, <1>2, <2>1
<1>4. o \in Seq(Range(o))
  <2>1. o \in [1..n -> Range(o)]
    <3>1. \E c : o = [k \in 1..c |-> at(Min(X) + k - 1)]
      BY <1>1
    <3> HIDE DEF o, at, X
    <3>2. o = [k \in DOMAIN o |-> o[k]]
      BY <3>1
    <3> QED
      BY <1>3, <3>2 DEF Range
  <2> HIDE DEF o
  <2> QED
    BY <1>2, <2>1
<1> HIDE DEF o
<1> QED
  BY <1>2, <1>3, <1>4 DEF o

\* What the outputs pay for some of the payments is what these have there.
LEMMA OutputsPay ==
  ASSUME NEW payments, IsPaymentList(payments), NEW from \in Nat, NEW to \in Nat
  PROVE  /\ IsPaymentList(PaidBetween(payments, from, to))
         /\ TotalOf(PaidBetween(payments, from, to)) = PaidIn(payments, DOMAIN payments, from, to)
         /\ \A a : TotalTo(PaidBetween(payments, from, to), a)
                     = PaidIn(payments, OfAddress(payments, a), from, to)
<1> DEFINE o == PaidBetween(payments, from, to)
           X == Touched(payments, from, to)
           f == Parts(payments, from, to)
<1>1. PICK lo, n \in Nat :
        /\ DOMAIN o = 1..n
        /\ \A k \in 1..n : o[k] = <<payments[lo + k - 1][1], Overlap(payments, lo + k - 1, from, to)>>
        /\ X = {lo + k - 1 : k \in 1..n}
        /\ o \in Seq(Range(o))
  BY OutputsAre
<1>2. X \in SUBSET DOMAIN payments /\ IsFiniteSet(DOMAIN payments)
  BY ListPositions DEF IsPaymentList, Touched
<1>3. \A i \in X : f[i] = Overlap(payments, i, from, to) /\ f[i] \in Nat \ {0}
  <2> SUFFICES ASSUME NEW i \in X
               PROVE  f[i] = Overlap(payments, i, from, to) /\ f[i] \in Nat \ {0}
    OBVIOUS
  <2>1. i \in DOMAIN payments /\ Overlap(payments, i, from, to) > 0
    BY DEF Touched
  <2>2. Overlap(payments, i, from, to) \in Int /\ f[i] = Larger(0, Overlap(payments, i, from, to))
    BY <2>1, OverlapIs
  <2> HIDE DEF f
  <2> QED
    BY <2>1, <2>2 DEF Larger
<1>4. \A i \in DOMAIN payments \ X : f[i] = 0
  <2> SUFFICES ASSUME NEW i \in DOMAIN payments \ X PROVE f[i] = 0
    OBVIOUS
  <2>1. i \in DOMAIN payments /\ ~ (Overlap(payments, i, from, to) > 0)
    BY DEF Touched
  <2>2. Overlap(payments, i, from, to) \in Int /\ f[i] = Larger(0, Overlap(payments, i, from, to))
    BY <2>1, OverlapIs
  <2> HIDE DEF f
  <2> QED
    BY <2>1, <2>2 DEF Larger
<1>5. \A k \in 1..n : /\ lo + k - 1 \in X /\ o[k][1] = payments[lo + k - 1][1]
                      /\ o[k][2] = f[lo + k - 1] /\ o[k][2] \in Nat \ {0}
  <2> SUFFICES ASSUME NEW k \in 1..n
               PROVE  /\ lo + k - 1 \in X /\ o[k][1] = payments[lo + k - 1][1]
                      /\ o[k][2] = f[lo + k - 1] /\ o[k][2] \in Nat \ {0}
    OBVIOUS
  <2> HIDE DEF o, X, f
  <2>1. lo + k - 1 \in X
    BY <1>1
  <2>2. o[k][1] = payments[lo + k - 1][1] /\ o[k][2] = Overlap(payments, lo + k - 1, from, to)
    BY <1>1
  <2> QED
    BY <1>3, <2>1, <2>2
<1> HIDE DEF o, X, f
<1>6. IsPaymentList(o)
  BY <1>1, <1>5 DEF IsPaymentList
<1>7. DOMAIN Amounts(o) = 1..n /\ \A k \in 1..n : Amounts(o)[k] = o[k][2]
  BY <1>1 DEF Amounts
<1>8. ASSUME NEW J \in SUBSET DOMAIN payments
      PROVE  SumFunctionOnSet(Amounts(o), {k \in 1..n : lo + k - 1 \in J}) = SumFunctionOnSet(f, J)
  <2> DEFINE K == {k \in 1..n : lo + k - 1 \in J}
             h == [k \in 1..n |-> lo + k - 1]
             image == {h[k] : k \in K}
  <2>1. IsFiniteSet(K)
    <3>1. IsFiniteSet(1..n) /\ K \in SUBSET (1..n)
      BY FS_Interval
    <3> HIDE DEF K
    <3> QED
      BY <3>1, FS_Subset
  <2>2. \A k, m \in K : h[k] = h[m] => k = m
    OBVIOUS
  <2>3. \A k \in K : h[k] = lo + k - 1 /\ k \in 1..n
    OBVIOUS
  <2>4. \A k \in K : f[h[k]] \in Int /\ Amounts(o)[k] = f[h[k]]
    <3> HIDE DEF h, K
    <3> QED
      BY <1>5, <1>7, <2>3
  <2>5. IsFiniteSet(image) /\ SumFunctionOnSet(f, image) = SumFunctionOnSet(Amounts(o), K)
    <3> HIDE DEF h, K
    <3> QED
      BY <2>1, <2>2, <2>4, SumOfImage
  <2>6. image = J \cap X
    <3>1. ASSUME NEW x \in J \cap X PROVE x \in image
      <4>1. PICK k \in 1..n : x = lo + k - 1
        BY <1>1
      <4>2. k \in K /\ h[k] = x
        BY <4>1
      <4> QED
        BY <4>2
    <3>2. ASSUME NEW k \in K PROVE h[k] \in J \cap X
      BY <1>5
    <3> HIDE DEF h, K
    <3> QED
      BY <3>1, <3>2
  <2>7. SumFunctionOnSet(f, J) = SumFunctionOnSet(f, J \cap X)
    <3> DEFINE T == J \cap X
               R == J \ T
    <3>1. IsFiniteSet(J) /\ IsFiniteSet(R) /\ T \in SUBSET J
      BY <1>2, FS_Subset
    <3>2. \A x \in J : f[x] \in Nat
      BY <1>3, <1>4
    <3>3. \A x \in R : f[x] = 0
      BY <1>4
    <3> HIDE DEF R, T
    <3>4. SumFunctionOnSet(f, R) = 0
      BY <3>1, <3>3, SumOfZeros
    <3>5. SumFunctionOnSet(f, T) \in Nat
          /\ SumFunctionOnSet(f, J) = SumFunctionOnSet(f, T) + SumFunctionOnSet(f, J \ T)
      BY <3>1, <3>2, SumOfSubset
    <3>6. SumFunctionOnSet(f, J \ T) = 0
      BY <3>4 DEF R
    <3>7. SumFunctionOnSet(f, J) = SumFunctionOnSet(f, T)
      BY <3>5, <3>6
    <3> QED
      BY <3>7 DEF T
  <2> HIDE DEF K, image
  <2>8. SumFunctionOnSet(Amounts(o), K) = SumFunctionOnSet(f, J)
    BY <2>5, <2>6, <2>7
  <2> QED
    BY <2>8 DEF K
<1>9. TotalOf(o) = SumFunctionOnSet(f, DOMAIN payments)
  <2>1. {k \in 1..n : lo + k - 1 \in DOMAIN payments} = 1..n
    BY <1>2, <1>5
  <2>2. TotalOf(o) = SumFunctionOnSet(Amounts(o), 1..n)
    BY <1>7 DEF TotalOf, SumFunction
  <2>3. DOMAIN payments \in SUBSET DOMAIN payments
    OBVIOUS
  <2>4. SumFunctionOnSet(Amounts(o), {k \in 1..n : lo + k - 1 \in DOMAIN payments})
          = SumFunctionOnSet(f, DOMAIN payments)
    BY <1>8, <2>3
  <2> QED
    BY <2>1, <2>2, <2>4
<1>10. ASSUME NEW a PROVE TotalTo(o, a) = SumFunctionOnSet(f, OfAddress(payments, a))
  <2> DEFINE J == OfAddress(payments, a)
  <2>1. J \in SUBSET DOMAIN payments
    BY DEF OfAddress
  <2>2. {k \in 1..n : lo + k - 1 \in J} = {k \in DOMAIN o : o[k][1] = a}
    BY <1>1, <1>2, <1>5 DEF OfAddress
  <2>3. TotalTo(o, a) = SumFunctionOnSet(Amounts(o), {k \in DOMAIN o : o[k][1] = a})
    BY DEF TotalTo
  <2> HIDE DEF J
  <2>4. SumFunctionOnSet(Amounts(o), {k \in 1..n : lo + k - 1 \in J}) = SumFunctionOnSet(f, J)
    BY <1>8, <2>1
  <2>5. TotalTo(o, a) = SumFunctionOnSet(f, J)
    BY <2>2, <2>3, <2>4
  <2> QED
    BY <2>5 DEF J
<1> QED
  BY <1>6, <1>9, <1>10 DEF PaidIn, o, f

-----------------------------------------------------------------------------
(* Plans *)

IsCoin(c) ==
  /\ c.n \in Nat /\ c.amount \in Nat /\ c.born \in Nat
  /\ c.address \in Range(WalletAddresses)
AreCoins(S) == IsFiniteSet(S) /\ \A c \in S : IsCoin(c)

LEMMA CoinsHaveTotals ==
  ASSUME NEW S, IsFiniteSet(S), \A c \in S : c.amount \in Nat
  PROVE  Total(S) \in Nat
<1> DEFINE f == [c \in S |-> c.amount]
<1>1. Total(S) = SumFunctionOnSet(f, S)
  BY DEF Total, SumFunction
<1>2. \A c \in S : f[c] \in Nat
  OBVIOUS
<1> HIDE DEF f
<1> QED
  BY <1>1, <1>2, SumIsNat

IsList(s) == s \in Seq(Range(s))

LEMMA ListGrows ==
  ASSUME NEW s, IsList(s), NEW x
  PROVE  /\ IsList(Append(s, x)) /\ Len(s) \in Nat /\ DOMAIN s = 1..Len(s)
         /\ Len(Append(s, x)) = Len(s) + 1 /\ DOMAIN Append(s, x) = 1..(Len(s) + 1)
         /\ Append(s, x)[Len(s) + 1] = x
         /\ \A k \in DOMAIN s : Append(s, x)[k] = s[k]
<1>1. s \in Seq(Range(s) \cup {x}) /\ x \in Range(s) \cup {x}
  <2>1. Len(s) \in Nat /\ s \in [1..Len(s) -> Range(s)]
    BY DEF IsList
  <2> QED
    BY <2>1
<1> DEFINE t == Append(s, x)
<1>2. /\ t \in Seq(Range(s) \cup {x}) /\ Len(t) = Len(s) + 1 /\ DOMAIN t = 1..(Len(s) + 1)
      /\ t[Len(s) + 1] = x /\ \A k \in DOMAIN s : t[k] = s[k]
      /\ Len(s) \in Nat /\ DOMAIN s = 1..Len(s)
  BY <1>1
<1> HIDE DEF t
<1>3. t \in Seq(Range(t))
  <2>1. t \in [1..Len(t) -> Range(t)] /\ Len(t) \in Nat
    BY <1>2 DEF Range
  <2> QED
    BY <2>1
<1> QED
  BY <1>2, <1>3 DEF IsList, t

Disjoint(chunks) ==
  \A k, m \in DOMAIN chunks : k # m => chunks[k].inputs \cap chunks[m].inputs = {}

\* A chunk that spends coins of S.
ChunkHolds(chunk, S) ==
  /\ ChunkBalances(chunk) /\ IsPaymentList(chunk.outputs)
  /\ chunk.inputs \subseteq S /\ chunk.change \in Nat

\* Chunks that spend coins of S and pay the line up to a position.
ChunksInv(chunks, paid, payments, S) ==
  /\ IsList(chunks) /\ \A k \in DOMAIN chunks : ChunkHolds(chunks[k], S)
  /\ Disjoint(chunks)
  /\ paid \in 0..TotalOf(payments)
  /\ \A k \in DOMAIN chunks :
       chunks[k].change > 0 => k = Len(chunks) /\ paid = TotalOf(payments)
  /\ \A a : PaidTo(chunks, a) = PaidIn(payments, OfAddress(payments, a), 0, paid)

\* A batch: coins of one address, none too many.
BatchInv(batch) ==
  /\ AreCoins(batch) /\ Cardinality(batch) <= MaxInputs
  /\ \A c, d \in batch : c.address = d.address

LEMMA PaymentsTo ==
  ASSUME NEW payments, IsPaymentList(payments), NEW a
  PROVE  TotalTo(payments, a) \in Nat /\ OfAddress(payments, a) \in SUBSET DOMAIN payments
<1> DEFINE J == OfAddress(payments, a)
           f == Amounts(payments)
<1>1. J \in SUBSET DOMAIN payments /\ IsFiniteSet(DOMAIN payments)
  BY ListPositions DEF IsPaymentList, OfAddress
<1>2. IsFiniteSet(J) /\ \A x \in J : f[x] \in Nat
  <2>1. \A x \in DOMAIN payments : f[x] \in Nat
    BY PaymentAmounts
  <2> HIDE DEF J, f
  <2> QED
    BY <1>1, <2>1, FS_Subset
<1>3. TotalTo(payments, a) = SumFunctionOnSet(f, J)
  BY DEF TotalTo, OfAddress
<1> HIDE DEF J, f
<1>4. TotalTo(payments, a) \in Nat
  BY <1>2, <1>3, SumIsNat
<1> QED
  BY <1>1, <1>4 DEF J

\* One chunk more pays what its outputs pay.
LEMMA PaidToGrows ==
  ASSUME NEW chunks, IsList(chunks), \A k \in DOMAIN chunks : IsPaymentList(chunks[k].outputs),
         NEW chunk, IsPaymentList(chunk.outputs), NEW a
  PROVE  PaidTo(Append(chunks, chunk), a) = PaidTo(chunks, a) + TotalTo(chunk.outputs, a)
<1> DEFINE t == Append(chunks, chunk)
           n == Len(chunks)
           D == 1..n
           f == [k \in DOMAIN chunks |-> TotalTo(chunks[k].outputs, a)]
           g == [k \in DOMAIN t |-> TotalTo(t[k].outputs, a)]
<1>1. /\ n \in Nat /\ DOMAIN chunks = D /\ DOMAIN t = 1..(n + 1)
      /\ t[n + 1] = chunk /\ \A k \in D : t[k] = chunks[k]
  <2> HIDE DEF t
  <2> QED
    BY ListGrows DEF t
<1>2. IsFiniteSet(D) /\ n + 1 \notin D /\ 1..(n + 1) = D \cup {n + 1}
  <2> HIDE DEF t, n
  <2>1. n \in Nat
    BY <1>1
  <2>2. IsFiniteSet(1..n)
    BY <2>1, FS_Interval
  <2>3. n + 1 \notin 1..n /\ 1..(n + 1) = (1..n) \cup {n + 1}
    BY <2>1
  <2> QED
    BY <2>2, <2>3
<1> HIDE DEF t, n, D
<1>3. \A k \in D : f[k] \in Int /\ f[k] = g[k]
  BY <1>1, <1>2, PaymentsTo
<1>4. g[n + 1] = TotalTo(chunk.outputs, a) /\ g[n + 1] \in Int
  BY <1>1, <1>2, PaymentsTo
<1>5. PaidTo(chunks, a) = SumFunctionOnSet(f, D)
  BY <1>1 DEF PaidTo, SumFunction
<1>6. PaidTo(t, a) = SumFunctionOnSet(g, D \cup {n + 1})
  BY <1>1, <1>2 DEF PaidTo, SumFunction
<1> HIDE DEF f, g
<1>7. SumFunctionOnSet(g, D \cup {n + 1}) = SumFunctionOnSet(g, D) + g[n + 1]
  <2>1. \A k \in D \cup {n + 1} : g[k] \in Int
    BY <1>3, <1>4
  <2> QED
    BY <1>2, <2>1, SumAddsOne
<1>8. SumFunctionOnSet(f, D) = SumFunctionOnSet(g, D)
  BY <1>2, <1>3, SumOfSame
<1>9. PaidTo(t, a) = PaidTo(chunks, a) + TotalTo(chunk.outputs, a)
  BY <1>4, <1>5, <1>6, <1>7, <1>8
<1> QED
  BY <1>9 DEF t

LEMMA NoChunks ==
  ASSUME NEW payments, IsPaymentList(payments)
  PROVE  ChunksInv(<< >>, 0, payments, {})
<1>1. IsList(<< >>) /\ DOMAIN << >> = {}
  BY DEF IsList
<1>2. 0 \in 0..TotalOf(payments)
  BY ReachGrows, ListPositions DEF IsPaymentList
<1>3. ASSUME NEW a PROVE PaidTo(<< >>, a) = PaidIn(payments, OfAddress(payments, a), 0, 0)
  <2> DEFINE f == [k \in DOMAIN << >> |-> TotalTo(<< >>[k].outputs, a)]
  <2>1. DOMAIN f = {}
    BY <1>1
  <2>2. PaidTo(<< >>, a) = SumFunctionOnSet(f, DOMAIN f)
    BY DEF PaidTo, SumFunction
  <2> HIDE DEF f
  <2>3. PaidTo(<< >>, a) = 0
    BY <2>1, <2>2, SumOfNothing
  <2> QED
    BY <2>3, NothingPaid, PaymentsTo
<1> QED
  BY <1>1, <1>2, <1>3 DEF ChunksInv, Disjoint

\* A batch that can pay its fee becomes a chunk: it pays on along the line, all that it has
\* or all that is left.
LEMMA ChunkIsAdded ==
  ASSUME NEW payments, IsPaymentList(payments), NEW chunks, NEW paid, NEW S,
         ChunksInv(chunks, paid, payments, S), paid # TotalOf(payments),
         NEW batch, BatchInv(batch), batch # {}, batch \cap S = {}, NEW fee \in Nat,
         Spendable(batch, fee) > 0,
         NEW amount, amount = Smaller(Spendable(batch, fee), TotalOf(payments) - paid)
  PROVE  ChunksInv(Append(chunks, [inputs  |-> batch,
                                   outputs |-> PaidBetween(payments, paid, paid + amount),
                                   fee     |-> fee,
                                   change  |-> Spendable(batch, fee) - amount]),
                   paid + amount, payments, S \cup batch)
<1> DEFINE T == TotalOf(payments)
           spend == Spendable(batch, fee)
           outputs == PaidBetween(payments, paid, paid + amount)
           chunk == [inputs |-> batch, outputs |-> outputs, fee |-> fee, change |-> spend - amount]
           new == Append(chunks, chunk)
           n == Len(chunks)
<1>1. T \in Nat /\ paid \in Nat /\ paid < T
  <2>1. T \in Nat
    BY ReachGrows, ListPositions DEF IsPaymentList
  <2> HIDE DEF T
  <2> QED
    BY <2>1 DEF ChunksInv, T
<1>2. Total(batch) \in Nat /\ spend \in Int /\ spend = Total(batch) - fee
  <2>1. Total(batch) \in Nat
    BY CoinsHaveTotals DEF BatchInv, AreCoins, IsCoin
  <2> QED
    BY <2>1 DEF Spendable
<1> HIDE DEF T, spend
<1>3. /\ amount \in Nat \ {0} /\ amount <= spend /\ paid + amount \in 0..T
      /\ paid + amount \in Nat /\ (spend - amount > 0 => paid + amount = T)
  BY <1>1, <1>2 DEF Smaller, T, spend
<1>4. /\ IsPaymentList(outputs) /\ TotalOf(outputs) = amount
      /\ \A a : TotalTo(outputs, a) = PaidIn(payments, OfAddress(payments, a), paid, paid + amount)
  <2>1. /\ IsPaymentList(outputs)
        /\ TotalOf(outputs) = PaidIn(payments, DOMAIN payments, paid, paid + amount)
        /\ \A a : TotalTo(outputs, a) = PaidIn(payments, OfAddress(payments, a), paid, paid + amount)
    BY <1>1, <1>3, OutputsPay
  <2>2. PaidIn(payments, DOMAIN payments, 0, paid) = paid
        /\ PaidIn(payments, DOMAIN payments, 0, paid + amount) = paid + amount
    <3>1. paid \in 0..T
      BY <1>1
    <3> QED
      BY <1>3, <3>1, PaidUpTo DEF T
  <2>3. PaidIn(payments, DOMAIN payments, 0, paid + amount)
          = PaidIn(payments, DOMAIN payments, 0, paid)
            + PaidIn(payments, DOMAIN payments, paid, paid + amount)
    <3>1. 0 <= paid /\ paid <= paid + amount /\ 0 \in Nat
      BY <1>1, <1>3
    <3>2. DOMAIN payments \in SUBSET DOMAIN payments
      OBVIOUS
    <3> QED
      BY <1>1, <1>3, <3>1, <3>2, PartsMeet
  <2>4. TotalOf(outputs) \in Int
    <3>1. IsPaymentList(outputs)
      BY <2>1
    <3> HIDE DEF outputs
    <3> QED
      BY <3>1, ReachGrows, ListPositions DEF IsPaymentList
  <2> HIDE DEF outputs
  <2>5. TotalOf(outputs) = amount
    BY <1>1, <1>3, <2>1, <2>2, <2>3, <2>4
  <2> QED
    BY <2>1, <2>5
<1> HIDE DEF outputs
<1>5. ChunkHolds(chunk, S \cup batch)
  <2>1. ChunkBalances(chunk)
    BY <1>2, <1>3, <1>4 DEF ChunkBalances, BatchInv, IsPaymentList
  <2> QED
    BY <1>2, <1>3, <1>4, <2>1 DEF ChunkHolds
<1>6. chunk.inputs = batch /\ chunk.outputs = outputs /\ chunk.change = spend - amount
  OBVIOUS
<1> HIDE DEF chunk
<1>7. /\ IsList(new) /\ n \in Nat /\ DOMAIN chunks = 1..n
      /\ Len(new) = n + 1 /\ DOMAIN new = 1..(n + 1) /\ new[n + 1] = chunk
      /\ \A k \in DOMAIN chunks : new[k] = chunks[k]
  BY ListGrows DEF ChunksInv
<1> HIDE DEF n
<1>8. \A a : PaidTo(new, a) = PaidIn(payments, OfAddress(payments, a), 0, paid + amount)
  <2> TAKE a
  <2> DEFINE J == OfAddress(payments, a)
  <2>1. PaidTo(new, a) = PaidTo(chunks, a) + TotalTo(outputs, a)
    <3>1. IsList(chunks) /\ \A k \in DOMAIN chunks : IsPaymentList(chunks[k].outputs)
      BY DEF ChunksInv, ChunkHolds
    <3> QED
      BY <1>4, <1>6, <3>1, PaidToGrows
  <2>2. J \in SUBSET DOMAIN payments
    BY PaymentsTo
  <2>3. PaidTo(chunks, a) = PaidIn(payments, J, 0, paid)
    BY DEF ChunksInv
  <2>4. TotalTo(outputs, a) = PaidIn(payments, J, paid, paid + amount)
    BY <1>4
  <2> HIDE DEF J, new
  <2>5. PaidIn(payments, J, 0, paid + amount)
          = PaidIn(payments, J, 0, paid) + PaidIn(payments, J, paid, paid + amount)
    <3>1. 0 <= paid /\ paid <= paid + amount /\ 0 \in Nat
      BY <1>1, <1>3
    <3> QED
      BY <1>1, <1>3, <2>2, <3>1, PartsMeet
  <2>6. PaidTo(new, a) = PaidIn(payments, J, 0, paid + amount)
    BY <2>1, <2>3, <2>4, <2>5
  <2> QED
    BY <2>6 DEF J
<1> HIDE DEF new
<1>9. ASSUME NEW k \in DOMAIN new
      PROVE  \/ k = n + 1 /\ new[k] = chunk
             \/ k \in DOMAIN chunks /\ new[k] = chunks[k] /\ k # n + 1
  BY <1>7
<1>10. \A k \in DOMAIN new : ChunkHolds(new[k], S \cup batch)
  <2>1. \A k \in DOMAIN chunks : ChunkHolds(chunks[k], S \cup batch)
    BY DEF ChunksInv, ChunkHolds
  <2> QED
    BY <1>5, <1>9, <2>1
<1>11. Disjoint(new)
  <2>1. \A k \in DOMAIN chunks : chunks[k].inputs \cap batch = {}
    BY DEF ChunksInv, ChunkHolds
  <2>2. \A k, m \in DOMAIN chunks : k # m => chunks[k].inputs \cap chunks[m].inputs = {}
    BY DEF ChunksInv, Disjoint
  <2> QED
    BY <1>6, <1>9, <2>1, <2>2 DEF Disjoint
<1>12. \A k \in DOMAIN new : new[k].change > 0 => k = Len(new) /\ paid + amount = T
  <2>1. \A k \in DOMAIN chunks : ~ (chunks[k].change > 0)
    BY <1>1 DEF ChunksInv, T
  <2> QED
    BY <1>3, <1>6, <1>7, <1>9, <2>1
<1>13. ChunksInv(new, paid + amount, payments, S \cup batch)
  BY <1>3, <1>7, <1>8, <1>10, <1>11, <1>12 DEF ChunksInv, T
<1> QED
  BY <1>13 DEF new, chunk, outputs, spend

-----------------------------------------------------------------------------
(* A plan in the making *)

PlanInv(plan, payments, done) ==
  /\ plan = [chunks |-> plan.chunks, paid |-> plan.paid, batch |-> plan.batch,
             failed |-> plan.failed]
  /\ plan.failed \in BOOLEAN
  /\ ~plan.failed =>
       /\ ChunksInv(plan.chunks, plan.paid, payments, done \ plan.batch)
       /\ BatchInv(plan.batch) /\ plan.batch \subseteq done
       /\ plan.paid = TotalOf(payments) => plan.batch = {}

LEMMA NoPlanHolds ==
  ASSUME NEW payments, IsPaymentList(payments)
  PROVE  PlanInv(NoPlan, payments, {})
<1>1. BatchInv({})
  BY FS_EmptySet, PlannerAssumption DEF BatchInv, AreCoins
<1>2. {} \ {} = {}
  OBVIOUS
<1> QED
  BY <1>1, <1>2, NoChunks DEF PlanInv, NoPlan

LEMMA CloseBatchHolds ==
  ASSUME NEW payments, IsPaymentList(payments), NEW fee \in Nat, NEW done,
         NEW plan, PlanInv(plan, payments, done), plan.batch # {}
  PROVE  LET new == CloseBatch(plan, payments, fee)
         IN  PlanInv(new, payments, done) /\ (~new.failed => new.batch = {})
<1> DEFINE new == CloseBatch(plan, payments, fee)
           spend == Spendable(plan.batch, fee)
           amount == Smaller(spend, TotalOf(payments) - plan.paid)
           chunk == [inputs  |-> plan.batch,
                     outputs |-> PaidBetween(payments, plan.paid, plan.paid + amount),
                     fee     |-> fee,
                     change  |-> spend - amount]
<1>1. CASE spend <= 0
  <2>1. new = [plan EXCEPT !.failed = TRUE]
    BY <1>1 DEF CloseBatch
  <2>2. new.failed /\ new = [chunks |-> new.chunks, paid |-> new.paid, batch |-> new.batch,
                             failed |-> new.failed]
    <3> HIDE DEF new
    <3> QED
      BY <2>1 DEF PlanInv
  <2> HIDE DEF new
  <2>3. new.failed = TRUE
    BY <2>1 DEF PlanInv
  <2> QED
    BY <2>2, <2>3 DEF PlanInv, new
<1>2. CASE ~ (spend <= 0)
  <2>1. new = [plan EXCEPT !.chunks = Append(@, chunk), !.paid = @ + amount, !.batch = {}]
    BY <1>2 DEF CloseBatch, Pays
  <2>2. new = [chunks |-> Append(plan.chunks, chunk), paid |-> plan.paid + amount,
               batch |-> {}, failed |-> plan.failed]
    <3> HIDE DEF new, chunk, amount
    <3> QED
      BY <2>1 DEF PlanInv
  <2>3. CASE plan.failed
    <3> HIDE DEF new, chunk, amount
    <3>1. new.failed = plan.failed
      BY <2>2
    <3>2. plan.failed = TRUE
      BY <2>3 DEF PlanInv
    <3> QED
      BY <2>2, <2>3, <3>1, <3>2 DEF PlanInv, new
  <2>4. CASE ~plan.failed
    <3>1. /\ ChunksInv(plan.chunks, plan.paid, payments, done \ plan.batch)
          /\ BatchInv(plan.batch) /\ plan.batch \subseteq done
          /\ plan.paid # TotalOf(payments)
      BY <2>4 DEF PlanInv
    <3>2. spend > 0
      <4>1. Total(plan.batch) \in Nat
        BY <3>1, CoinsHaveTotals DEF BatchInv, AreCoins, IsCoin
      <4> QED
        BY <1>2, <4>1 DEF Spendable
    <3> DEFINE S == done \ plan.batch
    <3>3. ChunksInv(Append(plan.chunks, chunk), plan.paid + amount, payments, S \cup plan.batch)
      <4>1. plan.batch \cap S = {}
        OBVIOUS
      <4> HIDE DEF S
      <4> QED
        BY <3>1, <3>2, <4>1, ChunkIsAdded DEF S
    <3>4. S \cup plan.batch = done \ {}
      BY <3>1
    <3>5. BatchInv({})
      BY FS_EmptySet, PlannerAssumption DEF BatchInv, AreCoins
    <3> HIDE DEF new, chunk, amount, S
    <3>6. /\ new.chunks = Append(plan.chunks, chunk) /\ new.paid = plan.paid + amount
          /\ new.batch = {} /\ new.failed = plan.failed
      BY <2>2
    <3>7. ChunksInv(new.chunks, new.paid, payments, done \ new.batch)
      BY <3>3, <3>4, <3>6
    <3>8. new = [chunks |-> new.chunks, paid |-> new.paid, batch |-> new.batch,
                 failed |-> new.failed]
      BY <2>2, <3>6
    <3>9. PlanInv(new, payments, done)
      BY <3>5, <3>6, <3>7, <3>8 DEF PlanInv
    <3> QED
      BY <3>6, <3>9 DEF new
  <2> QED
    BY <2>3, <2>4
<1> QED
  BY <1>1, <1>2

\* The batch takes one coin more, and ends where it covers the rest.
LEMMA AddHolds ==
  ASSUME NEW payments, IsPaymentList(payments), NEW fee \in Nat, NEW done,
         NEW plan, PlanInv(plan, payments, done), NEW coin, coin \notin done, IsCoin(coin),
         ~plan.failed => ~IsFull(plan.batch, coin)
  PROVE  PlanInv(Add(plan, coin, payments, fee), payments, done \cup {coin})
<1> DEFINE more == done \cup {coin}
           wider == [plan EXCEPT !.batch = @ \cup {coin}]
<1>1. CASE plan.failed
  <2>1. Add(plan, coin, payments, fee) = plan
    BY <1>1 DEF Add
  <2> QED
    BY <1>1, <2>1 DEF PlanInv
<1>2. CASE ~plan.failed /\ plan.paid = TotalOf(payments)
  <2>1. Add(plan, coin, payments, fee) = plan
    BY <1>2 DEF Add
  <2>2. plan.batch = {} /\ ChunksInv(plan.chunks, plan.paid, payments, done \ {})
    BY <1>2 DEF PlanInv
  <2>3. ChunksInv(plan.chunks, plan.paid, payments, more \ {})
    BY <2>2 DEF ChunksInv, ChunkHolds
  <2> HIDE DEF more
  <2> QED
    BY <1>2, <2>1, <2>2, <2>3 DEF PlanInv, more
<1>3. CASE ~plan.failed /\ plan.paid # TotalOf(payments)
  <2>1. /\ ChunksInv(plan.chunks, plan.paid, payments, done \ plan.batch)
        /\ BatchInv(plan.batch) /\ plan.batch \subseteq done
    BY <1>3 DEF PlanInv
  <2>2. wider = [chunks |-> plan.chunks, paid |-> plan.paid, batch |-> plan.batch \cup {coin},
                 failed |-> plan.failed]
    BY DEF PlanInv
  <2>3. BatchInv(plan.batch \cup {coin})
    <3>1. coin \notin plan.batch /\ IsFiniteSet(plan.batch)
      BY <2>1 DEF BatchInv, AreCoins
    <3>2. /\ IsFiniteSet(plan.batch \cup {coin})
          /\ Cardinality(plan.batch \cup {coin}) = Cardinality(plan.batch) + 1
          /\ Cardinality(plan.batch) \in Nat
      BY <3>1, FS_AddElement, FS_CardinalityType
    <3>3. /\ Cardinality(plan.batch) # MaxInputs
          /\ \A c \in plan.batch : c.address = coin.address
      BY <1>3 DEF IsFull
    <3>4. Cardinality(plan.batch) <= MaxInputs
      BY <2>1 DEF BatchInv
    <3>5. Cardinality(plan.batch \cup {coin}) <= MaxInputs
      BY <3>2, <3>3, <3>4, PlannerAssumption
    <3>6. \A c \in plan.batch : IsCoin(c)
      BY <2>1 DEF BatchInv, AreCoins
    <3> QED
      BY <3>2, <3>3, <3>5, <3>6 DEF BatchInv, AreCoins
  <2>4. more \ (plan.batch \cup {coin}) = done \ plan.batch
    BY <2>1
  <2>5. PlanInv(wider, payments, more)
    <3> HIDE DEF wider, more
    <3>1. /\ wider.chunks = plan.chunks /\ wider.paid = plan.paid
          /\ wider.batch = plan.batch \cup {coin} /\ wider.failed = plan.failed
      BY <2>2
    <3>2. wider = [chunks |-> wider.chunks, paid |-> wider.paid, batch |-> wider.batch,
                   failed |-> wider.failed]
      BY <2>2, <3>1
    <3>3. wider.batch \subseteq more
      BY <2>1, <3>1 DEF more
    <3>4. ChunksInv(wider.chunks, wider.paid, payments, more \ wider.batch)
      BY <2>1, <2>4, <3>1
    <3>5. wider.failed \in BOOLEAN
      BY <3>1 DEF PlanInv
    <3> QED
      BY <1>3, <2>3, <3>1, <3>2, <3>3, <3>4, <3>5 DEF PlanInv
  <2>6. wider.batch # {}
    BY <2>2
  <2> HIDE DEF wider
  <2>7. Add(plan, coin, payments, fee) \in {wider, CloseBatch(wider, payments, fee)}
    BY <1>3 DEF Add, wider
  <2>8. PlanInv(CloseBatch(wider, payments, fee), payments, more)
    <3> HIDE DEF more
    <3> QED
      BY <2>5, <2>6, CloseBatchHolds
  <2> QED
    BY <2>5, <2>7, <2>8
<1> QED
  BY <1>1, <1>2, <1>3

LEMMA TakeHolds ==
  ASSUME NEW payments, IsPaymentList(payments), NEW fee \in Nat, NEW done,
         NEW plan, PlanInv(plan, payments, done), NEW coin, coin \notin done, IsCoin(coin)
  PROVE  PlanInv(Take(plan, coin, payments, fee), payments, done \cup {coin})
<1> DEFINE closed == CloseBatch(plan, payments, fee)
<1>1. CASE plan.batch # {} /\ IsFull(plan.batch, coin)
  <2>1. PlanInv(closed, payments, done) /\ (~closed.failed => closed.batch = {})
    BY <1>1, CloseBatchHolds
  <2>2. ~IsFull({}, coin)
    BY FS_EmptySet, PlannerAssumption DEF IsFull
  <2>3. Take(plan, coin, payments, fee) = Add(closed, coin, payments, fee)
    BY <1>1 DEF Take
  <2> HIDE DEF closed
  <2> QED
    BY <2>1, <2>2, <2>3, AddHolds
<1>2. CASE ~ (plan.batch # {} /\ IsFull(plan.batch, coin))
  <2>1. Take(plan, coin, payments, fee) = Add(plan, coin, payments, fee)
    BY <1>2 DEF Take
  <2>2. ~IsFull(plan.batch, coin)
    BY <1>2, FS_EmptySet, PlannerAssumption DEF IsFull
  <2> QED
    BY <2>1, <2>2, AddHolds
<1> QED
  BY <1>1, <1>2

LEMMA TakenIsTake ==
  ASSUME NEW plan, NEW coin, NEW payments, NEW fee
  PROVE  Taken(plan, coin, payments, fee) = Take(plan, coin, payments, fee)
<1> DEFINE new == Take(plan, coin, payments, fee)
<1>1. {Take(p, coin, payments, fee) : p \in {plan}} = {new}
  OBVIOUS
<1> HIDE DEF new
<1>2. (CHOOSE x \in {new} : TRUE) = new
  OBVIOUS
<1> QED
  BY <1>1, <1>2 DEF Taken, new

-----------------------------------------------------------------------------
(* The order of the coins *)

GroupTotalOf(pool, a) == Total({u \in pool : u.address = a})

LEMMA OrderIsStrict ==
  ASSUME NEW pool, AreCoins(pool)
  PROVE  /\ \A c \in pool : ~orderUtxosByAddress(pool, c, c)
         /\ \A c, d, e \in pool :
              orderUtxosByAddress(pool, c, d) /\ orderUtxosByAddress(pool, d, e)
                => orderUtxosByAddress(pool, c, e)
<1> DEFINE G(a) == GroupTotalOf(pool, a)
           R(a) == AddressRank(a)
<1>1. \A c \in pool : G(c.address) \in Nat
  <2> SUFFICES ASSUME NEW c \in pool PROVE G(c.address) \in Nat
    OBVIOUS
  <2> DEFINE S == {u \in pool : u.address = c.address}
  <2>1. S \in SUBSET pool
    OBVIOUS
  <2>2. IsFiniteSet(S) /\ \A u \in S : u.amount \in Nat
    <3> HIDE DEF S
    <3> QED
      BY <2>1, FS_Subset DEF AreCoins, IsCoin
  <2> HIDE DEF S
  <2>3. Total(S) \in Nat
    BY <2>2, CoinsHaveTotals
  <2> QED
    BY <2>3 DEF S, GroupTotalOf
<1>2. \A c \in pool : R(c.address) \in Nat
  <2> SUFFICES ASSUME NEW c \in pool PROVE R(c.address) \in Nat
    OBVIOUS
  <2>1. \E i \in DOMAIN WalletAddresses : WalletAddresses[i] = c.address
    BY DEF AreCoins, IsCoin, Range
  <2>2. R(c.address) \in DOMAIN WalletAddresses
    BY <2>1 DEF AddressRank
  <2> QED
    BY <2>2, PlannerAssumption
<1>3. \A c, d : orderUtxosByAddress(pool, c, d) <=>
        IF c.address = d.address THEN Older(c, d)
        ELSE \/ G(c.address) > G(d.address)
             \/ G(c.address) = G(d.address) /\ R(c.address) < R(d.address)
  BY DEF orderUtxosByAddress, GroupTotalOf
<1>4. \A c \in pool : c.born \in Nat /\ c.n \in Nat
  BY DEF AreCoins, IsCoin
<1> HIDE DEF G, R
<1>5. ASSUME NEW c \in pool PROVE ~orderUtxosByAddress(pool, c, c)
  BY <1>3, <1>4 DEF Older
<1>6. ASSUME NEW c \in pool, NEW d \in pool, NEW e \in pool,
             orderUtxosByAddress(pool, c, d), orderUtxosByAddress(pool, d, e)
      PROVE  orderUtxosByAddress(pool, c, e)
  <2>1. CASE c.address = d.address /\ d.address = e.address
    BY <1>3, <1>4, <1>6, <2>1 DEF Older
  <2>2. CASE c.address = d.address /\ d.address # e.address
    BY <1>3, <1>6, <2>2
  <2>3. CASE c.address # d.address /\ d.address = e.address
    BY <1>3, <1>6, <2>3
  <2>4. CASE c.address # d.address /\ d.address # e.address
    BY <1>1, <1>2, <1>3, <1>6, <2>4
  <2> QED
    BY <2>1, <2>2, <2>3, <2>4
<1> QED
  BY <1>5, <1>6

\* Some coin comes last.
LEMMA LastIsThere ==
  ASSUME NEW pool, AreCoins(pool), NEW rest \in SUBSET pool, rest # {}
  PROVE  LastOf(rest, pool) \in rest
<1> DEFINE After(c, d) == orderUtxosByAddress(pool, c, d)
           Q == {T \in SUBSET rest : T = {} \/ \E c \in T : \A d \in T : ~After(c, d)}
<1>1. IsFiniteSet(rest)
  BY FS_Subset DEF AreCoins
<1>2. {} \in Q
  OBVIOUS
<1>3. ASSUME NEW T \in SUBSET rest, NEW x \in rest \ T, T \in Q PROVE T \cup {x} \in Q
  <2>0. \A c \in pool : ~After(c, c)
    BY OrderIsStrict
  <2>1. \A c, d, e \in pool : After(c, d) /\ After(d, e) => After(c, e)
    BY OrderIsStrict
  <2> HIDE DEF After
  <2>2. CASE T = {}
    BY <2>0, <2>2
  <2>3. CASE T # {}
    <3>1. PICK m \in T : \A d \in T : ~After(m, d)
      BY <1>3, <2>3
    <3>2. CASE After(m, x)
      <4>1. \A d \in T \cup {x} : ~After(x, d)
        BY <2>0, <2>1, <3>1, <3>2
      <4> QED
        BY <4>1
    <3>3. CASE ~After(m, x)
      <4>1. \A d \in T \cup {x} : ~After(m, d)
        BY <3>1, <3>3
      <4> QED
        BY <4>1
    <3> QED
      BY <3>2, <3>3
  <2> QED
    BY <2>2, <2>3
<1> HIDE DEF Q
<1>4. rest \in Q
  BY <1>1, <1>2, <1>3, FiniteInduction
<1>5. \E c \in rest : \A d \in rest : ~orderUtxosByAddress(pool, c, d)
  BY <1>4 DEF Q
<1> QED
  BY <1>5 DEF LastOf

-----------------------------------------------------------------------------
(* The planner *)

\* The function that MapThenFoldSet recurses on in planAddressChunks.
PlansUp(g, pool, payments, fee) ==
  g = [s \in SUBSET pool |->
         IF s = {} THEN NoPlan
         ELSE Taken(g[s \ {LastOf(s, pool)}], LastOf(s, pool), payments, fee)]
Planning(pool, payments, fee) == CHOOSE g : PlansUp(g, pool, payments, fee)

LEMMA PlanIsPlanning ==
  ASSUME NEW pool, NEW payments, NEW fee, Total(pool) >= TotalOf(payments) + fee,
         Total(pool) \in Int, TotalOf(payments) + fee \in Int
  PROVE  planAddressChunks(pool, payments, fee)
           = ChunksOf(Close(Planning(pool, payments, fee)[pool], payments, fee), payments)
<1> DEFINE all == MapThenFoldSet(LAMBDA coin, plan : Taken(plan, coin, payments, fee), NoPlan,
                                 LAMBDA coin : coin, LAMBDA rest : LastOf(rest, pool), pool)
<1>1. all = Planning(pool, payments, fee)[pool]
  BY DEF MapThenFoldSet, Planning, PlansUp
<1>2. ~ (Total(pool) < TotalOf(payments) + fee)
  OBVIOUS
<1>3. planAddressChunks(pool, payments, fee) = ChunksOf(Close(all, payments, fee), payments)
  BY <1>2 DEF planAddressChunks
<1> QED
  BY <1>1, <1>3

LEMMA PlanningExists ==
  ASSUME NEW pool, AreCoins(pool), NEW payments, NEW fee
  PROVE  PlansUp(Planning(pool, payments, fee), pool, payments, fee)
<1> DEFINE step(g, s) == IF s = {} THEN NoPlan
                         ELSE Taken(g[s \ {LastOf(s, pool)}], LastOf(s, pool), payments, fee)
           Small(k) == {s \in SUBSET pool : Cardinality(s) <= k}
           Solves(g, k) == g = [s \in Small(k) |-> step(g, s)]
           Good == {k \in Nat : \E g : Solves(g, k)}
           n == Cardinality(pool)
<1>1. \A s \in SUBSET pool : IsFiniteSet(s) /\ Cardinality(s) \in Nat /\ Cardinality(s) <= n
  BY FS_Subset, FS_CardinalityType DEF AreCoins
<1>2. ASSUME NEW s \in SUBSET pool, s # {}
      PROVE  /\ LastOf(s, pool) \in s /\ Cardinality(s) # 0
             /\ Cardinality(s \ {LastOf(s, pool)}) = Cardinality(s) - 1
  <2>1. LastOf(s, pool) \in s
    BY <1>2, LastIsThere
  <2>2. IsFiniteSet(s)
    BY <1>1
  <2>3. Cardinality(s) # 0
    BY <1>2, <2>2, FS_EmptySet
  <2> DEFINE c == LastOf(s, pool)
  <2>4. c \in s => Cardinality(s \ {c}) = Cardinality(s) - 1
    <3> HIDE DEF c
    <3> QED
      BY <2>2, FS_RemoveElement
  <2> QED
    BY <2>1, <2>3, <2>4
<1>3. 0 \in Good
  <2> DEFINE g == [s \in Small(0) |-> NoPlan]
  <2>1. \A s \in Small(0) : step(g, s) = NoPlan
    BY <1>1, <1>2
  <2>2. Solves(g, 0)
    BY <2>1
  <2> QED
    BY <2>2
<1>4. ASSUME NEW k \in Nat, k \in Good PROVE k + 1 \in Good
  <2>1. PICK g : Solves(g, k)
    BY <1>4
  <2> DEFINE h == [s \in Small(k + 1) |-> step(g, s)]
  <2>2. \A s \in Small(k) : s \in Small(k + 1)
    BY <1>1
  <2>3. \A s \in Small(k) : g[s] = h[s]
    BY <2>1, <2>2
  <2>4. \A s \in Small(k + 1) : s # {} => s \ {LastOf(s, pool)} \in Small(k)
    <3> SUFFICES ASSUME NEW s \in Small(k + 1), s # {} PROVE s \ {LastOf(s, pool)} \in Small(k)
      OBVIOUS
    <3>1. Cardinality(s \ {LastOf(s, pool)}) = Cardinality(s) - 1 /\ Cardinality(s) \in Nat
      BY <1>1, <1>2
    <3>2. Cardinality(s \ {LastOf(s, pool)}) <= k
      BY <3>1
    <3> QED
      BY <3>2
  <2>5. \A s \in Small(k + 1) : step(g, s) = step(h, s)
    <3> HIDE DEF h, Small
    <3> QED
      BY <2>3, <2>4
  <2>6. Solves(h, k + 1)
    <3>1. h = [s \in Small(k + 1) |-> step(g, s)]
      OBVIOUS
    <3> HIDE DEF h, step
    <3> QED
      BY <2>5, <3>1
  <2> HIDE DEF Solves
  <2>7. \E f : Solves(f, k + 1)
    BY <2>6
  <2> QED
    BY <2>7
<1>5. \A k \in Nat : k \in Good
  <2> HIDE DEF Good
  <2> QED
    BY <1>3, <1>4, NaturalInduction
<1>6. n \in Nat
  BY <1>1
<1>7. PICK g : Solves(g, n)
  <2> HIDE DEF n
  <2> QED
    BY <1>5, <1>6
<1>8. Small(n) = SUBSET pool
  BY <1>1
<1>9. PlansUp(g, pool, payments, fee)
  BY <1>7, <1>8 DEF PlansUp
<1> QED
  BY <1>9 DEF Planning

\* Whatever part of the pool has been taken, the plan so far is sound.
LEMMA PlanningHolds ==
  ASSUME NEW pool, AreCoins(pool), NEW payments, IsPaymentList(payments), NEW fee \in Nat
  PROVE  PlanInv(Planning(pool, payments, fee)[pool], payments, pool)
<1> DEFINE g == Planning(pool, payments, fee)
           Q == {s \in SUBSET pool : PlanInv(g[s], payments, s)}
<1>1. PlansUp(g, pool, payments, fee)
  BY PlanningExists
<1> HIDE DEF g
<1>2. \A s \in SUBSET pool :
        g[s] = IF s = {} THEN NoPlan
               ELSE Taken(g[s \ {LastOf(s, pool)}], LastOf(s, pool), payments, fee)
  BY <1>1 DEF PlansUp
<1>3. ASSUME NEW s \in SUBSET pool, \A u \in SUBSET s : u # s => u \in Q PROVE s \in Q
  <2>1. CASE s = {}
    BY <1>2, <2>1, NoPlanHolds
  <2>2. CASE s # {}
    <3> DEFINE c == LastOf(s, pool)
               u == s \ {c}
    <3>1. c \in s
      BY <2>2, LastIsThere
    <3>2. g[s] = Taken(g[u], c, payments, fee)
      BY <1>2, <2>2
    <3> HIDE DEF c
    <3>3. PlanInv(g[u], payments, u) /\ c \notin u /\ u \cup {c} = s /\ IsCoin(c)
      BY <1>3, <3>1 DEF AreCoins
    <3> HIDE DEF u
    <3>4. PlanInv(Take(g[u], c, payments, fee), payments, u \cup {c})
      BY <3>3, TakeHolds
    <3> QED
      BY <3>2, <3>3, <3>4, TakenIsTake
  <2> QED
    BY <2>1, <2>2
<1>4. IsFiniteSet(pool)
  BY DEF AreCoins
<1> HIDE DEF Q
<1>5. \A s \in SUBSET pool : s \in Q
  BY <1>3, <1>4, SubsetInduction
<1> QED
  BY <1>5 DEF Q, g

\* A plan that pays its payments exactly.
Exact(chunks, payments, pool) ==
  /\ IsList(chunks) /\ \A k \in DOMAIN chunks : ChunkHolds(chunks[k], pool)
  /\ \A a : PaidTo(chunks, a) = TotalTo(payments, a)
  /\ PlanIsSound(chunks, payments)

\* Whatever coins, payments and fee it is given, the planner gives no plan or a sound one.
LEMMA PlannerIsSound ==
  ASSUME NEW pool, AreCoins(pool), NEW payments, IsPaymentList(payments), NEW fee \in Nat
  PROVE  LET chunks == planAddressChunks(pool, payments, fee)
         IN  chunks = << >> \/ Exact(chunks, payments, pool)
<1> DEFINE all == Planning(pool, payments, fee)[pool]
           closed == Close(all, payments, fee)
           chunks == planAddressChunks(pool, payments, fee)
           T == TotalOf(payments)
<1>1. Total(pool) \in Nat /\ T \in Nat
  BY CoinsHaveTotals, ReachGrows, ListPositions DEF AreCoins, IsCoin, IsPaymentList
<1>2. CASE Total(pool) < T + fee
  BY <1>2 DEF planAddressChunks
<1>3. CASE ~ (Total(pool) < T + fee)
  <2>1. chunks = ChunksOf(closed, payments)
    BY <1>1, <1>3, PlanIsPlanning
  <2>2. PlanInv(all, payments, pool)
    BY PlanningHolds
  <2> HIDE DEF all, chunks
  <2>3. PlanInv(closed, payments, pool) /\ (~closed.failed => closed.batch = {})
    <3>1. CASE all.batch = {} \/ all.failed
      BY <2>2, <3>1 DEF Close
    <3>2. CASE ~ (all.batch = {} \/ all.failed)
      BY <2>2, <3>2, CloseBatchHolds DEF Close
    <3> QED
      BY <3>1, <3>2
  <2> HIDE DEF closed
  <2>4. CASE closed.failed \/ closed.paid < T
    <3>1. ChunksOf(closed, payments) = << >>
      BY <2>4 DEF ChunksOf
    <3>2. chunks = << >>
      BY <2>1, <3>1
    <3> QED
      BY <3>2 DEF chunks
  <2>5. CASE ~ (closed.failed \/ closed.paid < T)
    <3>1. chunks = closed.chunks /\ pool \ {} = pool
      BY <2>1, <2>5 DEF ChunksOf
    <3>2. ChunksInv(chunks, closed.paid, payments, pool)
      BY <2>3, <2>5, <3>1 DEF PlanInv
    <3>3. closed.paid = T
      <4>1. closed.paid \in 0..T
        BY <3>2 DEF ChunksInv
      <4> HIDE DEF T
      <4> QED
        BY <1>1, <2>5, <4>1
    <3>4. \A a : PaidTo(chunks, a) = TotalTo(payments, a)
      <4> TAKE a
      <4> DEFINE J == OfAddress(payments, a)
      <4>1. J \in SUBSET DOMAIN payments
        BY PaymentsTo
      <4>2. PaidTo(chunks, a) = PaidIn(payments, J, 0, T)
        BY <3>2, <3>3 DEF ChunksInv
      <4>3. TotalTo(payments, a) = SumFunctionOnSet(Amounts(payments), J)
        BY DEF TotalTo, OfAddress
      <4> HIDE DEF J
      <4> QED
        BY <4>1, <4>2, <4>3, AllPaid
    <3>5. PlanIsSound(chunks, payments)
      BY <3>2, <3>4 DEF PlanIsSound, ChunksInv, ChunkHolds, Disjoint
    <3> QED
      BY <3>2, <3>4, <3>5 DEF Exact, ChunksInv, chunks
  <2> QED
    BY <2>4, <2>5 DEF chunks
<1> QED
  BY <1>2, <1>3

Numbered(held) == \A c, d \in held : c.n % NameBase = d.n % NameBase => c = d
Below(n, h) == n \in Nat /\ n < NameBase * h

CoinInv ==
    /\ height \in Nat \ {0}
    /\ \A c \in coins : Below(c.n, height)
    /\ Numbered(coins)

SpendInv ==
    /\ mempool \cup dropped \subseteq accepted
    /\ \A tx \in accepted : tx.inputs # {} /\ \A n \in tx.inputs : Below(n, height)
    /\ \A tx, other \in accepted \ dropped : tx # other => tx.inputs \cap other.inputs = {}
    /\ \A tx, other \in mempool : tx # other => tx.inputs \cap other.inputs = {}
    /\ \A tx \in accepted \ (mempool \cup dropped) : tx.inputs \cap Names(coins) = {}

WalletInv == CoinInv /\ SpendInv

-----------------------------------------------------------------------------
(* Names *)

LEMMA NameArithmetic ==
    ASSUME NEW h \in Nat \ {0}, NEW i \in 0..(NameBase - 1)
    PROVE  /\ (NameBase * h + i) % NameBase = i
           /\ Below(NameBase * h + i, h + 1) /\ ~Below(NameBase * h + i, h)
BY DEF NameBase, Below

LEMMA NamesAge ==
    ASSUME NEW n, NEW h \in Nat, Below(n, h)
    PROVE  Below(n, h + 1) /\ n % NameBase \in 0..(NameBase - 1)
BY DEF NameBase, Below

(* A change output is named after a coin that its transaction spends. *)
LEMMA OriginIsSpent ==
    ASSUME WalletInv, NEW tx \in accepted, tx.inputs \subseteq Names(coins)
    PROVE  \E c \in coins : c.n \in tx.inputs /\ Origin(tx) = c.n % NameBase
<1>1. {n % NameBase : n \in tx.inputs} # {}
  BY DEF WalletInv, SpendInv
<1>2. Origin(tx) \in {n % NameBase : n \in tx.inputs}
  BY <1>1 DEF Origin
<1> QED
  BY <1>2 DEF Names

LEMMA ChangeNames ==
    ASSUME WalletInv, NEW tx \in accepted, tx.inputs \subseteq Names(coins)
    PROVE  /\ Origin(tx) \in 0..(NameBase - 1)
           /\ ChangeCoin(tx).n % NameBase = Origin(tx)
           /\ Below(ChangeCoin(tx).n, height + 1) /\ ~Below(ChangeCoin(tx).n, height)
<1>1. Origin(tx) \in 0..(NameBase - 1)
  BY OriginIsSpent, NamesAge DEF WalletInv, CoinInv
<1>2. ChangeCoin(tx).n = NameBase * height + Origin(tx)
  BY DEF ChangeCoin
<1> QED
  BY <1>1, <1>2, NameArithmetic DEF WalletInv, CoinInv

-----------------------------------------------------------------------------
(* Steps *)

LEMMA MineKeeps == ASSUME WalletInv, Mine PROVE WalletInv'
<1>0. PICK block \in SUBSET (mempool \cup dropped) :
        /\ IsValidBlock(block)
        /\ coins' = {c \in coins : \A tx \in block : c.n \notin tx.inputs}
                    \cup {ChangeCoin(tx) : tx \in {t \in block : t.change > 0}}
        /\ mempool' = mempool \ block
  BY DEF Mine
<1> DEFINE rest == {c \in coins : \A tx \in block : c.n \notin tx.inputs}
           new  == {ChangeCoin(tx) : tx \in {t \in block : t.change > 0}}
<1>1. /\ coins' = rest \cup new /\ height' = height + 1
      /\ mempool' = mempool \ block /\ UNCHANGED <<accepted, dropped>>
  BY <1>0 DEF Mine
<1>2. height' \in Nat \ {0}
  BY <1>1 DEF WalletInv, CoinInv
<1>b. \A tx \in block : tx \in accepted /\ tx.inputs \subseteq Names(coins)
  BY <1>0 DEF IsValidBlock, WalletInv, SpendInv
<1>3. \A c \in coins' : Below(c.n, height')
  <2>1. \A c \in rest : Below(c.n, height')
    BY <1>1, NamesAge DEF WalletInv, CoinInv
  <2>2. \A c \in new : Below(c.n, height')
    BY <1>1, <1>b, ChangeNames
  <2> QED
    BY <1>1, <2>1, <2>2
<1>4. Numbered(coins')
  <2>1. ASSUME NEW c \in rest, NEW d \in rest, c.n % NameBase = d.n % NameBase PROVE c = d
    BY <2>1 DEF WalletInv, CoinInv, Numbered
  <2>2. ASSUME NEW c \in rest, NEW tx \in block PROVE c.n % NameBase # ChangeCoin(tx).n % NameBase
    <3>1. PICK d \in coins : d.n \in tx.inputs /\ Origin(tx) = d.n % NameBase
      BY <1>b, OriginIsSpent
    <3>2. c # d /\ c \in coins
      BY <3>1
    <3> QED
      BY <1>b, <3>1, <3>2, ChangeNames DEF WalletInv, CoinInv, Numbered
  <2>3. ASSUME NEW tx \in block, NEW t \in block,
               ChangeCoin(tx).n % NameBase = ChangeCoin(t).n % NameBase
        PROVE  tx = t
    <3>1. PICK c \in coins : c.n \in tx.inputs /\ Origin(tx) = c.n % NameBase
      BY <1>b, OriginIsSpent
    <3>2. PICK d \in coins : d.n \in t.inputs /\ Origin(t) = d.n % NameBase
      BY <1>b, OriginIsSpent
    <3>3. c = d
      BY <1>b, <2>3, <3>1, <3>2, ChangeNames DEF WalletInv, CoinInv, Numbered
    <3> QED
      BY <1>0, <3>1, <3>2, <3>3 DEF IsValidBlock
  <2> SUFFICES ASSUME NEW c \in coins', NEW d \in coins', c.n % NameBase = d.n % NameBase
               PROVE  c = d
    BY DEF Numbered
  <2>4. (c \in rest \/ c \in new) /\ (d \in rest \/ d \in new)
    BY <1>1
  <2>5. CASE c \in rest /\ d \in rest
    BY <2>1, <2>5
  <2>6. CASE c \in new /\ d \in new
    BY <2>3, <2>6
  <2>7. CASE c \in rest /\ d \in new
    <3>1. PICK tx \in block : d = ChangeCoin(tx)
      BY <2>7
    <3> HIDE DEF rest, new
    <3> QED
      BY <2>2, <2>7, <3>1
  <2>8. CASE c \in new /\ d \in rest
    <3>1. PICK tx \in block : c = ChangeCoin(tx)
      BY <2>8
    <3> HIDE DEF rest, new
    <3> QED
      BY <2>2, <2>8, <3>1
  <2> QED BY <2>4, <2>5, <2>6, <2>7, <2>8
<1>5. \A tx \in accepted : \A n \in tx.inputs : Below(n, height')
  BY <1>1, NamesAge DEF WalletInv, CoinInv, SpendInv
<1>6. ASSUME NEW tx \in accepted \ (mempool' \cup dropped), NEW c \in coins' PROVE c.n \notin tx.inputs
  <2>1. CASE c \in rest
    <3>1. tx \in block => c.n \notin tx.inputs
      BY <2>1
    <3>2. tx \notin block => c.n \notin tx.inputs
      BY <1>1, <1>6, <2>1 DEF WalletInv, SpendInv, Names
    <3> QED BY <3>1, <3>2
  <2>2. CASE c \in new
    <3>1. ~Below(c.n, height)
      BY <1>b, <2>2, ChangeNames
    <3> QED
      BY <3>1 DEF WalletInv, SpendInv
  <2> QED BY <1>1, <2>1, <2>2
<1>7. SpendInv'
  <2>1. \A tx \in accepted' \ (mempool' \cup dropped') : tx.inputs \cap Names(coins') = {}
    BY <1>1, <1>6 DEF Names
  <2>2. mempool' \subseteq mempool
    BY <1>1
  <2> HIDE DEF rest, new
  <2> QED
    BY <1>1, <1>5, <2>1, <2>2 DEF WalletInv, SpendInv, Names
<1> QED
  BY <1>2, <1>3, <1>4, <1>7 DEF WalletInv, CoinInv

(* The node takes a transaction, the one it holds already or one that spends living coins
   that nothing in the mempool spends; it may evict another for it. *)
LEMMA TakenKeeps ==
    ASSUME WalletInv, NEW tx, Takes(tx), UNCHANGED <<coins, height>>
    PROVE  WalletInv'
<1>0. PICK evicted \in {{}} \cup {{other} : other \in mempool} :
        /\ mempool' = (mempool \ evicted) \cup {tx} /\ dropped' = dropped \cup evicted
        /\ evicted # {} => tx \notin mempool
  BY DEF Takes
<1>a. accepted' = accepted \cup {tx} /\ acceptTransaction(tx) /\ evicted \subseteq mempool
  BY DEF Takes
<1>1. CASE tx \in mempool
  <2>1. mempool' = mempool /\ accepted' = accepted /\ dropped' = dropped
    BY <1>0, <1>1, <1>a DEF WalletInv, SpendInv
  <2> QED
    BY <2>1 DEF WalletInv, CoinInv, SpendInv
<1>2. CASE tx \notin mempool
  <2>1. /\ tx.inputs # {} /\ tx.inputs \subseteq Names(coins)
        /\ \A other \in mempool : tx.inputs \cap other.inputs = {}
    BY <1>2, <1>a DEF acceptTransaction
  <2>2. \A other \in accepted \ dropped : tx.inputs \cap other.inputs = {}
    <3>1. \A other \in accepted \ (mempool \cup dropped) : tx.inputs \cap other.inputs = {}
      BY <2>1 DEF WalletInv, SpendInv
    <3> QED
      BY <2>1, <3>1
  <2>4. \A n \in tx.inputs : Below(n, height)
    BY <2>1 DEF WalletInv, CoinInv, Names
  <2>5. \A t, other \in accepted' \ dropped' : t # other => t.inputs \cap other.inputs = {}
    BY <1>0, <1>a, <2>2 DEF WalletInv, SpendInv
  <2>6. /\ mempool' \cup dropped' \subseteq accepted'
        /\ \A t \in accepted' : t.inputs # {} /\ \A n \in t.inputs : Below(n, height)
    BY <1>0, <1>a, <2>1, <2>4 DEF WalletInv, SpendInv
  <2>7. \A t \in accepted' \ (mempool' \cup dropped') : t.inputs \cap Names(coins) = {}
    BY <1>0, <1>a DEF WalletInv, SpendInv
  <2>8. \A t, other \in mempool' : t # other => t.inputs \cap other.inputs = {}
    BY <1>0, <2>1 DEF WalletInv, SpendInv
  <2>9. SpendInv'
    BY <2>5, <2>6, <2>7, <2>8 DEF SpendInv, Names
  <2> QED
    BY <2>9 DEF WalletInv, CoinInv
<1> QED BY <1>1, <1>2

(* The mempool loses some of its transactions. *)
LEMMA DropKeeps ==
    ASSUME WalletInv, OthersSend \/ NodeRestarts
    PROVE  WalletInv'
<1>1. UNCHANGED <<coins, height, accepted>>
  BY DEF OthersSend, NodeRestarts
<1>2. /\ mempool' \subseteq mempool /\ dropped \subseteq dropped'
      /\ mempool' \cup dropped' = mempool \cup dropped
  BY DEF OthersSend, NodeRestarts
<1>3. SpendInv'
  BY <1>1, <1>2 DEF WalletInv, SpendInv, Names
<1> QED
  BY <1>1, <1>3 DEF WalletInv, CoinInv

LEMMA InitWallet == Init => WalletInv
<1> SUFFICES ASSUME Init PROVE WalletInv
  OBVIOUS
<1>1. \A c \in coins : c.n \in 0..(NameBase - 1)
  BY CoinsAssumption DEF Init, Names
<1>2. \A n \in 0..(NameBase - 1) : Below(n, 1) /\ n % NameBase = n
  BY DEF NameBase, Below
<1>3. Numbered(coins)
  BY <1>1, <1>2, CoinsAssumption DEF Init, Numbered
<1> QED
  BY <1>1, <1>2, <1>3 DEF Init, WalletInv, CoinInv, SpendInv

LEMMA StepWallet == WalletInv /\ [Next]_vars => WalletInv'
<1> SUFFICES ASSUME WalletInv, [Next]_vars PROVE WalletInv'
  OBVIOUS
<1>1. ASSUME NEW j \in Jobs, Answered(j) \/ AnswerLost(j) PROVE WalletInv'
  <2> DEFINE tx == CurrentTx(j)
  <2>1. Takes(tx) /\ UNCHANGED <<coins, height>>
    BY <1>1 DEF Answered, AnswerLost
  <2> HIDE DEF tx
  <2> QED
    BY <2>1, TakenKeeps
<1>2. CASE Mine
  BY <1>2, MineKeeps
<1>3. ASSUME UNCHANGED nodeVars PROVE WalletInv'
  BY <1>3 DEF nodeVars, WalletInv, CoinInv, SpendInv
<1>4. ASSUME NEW j \in Jobs,
             fetchWalletUtxos(j) \/ ReadFails(j) \/ Refused(j) \/ RequestLost(j)
      PROVE  WalletInv'
  BY <1>3, <1>4 DEF fetchWalletUtxos, ReadFails, Refused, RequestLost
<1>5. ASSUME NEW j \in Jobs,
             \/ \E payments \in Requests, fee \in Fees : send(j, payments, fee)
             \/ \E u \in UploadIds, fee \in Fees : handleUpload(j, u, fee)
      PROVE  WalletInv'
  BY <1>3, <1>5 DEF send, handleUpload
<1>6. CASE Midnight \/ Restart
  BY <1>3, <1>6 DEF Midnight, Restart
<1>7. CASE UNCHANGED vars
  BY <1>3, <1>7 DEF vars
<1>8. CASE OthersSend \/ NodeRestarts
  BY <1>8, DropKeeps
<1> QED
  BY <1>1, <1>2, <1>4, <1>5, <1>6, <1>7, <1>8 DEF Next, JobStep

LEMMA WalletInvariant == Spec => []WalletInv
<1> QED
  BY InitWallet, StepWallet, PTL DEF Spec

-----------------------------------------------------------------------------
(* Theorems *)

(* With any number of calls, repeated posts, lost answers, evictions, late blocks and
   restarts of either side, the mempool never holds two spends of one coin, and of two that
   the node took in the course of time it has dropped one. *)
THEOREM NoCoinIsSpentTwice == Spec => []CoinsAreSpentOnce
<1>1. WalletInv => CoinsAreSpentOnce
  BY DEF WalletInv, SpendInv, CoinsAreSpentOnce
<1> QED
  BY <1>1, WalletInvariant, PTL

(* Every living coin keeps a name of its own, and the mempool holds accepted
   transactions only. *)
THEOREM CoinsKeepTheirNames == Spec => []TypeOK
<1>1. WalletInv => TypeOK
  <2> SUFFICES ASSUME WalletInv PROVE TypeOK
    OBVIOUS
  <2>1. \A c, d \in coins : c.n = d.n => c = d
    BY DEF WalletInv, CoinInv, Numbered
  <2>2. \A n, h \in Nat : n < NameBase * h => n \in 0..(NameBase * h - 1)
    BY DEF NameBase
  <2>3. Names(coins) \subseteq 0..(NameBase * height - 1)
    BY <2>2 DEF WalletInv, CoinInv, Names, Below
  <2> QED
    BY <2>1, <2>3 DEF WalletInv, CoinInv, SpendInv, TypeOK
<1> QED
  BY <1>1, WalletInvariant, PTL

-----------------------------------------------------------------------------
(* Calls keep sound plans *)

\* A call: while it reads it has no plan, and the plan it then makes it keeps.
JobHolds(job) ==
  /\ DOMAIN job = {"kind", "at", "payments", "fee", "unread", "read", "plan", "next", "tries", "upload"}
  /\ IsPaymentList(job.payments) /\ job.fee \in Nat /\ AreCoins(job.read)
  /\ job.at \in {"idle", "reading"} => job.plan = << >> /\ job.next = 1
  /\ job.at = "posting" => job.next \in DOMAIN job.plan
  /\ IsList(job.plan) /\ \A k \in DOMAIN job.plan : ChunkHolds(job.plan[k], job.read)
  /\ \A a : PaidTo(job.plan, a) <= TotalTo(job.payments, a)
  /\ job.kind = "send" /\ job.plan # << >> => PlanIsSound(job.plan, job.payments)

JobInv == jobs = [j \in Jobs |-> jobs[j]] /\ \A j \in Jobs : JobHolds(jobs[j])

\* Every transaction the node took is one of a call's plan.
AcceptedInv ==
  /\ IsFiniteSet(accepted)
  /\ \A tx \in accepted : \E j \in Jobs : \E k \in DOMAIN jobs[j].plan : tx = TxOf(jobs[j].plan[k])

CallInv == WalletInv /\ AreCoins(coins) /\ JobInv /\ AcceptedInv

LEMMA NoPlanPaysNothing == \A a : PaidTo(<< >>, a) = 0
BY SumOfNothing, DOMAIN << >> = {} DEF PaidTo, SumFunction

LEMMA EmptyList == IsList(<< >>) /\ IsPaymentList(<< >>) /\ DOMAIN << >> = {}
BY DEF IsList, IsPaymentList

\* A call that has not read yet.
LEMMA NewJobHolds ==
  ASSUME NEW payments, IsPaymentList(payments), NEW fee \in Nat, NEW job,
         DOMAIN job = DOMAIN NewJob, job.payments = payments, job.fee = fee,
         job.read = {}, job.plan = << >>, job.next = 1, job.at \in {"idle", "reading"}
  PROVE  JobHolds(job)
<1>1. DOMAIN job = {"kind", "at", "payments", "fee", "unread", "read", "plan", "next", "tries", "upload"}
  BY DEF NewJob
<1>2. AreCoins(job.read)
  BY FS_EmptySet DEF AreCoins
<1>3. \A a : TotalTo(payments, a) \in Nat
  BY PaymentsTo
<1>4. \A a : PaidTo(job.plan, a) <= TotalTo(payments, a)
  BY <1>3, NoPlanPaysNothing
<1>5. IsList(job.plan) /\ \A k \in DOMAIN job.plan : ChunkHolds(job.plan[k], job.read)
  BY EmptyList
<1> QED
  BY <1>1, <1>2, <1>4, <1>5 DEF JobHolds

\* A call that keeps its plan: it goes on, or ends.
SamePlan(job, new) ==
  /\ DOMAIN new = DOMAIN job /\ new.kind = job.kind /\ new.payments = job.payments
  /\ new.fee = job.fee /\ new.read = job.read /\ new.plan = job.plan

LEMMA KeptJobHolds ==
  ASSUME NEW job, JobHolds(job), NEW new, SamePlan(job, new),
         new.at \notin {"idle", "reading"}, new.at = "posting" => new.next \in DOMAIN job.plan
  PROVE  JobHolds(new) /\ new.plan = job.plan
BY DEF JobHolds, SamePlan

LEMMA JobGoesOn ==
  ASSUME NEW job, JobHolds(job), job.at = "posting"
  PROVE  /\ JobHolds(TriesAgain(job)) /\ TriesAgain(job).plan = job.plan
         /\ JobHolds(AfterAnswer(job)) /\ AfterAnswer(job).plan = job.plan
<1>1. job.next \in DOMAIN job.plan /\ DOMAIN job.plan = 1..Len(job.plan) /\ Len(job.plan) \in Nat
  BY ListPositions DEF JobHolds, IsList
<1>2. /\ SamePlan(job, TriesAgain(job)) /\ TriesAgain(job).at \in {"failed", "posting"}
      /\ TriesAgain(job).next = job.next
  BY DEF JobHolds, TriesAgain, SamePlan
<1>3. /\ SamePlan(job, AfterAnswer(job)) /\ AfterAnswer(job).at \in {"ok", "posting"}
      /\ AfterAnswer(job).at = "posting" => AfterAnswer(job).next \in DOMAIN job.plan
  <2>1. CASE job.next < Len(job.plan)
    <3>1. job.next + 1 \in DOMAIN job.plan
      BY <1>1, <2>1
    <3> QED
      BY <2>1, <3>1 DEF JobHolds, AfterAnswer, SamePlan
  <2>2. CASE ~ (job.next < Len(job.plan))
    BY <2>2 DEF JobHolds, AfterAnswer, SamePlan
  <2> QED
    BY <2>1, <2>2
<1> QED
  BY <1>1, <1>2, <1>3, KeptJobHolds

\* A call can always end.
LEMMA JobEnds ==
  ASSUME NEW job, JobHolds(job), NEW at, at \notin {"idle", "reading", "posting"}
  PROVE  JobHolds([job EXCEPT !.at = at]) /\ [job EXCEPT !.at = at].plan = job.plan
<1> DEFINE new == [job EXCEPT !.at = at]
<1>1. SamePlan(job, new) /\ new.at = at
  BY DEF JobHolds, SamePlan
<1> HIDE DEF new
<1>2. JobHolds(new) /\ new.plan = job.plan
  BY <1>1, KeptJobHolds
<1> QED
  BY <1>2 DEF new

\* An upload keeps the first transaction of its plan, which pays no more than the plan.
LEMMA FirstOfPlan ==
  ASSUME NEW plan, IsList(plan), plan # << >>,
         \A k \in DOMAIN plan : IsPaymentList(plan[k].outputs)
  PROVE  LET first == SubSeq(plan, 1, 1)
         IN  /\ IsList(first) /\ first # << >> /\ DOMAIN first = {1} /\ first[1] = plan[1]
             /\ 1 \in DOMAIN plan
             /\ \A a : PaidTo(first, a) <= PaidTo(plan, a)
<1> DEFINE first == SubSeq(plan, 1, 1)
<1>1. /\ Len(plan) \in Nat /\ DOMAIN plan = 1..Len(plan) /\ IsFiniteSet(DOMAIN plan)
      /\ plan \in Seq(Range(plan))
  BY ListPositions DEF IsList
<1>2. 1 \in DOMAIN plan /\ Len(plan) >= 1
  <2>1. Len(plan) # 0
    BY <1>1
  <2> QED
    BY <1>1, <2>1
<1>3. first = [i \in 1..1 |-> plan[i]]
  <2>1. first = [i \in 1..1 |-> plan[1 + i - 1]]
    BY <1>1, <1>2
  <2> QED
    BY <2>1
<1> HIDE DEF first
<1>4. DOMAIN first = {1} /\ first[1] = plan[1] /\ first # << >>
  BY <1>3
<1>5. IsList(first)
  <2>1. first[1] \in Range(first)
    BY <1>4 DEF Range
  <2> DEFINE R == Range(first)
  <2>2. first \in [1..1 -> R]
    BY <1>3, <1>4, <2>1
  <2> HIDE DEF R
  <2>3. first \in Seq(R)
    BY <2>2, SeqDef
  <2> QED
    BY <2>3 DEF IsList, R
<1>6. ASSUME NEW a PROVE PaidTo(first, a) <= PaidTo(plan, a)
  <2> DEFINE f == [k \in DOMAIN plan |-> TotalTo(plan[k].outputs, a)]
             g == [k \in DOMAIN first |-> TotalTo(first[k].outputs, a)]
  <2>1. \A k \in DOMAIN plan : f[k] \in Nat
    BY PaymentsTo
  <2>2. PaidTo(plan, a) = SumFunctionOnSet(f, DOMAIN plan)
    BY DEF PaidTo, SumFunction
  <2>3. PaidTo(first, a) = SumFunctionOnSet(g, {1})
    BY <1>4 DEF PaidTo, SumFunction
  <2>4. f[1] = g[1] /\ f[1] \in Nat
    BY <1>2, <1>4, <2>1
  <2> HIDE DEF f, g
  <2>5. SumFunctionOnSet(g, {1}) = g[1]
    <3> DEFINE one == {1}
    <3>1. IsFiniteSet(one) /\ 1 \in one /\ (\A k \in one : g[k] \in Int) /\ one \ {1} = {}
      <4>1. IsFiniteSet(one)
        BY FS_Singleton
      <4>2. \A k \in one : g[k] \in Int
        BY <2>4
      <4> QED
        BY <4>1, <4>2
    <3> HIDE DEF one
    <3>2. SumFunctionOnSet(g, one) = g[1] + SumFunctionOnSet(g, one \ {1})
      BY <3>1, SumTakesOut
    <3>3. SumFunctionOnSet(g, one) = g[1] + 0
      BY <3>1, <3>2, SumOfNothing
    <3> QED
      BY <2>4, <3>3 DEF one
  <2> DEFINE rest == DOMAIN plan \ {1}
  <2>6. SumFunctionOnSet(f, DOMAIN plan) = f[1] + SumFunctionOnSet(f, rest)
    <3> DEFINE all == DOMAIN plan
    <3>1. IsFiniteSet(all) /\ 1 \in all /\ (\A k \in all : f[k] \in Int)
      BY <1>1, <1>2, <2>1
    <3> HIDE DEF all
    <3>2. SumFunctionOnSet(f, all) = f[1] + SumFunctionOnSet(f, all \ {1})
      BY <3>1, SumTakesOut
    <3> QED
      BY <3>2 DEF all
  <2>7. IsFiniteSet(rest) /\ \A k \in rest : f[k] \in Nat
    BY <1>1, <2>1, FS_Subset
  <2> HIDE DEF rest
  <2>8. SumFunctionOnSet(f, rest) \in Nat
    BY <2>7, SumIsNat
  <2> QED
    BY <2>2, <2>3, <2>4, <2>5, <2>6, <2>8
<1> QED
  BY <1>2, <1>4, <1>5, <1>6 DEF first

\* The last read ends in a failure or in a plan that holds.
LEMMA PlannedHolds ==
  ASSUME NEW job, JobHolds(job), job.at = "reading",
         NEW plan, plan = planAddressChunks(job.read, job.payments, job.fee)
  PROVE  JobHolds(Planned(job, plan))
<1>1. CASE plan = << >>
  <2>1. Planned(job, plan) = [job EXCEPT !.at = "failed"]
    BY <1>1 DEF Planned
  <2> QED
    BY <2>1, JobEnds
<1>2. CASE plan # << >>
  <2>1. Exact(plan, job.payments, job.read)
    BY <1>2, PlannerIsSound DEF JobHolds
  <2> DEFINE kept == IF job.kind = "upload" THEN SubSeq(plan, 1, 1) ELSE plan
             new == [job EXCEPT !.at = "posting", !.tries = Tries, !.plan = kept]
  <2>2. Planned(job, plan) = new
    BY <1>2 DEF Planned
  <2>3. /\ IsList(plan) /\ \A k \in DOMAIN plan : ChunkHolds(plan[k], job.read)
        /\ \A a : PaidTo(plan, a) = TotalTo(job.payments, a)
        /\ PlanIsSound(plan, job.payments)
    BY <2>1 DEF Exact
  <2>4. \A k \in DOMAIN plan : IsPaymentList(plan[k].outputs)
    BY <2>3 DEF ChunkHolds
  <2>5. \A a : TotalTo(job.payments, a) \in Nat
    BY PaymentsTo DEF JobHolds
  <2>6. /\ IsList(kept) /\ 1 \in DOMAIN kept
        /\ \A k \in DOMAIN kept : ChunkHolds(kept[k], job.read)
        /\ \A a : PaidTo(kept, a) <= TotalTo(job.payments, a)
        /\ job.kind = "send" => PlanIsSound(kept, job.payments)
    <3> DEFINE first == SubSeq(plan, 1, 1)
    <3>1. /\ IsList(first) /\ first # << >> /\ DOMAIN first = {1} /\ first[1] = plan[1]
          /\ 1 \in DOMAIN plan
          /\ \A a : PaidTo(first, a) <= PaidTo(plan, a)
      BY <1>2, <2>3, <2>4, FirstOfPlan
    <3>2. CASE job.kind = "upload"
      <4>1. kept = first
        BY <3>2
      <4> HIDE DEF kept, first
      <4> QED
        BY <2>3, <3>1, <3>2, <4>1
    <3>3. CASE job.kind # "upload"
      <4>1. kept = plan
        BY <3>3
      <4> HIDE DEF kept, first
      <4> QED
        BY <2>3, <2>5, <3>1, <4>1
    <3> QED
      BY <3>2, <3>3
  <2> HIDE DEF kept
  <2>7. /\ DOMAIN new = DOMAIN job /\ new.kind = job.kind /\ new.at = "posting"
        /\ new.payments = job.payments /\ new.fee = job.fee /\ new.read = job.read
        /\ new.plan = kept /\ new.next = 1
    BY DEF JobHolds
  <2> HIDE DEF new
  <2>8. JobHolds(new)
    BY <2>6, <2>7 DEF JobHolds
  <2> QED
    BY <2>2, <2>8
<1> QED
  BY <1>1, <1>2

\* A read adds coins of one address, as the node holds them now.
LEMMA ReadHolds ==
  ASSUME NEW job, JobHolds(job), job.at = "reading", NEW found, AreCoins(found)
  PROVE  LET read == [job EXCEPT !.unread = Tail(@), !.read = @ \cup found]
         IN  JobHolds(read) /\ read.at = "reading" /\ read.plan = job.plan
<1> DEFINE new == [job EXCEPT !.unread = Tail(@), !.read = @ \cup found]
<1>1. /\ DOMAIN new = DOMAIN job /\ new.kind = job.kind /\ new.at = "reading"
      /\ new.payments = job.payments /\ new.fee = job.fee /\ new.read = job.read \cup found
      /\ new.plan = job.plan /\ new.next = job.next
  BY DEF JobHolds
<1> HIDE DEF new
<1>2. AreCoins(job.read \cup found)
  BY FS_Union DEF JobHolds, AreCoins
<1>3. job.plan = << >> /\ DOMAIN job.plan = {}
  BY EmptyList DEF JobHolds
<1>4. JobHolds(new)
  BY <1>1, <1>2, <1>3 DEF JobHolds
<1> QED
  BY <1>1, <1>4 DEF new

-----------------------------------------------------------------------------
(* Steps of the calls *)

\* A plan once made is not changed.
PlansKept == \A j \in Jobs : jobs[j].plan # << >> => jobs'[j].plan = jobs[j].plan

LEMMA JobChanges ==
  ASSUME JobInv, NEW j \in Jobs, NEW new, JobHolds(new), jobs' = [jobs EXCEPT ![j] = new],
         jobs[j].plan # << >> => new.plan = jobs[j].plan
  PROVE  JobInv' /\ PlansKept
<1>1. \A i \in Jobs : jobs'[i] = IF i = j THEN new ELSE jobs[i]
  BY DEF JobInv
<1>2. jobs' = [i \in Jobs |-> jobs'[i]]
  BY DEF JobInv
<1> QED
  BY <1>1, <1>2 DEF JobInv, PlansKept

LEMMA AcceptedKept ==
  ASSUME AcceptedInv, PlansKept,
         \/ accepted' = accepted
         \/ \E j \in Jobs : \E k \in DOMAIN jobs[j].plan :
              accepted' = accepted \cup {TxOf(jobs[j].plan[k])}
  PROVE  AcceptedInv'
<1>1. IsFiniteSet(accepted')
  BY FS_AddElement DEF AcceptedInv
<1>2. ASSUME NEW tx \in accepted'
      PROVE  \E j \in Jobs : \E k \in DOMAIN jobs[j].plan : tx = TxOf(jobs[j].plan[k])
  BY <1>2 DEF AcceptedInv
<1>3. ASSUME NEW tx \in accepted'
      PROVE  \E j \in Jobs : \E k \in DOMAIN jobs'[j].plan : tx = TxOf(jobs'[j].plan[k])
  <2>0. PICK j \in Jobs : \E k \in DOMAIN jobs[j].plan : tx = TxOf(jobs[j].plan[k])
    BY <1>2
  <2>1. PICK k \in DOMAIN jobs[j].plan : tx = TxOf(jobs[j].plan[k])
    BY <2>0
  <2>2. jobs[j].plan # << >>
    BY <2>1, EmptyList
  <2>3. jobs'[j].plan = jobs[j].plan
    BY <2>2 DEF PlansKept
  <2> QED
    BY <2>1, <2>3
<1> QED
  BY <1>1, <1>3 DEF AcceptedInv

\* What a call may do to its job and to the node.
JobStepKept(j, new) ==
  /\ jobs' = [jobs EXCEPT ![j] = new] /\ JobHolds(new)
  /\ jobs[j].plan # << >> => new.plan = jobs[j].plan
  /\ coins' = coins
  /\ \/ accepted' = accepted
     \/ \E k \in DOMAIN jobs[j].plan : accepted' = accepted \cup {TxOf(jobs[j].plan[k])}

LEMMA JobStepKeeps ==
  ASSUME CallInv, WalletInv', NEW j \in Jobs, NEW new, JobStepKept(j, new)
  PROVE  CallInv'
<1>1. JobInv' /\ PlansKept
  BY JobChanges DEF CallInv, JobStepKept
<1>2. AcceptedInv'
  BY <1>1, AcceptedKept DEF CallInv, JobStepKept
<1>3. AreCoins(coins)'
  BY DEF CallInv, JobStepKept, AreCoins
<1> QED
  BY <1>1, <1>2, <1>3 DEF CallInv

LEMMA FetchKeeps == ASSUME CallInv, WalletInv', NEW j \in Jobs, fetchWalletUtxos(j) PROVE CallInv'
<1> DEFINE job == jobs[j]
           found == {c \in coins : c.address = Head(job.unread)}
           read == [job EXCEPT !.unread = Tail(@), !.read = @ \cup found]
<1>1. JobHolds(job) /\ job.at = "reading" /\ job.plan = << >>
  BY DEF CallInv, JobInv, JobHolds, fetchWalletUtxos
<1>2. AreCoins(found)
  BY FS_Subset DEF CallInv, AreCoins
<1>3. JobHolds(read) /\ read.at = "reading"
  <2> HIDE DEF found, job
  <2> QED
    BY <1>1, <1>2, ReadHolds
<1>4. coins' = coins /\ accepted' = accepted
  BY DEF fetchWalletUtxos, nodeVars
<1>5. \/ jobs' = [jobs EXCEPT ![j] = read]
      \/ jobs' = [jobs EXCEPT ![j] = Planned(read, planAddressChunks(read.read, read.payments, read.fee))]
  <2>1. read.payments = job.payments /\ read.fee = job.fee
    BY <1>1 DEF JobHolds
  <2>2. \/ jobs' = [jobs EXCEPT ![j] = read]
        \/ jobs' = [jobs EXCEPT ![j] = Planned(read, planAddressChunks(read.read, job.payments, job.fee))]
    BY DEF fetchWalletUtxos, Becomes
  <2> HIDE DEF read, job
  <2> QED
    BY <2>1, <2>2
<1> HIDE DEF read
<1>6. JobHolds(Planned(read, planAddressChunks(read.read, read.payments, read.fee)))
  BY <1>3, PlannedHolds
<1>7. \E new : JobStepKept(j, new)
  BY <1>1, <1>3, <1>4, <1>5, <1>6 DEF JobStepKept
<1> QED
  BY <1>7, JobStepKeeps

LEMMA PostKeeps ==
  ASSUME CallInv, WalletInv', NEW j \in Jobs, Answered(j) \/ Refused(j) \/ AnswerLost(j) \/ RequestLost(j)
  PROVE  CallInv'
<1> DEFINE job == jobs[j]
<1>1. JobHolds(job) /\ job.at = "posting" /\ job.next \in DOMAIN job.plan
  BY DEF CallInv, JobInv, JobHolds, Answered, Refused, AnswerLost, RequestLost
<1>2. /\ JobHolds(TriesAgain(job)) /\ TriesAgain(job).plan = job.plan
      /\ JobHolds(AfterAnswer(job)) /\ AfterAnswer(job).plan = job.plan
      /\ JobHolds([job EXCEPT !.at = "failed"]) /\ [job EXCEPT !.at = "failed"].plan = job.plan
  <2> HIDE DEF job
  <2> QED
    BY <1>1, JobGoesOn, JobEnds
<1>3. \/ jobs' = [jobs EXCEPT ![j] = TriesAgain(job)]
      \/ jobs' = [jobs EXCEPT ![j] = AfterAnswer(job)]
      \/ jobs' = [jobs EXCEPT ![j] = [job EXCEPT !.at = "failed"]]
  BY DEF Answered, Refused, AnswerLost, RequestLost, Becomes
<1>4. /\ coins' = coins
      /\ accepted' = accepted \/ accepted' = accepted \cup {TxOf(job.plan[job.next])}
  BY DEF Answered, Refused, AnswerLost, RequestLost, CurrentTx, Takes, nodeVars
<1>5. \/ accepted' = accepted
      \/ \E k \in DOMAIN jobs[j].plan : accepted' = accepted \cup {TxOf(jobs[j].plan[k])}
  BY <1>1, <1>4
<1>6. \E new : JobStepKept(j, new)
  <2> DEFINE failing == [job EXCEPT !.at = "failed"]
  <2>1. JobHolds(failing) /\ failing.plan = jobs[j].plan
    BY <1>2
  <2> HIDE DEF failing
  <2>2. \/ jobs' = [jobs EXCEPT ![j] = TriesAgain(job)]
        \/ jobs' = [jobs EXCEPT ![j] = AfterAnswer(job)]
        \/ jobs' = [jobs EXCEPT ![j] = failing]
    BY <1>3 DEF failing
  <2> QED
    BY <1>2, <1>4, <1>5, <2>1, <2>2 DEF JobStepKept
<1> QED
  BY <1>6, JobStepKeeps

LEMMA BeginKeeps ==
  ASSUME CallInv, WalletInv', NEW j \in Jobs, jobs[j].at = "idle",
         NEW kind, NEW payments, IsPaymentList(payments), NEW fee \in Nat, NEW upload,
         Start(j, kind, payments, fee, upload), coins' = coins, accepted' = accepted
  PROVE  CallInv'
<1> DEFINE new == [NewJob EXCEPT !.kind = kind, !.at = "reading", !.payments = payments,
                                 !.fee = fee, !.unread = WalletAddresses, !.upload = upload]
<1>1. jobs' = [jobs EXCEPT ![j] = new]
  BY DEF Start
<1>2. /\ DOMAIN new = DOMAIN NewJob /\ new.payments = payments /\ new.fee = fee
      /\ new.read = {} /\ new.plan = << >> /\ new.next = 1 /\ new.at = "reading"
  BY DEF NewJob
<1> HIDE DEF new
<1>3. JobHolds(new)
  BY <1>2, NewJobHolds
<1>4. jobs[j].plan = << >>
  BY DEF CallInv, JobInv, JobHolds
<1>5. JobStepKept(j, new)
  BY <1>1, <1>3, <1>4 DEF JobStepKept
<1> QED
  BY <1>5, JobStepKeeps

\* A call that ends where it stands.
LEMMA EndKeeps ==
  ASSUME CallInv, WalletInv', NEW j \in Jobs, NEW at \in {"failed", "ended"},
         jobs' = [jobs EXCEPT ![j].at = at], coins' = coins, accepted' = accepted
  PROVE  CallInv'
<1> DEFINE new == [jobs[j] EXCEPT !.at = at]
<1>1. jobs' = [jobs EXCEPT ![j] = new]
  OBVIOUS
<1>2. JobHolds(new) /\ new.plan = jobs[j].plan
  BY JobEnds DEF CallInv, JobInv
<1> HIDE DEF new
<1>3. JobStepKept(j, new)
  BY <1>1, <1>2 DEF JobStepKept
<1> QED
  BY <1>3, JobStepKeeps

-----------------------------------------------------------------------------
(* Blocks *)

LEMMA ChangeIsCoin ==
  ASSUME CallInv, NEW tx \in mempool \cup dropped, tx.change > 0, tx.inputs \subseteq Names(coins)
  PROVE  IsCoin(ChangeCoin(tx))
<1>1. tx \in accepted
  BY DEF CallInv, WalletInv, SpendInv
<1>2. PICK j \in Jobs : \E k \in DOMAIN jobs[j].plan : tx = TxOf(jobs[j].plan[k])
  BY <1>1 DEF CallInv, AcceptedInv
<1>3. PICK k \in DOMAIN jobs[j].plan : tx = TxOf(jobs[j].plan[k])
  BY <1>2
<1> DEFINE chunk == jobs[j].plan[k]
           first == CHOOSE c \in chunk.inputs : TRUE
<1>4. ChunkHolds(chunk, jobs[j].read) /\ AreCoins(jobs[j].read)
  BY DEF CallInv, JobInv, JobHolds
<1>5. first \in chunk.inputs
  BY <1>4 DEF ChunkHolds, ChunkBalances
<1>6. IsCoin(first)
  BY <1>4, <1>5 DEF ChunkHolds, AreCoins
<1>7. tx.from = first.address /\ tx.change = chunk.change
  BY <1>3 DEF TxOf
<1>8. tx.from \in Range(WalletAddresses) /\ tx.change \in Nat
  BY <1>4, <1>6, <1>7 DEF IsCoin, ChunkHolds
<1>9. ChangeCoin(tx).n \in Nat /\ height \in Nat
  BY <1>1, ChangeNames DEF CallInv, WalletInv, CoinInv, Below
<1> QED
  BY <1>8, <1>9 DEF IsCoin, ChangeCoin

LEMMA BlockKeeps == ASSUME CallInv, WalletInv', Mine PROVE CallInv'
<1>0. PICK block \in SUBSET (mempool \cup dropped) :
        /\ IsValidBlock(block)
        /\ coins' = {c \in coins : \A tx \in block : c.n \notin tx.inputs}
                    \cup {ChangeCoin(tx) : tx \in {t \in block : t.change > 0}}
  BY DEF Mine
<1> DEFINE rest == {c \in coins : \A tx \in block : c.n \notin tx.inputs}
           paying == {t \in block : t.change > 0}
           new  == {ChangeCoin(tx) : tx \in paying}
<1>1. coins' = rest \cup new /\ accepted' = accepted /\ jobs' = jobs
  BY <1>0 DEF Mine
<1>2. AreCoins(rest)
  BY FS_Subset DEF CallInv, AreCoins
<1>3. IsFiniteSet(paying)
  <2>1. paying \subseteq accepted /\ IsFiniteSet(accepted)
    BY DEF CallInv, WalletInv, SpendInv, AcceptedInv
  <2> HIDE DEF paying
  <2> QED
    BY <2>1, FS_Subset
<1>4. IsFiniteSet(new)
  <2> DEFINE f == [tx \in paying |-> ChangeCoin(tx)]
  <2>1. new = {f[tx] : tx \in paying} /\ f \in [paying -> new]
    OBVIOUS
  <2> HIDE DEF f, paying, new
  <2>2. f \in Surjection(paying, new)
    BY <2>1 DEF Surjection
  <2> QED
    BY <1>3, <2>2, FS_Surjection
<1>5. \A c \in new : IsCoin(c)
  BY <1>0, ChangeIsCoin DEF IsValidBlock
<1> HIDE DEF rest, new
<1>6. AreCoins(coins)'
  BY <1>1, <1>2, <1>4, <1>5, FS_Union DEF AreCoins, IsCoin
<1>7. JobInv' /\ AcceptedInv'
  BY <1>1 DEF CallInv, JobInv, AcceptedInv
<1> QED
  BY <1>6, <1>7 DEF CallInv

-----------------------------------------------------------------------------
(* The invariant of the calls *)

LEMMA InitCalls == Init => CallInv
<1> SUFFICES ASSUME Init PROVE CallInv
  OBVIOUS
<1>1. AreCoins(coins)
  <2>1. \A c \in InitialCoins : c.n \in Nat
    BY CoinsAssumption DEF Names, NameBase
  <2> QED
    BY <2>1, CoinsAssumption DEF Init, AreCoins, IsCoin
<1>2. JobHolds(NewJob)
  <2>1. /\ NewJob.payments = << >> /\ NewJob.fee = 0 /\ NewJob.read = {}
        /\ NewJob.plan = << >> /\ NewJob.next = 1 /\ NewJob.at = "idle"
    BY DEF NewJob
  <2>2. IsPaymentList(<< >>) /\ 0 \in Nat
    BY EmptyList
  <2> QED
    BY <2>1, <2>2, NewJobHolds
<1>3. JobInv
  BY <1>2 DEF Init, JobInv
<1>4. AcceptedInv
  BY FS_EmptySet DEF Init, AcceptedInv
<1> QED
  BY <1>1, <1>3, <1>4, InitWallet DEF CallInv

LEMMA RequestsAreLists ==
  /\ \A payments \in Requests : IsPaymentList(payments)
  /\ IsPaymentList(<<<<Studio, Tip>>>>)
  /\ \A fee \in Fees : fee \in Nat
<1>1. \A payments \in Requests : IsPaymentList(payments)
  BY WalletSendAssumption DEF IsPaymentList
<1> DEFINE tip == <<<<Studio, Tip>>>>
<1>2. IsPaymentList(tip)
  <2>1. tip = Append(<< >>, <<Studio, Tip>>)
    OBVIOUS
  <2>2. DOMAIN tip = 1..1 /\ tip[1] = <<Studio, Tip>> /\ tip[1][2] \in Nat \ {0}
    BY WalletSendAssumption
  <2>3. IsList(tip)
    <3>1. \A x : IsList(Append(<< >>, x))
      BY EmptyList, ListGrows
    <3> HIDE DEF tip
    <3> QED
      BY <2>1, <3>1
  <2> HIDE DEF tip
  <2> QED
    BY <2>2, <2>3 DEF IsPaymentList, IsList
<1> QED
  BY <1>1, <1>2, WalletSendAssumption

LEMMA UploadKeeps ==
  ASSUME CallInv, WalletInv', NEW j \in Jobs, NEW u \in UploadIds, NEW fee \in Fees,
         handleUpload(j, u, fee)
  PROVE  CallInv'
<1>1. jobs[j].at = "idle" /\ coins' = coins /\ accepted' = accepted
  BY DEF handleUpload, nodeVars
<1>2. CASE jobs' = [jobs EXCEPT ![j].at = "ended"]
  BY <1>1, <1>2, EndKeeps
<1>3. CASE Start(j, "upload", <<<<Studio, Tip>>>>, fee, u)
  BY <1>1, <1>3, BeginKeeps, RequestsAreLists
<1> QED
  BY <1>2, <1>3 DEF handleUpload

LEMMA SendKeeps ==
  ASSUME CallInv, WalletInv', NEW j \in Jobs, NEW payments \in Requests, NEW fee \in Fees,
         send(j, payments, fee)
  PROVE  CallInv'
<1>1. jobs[j].at = "idle" /\ coins' = coins /\ accepted' = accepted
  BY DEF send, nodeVars
<1>2. Start(j, "send", payments, fee, "none")
  BY DEF send
<1> QED
  BY <1>1, <1>2, BeginKeeps, RequestsAreLists

LEMMA RestartKeeps == ASSUME CallInv, WalletInv', Restart PROVE CallInv'
<1>1. coins' = coins /\ accepted' = accepted
  BY DEF Restart, nodeVars
<1>2. /\ jobs' = [j \in Jobs |-> jobs'[j]]
      /\ \A j \in Jobs : jobs'[j] = jobs[j] \/ jobs'[j] = [jobs[j] EXCEPT !.at = "ended"]
  BY DEF Restart
<1>3. \A j \in Jobs : JobHolds(jobs'[j]) /\ jobs'[j].plan = jobs[j].plan
  <2> TAKE j \in Jobs
  <2> DEFINE ending == [jobs[j] EXCEPT !.at = "ended"]
  <2>1. JobHolds(jobs[j])
    BY DEF CallInv, JobInv
  <2>2. JobHolds(ending) /\ ending.plan = jobs[j].plan
    BY <2>1, JobEnds
  <2>3. jobs'[j] = jobs[j] \/ jobs'[j] = ending
    BY <1>2
  <2> HIDE DEF ending
  <2> QED
    BY <2>1, <2>2, <2>3
<1>4. JobInv' /\ PlansKept
  BY <1>2, <1>3 DEF JobInv, PlansKept
<1>5. AcceptedInv'
  BY <1>1, <1>4, AcceptedKept DEF CallInv
<1>6. AreCoins(coins)'
  BY <1>1 DEF CallInv, AreCoins
<1> QED
  BY <1>4, <1>5, <1>6 DEF CallInv

LEMMA StepCalls == CallInv /\ [Next]_vars => CallInv'
<1> SUFFICES ASSUME CallInv, [Next]_vars PROVE CallInv'
  OBVIOUS
<1>1. WalletInv'
  BY StepWallet DEF CallInv
<1>2. ASSUME NEW j \in Jobs, JobStep(j) PROVE CallInv'
  <2>1. CASE fetchWalletUtxos(j)
    BY <1>1, <2>1, FetchKeeps
  <2>2. CASE ReadFails(j)
    <3>1. jobs' = [jobs EXCEPT ![j].at = "failed"] /\ coins' = coins /\ accepted' = accepted
      BY <2>2 DEF ReadFails, nodeVars
    <3> QED
      BY <1>1, <3>1, EndKeeps
  <2>3. CASE Answered(j) \/ Refused(j) \/ AnswerLost(j) \/ RequestLost(j)
    BY <1>1, <2>3, PostKeeps
  <2> QED
    BY <1>2, <2>1, <2>2, <2>3 DEF JobStep
<1>3. ASSUME NEW j \in Jobs, NEW payments \in Requests, NEW fee \in Fees, send(j, payments, fee)
      PROVE  CallInv'
  BY <1>1, <1>3, SendKeeps
<1>4. ASSUME NEW j \in Jobs, NEW u \in UploadIds, NEW fee \in Fees, handleUpload(j, u, fee)
      PROVE  CallInv'
  BY <1>1, <1>4, UploadKeeps
<1>5. CASE Mine
  BY <1>1, <1>5, BlockKeeps
<1>6. CASE Restart
  BY <1>1, <1>6, RestartKeeps
<1>7. CASE Midnight \/ OthersSend \/ NodeRestarts \/ UNCHANGED vars
  <2>1. coins' = coins /\ accepted' = accepted /\ jobs' = jobs
    BY <1>7 DEF Midnight, OthersSend, NodeRestarts, vars, nodeVars
  <2> QED
    BY <1>1, <2>1 DEF CallInv, JobInv, AcceptedInv, AreCoins
<1> QED
  BY <1>2, <1>3, <1>4, <1>5, <1>6, <1>7 DEF Next

LEMMA CallInvariant == Spec => []CallInv
<1> QED
  BY InitCalls, StepCalls, PTL DEF Spec

-----------------------------------------------------------------------------
(* What was paid *)

\* The transactions of the calls' plans, by call and place.
PlanPlaces(j) == {<<j, k>> : k \in DOMAIN jobs[j].plan}
AllPlaces == UNION {PlanPlaces(j) : j \in Jobs}

\* A plan's transactions pay what its call asked for, each place counted once.
LEMMA PlansPayWhatWasAsked ==
  ASSUME CallInv, NEW a
  PROVE  LET f == [p \in AllPlaces |-> TotalTo(jobs[p[1]].plan[p[2]].outputs, a)]
         IN  /\ IsFiniteSet(AllPlaces) /\ \A p \in AllPlaces : f[p] \in Nat
             /\ SumFunctionOnSet(f, AllPlaces) <= AskedFor(a)
<1> DEFINE f == [p \in AllPlaces |-> TotalTo(jobs[p[1]].plan[p[2]].outputs, a)]
           paid == [j \in Jobs |-> PaidTo(jobs[j].plan, a)]
           asked == [j \in Jobs |-> TotalTo(jobs[j].payments, a)]
           A == [j \in Jobs |-> PlanPlaces(j)]
<1>1. \A j \in Jobs : /\ IsList(jobs[j].plan) /\ IsPaymentList(jobs[j].payments)
                      /\ \A k \in DOMAIN jobs[j].plan : IsPaymentList(jobs[j].plan[k].outputs)
                      /\ PaidTo(jobs[j].plan, a) <= TotalTo(jobs[j].payments, a)
  BY DEF CallInv, JobInv, JobHolds, ChunkHolds
<1>2. \A j \in Jobs : \A k \in DOMAIN jobs[j].plan :
        /\ <<j, k>> \in AllPlaces
        /\ f[<<j, k>>] = TotalTo(jobs[j].plan[k].outputs, a) /\ f[<<j, k>>] \in Nat
  <2> TAKE j \in Jobs
  <2> TAKE k \in DOMAIN jobs[j].plan
  <2>1. <<j, k>> \in AllPlaces
    BY DEF AllPlaces, PlanPlaces
  <2>2. f[<<j, k>>] = TotalTo(jobs[j].plan[k].outputs, a)
    BY <2>1
  <2>3. TotalTo(jobs[j].plan[k].outputs, a) \in Nat
    BY <1>1, PaymentsTo
  <2> HIDE DEF f
  <2> QED
    BY <2>1, <2>2, <2>3
<1> HIDE DEF f
<1>3. \A p \in AllPlaces : f[p] \in Nat
  BY <1>2 DEF AllPlaces, PlanPlaces
<1>4. ASSUME NEW j \in Jobs
      PROVE  /\ IsFiniteSet(PlanPlaces(j)) /\ SumFunctionOnSet(f, PlanPlaces(j)) = paid[j]
             /\ \A p \in PlanPlaces(j) : f[p] \in Int
             /\ paid[j] \in Int
  <2> DEFINE S == DOMAIN jobs[j].plan
             g == [k \in S |-> TotalTo(jobs[j].plan[k].outputs, a)]
             h == [k \in S |-> <<j, k>>]
  <2>1. IsFiniteSet(S)
    BY <1>1, ListPositions DEF IsList
  <2>2. \A k \in S : f[h[k]] \in Int /\ g[k] = f[h[k]] /\ g[k] \in Int
    BY <1>2
  <2>3. \A k, m \in S : h[k] = h[m] => k = m
    OBVIOUS
  <2>4. PlanPlaces(j) = {h[k] : k \in S}
    BY DEF PlanPlaces
  <2>5. PaidTo(jobs[j].plan, a) = SumFunctionOnSet(g, S)
    BY DEF PaidTo, SumFunction
  <2>6. \A p \in PlanPlaces(j) : f[p] \in Int
    BY <1>3 DEF AllPlaces
  <2> HIDE DEF g, h, S
  <2>7. /\ IsFiniteSet({h[k] : k \in S})
        /\ SumFunctionOnSet(f, {h[k] : k \in S}) = SumFunctionOnSet(g, S)
    BY <2>1, <2>2, <2>3, SumOfImage
  <2>8. SumFunctionOnSet(g, S) \in Int
    BY <2>1, <2>2, SumIsInt
  <2> QED
    BY <2>4, <2>5, <2>6, <2>7, <2>8
<1>5. \A i, j \in Jobs : i # j => A[i] \cap A[j] = {}
  BY DEF PlanPlaces
<1>6. \A j \in Jobs : /\ IsFiniteSet(A[j]) /\ paid[j] = SumFunctionOnSet(f, A[j])
                      /\ \A p \in A[j] : f[p] \in Int
  BY <1>4
<1>7. \A p : p \in AllPlaces <=> \E j \in Jobs : p \in A[j]
  BY DEF AllPlaces
<1>8. \A j \in Jobs : paid[j] \in Int /\ asked[j] \in Int /\ paid[j] <= asked[j]
  <2>1. \A j \in Jobs : paid[j] \in Int
    BY <1>4
  <2>2. \A j \in Jobs : TotalTo(jobs[j].payments, a) \in Nat
    BY <1>1, PaymentsTo
  <2> QED
    BY <1>1, <2>1, <2>2
<1>9. AskedFor(a) = SumFunctionOnSet(asked, Jobs)
  BY DEF AskedFor, SumFunction
<1> HIDE DEF A, paid, asked
<1>10. IsFiniteSet(Jobs)
  BY WalletSendAssumption
<1>11. IsFiniteSet(AllPlaces) /\ SumFunctionOnSet(f, AllPlaces) = SumFunctionOnSet(paid, Jobs)
  <2>1. \A i \in Jobs : IsFiniteSet(A[i]) /\ paid[i] = SumFunctionOnSet(f, A[i])
    BY <1>6
  <2>2. \A i \in Jobs : \A x \in A[i] : f[x] \in Int
    BY <1>6
  <2>3. IsFamily(f, paid, Jobs, A, AllPlaces)
    BY <1>5, <1>7, <1>10, <2>1, <2>2 DEF IsFamily
  <2> QED
    BY <2>3, SumOfFamily
<1>12. SumFunctionOnSet(paid, Jobs) <= SumFunctionOnSet(asked, Jobs)
  BY <1>8, <1>10, SumGrows
<1>13. /\ IsFiniteSet(AllPlaces) /\ SumFunctionOnSet(f, AllPlaces) <= AskedFor(a)
  BY <1>9, <1>11, <1>12
<1> QED
  BY <1>3, <1>13 DEF f

\* A transaction that the node took has a place in a plan, and no two have the same.
LEMMA PaidWasPlanned ==
  ASSUME CallInv, NEW a
  PROVE  LET f == [p \in AllPlaces |-> TotalTo(jobs[p[1]].plan[p[2]].outputs, a)]
         IN  \E T \in SUBSET AllPlaces : PaidOnChain(a) = SumFunctionOnSet(f, T)
<1> DEFINE f == [p \in AllPlaces |-> TotalTo(jobs[p[1]].plan[p[2]].outputs, a)]
           g == [tx \in accepted |-> TotalTo(tx.outputs, a)]
           place == [tx \in accepted |-> CHOOSE p \in AllPlaces : tx = TxOf(jobs[p[1]].plan[p[2]])]
           T == {place[tx] : tx \in accepted}
<1>1. ASSUME NEW tx \in accepted
      PROVE  place[tx] \in AllPlaces /\ tx = TxOf(jobs[place[tx][1]].plan[place[tx][2]])
  <2>1. PICK j \in Jobs : \E k \in DOMAIN jobs[j].plan : tx = TxOf(jobs[j].plan[k])
    BY DEF CallInv, AcceptedInv
  <2>2. PICK k \in DOMAIN jobs[j].plan : tx = TxOf(jobs[j].plan[k])
    BY <2>1
  <2>3. <<j, k>> \in AllPlaces /\ tx = TxOf(jobs[<<j, k>>[1]].plan[<<j, k>>[2]])
    BY <2>2 DEF AllPlaces, PlanPlaces
  <2>4. \E p \in AllPlaces : tx = TxOf(jobs[p[1]].plan[p[2]])
    BY <2>3
  <2> QED
    BY <2>4
<1> HIDE DEF place
<1>2. \A tx, other \in accepted : place[tx] = place[other] => tx = other
  BY <1>1
<1>3. \A p \in AllPlaces : f[p] \in Nat
  BY PlansPayWhatWasAsked
<1>4. \A tx \in accepted : f[place[tx]] \in Int /\ g[tx] = f[place[tx]]
  <2> TAKE tx \in accepted
  <2>1. f[place[tx]] = TotalTo(jobs[place[tx][1]].plan[place[tx][2]].outputs, a)
    BY <1>1
  <2>2. tx.outputs = jobs[place[tx][1]].plan[place[tx][2]].outputs
    BY <1>1 DEF TxOf
  <2>3. g[tx] = TotalTo(tx.outputs, a)
    OBVIOUS
  <2> HIDE DEF f, g
  <2>4. f[place[tx]] \in Nat
    BY <1>1, <1>3
  <2>5. TotalTo(tx.outputs, a) = TotalTo(jobs[place[tx][1]].plan[place[tx][2]].outputs, a)
    BY <2>2
  <2> QED
    BY <2>1, <2>3, <2>4, <2>5
<1>5. PaidOnChain(a) = SumFunctionOnSet(g, accepted)
  BY DEF PaidOnChain, SumFunction
<1>6. T \in SUBSET AllPlaces
  BY <1>1
<1>7. IsFiniteSet(accepted)
  BY DEF CallInv, AcceptedInv
<1>8. SumFunctionOnSet(f, T) = SumFunctionOnSet(g, accepted)
  <2> HIDE DEF f, g
  <2> QED
    BY <1>2, <1>4, <1>7, SumOfImage
<1> HIDE DEF T, g
<1> QED
  BY <1>5, <1>6, <1>8

LEMMA PaidIsAsked == ASSUME CallInv, NEW a PROVE PaidOnChain(a) <= AskedFor(a)
<1> DEFINE f == [p \in AllPlaces |-> TotalTo(jobs[p[1]].plan[p[2]].outputs, a)]
<1>1. /\ IsFiniteSet(AllPlaces) /\ \A p \in AllPlaces : f[p] \in Nat
      /\ SumFunctionOnSet(f, AllPlaces) <= AskedFor(a)
  BY PlansPayWhatWasAsked
<1>2. PICK T \in SUBSET AllPlaces : PaidOnChain(a) = SumFunctionOnSet(f, T)
  BY PaidWasPlanned
<1>3. AskedFor(a) \in Int
  <2> DEFINE asked == [j \in Jobs |-> TotalTo(jobs[j].payments, a)]
  <2>1. \A j \in Jobs : asked[j] \in Int
    <3>1. \A j \in Jobs : TotalTo(jobs[j].payments, a) \in Nat
      BY PaymentsTo DEF CallInv, JobInv, JobHolds
    <3> QED
      BY <3>1
  <2>2. AskedFor(a) = SumFunctionOnSet(asked, Jobs) /\ IsFiniteSet(Jobs)
    BY WalletSendAssumption DEF AskedFor, SumFunction
  <2> HIDE DEF asked
  <2> QED
    BY <2>1, <2>2, SumIsInt
<1> HIDE DEF f
<1>4. /\ SumFunctionOnSet(f, T) \in Nat /\ SumFunctionOnSet(f, AllPlaces \ T) \in Nat
      /\ SumFunctionOnSet(f, AllPlaces)
           = SumFunctionOnSet(f, T) + SumFunctionOnSet(f, AllPlaces \ T)
  BY <1>1, SumOfSubset
<1> QED
  BY <1>1, <1>2, <1>3, <1>4

(* However the coins change between a send's reads, and whatever is lost or repeated after,
   the transactions it posts spend coins of one address each, share none, balance, give
   change only in the last one and pay every payee exactly what was asked. *)
THEOREM PlansStaySound == Spec => []PlansAreSound
<1>1. CallInv => PlansAreSound
  BY DEF CallInv, JobInv, JobHolds, PlansAreSound
<1> QED
  BY <1>1, CallInvariant, PTL

(* With any number of calls, lost answers, posts sent again, calls that fail half way and
   restarts, no payee ever receives more than all the calls together asked for. *)
THEOREM NoPayeeIsOverpaid == Spec => []NobodyIsOverpaid
<1>1. CallInv => NobodyIsOverpaid
  BY PaidIsAsked DEF NobodyIsOverpaid
<1> QED
  BY <1>1, CallInvariant, PTL
=============================================================================
