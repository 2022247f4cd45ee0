----------------------------- MODULE Difficulty -----------------------------
(***************************************************************************)
(* The arithmetic of consensus: work, the LWMA retarget, the median of     *)
(* recent timestamps and the RandomX seed schedule of packages/core/src.   *)
(* A summary of a block is a record with a timestamp (in seconds) and a    *)
(* difficulty; "recent" is a sequence of summaries, oldest first.          *)
(***************************************************************************)
EXTENDS Integers, Sequences, SequencesExt

CONSTANTS
  MAX_TARGET,                    \* largest PoW target
  TARGET_BLOCK_SECONDS,
  LWMA_WINDOW,                   \* blocks the retarget looks at
  INITIAL_DIFFICULTY,
  MINIMUM_DIFFICULTY,
  MAX_TIMESTAMP_DROP_MULTIPLIER, \* longest solve time, in target block times
  MEDIAN_SPAN,                   \* the 11 of validateLink; odd, so that a full
                                 \* window has a middle
  RANDOMX_KEY_EPOCH_BLOCKS,
  RANDOMX_SEED_DELAY

ASSUME DifficultyAssumption ==
  /\ MAX_TARGET \in Nat /\ TARGET_BLOCK_SECONDS \in Nat \ {0}
  /\ LWMA_WINDOW \in Nat /\ LWMA_WINDOW >= 2
  /\ INITIAL_DIFFICULTY \in Nat \ {0} /\ MINIMUM_DIFFICULTY \in Nat \ {0}
  /\ MAX_TIMESTAMP_DROP_MULTIPLIER \in Nat \ {0}
  /\ MEDIAN_SPAN \in Nat /\ MEDIAN_SPAN % 2 = 1
  /\ RANDOMX_KEY_EPOCH_BLOCKS \in Nat \ {0} /\ RANDOMX_SEED_DELAY \in Nat

-----------------------------------------------------------------------------
LastOf(n, s) == SubSeq(s, IF Len(s) > n THEN Len(s) - n + 1 ELSE 1, Len(s))

workForDifficulty(difficulty) == (MAX_TARGET \div difficulty) + 1

boundedSolveTime(previous, current) ==
  LET solveTime == current.timestampSeconds - previous.timestampSeconds
      maximum   == TARGET_BLOCK_SECONDS * MAX_TIMESTAMP_DROP_MULTIPLIER
  IN  IF solveTime < 1 THEN 1 ELSE IF solveTime > maximum THEN maximum ELSE solveTime

\* nextLwmaDifficulty throws 'block timestamps must increase' unless this holds.
TimestampsIncrease(window) ==
  \A i \in 1..Len(window) - 1 :
    window[i].timestampSeconds < window[i + 1].timestampSeconds

LwmaIsDefined(recent) ==
  Len(recent) >= LWMA_WINDOW => TimestampsIncrease(LastOf(LWMA_WINDOW, recent))

\* The retarget before its bounds: difficulty per second of weighted solve time.
WeightedRetarget(window) ==
  LET steps == 1..LWMA_WINDOW - 1
      weightedSolveTime == SumFunction(
        [i \in steps |-> boundedSolveTime(window[i], window[i + 1]) * i])
      difficultySum == SumFunction([i \in steps |-> window[i + 1].difficulty])
      triangularWeight == (LWMA_WINDOW * (LWMA_WINDOW + 1)) \div 2
  IN  (difficultySum * TARGET_BLOCK_SECONDS * triangularWeight) \div weightedSolveTime

AtLeast(bound, n) == IF n < bound THEN bound ELSE n
AtMost(bound, n)  == IF n > bound THEN bound ELSE n

nextLwmaDifficulty(recent) ==
  IF recent = <<>> THEN INITIAL_DIFFICULTY
  ELSE IF Len(recent) < LWMA_WINDOW THEN Last(recent).difficulty
  ELSE LET previousDifficulty == Last(recent).difficulty
           next == WeightedRetarget(LastOf(LWMA_WINDOW, recent))
       IN  AtLeast(AtLeast(MINIMUM_DIFFICULTY, previousDifficulty \div 3),
                   AtMost(previousDifficulty * 3, next))

-----------------------------------------------------------------------------
\* A stable sort: the place of position i among the keys, and a sequence in the
\* order of the keys of its positions.
RankIn(keys, i) ==
  Cardinality({j \in DOMAIN keys : keys[j] < keys[i] \/ (keys[j] = keys[i] /\ j <= i)})

SortedBy(s, keys) ==
  [rank \in DOMAIN s |-> s[CHOOSE i \in DOMAIN s : RankIn(keys, i) = rank]]

\* The middle of a sequence of numbers, rounded down between two of them.
medianOf(values) ==
  LET sorted == SortedBy(values, values)
      middle == Len(values) \div 2
  IN  IF values = <<>> THEN 0
      ELSE IF Len(values) % 2 = 0 THEN (sorted[middle] + sorted[middle + 1]) \div 2
      ELSE sorted[middle + 1]

epochIndexForNextBlock(nextHeight) == (nextHeight - 1) \div RANDOMX_KEY_EPOCH_BLOCKS

seedHeightForEpoch(epochIndex) ==
  AtLeast(0, epochIndex * RANDOMX_KEY_EPOCH_BLOCKS - RANDOMX_SEED_DELAY)

expectedSeedHeight(nextHeight) == seedHeightForEpoch(epochIndexForNextBlock(nextHeight))

=============================================================================
