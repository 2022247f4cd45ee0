--------------------------- MODULE EmissionProofs ---------------------------
(***************************************************************************)
(* Theorems about the issue of one chain, for every schedule: it stays     *)
(* within the cap, and every block of a run that MineRun takes earns the   *)
(* subsidy of its first, so that taking the run in one step loses nothing. *)
(***************************************************************************)
EXTENDS Emission, TLAPS

-----------------------------------------------------------------------------
\* Division.

\* What the quotient of two numbers is, without division.
LEMMA DivBounds ==
  ASSUME NEW n \in Nat, NEW d \in Nat \ {0}
  PROVE  /\ n \div d \in Nat
         /\ (n \div d) * d <= n
         /\ n < (n \div d) * d + d
OBVIOUS

\* A number between two multiples of d has the lower as its quotient.
LEMMA DivUnique ==
  ASSUME NEW n \in Nat, NEW d \in Nat \ {0}, NEW q \in Nat,
         q * d <= n, n < q * d + d
  PROVE  n \div d = q
BY DivBounds

\* d fits into n as often as the quotient says: j times, and once more.
LEMMA FitsOnceMore ==
  ASSUME NEW n \in Nat, NEW d \in Nat \ {0}, NEW j \in Nat, j < n \div d
  PROVE  j * d + d <= n
<1>1. n \div d \in Nat /\ (n \div d) * d <= n
  BY DivBounds
<1>2. (j + 1) * d <= (n \div d) * d
  BY <1>1
<1> QED
  BY <1>1, <1>2

\* A smaller number has no larger quotient.
LEMMA DivMonotone ==
  ASSUME NEW m \in Nat, NEW n \in Nat, NEW d \in Nat \ {0}, m <= n
  PROVE  m \div d <= n \div d
<1>1. m \div d \in Nat /\ (m \div d) * d <= m
  BY DivBounds
<1>2. n \div d \in Nat /\ n < (n \div d) * d + d
  BY DivBounds
<1> DEFINE a == m \div d
           b == n \div d
<1> SUFFICES ASSUME a > b PROVE FALSE
  BY <1>1, <1>2
<1> HIDE DEF a, b
<1>3. b * d + d <= a * d
  BY <1>1, <1>2 DEF a, b
<1> QED
  BY <1>1, <1>2, <1>3 DEF a, b

\* A product of naturals that are not zero.
LEMMA ProductPositive ==
  ASSUME NEW m \in Nat \ {0}, NEW n \in Nat \ {0}
  PROVE  m * n \in Nat \ {0} /\ m <= m * n
OBVIOUS

-----------------------------------------------------------------------------
\* The subsidy.

Slice == EDX_UNIT * PHASE_2_DIVISOR

\* Constants of the right kind.
LEMMA Constants ==
  /\ EDX_UNIT \in Nat \ {0} /\ PHASE_2_DIVISOR \in Nat \ {0}
  /\ TOTAL_SUPPLY \in Nat /\ MaxHeight \in Nat
  /\ PHASE_1_MAX_HEIGHT \in Nat /\ PHASE_2_MAX_HEIGHT \in Nat
  /\ PHASE_1_REWARD \in Nat \ {0} /\ PHASE_3_REWARD \in Nat \ {0}
  /\ Slice \in Nat \ {0} /\ EDX_UNIT <= Slice
<1>1. EDX_UNIT \in Nat \ {0} /\ PHASE_2_DIVISOR \in Nat \ {0}
  BY RewardAssumption DEF RewardAssumption
<1>2. Slice \in Nat \ {0} /\ EDX_UNIT <= Slice
  BY <1>1, ProductPositive DEF Slice
<1> QED
  BY <1>1, <1>2, RewardAssumption, EmissionAssumption DEF RewardAssumption, EmissionAssumption

\* The decay subsidy, by the quotient it is computed from.
LEMMA DecayByQuotient ==
  ASSUME NEW remaining \in Nat
  PROVE  /\ remaining \div Slice \in Nat
         /\ remaining \div Slice = 0 => phaseTwoReward(remaining) = EDX_UNIT
         /\ remaining \div Slice # 0 =>
              phaseTwoReward(remaining) = (remaining \div Slice) * EDX_UNIT
         /\ phaseTwoReward(remaining) \in Nat \ {0}
<1>1. remaining \div Slice \in Nat
  BY DivBounds, Constants
<1>2. CASE remaining \div Slice = 0
  BY <1>1, <1>2, Constants DEF phaseTwoReward, Slice
<1>3. CASE remaining \div Slice # 0
  <2>1. phaseTwoReward(remaining) = (remaining \div Slice) * EDX_UNIT
    BY <1>1, <1>3, Constants DEF phaseTwoReward, Slice
  <2> QED
    BY <1>1, <1>3, <2>1, ProductPositive, Constants
<1> QED
  BY <1>1, <1>2, <1>3

\* With less remaining the decay subsidy is no larger.
LEMMA DecayMonotone ==
  ASSUME NEW less \in Nat, NEW more \in Nat, less <= more
  PROVE  phaseTwoReward(less) <= phaseTwoReward(more)
<1> DEFINE a == less \div Slice
           b == more \div Slice
<1>1. a \in Nat /\ b \in Nat /\ a <= b
  BY DivMonotone, DecayByQuotient, Constants
<1>2. /\ phaseTwoReward(less) = IF a = 0 THEN EDX_UNIT ELSE a * EDX_UNIT
      /\ phaseTwoReward(more) = IF b = 0 THEN EDX_UNIT ELSE b * EDX_UNIT
  BY DecayByQuotient
<1> HIDE DEF a, b
<1>3. a * EDX_UNIT <= b * EDX_UNIT /\ (b # 0 => EDX_UNIT <= b * EDX_UNIT)
  BY <1>1, Constants
<1>4. a # 0 => b # 0
  BY <1>1
<1>5. a * EDX_UNIT \in Nat /\ b * EDX_UNIT \in Nat
  BY <1>1, Constants
<1> QED
  BY <1>2, <1>3, <1>4, <1>5, Constants

\* Every subsidy is a positive amount.
LEMMA RewardPositive ==
  ASSUME NEW h \in Nat, NEW sum \in 0..TOTAL_SUPPLY
  PROVE  rewardForBlock(h, sum) \in Nat \ {0}
<1>1. TOTAL_SUPPLY - sum \in Nat
  BY Constants
<1> QED
  BY <1>1, DecayByQuotient, Constants DEF rewardForBlock

-----------------------------------------------------------------------------
\* Runs of equal subsidies.

\* As long as what was paid leaves the quotient where it was, the decay
\* subsidy stays the same and can still be paid.
LEMMA DecayStays ==
  ASSUME NEW remaining \in Nat, NEW j \in Nat,
         phaseTwoReward(remaining) <= remaining,
         j < PhaseTwoRun(remaining, phaseTwoReward(remaining))
  PROVE  /\ remaining - j * phaseTwoReward(remaining) \in Nat
         /\ phaseTwoReward(remaining - j * phaseTwoReward(remaining)) = phaseTwoReward(remaining)
         /\ phaseTwoReward(remaining) <= remaining - j * phaseTwoReward(remaining)
<1> DEFINE quotient == remaining \div Slice
           reward == phaseTwoReward(remaining)
           left == remaining - j * reward
<1>1. quotient \in Nat /\ reward \in Nat \ {0}
  BY DecayByQuotient
<1>2. quotient * Slice <= remaining /\ remaining < quotient * Slice + Slice
  BY DivBounds, Constants
<1>3. j * reward \in Nat /\ quotient * Slice \in Nat
  BY <1>1, Constants
<1>4. CASE quotient = 0
  <2>1. reward = EDX_UNIT
    BY <1>4, DecayByQuotient
  <2>2. j < remaining \div reward
    BY <1>4 DEF PhaseTwoRun, Slice
  <2>3. j * reward + reward <= remaining
    BY <1>1, <2>2, FitsOnceMore
  <2>4. left \in Nat /\ reward <= left
    BY <1>1, <1>3, <2>3
  <2>5. left < Slice
    BY <1>1, <1>2, <1>3, <1>4, Constants
  <2>6. left \div Slice = 0
    <3> HIDE DEF left
    <3> QED
      BY <2>4, <2>5, Constants, DivUnique
  <2> QED
    BY <2>1, <2>4, <2>6, DecayByQuotient
<1>5. CASE quotient # 0
  <2>1. reward = quotient * EDX_UNIT
    BY <1>5, DecayByQuotient
  <2> DEFINE surplus == remaining - quotient * Slice
  <2>2. surplus \in Nat
    BY <1>2, <1>3
  <2>3. j < surplus \div reward + 1
    BY <1>1, <1>5 DEF PhaseTwoRun, Slice
  <2>4. j * reward <= surplus
    <3>1. surplus \div reward \in Nat /\ (surplus \div reward) * reward <= surplus
      BY <1>1, <2>2, DivBounds
    <3>2. j <= surplus \div reward
      BY <2>3, <3>1
    <3> DEFINE fits == surplus \div reward
    <3> HIDE DEF fits, surplus, reward
    <3>3. j * reward <= fits * reward /\ fits * reward \in Nat
      BY <1>1, <3>1, <3>2 DEF fits
    <3> QED
      BY <1>3, <2>2, <3>1, <3>3 DEF fits
  <2>5. left \in Nat /\ quotient * Slice <= left /\ left < quotient * Slice + Slice
    BY <1>2, <1>3, <2>4, Constants
  <2>6. left \div Slice = quotient
    <3> HIDE DEF left, quotient
    <3> QED
      BY <1>1, <2>5, Constants, DivUnique
  <2>7. reward <= quotient * Slice
    BY <1>1, <2>1, Constants
  <2>8. reward <= left
    BY <1>1, <1>3, <2>5, <2>7
  <2> QED
    BY <1>5, <2>1, <2>5, <2>6, <2>8, DecayByQuotient
<1> QED
  BY <1>4, <1>5

\* A run has a length.
LEMMA RunLengthIsInt ==
  ASSUME TypeOK
  PROVE  RunLength \in Int
<1> DEFINE reward == rewardForBlock(height + 1, issued)
           remaining == TOTAL_SUPPLY - issued
<1>1. height \in Nat /\ remaining \in Nat /\ reward \in Nat \ {0}
  BY RewardPositive, Constants DEF TypeOK
<1>2. remaining \div reward \in Nat
  BY <1>1, DivBounds
<1>3. PhaseTwoRun(remaining, reward) \in Int
  <2>1. remaining \div Slice \in Nat
    BY <1>1, DivBounds, Constants
  <2>2. remaining - (remaining \div Slice) * Slice \in Int
    BY <1>1, <2>1, Constants
  <2>3. (remaining - (remaining \div Slice) * Slice) \div reward \in Int
    BY <1>1, <2>2
  <2> QED
    BY <1>2, <2>3 DEF PhaseTwoRun, Slice
<1> QED
  BY <1>1, <1>2, <1>3, Constants DEF RunLength, Smaller

\* MineRun takes at least one block, and each of them earns and can be paid
\* what the first one earns, whatever the schedule.
LEMMA EvenRun == TypeOK => RunEarnsOneSubsidy
<1> SUFFICES ASSUME TypeOK, Payable(height + 1, issued)
             PROVE  /\ RunLength >= 1
                    /\ \A j \in 0..RunLength - 1 :
                         /\ rewardForBlock(height + 1 + j,
                              issued + j * rewardForBlock(height + 1, issued))
                              = rewardForBlock(height + 1, issued)
                         /\ Payable(height + 1 + j,
                              issued + j * rewardForBlock(height + 1, issued))
  BY DEF RunEarnsOneSubsidy
<1> DEFINE reward == rewardForBlock(height + 1, issued)
           remaining == TOTAL_SUPPLY - issued
           phase == phaseForHeight(height + 1)
<1>1. height \in Nat /\ issued \in 0..TOTAL_SUPPLY /\ remaining \in Nat
  BY Constants DEF TypeOK
<1>2. reward \in Nat \ {0} /\ reward <= remaining
  BY <1>1, RewardPositive, Constants DEF Payable
<1>3. phase \in {1, 2, 3}
  BY DEF phaseForHeight
<1>4. remaining \div reward \in Nat /\ remaining \div reward >= 1
  <2>1. remaining \div reward \in Nat /\ remaining < (remaining \div reward) * reward + reward
    BY <1>1, <1>2, DivBounds
  <2>2. remaining \div reward # 0
    BY <1>1, <1>2, <2>1
  <2> QED
    BY <2>1, <2>2
<1> DEFINE Even(j) == /\ rewardForBlock(height + 1 + j, issued + j * reward) = reward
                      /\ issued + j * reward + reward <= TOTAL_SUPPLY
<1> SUFFICES RunLength >= 1 /\ \A j \in 0..RunLength - 1 : Even(j)
  BY DEF Payable
<1>5. CASE phase = 1
  <2>1. height + 1 <= PHASE_1_MAX_HEIGHT
    BY <1>1, <1>5, Constants DEF phaseForHeight
  <2>2. RunLength = Smaller(PHASE_1_MAX_HEIGHT - height, remaining \div reward)
    BY <1>5 DEF RunLength
  <2>3. /\ RunLength \in Nat /\ RunLength >= 1
        /\ RunLength <= PHASE_1_MAX_HEIGHT - height
        /\ RunLength <= remaining \div reward
    BY <1>1, <1>4, <2>1, <2>2, Constants DEF Smaller
  <2>4. ASSUME NEW j \in 0..RunLength - 1
        PROVE  Even(j)
    <3>1. j \in Nat /\ j < remaining \div reward /\ height + 1 + j <= PHASE_1_MAX_HEIGHT
      BY <1>1, <1>4, <2>3, Constants
    <3>2. rewardForBlock(height + 1 + j, issued + j * reward) = PHASE_1_REWARD
      BY <3>1 DEF rewardForBlock, phaseForHeight
    <3>3. reward = PHASE_1_REWARD
      BY <1>5 DEF rewardForBlock
    <3>4. j * reward + reward <= remaining /\ j * reward \in Nat
      BY <1>1, <1>2, <3>1, FitsOnceMore
    <3> QED
      BY <1>1, <1>2, <3>2, <3>3, <3>4, Constants
  <2> QED
    BY <2>3, <2>4
<1>6. CASE phase = 2
  <2>1. /\ PHASE_1_MAX_HEIGHT < height + 1 /\ height + 1 <= PHASE_2_MAX_HEIGHT
        /\ reward = phaseTwoReward(remaining)
    BY <1>1, <1>6, Constants DEF phaseForHeight, rewardForBlock
  <2>2. RunLength = Smaller(PHASE_2_MAX_HEIGHT - height, PhaseTwoRun(remaining, reward))
    BY <1>6 DEF RunLength
  <2>3. PhaseTwoRun(remaining, reward) \in Nat /\ PhaseTwoRun(remaining, reward) >= 1
    <3>1. remaining \div Slice \in Nat /\ (remaining \div Slice) * Slice <= remaining
      BY <1>1, DivBounds, Constants
    <3>2. (remaining \div Slice) * Slice \in Nat
      BY <3>1, Constants
    <3>3. remaining - (remaining \div Slice) * Slice \in Nat
      BY <1>1, <3>1, <3>2
    <3>4. (remaining - (remaining \div Slice) * Slice) \div reward \in Nat
      BY <1>2, <3>3, DivBounds
    <3> QED
      BY <1>4, <3>1, <3>4 DEF PhaseTwoRun, Slice
  <2>4. /\ RunLength \in Nat /\ RunLength >= 1
        /\ RunLength <= PHASE_2_MAX_HEIGHT - height
        /\ RunLength <= PhaseTwoRun(remaining, reward)
    BY <1>1, <2>1, <2>2, <2>3, Constants DEF Smaller
  <2>5. ASSUME NEW j \in 0..RunLength - 1
        PROVE  Even(j)
    <3>1. /\ j \in Nat /\ j < PhaseTwoRun(remaining, reward)
          /\ PHASE_1_MAX_HEIGHT < height + 1 + j /\ height + 1 + j <= PHASE_2_MAX_HEIGHT
      BY <1>1, <2>1, <2>3, <2>4, Constants
    <3>2. /\ remaining - j * reward \in Nat
          /\ phaseTwoReward(remaining - j * reward) = reward
          /\ reward <= remaining - j * reward
      <4>1. phaseTwoReward(remaining) <= remaining
        BY <1>2, <2>1
      <4>2. j < PhaseTwoRun(remaining, phaseTwoReward(remaining))
        BY <2>1, <3>1
      <4> QED
        BY <1>1, <2>1, <3>1, <4>1, <4>2, DecayStays
    <3>3. TOTAL_SUPPLY - (issued + j * reward) = remaining - j * reward /\ j * reward \in Nat
      BY <1>1, <1>2, <3>1, Constants
    <3>4. phaseForHeight(height + 1 + j) = 2
      BY <1>1, <3>1, Constants DEF phaseForHeight
    <3>5. rewardForBlock(height + 1 + j, issued + j * reward)
            = phaseTwoReward(TOTAL_SUPPLY - (issued + j * reward))
      BY <3>4 DEF rewardForBlock
    <3> QED
      BY <1>1, <1>2, <3>2, <3>3, <3>5, Constants
  <2> QED
    BY <2>4, <2>5
<1>7. CASE phase = 3
  <2>1. /\ PHASE_1_MAX_HEIGHT < height + 1 /\ PHASE_2_MAX_HEIGHT < height + 1
        /\ reward = PHASE_3_REWARD
    BY <1>1, <1>7, Constants DEF phaseForHeight, rewardForBlock
  <2>2. RunLength = remaining \div reward
    BY <1>7 DEF RunLength
  <2>3. ASSUME NEW j \in 0..RunLength - 1
        PROVE  Even(j)
    <3>1. j \in Nat /\ j < remaining \div reward
      BY <1>4, <2>2
    <3>2. phaseForHeight(height + 1 + j) = 3
      BY <1>1, <2>1, <3>1, Constants DEF phaseForHeight
    <3>3. j * reward + reward <= remaining /\ j * reward \in Nat
      BY <1>1, <1>2, <3>1, FitsOnceMore
    <3>4. rewardForBlock(height + 1 + j, issued + j * reward) = reward
      BY <2>1, <3>2 DEF rewardForBlock
    <3> QED
      BY <1>1, <1>2, <3>3, <3>4, Constants
  <2> QED
    BY <1>4, <2>2, <2>3
<1> QED
  BY <1>3, <1>5, <1>6, <1>7

-----------------------------------------------------------------------------
\* Theorems.

\* Paying the next block leaves the issue within the cap.
LEMMA BlockKeepsType == TypeOK /\ MineBlock => TypeOK'
<1> SUFFICES ASSUME TypeOK, MineBlock PROVE TypeOK'
  OBVIOUS
<1>1. height \in Nat /\ issued \in 0..TOTAL_SUPPLY
  BY DEF TypeOK
<1>2. rewardForBlock(height + 1, issued) \in Nat \ {0}
  BY <1>1, RewardPositive
<1> QED
  BY <1>1, <1>2, Constants DEF MineBlock, Pay, Payable, TypeOK

\* Paying a run does: its last block can be paid.
LEMMA RunKeepsType == TypeOK /\ MineRun => TypeOK'
<1> SUFFICES ASSUME TypeOK, MineRun PROVE TypeOK'
  OBVIOUS
<1> DEFINE reward == rewardForBlock(height + 1, issued)
<1>1. height \in Nat /\ issued \in 0..TOTAL_SUPPLY
  BY DEF TypeOK
<1>2. reward \in Nat \ {0}
  BY <1>1, RewardPositive
<1>3. RunLength >= 1 /\ RunLength \in Int
  BY EvenRun, RunLengthIsInt DEF MineRun, RunEarnsOneSubsidy
<1>4. Payable(height + 1 + (RunLength - 1), issued + (RunLength - 1) * reward)
      /\ rewardForBlock(height + 1 + (RunLength - 1), issued + (RunLength - 1) * reward) = reward
  BY <1>3, EvenRun DEF MineRun, RunEarnsOneSubsidy
<1>5. issued + (RunLength - 1) * reward + reward <= TOTAL_SUPPLY
  BY <1>4 DEF Payable
<1>6. height' = height + RunLength /\ issued' = issued + RunLength * reward
  BY DEF MineRun, Pay
<1> HIDE DEF reward
<1>7. RunLength * reward = (RunLength - 1) * reward + reward /\ RunLength * reward \in Nat
  BY <1>2, <1>3
<1>8. (RunLength - 1) * reward \in Nat
  BY <1>2, <1>3
<1> QED
  BY <1>1, <1>2, <1>3, <1>5, <1>6, <1>7, <1>8, Constants DEF TypeOK

\* The cap holds for ever, block by block.
THEOREM IssueStaysWithinCap == Spec => []TypeOK
<1>1. Init => TypeOK
  BY Constants DEF Init, TypeOK, GENESIS_ISSUED
<1>2. TypeOK /\ [Next]_vars => TypeOK'
  BY BlockKeepsType DEF Next, vars, TypeOK
<1> QED
  BY <1>1, <1>2, PTL DEF Spec

\* Within the bootstrap phase the issue is the height times the fixed subsidy.
Bootstrap == height <= PHASE_1_MAX_HEIGHT => issued = height * PHASE_1_REWARD

LEMMA BootstrapHolds == Spec => []Bootstrap
<1>1. Init => Bootstrap
  BY Constants DEF Init, Bootstrap, GENESIS_ISSUED
<1>2. TypeOK /\ Bootstrap /\ [Next]_vars => Bootstrap'
  <2> SUFFICES ASSUME TypeOK, Bootstrap, [Next]_vars PROVE Bootstrap'
    OBVIOUS
  <2>1. CASE MineBlock
    <3>1. height' = height + 1 /\ issued' = issued + 1 * rewardForBlock(height + 1, issued)
      BY <2>1 DEF MineBlock, Pay
    <3> SUFFICES ASSUME height + 1 <= PHASE_1_MAX_HEIGHT
                 PROVE  issued' = height' * PHASE_1_REWARD
      BY <3>1 DEF Bootstrap
    <3>2. rewardForBlock(height + 1, issued) = PHASE_1_REWARD
      BY DEF rewardForBlock, phaseForHeight
    <3>3. issued = height * PHASE_1_REWARD
      BY Constants DEF Bootstrap, TypeOK
    <3> QED
      BY <3>1, <3>2, <3>3, Constants DEF TypeOK
  <2>2. CASE UNCHANGED vars
    BY <2>2 DEF vars, Bootstrap
  <2> QED
    BY <2>1, <2>2 DEF Next
<1> QED
  BY <1>1, <1>2, IssueStaysWithinCap, PTL DEF Spec

\* The bootstrap phase issues exactly what its comment says, for every
\* schedule and cap.
THEOREM BootstrapIssuesExactly == Spec => []PhaseOneIssuesExactly
<1>1. TypeOK /\ Bootstrap => PhaseOneIssuesExactly
  BY Constants DEF Bootstrap, PhaseOneIssuesExactly, TypeOK
<1> QED
  BY <1>1, BootstrapHolds, IssueStaysWithinCap, PTL

\* A schedule in whole EDX whose bootstrap phase fits under the cap.
WholeSchedule ==
  /\ \E n \in Nat : TOTAL_SUPPLY = n * EDX_UNIT
  /\ \E n \in Nat : PHASE_1_REWARD = n * EDX_UNIT
  /\ PHASE_1_MAX_HEIGHT * PHASE_1_REWARD <= TOTAL_SUPPLY

\* Until the tail phase, whole EDX are issued.
WholeIssue == height <= PHASE_2_MAX_HEIGHT => \E n \in Nat : issued = n * EDX_UNIT

\* The decay phase pays whole EDX ...
LEMMA DecayIsWhole ==
  ASSUME NEW remaining \in Nat
  PROVE  \E n \in Nat : phaseTwoReward(remaining) = n * EDX_UNIT
<1>1. remaining \div Slice \in Nat
  BY DecayByQuotient
<1>2. CASE remaining \div Slice = 0
  <2>1. phaseTwoReward(remaining) = 1 * EDX_UNIT
    BY <1>2, DecayByQuotient, Constants
  <2> QED
    BY <2>1
<1>3. CASE remaining \div Slice # 0
  BY <1>1, <1>3, DecayByQuotient
<1> QED
  BY <1>2, <1>3

\* ... and can pay as long as a whole EDX remains.
LEMMA DecayCanPay ==
  ASSUME NEW n \in Nat \ {0}
  PROVE  phaseTwoReward(n * EDX_UNIT) <= n * EDX_UNIT
<1> DEFINE remaining == n * EDX_UNIT
           quotient == remaining \div Slice
<1>1. remaining \in Nat /\ EDX_UNIT <= remaining
  BY ProductPositive, Constants
<1>2. quotient \in Nat /\ quotient * Slice <= remaining
  BY <1>1, DivBounds, Constants
<1>3. /\ quotient = 0 => phaseTwoReward(remaining) = EDX_UNIT
      /\ quotient # 0 => phaseTwoReward(remaining) = quotient * EDX_UNIT
  <2> HIDE DEF remaining
  <2> QED
    BY <1>1, <1>2, DecayByQuotient
<1> HIDE DEF remaining, quotient
<1>4. /\ quotient * EDX_UNIT <= quotient * Slice
      /\ quotient * EDX_UNIT \in Nat
      /\ quotient * Slice \in Nat
  BY <1>2, Constants
<1>5. phaseTwoReward(remaining) <= remaining
  BY <1>1, <1>2, <1>3, <1>4, Constants
<1> QED
  BY <1>5 DEF remaining

\* Sums and differences of multiples.
LEMMA WholeSum ==
  ASSUME NEW m \in Nat, NEW n \in Nat, NEW a, a = m * EDX_UNIT, NEW b, b = n * EDX_UNIT
  PROVE  /\ a + b = (m + n) * EDX_UNIT
         /\ b <= a => m - n \in Nat /\ a - b = (m - n) * EDX_UNIT
<1>1. EDX_UNIT \in Nat \ {0}
  BY Constants
<1>2. a + b = (m + n) * EDX_UNIT /\ a - b = (m - n) * EDX_UNIT
  BY <1>1
<1>3. ASSUME b <= a PROVE m - n \in Nat
  <2> SUFFICES ASSUME m < n PROVE FALSE
    OBVIOUS
  <2>1. m + 1 <= n
    OBVIOUS
  <2>2. (m + 1) * EDX_UNIT <= n * EDX_UNIT
    BY <1>1, <2>1
  <2> QED
    BY <1>1, <1>3, <2>2
<1> QED
  BY <1>2, <1>3

\* On a schedule in whole EDX the bootstrap and decay phases strand nothing:
\* before the tail phase, mining can stop only when the last Photon of the cap
\* is issued.
THEOREM StopsOnlyAtCapBeforeTheTail ==
  ASSUME WholeSchedule
  PROVE  Spec => [](height < PHASE_2_MAX_HEIGHT => StopsOnlyAtCap)
<1>1. PICK supply \in Nat : TOTAL_SUPPLY = supply * EDX_UNIT
  BY DEF WholeSchedule
<1>2. PICK first \in Nat : PHASE_1_REWARD = first * EDX_UNIT
  BY DEF WholeSchedule
<1>3. Init => WholeIssue
  BY Constants DEF Init, WholeIssue, GENESIS_ISSUED
<1>4. TypeOK /\ WholeIssue /\ [Next]_vars => WholeIssue'
  <2> SUFFICES ASSUME TypeOK, WholeIssue, MineBlock, height' <= PHASE_2_MAX_HEIGHT
               PROVE  \E n \in Nat : issued' = n * EDX_UNIT
    BY DEF Next, vars, WholeIssue
  <2> DEFINE reward == rewardForBlock(height + 1, issued)
  <2>1. height' = height + 1 /\ issued' = issued + 1 * reward /\ height \in Nat
    BY DEF MineBlock, Pay, TypeOK
  <2>2. PICK m \in Nat : issued = m * EDX_UNIT
    <3>1. height <= PHASE_2_MAX_HEIGHT
      BY <2>1, Constants
    <3> QED
      BY <3>1 DEF WholeIssue
  <2>3. \E n \in Nat : reward = n * EDX_UNIT
    <3>1. TOTAL_SUPPLY - issued \in Nat
      BY Constants DEF TypeOK
    <3>2. \E n \in Nat : phaseTwoReward(TOTAL_SUPPLY - issued) = n * EDX_UNIT
      BY <3>1, DecayIsWhole
    <3>3. phaseForHeight(height + 1) # 3
      BY <2>1 DEF phaseForHeight
    <3> QED
      BY <1>2, <3>2, <3>3 DEF rewardForBlock
  <2>4. PICK n \in Nat : reward = n * EDX_UNIT
    BY <2>3
  <2>5. reward \in Nat
    BY RewardPositive DEF TypeOK
  <2> HIDE DEF reward
  <2>6. issued + reward = (m + n) * EDX_UNIT /\ m + n \in Nat
    BY <2>2, <2>4, WholeSum
  <2>7. issued' = (m + n) * EDX_UNIT
    BY <2>1, <2>5, <2>6
  <2> QED
    BY <2>6, <2>7
<1>5. TypeOK /\ Bootstrap /\ WholeIssue => (height < PHASE_2_MAX_HEIGHT => StopsOnlyAtCap)
  <2> SUFFICES ASSUME TypeOK, Bootstrap, WholeIssue, height < PHASE_2_MAX_HEIGHT,
                      issued # TOTAL_SUPPLY
               PROVE  Payable(height + 1, issued)
    BY DEF StopsOnlyAtCap
  <2>1. height \in Nat /\ issued \in 0..TOTAL_SUPPLY
    BY DEF TypeOK
  <2>2. CASE height + 1 <= PHASE_1_MAX_HEIGHT
    <3>1. rewardForBlock(height + 1, issued) = PHASE_1_REWARD /\ issued = height * PHASE_1_REWARD
      BY <2>1, <2>2, Constants DEF rewardForBlock, phaseForHeight, Bootstrap
    <3>2. (height + 1) * PHASE_1_REWARD <= PHASE_1_MAX_HEIGHT * PHASE_1_REWARD
      BY <2>1, <2>2, Constants
    <3>3. issued + PHASE_1_REWARD = (height + 1) * PHASE_1_REWARD
      BY <2>1, <3>1, Constants
    <3>4. /\ issued + PHASE_1_REWARD \in Nat /\ PHASE_1_MAX_HEIGHT * PHASE_1_REWARD \in Nat
      BY <2>1, Constants
    <3> QED
      BY <3>1, <3>2, <3>3, <3>4, Constants DEF Payable, WholeSchedule
  <2>3. CASE ~(height + 1 <= PHASE_1_MAX_HEIGHT)
    <3> DEFINE remaining == TOTAL_SUPPLY - issued
    <3>1. PICK m \in Nat : issued = m * EDX_UNIT
      BY <2>1, Constants DEF WholeIssue
    <3>2. issued <= TOTAL_SUPPLY /\ remaining \in Nat /\ remaining # 0
      BY <2>1, Constants
    <3>3. supply - m \in Nat /\ remaining = (supply - m) * EDX_UNIT
      BY <1>1, <3>1, <3>2, WholeSum
    <3>4. rewardForBlock(height + 1, issued) = phaseTwoReward(remaining)
      BY <2>1, <2>3, Constants DEF rewardForBlock, phaseForHeight
    <3> HIDE DEF remaining
    <3>5. supply - m # 0
      BY <3>2, <3>3, Constants
    <3>6. phaseTwoReward(remaining) <= remaining
      BY <3>3, <3>5, DecayCanPay
    <3>7. phaseTwoReward(remaining) \in Nat
      BY <3>2, DecayByQuotient
    <3> QED
      BY <2>1, <3>4, <3>6, <3>7, Constants DEF Payable, remaining
  <2> QED
    BY <2>2, <2>3
<1> QED
  BY <1>3, <1>4, <1>5, IssueStaysWithinCap, BootstrapHolds, PTL DEF Spec

\* The decay subsidy never grows: the issue never falls.
THEOREM SubsidyDecays == Spec => DecayNeverGrows
<1> DEFINE NotMore ==
      phaseForHeight(height + 1) = 2 /\ phaseForHeight(height' + 1) = 2
        => rewardForBlock(height' + 1, issued') <= rewardForBlock(height + 1, issued)
<1>1. TypeOK /\ [Next]_vars => [NotMore]_vars
  <2> SUFFICES ASSUME TypeOK, MineBlock,
                      phaseForHeight(height + 1) = 2, phaseForHeight(height' + 1) = 2
               PROVE  rewardForBlock(height' + 1, issued') <= rewardForBlock(height + 1, issued)
    BY DEF Next
  <2>1. TypeOK'
    BY BlockKeepsType
  <2>2. rewardForBlock(height + 1, issued) \in Nat \ {0}
    BY RewardPositive DEF TypeOK
  <2>3. issued' = issued + 1 * rewardForBlock(height + 1, issued)
    BY DEF MineBlock, Pay
  <2>4. TOTAL_SUPPLY - issued' <= TOTAL_SUPPLY - issued
    BY <2>1, <2>2, <2>3, Constants DEF TypeOK
  <2>5. TOTAL_SUPPLY - issued' \in Nat /\ TOTAL_SUPPLY - issued \in Nat
    <3>1. issued' \in 0..TOTAL_SUPPLY /\ issued \in 0..TOTAL_SUPPLY
      BY <2>1 DEF TypeOK
    <3>2. \A sum \in 0..TOTAL_SUPPLY : TOTAL_SUPPLY - sum \in Nat
      BY Constants
    <3> QED
      BY <3>1, <3>2
  <2> QED
    BY <2>4, <2>5, DecayMonotone DEF rewardForBlock
<1> QED
  BY <1>1, IssueStaysWithinCap, PTL DEF Spec, DecayNeverGrows

\* In every state the chain reaches, the run MineRun would take earns one
\* subsidy throughout: each of its blocks is a MineBlock of that amount.
THEOREM RunsAreEven == Spec => []RunEarnsOneSubsidy
BY IssueStaysWithinCap, EvenRun, PTL

\* The same holds in the states the fast specification reaches.
THEOREM FastRunsAreEven == FastSpec => [](TypeOK /\ RunEarnsOneSubsidy)
<1>1. Init => TypeOK
  BY Constants DEF Init, TypeOK, GENESIS_ISSUED
<1>2. TypeOK /\ [MineRun]_vars => TypeOK'
  BY RunKeepsType DEF vars, TypeOK
<1> QED
  BY <1>1, <1>2, EvenRun, PTL DEF FastSpec

=============================================================================
