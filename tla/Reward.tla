------------------------------- MODULE Reward -------------------------------
(***************************************************************************)
(* The subsidy schedule of packages/shared/src/reward.ts.  Amounts are     *)
(* counted in Photons; EDX_UNIT Photons make one EDX.                      *)
(***************************************************************************)
EXTENDS Integers

CONSTANTS
  EDX_UNIT,             \* Photons in one EDX
  TOTAL_SUPPLY,         \* hard cap, in Photons
  PHASE_1_MAX_HEIGHT,   \* last height of the bootstrap phase
  PHASE_2_MAX_HEIGHT,   \* last height of the decay phase
  PHASE_1_REWARD,       \* fixed bootstrap subsidy, in Photons
  PHASE_2_DIVISOR,      \* fraction of the remaining supply paid per block
  PHASE_3_REWARD        \* tail subsidy, in Photons

ASSUME RewardAssumption ==
  /\ EDX_UNIT \in Nat \ {0}
  /\ TOTAL_SUPPLY \in Nat
  /\ PHASE_1_MAX_HEIGHT \in Nat
  /\ PHASE_2_MAX_HEIGHT \in Nat
  /\ PHASE_1_MAX_HEIGHT <= PHASE_2_MAX_HEIGHT
  /\ PHASE_1_REWARD \in Nat \ {0}
  /\ PHASE_2_DIVISOR \in Nat \ {0}
  /\ PHASE_3_REWARD \in Nat \ {0}

GENESIS_ISSUED == 0

phaseForHeight(height) ==
  IF height <= PHASE_1_MAX_HEIGHT THEN 1
  ELSE IF height <= PHASE_2_MAX_HEIGHT THEN 2 ELSE 3

\* Defects: the subsidy follows what was issued, or never falls below two EDX.
phaseTwoReward_OfIssued(remaining) ==
  ((TOTAL_SUPPLY - remaining) \div (EDX_UNIT * PHASE_2_DIVISOR) + 1) * EDX_UNIT

phaseTwoReward_AtLeastTwo(remaining) ==
  LET rewardEdx == remaining \div (EDX_UNIT * PHASE_2_DIVISOR)
  IN  (IF rewardEdx < 2 THEN 2 ELSE rewardEdx) * EDX_UNIT

\* Phase two pays whole EDX, and never less than one.
phaseTwoReward(remaining) ==
  LET rewardEdx == remaining \div (EDX_UNIT * PHASE_2_DIVISOR)
  IN  (IF rewardEdx < 1 THEN 1 ELSE rewardEdx) * EDX_UNIT

rewardForBlock(height, issued) ==
  IF phaseForHeight(height) = 1 THEN PHASE_1_REWARD
  ELSE IF phaseForHeight(height) = 3 THEN PHASE_3_REWARD
  ELSE phaseTwoReward(TOTAL_SUPPLY - issued)

\* What UtxoState.applyBlock asks of the subsidy at this height.
Payable(height, issued) ==
  issued + rewardForBlock(height, issued) <= TOTAL_SUPPLY

=============================================================================
