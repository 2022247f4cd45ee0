------------------------------ MODULE Emission ------------------------------
(***************************************************************************)
(* How much of the supply one chain has issued, block by block.  A block   *)
(* is mined when UtxoState.applyBlock accepts its subsidy: the amount is   *)
(* rewardForBlock of the height and of what was issued before, and the     *)
(* sum stays within the cap.  The real schedule takes 21 million blocks,   *)
(* so MineRun takes in one step a run of consecutive blocks that earn the  *)
(* same subsidy; EmissionProofs shows that every block of the run earns    *)
(* the subsidy of its first.                                               *)
(***************************************************************************)
EXTENDS Reward

CONSTANT MaxHeight      \* bound on the heights explored

ASSUME EmissionAssumption == MaxHeight \in Nat

VARIABLES
  height,               \* height of the tip
  issued                \* UtxoState.issuedPhotons at the tip

vars == <<height, issued>>

TypeOK ==
  /\ height \in Nat
  /\ issued \in 0..TOTAL_SUPPLY

Init ==
  /\ height = 0
  /\ issued = GENESIS_ISSUED

Pay(blocks, reward) ==
  /\ height + blocks <= MaxHeight
  /\ height' = height + blocks
  /\ issued' = issued + blocks * reward

MineBlock ==
  /\ Payable(height + 1, issued)
  /\ Pay(1, rewardForBlock(height + 1, issued))

Next == MineBlock
Spec == Init /\ [][Next]_vars

-----------------------------------------------------------------------------
\* Runs of equal subsidies.

Smaller(m, n) == IF m <= n THEN m ELSE n

\* Blocks after height that earn what the next one earns, within phase two:
\* the remaining supply falls by reward per block and the quotient keeps its
\* value as long as it stays at or above quotient * EDX_UNIT * divisor.
PhaseTwoRun(remaining, reward) ==
  LET slice    == EDX_UNIT * PHASE_2_DIVISOR
      quotient == remaining \div slice
  IN  IF quotient >= 1 THEN (remaining - quotient * slice) \div reward + 1
      ELSE remaining \div reward

RunLength ==
  LET reward    == rewardForBlock(height + 1, issued)
      remaining == TOTAL_SUPPLY - issued
      phase     == phaseForHeight(height + 1)
  IN  IF phase = 1 THEN Smaller(PHASE_1_MAX_HEIGHT - height, remaining \div reward)
      ELSE IF phase = 2 THEN Smaller(PHASE_2_MAX_HEIGHT - height, PhaseTwoRun(remaining, reward))
      ELSE remaining \div reward

MineRun ==
  /\ Payable(height + 1, issued)
  /\ Pay(RunLength, rewardForBlock(height + 1, issued))

FastSpec == Init /\ [][MineRun]_vars /\ WF_vars(MineRun)

-----------------------------------------------------------------------------
\* The justification of MineRun: every block of the run it takes earns the
\* subsidy of the first, computed from what is issued by then, and can be paid.
RunEarnsOneSubsidy ==
  LET reward == rewardForBlock(height + 1, issued)
  IN  Payable(height + 1, issued) =>
        /\ RunLength >= 1
        /\ \A j \in 0..RunLength - 1 :
             /\ rewardForBlock(height + 1 + j, issued + j * reward) = reward
             /\ Payable(height + 1 + j, issued + j * reward)

\* Phase two starts after exactly this much has been issued (the comment of
\* rewardForBlock): neither the cap nor a rounding can make the bootstrap
\* phase stop early or overshoot.
PhaseOneIssuesExactly ==
  height = PHASE_1_MAX_HEIGHT => issued = PHASE_1_MAX_HEIGHT * PHASE_1_REWARD

\* The subsidy, computed from the remaining supply, never grows from one
\* block of the decay phase to the next.
DecayNeverGrows ==
  [][ phaseForHeight(height + 1) = 2 /\ phaseForHeight(height' + 1) = 2
      => rewardForBlock(height' + 1, issued') <= rewardForBlock(height + 1, issued)
    ]_vars

\* When no further block can be paid the cap has been issued to the last
\* Photon: the schedule strands no supply.
StopsOnlyAtCap ==
  ~Payable(height + 1, issued) => issued = TOTAL_SUPPLY

\* The whitepaper's perpetual tail emission: at every height the subsidy of
\* the next block can be paid.
TailEmissionIsPayable == Payable(height + 1, issued)

=============================================================================
