------------------------------ MODULE Emission ------------------------------
(***************************************************************************)
(* A chain that grows block by block and pays the scheduled subsidy with   *)
(* each, the way _supply_for_blocks adds it up, for every policy of a set. *)
(***************************************************************************)
EXTENDS Currency

CONSTANTS
    Initials, Intervals, Caps,  \* the policies
    MaxHeight                   \* bound: the last block of a behaviour

ASSUME EmissionAssumption ==
    /\ Initials \subseteq Nat /\ Intervals \subseteq Nat /\ Caps \subseteq Nat
    /\ MaxHeight \in Nat

VARIABLES policy, height, issued
emissionVars == <<policy, height, issued>>

EmissionInit ==
    /\ policy \in [initial : Initials, interval : Intervals, cap : Caps]
    /\ height = 0 /\ issued = 0

IssueBlock ==
    /\ height < MaxHeight
    /\ height' = height + 1
    /\ issued' = issued + SubsidyAtHeight(policy, height + 1)
    /\ UNCHANGED policy

EmissionSpec == EmissionInit /\ [][IssueBlock]_emissionVars

\* What the blocks of a chain issue one by one is what the closed form reports
\* for its height (cumulative_subsidy_through_height): at every halving, at the
\* cutoff, and at the cap, where the last block is paid what is left and no more.
IssuedMatchesSchedule == issued = CumulativeSubsidy(policy, height)
=============================================================================
