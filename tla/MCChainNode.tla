---------------------------- MODULE MCChainNode ----------------------------
(***************************************************************************)
(* Small instances of ChainNode.  A transaction id is a short string:      *)
(*   g       the genesis allocation, 3 units to A; g2 another, 4 units to B*)
(*   pay     A's output of g to B;  refund  the same output, with a fee    *)
(*   chain   B's output of pay back to A                                   *)
(*   slack   A's output of g to B, one unit less than its inputs hold      *)
(*   c1, c2  two claims of the classical address X, d1 a claim of Y        *)
(*   r1..r3  rewards of the subsidy to the miner M, f1 a reward with a fee *)
(*   reap    M's output of r1 to A;  move  A's output of c1 to B           *)
(***************************************************************************)
EXTENDS ClaimPlans, Currency, TLC

CONSTANTS
    RewardIds,      \* the reward transactions of this instance
    Seeded          \* claims of sources that are seeded, and not made

Transfer(ins, signer, outs, fee, stamp) ==
    [kind |-> "transfer", ins |-> ins, signers |-> {signer}, outs |-> outs,
     fee |-> fee, source |-> NoSource, stamp |-> stamp]
Inputless(outs, stamp) ==
    [kind |-> "transfer", ins |-> <<>>, signers |-> {}, outs |-> outs,
     fee |-> 0, source |-> NoSource, stamp |-> stamp]
ClaimTx(source, to, stamp) ==
    [kind |-> "migration_claim", ins |-> <<>>, signers |-> {source},
     outs |-> <<[recipient |-> to, amount |-> 1]>>,
     fee |-> 0, source |-> source, stamp |-> stamp]
Out(to, n) == [recipient |-> to, amount |-> n]

MCBody ==
    [g      |-> Inputless(<<Out("A", 3)>>, 0),
     g2     |-> Inputless(<<Out("B", 4)>>, 0),
     pay    |-> Transfer(<< <<"g", 1>> >>, "A", <<Out("B", 3)>>, 0, 1),
     refund |-> Transfer(<< <<"g", 1>> >>, "A", <<Out("A", 2)>>, 1, 2),
     chain  |-> Transfer(<< <<"pay", 1>> >>, "B", <<Out("A", 3)>>, 0, 3),
     slack  |-> Transfer(<< <<"g", 1>> >>, "A", <<Out("B", 2)>>, 0, 4),
     reap   |-> Transfer(<< <<"r1", 1>> >>, "M", <<Out("A", 1)>>, 0, 5),
     move   |-> Transfer(<< <<"c1", 1>> >>, "A", <<Out("B", 1)>>, 0, 13),
     c1     |-> ClaimTx("X", "A", 6),
     c2     |-> ClaimTx("X", "B", 7),
     d1     |-> ClaimTx("Y", "B", 8),
     r1     |-> Inputless(<<Out("M", 1)>>, 9),
     r2     |-> Inputless(<<Out("M", 1)>>, 10),
     r3     |-> Inputless(<<Out("M", 1)>>, 11),
     f1     |-> Inputless(<<Out("M", 2)>>, 12)]
MCTx == {"g"} \cup Submittable \cup RewardIds \cup Seeded
MCSource == {MCBody[t].source : t \in {x \in MCTx : MCBody[x].source # NoSource}}
MCSourceOrder == SetToSeq(Source)
MCSourceAmount == [X |-> 1, Y |-> 1]
\* One unit per block, until the emission cap is reached.
MCSubsidy(h) == SubsidyAtHeight([initial |-> 1, interval |-> 0, cap |-> EmissionCap], h)

ThreadSymmetry == Permutations(Threads)

\* A node whose genesis block was made before it serves: until there is a head one handler
\* works alone, and from then on every handler imports blocks and none mines.
ServesImports ==
    /\ best = NoBlock => Cardinality({t \in Threads : job'[t] # Idle}) <= 1
    /\ best # NoBlock => \A t \in Threads : job'[t].at \in {"idle", "store", "select", "apply"}
ServingSpec == Init /\ [][Next /\ ServesImports]_vars
=============================================================================
