------------------------------ MODULE MCV2Node ------------------------------
(***************************************************************************)
(* A small v2 network.  Genesis is block 4, between the hashes of its       *)
(* successors.  Blocks:                                                    *)
(*                                                                         *)
(*          4 --- 2 (pay)                                                  *)
(*            \-- 5 () ------ 3 (pay2, onward2) ------ 12 (divide, merge)  *)
(*                                                                         *)
(* of which 12 has more coins between its transfers than a state may have, *)
(* and six that nobody may accept: 6 ends with as many, 7 repeats pay on   *)
(* top of 2, 8 skips a height, 9 holds a transfer that leaves value over,  *)
(* 10 has a bad header, 11 spends a coin its signer does not own.          *)
(***************************************************************************)
EXTENDS GoConformance

B(prev, height, txs, sound) == [prev |-> prev, height |-> height, txs |-> txs, sound |-> sound]
MCBlock == [h \in 0..12 |->
    CASE h = 4  -> B(0, 0, <<>>, TRUE)
      [] h = 2  -> B(4, 1, <<"pay">>, TRUE)
      [] h = 5  -> B(4, 1, <<>>, TRUE)
      [] h = 3  -> B(5, 2, <<"pay2", "onward2">>, TRUE)
      [] h = 6  -> B(3, 3, <<"divide">>, TRUE)
      [] h = 12 -> B(3, 3, <<"divide", "merge">>, TRUE)
      [] h = 7  -> B(2, 2, <<"onward", "pay">>, TRUE)
      [] h = 8  -> B(4, 3, <<>>, TRUE)
      [] h = 9  -> B(5, 2, <<"slack">>, TRUE)
      [] h = 10 -> B(4, 1, <<>>, FALSE)
      [] h = 11 -> B(4, 1, <<"theft">>, TRUE)
      [] OTHER  -> B(0, 0, <<>>, FALSE)]
MCHash == 2..12
\* Other than by hash: the branch of block 5 comes first, and refused blocks in between.
MCListed == <<5, 2, 10, 8, 9, 11, 3, 6, 12, 7>>

In(coin, owner) == [coin |-> coin, owner |-> owner]
T(ins, outs, fee) == [ins |-> ins, outs |-> outs, fee |-> fee]
\* Outputs are <<recipient, amount>>.
MCTransfer ==
    [pay     |-> T(<<In(<<"genesis", 1>>, "A")>>, << <<"B", 2>>, <<"A", 1>> >>, 1),
     onward  |-> T(<<In(<<"pay", 1>>, "B")>>, << <<"A", 2>> >>, 0),
     divide  |-> T(<<In(<<"onward2", 1>>, "C")>>, << <<"B", 1>>, <<"C", 1>>, <<"A", 1>> >>, 0),
     merge   |-> T(<<In(<<"divide", 1>>, "B"), In(<<"divide", 2>>, "C")>>, << <<"C", 2>> >>, 0),
     pay2    |-> T(<<In(<<"genesis", 1>>, "A")>>, << <<"B", 4>> >>, 0),
     onward2 |-> T(<<In(<<"pay2", 1>>, "B")>>, << <<"C", 3>> >>, 1),
     slack   |-> T(<<In(<<"genesis", 1>>, "A")>>, << <<"B", 2>> >>, 1),
     theft   |-> T(<<In(<<"genesis", 1>>, "B")>>, << <<"B", 4>> >>, 0)]
MCAllocations == {<<"genesis", 1>>}
MCCoin ==
    [op \in MCAllocations \cup UNION {Created(t) : t \in DOMAIN MCTransfer} |->
        IF op \in MCAllocations THEN [recipient |-> "A", amount |-> 4]
        ELSE [recipient |-> MCTransfer[op[1]].outs[op[2]][1],
              amount    |-> MCTransfer[op[1]].outs[op[2]][2]]]
=============================================================================
