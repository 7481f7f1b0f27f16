------------------------------ MODULE MCSigning ------------------------------
(***************************************************************************)
(* What a node signs and what it takes for signed: wallet signers on one   *)
(* key, the threads and processes that share the key of the node's         *)
(* identity, a key pair with its tree, the inputs of a transfer, and the   *)
(* sessions between nodes.  A behaviour is one of one part; the others     *)
(* rest.                                                                   *)
(***************************************************************************)
EXTENDS NodeIdentity, MerkleSignatures, InputVerification, PeerSessions, TLC

CONSTANTS s1, s2, s3, server, tool, q1, q2, q3, q4, q5, q6, n1, n2, n3

\* Two handler threads of the server, and a command line tool.
MCProcessOf == [t \in Signers |-> IF t = s3 THEN tool ELSE server]
\* Two digests that differ in every bit: together they give every secret away.
MCSigned == {[i \in 1..HashBits |-> bit] : bit \in {0, 1}}

\* A host is named by its number of processors.
MCCpus == [h \in Host |-> h]
MCExtension == [h \in Host |-> h \in {1, 3}]
MCCoins == <<q1, q2, q3, q4, q5>>
MCKnown == {q1, q2, q3, q4, q5}

\* Every transfer of up to two inputs, some of three to five so that threads take more than
\* one, and some with coins that cannot be spent.
MCKey == [owned : BOOLEAN, signed : Maker \cup {"no"}, mode : Maker]
MCGood == [owned |-> TRUE, signed |-> "rust", mode |-> "rust"]
MCFew == {MCGood, [MCGood EXCEPT !.signed = "no"], [MCGood EXCEPT !.owned = FALSE]}
MCSpend(coins, keys) ==
    [i \in DOMAIN keys |-> [coin |-> coins[i], owned |-> keys[i].owned,
                            signed |-> keys[i].signed, mode |-> keys[i].mode]]
MCInputs ==
    UNION {{MCSpend(MCCoins, k) : k \in [1..n -> MCKey]} : n \in 1..2}
        \cup UNION {{MCSpend(MCCoins, k) : k \in [1..n -> MCFew]} : n \in 3..5}
        \cup {MCSpend(coins, k) : coins \in [1..3 -> {q1, q2, q6}], k \in [1..3 -> MCFew]}
MCTransfers == [native : BOOLEAN, inputs : MCInputs]

\* n1 calls n2, n2 calls n3: n2 is called and calls, and has room for one peer only.
MCIdOf == [n \in Node |-> n]
MCPeers == n1 :> {n2} @@ n2 :> {n3} @@ n3 :> {}
MCMaxLost == n1 :> 1 @@ n2 :> 1 @@ n3 :> 0

VARIABLE part

Parts == {"wallet", "identity", "merkle", "inputs", "sessions"}

signingVars == <<part, identityVars, merkleVars, verificationVars, sessionVars>>

\* A part that rests has one initial state.
SigningInit ==
    /\ part \in Parts
    /\ IdentityInit /\ MerkleInit /\ SessionsInit
    /\ part # "wallet" => scheme # "stateless"
    /\ part \notin {"wallet", "identity"} => scheme = "on_reserve"
    /\ IF part = "inputs" THEN VerificationInit
       ELSE CallOf(CHOOSE h \in Host : TRUE, CHOOSE t \in Transfers : TRUE)

WalletRests == UNCHANGED <<part, keypair, usedLeaf, merkleVars, verificationVars, sessionVars>>
OthersThanSessions == UNCHANGED <<part, identityVars, merkleVars, verificationVars>>

SigningNext ==
    \/ part = "wallet" /\ Next /\ WalletRests
    \/ /\ part = "identity" /\ IdentityNext
       /\ UNCHANGED <<part, merkleVars, verificationVars, sessionVars>>
    \/ /\ part = "merkle" /\ MerkleNext
       /\ UNCHANGED <<part, identityVars, verificationVars, sessionVars>>
    \/ /\ part = "inputs" /\ VerificationNext
       /\ UNCHANGED <<part, identityVars, merkleVars, sessionVars>>
    \/ part = "sessions" /\ SessionsNext /\ OthersThanSessions

\* Time passes for the wallet's rows; nobody is obliged to sign, to report or to recover.  The
\* fairness of PeerSessions.
SigningSpec ==
    /\ SigningInit /\ [][SigningNext]_signingVars
    /\ \A i \in 1..MaxRows : WF_signingVars(part = "wallet" /\ Lapse(i) /\ WalletRests)
    /\ \A n \in Callers : WF_signingVars(part = "sessions" /\ Caller(n) /\ OthersThanSessions)
    /\ \A n \in CalledNodes, w \in Workers :
          WF_signingVars(part = "sessions" /\ Handler(n, w) /\ OthersThanSessions)

\* One part alone: the identity, for the run in which a thread may stall; the inputs, for that
\* of a host with one processor.
StallSpec == SigningInit /\ part = "identity" /\ [][SigningNext]_signingVars
InputsSpec == SigningInit /\ part = "inputs" /\ [][SigningNext]_signingVars

\* FreesItself is about wallet signers: an envelope is not retried.
WalletFreesItself == part = "wallet" => FreesItself

\* KeepsBeingServed, of behaviours in which the nodes call each other.
SessionsKeepBeingServed == part = "sessions" => KeepsBeingServed
==============================================================================
