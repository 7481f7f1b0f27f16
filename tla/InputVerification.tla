------------------------- MODULE InputVerification -------------------------
(***************************************************************************)
(* How a node verifies the inputs of a transfer (verification.py): the     *)
(* look-up of the coins, the batch of the native provider with the threads *)
(* of its Rust extension (crates/qr_chain_native_signer), and the pool of  *)
(* Python threads that the other providers, or a node without the          *)
(* extension, use.  Calls share nothing, so one call at a time is          *)
(* modelled, on any node; the threads of a call are interleaved.  A        *)
(* signature is what the provider says of it: the native one has two       *)
(* kinds, made with and without the extension, and each verifies only on a *)
(* node that is set up as the node that made it.                           *)
(***************************************************************************)
EXTENDS Integers, Sequences, FiniteSets

CONSTANTS
    Host,           \* nodes
    Cpus,           \* Cpus[n]: os.cpu_count() of n
    Extension,      \* Extension[n]: the native provider of n runs in extension mode
    Known,          \* coins of the view the transfer is validated against
    Coin,           \* coins that inputs refer to
    Transfers       \* transfers that may arrive: their provider, and their inputs

\* An input: its coin, whether its key is that of the coin's address, what made its
\* signature ("no": nothing that verifies), and what the signature says made it.
Maker == {"python", "rust"}
Input == [coin : Coin, owned : BOOLEAN, signed : Maker \cup {"no"}, mode : Maker]

ASSUME VerificationAssumption ==
    /\ Cpus \in [Host -> Nat \ {0}] /\ Extension \in [Host -> BOOLEAN]
    /\ \A t \in Transfers : /\ t.native \in BOOLEAN
                            /\ t.inputs \in Seq(Input) /\ t.inputs # <<>>

VARIABLES
    host, transfer, \* the call: where, and of what
    stage,          \* how far it is
    running,        \* inputs the Python threads are at
    finished,       \* inputs the threads are done with
    refuted,        \* those of them that did not verify
    answer          \* the result, and the input it names

verificationVars == <<host, transfer, stage, running, finished, refuted, answer>>

Inputs == 1..Len(transfer.inputs)
InputAt(i) == transfer.inputs[i]
Answer(verified, i) == [verified |-> verified, named |-> i]

VerificationTypeOK ==
    /\ host \in Host /\ transfer \in Transfers
    /\ stage \in {"called", "batch", "python", "pool", "rust", "answered"}
    /\ running \subseteq Inputs /\ refuted \subseteq finished /\ finished \subseteq Inputs
    /\ answer \in [verified : BOOLEAN, named : {0} \cup Inputs]

CallOf(n, t) ==
    /\ host = n /\ transfer = t /\ stage = "called"
    /\ running = {} /\ finished = {} /\ refuted = {} /\ answer = Answer(FALSE, 0)

VerificationInit == \E n \in Host, t \in Transfers : CallOf(n, t)

----------------------------------------------------------------------------
(* What holds of an input. *)

\* The coin is not in the view, or an input before it spends it already.
Unusable(i) ==
    \/ InputAt(i).coin \notin Known
    \/ \E j \in 1..(i - 1) : InputAt(j).coin = InputAt(i).coin

\* What the provider of the node says of the signature.
SignatureHolds(i) ==
    IF transfer.native THEN InputAt(i).signed = IF Extension[host] THEN "rust" ELSE "python"
    ELSE InputAt(i).signed # "no"

VerifyOneInput(i) == InputAt(i).owned /\ SignatureHolds(i)

\* The same in the extension, which signs and verifies in a way of its own.
RustHolds(i) == InputAt(i).signed = "rust"

\* What the batch passes on to the extension.
Batchable(i) == InputAt(i).owned /\ InputAt(i).mode = "rust"

\* verify_batch of the native provider refuses to run without its extension.
BatchRuns == Extension[host]

IsFirst(i, S) == i \in S /\ \A j \in S : i <= j

Threads == IF Cpus[host] < Len(transfer.inputs) THEN Cpus[host] ELSE Len(transfer.inputs)

\* The inputs of one thread of the extension follow each other.
ChunkSize == (Len(transfer.inputs) + Threads - 1) \div Threads
ChunkOf(i) == (i - 1) \div ChunkSize

----------------------------------------------------------------------------
(* The call. *)

Reply(verified, i) == stage' = "answered" /\ answer' = Answer(verified, i)

Precheck ==
    /\ stage = "called"
    /\ \/ \E i \in Inputs : IsFirst(i, {j \in Inputs : Unusable(j)}) /\ Reply(FALSE, i)
       \/ /\ \A i \in Inputs : ~Unusable(i)
          /\ stage' = "batch" /\ UNCHANGED answer
    /\ UNCHANGED <<host, transfer, running, finished, refuted>>

\* The batch stops at the first input it cannot take: an address that does not match is an
\* answer, a signature made without the extension a reason to go on in Python.
NativeBatch ==
    /\ stage = "batch"
    /\ \/ /\ transfer.native
          /\ \E i \in Inputs : /\ IsFirst(i, {j \in Inputs : ~Batchable(j)})
                               /\ IF InputAt(i).owned THEN stage' = "python" /\ UNCHANGED answer
                                  ELSE Reply(FALSE, i)
       \/ /\ transfer.native /\ \A i \in Inputs : Batchable(i)
          /\ stage' = IF BatchRuns THEN "rust" ELSE "python"
          /\ UNCHANGED answer
       \/ ~transfer.native /\ stage' = "python" /\ UNCHANGED answer
    /\ UNCHANGED <<host, transfer, running, finished, refuted>>

\* One input, or one processor: the first input is verified in the caller.
Dispatch ==
    /\ stage = "python"
    /\ IF Len(transfer.inputs) = 1 \/ Threads <= 1
       THEN Reply(VerifyOneInput(1), IF VerifyOneInput(1) THEN 0 ELSE 1)
       ELSE stage' = "pool" /\ UNCHANGED answer
    /\ UNCHANGED <<host, transfer, running, finished, refuted>>

----------------------------------------------------------------------------
(* The threads. *)

\* A free thread of the pool takes the input that waits longest.
Take(i) ==
    /\ stage = "pool"
    /\ IsFirst(i, Inputs \ (running \cup finished))
    /\ Cardinality(running) < Threads
    /\ running' = running \cup {i}
    /\ UNCHANGED <<host, transfer, stage, finished, refuted, answer>>

Verdict(i, holds) ==
    /\ finished' = finished \cup {i}
    /\ refuted' = IF holds THEN refuted ELSE refuted \cup {i}

Finish(i) ==
    /\ stage = "pool" /\ i \in running
    /\ running' = running \ {i} /\ Verdict(i, VerifyOneInput(i))
    /\ UNCHANGED <<host, transfer, stage, answer>>

\* A thread of the extension goes through its chunk in order, and looks at the signatures only.
RustVerify(i) ==
    /\ stage = "rust" /\ i \notin finished
    /\ \A j \in Inputs : ChunkOf(j) = ChunkOf(i) /\ j < i => j \in finished
    /\ Verdict(i, RustHolds(i))
    /\ UNCHANGED <<host, transfer, stage, running, answer>>

\* A slip for the mutants: the first failure to arrive is the answer.
GatherAny ==
    /\ stage = "pool" /\ finished = Inputs
    /\ \/ refuted = {} /\ Reply(TRUE, 0)
       \/ \E i \in refuted : Reply(FALSE, i)
    /\ UNCHANGED <<host, transfer, running, finished, refuted>>

\* Once every thread is done, the results are looked through in the order of the inputs.
Decide ==
    /\ finished = Inputs
    /\ \/ refuted = {} /\ Reply(TRUE, 0)
       \/ \E i \in refuted : IsFirst(i, refuted) /\ Reply(FALSE, i)
    /\ UNCHANGED <<host, transfer, running, finished, refuted>>

GatherPool == stage = "pool" /\ Decide

\* The extension joins its threads and sorts their results.
GatherBatch == stage = "rust" /\ Decide

VerificationNext ==
    \/ Precheck \/ NativeBatch \/ Dispatch \/ GatherPool \/ GatherBatch
    \/ \E i \in Inputs : Take(i) \/ Finish(i) \/ RustVerify(i)

VerificationSpec == VerificationInit /\ [][VerificationNext]_verificationVars

----------------------------------------------------------------------------
\* A transfer is verified exactly when each of its inputs spends another coin of the view
\* and verifies: whichever way the node took, and however its threads were scheduled.
VerdictRight ==
    stage = "answered" =>
        (answer.verified <=> \A i \in Inputs : ~Unusable(i) /\ VerifyOneInput(i))

\* The input a refusal names does not depend on the schedule: it is the first that is unusable,
\* or else the first that fails, or, for the native batch, the first with another address.
FirstFailureNamed ==
    stage = "answered" /\ ~answer.verified =>
        LET unusable == {i \in Inputs : Unusable(i)}
        IN  \/ IsFirst(answer.named, unusable)
            \/ unusable = {} /\ IsFirst(answer.named, {i \in Inputs : ~VerifyOneInput(i)})
            \/ /\ unusable = {} /\ transfer.native
               /\ IsFirst(answer.named, {i \in Inputs : ~InputAt(i).owned})

\* The answer, its verdict and the input it names, is a function of the transfer and the view.
AnswerRight == VerdictRight /\ FirstFailureNamed
=============================================================================
