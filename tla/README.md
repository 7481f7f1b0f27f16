# A TLA+ model of the QBC node

QBC ("quantum-resistant blockchain") is a proof-of-work UTXO chain in Python with
stateful post-quantum signatures and a migration of classical balances. This
directory holds TLA+ modules translated from `src/`, the TLC configurations that
check them on small instances, and proofs for TLAPS.

Contents: [1 the system](#1-the-system) · [2 the modules](#2-the-modules) ·
[3 the runs](#3-the-runs) · [4 the proofs](#4-the-proofs) ·
[5 disagreements found](#5-disagreements-found) ·
[6 what is not modelled](#6-what-is-not-modelled) · [7 plan](#7-plan)

## 1. The system

### Inventory

| component | state it keeps | operations | what makes it correct | modules |
|---|---|---|---|---|
| **Ledger rules** (`service.py`, `models.py`) | none: functions of a branch | `validate_block`, `_validate_transaction_against_view`, `_validate_supply_limits`, `_validate_supply_invariant` | every spend finds a mature output of its own branch; no classical address is claimed twice on a branch; unspent outputs are worth what was issued | `Ledger` |
| **Chain node** (`service.py`, `storage.py`, `api.py`) | tables `blocks`, `utxos`, `migration_claims`, `pending_transactions`, `chain_state`, `migration_sources` | `submit_transaction`, `create_genesis_block`, `mine_pending_transactions`, `import_block`, `apply_best_chain` | the index tables are those of one head; the head is the best stored block; the mempool is free of conflicts and of included transactions; what was admitted can be mined | `ChainNode`, `BestChain` |
| **Claim quotes, batch plans, input selection** (`service.py`) | none: answers from the tables | `migration_claim_quote`, `preflight_migration_claim`, `migration_claim_batch_plan`, `select_inputs` | what a node answers is what it then admits and mines | `ClaimPlans` |
| **Emission** (`currency.py`) | none | `subsidy_at_height`, `emitted_supply_through_height` | the closed form equals the sum over blocks | `Currency`, `Emission` |
| **Signing reservations** (`wallet_store.py`, `signer.py`) | a key with its encrypted state, and its reservations | reserve, complete, fail, refresh, recover, `sign_for_address` | no one-time leaf in two released signatures; stored state never goes back; a stuck key gets free or can be recovered | `KeyReservations` |
| **Node identity** (`auth.py`) | one key pair attribute of the process, and the wallet store below it | `sign_claims` | no two envelopes are signed with one leaf, whichever threads and processes sign | `NodeIdentity` |
| **Merkle signatures** (`reference_backend.py`, `crypto.py`, `lamport.py`) | a key pair with its next leaf and the tokens of its reservations | reserve, sign, verify, serialise | what signatures give away makes up no other signature; one index per signature | `MerkleSignatures` |
| **Input verification** (`verification.py`, `qr_chain_native_signer`) | none; a pool of threads per call | `verify_transaction_inputs`, `verify_batch` | every input is verified whichever way the node takes, and the answer does not depend on the threads | `InputVerification` |
| **V2 consensus node** (`protocol_v2*.py`) | in-memory chain, SQLite copy of its blocks | `accept_block`, `sync_from`, `_open_store_and_replay` | memory and disk agree after any crash; the tip is the best block; nodes agree on the state after a block; a sync catches up; fees are burned | `V2Node` |
| **Go checker** (`conformance/go`) | four maps of the engine | `AcceptBlock`, `consensuscheck` | it answers what the node answers, up to limits that are named | `GoConformance` |
| **Peer authentication** (`auth.py`, `service.py`, `storage.py`) | `peer_nonces`, `peer_identities`, `peer_sessions` | signed requests, handshakes, admission | a request is accepted once, but by a handler slower than a margin; a session a caller holds is one its peer accepts, unless that peer calls back | `ReplayWindow`, `PeerSessions` |
| **Peer sync and gossip** (`service.py`, `network.py`) | none of its own | `sync_with_peers`, `receive_authenticated_block_gossip` | nodes that exchange blocks agree in the end | `PeerSync` |
| **Migration sources, snapshots, disputes** (`service.py`, `storage.py`) | `migration_snapshots`, `migration_sources`, `migration_disputes` | import, seed, review, open, evidence, resolve, expire | an import is whole; an output of a source found fraudulent stays frozen | `MigrationReview` |
| **Source ingestion** (`source_ingestion.py`, `snapshot.py`) | the artifacts operators keep, and the tables above | normalise, validate, batch, approve, plan, import | what is imported is what was approved; a plan that promises no change makes none | `SourceIngestion` |
| **HTTP API** (`api*.py`, `rate_limit.py`) | connection slots, rate windows | accept, read, route, close; per-client limit | slots are given back; every connection ends; the limit holds across window edges | `HttpServer`, `RateLimit` |
| **Integrity report** (`service.py`) | none: compares the tables with a replay | `security_invariant_report`, `supply_snapshot` | no alarm that the state does not justify | `IntegrityReports` |
| **Encodings, custody, other providers; configuration, CLI, other reports, chaos harness** | none of the node's | parsing, read-only reports, drivers, external libraries | | none |

### How they interact

The HTTP server runs each request in a thread of its own, and a CLI command is a
process of its own on the same SQLite file. `NodeService` takes no lock: every
`SQLiteChainStore` call opens a connection, does one read or one transaction, and
closes it. So a handler such as `submit_transaction` is a sequence of five or
more database transactions, and other handlers run between them. A block enters
by three doors (genesis, local mining, a peer's relay or sync) which all end in
`import_block`: `validate_block`, `store_block` (one INSERT), then
`_select_best_chain`, which may call `apply_best_chain` (one transaction that
rebuilds all indexes). Before a peer's request reaches a handler it passes the
slots of the server, the timestamp and session checks and the table of nonces;
before a node may sync, it has shaken hands. Claims depend on the tables of
sources and disputes, which operators change through ingestion, review and
dispute handlers, and which public reads change too, because a read expires
disputes. A transfer's inputs are verified within the handler that
validates it, by threads that end before the handler goes on. Reports read the tables as
handlers do, a connection at a time. The wallet database is shared by CLI processes and the node's identity, each store
operation being one `BEGIN IMMEDIATE` transaction; signing itself happens outside of it,
between reservation and completion.

The models meet at these seams: `MigrationReview` and `SourceIngestion` end
where `ChainNode` begins (the review status of a source); `PeerSync` takes an
import of `ChainNode` as one step and a session of `PeerSessions` as given;
`PeerSessions` takes a fresh request of `ReplayWindow` as given; `NodeIdentity`
extends `KeyReservations`; `ClaimPlans` extends `ChainNode` and compares its answers
with what `ChainNode` then does; `IntegrityReports` extends `ChainNode` by a reader;
`Ledger` takes an input as signed when `InputVerification` would say so on a node with two
processors or more; `GoConformance` extends `V2Node`.

### Hard behaviours

* handlers of several threads interleave between database transactions;
* the process may die between `store_block` and `apply_best_chain`, between a
  reservation and its completion, or between memory and disk of a v2 node;
* a reorganisation replaces several blocks at once, and index tables, claims and
  mempool must follow;
* a signer or a handler stalls until its reservation, timestamp or session has expired, and
  then goes on;
* replies are lost, blocks arrive twice, peers are not there, clients stall at any byte;
* maturity, escrow, halving, cap, window and capacity boundaries;
* plans and checks are made from tables that others change before the write.

The full list, with the lines concerned and the properties aimed at each, is
`hazards` in `PROJECT.json`.

## 2. The modules

```
module                built on           checked in    proofs
Ledger                                   (ChainNode)
BestChain                                (ChainNode)
ChainNode             Ledger, BestChain  MCChainNode   ChainNodeProofs, BranchProofs
ClaimPlans            ChainNode          MCChainNode   AnswersProofs
Currency                                 MCChainNode   (NodePartsProofs)
Emission              Currency           MCNodeParts   NodePartsProofs
ReplayWindow                             MCNodeParts   NodePartsProofs
RateLimit                                MCNodeParts   NodePartsProofs
HttpServer                               MCNodeParts   NodePartsProofs
PeerSync                                 MCNodeParts
SourceIngestion                          MCNodeParts   NodePartsProofs
KeyReservations                          MCSigning     SigningProofs
NodeIdentity          KeyReservations    MCSigning     SigningProofs
MerkleSignatures                         MCSigning     SigningProofs
InputVerification                        MCSigning     SigningProofs
PeerSessions                             MCSigning     SigningProofs
IntegrityReports      ChainNode          MCOperators   AnswersProofs
MigrationReview                          MCOperators   MigrationReviewProofs
                                         (MCMigrationReview)
V2Node                                   MCV2Node      V2NodeProofs
GoConformance         V2Node             MCV2Node      V2NodeProofs
```

`FiniteSums` holds what several proof modules share: induction over finite sets, numbers and
intervals, and sums. `BranchProofs` extends `ChainNodeProofs`, and `AnswersProofs` extends `BranchProofs`.

Components that share no state share a run (`MCNodeParts`, `MCSigning`, `MCOperators`): a variable `part`
says which one a behaviour is of, and the others rest in one initial state. What is checked of
a part is what its own specification would give. Definitions whose comment begins with
"A slip for the mutants" are deliberate faults that no specification uses; `PROJECT.json`
names the definition each stands in for, to show that a property notices.

### Ledger

The rules as operators, without state or recursion. A transaction id is the
hash of its content, so `Body[t]` *is* the content of `t` and an outpoint
`<<t, i>>` determines its recipient and amount; `utxos` is then a set of
outpoints. A branch's view maps each unspent outpoint to its *origin* (height,
coinbase or not, migration source), what `_utxo_origin_metadata_for_head`
computes. `ViewUpTo(view, txs, height, n)` gives the view after the first `n`
transactions in closed form ("consumed and not added again later", "added twice:
last origin counts"), because the code's dict allows an outpoint to be added twice.
`ValidTransfer`, `ValidClaim` and `ValidBlockOn` follow the order of the code's
checks; conditions over a block are quantified over positions.

Abstracted: signatures (a transaction carries the set of its `signers`), the
text of an id, memo and size limits, destination attestations, snapshot
approval and disputes (their effect is a source's `review` status).

### ChainNode

Each variable but the last is a table; `job[t]` is where thread `t` is, with its
local variables.

| action | code | one step because |
|---|---|---|
| `Submit`, `ReadUtxos`, `Check`, `CheckConflicts`, `SavePending` | `submit_transaction` | one connection each; reads of tables with nothing in between are merged (comment at each) |
| `CreateGenesis` | `create_genesis_block` up to validation | reads of rows that never change |
| `Mine`, `ReadPending`, `Build` | `mine_pending_transactions` up to validation | head, mempool and parent are separate reads; proof of work lies between them |
| `Import` | `import_block` up to validation, block from a peer | |
| `StoreBlock` | `store_block` | one INSERT |
| `SelectBestChain` | `_select_best_chain`: read of the head, comparison | |
| `ApplyBestChain` | `apply_best_chain` | one SQLite transaction |
| `SetReview` | `set_migration_source_status` | operator |
| `Crash` | the process dies, tables stay | |

A row keeps, beside the columns, what the code recomputes from a row's ancestors each
time (`path`, `view`, `claimed`, `supply`). `RowsReplay` says that the stored view
is the replay of the branch, one transaction at a time.

Four constants switch parts of the environment: `PeerBlocks`, `PeerGenesis`,
`Reviews`, `Crashes`. Header checks (chain id, version, proof of work,
timestamps) and state roots are left out: a block that fails one changes nothing.
Two blocks with the same parent and transactions may have different hashes, as a
nonce or timestamp does; one hash never names two contents.

### ClaimPlans

Operators only: the quote, the preflight, the batch plan, the finality and
spendability of outputs and the selection of inputs, over the state of `ChainNode`.
The code computes height, epoch, pool and maturity in each of them again; the
invariants say that a node keeps the promise these answers make when it is quiet (no handler is under way).
The plan is a recursive function over the sources in the order of the table, one step per source.

### BestChain

What fork choice promises: blocks are decided upon one at a time, and the head is
the best of those decided so far. `ChainNode` maps to it with the stored blocks
that are not in the hands of a handler in `select` or `apply`.

### Currency and Emission

`Currency` has `subsidy_at_height` and the segment-wise closed form of
`emitted_supply_through_height`; `Emission` runs a chain, block by block, under
each policy and keeps the sum. `HalvingCutoff` stands for 63, so that the cutoff
is reached.

### KeyReservations and NodeIdentity

`KeyReservations`: one key, several signing processes, each in `sign_for_address`. The
wallet's rows are a sequence; the provider and the file of the key are
represented by the next free leaf. `Scheme` says when the state advances:
`on_reserve` (XMSS and LMS with reservations: the reservation itself persists
the advanced state), `on_sign` (the state is advanced by the signature and
persisted at completion), `stateless` (no reservation by the provider, as ML-DSA
or the native signer). Time is `Lapse`: a pending reservation reaches its expiry.
An operator may `Recover` a row that requires it. Processes crash.

`NodeIdentity` uses the same rows, but a signer is a handler thread, and the threads of a
process share the attribute `keypair[p]`: `Assign` overwrites it with the state of
the thread's reservation, `SignClaims` signs with it, `WriteBack` stores it as it is by
then. Restarts load the stored key. `MayStall` says whether a thread may outlast its reservation.
`SignClaims` signs with whatever state the attribute has, as the built-in Merkle provider of `crypto.py` and the LMS backend do. The XMSS
backends refuse (a key state that is not the reserved one in `oqs_backend.py:349`, a token that is not among the
reservations in `reference_backend.py:275`) some of these signatures; there the thread goes on as in `SigningFails`, which is
possible at every signature.

### MerkleSignatures

Lamport signatures as sequences of secrets, the tree as sequences of leaves
(hashes are free: equal exactly when what they are computed from is), the walk along
the authentication path, and the reference backend's key pair with
tokens. Callers present any token with any leaf, any number of times; the pair is stored
and loaded again at any time, and signatures leave once the state they used up is stored.

### InputVerification

One call of `verify_transaction_inputs` on any node, with any transfer: `Precheck` (unknown and
repeated coins), `NativeBatch` (the addresses in order, and whether the extension can take the batch),
`Dispatch` (alone or with a pool), then either `Take` and `Finish` for the Python pool, or
`RustVerify` for the extension, whose threads go through chunks of neighbours; `GatherPool` and `GatherBatch`
wait for all and look for the first failure. Calls share nothing, so there is one.
What a provider says of a signature is a field of the input; the native provider says different things
with and without its extension (`Extension`, `signed`), and `mode` is what the signature
claims, which decides whether it goes into a batch. Errors of the extension itself (a thread that
panics, a reply that is no JSON) are left out: nothing in it raises them for the items it is given.

### IntegrityReports

`security_invariant_report` beside the handlers of `ChainNode`: head, outputs, the head again for
`supply_snapshot`, and the height are four steps (`StartReport` to `ReadHeight`). `moved` is a history variable: whether a head
was applied since the report began. A replay is what a row keeps of it (`RowsReplay` compares).

### V2Node and GoConformance

Nodes of one v2 network. `known[n]` stands for the four dicts `blocks`, `states`,
`branch_txids` and `work`, with one row per block; `disk[n]` is the table
`v2_blocks`. Blocks are a constant: a hash determines its block, so `Block` is the set of
everything miners may ever have made, valid or not, and a node may be handed any of it at
any time.

| action | code | one step because |
|---|---|---|
| `AcceptBlock` | `accept_block` up to `_store_block` | in memory, by the one thread that changes the node; the only write others see is `tip_hash`, the last one |
| `StoreBlock`, `StoreFails` | `_store_block` | one INSERT, which may raise |
| `SyncFrom` | `sync_from` up to the reply of `canonical_blocks` | the serving thread reads `tip_hash` once, and links never change |
| `SyncNext` | `accept_block` of the next fetched block | |
| `Start`, `Replay` | `__init__`, `_open_store_and_replay` | `Replay` is one row; nobody can call the node before the last one |
| `Crash` | the process dies, the table stays | |

All nodes have one manifest, so handshakes always agree. The header check (state root,
proof of work, timestamp, sizes, miner address) is a flag `sound` of a block (`HeaderOK`);
height, parent, transactions and supply are checked as in the code.

`GoConformance` translates the Go engine on its own terms: a map of coins instead of a
view, sums in int64 and work in uint64, the limit on coins (`MaxUTXOs`, `MAX_STATE_UTXOS` of both programs)
after each transfer, where the node looks after the last one of a block, and a loop over an ordered list
(`Listed`) that fails with the first block refused. Two rules are therefore the engine's own, and `InGoLimits` names
them: the coins between the transfers of a block, and the sum of the work.
`CheckerAgrees` gives the engine the rows of a node's table in an order of its own and says that it refuses
one of them just if a block is outside of these limits, and that otherwise tip, work and coins are the node's, and
each accepts next what the other does, within the limits again. `SameRules` is what the document says of the two
programs, without the limits; it is false (section 5). That Go never reads a candidate's own
`block_hash`, where Python compares it with the computed one, cannot show here: a hash stands for a
block whose field is right.

### ReplayWindow and PeerSessions

`ReplayWindow`: handler threads check the timestamp of a signed request in
whole seconds (`Verify`), prune (`Prune`, a committed DELETE with the time read before it) and
insert the nonce (`Insert`, `Refuse`, one `BEGIN IMMEDIATE`). The clock runs in half seconds
between the steps. A handler verifies a signature and waits for locks between the check and the mark, and
nothing in the code ends that: `MaxStall` is a bound of the instance, no assumption about the code. `NoReplay` says
what the retention's extra second achieves: a request is let through again only by a handler that took longer
than the `Margin` of half a second from its check to its mark, whatever the others took.

`PeerSessions`: each node has the tables `peer_identities` and `peer_sessions`, a call of its own
(`ensure_peer_admission`, then requests) and handler threads. A handshake is eight steps on two
nodes, and replies are lost between them. Sessions expire by a clock that runs on its own.
Both sides keep a row per session: the peer's is extended by every request
(`Touch`), the caller's is not. The nodes share one clock: a skew between two nodes shifts the expiry of one
side's rows, and is not modelled.

### PeerSync

Nodes with a tree of blocks, mining, gossip and rounds of `sync_with_peers`:
`Summary` (the peer's height), `Compare` (the own height, read afterwards), `Fetch` (a batch from
that height), `ImportNext`. The round ends at the first refused block or failed request, as in the
code, so that later peers are not asked.

### MigrationReview

Snapshots, sources and disputes as tables; `desk[t]` is the handler of thread
`t`, cut at every store call: a seed is a stub and then a source; an expiry reads what is due,
updates, and then releases the sources one by one; evidence and verdicts are a check, a write and a
review. Opening a dispute begins with an expiry, because it reads a packet first. A block
claims and spends in one step. `Judges` and `Curators` say which threads may do what.

### SourceIngestion

An export is normalised into an artifact of four parts (bundle, records,
provenance, manifest). Artifacts are files: every mixture of parts may be validated, approved,
planned and imported. A plan and its import are two steps, with other imports, seeds
and reviews in between. `Trusted` and `TrustedNodes` are the two lists of trusted signers of the settings.

### HttpServer and RateLimit

`HttpServer`: a queue of the system, one acceptor, a slot and a thread per connection,
reads of any length at any pace, a timeout that may end each, routes, and `Close`, which gives the
slot back. `RateLimit`: fixed windows per client, in the process (with the pruning of the
table) or in Redis, chosen in the initial state; what was let through in each unit of time is
kept as a history.

## 3. The runs

| run | instance | shows |
|---|---|---|
| `one_handler` | 1 thread, 3 blocks beside genesis, blocks from peers, a genesis whose hash lies in the middle, conflicting transfers, a spend of a reward, a claim, pool cap 2, epoch cap 1 | `ImplementsBestChain` (the node refines `BestChain`); `PendingConsistent` through reorgs of several blocks; `QuotedIsAdmitted` |
| `local_mining` | 1 thread, local blocks only, maturity 2, pool cap 1, two claims that do not fit together, a transfer worth less than its inputs, a spend of a reward, crashes | `MiningSucceeds`: the block built of the mempool is valid, if its transfers are exact and the caps have room for its claims together; `PlannedBatchMines`: so is one of a batch plan's claims |
| `peer_blocks` | 1 thread, peer blocks of three transactions in any order, genesis blocks of peers, escrow 1, status changes | `RowsReplay`, `SpendsMature`, `SelectionSpends`, `SupplyReconciles` |
| `signing` | keys: 3 threads in 2 processes, 3 schemes, 3 leaves, 3 rows · tree: 4 leaves, digests of 2 bits, 4 tokens · inputs: nodes with 2 and with 3 processors, one with the extension; all transfers of up to two inputs, good, unsigned and foreign inputs in all orders up to five, unknown and repeated coins · sessions: 3 nodes in a row, room for one peer, a session of two half seconds, one lost reply each | `OneSignaturePerLeaf`, `NoRollback`, `WalletFreesItself`, `OneEnvelopePerLeaf`; `NothingUnsigned`, `OneIndexPerSignature`; `AnswerRight`; `HeldSessionWorks`, `SessionsKeepBeingServed` |
| `v2_network` | 2 nodes, one with a disk that may refuse writes; two branches of one and of three blocks with transfers, two coins at most in a state; a block that exceeds them between its transfers, one that does in the end, five others nobody may accept; syncs, crashes, restarts | `TipIsBest`, `StatesAgree`, `SyncCatchesUp`, `Durable`, `RestartSucceeds`, `FeesBurned`, `CheckerAgrees` |
| `node_parts` | emission: 64 policies, 12 blocks · nonces: 2 threads, 3 requests, skew 1, capacity 2, up to a second from check to mark · limit: 3 clients, limit 1, table of 1 · HTTP: 3 connections, 2 slots, 2 reads · sync: 4 nodes, one not there, 3 blocks, batches of 2, 1 fault · ingestion: 4 exports, 2 references, 2 networks, 1 approval | `IssuedMatchesSchedule`; `NoReplay`, `RefusedOnlyWhenFull`; `AtMostTwoWindows`; `SlotsConserved`, `EveryConnectionEnds`; `SyncConverges`; `BatchImports`, `ImportedAsApproved`, `SafeNoopKeeps` |
| `operators` | handlers: 2 threads (symmetric) that submit, mine and import claims, crashes, a mempool of one, two claims of one address · reviews: 2 threads, one judge and one curator, 2 disputes (symmetric), 2 addresses, 2 blocks · report: one handler with crashes, 3 blocks of peers with transfers and claims, one report after another | `IndexesMatchHead`, `ClaimedOncePerBranch`, whatever the interleaving; `ImportedWhole`, `FraudFreezes`; `AlarmsExplained` |
| `fork_choice_race`, `engine_limits`, `verdict_race`, `identity_stall`, `one_processor` | as small as shows it | section 5 |

Every module has a type invariant (`…TypeOK`). Those the proofs rest on are part of an inductive
invariant; none is a property of a run.

### Bounds, and why they are enough

* *Blocks.* `Hash` has three or four members: two branches from genesis, one of them of two
  blocks, is what a reorganisation that replaces one block by two needs; ties and
  both orders of hashes occur, because the genesis hash is not the smallest where it
  matters and each block may have any free hash.
* *Transactions.* The set contains, for each rule, a pair that meets it: two
  spends of one output (`pay`, `refund`), a spend of an output created in the same
  block (`chain`), of a reward (`reap`), of a claimed output (`move`), two claims of one
  address (`c1`, `c2`), a claim of another (`d1`). Each run takes the ones its properties can
  tell apart.
* *Peer blocks.* `MaxPeerTxs` is the reward and up to two others, which is what it takes to
  create and spend within a block in either order.
* *Threads.* Two: every race found needs two. In the first part of `operators` they handle claims only
  (`OnlyClaims`), which is what its two properties are about. The proofs are for any number.
* *Caps.* The pool and epoch caps bind in `one_handler` and `local_mining`; `EmissionCap`
  in the emission part alone. No run has a claim window.
* *Reservations.* Three rows and three leaves let each signer reserve, expire and reserve
  again after another, and use up the key. Two threads of one process and one
  of another are what sharing the attribute and the store needs.
* *Merkle tree.* Two digests that differ in every bit: together they give every secret of a
  leaf away. Height 2 has left and right siblings at two levels.
* *v2 blocks.* Two branches that tie, with hashes on either side of each other's, so
  that a tie is won by the new block or by the tip; each branch creates coins that
  the next transfer spends. `MaxInt64` is the supply, so that sums at the limit occur; block 12 splits a coin
  into more than `MaxUTXOs` and joins them again, block 6 only splits it. `MaxUint64` is out of reach (so is it of
  any chain of real difficulty); the proof covers it.
* *Nonces.* Two requests that overlap in time and one when they are forgotten; the clock ends
  after the last could be accepted again. `MaxStall` is twice the margin: a request is accepted twice in this
  run, by a slow handler.
* *Sync.* The chain reaches the third node through the second only, and is longer than a batch.
* *Sessions.* A node that is both called and calling, at its limit of peers; the clock passes one
  expiry. With two expiries and two workers the state space is out of reach for a routine run.
* *Inputs.* Five inputs and two or three processors: a thread takes more than one input, chunks are of
  unequal length, and fewer chunks than processors occur (four inputs, three processors).
* *Reports.* Two branches over genesis, so that a head is replaced, not only extended, while
  a report reads; claims of one address on both.
* *Disputes.* Two on one address, with a window that closes; a second address in the
  same bundle for conflicts between import and seed.
* *Deadlock* is checked in the runs of `MCChainNode` and `MCV2Node`. In the others time, blocks or
  approvals are bounded, and a behaviour ends when they are used up.

`MiningSucceeds` speaks of the rewards the instance still has: where none is left it says
nothing, so `local_mining` has one more reward than blocks. It is stated for
local mining alone: with blocks of peers a pending transaction may become
invalid and stays (nothing evicts it), which no document rules out. Its two exceptions occur in the
run: a transfer that leaves something over (`slack`) and claims that were admitted one by one and exceed the
pool together; section 5 says what a node does then. `PlannedBatchMines` excepts the last height of an epoch,
`QuotedIsAdmitted` that height and a claim that converts to nothing.

### Fairness

* `ChainNode`, `IntegrityReports`, `InputVerification`, `V2Node`, `MigrationReview`, `SourceIngestion`, `ReplayWindow`, `RateLimit`: none, and no liveness is
  claimed (nobody is obliged to mine, judge or import; a call that verifies inputs waits for its own
  threads alone).
* `KeyReservations`: weak fairness of `Lapse` only, because time passes. Signing processes may
  stall for ever and the operator may not come; `WalletFreesItself` then says that a key
  whose leaf is taken when it is reserved is available again and again.
* `HttpServer`: weak fairness of the acceptor and of each handler thread, which the
  operating system schedules, `ReadFails` among them: `settimeout` ends every read. Nothing makes
  a client connect or send. The routes end, as their store calls have timeouts.
* `PeerSync`: weak fairness of a node's rounds. A round is a route's call (`api_post_routes.py:80`), so the
  property supposes an operator who asks for rounds again and again; requests may fail
  `MaxFaults` times without cause, and always at a peer that is not there. Mining and gossip are not
  fair. `SyncConverges` is stated for one miner: with two it is false (hazard at `service.py:376`).
* `PeerSessions`: handlers go on, and the property supposes that someone starts calls again and again. Replies may be lost, and time need not
  pass. `SessionsKeepBeingServed` (`KeepsBeingServed` of this part) is conditional: where admission holds infinitely often.

## 4. The proofs

Eight modules hold theorems. They hold for all values of the constants that satisfy the modules' named
assumptions, which TLC evaluates in the runs: shapes of data for the most part (`LedgerAssumption`,
`ChainNodeAssumption`, `V2NodeAssumption`, ...), and, where amounts are added up, that they are whole
numbers and finitely many (`AmountsAssumption`, `SubsidyAssumption`, `TransferAssumption`: a payload is
finite, and Python's integers have no width). Some theorems suppose more, in their ASSUME:

| theorem | supposes | what shows that it is needed |
|---|---|---|
| `LeavesApart` | no thread outlasts its own reservation (`~MayStall`) | `identity_stall` |
| `VerificationDecides` | two processors or more on every node (`ManyProcessors`) | `one_processor` |
| `Verdicts`, `Freeze` | one thread judges (`OneJudge`) | `verdict_race` |
| `RefusalsAreRight` | no handler stalls for longer than the retention of nonces | a handler may insert its row so late that it is due for another, which has pruned already |
| `SessionsAreHeld` | no handler outlives the call it answers (`~LateWorkers`), node ids differ | a handshake whose caller gave up ends the sessions of the next one when its handler goes on |
| `PendingStaysConsistent` | one request at a time (`OneHandler`) | two `Threads` in `one_handler` |
| `ForkChoiceRefined`, `HeadStaysBest` | `OneHandler`, no crashes | `fork_choice_race`; `Crashes = TRUE` |
| `MinedFromPending` | `LocalOnly`: one handler, no blocks of peers, no reviews, no last height for claims; crashes are allowed | section 5 |
| `NoFalseAlarms` | genesis blocks are the node's own (`~PeerGenesis`) | a peer's genesis passes `validate_block` without the caps (section 5) |

### Induction over data

The library's induction theorems take an operator, which no installed prover can instantiate.
`FiniteSums` states them for sets instead: `T` is the set of the numbers (or subsets) with the property,
and if it has the first and with each the next, it has all (`InductionOnNat`, `InductionOnSubsets`).
Both follow from the well-foundedness of strict inclusion of finite sets, which the library states
without an operator. A recursive function is a CHOOSE; one lemma shows by this induction that its
equation has a solution, and from then on the equation may be used (`SumExists`, `ClimbExists`,
`IsWalk`, `IsRun`, `IsPlanning`). On this rest sums over finite sets (`SumTakeOut`, `SumUnion`,
`SumShifted`, `SumRenamed`, `SumMonotonic`, ...) and all that is said below of amounts, branches,
schedules, plans and trees.

### Chain node

*Any number of threads, any transactions, any crashes.* `Typing`, `Indexes`, `Branches`,
`NoDoubleClaim`, `ChecksHold`, all from `Invariant`, that is `Spec => []IInv`. None of the safety
properties is inductive alone. When a handler stores a block, `ClaimedOncePerBranch` needs that the
block's claims were fresh when it was validated *and still are*: `JobFits` carries this from validation
to the store, and holds because a row never changes and a branch's claims are a function of its rows
(`ChecksStillHold`, which is proved and, like `OneBlockPerHeight`, not among the properties of a run).
`ClaimsCovered` links the set of claimed sources kept with a row to the claims of its ancestors.
`OneBlockPerHeight` needs that the parent of a block to be stored is stored. `IndexesMatchHead` needs
that a hash in `apply` is stored.

*What a branch is.* `SoundInv` adds that every row is the row of a block which is valid on its parent's
row, and so is every block about to be stored (`RowsSound`, `JobsSound`; `SoundOn` is what
`validate_block` established). With it the blocks table is a forest of valid blocks, and what follows is
proved along a branch from its root up, by induction over heights:

* `SpendsAreMature` (`SpendsMature`): `OriginsRight` says that the origin in a view is that of the
  highest block of the branch that contains the transaction (`Maker`), which an id that occurs twice
  makes more than a restatement.
* `SupplyAlwaysReconciles` (`SupplyReconciles`): `SupplyIs` says of each row that its unspent outputs
  are worth the genesis allocation, the subsidies up to its height and the conversions of the sources
  claimed on it. That needs that a valid block consumes an outpoint once, and pays it again only when it
  is gone.
* `RowsAreReplays` (`RowsReplay`): the closed form of a view is the replay of the branch one transaction
  at a time.

*One request at a time.* `PendingStaysConsistent` (`PendingConsistent`) needs `SubmitFits`: what a
submission has read is still what the tables say, as no other handler runs. A block that is applied
deletes all transactions of the new path from the mempool, so only an id that the branch pays twice is
left, which the property names. `ForkChoiceRefined` (`ImplementsBestChain`) is a refinement, step by
step: `StoreBlock` stutters, `SelectBestChain` decides or leaves the decision to `ApplyBestChain`;
`ForkChoiceInv` says that the head is the best block dealt with and that a handler in `apply` has a
better one. `HeadStaysBest` is what a caller sees between requests.

*Answers.* `QuotesAreHonoured` (`QuotedIsAdmitted`) and `SelectionsSpend` (`SelectionSpends`) follow
from `SoundInv` alone: the tables are those of the head, so an answer computed from them and the
admission compute the same; what is left is the arithmetic of heights. `BatchesMine`
(`PlannedBatchMines`): `PlanFits` says by induction over the sources that a plan names each source once,
each claimable, and together within the pool. `CandidateMines`, a lemma on its own, says which blocks a
node can mine: transactions that are new on the branch, do not conflict, and are each valid at the head,
with exact transfers and room in the caps. `MinedFromPending` (`MiningSucceeds`) shows that a mempool is
such a candidate: `LocalInv` has `PendingMineable` (what is pending is valid at the head and not on its
branch), which a new head preserves because it contains only pending transactions that conflict with no
other, and a new reward; that a transaction which is valid at the head is not already on its branch
needs `OncePerBranch`. `NoFalseAlarms` (`AlarmsExplained`): `ReportInv` relates what a report has read
so far to the head it read first, unless another head was applied since (`moved`); `RootsWithin` is
where the node's own genesis is needed.

### Signing and verifying

**Reservations** (any number of processes, leaves and reservations): `NoLeafTwice`, `Recoverable`,
`KeyAdvances` from `Invariant`. The strengthening says which row a process at each place of
`sign_for_address` owns (`OwnRow`), that a pending row's leaf is at or beyond every completed one
(`PendingLeaf`, `CompletedLeaves`), and that only the last row can block (`BlockingIsLatest`, with
`BranchFits`).

**Node identity** (any threads and processes): `LeavesApart` (`OneEnvelopePerLeaf`). `IdentityInv` says
that threads at work have rows of their own (`RowsApart`), that the row of a thread which has not yet
written back is still pending (`ActivePending`, which is where the supposition enters), hence that at
most one thread is between `Assign` and `WriteBack`; so the shared attribute is what that thread made of
it (`KeypairFits`), and what left the node is below the stored key and every pending leaf
(`ReleasedPast`).

**Merkle signatures** (any height, digests, tokens): `Unforgeable` (`NothingUnsigned`). `MerkleInv`: the
pair in memory covers every signature made or published, and the stored pair every published one (the
next index is past each leaf, and no open reservation names it), so that a leaf is signed with once,
over reloads of older states. `OneReading` (`OneIndexPerSignature`): a node of the tree at level k is
the sequence of the 2^k leaves below it (`Span`), so the walk with a leaf's own path gives the spans at
its positions (`OwnPathProves`), and two nodes that are equal are the same node; a walk with any other
index or path differs from the root at some level (`OthersFail`), also for an index past the leaves,
which `_root_from_auth_path` does not refuse. Powers of two are sizes of sets of subsets (`FS_SUBSET`),
as the library has no arithmetic of exponents.

**Input verification** (any transfers, providers, threads): `VerificationDecides` (`AnswerRight`: the
verdict, `VerdictRight`, and the input a refusal names, `FirstFailureNamed`). `VerificationInv` says
what each stage has established: no unusable input after `Precheck`, addresses compared before the
extension starts, and in either pool the failures among the finished inputs are exactly the recorded
ones. `Reply` is proved once for all answers (`ReplyKeeps`).

**Peer sessions** (any nodes, ids, handler threads, losses, times): `SessionsAreHeld`
(`HeldSessionWorks`). The property speaks of a caller that its peer does not call, and has no premise
that nothing is under way between them. `HeldInv`: a handler answers a call that waits for it, and is the
only one (`HandlersAwaited`); a session id ties one pair of nodes, whether a row, a call or a handler
holds it (`OnePair`), so that the store of one session never overwrites another's row; each row that the
caller could use, and each acknowledgement it has in hand, has its row at the peer, which expires no
sooner (`RowsFit`, with `Gives`). A handshake ends the peer's rows of the caller, so `RowsFit` also
needs that a caller shakes hands only when it has no usable row itself. The steps of a handler are proved
once (`HandlerStep`, `EndingStep`), and what a node has of its peer once for all steps (`RowsStay`).

### V2 network

*Any nodes, any set of blocks.* `BestTip` (`TipIsBest`) and `Persistent` (`Durable`) follow from
`Invariant`, which says of each node separately that its tip is the best row, and that where memory and
disk differ its thread has the difference in hand: the block to be written, or the rows still to be
replayed. A lemma (`Update`) reduces each action to the node that takes it, and another (`BetterMemory`)
does the arithmetic of fork choice.

What relates several nodes follows from one record of all blocks ever accepted anywhere, with their rows
(`OneHistory`: `\E K : History(K)`). Rows are a function of the parent's row (`Rooted`), so every node's
memory is a part of K; a table keeps the parent of each row, unless its disk is flaky (`Closed`); and
the blocks a sync still has in hand are a chain of K on top of the node's memory (`Chain`). From it:
`SameStates` (`StatesAgree`), `Restartable` (`RestartSucceeds`: the lowest row left to replay has its
parent in memory, and K accepted it, so the node does), `Catches` (`SyncCatchesUp`, with the walk of
`canonical_blocks` along the links, `IsWalk`), and `FeesAreBurned` (`FeesBurned`), by induction along
the transactions of a block and then along the heights of K: coins and fees of a row add up to the
supply (`Accounted`).

**The Go engine** (any blocks, transfers, limits and order of the list, parents first): `CheckerIsRight`
(`CheckerAgrees`), from `EnginesAgree`, which says it of every state and not only after a replay, which
is where TLC looks. By induction along the list the engine mirrors a growing part of the node's memory, as long
as all blocks of that part are in its limits (`Mirrors`, `Answers`); for one block, by induction along its
transactions, its loop holds the coins and ids of `StatesOf` while they are few enough (`LoopAgrees`); for one
transfer, each other check of the engine is one of the node's (`TransferAgrees`). The sums are the point: the engine
adds up inputs and outputs in a row and gives up when a sum leaves int64, the node compares the values of sets of
outpoints. Inputs are distinct, so the sums are the same; the coins of a branch never exceed the supply (`Accounted`
again), so none overflows that Python, without a width, would have let through. That needs `MaxSupply <= MaxInt64`
and amounts above zero (`GoConformanceAssumption`), which `validateFixedProfile` and the schema
(`protocol_v2.py:163`) make sure of. The theorem says how far the two agree, not that they have the same rules:
`engine_limits` shows a chain on which they do not.

### Other parts of a node

**Replay window** (any skew, threads, peers, capacity, and any time a handler takes): `Replay`
(`NoReplay`). `ReplayInv` says that a request which was let through is either still in the table, or the
timestamp check refused it so long ago that only a handler slower than the margin can still have it in hand
(`KnownOrLate`, with `HandlersInTime` and `RowsInTime`); the second that the retention has beyond twice the skew is
what the arithmetic of whole and half seconds and the margin use up, and none is left (`Margin == 2` fails).
`Capacity` needs only finiteness. `RefusalsAreRight` (`RefusedOnlyWhenFull`): rows that
another handler inserts after the prune are younger than what was pruned (`FreshRows`), so what fills
the window at a refusal was marked within the retention.

**Rate limit** (any clients, limit, table): `TwoWindows` (`AtMostTwoWindows`), `TableStaysBounded`.
`LimitKept` splits what was let through where the client's window starts: at most a limit since, and at
most a limit in the part of a minute before; a client whose window the bounded table dropped is the
exception the property names.

**Source ingestion** (any exports, signers, desks): `ApprovedIsImported` (`ImportedAsApproved`),
`BatchesImport` (`BatchImports`), `NoopsKeep` (`SafeNoopKeeps`). `IngestionInv` follows an approval from
the artifact to the import that names it: its bundle has the entries of the approved manifest's records
(`ApprovalsRight`), a desk imports that bundle (`DesksRight`), and the snapshot keeps it (`UnderRight`).

**Emission** (any policy, any height): `ScheduleKept` (`IssuedMatchesSchedule`), by `ClosedFormIsSum`:
the segment-wise closed form grows by the subsidy of the next block, at a halving, past the last one and
at the cap.

**HTTP server**: `Slots` (`SlotsConserved`). Conservation is inductive with the fact that the queue
holds each waiting connection once (`QueueOK`): otherwise one connection could take two slots.

**Migration review** (any threads, sources, disputes): `Imports` (`ImportedWhole`) and `Stubs` rest on
`StubFirst`: a seed in its second step has its snapshot. For `Verdicts` and `Freeze` (`FraudFreezes`),
what the one judge is about to write is not over a verdict of fraud (`PendingOnOpen`), verdicts stand
(`VerdictsStand`), and a block that spends looks at the disputes again.

### Left to TLC

Liveness (`WalletFreesItself`, `EveryConnectionEnds`, `SyncConverges`, `SessionsKeepBeingServed`):
fairness and ENABLED are beyond the proof system used. Every invariant and every action property of
the passing runs is the statement of a theorem.

No module declares a RECURSIVE operator.

## 5. Disagreements found

Each has a run that finds the counterexample, and an entry under `findings` with
the quoted text.

1. `fork_choice_race` — `_select_best_chain` (`service.py:5425`) reads the head and
   applies in two connections, and `apply_best_chain` compares nothing. In the trace two handlers import two
   children, 2 and 3, of the head 1, and both decide for theirs while the head is still 1; 3, which wins the tie, is
   applied, and then 2 is, and stays the head until another block arrives. The handlers of this run import blocks of
   peers only (`ServesImports`), so no step of `create_genesis_block` or of mining takes part.
2. `verdict_race` — `resolve_migration_dispute` checks that the dispute is open in one
   connection and writes in another without that condition. Of two handlers the later verdict
   replaces the earlier one, also "fraud" by "valid", and the claimed output is spent.
3. `identity_stall` — a handler thread that is delayed for more than the reservation's 60 seconds
   between the reservation and `self._keypair = …` (`auth.py:112`) puts an older state over that of the thread which
   reserved next; that thread stores it, and a leaf is used again. The window is
   wide, so this needs a suspended process; within it the protocol is right, and proved.
4. `one_processor` — on a machine where `os.cpu_count()` is 1, `verify_transaction_inputs` takes the
   branch for a single input (`verification.py:206`) for any number of inputs and returns the verdict on
   the first. Such a node disagrees with all others about transfers with several inputs, of which a later one
   does not verify; `protocol.md:166` requires every one. With two processors it is right, and proved.
5. `engine_limits` — the Go engine refuses more than 100000 coins after each transfer
   (`protocol_v2_consensus.go:472`), the Python node after a whole block (`protocol_v2_consensus.py:287`). A block
   whose first transfer splits a coin and whose second joins the parts passes the node, and `consensuscheck` fails on
   its chain; `QBC_PROTOCOL_V2_CROSS_RUNTIME_CONSENSUS.md` says that both have the same rules. (The engine's
   check that work stays in uint64, `go:240`, is the other rule of its own, out of reach in practice.)

Seen in the models, without a run of their own:

* `service.py:251`: `validate_block` does not require that a reward's id is new on its branch, so a block may
  repeat an ancestor's reward once that is spent; two payments then share one outpoint, and the check
  `canonical_transaction_ids_unique` of `security_invariant_report` fails from then on
  (`"transaction_ids_unique"` of `AlarmsExplained`, with `reap` in `Submittable`). The same repetition puts a
  pending transaction on the chain a second time before it is spent, so `PendingConsistent` speaks of
  transactions that the chain has *and* that cannot be spent again; as first stated, without the second part, it
  is false.
* `service.py:2812`: a report that reads while a head is applied may say that the outputs do not match;
  repeated, it passes (`AlarmsExplained`).
* `verification.py:83`: signatures of the native test provider verify only on nodes that run it in the mode
  they were made in.
* `service.py:5376`: a transfer worth less than its inputs minus its fee passes admission and
  `_validate_transaction_against_view` (`protocol.md:292` has "<="); every block with it fails the
  supply invariant, and mining stops. (`slack` in `local_mining`; `MiningSucceeds` without its condition that
  transfers are exact.)
* `service.py:5771`: claims are admitted one by one against what remains of the pool and of the epoch, and
  may exceed it together; a block takes them all, so mining stops until one is gone, and nothing evicts it.
  (`c1` and `d1` in `local_mining`.) Likewise a claim that is pending when the claim window closes.
* `service.py:850`: a source whose balance converts to nothing is quoted as claimable, and its claim is
  refused.
* `service.py:162`: after emission ends a block without fees has a reward of zero, which validation refuses: an
  idle chain does not advance (nobody promises that it does).
* `service.py:213`: the genesis branch of `validate_block` returns before the caps are checked;
  `create_genesis_block` checks them on its own.
* `signer.py:139`: with a provider that reserves nothing, `sign_for_address` returns the signature without
  completing the reservation row.
* A crash between `store_block` and `apply_best_chain` leaves a better block stored than the head, and offering
  it again is refused (`Crashes = TRUE` in `one_handler.cfg`, `HeadIsBest`). Two handlers may admit two spends of one
  output (two `Threads`, `PendingConsistent`).
* A v2 node whose write failed keeps the block in memory, writes its children, and then does not start
  again (`RestartSucceeds` for a node in `FlakyDisk`).
* `service.py:1003`: the quote takes the migration epoch of one block too far, and so differs from
  admission at the last height of an epoch; the batch plan does too, and compares the epoch's room with each
  claim alone (`service.py:1537`), so a planned batch may fail there.
* `service.py:1322`: an expiry that read its disputes before a verdict of fraud releases the source
  after it; the source is active again, although its outputs stay frozen.
* `service.py:376`: after a fork a sync asks for blocks whose parents it does not have, and fails until gossip
  or a direct import fills the gap; `service.py:486`: a peer that fails ends the round for those behind it.
* `service.py:563` and `service.py:5576`: a handshake ends all sessions with the peer on both sides, also
  those that the peer was given by its own handshake. Two nodes that call each other and shake hands at
  the same time each end the session the other has just got, and both are refused until the sessions
  expire (`peer_session_ttl_seconds`, 900). `HeldSessionWorks`, as first stated for all peers, is false
  for such a pair; it is proved for a peer that does not call back.
* `service.py:5662`: a handler that takes a second or more from the timestamp check to the mark of the nonce may
  let a request at the edge of the skew through a second time; `NoReplay` names it as the exception.
* `source_ingestion.py:357`: a manifest is compared with records and with the bundle, but records and
  bundle are not compared with each other; `ImportedAsApproved` holds because
  only `normalize_source_export` computes manifests.

## 6. What is not modelled

* **Chain node**: header checks, timestamps (but for the order of the mempool),
  size limits, state roots, claim windows in a run; maintenance and backups.
* **Signing reservations, identity**: custody encryption, several keys, `create_address`,
  import and export, the creation of an identity (two processes at a first start make two).
* **Merkle signatures**: hash functions and seeds; the tree is rebuilt from them in the code.
* **V2 network**: manifest validation, handshakes that disagree, nodes without a
  database, encodings and object structure (`parse_canonical_v2`,
  `validate_block_header_v2`). The Go checker likewise.
* **Peers**: scores and bans, which are reported and decide nothing modelled here; allowlists, payload
  bindings, gossip of transactions.
* **Migration**: attestations, multisig notes, governance documents (their quorum counts approvals of any artifact
  together); evidence is a flag. Merkle roots of entries, export formats.
* **HTTP**: parsing and the routes, one step each; TLS handshakes are reads.
* **Reports** but for the integrity report: state roots, disputes and reservations in it likewise.
* **Encodings, custody, other providers, configuration, CLI, chaos harness**: pure functions, parsing,
  I/O, drivers of other components, or external libraries; a model would say no more
  than the code does.

## 7. Plan

1. *Done*: all modules above, their runs, and the proofs of section 4.
2. `PeerSessions` with late handlers, or with two nodes that call each other, where a session held by a
   caller may be dropped at its peer: how long it takes to recover (`KeepsBeingServed`).
3. `PeerSync` with two miners under gossip that is not lost: under which schedule nodes agree.
4. A two-node composition of `ChainNode` and `MigrationReview`, for reviews that differ between nodes.
5. Proofs: `FetchedFits` of `PeerSync` for one miner; the type invariants of the modules without proofs.
