------------------------------ MODULE PeerSync ------------------------------
(***************************************************************************)
(* Nodes that fetch blocks from each other by height (sync_with_peers,     *)
(* sync_with_peer, authenticated_chain_summary, authenticated_blocks of    *)
(* service.py) while they mine and receive gossip.  An import is one step  *)
(* here: what happens inside it is ChainNode's subject, and admission and  *)
(* sessions, which come before any request, PeerSessions'.                 *)
(*                                                                         *)
(* Block is every block that will ever be found; all are valid.  Blocks    *)
(* are numbered by hash, so that of two heads of one height the greater    *)
(* number wins.                                                            *)
(***************************************************************************)
EXTENDS Integers, Sequences, FiniteSets

CONSTANTS
    Node,
    Peers,          \* Peers[n]: list_peers, in the order it sorts them
    Block, Genesis, \* blocks, numbered by hash; all nodes have Genesis
    Parent, Height, \* links and heights of the blocks but Genesis
    FoundBy,        \* the node that may mine a block
    MaxBatch,       \* max_peer_blocks_per_request
    Silent,         \* nodes that cannot be reached
    MaxFaults       \* bound: requests that fail without cause in a behaviour

ASSUME PeerSyncAssumption ==
    /\ Block \subseteq Nat /\ IsFiniteSet(Block) /\ Genesis \in Nat \ Block
    /\ Peers \in [Node -> Seq(Node)] /\ Silent \subseteq Node
    /\ Parent \in [Block -> Block \cup {Genesis}]
    /\ Height \in [Block \cup {Genesis} -> Nat] /\ Height[Genesis] = 0
    /\ \A b \in Block : Height[b] = Height[Parent[b]] + 1
    /\ FoundBy \in [Block -> Node]
    /\ MaxBatch \in Nat \ {0} /\ MaxFaults \in Nat

VARIABLES
    stored,     \* stored[n]: the blocks of n
    head,       \* head[n]: its canonical head
    sync,       \* sync[n]: the round n is in
    faults      \* requests that failed without cause

syncVars == <<stored, head, sync, faults>>

Resting == [at |-> "idle"]

SyncTypeOK ==
    /\ stored \in [Node -> SUBSET (Block \cup {Genesis})]
    /\ head \in [Node -> Block \cup {Genesis}]
    /\ faults \in 0..MaxFaults
    /\ \A n \in Node :
          \/ sync[n] = Resting
          \/ sync[n] \in [at : {"summary"}, todo : Seq(Node)]
          \/ sync[n] \in [at : {"compare"}, todo : Seq(Node), remote : Nat]
          \/ sync[n] \in [at : {"fetch"}, todo : Seq(Node), remote : Nat, from : Nat]
          \/ sync[n] \in [at : {"import"}, todo : Seq(Node), remote : Nat, from : Nat,
                          queue : Seq(Block \cup {Genesis})]

SyncInit ==
    /\ stored = [n \in Node |-> {Genesis}]
    /\ head = [n \in Node |-> Genesis]
    /\ sync = [n \in Node |-> Resting]
    /\ faults = 0

-----------------------------------------------------------------------------
BlockCount(n) == Height[head[n]] + 1

\* The ancestor of b at height h.
AncestorAt(b, h) ==
    LET up[i \in h..Height[b]] == IF i = Height[b] THEN b ELSE Parent[up[i + 1]]
    IN  up[h]

SmallerOf(i, j) == IF i <= j THEN i ELSE j

\* A slip for the mutants: the block at the asked height is left out.
CanonicalAbove(n, from) ==
    LET last == SmallerOf(Height[head[n]], from + MaxBatch)
    IN  [i \in 1..(last - from) |-> AncestorAt(head[n], from + i)]

\* blocks_from_height, cut by authenticated_blocks.
CanonicalFrom(n, from) ==
    LET last == SmallerOf(Height[head[n]], from + MaxBatch - 1)
    IN  [i \in 1..(last - from + 1) |-> AncestorAt(head[n], from + i - 1)]

Better(b, c) == Height[b] > Height[c] \/ (Height[b] = Height[c] /\ b > c)

\* validate_block: a new block whose parent is stored.
Importable(n, b) == b \notin stored[n] /\ b # Genesis /\ Parent[b] \in stored[n]

\* import_block: the block is stored, and the head when it is better.
Import(n, b) ==
    /\ stored' = [stored EXCEPT ![n] = @ \cup {b}]
    /\ head' = IF Better(b, head[n]) THEN [head EXCEPT ![n] = b] ELSE head

-----------------------------------------------------------------------------
Mine(b) ==
    LET n == FoundBy[b]
    IN  /\ head[n] = Parent[b] /\ b \notin stored[n]
        /\ Import(n, b)
        /\ UNCHANGED <<sync, faults>>

\* receive_authenticated_block_gossip: some node sends a block it has, any number of times.
\* One that does not fit is refused, and held against its sender.
Gossip(n, m, b) ==
    /\ {n, m} \cap Silent = {} /\ b \in stored[m] /\ Importable(n, b)
    /\ Import(n, b)
    /\ UNCHANGED <<sync, faults>>

SyncTo(n, j) == sync' = [sync EXCEPT ![n] = j]
Peer(n) == Head(sync[n].todo)

\* The round goes on with the next peer, or ends.
NextPeer(n) ==
    LET rest == Tail(sync[n].todo)
    IN  SyncTo(n, IF rest = <<>> THEN Resting ELSE [at |-> "summary", todo |-> rest])

\* sync_with_peers
StartRound(n) ==
    /\ sync[n] = Resting /\ Peers[n] # <<>>
    /\ SyncTo(n, [at |-> "summary", todo |-> Peers[n]])
    /\ UNCHANGED <<stored, head, faults>>

\* The peer reports its height.
Summary(n) ==
    /\ sync[n].at = "summary" /\ Peer(n) \notin Silent
    /\ SyncTo(n, [at |-> "compare", todo |-> sync[n].todo, remote |-> BlockCount(Peer(n))])
    /\ UNCHANGED <<stored, head, faults>>

\* The local height is read after it.
Compare(n) ==
    LET j == sync[n]
    IN  /\ j.at = "compare"
        /\ IF j.remote > BlockCount(n)
           THEN SyncTo(n, [at |-> "fetch", todo |-> j.todo, remote |-> j.remote, from |-> BlockCount(n)])
           ELSE NextPeer(n)
        /\ UNCHANGED <<stored, head, faults>>

\* The peer answers with its canonical blocks from that height.
Fetch(n) ==
    LET j == sync[n]
    IN  /\ j.at = "fetch" /\ Peer(n) \notin Silent
        /\ SyncTo(n, [at |-> "import", todo |-> j.todo, remote |-> j.remote, from |-> j.from,
                      queue |-> CanonicalFrom(Peer(n), j.from)])
        /\ UNCHANGED <<stored, head, faults>>

\* They are imported one by one; the first that is refused ends the round.
ImportNext(n) ==
    LET j == sync[n]
    IN  /\ j.at = "import" /\ j.queue # <<>>
        /\ IF Importable(n, Head(j.queue))
           THEN Import(n, Head(j.queue)) /\ SyncTo(n, [j EXCEPT !.queue = Tail(@)])
           ELSE SyncTo(n, Resting) /\ UNCHANGED <<stored, head>>
        /\ UNCHANGED faults

Synced(n) ==
    /\ sync[n].at = "import" /\ sync[n].queue = <<>>
    /\ NextPeer(n)
    /\ UNCHANGED <<stored, head, faults>>

\* A request fails, and with it the round: the peers that follow are not asked.
RequestFails(n) ==
    /\ sync[n].at \in {"summary", "fetch"}
    /\ IF Peer(n) \in Silent THEN faults' = faults
                             ELSE faults < MaxFaults /\ faults' = faults + 1
    /\ SyncTo(n, Resting)
    /\ UNCHANGED <<stored, head>>

Round(n) ==
    \/ StartRound(n) \/ Summary(n) \/ Compare(n) \/ Fetch(n) \/ ImportNext(n) \/ Synced(n)

SyncNext ==
    \/ \E b \in Block : Mine(b)
    \/ \E n, m \in Node, b \in Block : Gossip(n, m, b)
    \/ \E n \in Node : Round(n) \/ RequestFails(n)

\* Rounds go on, and on every node an operator asks for a next one again and again.  Nobody
\* must mine, and gossip may be lost.
SyncFairness == \A n \in Node : WF_syncVars(Round(n) \/ RequestFails(n))

SyncSpec == SyncInit /\ [][SyncNext]_syncVars /\ SyncFairness

-----------------------------------------------------------------------------
Best == LET all == UNION {stored[n] : n \in Node}
        IN  CHOOSE b \in all : \A c \in all \ {b} : Better(b, c)

\* In the end every node that can be reached has the best block that any of them has.
Converges == <>[](\A n \in Node \ Silent : head[n] = Best)

\* While one node mines, the next block of a fetch is stored already or fits: no answer
\* leaves a gap, whatever is found or gossiped between the requests.
FetchedFits ==
    \A n \in Node :
        sync[n].at = "import" /\ sync[n].queue # <<>> =>
            LET b == Head(sync[n].queue) IN b \in stored[n] \/ Parent[b] \in stored[n]
=============================================================================
