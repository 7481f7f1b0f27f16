--------------------------- MODULE MerkleSignatures ---------------------------
(***************************************************************************)
(* The signatures of the XMSS-style providers (crypto.py and               *)
(* qr_chain_xmss_backend/reference_backend.py): one-time Lamport keys      *)
(* (lamport.py) under a Merkle tree, and the key pair of the reference     *)
(* backend with the tokens of its reservations.                            *)
(*                                                                         *)
(* Hashes are free: a secret is named by its leaf, row and side, and is    *)
(* its own hash; the hash of a node is the sequence of the leaves below    *)
(* it, which tells any two nodes at one height apart.                      *)
(***************************************************************************)
EXTENDS Integers, Sequences, FiniteSets

CONSTANTS
    Height,         \* of the tree
    HashBits,       \* HASH_BITS
    Signed,         \* bound: the digests that callers ask signatures for
    MaxTokens       \* bound: tokens drawn in a behaviour

Digests == [1..HashBits -> {0, 1}]

ASSUME MerkleAssumption ==
    /\ Height \in Nat \ {0} /\ HashBits \in Nat \ {0} /\ MaxTokens \in Nat
    /\ Signed \subseteq Digests

-----------------------------------------------------------------------------
(* Lamport signatures. *)

LeafCount == 2 ^ Height
Leaf == 0..(LeafCount - 1)

\* LamportKeyPair.sign: of each row the secret on the side of the digest's bit.
LamportSign(leaf, digest) == [i \in 1..HashBits |-> <<leaf, i, digest[i]>>]

\* verify_signature, for the public key of a leaf.
LamportVerify(digest, signature, leaf) ==
    /\ Len(signature) = HashBits
    /\ \A i \in 1..HashBits : signature[i] = <<leaf, i, digest[i]>>

-----------------------------------------------------------------------------
(* The tree.  Indexes count from zero, as in the code. *)

LeafHash(leaf) == <<leaf>>
MerkleParent(left, right) == left \o right

\* _build_merkle_tree: the hashes at each height above the leaves.
Levels ==
    LET level[k \in 0..Height] ==
          [j \in 0..(2 ^ (Height - k) - 1) |->
              IF k = 0 THEN LeafHash(j)
              ELSE MerkleParent(level[k - 1][2 * j], level[k - 1][2 * j + 1])]
    IN  level

Root == Levels[Height][0]

\* position ^ 1
Sibling(position) == IF position % 2 = 0 THEN position + 1 ELSE position - 1

AuthPath(leaf) == [k \in 1..Height |-> Levels[k - 1][Sibling(leaf \div 2 ^ (k - 1))]]

\* _root_from_auth_path
RootFromAuthPath(leafHash, index, path) ==
    LET up[k \in 0..Len(path)] ==
          IF k = 0 THEN leafHash
          ELSE IF (index \div 2 ^ (k - 1)) % 2 = 0 THEN MerkleParent(up[k - 1], path[k])
               ELSE MerkleParent(path[k], up[k - 1])
    IN  up[Len(path)]

\* A slip for the mutants: only the bits of the index that the path uses are looked at.
VerifyLowBits(digest, s, height, root) ==
    /\ s.leaf_index >= 0
    /\ Len(s.auth_path) = height
    /\ LamportVerify(digest, s.lamport_signature, s.leaf_public_key)
    /\ RootFromAuthPath(LeafHash(s.leaf_public_key), s.leaf_index, s.auth_path) = root

Verify(digest, s, height, root) ==
    /\ s.leaf_index >= 0 /\ s.leaf_index < 2 ^ height
    /\ Len(s.auth_path) = height
    /\ LamportVerify(digest, s.lamport_signature, s.leaf_public_key)
    /\ RootFromAuthPath(LeafHash(s.leaf_public_key), s.leaf_index, s.auth_path) = root

-----------------------------------------------------------------------------
(* A key pair in memory, and its serialized state in a store. *)

VARIABLES
    pair,       \* next_index, reservations and consumed_reservations in memory
    stored,     \* the serialized key pair that a restart loads
    drawn,      \* tokens drawn so far
    made,       \* signatures made since the key pair was last stored
    published   \* signatures that left the process, with their digests

merkleVars == <<pair, stored, drawn, made, published>>

Token == 1..MaxTokens
PairState == [next_index : 0..LeafCount, reservations : SUBSET (Token \X Leaf),
              consumed : SUBSET Token]
Signature == [leaf_index : Leaf, leaf_public_key : Leaf,
              lamport_signature : [1..HashBits -> Leaf \X (1..HashBits) \X {0, 1}],
              auth_path : [1..Height -> Seq(Leaf)]]

MerkleTypeOK ==
    /\ pair \in PairState /\ stored \in PairState
    /\ drawn \in 0..MaxTokens
    /\ \A p \in made \cup published : p[1] \in Signed /\ p[2] \in Signature

\* generate_keypair; the new key pair is saved before it is used.
GenerateKeypair == [next_index |-> 0, reservations |-> {}, consumed |-> {}]

MerkleInit ==
    /\ pair = GenerateKeypair /\ stored = GenerateKeypair
    /\ drawn = 0
    /\ made = {} /\ published = {}

\* reserve_signing_material; tokens are never drawn twice.
ReserveToken ==
    /\ pair.next_index < LeafCount /\ drawn < MaxTokens
    /\ drawn' = drawn + 1
    /\ pair' = [pair EXCEPT !.next_index = @ + 1,
                            !.reservations = @ \cup {<<drawn + 1, pair.next_index>>}]
    /\ UNCHANGED <<stored, made, published>>

SignatureOf(leaf, digest) ==
    [leaf_index |-> leaf, leaf_public_key |-> leaf,
     lamport_signature |-> LamportSign(leaf, digest), auth_path |-> AuthPath(leaf)]

\* A slip for the mutants: the token is left in the reservations.
SignAgain(token, leaf, digest) ==
    /\ <<token, leaf>> \in pair.reservations /\ token \notin pair.consumed
    /\ made' = made \cup {<<digest, SignatureOf(leaf, digest)>>}
    /\ UNCHANGED <<pair, stored, drawn, published>>

\* sign_with_reservation: callers present any token and leaf, as often as they like; the
\* token must be that of the leaf and is used up first.
SignWithReservation(token, leaf, digest) ==
    /\ <<token, leaf>> \in pair.reservations /\ token \notin pair.consumed
    /\ pair' = [pair EXCEPT !.reservations = @ \ {<<token, leaf>>},
                            !.consumed = @ \cup {token}]
    /\ made' = made \cup {<<digest, SignatureOf(leaf, digest)>>}
    /\ UNCHANGED <<stored, drawn, published>>

\* serialize_keypair into the store; signatures leave only after the state they used up is
\* stored (complete_wallet_key_reservation).
Store ==
    /\ stored' = pair
    /\ published' = published \cup made
    /\ made' = {}
    /\ UNCHANGED <<pair, drawn>>

\* The process dies, and deserialize_keypair loads what was stored.
Reload ==
    /\ pair' = stored
    /\ made' = {}
    /\ UNCHANGED <<stored, drawn, published>>

MerkleNext ==
    \/ ReserveToken
    \/ \E token \in Token, leaf \in Leaf, digest \in Signed : SignWithReservation(token, leaf, digest)
    \/ Store \/ Reload

MerkleSpec == MerkleInit /\ [][MerkleNext]_merkleVars

-----------------------------------------------------------------------------
\* The secrets that the published signatures of a leaf give away.
Revealed(leaf) ==
    UNION {{p[2].lamport_signature[i] : i \in 1..HashBits} :
               p \in {q \in published : q[2].leaf_public_key = leaf}}

\* Whatever can be put together from the secrets given away was signed: no leaf gives away
\* both sides of a row, through repeated and stale reservations, crashes and reloads.
NothingUnsigned ==
    \A leaf \in Leaf, digest \in Digests :
        (\A i \in 1..HashBits : <<leaf, i, digest[i]>> \in Revealed(leaf)) =>
            \E p \in published : p[1] = digest /\ p[2].leaf_public_key = leaf

\* A published signature verifies under its own index and path and no other: an index past
\* the leaves does not stand for one of them, nor one leaf for another.
OneIndexPerSignature ==
    \A p \in published : \A index \in -1..(2 * LeafCount), leaf \in Leaf, digest \in Digests :
        Verify(digest, [p[2] EXCEPT !.leaf_index = index, !.auth_path = AuthPath(leaf)], Height, Root)
            <=> index = p[2].leaf_index /\ leaf = p[2].leaf_index /\ digest = p[1]
===============================================================================
