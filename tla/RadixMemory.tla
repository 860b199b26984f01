---------------------------- MODULE RadixMemory ----------------------------
(***************************************************************************)
(* The methods of Memory (rvgo/fast), called in any order.  One memory is  *)
(* used by one goroutine, so every method is one step.                     *)
(***************************************************************************)
EXTENDS Memory

VARIABLE mem

Init == mem = NewMemory

Set == \E addr \in Accesses, dat \in Dat : mem' = SetUnaligned(mem, addr, dat)

Get == \E addr \in Accesses, n \in 1..LeafBytes : mem' = GetUnaligned(mem, addr, n)

Merkle == mem' = MerkleRoot(mem)

Prove == \E addr \in Accesses : mem' = MerkleProof(mem, addr.leaf)

\* A snapshot is written and a new process reads it.
Reload == mem' = Deserialize(Serialize(mem))

Next == Set \/ Get \/ Merkle \/ Prove \/ Reload

Spec == Init /\ [][Next]_mem

-----------------------------------------------------------------------------
(* Properties.                                                             *)

\* The caches can be trusted.  The two-entry lookup cache, which pageLookup uses
\* without a look at the map, only ever names pages that are allocated; and a page
\* whose root is valid is valid all through, so MerkleRoot and MerkleizeSubtree
\* may return any slot of it.  The fields have their types.
CachesSound == IsMemory(mem) /\ KeysAllocated(mem) /\ RootCovers(mem)

\* The child pointers and HashExists bits are those above the allocated pages:
\* no page is out of reach of a walk down the trie, and a node that reads as a
\* zero hash has no page below it.
TrieSpansPages == SpansPages(mem)

\* "If the page was already invalid, the nodes up to the root are also invalid":
\* the claim the early return of Invalidate rests on.
InvalidUpToRoot == PathInvalid(mem)

\* Every valid hash of the trie is the hash of what the two nodes below it
\* merkleize to now: no sequence of writes, proofs and partial merkleizations
\* leaves a trie node that ignores a change below it.
TrieCoherent ==
    LET hash == MerkleizeNode(mem)
    IN  \A n \in DOMAIN mem.Hashes :
            mem.Hashes[n] = HashPair(hash[Append(n, 0)], hash[Append(n, 1)])

Flat == INSTANCE FlatMemory WITH ram <- Contents(mem)

\* Whatever pages, caches and snapshots do, the memory is one flat array of
\* zero-initialised bytes: a write changes its own bytes, no other step any.
\* SetUnaligned moreover writes all of its bytes, in order, across the ends of
\* leaves and pages and around the end of memory; FlatMemory alone would let it
\* write fewer.
RefinesFlat ==
    /\ Flat!Spec
    /\ [][\A addr \in Accesses, dat \in Dat :
             mem' = SetUnaligned(mem, addr, dat) => Flat!Write(addr, dat)]_mem

\* GetUnaligned reads the bytes that were written, and zeroes in pages that are
\* not allocated, whatever its lookup cache holds.
ReadsFlat ==
    \A addr \in Accesses, n \in 1..LeafBytes : GetResult(mem, addr, n) = Flat!Read(addr, n)

\* Reads, merkleizations and proofs only fill caches: none of them changes what
\* MerkleRoot returns, whatever the caches held before.
CachingIsPure ==
    [][Get \/ Merkle \/ Prove => RootHash(mem') = RootHash(mem)]_mem

=============================================================================
