---------------------------- MODULE MCBlobStore -----------------------------
(* Small instances of BlobStore for TLC.                                   *)
EXTENDS BlobStore, TLC

CONSTANTS a1

\* All documents belong to one account.
MCAccountOf == [d \in Docs |-> a1]

\* Hashes, documents, writers and purges are interchangeable.
Interchangeable ==
    Permutations(Hashes) \cup Permutations(Docs) \cup Permutations(Writers) \cup Permutations(Purgers)
=============================================================================
