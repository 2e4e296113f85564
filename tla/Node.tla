-------------------------------- MODULE Node --------------------------------
(***************************************************************************)
(* The page type of the block layer: Node of src/node.rs, its Materializer *)
(* (src/pagecache/materializer.rs) and calc_root (src/hasher.rs).  A Node  *)
(* is a header (prev page id, hash) and a body (key -> Entry).  The blake3 *)
(* root is represented by its input, i.e. assumed collision free.          *)
(***************************************************************************)
EXTENDS Sequences, SequencesExt

CONSTANTS
    Keys,       \* keys
    Values,     \* values
    Deletion,   \* Entry::Deletion
    NONE        \* Option::None / an absent map entry

Entries == Values \cup {Deletion}

EmptyMap == [k \in Keys |-> NONE]

(* Node::new(prev): the header of a block's page, no hash, empty body.     *)
NewNode(prev) == [prev |-> prev, hash |-> NONE, inner |-> EmptyMap]

(* Materializer for Node: keep the header, take the later hash, and extend *)
(* the map with the later fragment's entries.                              *)
Merge(acc, frag) ==
    [prev  |-> acc.prev,
     hash  |-> frag.hash,
     inner |-> [k \in Keys |-> IF frag.inner[k] # NONE THEN frag.inner[k]
                                                       ELSE acc.inner[k]]]

(* The page cache's get of a page: its anchor folded with its links in     *)
(* chain order.                                                            *)
MaterializeChain(chain) == FoldLeft(Merge, Head(chain), Tail(chain))

(* calc_root(prev, kvs): hashes the previous root and the Value entries;   *)
(* Deletion entries are filtered out before hashing.                       *)
CalcRoot(prevHash, inner) ==
    [prev |-> prevHash,
     kvs  |-> {<<k, inner[k]>> : k \in {x \in Keys : inner[x] \in Values}}]
=============================================================================
