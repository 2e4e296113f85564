----------------------------- MODULE PageChain -----------------------------
(***************************************************************************)
(* What a page's fragment chain promises (spec section 3 "Fragment chain", *)
(* section 4.4 and section 8 invariants 1 and 3): the chain is the         *)
(* sequence of fragments oldest first; a successful link appends one new   *)
(* fragment, a successful replace makes a one-element chain of its anchor, *)
(* and nothing else changes it.  Concurrent callers are invisible here:    *)
(* every successful compare-and-swap is one atomic step of this spec.      *)
(***************************************************************************)
EXTENDS Sequences, SequencesExt

CONSTANT Fragments      \* identities of fragments (stack nodes)

VARIABLE chain          \* the page's chain, oldest fragment first

Link(f) ==
    /\ f \notin ToSet(chain)
    /\ chain' = Append(chain, f)

Replace(f) ==
    chain' = <<f>>

Init == chain = <<>>

Next == \E f \in Fragments : Link(f) \/ Replace(f)

Spec == Init /\ [][Next]_chain
=============================================================================
