----------------------------- MODULE ChainIndex -----------------------------
(***************************************************************************)
(* What a reader promises the users of its database: at any time the       *)
(* tables are the image of one branch of the chain, up to one of its       *)
(* blocks, and what an irreversible block did stays.                       *)
(*                                                                         *)
(* A block is named by its history, the sequence of the branch tags of all *)
(* blocks up to it: two blocks with the same name are the same block, a    *)
(* block's number is the length of its name, and its ancestors are the     *)
(* prefixes of its name.                                                   *)
(***************************************************************************)
EXTENDS Integers, Sequences

CONSTANTS
  StartBlock,   \* first block the reader processes
  EffectBlocks  \* numbers of the blocks that change the tables

VARIABLES
  final, \* the last irreversible block
  tip,   \* the block the tables belong to
  rows   \* blocks whose effects the tables contain

(* What applying the blocks up to b, once each, leaves in the tables.      *)
Effects(b) == {SubSeq(b, 1, n) : n \in {m \in StartBlock..Len(b) : m \in EffectBlocks}}

Init ==
  /\ tip = <<>>
  /\ rows = {}

(* The chain makes more blocks irreversible. *)
Finalize ==
  /\ Len(final') >= Len(final) /\ SubSeq(final', 1, Len(final)) = final
  /\ UNCHANGED <<tip, rows>>

(* The tables move to a block of the same or of another branch. *)
Move ==
  /\ rows' = Effects(tip')
  /\ Effects(final) \cap rows \subseteq rows'
  /\ UNCHANGED final

Next == Finalize \/ Move

Spec == Init /\ [][Next]_<<final, tip, rows>>
=============================================================================
