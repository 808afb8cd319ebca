------------------------- MODULE MCGenerationContext -------------------------
(****************************************************************************)
(* Instances of GenerationContext for TLC: the graphs' state slots and the  *)
(* symmetry of what is only told apart by identity.                         *)
(****************************************************************************)
EXTENDS ContextHistory, TLC

CONSTANTS main, drafter, branch, r1, r2, a, b

\* A ring with two rows of slack beside a ring with three and a full slot.
MixedSlots == {"ring", "wide", "full"}
MixedCapacity == [s \in MixedSlots |->
    CASE s = "ring" -> 4 [] s = "wide" -> 4 [] s = "full" -> 5]
MixedWindow == [s \in MixedSlots |->
    CASE s = "ring" -> 2 [] s = "wide" -> 1 [] s = "full" -> 0]

\* The least ring that takes a chain of two runs.
ChainSlots == {"ring"}
ChainCapacity == [s \in ChainSlots |-> 3]
ChainWindow == [s \in ChainSlots |-> 1]

\* Only a full slot: the graph whose contexts can be rewound.
FullSlots == {"full"}
FullCapacity == [s \in FullSlots |-> 2]
FullWindow == [s \in FullSlots |-> 0]

\* A ring without slack: every row it holds may be read, so a run that fails
\* after writing leaves nothing a borrower could go on with.
TightSlots == {"ring"}
TightCapacity == [s \in TightSlots |-> 2]
TightWindow == [s \in TightSlots |-> 2]

Symmetry == Permutations(Runs) \cup Permutations(Tags)
===============================================================================
