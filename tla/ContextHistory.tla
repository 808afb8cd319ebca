---------------------------- MODULE ContextHistory ----------------------------
(*****************************************************************************)
(* GenerationContext implements RetainedHistory.  The readable rows are not  *)
(* a ghost: they are fetched from the physical rows of one slot by the       *)
(* mapping the kernels use, at the logical length the next reader gets.      *)
(*****************************************************************************)
EXTENDS GenerationContext

CONSTANT Observed   \* the slot the rows are fetched from

ASSUME ObservedAssumption == Observed \in Slots

Depth == IF IsSliding(Observed) THEN Window[Observed] ELSE Capacity[Observed]

\* An immediate run counts from the moment its rows are in the slots: it either
\* advances the length over all of them or poisons the context.
WrittenImmediate(c) ==
    {r \in RunsOf(c) : runs[r].stage = "written" /\ runs[r].mode = "immediate"}

\* A failed run with submitted rows dooms its context before it poisons it.
Doomed(c) == \E r \in RunsOf(c) : runs[r].stage = "failed" /\ runs[r].wrote

Status(c) ==
    CASE IsBorrowing(c) \/ phase[c] = "absent" -> "absent"
      [] ~IsBorrowing(c) /\ phase[c] \in {"allocating", "open", "closing", "disposed"}
           /\ IsLive(c) /\ ~Doomed(c) -> "live"
      [] OTHER -> "gone"

Length(c) ==
    IF Status(c) # "live" THEN 0
    ELSE IF WrittenImmediate(c) = {} THEN pastLength[c]
    ELSE RunEnd(CHOOSE r \in WrittenImmediate(c) : TRUE)

\* The tag found where the column of the i-th readable row lives; a row that
\* holds another column is no tag at all.
Fetched(c, col) ==
    LET row == slots[c][Observed][SlotRow(Observed, col)]
    IN IF row # Unwritten /\ row[1] = col THEN row[2] ELSE NoTag

Readable(c) ==
    LET count == Lesser(Length(c), Depth)
    IN [i \in 1 .. count |-> Fetched(c, Length(c) - count + i - 1)]

History == INSTANCE RetainedHistory WITH
    status <- [c \in Contexts |-> Status(c)],
    length <- [c \in Contexts |-> Length(c)],
    readable <- [c \in Contexts |-> Readable(c)]

\* Every behaviour of the contexts, with everything their callers, two Sessions,
\* batches, failures and disposals may do between two steps of a run, is one of
\* containers that only grow at their end (GenerationContext, class doc:
\* the single owner of one generation's mutable state).
RetainsHistory == History!Spec
===============================================================================
