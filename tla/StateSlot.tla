------------------------------ MODULE StateSlot ------------------------------
(****************************************************************************)
(* The physical rows of the state slots a GenerationContext owns (the KV    *)
(* cache): where a logical column lives, which columns a reader consumes    *)
(* and what one state_append dispatch leaves behind.  A slot is full (its   *)
(* rows are its columns) or sliding (a ring whose modulus is the capacity,  *)
(* not the window: the rows beyond the window are the slack that a          *)
(* speculative run may write ahead of the logical length).                  *)
(*                                                                          *)
(* Source: kernels/state-append.ts, kernels/state-attention.ts and the      *)
(* slack of runtime/generation-context.ts.  A row is abstracted to the      *)
(* column it was computed for and a tag for its contents.                   *)
(****************************************************************************)
EXTENDS Integers

CONSTANTS
    Slots,      \* names of the state slots of the graph
    Capacity,   \* C: physical rows of a slot
    Window      \* W: window of a sliding slot, 0 for a full slot

ASSUME SlotsAssumption ==
    /\ Capacity \in [Slots -> Nat \ {0}]
    /\ Window \in [Slots -> Nat]
    /\ \A s \in Slots : Window[s] <= Capacity[s]

Lesser(a, b) == IF a <= b THEN a ELSE b

IsSliding(s) == Window[s] > 0
SlidingSlots == {s \in Slots : IsSliding(s)}
Rows(s) == 0 .. (Capacity[s] - 1)

\* A row nothing was appended to yet (the slot buffer starts zeroed).
Unwritten == <<>>

\* Mutant of SlotRow: the ring wraps at the window, without room for the slack.
SlotRowByWindow(s, col) == IF IsSliding(s) THEN col % Window[s] ELSE col

\* The row that holds logical column col, the same for reads and writes.
SlotRow(s, col) == IF IsSliding(s) THEN col % Capacity[s] ELSE col

\* First column a run of the owner reads: its own rows are part of the window.
ColumnBase(s, past) ==
    IF IsSliding(s) THEN past - Lesser(past, Window[s] - 1) ELSE 0

\* First column a borrower reads: its own row is not in the ring, so one more.
ReadonlyColumnBase(s, past) ==
    IF IsSliding(s) THEN past - Lesser(past, Window[s]) ELSE 0

\* Rows a run may write ahead of the logical length without reaching a live
\* column of any sliding slot: the least C - W.  Only meaningful when there is
\* a sliding slot (the code holds undefined otherwise).
SlackOf(s) == Capacity[s] - Window[s]
SlidingSlack ==
    CHOOSE n \in {SlackOf(s) : s \in SlidingSlots} :
        \A s \in SlidingSlots : n <= SlackOf(s)

\* Mutant of WithinSlack: the slack of some slot is enough.
WithinAnySlack(n) == SlidingSlots # {} => \E s \in SlidingSlots : n <= SlackOf(s)

WithinSlack(n) == SlidingSlots # {} => n <= SlidingSlack

\* Full slots do not wrap, so a run must end inside each of them.
FitsFullSlots(past, query) ==
    \A s \in Slots \ SlidingSlots : past + query <= Capacity[s]

\* The columns of [past, past + query) one append writes into row.  When a run
\* is longer than the ring, only the last column mapped to a row is written.
AppendedColumns(s, past, query, row) ==
    {col \in past .. (past + query - 1) :
        /\ SlotRow(s, col) = row
        /\ IsSliding(s) => (col - past) + Capacity[s] >= query}

Appended(s, rows, past, query, tag) ==
    [row \in Rows(s) |->
        IF AppendedColumns(s, past, query, row) = {}
        THEN rows[row]
        ELSE <<CHOOSE col \in AppendedColumns(s, past, query, row) : TRUE, tag>>]
===============================================================================
