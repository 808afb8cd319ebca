---------------------------- MODULE RetainedHistory ----------------------------
(******************************************************************************)
(* What a GenerationContext promises whoever generates with it, without slots,*)
(* rings, leases or runs: a container of accepted rows.  Rows are only ever   *)
(* added at the end, or cut at the end while none was dropped; the last Depth *)
(* of them can be read at any time; a copy starts equal to its source and is  *)
(* independent of it afterwards; and a container whose rows became uncertain  *)
(* is broken for good instead of answering with wrong ones.                   *)
(******************************************************************************)
EXTENDS Integers, Sequences

CONSTANTS
    Contexts,
    Main,
    Tags,       \* contents of a row
    Depth,      \* rows that stay readable
    ChunkLength \* rows accepted at most in one step

VARIABLES
    status,     \* absent, live or gone
    length,     \* rows accepted so far
    readable    \* the last of them, at most Depth

vars == <<status, length, readable>>

Init ==
    /\ status = [c \in Contexts |-> IF c = Main THEN "live" ELSE "absent"]
    /\ length = [c \in Contexts |-> 0]
    /\ readable = [c \in Contexts |-> <<>>]

LastRows(rows) == IF Len(rows) <= Depth THEN rows
                  ELSE SubSeq(rows, Len(rows) - Depth + 1, Len(rows))

Extend(c) ==
    \E n \in 1 .. ChunkLength : \E rows \in [1 .. n -> Tags] :
        /\ status[c] = "live"
        /\ length' = [length EXCEPT ![c] = @ + n]
        /\ readable' = [readable EXCEPT ![c] = LastRows(@ \o rows)]
        /\ UNCHANGED status

Cut(c) ==
    \E n \in 0 .. length[c] :
        /\ status[c] = "live"
        /\ Len(readable[c]) = length[c]
        /\ length' = [length EXCEPT ![c] = n]
        /\ readable' = [readable EXCEPT ![c] = SubSeq(@, 1, n)]
        /\ UNCHANGED status

Copy(c, d) ==
    /\ status[c] = "live" /\ status[d] = "absent"
    /\ status' = [status EXCEPT ![d] = "live"]
    /\ length' = [length EXCEPT ![d] = length[c]]
    /\ readable' = [readable EXCEPT ![d] = readable[c]]

\* Failure or disposal, of several containers at once when the device is lost.
Break(S) ==
    /\ \A c \in S : status[c] # "gone"
    /\ status' = [c \in Contexts |-> IF c \in S THEN "gone" ELSE status[c]]
    /\ length' = [c \in Contexts |-> IF c \in S THEN 0 ELSE length[c]]
    /\ readable' = [c \in Contexts |-> IF c \in S THEN <<>> ELSE readable[c]]

Next ==
    \/ \E c \in Contexts : Extend(c) \/ Cut(c) \/ \E d \in Contexts : Copy(c, d)
    \/ \E S \in SUBSET Contexts : Break(S)

Spec == Init /\ [][Next]_vars
===============================================================================
