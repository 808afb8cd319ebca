-------------------------- MODULE SequenceConversation --------------------------
(*******************************************************************************)
(* GenerationSequence implements Conversation.  The transcript is not a ghost: *)
(* it is what the context holds up to the frontier, and the token that waits   *)
(* to be fed.                                                                  *)
(*******************************************************************************)
EXTENDS GenerationSequence

CONSTANT NoTurn   \* no stream's turn is on

ASSUME TurnAssumption ==
    NoTurn \notin [stream : Streams, limit : Nat, drawn : Nat,
                   told : [position : Nat, id : Tokens \cup {NoToken}]]

\* The stream whose turn is on.
InTurn(q) ==
    {s \in Streams : streams[s].on = q
        /\ streams[s].stage \in {"prefill", "first", "decode", "deliver"}}

Status(q) ==
    IF Live(q) THEN "live"
    ELSE IF context[q] \in {"absent", "copying"} THEN "absent"
    ELSE "gone"

Transcript(q) ==
    IF Live(q) THEN columns[q] \o SubSeq(rows[q], 1, frontierRows[q]) \o Pending(q)
    ELSE <<>>

TurnOf(q) ==
    IF ~Live(q) \/ InTurn(q) = {} THEN NoTurn
    ELSE LET s == CHOOSE s \in InTurn(q) : TRUE
         IN [stream |-> s, limit |-> streams[s].limit, drawn |-> streams[s].drawn,
             told |-> streams[s].told]

Talk == INSTANCE Conversation WITH
    MostFed <- ChunkLength,
    MostDrawn <- Capacity + 1,
    status <- [q \in Sequences |-> Status(q)],
    transcript <- [q \in Sequences |-> Transcript(q)],
    turn <- [q \in Sequences |-> TurnOf(q)]

\* Speculative decoding, a batch run ahead and plain decoding give the same
\* conversations as drawing one token after the other: whatever drafts are
\* accepted or not, wherever a stream is closed, aborted or fails, and whichever
\* turn, branch or disposal comes next, every token told was drawn from the rows
\* of exactly the tokens before it and has its place in the conversation, and
\* none is fed twice or lost.
ConversesPlainly == Talk!Spec
===============================================================================
