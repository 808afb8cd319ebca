----------------------------- MODULE Conversation -----------------------------
(*****************************************************************************)
(* What a GenerationSequence promises its caller, whatever decoding it uses: *)
(* a conversation is a list of tokens that only grows at its end, one turn   *)
(* at a time.  A turn first takes its prompt, then draws tokens one by one,  *)
(* each from what the model says of exactly the tokens before it, and tells  *)
(* each with its place in the list; a stop token ends the turn and is kept   *)
(* but not told.  A branch starts as a copy made between turns.              *)
(*****************************************************************************)
EXTENDS Integers, Sequences

CONSTANTS
    Sequences,      \* conversations that may come to exist
    Main,           \* the one that exists initially
    Streams,        \* turns
    Tokens,
    Stops,          \* the tokens that end a turn
    Likely(_),      \* what may be drawn after a list of tokens
    MostFed,        \* tokens of a prompt taken in one step at most
    MostDrawn,      \* tokens drawn in one turn at most
    NoTurn, NoToken

VARIABLES
    status,         \* absent, live or gone
    transcript,     \* the tokens of the conversation
    turn            \* its turn in progress, with the last token told, or NoTurn

vars == <<status, transcript, turn>>

NothingTold == [position |-> 0, id |-> NoToken]

Init ==
    /\ status = [q \in Sequences |-> IF q = Main THEN "live" ELSE "absent"]
    /\ transcript = [q \in Sequences |-> <<>>]
    /\ turn = [q \in Sequences |-> NoTurn]

Begin(q) ==
    /\ status[q] = "live" /\ turn[q] = NoTurn
    /\ \E s \in Streams, limit \in 1 .. MostDrawn :
           turn' = [turn EXCEPT ![q] =
               [stream |-> s, limit |-> limit, drawn |-> 0, told |-> NothingTold]]
    /\ UNCHANGED <<status, transcript>>

\* A turn may fail on what it just took.
Feed(q) ==
    /\ status[q] = "live" /\ turn[q] # NoTurn
    /\ turn[q].drawn = 0
    /\ \E n \in 1 .. MostFed : \E prompt \in [1 .. n -> Tokens] :
           transcript' = [transcript EXCEPT ![q] = @ \o prompt]
    /\ turn' = turn \/ turn' = [turn EXCEPT ![q] = NoTurn]
    /\ UNCHANGED status

\* A stop token ends the turn in the same step.
Draw(q) ==
    /\ status[q] = "live" /\ turn[q] # NoTurn
    /\ turn[q].drawn < turn[q].limit
    /\ \E t \in Likely(transcript[q]) :
           /\ transcript' = [transcript EXCEPT ![q] = Append(@, t)]
           /\ turn' = [turn EXCEPT ![q] =
                  IF t \in Stops THEN NoTurn
                  ELSE [stream |-> turn[q].stream, limit |-> turn[q].limit,
                        drawn |-> turn[q].drawn + 1,
                        told |-> [position |-> Len(transcript[q]), id |-> t]]]
    /\ UNCHANGED status

\* Closed, aborted, failed, or at its limit.
End(q) ==
    /\ turn[q] # NoTurn
    /\ turn' = [turn EXCEPT ![q] = NoTurn]
    /\ UNCHANGED <<status, transcript>>

Branch(q, p) ==
    /\ status[q] = "live" /\ turn[q] = NoTurn /\ status[p] = "absent"
    /\ status' = [status EXCEPT ![p] = "live"]
    /\ transcript' = [transcript EXCEPT ![p] = transcript[q]]
    /\ UNCHANGED turn

\* Disposed, or its state lost: it answers nothing any more.
Leave(S) ==
    /\ \A q \in S : status[q] = "live"
    /\ status' = [q \in Sequences |-> IF q \in S THEN "gone" ELSE status[q]]
    /\ transcript' = [q \in Sequences |-> IF q \in S THEN <<>> ELSE transcript[q]]
    /\ turn' = [q \in Sequences |-> IF q \in S THEN NoTurn ELSE turn[q]]

Next ==
    \/ \E q \in Sequences :
           Begin(q) \/ Feed(q) \/ Draw(q) \/ End(q) \/ \E p \in Sequences : Branch(q, p)
    \/ \E S \in SUBSET Sequences : Leave(S)

Spec == Init /\ [][Next]_vars
===============================================================================
