------------------------------ MODULE ChatSession ------------------------------
(******************************************************************************)
(* A chat session (gemma/chat-session.ts): the history of a conversation, the *)
(* GenerationSequence that holds its first turns as KV, and the one turn that *)
(* may be in progress: prepared against the room that is left (the overflow   *)
(* policy is asked in between), generated, and closed by what it came to.     *)
(*                                                                            *)
(* A turn of the history is told by its role; a sequence is the list of turns *)
(* fed to it, on whose operation chain (GenerationSequence) forks come before *)
(* later streams, and disposals after the streams they find.                  *)
(******************************************************************************)
EXTENDS Integers, Sequences, FiniteSets

CONSTANTS
    Sessions,   \* ChatSessions that may come to exist
    Main,       \* the one that exists initially
    Kvs,        \* identities of GenerationSequences, reused once disposed
    NoKv,
    Room,       \* turns that fit the capacity, the turn to come included
    Fronts      \* what an overflow policy may put in front of what is asked

Roles == {"user", "assistant", "call", "tool"}

ASSUME SessionAssumption ==
    /\ Main \in Sessions /\ NoKv \notin Kvs /\ Room \in Nat
    /\ Fronts \subseteq Seq(Roles)

VARIABLES
    life,       \* of a session: absent, forking or live
    turns,      \* its history
    sequence,   \* the GenerationSequence it holds, or NoKv
    committed,  \* turns of the history the sequence holds
    busy,       \* a turn was issued and is not over
    disposal,   \* dispose was called
    turn,       \* the turn in progress
    kv,         \* the sequences: their life and the turns fed to them
    given       \* ghost: turns in front that are an overflow policy's, not the session's

vars == <<life, turns, sequence, committed, busy, disposal, turn, kv, given>>

NoTurn == [stage |-> "idle", pending |-> <<>>, prompt |-> <<>>, asked |-> <<>>,
           attempts |-> 0, on |-> NoKv, ending |-> "none"]
NoSequence == [state |-> "none", fed |-> <<>>]

Init ==
    /\ life = [c \in Sessions |-> IF c = Main THEN "live" ELSE "absent"]
    /\ turns = [c \in Sessions |-> <<>>]
    /\ sequence = [c \in Sessions |-> NoKv]
    /\ committed = [c \in Sessions |-> 0]
    /\ busy = [c \in Sessions |-> FALSE]
    /\ disposal = [c \in Sessions |-> FALSE]
    /\ turn = [c \in Sessions |-> NoTurn]
    /\ kv = [k \in Kvs |-> NoSequence]
    /\ given = [c \in Sessions |-> 0]

------------------------------------------------------------------------------

At(c, stage) == turn[c].stage = stage
Last(list) == IF list = <<>> THEN "none" ELSE list[Len(list)]
From(list, i) == SubSeq(list, i, Len(list))
EndsWith(list, tail) ==
    Len(list) >= Len(tail) /\ From(list, Len(list) - Len(tail) + 1) = tail
WithoutTail(list, n) == SubSeq(list, 1, Len(list) - n)

\* A session takes a new turn, or a fork.
Idle(c) == life[c] = "live" /\ ~disposal[c] /\ ~busy[c]

\* #delta: one message after a closed turn, or the results of a tool call.
IsDelta(c) ==
    LET owner == turns[c][committed[c]]
        delta == From(turns[c], committed[c] + 1)
    IN \/ delta # <<>> /\ \A i \in 1 .. Len(delta) : delta[i] = "tool"
       \/ Len(delta) = 1 /\ owner # "call"

HeldUsed(c) == IF sequence[c] = NoKv THEN 0 ELSE Len(kv[sequence[c]].fed)
Prompt(c) == From(turns[c], committed[c] + 1)
Overflows(c) == HeldUsed(c) + Len(Prompt(c)) + 1 > Room

\* The tool results the history ends with.
Results(list) ==
    {i \in 1 .. Len(list) : \A j \in i .. Len(list) : list[j] = "tool"}

\* What is answered now: the messages the KV does not hold, or without a KV the
\* last turn, all the results it ends with (pendingStart).
Asked(c) ==
    IF committed[c] # 0 THEN Prompt(c)
    ELSE LET results == Results(turns[c])
         IN From(turns[c],
                 Len(turns[c]) + 1 - (IF results = {} THEN 1 ELSE Cardinality(results)))

\* The whole conversation can be rendered: a tool result follows a call or another
\* result, and a call is followed by a result.
Renders(list) ==
    /\ list # <<>>
    /\ \A i \in 1 .. Len(list) :
          /\ list[i] = "tool" => i > 1 /\ list[i - 1] \in {"call", "tool"}
          /\ list[i] = "call" => i < Len(list) /\ list[i + 1] = "tool"

\* Mutant of Detached: the count of committed turns is kept.
DetachedUncounted(c) ==
    /\ sequence' = [sequence EXCEPT ![c] = NoKv]
    /\ UNCHANGED committed

\* #releaseSequence gives the sequence up at once; its disposal is waited for.
Detached(c) ==
    /\ sequence' = [sequence EXCEPT ![c] = NoKv]
    /\ committed' = [committed EXCEPT ![c] = 0]
Disposing(k) == IF k = NoKv THEN kv ELSE [kv EXCEPT ![k].state = "disposing"]

\* The turn stops here; what it came to is left to be closed.
Ended(c, ending) ==
    turn' = [turn EXCEPT ![c] = [NoTurn EXCEPT !.stage = "finishing", !.ending = ending,
                                               !.pending = turn[c].pending]]
Fails(c) == Ended(c, "failed")

------------------------------------------------------------------------------
(* Issuing a turn. *)

Issue(c, pending) ==
    /\ turns' = [turns EXCEPT ![c] = @ \o pending]
    /\ busy' = [busy EXCEPT ![c] = TRUE]
    /\ turn' = [turn EXCEPT ![c] = [@ EXCEPT !.stage = "issued", !.pending = pending]]
    /\ UNCHANGED <<life, sequence, committed, disposal, kv, given>>

Send(c) ==
    /\ Idle(c) /\ Last(turns[c]) # "call"
    /\ Issue(c, <<"user">>)

SendToolResults(c) ==
    /\ Idle(c) /\ Last(turns[c]) = "call"
    /\ \E n \in 1 .. 2 : Issue(c, [i \in 1 .. n |-> "tool"])

\* The stream was closed before its first pull: what was asked is taken back.
CloseUnstarted(c) ==
    /\ At(c, "issued")
    /\ turns' = [turns EXCEPT ![c] = WithoutTail(@, Len(turn[c].pending))]
    /\ busy' = [busy EXCEPT ![c] = FALSE]
    /\ turn' = [turn EXCEPT ![c] = NoTurn]
    /\ UNCHANGED <<life, sequence, committed, disposal, kv, given>>

Start(c) ==
    /\ At(c, "issued")
    /\ turn' = [turn EXCEPT ![c] = [@ EXCEPT !.stage = "preparing", !.attempts = Len(turns[c])]]
    /\ UNCHANGED <<life, turns, sequence, committed, busy, disposal, kv, given>>

------------------------------------------------------------------------------
(* Preparing it: up to the next await, then after the host or the policy. *)

\* The errors the code calls an internal inconsistency.
Inconsistent(c) ==
    \/ committed[c] # 0 /\ sequence[c] = NoKv
    \/ committed[c] = 0 /\ HeldUsed(c) # 0
    \/ committed[c] # 0 /\ ~IsDelta(c)
    \/ Overflows(c) /\ turn[c].attempts = 0

\* Why a turn is not even measured; a history is rendered whole without a KV only.
Refused(c) ==
    disposal[c] \/ Inconsistent(c) \/ (committed[c] = 0 /\ ~Renders(turns[c]))

Prepare(c) ==
    /\ At(c, "preparing")
    /\ \/ Refused(c) /\ Fails(c)
       \/ /\ ~Refused(c) /\ Overflows(c)
          /\ turn' = [turn EXCEPT ![c] = [@ EXCEPT !.stage = "shrinking", !.asked = Asked(c),
                                                   !.attempts = turn[c].attempts - 1]]
       \/ /\ ~Refused(c) /\ ~Overflows(c)
          /\ turn' = [turn EXCEPT ![c] = [@ EXCEPT
                  !.stage = IF sequence[c] = NoKv THEN "creating" ELSE "prepared",
                  !.attempts = 0, !.prompt = Prompt(c), !.on = sequence[c]]]
    /\ UNCHANGED <<life, turns, sequence, committed, busy, disposal, kv, given>>

\* An identity no session knows, always the same one.
Fresh(k) ==
    LET unknown == {j \in Kvs : kv[j].state = "none" /\ \A c \in Sessions : turn[c].on # j}
    IN unknown # {} /\ k = CHOOSE j \in unknown : TRUE

\* Mutant of Create: the session is not looked at again after the wait.
CreateUnchecked(c) ==
    /\ At(c, "creating")
    /\ \E k \in Kvs :
           /\ Fresh(k)
           /\ kv' = [kv EXCEPT ![k].state = "open"]
           /\ sequence' = [sequence EXCEPT ![c] = k]
           /\ committed' = [committed EXCEPT ![c] = 0]
           /\ turn' = [turn EXCEPT ![c] = [@ EXCEPT !.stage = "prepared", !.on = k]]
    /\ UNCHANGED <<life, turns, busy, disposal, given>>

\* host.sequence answers; a session disposed meanwhile hands the sequence back.
Create(c) ==
    /\ At(c, "creating")
    /\ \/ \E k \in Kvs :
              /\ Fresh(k)
              /\ IF disposal[c]
                 THEN /\ kv' = [kv EXCEPT ![k].state = "disposing"]
                      /\ Fails(c) /\ UNCHANGED <<sequence, committed>>
                 ELSE /\ kv' = [kv EXCEPT ![k].state = "open"]
                      /\ sequence' = [sequence EXCEPT ![c] = k]
                      /\ committed' = [committed EXCEPT ![c] = 0]
                      /\ turn' = [turn EXCEPT ![c] = [@ EXCEPT !.stage = "prepared", !.on = k]]
       \/ Fails(c) /\ UNCHANGED <<sequence, committed, kv>>
    /\ UNCHANGED <<life, turns, busy, disposal, given>>

\* What an overflow policy may return: whatever it likes in front of what was asked,
\* a summary or a filter of the history as well as turns that were never in it.  Two
\* answers stand for all that do not end with what was asked, or are no shorter.
Shrunk(c) == {<<>>, turns[c]} \cup {front \o turn[c].asked : front \in Fronts}

\* The policy answers.  Its history must end with what was asked and be shorter;
\* then the KV of the old one is released.
Shrink(c) ==
    /\ At(c, "shrinking")
    /\ \E next \in Shrunk(c) :
           IF EndsWith(next, turn[c].asked) /\ Len(next) < Len(turns[c])
           THEN /\ turns' = [turns EXCEPT ![c] = next]
                /\ given' = [given EXCEPT ![c] = Len(next) - Len(turn[c].pending)]
                /\ kv' = Disposing(sequence[c])
                /\ turn' = [turn EXCEPT ![c] = [@ EXCEPT !.stage = "shrunk", !.on = sequence[c],
                                                         !.asked = <<>>]]
                /\ Detached(c)
           ELSE Fails(c) /\ UNCHANGED <<turns, kv, given, sequence, committed>>
    /\ UNCHANGED <<life, busy, disposal>>

Disposed(k) == k \in {NoKv} \cup {j \in Kvs : kv[j].state = "none"}

PrepareAgain(c) ==
    /\ At(c, "shrunk") /\ Disposed(turn[c].on)
    /\ turn' = [turn EXCEPT ![c] = [@ EXCEPT !.stage = "preparing", !.on = NoKv]]
    /\ UNCHANGED <<life, turns, sequence, committed, busy, disposal, kv, given>>

------------------------------------------------------------------------------
(* Generating and closing it. *)

\* A sequence disposed since refuses the stream.
Generate(c) ==
    /\ At(c, "prepared")
    /\ IF kv[turn[c].on].state = "open"
       THEN turn' = [turn EXCEPT ![c].stage = "generating"]
       ELSE Fails(c)
    /\ UNCHANGED <<life, turns, sequence, committed, busy, disposal, kv, given>>

\* Mutant of Generating: a turn is closed while its stream still holds the chain.
GeneratingUntilClosed(k) ==
    \E c \in Sessions : turn[c].on = k /\ turn[c].stage \in {"generating", "finishing", "closing"}

Forking(k) == \E d \in Sessions : life[d] = "forking" /\ turn[d].on = k
Generating(k) == \E c \in Sessions : At(c, "generating") /\ turn[c].on = k

\* Ended on a stop token, well formed or not; cut off by a limit, a stop string,
\* its consumer or a signal; or failed.  Text may have been handed out or not.
Endings == {"assistant", "call", "malformed", "text", "failed"}

StreamEnds(c) ==
    /\ At(c, "generating") /\ ~Forking(turn[c].on)
    /\ \E ending \in Endings :
           /\ Ended(c, ending)
           /\ kv' = [kv EXCEPT ![turn[c].on].fed =
                        @ \o turn[c].prompt \o <<IF ending \in Roles THEN ending ELSE "part">>]
    /\ UNCHANGED <<life, turns, sequence, committed, busy, disposal, given>>

\* Mutant of Answered: the KV of a turn without a well-formed end is carried on.
AnsweredAny(c) ==
    turn[c].ending \in {"assistant", "call", "malformed"} /\ ~disposal[c]

\* The turn closed itself, its session is there to carry it on.
Answered(c) == turn[c].ending \in {"assistant", "call"} /\ ~disposal[c]

FinishAnswered(c) ==
    /\ At(c, "finishing") /\ Answered(c)
    /\ turns' = [turns EXCEPT ![c] =
                    Append(@, IF turn[c].ending \in Roles THEN turn[c].ending ELSE "assistant")]
    /\ committed' = [committed EXCEPT ![c] = Len(turns[c]) + 1]
    /\ busy' = [busy EXCEPT ![c] = FALSE]
    /\ turn' = [turn EXCEPT ![c] = NoTurn]
    /\ UNCHANGED <<life, sequence, disposal, kv, given>>

\* Mutant of FinishUnanswered: what was asked stays though nothing answered it.
FinishUnansweredKept(c) ==
    /\ At(c, "finishing") /\ ~Answered(c)
    /\ turns' = [turns EXCEPT ![c] =
           IF turn[c].ending # "failed" THEN Append(@, "assistant") ELSE @]
    /\ kv' = Disposing(sequence[c])
    /\ turn' = [turn EXCEPT ![c] = [NoTurn EXCEPT !.stage = "closing", !.on = sequence[c]]]
    /\ Detached(c)
    /\ UNCHANGED <<life, busy, disposal, given>>

\* Some text of the turn was handed out.  One that ended on a stop token may have
\* none, which only matters to a session disposed meanwhile: otherwise the closed
\* turn is kept with its spelling, however short.
MayKeep(c) == turn[c].ending # "failed"
MayTakeBack(c) ==
    \/ turn[c].ending = "failed"
    \/ turn[c].ending # "text" /\ disposal[c]

\* Text that was handed out stays in the history; a turn without any takes back
\* what was asked.  The sequence holds what the history does not, and is released.
FinishUnanswered(c) ==
    /\ At(c, "finishing") /\ ~Answered(c)
    /\ \/ MayKeep(c) /\ turns' = [turns EXCEPT ![c] = Append(@, "assistant")]
       \/ /\ MayTakeBack(c)
          /\ turns' = [turns EXCEPT ![c] =
                 IF EndsWith(@, turn[c].pending) THEN WithoutTail(@, Len(turn[c].pending))
                 ELSE @]
    /\ kv' = Disposing(sequence[c])
    /\ turn' = [turn EXCEPT ![c] = [NoTurn EXCEPT !.stage = "closing", !.on = sequence[c]]]
    /\ Detached(c)
    /\ UNCHANGED <<life, busy, disposal, given>>

CloseTurn(c) ==
    /\ At(c, "closing") /\ Disposed(turn[c].on)
    /\ busy' = [busy EXCEPT ![c] = FALSE]
    /\ turn' = [turn EXCEPT ![c] = NoTurn]
    /\ UNCHANGED <<life, turns, sequence, committed, disposal, kv, given>>

------------------------------------------------------------------------------
(* Forking and disposing. *)

\* History and count are copied at the call; the sequence at its place on the
\* chain, before any later turn.
Fork(c, d) ==
    /\ Idle(c) /\ life[d] = "absent"
    /\ turns' = [turns EXCEPT ![d] = turns[c]]
    /\ committed' = [committed EXCEPT ![d] = committed[c]]
    /\ given' = [given EXCEPT ![d] = given[c]]
    /\ life' = [life EXCEPT ![d] = IF sequence[c] = NoKv THEN "live" ELSE "forking"]
    /\ turn' = [turn EXCEPT ![d].on = sequence[c]]
    /\ UNCHANGED <<sequence, busy, disposal, kv>>

ForkEnds(d) ==
    /\ life[d] = "forking"
    /\ \/ \E k \in Kvs :
              /\ Fresh(k)
              /\ kv' = [kv EXCEPT ![k] = [state |-> "open", fed |-> kv[turn[d].on].fed]]
              /\ sequence' = [sequence EXCEPT ![d] = k]
              /\ life' = [life EXCEPT ![d] = "live"]
              /\ UNCHANGED <<turns, committed, given>>
       \/ /\ life' = [life EXCEPT ![d] = "absent"]
          /\ turns' = [turns EXCEPT ![d] = <<>>]
          /\ committed' = [committed EXCEPT ![d] = 0]
          /\ given' = [given EXCEPT ![d] = 0]
          /\ UNCHANGED <<sequence, kv>>
    /\ turn' = [turn EXCEPT ![d] = NoTurn]
    /\ UNCHANGED <<busy, disposal>>

Dispose(c) ==
    /\ life[c] = "live" /\ ~disposal[c]
    /\ disposal' = [disposal EXCEPT ![c] = TRUE]
    /\ kv' = Disposing(sequence[c])
    /\ Detached(c)
    /\ UNCHANGED <<life, turns, busy, turn, given>>

\* On the sequence's chain: after the stream and the forks it finds there.
DisposeKv(k) ==
    /\ kv[k].state = "disposing" /\ ~Generating(k) /\ ~Forking(k)
    /\ kv' = [kv EXCEPT ![k] = NoSequence]
    /\ UNCHANGED <<life, turns, sequence, committed, busy, disposal, turn, given>>

------------------------------------------------------------------------------

Proceed(c) ==
    \/ Prepare(c) \/ Create(c) \/ Shrink(c) \/ PrepareAgain(c)
    \/ Generate(c) \/ StreamEnds(c)
    \/ FinishAnswered(c) \/ FinishUnanswered(c) \/ CloseTurn(c)

Next ==
    \/ \E c \in Sessions :
           \/ Send(c) \/ SendToolResults(c) \/ CloseUnstarted(c) \/ Start(c)
           \/ Proceed(c) \/ Dispose(c) \/ ForkEnds(c)
           \/ \E d \in Sessions : Fork(c, d)
    \/ \E k \in Kvs : DisposeKv(k)

Spec == Init /\ [][Next]_vars

\* The host and the policy answer, and consumers come back to the streams they
\* pulled from.
Fairness ==
    /\ \A c \in Sessions : WF_vars(Proceed(c)) /\ WF_vars(ForkEnds(c))
    /\ \A k \in Kvs : WF_vars(DisposeKv(k))

FairSpec == Spec /\ Fairness

------------------------------------------------------------------------------
(* Properties. *)

\* The KV a session continues from is that of its own history, up to the last
\* turn that was answered: after closes, failures and cut-offs, after the policy
\* replaced the history, and in a branch whose source went on meanwhile.
KvHoldsHistory ==
    \A c \in Sessions :
        life[c] = "live" /\ sequence[c] # NoKv
            /\ ~At(c, "generating") /\ ~At(c, "finishing")
            => kv[sequence[c]] = [state |-> "open", fed |-> SubSeq(turns[c], 1, committed[c])]

\* What may come behind a turn that asks for an answer.
Replies(role) == {"assistant", "call"} \cup (IF role = "tool" THEN {"tool"} ELSE {})

\* The turns from first to last that ask for an answer have one.
Replied(list, first, last) ==
    \A i \in first .. last :
        list[i] \in {"user", "tool"} => i < last /\ list[i + 1] \in Replies(list[i])

\* Between turns no question and no tool result the session was sent is left in the
\* history without an answer, after failures, cut-offs and disposals, and behind
\* whatever a policy put in their front (of which nothing is known: a summary may be
\* a user's message); and the KV holds the whole history or none of it.
HistoryIsSettled ==
    \A c \in Sessions :
        life[c] = "live" /\ ~busy[c] =>
            /\ committed[c] \in {0, Len(turns[c])}
            /\ given[c] \in 0 .. Len(turns[c])
            /\ Replied(turns[c], given[c] + 1, Len(turns[c]))

\* Every open sequence is held by one session that was not disposed, whatever
\* await the disposal came in: none is left in device memory without an owner,
\* and none is shared.
SequencesAreHeld ==
    \A k \in Kvs : kv[k].state = "open" =>
        Cardinality({c \in Sessions : sequence[c] = k /\ ~disposal[c]}) = 1

\* The states prepare and finish call inconsistent are not reached.
NeverInconsistent ==
    \A c \in Sessions :
        /\ At(c, "preparing") /\ ~disposal[c] => ~Inconsistent(c)
        /\ At(c, "finishing") /\ Answered(c) => sequence[c] # NoKv

\* A turn that was started ends and leaves its session idle, though its closing
\* waits for the sequence's disposal, that for the stream's place on the chain,
\* and that for a fork asked before it.
TurnsEnd == \A c \in Sessions : At(c, "preparing") ~> ~busy[c]
===============================================================================
