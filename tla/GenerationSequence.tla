--------------------------- MODULE GenerationSequence ---------------------------
(*******************************************************************************)
(* The generation surface (generation/sequence.ts): one conversation held in   *)
(* one GenerationContext, its turns handed out as streams that a consumer      *)
(* pulls or closes, the decoding loops (plain, speculative with a gate, run    *)
(* ahead in a batch), branching and disposal, all on the conversation's        *)
(* operation chain.                                                            *)
(*                                                                             *)
(* A context is what GenerationContext and ContextHistory show it to be: rows  *)
(* accepted for good, and rows of deferred runs that one commit cuts.  A       *)
(* stream's step runs to the next place where it hands something out: nothing  *)
(* else of its conversation runs meanwhile, since it holds the chain; what the *)
(* consumer, other streams, dispose and fork may do there is left free.        *)
(*******************************************************************************)
EXTENDS Integers, Sequences, FiniteSets

CONSTANTS
    Sequences,      \* GenerationSequences that may come to exist
    Main,           \* the one that exists initially
    Streams,        \* identities of unsettled generations, reused when idle
    Tokens, Stops,
    Likely(_),      \* what a sampler may draw from the logits of a list of tokens
    Wirings,        \* kinds of decoding the conversation may be wired for
    Prompts,        \* prompts a caller issues
    Limits,         \* maxNewTokens of a request; 0 when it names none
    ChunkLength, Capacity, MaxPosition,
    Drafts,         \* k, tokens drafted in a cycle at most
    Depth,          \* steps of a run-ahead batch at most
    Faults,         \* "loss" of the device, "break" of a run, "host" callbacks
    NoToken

ASSUME SequenceAssumption ==
    /\ Main \in Sequences /\ NoToken \notin Tokens /\ Stops \subseteq Tokens
    /\ Wirings \subseteq {"speculative", "ahead"}
    /\ ChunkLength \in Nat \ {0} /\ Capacity \in Nat /\ MaxPosition \in Nat
    /\ ChunkLength <= Capacity /\ Capacity <= MaxPosition
    /\ Drafts \in 1 .. (ChunkLength - 1) /\ Depth \in 2 .. ChunkLength
    /\ Limits \subseteq Nat /\ Prompts \subseteq Seq(Tokens)
    /\ Faults \subseteq {"loss", "break", "host"}

VARIABLES
    wiring,         \* how the conversation and its branches decode
    context,        \* condition of the GenerationContext of a conversation
    columns,        \* its committed tokens (their number is pastLength)
    rows,           \* tokens of its pending commit
    pendingToken,   \* drawn and told, not yet fed
    frontierRows,   \* rows of the pending commit the conversation has reached
    disposal,       \* dispose was called
    chain,          \* operations admitted one after the other
    streams         \* the generations

held == <<columns, rows, pendingToken, frontierRows>>
vars == <<wiring, context, held, disposal, chain, streams>>

NothingTold == [position |-> 0, id |-> NoToken]
Unissued == [stage |-> "idle", on |-> Main, mode |-> "plain", prompt |-> <<>>,
             limit |-> 0, drawn |-> 0, hidden |-> 0, confirmed |-> <<>>,
             index |-> 0, resting |-> FALSE, told |-> NothingTold]

Init ==
    /\ wiring \in Wirings
    /\ context = [q \in Sequences |-> IF q = Main THEN "live" ELSE "absent"]
    /\ columns = [q \in Sequences |-> <<>>]
    /\ rows = [q \in Sequences |-> <<>>]
    /\ pendingToken = [q \in Sequences |-> NoToken]
    /\ frontierRows = [q \in Sequences |-> 0]
    /\ disposal = [q \in Sequences |-> FALSE]
    /\ chain = [q \in Sequences |-> <<>>]
    /\ streams = [s \in Streams |-> Unissued]

------------------------------------------------------------------------------
(* What the steps ask of the conversation. *)

Live(q) == context[q] = "live"
Lesser(m, n) == IF m <= n THEN m ELSE n
Greater(m, n) == IF m <= n THEN n ELSE m
Pending(q) == IF pendingToken[q] = NoToken THEN <<>> ELSE <<pendingToken[q]>>
Past(s) == Len(columns[streams[s].on])

\* Mutant of Used: the rows of a pending commit are not counted.
UsedCommitted(q) == Len(columns[q]) + Len(Pending(q))

\* Logical positions the conversation occupies, as its caller computes budgets.
Used(q) == Len(columns[q]) + frontierRows[q] + Len(Pending(q))

\* The stream was admitted, and runs rather than waits for its consumer.
Runs(s, stage) ==
    /\ streams[s].stage = stage /\ ~streams[s].resting
    /\ Head(chain[streams[s].on]) = [op |-> "stream", id |-> s]

\* maxNewTokens, or as many tokens as still fit.
TokenLimit(max, past, prompt) ==
    IF max # 0 THEN max
    ELSE Greater(1, Lesser(Capacity, MaxPosition) - past - prompt + 1)

\* The token drawn last is not fed: limit - 1 positions follow the prompt.
AssertBudget(past, prompt, limit) ==
    /\ past + prompt + limit - 2 < MaxPosition
    /\ past + prompt + limit - 1 <= Capacity

\* What a sampler may return after a list of tokens.
Draws(past) == {t \in Tokens : t \in Likely(past)}

Remaining(s) == streams[s].limit - streams[s].drawn

\* Mutant of PlanDraftLength: no row is left for the token after the drafts.
PlanDraftLengthAll(s) == Lesser(Drafts, Remaining(s))

PlanDraftLength(s) == Lesser(Drafts, Remaining(s) - 1)

\* The tokens a verify of <<token>> \o drafts may confirm: a prefix of the
\* drafts, each drawn anew from the row before it, closed by a stop token or by
\* the first draw that is no draft.
AcceptDrafts(past, token, drafts) ==
    LET Row(i) == Likely(past \o <<token>> \o SubSeq(drafts, 1, i))
        Full(c) == LET n == Len(c) IN
            /\ \A i \in 1 .. n : c[i] \in Row(i - 1)
            /\ \A i \in 1 .. (n - 1) : c[i] = drafts[i] /\ c[i] \notin Stops
            /\ n <= Len(drafts) /\ c[n] = drafts[n] => c[n] \in Stops
    IN {c \in UNION {[1 .. n -> Tokens] : n \in 1 .. (Len(drafts) + 1)} : Full(c)}

\* Mutant of Accepted: the row after all drafts, whatever was accepted.
AcceptedAll(confirmed, drafts) == Len(drafts)

\* How many drafts were accepted, which is also the row of the last draw.
Accepted(confirmed, drafts) ==
    LET n == Len(confirmed)
    IN IF n <= Len(drafts) /\ confirmed[n] = drafts[n] THEN n ELSE n - 1

\* The tokens a batch of greedy steps may select, each fed to the next on the GPU.
SelectAhead(past, token, count) ==
    {sel \in [1 .. count -> Tokens] :
        \A i \in 1 .. count : sel[i] \in Likely(past \o <<token>> \o SubSeq(sel, 1, i - 1))}

------------------------------------------------------------------------------
(* Closing a stream: the pending commit is settled, done is decided and the   *)
(* chain is released, whichever way the body is left.                         *)

\* settleCommit: nothing without a pending commit.
Commit(q, n) ==
    IF Live(q) /\ rows[q] # <<>>
    THEN [columns |-> columns[q] \o SubSeq(rows[q], 1, n), rows |-> <<>>, frontier |-> 0]
    ELSE [columns |-> columns[q], rows |-> rows[q], frontier |-> n]

\* What commit leaves, with the given frontier rows and pending token.
SettleCommit(q, n, token) ==
    LET done == Commit(q, n) IN
    /\ columns' = [columns EXCEPT ![q] = done.columns]
    /\ rows' = [rows EXCEPT ![q] = done.rows]
    /\ frontierRows' = [frontierRows EXCEPT ![q] = done.frontier]
    /\ pendingToken' = [pendingToken EXCEPT ![q] = token]

\* Mutant of Settle: the chain's place is not given back by a stream that fails.
SettleHolding(s, outcome) ==
    /\ streams' = [streams EXCEPT ![s] = Unissued]
    /\ chain' = [chain EXCEPT ![streams[s].on] =
                    IF outcome = "failed" THEN @ ELSE Tail(@)]

\* done is settled and the chain's place given back.
Settle(s, outcome) ==
    /\ streams' = [streams EXCEPT ![s] = Unissued]
    /\ chain' = [chain EXCEPT ![streams[s].on] = Tail(@)]

\* Mutant of Finish: only the end of a cycle settles the commit.
FinishUnsettled(s, outcome, n, token) ==
    LET q == streams[s].on IN
    /\ pendingToken' = [pendingToken EXCEPT ![q] = token]
    /\ frontierRows' = [frontierRows EXCEPT ![q] = n]
    /\ Settle(s, IF Live(q) THEN outcome ELSE "failed")
    /\ UNCHANGED <<wiring, context, columns, rows, disposal>>

\* The finally of the body: a context that is gone refuses the commit, and the
\* stream fails however it was to end.
Finish(s, outcome, n, token) ==
    LET q == streams[s].on IN
    /\ SettleCommit(q, n, token)
    /\ Settle(s, IF Live(q) THEN outcome ELSE "failed")
    /\ UNCHANGED <<wiring, context, disposal>>

FinishAsIs(s, outcome) ==
    LET q == streams[s].on IN Finish(s, outcome, frontierRows[q], pendingToken[q])

------------------------------------------------------------------------------
(* Issuing a stream: its place in the chain is taken at the first pull. *)

Modes == IF wiring = "speculative" THEN {"speculative"} ELSE {"plain", "ahead"}

Generate(s) ==
    /\ streams[s].stage = "idle"
    /\ \E q \in Sequences :
           /\ context[q] \notin {"absent", "copying"} /\ ~disposal[q]
           /\ streams' = [streams EXCEPT ![s] = [Unissued EXCEPT !.stage = "issued", !.on = q]]
    /\ UNCHANGED <<wiring, context, held, disposal, chain>>

\* Closed before its first pull: done is settled, the chain never entered.
CloseUnstarted(s) ==
    /\ streams[s].stage = "issued"
    /\ streams' = [streams EXCEPT ![s] = Unissued]
    /\ UNCHANGED <<wiring, context, held, disposal, chain>>

Start(s) ==
    /\ streams[s].stage = "issued"
    /\ streams' = [streams EXCEPT ![s].stage = "queued"]
    /\ chain' = [chain EXCEPT ![streams[s].on] = Append(@, [op |-> "stream", id |-> s])]
    /\ UNCHANGED <<wiring, context, held, disposal>>

\* The past, the pending token and the budget are read once the chain is held.
\* The request was copied at issue; nothing looks at it before.
Admit(s) ==
    LET q == streams[s].on IN
    /\ Runs(s, "queued")
    /\ \E prompt \in Prompts, max \in Limits, mode \in Modes :
           LET ids == Pending(q) \o prompt
               limit == TokenLimit(max, Len(columns[q]), Len(ids))
           IN IF Live(q) /\ ids # <<>> /\ AssertBudget(Len(columns[q]), Len(ids), limit)
              THEN /\ streams' = [streams EXCEPT ![s] = [@ EXCEPT
                          !.stage = "prefill", !.mode = mode, !.prompt = ids, !.limit = limit]]
                   /\ UNCHANGED <<wiring, context, held, disposal, chain>>
              ELSE FinishAsIs(s, "failed")

------------------------------------------------------------------------------
(* Ways out of a step. *)

\* Before a run, and between two tokens of a batch read back, the signal is
\* looked at; inputs may fail to be derived, a draft to be made, a run be
\* refused; a draw may throw, which accepts no row of a verify.  Nothing was
\* changed by the step.
Interruptible(s) ==
    \/ \E stage \in {"queued", "prefill", "first", "decode"} : Runs(s, stage)
    \/ Runs(s, "deliver") /\ (streams[s].mode = "ahead" /\ streams[s].index > 0)
    \/ Runs(s, "deliver") /\ ~Live(streams[s].on)

Interrupt(s) ==
    /\ Interruptible(s)
    /\ \E outcome \in {"aborted", "failed"} : FinishAsIs(s, outcome)

\* A run fails after it submitted writes to the slots: the context is poisoned.
BreakRun(s) ==
    LET q == streams[s].on IN
    /\ "break" \in Faults
    /\ Live(q) /\ (Runs(s, "prefill") \/ Runs(s, "decode"))
    /\ context' = [context EXCEPT ![q] = "broken"]
    /\ Settle(s, "failed")
    /\ UNCHANGED <<wiring, held, disposal>>

\* The consumer pulls again, or returns, or throws into the stream.
Resume(s) ==
    /\ streams[s].resting
    /\ streams' = [streams EXCEPT ![s].resting = FALSE]
    /\ UNCHANGED <<wiring, context, held, disposal, chain>>

Close(s) ==
    /\ streams[s].resting
    /\ \E outcome \in {"closed", "failed"} : FinishAsIs(s, outcome)

------------------------------------------------------------------------------
(* The body of a stream. *)

\* The pending token entered the slots with the first chunk; a callback that
\* throws afterwards finds it fed.
Prefill(s) ==
    LET q == streams[s].on
        n == Lesser(ChunkLength, Len(streams[s].prompt))
        rest == SubSeq(streams[s].prompt, n + 1, Len(streams[s].prompt))
    IN
    /\ Runs(s, "prefill") /\ Live(q) /\ rows[q] = <<>>
    /\ columns' = [columns EXCEPT ![q] = @ \o SubSeq(streams[s].prompt, 1, n)]
    /\ pendingToken' = [pendingToken EXCEPT ![q] = NoToken]
    /\ \/ /\ streams' = [streams EXCEPT ![s] = [@ EXCEPT
                 !.stage = IF rest = <<>> THEN "first" ELSE "prefill",
                 !.prompt = rest, !.hidden = Past(s) + n - 1, !.resting = TRUE]]
          /\ UNCHANGED chain
       \/ "host" \in Faults /\ Settle(s, "failed")
    /\ UNCHANGED <<wiring, context, rows, frontierRows, disposal>>

\* A drawn token is pending; a stop token ends the stream, any other is told.
Tell(s, past, t) ==
    LET q == streams[s].on IN
    /\ columns' = [columns EXCEPT ![q] = past]
    /\ pendingToken' = [pendingToken EXCEPT ![q] = t]
    /\ IF t \in Stops THEN Settle(s, "eos")
       ELSE /\ streams' = [streams EXCEPT ![s] = [@ EXCEPT
                   !.stage = "decode", !.drawn = streams[s].drawn + 1, !.resting = TRUE,
                   !.told = [position |-> Len(past), id |-> t]]]
            /\ UNCHANGED chain
    /\ UNCHANGED <<wiring, context, rows, frontierRows, disposal>>

FirstToken(s) ==
    LET q == streams[s].on IN
    /\ Runs(s, "first") /\ Live(q)
    /\ \E t \in Draws(columns[q]) : Tell(s, columns[q], t)

ReachLimit(s) ==
    /\ Runs(s, "decode") /\ Remaining(s) = 0
    /\ FinishAsIs(s, "limit")

\* Mutant of PlainStep: the pending token is cleared by the next draw only.
PlainStepLateClear(s) ==
    LET q == streams[s].on
        past == Append(columns[q], pendingToken[q])
    IN
    /\ Runs(s, "decode") /\ streams[s].mode = "plain"
    /\ Remaining(s) > 0 /\ Live(q) /\ rows[q] = <<>>
    /\ \/ \E t \in Draws(past) : Tell(s, past, t)
       \/ /\ "host" \in Faults
          /\ columns' = [columns EXCEPT ![q] = past]
          /\ Settle(s, "failed")
          /\ UNCHANGED <<wiring, context, pendingToken, rows, frontierRows, disposal>>

\* One immediate row; the draw, or a callback before it is told, may throw.
PlainStep(s) ==
    LET q == streams[s].on
        past == Append(columns[q], pendingToken[q])
    IN
    /\ Runs(s, "decode") /\ streams[s].mode = "plain"
    /\ Remaining(s) > 0 /\ Live(q) /\ rows[q] = <<>>
    /\ \/ \E t \in Draws(past) : Tell(s, past, t)
       \/ /\ "host" \in Faults
          /\ columns' = [columns EXCEPT ![q] = past]
          /\ pendingToken' = [pendingToken EXCEPT ![q] = NoToken]
          /\ Settle(s, "failed")
          /\ UNCHANGED <<wiring, context, rows, frontierRows, disposal>>

\* Deferred rows were written, and these tokens are to be handed out.
Confirm(s, written, confirmed, row) ==
    LET q == streams[s].on IN
    /\ rows' = [rows EXCEPT ![q] = written]
    /\ frontierRows' = [frontierRows EXCEPT ![q] = 0]
    /\ streams' = [streams EXCEPT ![s] = [@ EXCEPT
           !.stage = "deliver", !.confirmed = confirmed, !.index = 0, !.hidden = Past(s) + row]]
    /\ UNCHANGED <<wiring, context, columns, pendingToken, disposal, chain>>

\* Drafts, unless the gate says plain, and one deferred run over the pending
\* token and the drafts.
VerifyCycle(s) ==
    LET q == streams[s].on
        token == pendingToken[q]
    IN
    /\ Runs(s, "decode") /\ streams[s].mode = "speculative"
    /\ Remaining(s) > 0 /\ Live(q) /\ rows[q] = <<>>
    /\ \E drafted \in {0, PlanDraftLength(s)} : \E drafts \in [1 .. drafted -> Tokens] :
           \E confirmed \in AcceptDrafts(columns[q], token, drafts) :
               Confirm(s, <<token>> \o drafts, confirmed, Accepted(confirmed, drafts))

\* A batch of deferred one-row runs, chained on the GPU.
AheadBatch(s) ==
    LET q == streams[s].on
        token == pendingToken[q]
        count == Lesser(Depth, Remaining(s))
    IN
    /\ Runs(s, "decode") /\ streams[s].mode = "ahead"
    /\ Remaining(s) > 0 /\ Live(q) /\ rows[q] = <<>>
    /\ \E sel \in SelectAhead(columns[q], token, count) :
           Confirm(s, <<token>> \o SubSeq(sel, 1, count - 1), sel, 0)

\* The next confirmed token; its row becomes frontier as it is handed out.
Deliver(s) ==
    LET q == streams[s].on
        i == streams[s].index
        t == streams[s].confirmed[i + 1]
    IN
    /\ Runs(s, "deliver") /\ i < Len(streams[s].confirmed) /\ Live(q)
    /\ IF t \in Stops
       THEN Finish(s, "eos", i + 1, t)
       ELSE /\ pendingToken' = [pendingToken EXCEPT ![q] = t]
            /\ frontierRows' = [frontierRows EXCEPT ![q] = i + 1]
            /\ streams' = [streams EXCEPT ![s] = [@ EXCEPT
                   !.index = i + 1, !.drawn = streams[s].drawn + 1, !.resting = TRUE,
                   !.told = [position |-> Len(columns[q]) + 1 + i, id |-> t]]]
            /\ UNCHANGED <<wiring, context, columns, rows, disposal, chain>>

\* Of a batch, the value read back may be refused: its row was consumed.
RefuseSelected(s) ==
    LET i == streams[s].index IN
    /\ "host" \in Faults
    /\ Runs(s, "deliver") /\ streams[s].mode = "ahead" /\ i < Len(streams[s].confirmed)
    /\ Finish(s, "failed", i + 1, NoToken)

CloseCycle(s) ==
    LET q == streams[s].on IN
    /\ Runs(s, "deliver") /\ streams[s].index = Len(streams[s].confirmed) /\ Live(q)
    /\ SettleCommit(q, frontierRows[q], pendingToken[q])
    /\ streams' = [streams EXCEPT ![s] = [@ EXCEPT
           !.stage = "decode", !.confirmed = <<>>, !.index = 0]]
    /\ UNCHANGED <<wiring, context, disposal, chain>>

------------------------------------------------------------------------------
(* Branching, disposal, loss of the device. *)

Fork(q, p) ==
    /\ context[q] \in {"live", "broken"}
    /\ ~disposal[q] /\ context[p] = "absent"
    /\ context' = [context EXCEPT ![p] = "copying"]
    /\ chain' = [chain EXCEPT ![q] = Append(@, [op |-> "fork", id |-> p])]
    /\ UNCHANGED <<wiring, held, disposal, streams>>

\* Mutant of Branch: the branch forgets the token that awaits being fed.
BranchWithoutPending(q) ==
    LET p == Head(chain[q]).id IN
    /\ chain[q] # <<>> /\ Head(chain[q]).op = "fork"
    /\ chain' = [chain EXCEPT ![q] = Tail(@)]
    /\ Live(q) /\ rows[q] = <<>>
    /\ context' = [context EXCEPT ![p] = "live"]
    /\ columns' = [columns EXCEPT ![p] = columns[q]]
    /\ UNCHANGED <<wiring, pendingToken, rows, frontierRows, disposal, streams>>

\* On the chain: the frontier and the context are copied at the same point.  A
\* branch whose assembly fails disposes its copy.
Branch(q) ==
    LET p == Head(chain[q]).id IN
    /\ chain[q] # <<>> /\ Head(chain[q]).op = "fork"
    /\ chain' = [chain EXCEPT ![q] = Tail(@)]
    /\ \/ /\ Live(q) /\ rows[q] = <<>>
          /\ context' = [context EXCEPT ![p] = "live"]
          /\ columns' = [columns EXCEPT ![p] = columns[q]]
          /\ pendingToken' = [pendingToken EXCEPT ![p] = pendingToken[q]]
       \/ /\ context' = [context EXCEPT ![p] = "absent"]
          /\ UNCHANGED <<columns, pendingToken>>
    /\ UNCHANGED <<wiring, rows, frontierRows, disposal, streams>>

Dispose(q) ==
    /\ context[q] \in {"live", "broken"} /\ ~disposal[q]
    /\ disposal' = [disposal EXCEPT ![q] = TRUE]
    /\ chain' = [chain EXCEPT ![q] = Append(@, [op |-> "dispose", id |-> q])]
    /\ UNCHANGED <<wiring, context, held, streams>>

CompleteDispose(q) ==
    /\ chain[q] # <<>> /\ Head(chain[q]).op = "dispose"
    /\ context' = [context EXCEPT ![q] = "disposed"]
    /\ chain' = [chain EXCEPT ![q] = Tail(@)]
    /\ UNCHANGED <<wiring, held, disposal, streams>>

LoseDevice ==
    /\ "loss" \in Faults
    /\ \E q \in Sequences : Live(q)
    /\ context' = [q \in Sequences |-> IF Live(q) THEN "broken" ELSE context[q]]
    /\ UNCHANGED <<wiring, held, disposal, chain, streams>>

------------------------------------------------------------------------------

Body(s) ==
    \/ Admit(s) \/ Interrupt(s) \/ BreakRun(s)
    \/ Prefill(s) \/ FirstToken(s) \/ ReachLimit(s) \/ PlainStep(s)
    \/ VerifyCycle(s) \/ AheadBatch(s) \/ Deliver(s) \/ RefuseSelected(s) \/ CloseCycle(s)

Consume(s) == Resume(s) \/ Close(s)

Next ==
    \/ \E s \in Streams :
           Generate(s) \/ CloseUnstarted(s) \/ Start(s) \/ Body(s) \/ Consume(s)
    \/ \E q \in Sequences :
           \/ \E p \in Sequences : Fork(q, p)
           \/ Branch(q) \/ Dispose(q) \/ CompleteDispose(q)
    \/ LoseDevice

Spec == Init /\ [][Next]_vars

\* Runs and chain operations end, and whoever holds a stream comes back to it,
\* to pull or to close it.
Fairness ==
    /\ \A s \in Streams : WF_vars(Body(s)) /\ WF_vars(Consume(s))
    /\ \A q \in Sequences : WF_vars(Branch(q)) /\ WF_vars(CompleteDispose(q))

FairSpec == Spec /\ Fairness

------------------------------------------------------------------------------
(* Properties. *)

\* assertBudget and planDraftLength together: whatever a turn's prompt, limit
\* and drafts, no run writes past the capacity of the full slots, nor looks up a
\* position past the table.
RowsFitCapacity ==
    \A q \in Sequences :
        Live(q) => Len(columns[q]) + Len(rows[q]) <= Lesser(Capacity, MaxPosition)

\* used: read when a token was told, it is the token's position plus one, with
\* the token's row committed or still pending.
UsedFollowsToken ==
    \A s \in Streams :
        streams[s].resting /\ streams[s].drawn > 0 /\ Live(streams[s].on)
            => Used(streams[s].on) = streams[s].told.position + 1

\* The drafter is given the hidden row of the last committed column: with any
\* other it drafts for another place of the conversation.
DraftsFromLastRow ==
    \A s \in Streams :
        Runs(s, "decode") /\ streams[s].mode = "speculative" /\ Live(streams[s].on)
            /\ Remaining(s) > 0
            => streams[s].hidden = Past(s) - 1

\* settleCommit is passed on every way out of a delivery: no turn, branch or
\* disposal, and no run of the same turn, finds rows awaiting a commit.
NothingLeftUncommitted ==
    \A q \in Sequences :
        Live(q) /\ (\A s \in Streams : streams[s].on = q => streams[s].stage # "deliver")
            => rows[q] = <<>> /\ frontierRows[q] = 0

\* A started stream settles done and frees the chain, a fork is decided and a
\* disposal takes place, provided consumers come back to the streams they hold.
ChainsDrain ==
    /\ \A s \in Streams : streams[s].stage = "queued" ~> streams[s].stage = "idle"
    /\ \A q \in Sequences :
           /\ context[q] = "copying" ~> context[q] # "copying"
           /\ disposal[q] ~> context[q] = "disposed"
===============================================================================
