--------------------------- MODULE GenerationContext ---------------------------
(******************************************************************************)
(* The state containers of generation (runtime/generation-context.ts) and the *)
(* part of Session that drives them (runtime/executor.ts): run leases and     *)
(* chained reservations, the logical length and the rows awaiting a commit,   *)
(* poisoning, borrowing, forking, and the two-step disposal on the Session's  *)
(* serialisation chain.  Callers act between any two steps of an accepted run,*)
(* as the code's awaits allow.                                                *)
(*                                                                            *)
(* Two Sessions share the device: "target", whose contexts own their slots,   *)
(* and "drafter", whose contexts borrow the slots of a target context.  At    *)
(* most one BatchScope exists at a time (beginBatch takes the device's scope  *)
(* lock); the lock itself and the order it is granted in belong to the module *)
(* DeviceScheduling, here bodies of different Sessions interleave freely.     *)
(******************************************************************************)
EXTENDS StateSlot, Sequences, FiniteSets

CONSTANTS
    Contexts,           \* every GenerationContext that may come to exist
    Main,               \* the context that exists initially
    Runs,               \* identities of unsettled runs, reused when idle
    Tags,               \* contents a run may compute for its rows
    NoContext, NoTag,
    ChunkLength,        \* rows of the prefill shape of an owning context
    QueryLengths,       \* real row counts a caller issues runs with
    MaxLogicalLength,   \* MAX_LOGICAL_LENGTH, 2^32 - 1 in the code
    Scopes,             \* ways of issuing runs: "run" (Session.run), "batch"
    Faults              \* what may go wrong around a run, see FaultKinds

\* A body fails with nothing submitted, or after a submit in its middle; a run
\* fails once all is submitted (readback, flush, error scope); the device is lost.
FaultKinds == {"discard", "break", "late", "loss"}

ASSUME ContextAssumption ==
    /\ Main \in Contexts /\ NoContext \notin Contexts
    /\ NoTag \notin Tags
    /\ Runs \cap Contexts = {}
    /\ ChunkLength \in Nat \ {0}
    /\ QueryLengths \subseteq Nat \ {0}
    /\ MaxLogicalLength \in Nat
    /\ Scopes \subseteq {"run", "batch"}
    /\ Faults \subseteq FaultKinds

VARIABLES
    phase,        \* life of a context
    lender,       \* the context whose slots it borrows, or NoContext
    borrowers,    \* contexts registered as borrowing its slots
    pastLength,   \* committed rows (a borrower: its last copy)
    pending,      \* the uncommitted range, or NoPending
    chain,        \* the chained runs in flight, or NoChain
    runKind,      \* the use reservation
    poisoned,
    slots,        \* physical rows of the slots it owns
    runs,         \* what is known of every unsettled run
    queue,        \* serialisation chain of each Session: runs and disposals
    batch,        \* the open BatchScope
    lost,         \* the device was lost
    history       \* ghost: the tag each column was accepted with

contextVars == <<phase, lender, borrowers, pastLength, pending, chain, runKind,
                 poisoned, slots, history>>
vars == <<phase, lender, borrowers, pastLength, pending, chain, runKind,
          poisoned, slots, runs, queue, batch, lost, history>>

Sessions == {"target", "drafter"}
Phases == {"absent", "allocating", "open", "closing", "disposed", "closed"}
Stages == {"idle", "queued", "started", "written", "failed", "settled"}
Modes == {"immediate", "deferred", "chained"}

\* Columns a run can reach: a deferred run is bounded only when it is committed.
Columns == 0 .. (MaxLogicalLength + ChunkLength)

NoPending == [pastLength |-> 0, queryLength |-> 0]
NoChain == [scope |-> "run", runs |-> {}, end |-> 0]
IdleRun == [stage |-> "idle", ctx |-> Main, kind |-> "run", mode |-> "immediate",
            query |-> 1, start |-> 0, tag |-> NoTag, wrote |-> FALSE]
EmptySlots == [s \in Slots |-> [row \in Rows(s) |-> Unwritten]]
NoHistory == [col \in Columns |-> NoTag]

Init ==
    /\ phase = [c \in Contexts |-> IF c = Main THEN "open" ELSE "absent"]
    /\ lender = [c \in Contexts |-> NoContext]
    /\ borrowers = [c \in Contexts |-> {}]
    /\ pastLength = [c \in Contexts |-> 0]
    /\ pending = [c \in Contexts |-> NoPending]
    /\ chain = [c \in Contexts |-> NoChain]
    /\ runKind = [c \in Contexts |-> "none"]
    /\ poisoned = [c \in Contexts |-> FALSE]
    /\ slots = [c \in Contexts |-> EmptySlots]
    /\ runs = [r \in Runs |-> IdleRun]
    /\ queue = [session \in Sessions |-> <<>>]
    /\ batch = [state |-> "none", failed |-> FALSE]
    /\ lost = FALSE
    /\ history = [c \in Contexts |-> NoHistory]

------------------------------------------------------------------------------
(* What the operations ask of a context. *)

IsBorrowing(c) == lender[c] # NoContext
Owner(c) == IF IsBorrowing(c) THEN lender[c] ELSE c
SessionOf(c) == IF IsBorrowing(c) THEN "drafter" ELSE "target"
ChunkRows(c) == IF IsBorrowing(c) THEN 1 ELSE ChunkLength

\* Every user-facing operation, and the internal ones of an accepted run.
IsLive(c) == ~lost /\ ~poisoned[c]
Usable(c) == phase[c] = "open" /\ IsLive(c)
InternalUsable(c) == phase[c] \in {"open", "closing"} /\ IsLive(c)

AwaitsCommit(c) == pending[c] # NoPending
UncommittedEnd(c) ==
    IF AwaitsCommit(c) THEN pending[c].pastLength + pending[c].queryLength
    ELSE pastLength[c]

\* No run holds the context and nothing awaits a commit.
Quiescent(c) == Usable(c) /\ runKind[c] = "none" /\ ~AwaitsCommit(c)

RunsOf(c) == {r \in Runs : runs[r].stage # "idle" /\ runs[r].ctx = c}

\* enqueue: the BatchScope takes new work and no Session.run is unsettled.
EnqueueAdmissible(c) ==
    /\ batch.state = "open"
    /\ \A r \in Runs : runs[r].stage # "idle" /\ runs[r].kind = "run"
                           => SessionOf(runs[r].ctx) # SessionOf(c)

Admissible(scope, c) == scope = "batch" => EnqueueAdmissible(c)

\* The chain with one more reservation, and with one returned: the last one
\* hands its rows back, so the next chained run takes the same position.
Reserve(ch, r, start, query, scope) ==
    [scope |-> scope, runs |-> ch.runs \cup {r}, end |-> start + query]
Return(ch, r, start, query) ==
    IF ch.runs = {r} THEN NoChain
    ELSE [scope |-> ch.scope, runs |-> ch.runs \ {r},
          end |-> IF ch.end = start + query THEN start ELSE ch.end]

\* Mutant of ChainStart: forgets the runs of the chain in flight.
ChainStartAtPending(c) == UncommittedEnd(c)

ChainStart(c) == IF chain[c] # NoChain THEN chain[c].end ELSE UncommittedEnd(c)

CanReserve(c, query, scope) ==
    /\ Usable(c) /\ ~IsBorrowing(c)
    /\ query <= ChunkLength
    /\ \/ runKind[c] = "none"
       \/ chain[c] # NoChain /\ scope = "batch" /\ chain[c].scope = "batch"
    /\ LET end == ChainStart(c) + query
           rows == end - pastLength[c]
       IN WithinSlack(rows) /\ rows <= ChunkLength /\ end <= MaxLogicalLength

------------------------------------------------------------------------------
(* Issuing: Session.run and Session.enqueue up to joining the chain. *)

Accept(r, c, query, mode, scope, start, tag) ==
    /\ runs' = [runs EXCEPT ![r] =
                  [stage |-> "queued", ctx |-> c, kind |-> scope, mode |-> mode,
                   query |-> query, start |-> start, tag |-> tag, wrote |-> FALSE]]
    /\ queue' = [queue EXCEPT ![SessionOf(c)] = Append(@, r)]
    /\ UNCHANGED <<phase, lender, borrowers, pastLength, pending, poisoned,
                   slots, batch, lost, history>>

\* Mutant of IssuePlain: a borrower's run does not hold its lender.
IssueWithoutLender(r, c, query, mode, scope, tag) ==
    /\ runs[r].stage = "idle"
    /\ mode \in {"immediate", "deferred"}
    /\ mode = "deferred" => ~IsBorrowing(c) /\ WithinSlack(query)
    /\ Admissible(scope, c)
    /\ Quiescent(c)
    /\ IF IsBorrowing(c) THEN tag = NoTag ELSE tag \in Tags
    /\ runKind' = [runKind EXCEPT ![c] = scope]
    /\ Accept(r, c, query, mode, scope, 0, tag)
    /\ UNCHANGED chain

\* acquireRun: a borrower also takes the lease of its lender.
IssuePlain(r, c, query, mode, scope, tag) ==
    /\ runs[r].stage = "idle"
    /\ mode \in {"immediate", "deferred"}
    /\ mode = "deferred" => ~IsBorrowing(c) /\ WithinSlack(query)
    /\ Admissible(scope, c)
    /\ Quiescent(c)
    /\ IsBorrowing(c) => Quiescent(lender[c]) /\ tag = NoTag
    /\ ~IsBorrowing(c) => tag \in Tags
    /\ runKind' = [x \in Contexts |->
                     IF x \in {c, Owner(c)} THEN scope ELSE runKind[x]]
    /\ Accept(r, c, query, mode, scope, 0, tag)
    /\ UNCHANGED chain

\* acquireChainedRun: the position is decided here, at issue.
IssueChained(r, c, query, scope, tag) ==
    /\ runs[r].stage = "idle"
    /\ tag \in Tags
    /\ WithinSlack(query)
    /\ Admissible(scope, c)
    /\ CanReserve(c, query, scope)
    /\ chain' = [chain EXCEPT ![c] = Reserve(@, r, ChainStart(c), query, scope)]
    /\ runKind' = [runKind EXCEPT ![c] = scope]
    /\ Accept(r, c, query, "chained", scope, ChainStart(c), tag)

\* Mutant of RefuseChained: the reservation is not returned.
RefuseLeaking(r, c, query) ==
    /\ runs[r].stage = "idle"
    /\ batch.state = "finished"
    /\ WithinSlack(query)
    /\ CanReserve(c, query, "batch")
    /\ chain' = [chain EXCEPT ![c] = Reserve(@, r, ChainStart(c), query, "batch")]
    /\ runKind' = [runKind EXCEPT ![c] = "batch"]
    /\ UNCHANGED <<phase, lender, borrowers, pastLength, pending, poisoned,
                   slots, runs, queue, batch, lost, history>>

\* enqueue on a batch that finished: enter() throws after the reservation, which
\* is returned on the spot.
RefuseChained(r, c, query) ==
    LET start == ChainStart(c)
        after == Return(Reserve(chain[c], r, start, query, "batch"), r, start, query)
    IN /\ runs[r].stage = "idle"
       /\ batch.state = "finished"
       /\ WithinSlack(query)
       /\ \A x \in Runs : runs[x].stage # "idle" /\ runs[x].kind = "run"
                              => SessionOf(runs[x].ctx) # SessionOf(c)
       /\ CanReserve(c, query, "batch")
       /\ chain' = [chain EXCEPT ![c] = after]
       /\ runKind' = [runKind EXCEPT ![c] = IF after = NoChain THEN "none" ELSE "batch"]
       /\ UNCHANGED <<phase, lender, borrowers, pastLength, pending, poisoned,
                      slots, runs, queue, batch, lost, history>>

------------------------------------------------------------------------------
(* The body of an accepted run, at the head of its Session's chain. *)

AtHead(job, session) == queue[session] # <<>> /\ Head(queue[session]) = job
Dequeue(session) == queue' = [queue EXCEPT ![session] = Tail(@)]

\* Mutant of EndBody: a failed body stays at the head of the chain.
EndBodyKeepingHead(r, ok, wrote) ==
    /\ runs' = [runs EXCEPT ![r] =
                  [@ EXCEPT !.stage = IF ok THEN "written" ELSE "failed", !.wrote = wrote]]
    /\ IF ok /\ runs[r].kind = "batch" THEN Dequeue(SessionOf(runs[r].ctx))
       ELSE UNCHANGED queue
    /\ batch' = [batch EXCEPT !.failed = @ \/ (~ok /\ runs[r].kind = "batch")]
    /\ UNCHANGED poisoned

\* Mutant of EndBody: an enqueue that failed does not fail its batch.
EndBodyUnreported(r, ok, wrote) ==
    LET run == runs[r] IN
    /\ runs' = [runs EXCEPT ![r] =
                  [@ EXCEPT !.stage = IF ok THEN "written" ELSE "failed", !.wrote = wrote]]
    /\ IF run.kind = "run"
       THEN UNCHANGED <<queue, poisoned>>
       ELSE /\ Dequeue(SessionOf(run.ctx))
            /\ poisoned' = [poisoned EXCEPT ![run.ctx] = @ \/ (~ok /\ wrote)]
    /\ UNCHANGED batch

\* The body ended: a run still settles under its own lease, an enqueue leaves
\* the batch (a failure poisons at once and is what finish() reports).
EndBody(r, ok, wrote) ==
    LET run == runs[r] IN
    /\ runs' = [runs EXCEPT ![r] =
                  [@ EXCEPT !.stage = IF ok THEN "written" ELSE "failed", !.wrote = wrote]]
    /\ IF run.kind = "run"
       THEN UNCHANGED <<queue, batch, poisoned>>
       ELSE /\ Dequeue(SessionOf(run.ctx))
            /\ batch' = [batch EXCEPT !.failed = @ \/ ~ok]
            /\ poisoned' = [poisoned EXCEPT ![run.ctx] = @ \/ (~ok /\ wrote)]

\* The head of the body reads the logical length once; a borrower copies its
\* lender's.  A context disposed, lost or poisoned meanwhile fails the run.
StartBody(r) ==
    LET run == runs[r]
        c == run.ctx
    IN /\ run.stage = "queued"
       /\ AtHead(r, SessionOf(c))
       /\ IF InternalUsable(c) /\ InternalUsable(Owner(c))
          THEN /\ runs' = [runs EXCEPT ![r] =
                    [@ EXCEPT !.stage = "started",
                              !.start = IF run.mode = "chained" THEN run.start
                                        ELSE pastLength[Owner(c)]]]
               /\ pastLength' = [pastLength EXCEPT ![c] = pastLength[Owner(c)]]
               /\ UNCHANGED <<queue, batch, poisoned>>
          ELSE /\ EndBody(r, FALSE, FALSE)
               /\ UNCHANGED pastLength
       /\ UNCHANGED <<phase, lender, borrowers, pending, chain, runKind, slots,
                      lost, history>>

\* The checks made before the first dispatch is encoded.
PassesLimits(r) ==
    LET run == runs[r]
        c == run.ctx
    IN /\ InternalUsable(c)
       /\ IF run.mode = "chained" THEN r \in chain[c].runs
          ELSE run.start = pastLength[c]
       /\ run.query <= ChunkRows(c)
       /\ ~IsBorrowing(c) => FitsFullSlots(run.start, run.query)

WriteSlots(run) ==
    slots' = [slots EXCEPT ![run.ctx] =
                [s \in Slots |-> Appended(s, @[s], run.start, run.query, run.tag)]]

\* Every dispatch was submitted: the rows of an owner's run are in its slots.
WriteBody(r) ==
    LET c == runs[r].ctx IN
    /\ runs[r].stage = "started"
    /\ PassesLimits(r)
    /\ EndBody(r, TRUE, ~IsBorrowing(c))
    /\ IF IsBorrowing(c) THEN UNCHANGED slots ELSE WriteSlots(runs[r])
    /\ UNCHANGED <<phase, lender, borrowers, pastLength, pending, chain, runKind,
                   lost, history>>

\* The body failed with nothing submitted, by a limit or for another reason:
\* what it encoded was discarded.
DropBody(r) ==
    /\ runs[r].stage = "started"
    /\ PassesLimits(r) => "discard" \in Faults
    /\ EndBody(r, FALSE, FALSE)
    /\ UNCHANGED <<phase, lender, borrowers, pastLength, pending, chain, runKind,
                   slots, lost, history>>

\* The body failed after a submit in its middle: which rows were written is
\* unknown, so none counts as holding anything.
BreakBody(r) ==
    /\ "break" \in Faults
    /\ runs[r].stage = "started"
    /\ PassesLimits(r)
    /\ ~IsBorrowing(runs[r].ctx)
    /\ EndBody(r, FALSE, TRUE)
    /\ slots' = [slots EXCEPT ![runs[r].ctx] = EmptySlots]
    /\ UNCHANGED <<phase, lender, borrowers, pastLength, pending, chain, runKind,
                   lost, history>>

------------------------------------------------------------------------------
(* Settlement: advance, defer, poison, and the return of the lease. *)

RunEnd(r) == runs[r].start + runs[r].query

\* Mutant of Joined: the operands of the subtraction are swapped.
JoinedSwapped(c, R) ==
    LET first == IF AwaitsCommit(c) THEN pending[c].pastLength ELSE pastLength[c]
    IN [pastLength |-> first, queryLength |-> first - RunEnd(CHOOSE r \in R : TRUE)]

\* The range of rows awaiting a commit once the runs R of context c joined it.
Joined(c, R) ==
    LET first == IF AwaitsCommit(c) THEN pending[c].pastLength ELSE pastLength[c]
        end == CHOOSE e \in {RunEnd(r) : r \in R} : \A r \in R : RunEnd(r) <= e
    IN [pastLength |-> first, queryLength |-> end - first]

\* The runs R of context c, in the order they were accepted, each continue the
\* uncommitted range exactly, as extendPending demands of every one of them.
ContinueRange(c, R) ==
    /\ \E r \in R : runs[r].start = UncommittedEnd(c)
    /\ \A r \in R : \/ runs[r].start = UncommittedEnd(c)
                    \/ \E x \in R : RunEnd(x) = runs[r].start

Recorded(c, R) ==
    [col \in Columns |->
        IF \E r \in R : runs[r].start <= col /\ col < RunEnd(r)
        THEN runs[CHOOSE r \in R : runs[r].start <= col /\ col < RunEnd(r)].tag
        ELSE history[c][col]]

\* The successful runs R of one context may conclude together: one plain run,
\* or the chained runs of a batch.  A borrower's run has nothing to advance.
CanConclude(c, R) ==
    IsBorrowing(c) \/
    /\ InternalUsable(c)
    /\ \A r \in R : runs[r].mode # "chained" =>
          /\ runs[r].start = pastLength[c]
          /\ runs[r].mode = "immediate" => RunEnd(r) <= MaxLogicalLength
          /\ runs[r].mode = "deferred" => ~AwaitsCommit(c)
    /\ (\E r \in R : runs[r].mode = "chained") => ContinueRange(c, R)

\* What advance, or defer, leaves of context c when the runs R succeed.
Advances(c, R) == ~IsBorrowing(c) /\ \E r \in R : runs[r].mode = "immediate"
Defers(c, R) == ~IsBorrowing(c) /\ \E r \in R : runs[r].mode # "immediate"

NextPastLength(c, R) ==
    IF Advances(c, R) THEN pastLength[c] + runs[CHOOSE r \in R : TRUE].query
    ELSE pastLength[c]
NextPending(c, R) == IF Defers(c, R) THEN Joined(c, R) ELSE pending[c]
NextHistory(c, R) ==
    IF Advances(c, R) \/ Defers(c, R) THEN Recorded(c, R) ELSE history[c]

\* Session.run: the result is decided, the lease is not returned yet.  A run
\* whose rows were submitted and that fails after all poisons its context.
SettleRun(r) ==
    LET c == runs[r].ctx IN
    /\ runs[r].kind = "run"
    /\ runs[r].stage \in {"written", "failed"}
    /\ \/ /\ runs[r].stage = "written"
          /\ CanConclude(c, {r})
          /\ pastLength' = [pastLength EXCEPT ![c] = NextPastLength(c, {r})]
          /\ pending' = [pending EXCEPT ![c] = NextPending(c, {r})]
          /\ history' = [history EXCEPT ![c] = NextHistory(c, {r})]
          /\ UNCHANGED poisoned
       \/ /\ runs[r].stage = "failed" \/ "late" \in Faults \/ ~CanConclude(c, {r})
          /\ poisoned' = [poisoned EXCEPT ![c] = @ \/ runs[r].wrote]
          /\ UNCHANGED <<pastLength, pending, history>>
    /\ runs' = [runs EXCEPT ![r].stage = "settled"]
    /\ UNCHANGED <<phase, lender, borrowers, chain, runKind, slots, queue, batch,
                   lost>>

\* releaseRun, in the finally of Session.run.
ReleaseRun(r) ==
    LET run == runs[r]
        c == run.ctx
    IN /\ run.stage = "settled"
       /\ chain' = IF run.mode = "chained"
                   THEN [chain EXCEPT ![c] = Return(@, r, run.start, run.query)]
                   ELSE chain
       /\ runKind' = [x \in Contexts |->
                        IF x \in {c, Owner(c)} /\ chain'[c] = NoChain
                        THEN "none" ELSE runKind[x]]
       /\ runs' = [runs EXCEPT ![r] = IdleRun]
       /\ Dequeue(SessionOf(c))
       /\ UNCHANGED <<phase, lender, borrowers, pastLength, pending, poisoned,
                      slots, batch, lost, history>>

BeginBatch ==
    /\ "batch" \in Scopes
    /\ batch.state = "none" /\ ~lost
    /\ batch' = [state |-> "open", failed |-> FALSE]
    /\ UNCHANGED <<contextVars, runs, queue, lost>>

FinishBatch ==
    /\ batch.state = "open"
    /\ batch' = [batch EXCEPT !.state = "finished"]
    /\ UNCHANGED <<contextVars, runs, queue, lost>>

BatchRuns == {r \in Runs : runs[r].kind = "batch" /\ runs[r].stage # "idle"}

\* The completions of resolveFinish, in the order of the enqueues: those of the
\* runs R went through, each judged by its own context; that of x, the next run of
\* its context, throws.  A context without a run in the batch has no part in it.
Completes(R) ==
    \A c \in Contexts : R \cap RunsOf(c) # {} => CanConclude(c, R \cap RunsOf(c))
Throws(R, x) ==
    LET c == runs[x].ctx IN
    /\ x \notin R
    /\ \A y \in BatchRuns \cap RunsOf(c) : runs[y].start < runs[x].start => y \in R
    /\ ~CanConclude(c, (R \cup {x}) \cap RunsOf(c))

\* resolveFinish, one synchronous section once every enqueue left the batch.
\* Unless an enqueue or the device failed the runs complete, up to the first that
\* throws.  A failure then poisons every context a run of the batch wrote to, those
\* whose runs had completed included, and every lease is returned.
SettleBatch ==
    LET Held(c) == \E r \in BatchRuns : c \in {runs[r].ctx, Owner(runs[r].ctx)}
        Sound == ~batch.failed /\ ~lost
    IN /\ batch.state = "finished"
       /\ \A r \in BatchRuns : runs[r].stage \in {"written", "failed"}
       /\ \E R \in SUBSET BatchRuns :
             /\ Completes(R)
             /\ pastLength' = [c \in Contexts |-> NextPastLength(c, R \cap RunsOf(c))]
             /\ pending' = [c \in Contexts |-> NextPending(c, R \cap RunsOf(c))]
             /\ history' = [c \in Contexts |-> NextHistory(c, R \cap RunsOf(c))]
             /\ \/ Sound /\ R = BatchRuns /\ UNCHANGED poisoned
                \/ /\ \/ R = {} /\ (~Sound \/ "late" \in Faults)
                      \/ Sound /\ \E x \in BatchRuns : Throws(R, x)
                   /\ poisoned' = [c \in Contexts |-> poisoned[c] \/
                         \E r \in BatchRuns \cap RunsOf(c) : runs[r].wrote]
       /\ chain' = [c \in Contexts |-> IF Held(c) THEN NoChain ELSE chain[c]]
       /\ runKind' = [c \in Contexts |-> IF Held(c) THEN "none" ELSE runKind[c]]
       /\ runs' = [r \in Runs |-> IF r \in BatchRuns THEN IdleRun ELSE runs[r]]
       /\ batch' = [state |-> "none", failed |-> FALSE]
       /\ UNCHANGED <<phase, lender, borrowers, slots, queue, lost>>

------------------------------------------------------------------------------
(* The user-facing operations that move the logical length. *)

Forgotten(c, from) == [col \in Columns |-> IF col < from THEN history[c][col] ELSE NoTag]

Commit(c, rows) ==
    LET next == pending[c].pastLength + rows IN
    /\ Usable(c) /\ ~IsBorrowing(c)
    /\ runKind[c] = "none"
    /\ AwaitsCommit(c)
    /\ rows <= pending[c].queryLength
    /\ pending[c].pastLength = pastLength[c]
    /\ next <= MaxLogicalLength
    /\ pastLength' = [pastLength EXCEPT ![c] = next]
    /\ pending' = [pending EXCEPT ![c] = NoPending]
    /\ history' = [history EXCEPT ![c] = Forgotten(c, next)]
    /\ UNCHANGED <<phase, lender, borrowers, chain, runKind, poisoned, slots,
                   runs, queue, batch, lost>>

Rewind(c, position) ==
    /\ Quiescent(c) /\ ~IsBorrowing(c)
    /\ SlidingSlots = {}
    /\ position <= pastLength[c]
    /\ pastLength' = [pastLength EXCEPT ![c] = position]
    /\ history' = [history EXCEPT ![c] = Forgotten(c, position)]
    /\ UNCHANGED <<phase, lender, borrowers, pending, chain, runKind, poisoned,
                   slots, runs, queue, batch, lost>>

------------------------------------------------------------------------------
(* Borrowing, forking and disposing. *)

\* createGenerationContext({ borrow }): the lender is checked, then again when
\* the allocation returned and the borrower registers.  An allocation can fail.
Borrow(c, d) ==
    /\ phase[d] = "absent"
    /\ Usable(c) /\ ~IsBorrowing(c)
    /\ phase' = [phase EXCEPT ![d] = "allocating"]
    /\ lender' = [lender EXCEPT ![d] = c]
    /\ UNCHANGED <<borrowers, pastLength, pending, chain, runKind, poisoned,
                   slots, runs, queue, batch, lost, history>>

\* Mutant of RegisterBorrower: the lender is not looked at again.
RegisterUnchecked(d) ==
    /\ phase[d] = "allocating" /\ IsBorrowing(d)
    /\ phase' = [phase EXCEPT ![d] = "open"]
    /\ borrowers' = [borrowers EXCEPT ![lender[d]] = @ \cup {d}]
    /\ UNCHANGED <<lender, pastLength, pending, chain, runKind, poisoned, slots,
                   runs, queue, batch, lost, history>>

RegisterBorrower(d) ==
    LET c == lender[d] IN
    /\ phase[d] = "allocating" /\ IsBorrowing(d)
    /\ \/ /\ Usable(c)
          /\ phase' = [phase EXCEPT ![d] = "open"]
          /\ borrowers' = [borrowers EXCEPT ![c] = @ \cup {d}]
       \/ /\ phase' = [phase EXCEPT ![d] = "closed"]
          /\ UNCHANGED borrowers
    /\ UNCHANGED <<lender, pastLength, pending, chain, runKind, poisoned, slots,
                   runs, queue, batch, lost, history>>

\* Mutant of Fork: a context with a run in flight is copied.
ForkWhileRunning(c, d) ==
    /\ phase[d] = "absent"
    /\ Usable(c) /\ ~IsBorrowing(c) /\ ~AwaitsCommit(c)
    /\ phase' = [phase EXCEPT ![d] = "allocating"]
    /\ pastLength' = [pastLength EXCEPT ![d] = pastLength[c]]
    /\ slots' = [slots EXCEPT ![d] = slots[c]]
    /\ history' = [history EXCEPT ![d] = history[c]]
    /\ UNCHANGED <<lender, borrowers, pending, chain, runKind, poisoned, runs,
                   queue, batch, lost>>

\* fork: the length is captured and the copy submitted in the call itself, so
\* the source is free to go on while the copy is being allocated.
Fork(c, d) ==
    /\ phase[d] = "absent"
    /\ Quiescent(c) /\ ~IsBorrowing(c)
    /\ phase' = [phase EXCEPT ![d] = "allocating"]
    /\ pastLength' = [pastLength EXCEPT ![d] = pastLength[c]]
    /\ slots' = [slots EXCEPT ![d] = slots[c]]
    /\ history' = [history EXCEPT ![d] = history[c]]
    /\ UNCHANGED <<lender, borrowers, pending, chain, runKind, poisoned, runs,
                   queue, batch, lost>>

AdoptFork(d) ==
    /\ phase[d] = "allocating" /\ ~IsBorrowing(d)
    /\ \E outcome \in {"open", "closed"} : phase' = [phase EXCEPT ![d] = outcome]
    /\ UNCHANGED <<lender, borrowers, pastLength, pending, chain, runKind,
                   poisoned, slots, runs, queue, batch, lost, history>>

\* dispose, first step: admission closes and the disposal joins the chain.
Dispose(c) ==
    /\ phase[c] = "open"
    /\ runKind[c] # "batch"
    /\ borrowers[c] = {}
    /\ phase' = [phase EXCEPT ![c] = "closing"]
    /\ queue' = [queue EXCEPT ![SessionOf(c)] = Append(@, c)]
    /\ UNCHANGED <<lender, borrowers, pastLength, pending, chain, runKind,
                   poisoned, slots, runs, batch, lost, history>>

\* Mutant of StartDisposal: it does not wait for its turn on the chain.
StartDisposalAtOnce(c) ==
    /\ phase[c] = "closing"
    /\ phase' = [phase EXCEPT ![c] = "disposed"]
    /\ UNCHANGED <<lender, borrowers, pastLength, pending, chain, runKind,
                   poisoned, slots, runs, queue, batch, lost, history>>

\* Second step: the internal surface closes and the flush is awaited.
StartDisposal(c) ==
    /\ phase[c] = "closing"
    /\ AtHead(c, SessionOf(c))
    /\ phase' = [phase EXCEPT ![c] = "disposed"]
    /\ UNCHANGED <<lender, borrowers, pastLength, pending, chain, runKind,
                   poisoned, slots, runs, queue, batch, lost, history>>

\* The slots are destroyed, or the lender forgets its borrower.
FinishDisposal(c) ==
    /\ phase[c] = "disposed"
    /\ phase' = [phase EXCEPT ![c] = "closed"]
    /\ IF IsBorrowing(c)
       THEN /\ borrowers' = [borrowers EXCEPT ![lender[c]] = @ \ {c}]
            /\ UNCHANGED slots
       ELSE /\ slots' = [slots EXCEPT ![c] = EmptySlots]
            /\ UNCHANGED borrowers
    /\ pending' = [pending EXCEPT ![c] = NoPending]
    /\ Dequeue(SessionOf(c))
    /\ UNCHANGED <<lender, pastLength, chain, runKind, poisoned, runs, batch,
                   lost, history>>

DeviceLoss ==
    /\ "loss" \in Faults /\ ~lost
    /\ lost' = TRUE
    /\ UNCHANGED <<contextVars, runs, queue, batch>>

------------------------------------------------------------------------------
Issue(r) ==
    \E c \in Contexts, query \in QueryLengths, scope \in Scopes,
       tag \in Tags \cup {NoTag} :
        \/ \E mode \in {"immediate", "deferred"} :
              IssuePlain(r, c, query, mode, scope, tag)
        \/ IssueChained(r, c, query, scope, tag)
        \/ RefuseChained(r, c, query)

RunStep(r) ==
    \/ StartBody(r)
    \/ WriteBody(r)
    \/ DropBody(r)
    \/ BreakBody(r)
    \/ SettleRun(r)
    \/ ReleaseRun(r)

ContextStep(c) ==
    \/ \E rows \in 0 .. ChunkLength : Commit(c, rows)
    \/ \E position \in 0 .. MaxLogicalLength : Rewind(c, position)
    \/ \E d \in Contexts : Borrow(c, d) \/ Fork(c, d)
    \/ RegisterBorrower(c)
    \/ AdoptFork(c)
    \/ Dispose(c)
    \/ StartDisposal(c)
    \/ FinishDisposal(c)

Next ==
    \/ \E r \in Runs : Issue(r) \/ RunStep(r)
    \/ \E c \in Contexts : ContextStep(c)
    \/ BeginBatch
    \/ FinishBatch
    \/ SettleBatch
    \/ DeviceLoss

Spec == Init /\ [][Next]_vars

\* The host runs what it queued, the device answers or is lost, and whoever
\* opened a batch finishes it (await using).  Callers owe nothing else.
Fairness ==
    /\ \A r \in Runs : WF_vars(StartBody(r) \/ WriteBody(r) \/ DropBody(r))
                       /\ WF_vars(SettleRun(r)) /\ WF_vars(ReleaseRun(r))
    /\ \A c \in Contexts : WF_vars(StartDisposal(c)) /\ WF_vars(FinishDisposal(c))
    /\ WF_vars(FinishBatch)
    /\ WF_vars(SettleBatch)

FairSpec == Spec /\ Fairness

------------------------------------------------------------------------------
Run == [stage : Stages, ctx : Contexts, kind : {"run", "batch"}, mode : Modes,
        query : Nat, start : Nat, tag : Tags \cup {NoTag}, wrote : BOOLEAN]
Row == {Unwritten} \cup (Nat \X (Tags \cup {NoTag}))

ContextTypes ==
    /\ phase \in [Contexts -> Phases]
    /\ lender \in [Contexts -> Contexts \cup {NoContext}]
    /\ borrowers \in [Contexts -> SUBSET Contexts]

LengthTypes ==
    /\ pastLength \in [Contexts -> Nat]
    /\ pending \in [Contexts -> [pastLength : Nat, queryLength : Nat]]
    /\ poisoned \in [Contexts -> BOOLEAN]
    /\ history \in [Contexts -> [Columns -> Tags \cup {NoTag}]]

SlotTypes ==
    /\ slots = [c \in Contexts |-> slots[c]]
    /\ \A c \in Contexts : slots[c] = [s \in Slots |-> slots[c][s]]
    /\ \A c \in Contexts, s \in Slots : slots[c][s] \in [Rows(s) -> Row]

RunTypes ==
    /\ runs \in [Runs -> Run]
    /\ chain \in [Contexts -> [scope : {"run", "batch"}, runs : SUBSET Runs, end : Nat]]
    /\ runKind \in [Contexts -> {"none", "run", "batch"}]

QueueTypes == queue \in [Sessions -> Seq(Runs \cup Contexts)]

BatchTypes ==
    /\ batch \in [state : {"none", "open", "finished"}, failed : BOOLEAN]
    /\ lost \in BOOLEAN

\* Every variable holds what its declaration says; in particular a slot has a
\* row for each physical row of its buffer and no run is placed before the start.
TypeOK == ContextTypes /\ LengthTypes /\ SlotTypes /\ RunTypes /\ QueueTypes /\ BatchTypes

\* The tag column col of owner c is expected to carry: the accepted one, or
\* that of the chained run in flight that was placed there.
ExpectedTag(c, col) ==
    IF col < UncommittedEnd(c) THEN history[c][col]
    ELSE runs[CHOOSE r \in RunsOf(c) : runs[r].start <= col /\ col < RunEnd(r)].tag

Holds(c, s, from, to) ==
    \A col \in from .. (to - 1) :
        slots[c][s][SlotRow(s, col)] = <<col, ExpectedTag(c, col)>>

\* A run whose body reached its dispatches finds, in every slot it reads, exactly
\* the rows that were accepted for the columns of its window: no rejected row of
\* a speculative run, no row of another context's run, no evicted column.  (The
\* window of the attention kernels against the slack check of deferred runs,
\* state-attention.ts and assertGenerationCommit.)
EveryReadSeesItsPast ==
    \A r \in Runs :
        LET c == runs[r].ctx
            o == Owner(c)
            base(s) == IF IsBorrowing(c) THEN ReadonlyColumnBase(s, runs[r].start)
                       ELSE ColumnBase(s, runs[r].start)
        IN /\ runs[r].stage = "started"
           /\ IsLive(c) /\ IsLive(o)
           /\ ~(runs[r].kind = "batch" /\ batch.failed)
           => \A s \in Slots : Holds(o, s, base(s), runs[r].start)

\* Between runs, the rows behind the logical length and the rows awaiting a
\* commit are all in the slots, with room for a borrower opened at any later
\* time: whatever number of rows is committed, the next reader's window is whole.
RestingRowsIntact ==
    \A c \in Contexts :
        /\ ~IsBorrowing(c)
        /\ phase[c] \in {"allocating", "open", "closing"}
        /\ IsLive(c)
        /\ runKind[c] = "none"
        => \A s \in Slots :
              Holds(c, s, ReadonlyColumnBase(s, pastLength[c]), UncommittedEnd(c))

\* A reservation stands on a context exactly as long as an accepted run of it,
\* or of one of its borrowers, is unsettled: a lease is neither leaked (every
\* later commit, rewind and fork would be refused forever) nor returned early.
LeaseMatchesRuns ==
    \A c \in Contexts :
        /\ runKind[c] # "none" <=>
              \E r \in Runs : runs[r].stage # "idle" /\ c \in {runs[r].ctx, Owner(runs[r].ctx)}
        /\ chain[c].runs = {r \in RunsOf(c) : runs[r].mode = "chained"}

\* The logical length does not move under a run that captured it, nor under the
\* borrower's copy of it (assertCapturedPast never fires).
CapturedLengthHolds ==
    \A r \in Runs :
        runs[r].stage \in {"started", "written"} /\ runs[r].mode # "chained"
            => /\ runs[r].start = pastLength[runs[r].ctx]
               /\ runs[r].start = pastLength[Owner(runs[r].ctx)]

\* The chained runs in flight tile the columns from the end of the uncommitted
\* range to the chain's end, so each settles exactly where the previous stopped
\* (extendPending never throws and no accepted row is lost between two).
ChainTilesRange ==
    \A c \in Contexts :
        LET members == {r \in chain[c].runs : runs[r].stage # "settled"} IN
        members # {} =>
            /\ ContinueRange(c, members)
            /\ \A r, x \in members : r # x => RunEnd(r) <= runs[x].start \/ RunEnd(x) <= runs[r].start
            /\ \E r \in members : RunEnd(r) = chain[c].end

\* Disposal never overtakes an accepted run: while one is unsettled, its context
\* and the owner of the slots it reads have not started their disposal.
DisposalWaitsForRuns ==
    \A r \in Runs : runs[r].stage # "idle" =>
        /\ phase[runs[r].ctx] \in {"open", "closing"}
        /\ phase[Owner(runs[r].ctx)] \in {"open", "closing"}

\* A lender's slots outlive every borrower bound to them, whichever of the two
\* Sessions their disposals run on.
BorrowedSlotsAlive ==
    \A c \in Contexts :
        phase[c] \in {"open", "closing", "disposed"} /\ IsBorrowing(c)
            => phase[lender[c]] = "open"

\* Every accepted run gives its lease back, and every requested disposal ends.
RunsSettle == \A r \in Runs : runs[r].stage = "queued" ~> runs[r].stage = "idle"
DisposalsEnd == \A c \in Contexts : phase[c] = "closing" ~> phase[c] = "closed"
===============================================================================
