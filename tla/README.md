# karume: a verification project

TLA+ specifications of the concurrent core of karume, a WebGPU inference runtime
in TypeScript, with the TLC runs that check them and machine-checked proofs of
what matters most. Paths below are relative to the repository; `runtime/`, `gpu/`
and `kernels/` stand for the directories of `packages/runtime/src/`, `models/` and
`hub/` for `packages/models/src/` and `packages/hub/src/`.

1. [The system](#1-the-system)
2. [The modules and the code](#2-the-modules-and-the-code)
3. [Runs](#3-runs)
4. [Fairness](#4-fairness)
5. [Proofs](#5-proofs)
6. [What is left out](#6-what-is-left-out)
7. [Plan](#7-plan)

## 1. The system

karume executes tensor graphs on a GPU from a single-threaded JavaScript host.
Nothing runs in parallel on the host, but nearly every operation awaits: the
serialisation chain of its Session, the errorScope section of the device, a
fence, an allocation, a readback. Whatever a caller does meanwhile interleaves
with it at every await, and the GPU may fail, or be lost, at any of them.

| Component | State it keeps | Operations | What makes it hard |
|---|---|---|---|
| `GpuContext`, `BatchScope` (`gpu/context.ts`, `gpu/error-scope.ts`) | the section lock, the device's errorScope stack, leases and finalizers of a batch, the device's loss | `withScopeLock`, `beginBatch`, `settle`, `finish`, `finishAndRead`, loss listeners | a batch holds the lock across awaits of other parties; scopes are one LIFO stack with no owner; a lost device never answers |
| `Session` (`runtime/executor.ts`) | serialisation chain, unsettled runs, the batch an `enqueueRead` waits for, live contexts, plans and backings, lent weights | `run`, `enqueue`, `enqueueRead`, `createGenerationContext`, `dispose` | checks and reservations in the call, work many microtasks later; failures before, between and after submits |
| `GenerationContext` (`runtime/generation-context.ts`) | state slots (KV cache), logical length, rows awaiting a commit, lease, chain of runs in flight, poison, borrowers | run leases, chained reservations, `commit`, `rewind`, `fork`, borrowing, two-step `dispose` | speculative rows are written past the length and may be rejected; a borrower reads the slots through another Session |
| state slots (`kernels/state-append.ts`, `kernels/state-attention.ts`) | physical rows | append, attend, attend readonly | a ring whose modulus is its capacity, not its window; an off-by-one reads another token, with no error |
| `ResidentTensor` (`gpu/context.ts`) | use, bind and bake counts | `write`, `read`, `clear`, `dispose` | three windows of protection overlap |
| plans, backings, params (`runtime/executor.ts`, `runtime/transient-plan.ts`, `gpu/arena.ts`) | caches with a budget, a retired list | derive, activate, retire, destroy, roll back | nothing may be destroyed while encoded and not submitted; a batch's failure is known long after |
| `SubmitScheduler` (`gpu/submit.ts`) | pending encoder, chunk estimates, measurement window | `dispatch`, `submitPending`, `flush`, `discard` | an observed time must cover exactly the submits it is divided over |
| `PipelineCache` (`gpu/pipeline-cache.ts`) | promises by key | get or create | two creations of one key, failures |
| weight residency (`runtime/weight-residency.ts`, `runtime/session-build.ts`) | buffers, who borrows them | build, lend, borrow, release | a lender's disposal against its borrowers |
| hub (`packages/hub/src`) | bytes in flight, cache entries, progress | resolve, fetch, admit, verify | a single waiter slot, aborts and retries |
| `GenerationSequence`, speculation (`packages/models/src/generation`) | the host's mirror of the context, drafts, the speculation gate | prefill, decode, verify, commit, fork | abort or failure between verify and commit |
| operation chain, closeable generator (`packages/models/src/concurrency`) | a promise chain, a closing flag | queue, next, return | close before start |
| chat session, pipelines of the model families (`packages/models/src`) | conversation, Sessions by stage | send, fork, rewind, generate, dispose | rest on the layers above |
| operators, shapes, fusion, WGSL generation, reference kernels, container format, tuning | none | pure functions | numeric, not concurrent |

How they interact. A caller issues `session.run(..., generation)` or
`session.enqueue(..., { batch, generation })`. In that call the Session checks
what can be checked, takes the context's lease (and its lender's), or reserves a
position on the context's chain, enters the batch, and appends a body to its
serialisation chain. The body reads the logical length once, takes the device's
section lock (a run; an enqueue works inside the section its batch holds),
encodes, submits and pops its errorScopes. Success advances the length or leaves
the rows awaiting `commit`; failure after a submit that wrote state poisons the
context. A run settles on its own; everything in a batch settles together, in one
synchronous section after the fence. Disposals of contexts and Sessions are
accepted in the call and join the same chains.

For each component, what makes it correct:

* *slots*: a reader consumes, for every column of its window, the row computed
  for that very column, whatever was written ahead and rejected before;
* *context*: one lease per use, returned once; positions of chained runs tile the
  range above the length; the length a run captured still holds when it settles;
  a lender outlives its borrowers; an accepted run is never pulled down by a
  disposal; what can be read is what was accepted, or the context is poisoned;
* *scheduling*: errors reach the call that pushed the scope; a fence covers the
  work it is taken for; success means all was submitted; a read returns the
  output of its own call; disposal follows accepted work; no cycle of waits;
* *plans, backings, residents*: nothing an encoding still names is destroyed; an
  object that failed on the device is not kept for later executions; reservations
  return to zero; the caches stay within their bounds;
* *GenerationSequence*: however tokens are produced (one at a time, drafted and
  verified, or selected ahead on the GPU), the caller sees a conversation that
  grows by one token drawn after the other, and no rows are left uncommitted;
* *chat session*: the KV it continues from is that of its own history, through
  overflow, cut-offs, failures and forks; no sequence is shared or left behind;
* *downloads*: bytes in flight stay within the budget; the error reported is the
  one that came first; nothing starts after an abort; the call settles.

## 2. The modules and the code

| Module | Models | Source |
|---|---|---|
| `StateSlot` | rows of a slot: mapping, windows, slack, append | `kernels/state-append.ts`, `kernels/state-attention.ts`, `slidingSlackRows` |
| `GenerationContext` | contexts, their runs from issue to release, batches' settlement, two Sessions' chains | `runtime/generation-context.ts`, `run`/`#admit`/`#runOnce`/`#enqueueOnce` of `runtime/executor.ts`, `#resolveFinish` of `gpu/context.ts` |
| `RetainedHistory` | abstract: a container that grows at its end, can be cut, copied, or broken for good | (specification) |
| `ContextHistory` | the refinement mapping: readable rows fetched from physical slots at the length the next reader gets | (specification) |
| `DeviceScheduling` | the chains, the section lock, the errorScope stack, the life of batches and of Session disposal | `gpu/context.ts`, `gpu/error-scope.ts`, `runtime/executor.ts` |
| `PlanStorage` | plan, params and backing caches of a Session, the reservations of a resident tensor, retirement and destruction, rollback | `run`/`#admit`/`#runOnce`/`#enqueueOnce` and the cache methods of `runtime/executor.ts`, `runtime/recipe-builder.ts`, `ResidentTensor` and `BatchScope` of `gpu/context.ts` |
| `Conversation` | abstract: a list of tokens that grows one token at a time, in turns | (specification) |
| `GenerationSequence` | streams, decoding loops, commit, abort, fork, disposal over one context | `models/generation/sequence.ts`, `models/generation/speculation.ts`, `models/concurrency/` |
| `SequenceConversation` | the refinement mapping: status, transcript and turn of each conversation | (specification) |
| `ChatSession` | turns, tool results, overflow policy, fork and disposal of a chat | `models/gemma/chat-session.ts` |
| `FetchAssets` | one download call: dispatch, byte admission, workers, abort, settlement | `hub/fetch.ts`, `hub/concurrency.ts` |
| `GenerationContextProofs`, `ContextHistoryProofs`, `DeviceSchedulingProofs`, `PlanStorageProofs`, `GenerationSequenceProofs`, `ChatSessionProofs`, `FetchAssetsProofs` | proofs about the module they name; the second extends the first and proves the refinement of `RetainedHistory`, the fifth ends with that of `Conversation` | |
| `FoldFacts` | lemmas about least numbers and sums over finite sets, used by the proofs of `FetchAssets`, `PlanStorage` and `GenerationContext` | |
| `MCGenerationContext`, `MCDeviceScheduling`, `MCPlanStorage`, `MCGenerationSequence`, `MCChatSession` | slots, sizes, symmetry sets, a small model of next tokens and what two overflow policies put in front, for TLC | |

How the modules stack up: `GenerationContext` extends `StateSlot`; `ContextHistory`
maps it to `RetainedHistory`. `GenerationSequence` uses a context as what
`RetainedHistory` says it is (accepted columns, and rows that one commit cuts), and
is itself mapped to `Conversation` by `SequenceConversation`. `ChatSession` uses a sequence as the list of
turns fed to it, on a chain where forks precede later streams and disposals follow
the streams they find. `DeviceScheduling` and `PlanStorage` are two views of the same
bodies of a Session: the first has two Sessions, the lock and the errorScopes, the
second one Session and what it stores.

`PROJECT.json` maps every definition to its lines.

**State.** In `GenerationContext`, `pastLength`, `pending`, `chain`, `runKind`,
`poisoned`, `borrowers` and `lender` are the private fields of the class.
`#disposeRequested`, `#disposed` and `#disposal` become `phase`: `open`, `closing`
(dispose accepted), `disposed` (its body started), `closed`; `absent` and
`allocating` are the contexts that do not exist yet. `runs` holds for each
unsettled run what its closures capture, `queue` the bodies appended to each
Session's `#chain`, `batch` the BatchScope, and `history` is a ghost that remembers
which contents each column was accepted with. A row of a slot is `<<column, tag>>`:
the column it was computed for and an opaque tag.

In `DeviceScheduling`, `chain`, `pendingRuns` and `readBatch` are the Session's
fields, `sections` is the promise chain of `#withScopeLock` (holder first),
`scopes` the device's errorScope stack by who pushed, `batch` the `#leases`,
`#finished`, `#settling` and `#failure` of each BatchScope, and `output` the call
that last wrote a Session's output slots.

In `PlanStorage`, `store` is the Session's `#prepared`, `paramsCache`, `#backings` (both
in order of use) and `#retired`; an object is known by its key and the call that
made it, with a flag `ok` that says whether the device really has it (an allocation
that meets an OOM returns an invalid object and throws nothing). `broken` is what the
section's errorScopes will report. In `GenerationSequence`, `columns` and `rows` are the
tokens of the context's columns and of its pending commit, `pendingToken` and
`frontierRows` the sequence's fields of those names, `chain` the operation chain, and
`streams` what each generator's closure holds. `ChatSession` keeps `#turns`, `#sequence`,
`#committed`, `#busy` and the locals of the turn in progress. `FetchAssets` keeps the
locals of one call: `signal`, `failure`, `inFlight`, the loop's place, each file's stage.

**Steps.** A run is `idle`, `queued` (`Issue...`: everything `run` or `#admit` does
in the call), `started` (`StartBody`: the head of the body), `written` or `failed`
(`WriteBody`, `DropBody` with nothing submitted, `BreakBody` after some submits),
`settled` (`SettleRun`: advance, defer or poison) and idle again (`ReleaseRun`). Runs
of a batch leave the queue when written or failed and settle together in
`SettleBatch`. One action covers all the code between two awaits at which another
party can act; where the code awaits more often but nothing relevant can change in
between, the awaits are merged. The same rule cuts the other modules: a step of
`GenerationSequence` reaches to the next place where a stream hands something out
(its conversation's chain is held meanwhile), one of `ChatSession` to the next answer
of the host, the policy or a sequence, one of `FetchAssets` to the next await.

**Decisions worth knowing.**

* Target contexts own slots and live in one Session; borrowers live in a second
  one. Their bodies interleave freely in `GenerationContext`: the section lock is
  not used there, so its properties do not depend on it.
* `RefuseChained` is an enqueue whose reservation succeeded and whose `enter()` was
  refused by a finished batch: reserve and return in one step.
* `SettleBatch` runs the completions of `#resolveFinish` in order: only contexts with a
  run in the batch take part, and each is judged by its own state, so a batch on one
  context succeeds beside another that is absent, allocating, closed or poisoned. When a
  completion throws, those before it have been applied (`Completes`, `Throws`) and then
  every context the batch wrote to is poisoned, within the same synchronous section.
* `BreakBody` forgets all rows of the context, since any of them may have been
  overwritten.
* `Quiescent` is asked of borrower *and* lender at issue, as `acquireRun` asks
  both; a borrower copies the lender's length at the head of its body.
* In `DeviceScheduling`, `Conclude` (`#resolveFinish`) is separate from `EndFence`
  (the section's end): which comes first, the settlement or the next section's
  start, depends only on a count of microtask hops, and no property may rely on it.
* A caller that awaits a run inside the batch that holds the lock is a documented
  MUST NOT and is not modelled; that an *unsettled* run and an enqueue of one
  Session cannot close the same cycle is checked (`progress`).
* In `PlanStorage` a run may take the lock before or after the concluding microtasks
  of the batch before it (`ConcludeBatch`), for the reason above; an answer of the
  device comes after them. This is what makes the destruction job of a rollback
  necessary: the mutant that destroys at once breaks `HeldStorageAlive`.
* A failure without an exception is one choice per allocation (`good`); where it is
  noticed, whom it takes along and what has hit the cache in between follow. A
  partial failure of an activation equals its success followed by the retirement.
  The destruction jobs of several members of a batch are one job.
* `GenerationSequence` leaves to choice what the code computes from tensors: which
  tokens a sampler may draw (`Likely`), what a drafter drafts, what the gate decides.
  A throw among the draws of a verify equals accepting the rows before it. A failed
  run of the conversation leaves the context whole or poisoned, as
  `GenerationContext` shows.
* `ChatSession` counts a turn as one unit of `Room`. An overflow policy returns what it
  likes in front of what is asked (`Fronts`: any lists of roles, a summary and a filter
  of the history among them), or breaks its contract; `Shrink` accepts what the code
  accepts, a shorter history that ends with what is asked. What such a policy made up
  is not the session's to answer for: the ghost `given` counts the turns it put in
  front, and `HistoryIsSettled` speaks of those behind them, which are what the session
  was sent and answered itself. (A summary in the user's name, followed by a turn that
  fails without text, leaves a history that ends with a user's message.) What a stream
  came to is a choice among the outcomes `finish` tells apart. A history the template
  refuses because a tool result has no call, or a call no result, fails its turn before
  it is measured (`Renders`); other refusals depend on the text and have the effect of an
  allocation that fails.
* `FetchAssets` numbers the files in dispatch order, duplicates folded. A source is
  external: it answers with bytes, with an error of its own, or, once aborted, with
  a rejection that names no cause. Whether the sources have nothing to warm (`direct`) is
  one choice for the whole call, where the code decides it for each source reference.

## 3. Runs

| Run | Instance | States | Properties |
|---|---|---|---|
| `speculation` | owner and borrower, three slots (rings 4/2 and 4/1, full 5), runs of 1..3 rows, no faults | 684k | `EveryReadSeesItsPast`, `RestingRowsIntact`, `CapturedLengthHolds` |
| `failures` | owner and borrower, ring 3/1, runs and a batch, all faults and device loss | 1.88M | `TypeOK`, `DisposalWaitsForRuns`, `BorrowedSlotsAlive`, `ChainTilesRange`, `LeaseMatchesRuns` |
| `branching` | context and fork, full slot (rewind allowed), two tags | 255k | `RetainsHistory` |
| `atomic` | context and fork, alone or in one batch, ring 2/2 without slack, faults | 111k | `RetainsHistory` |
| `settlement` | batch only, fair | 39k | `RunsSettle`, `DisposalsEnd` |
| `sections` | two Sessions, three calls, two batches | 1.26M | `ErrorsReachTheirOwner`, `FenceCoversBatch`, `SuccessIsComplete`, `ReadsReturnOwnOutput`, `BodiesPrecedeDisposal` |
| `progress` | two Sessions, two calls, one batch, fair | 104k | `CallsSettle`, `BatchesConclude`, `DisposalsEnd` |
| `storage` | three signatures, four executions, one batch at a time | 841k | `HeldStorageAlive`, `NothingInvalidKept`, `RestHoldsNothing`, `BudgetKept` |
| `sequence` | one conversation, two streams, two drafts, run-ahead of two, capacity 5 | 178k | `RowsFitCapacity`, `UsedFollowsToken`, `DraftsFromLastRow`, `NothingLeftUncommitted`, `ConversesPlainly` |
| `conversations` | conversation and branch, one stream, capacity 2, fair | 80k | `ConversesPlainly`, `ChainsDrain` |
| `chat` | chat and branch, two sequences, room for three turns, a policy that sums the history up or keeps its last call, fair | 547k | `KvHoldsHistory`, `HistoryIsSettled`, `SequencesAreHeld`, `NeverInconsistent`, `TurnsEnd` |
| `downloads` | four files below, at and over the budget, two workers, fair | 246k | `BytesWithinBudget`, `OutcomeIsTheCause`, `NothingStartsAfterAbort`, `CallSettles` |

What they show:

* **Rings.** `EveryReadSeesItsPast` looks at every started run: each column in the
  window of its reader lives in a row computed for that column and accepted.
  `RestingRowsIntact` asks the same of a context at rest, for the next run of the
  owner (whose window starts one column later) and of a borrower (which reads one
  column more, and is what makes the slack tight). The mutants that wrap a slot at
  its window, or let a commit lean on another slot's slack, break them.
* **Refinement.** `RetainsHistory` is `RetainedHistory!Spec` under a mapping that
  reads the physical rows, not the ghost. It covers what the invariants cannot
  say: that a step never changes a row that stays readable, that a fork is equal
  and then independent, that a batch which fails, before its completions or between
  two of them, leaves nothing it wrote to be read, and that one which succeeds needs
  nothing of the contexts it did not touch.
* **Leases.** `LeaseMatchesRuns` and `ChainTilesRange` hold through refusals,
  failures and settlement in any order of bodies.
* **Disposal.** `DisposalWaitsForRuns`, `BorrowedSlotsAlive`,
  `BodiesPrecedeDisposal`: acceptance closes at once, effects wait for their turn.
* **Sections.** The lock, the leases taken in the call and the three admission
  checks of `enqueue` are each necessary: dropping any of them breaks one of the
  properties.
* **Storage.** A backing may be retired under an execution that encodes with it, by
  the rollback of a batch it did not belong to, but is destroyed only after that
  execution left the chain. A plan or params that failed on the device may be hit by
  others until its maker settles, and is gone from every cache after that. At rest nothing waits for
  destruction and the reservations of a resident are exact.
* **Conversations.** `ConversesPlainly` is `Conversation!Spec` under a mapping of the
  committed columns, the accepted part of the pending rows and the pending token. A
  verify of several drafts, a batch run ahead and a plain step all map to single
  draws told one by one; an abort, a close or a failure at any of them maps to the
  end of the turn, with the transcript intact. `DraftsFromLastRow` and
  `NothingLeftUncommitted` say why: the hidden row handed to the drafter is that of the
  last committed column, and every way out of a delivery passes the commit.
* **Chats.** `KvHoldsHistory` relates two objects that change at different awaits, the
  history and what was fed to the sequence. `HistoryIsSettled` says that no message and
  no tool result the session was sent stays without an answer: not after failures,
  cut-offs and disposals, and not behind what a policy put in its front.
  `NeverInconsistent` shows that the errors the code calls internal inconsistencies are
  not reached.
* **Downloads.** `OutcomeIsTheCause` excludes that the echo of an abort hides the error
  that caused it; `CallSettles` that the single waiter of the admission is forgotten.

**Bounds.** `MaxLogicalLength` stands for the u32 limit of the code and is also
what keeps the state space finite: up to 5 columns where rows are observed, so
rings of 2 to 4 rows wrap and the limit itself is reached, and 1 or 2 in the runs
about leases, disposal and branches. `Runs` has two identities, enough for a chain
of two, for a target and a borrower's run at once, and for one accepted behind
another; they are reused when a run settles, so the number of runs over time is
unbounded. `QueryLengths` up to the chunk (3 in `speculation`, 2 in the other ring
runs) includes an append longer than a tight ring's slack. `Tags` has two members
only where rows are told apart across branches; elsewhere the column in the row
suffices. Two contexts give every pair (owner and borrower, source and fork). Two
batches in `sections` give a batch that waits for the lock behind another and a
guard set by a second batch before the first one concludes; three calls are the
least for a run, an enqueue and a disposal's rival in one Session.

In `storage` the plan cache holds two of three signatures, and the budget two small
backings, or the large one alone and over it, so eviction by count and by bytes
both happen. Executions are not reused: four are enough for a batch of two whose
rollback meets a run that hit what one of them made, and one after it. In `sequence` a
capacity of 5 columns and a position table of 6 tell the two limits apart, two
drafts give partial acceptance with rows before and behind the cut, and prompts go
up to one more than a chunk with the pending token before them; the next token
depends on every earlier one and their order, so a row taken from the wrong place
shows. A token list longer than the capacity cannot arise. `conversations` repeats the
refinement with a branch, at a capacity of 2 to keep its liveness small. Two
sequences in `chat` let one be disposed while its successor, or the branch's, is used;
with both in use an allocation waits for the disposal or fails. A room of three turns
lets an overflow meet a message, tool results and a shrunk history, and be asked for
twice in a turn. The policy's answers are a summary in the user's name, which is what an
open question in front looks like and takes from the results behind it their call, and
the call alone, whose results are asked; a longer front differs in room only. In `downloads` sizes 1, 2 and 4 against a budget of 3 are
the cases of the admission: fits beside others, fits alone, exceeds the budget.

`CHECK_DEADLOCK FALSE` everywhere: callers may stop issuing work, and a system
whose contexts or Sessions are all disposed, or whose device is lost, really stops.

**Symmetry** (runs, tags, Sessions, calls, batches, executions) is used in the safety runs only.

## 4. Fairness

Safety needs none. For liveness, `FairSpec` (`Spec` in `FetchAssets`) assumes:

* weak fairness of the bodies, of `SettleRun`/`ReleaseRun` and of disposal bodies: the
  event loop runs every continuation, and every wait on the GPU races the loss of
  the device (`#raceDeviceLost`), so it ends;
* weak fairness of `SettleBatch` and of a batch's own steps, for the same reasons;
* that whoever opened a batch finishes it: the code's contract is `await using`.
  `DeviceScheduling` takes strong fairness there, because `finish()` is refused during
  `settle()` and the opener tries again;
* in `GenerationSequence`, weak fairness of running bodies and of the operations at the
  head of a chain, and that who holds a started stream comes back to it, to pull or
  to close it: an iterator that is never advanced again keeps the chain, by design;
* in `ChatSession`, weak fairness of the host and the policy (their answers are awaited
  without a timeout), of forks and of the disposal of sequences;
* in `FetchAssets`, weak fairness of every answer and continuation. A source answers
  in the end, at the latest through its own timeout. The caller need not cancel.

No caller is assumed to issue, commit or dispose of anything. `settlement` uses
batches only to stay small; runs outside batches are the subject of `progress`.

## 5. Proofs

All theorems hold for every value of the constants that meets the assumptions the
modules name; none rests on the bounds of the runs. Each proof module follows the
same plan: an inductive invariant `IInv`, checked by TLC before it was proved; one
lemma per action or group of actions that keeps it, one step per conjunct the action
can disturb; a lemma that combines them (`IInvStep`, `NextIInv`, `StepIInv`); theorems
whose last line is the only temporal one.

**`GenerationContextProofs`**, from `ContextAssumption` and `SlotsAssumption`:

* `TypesHold`: `Spec => []TypeOK`;
* `SlotsOutliveBorrowers`: `Spec => []BorrowedSlotsAlive`;
* `LeasesMatch`: `Spec => []LeaseMatchesRuns`;
* `IInvHolds`: `Spec => []IInv`, on which the rest builds.

They follow from

    IInv == TypeOK /\ Borrowing /\ Lease /\ Heads /\ Bounds

None of the properties is inductive alone:

* `Borrowing` adds to `BorrowedSlotsAlive` that borrowing does not nest and that a
  borrower which still reads is registered with its lender: that is what makes the
  check in `dispose` and the second look of `registerBorrower` enough.
* `Lease` adds to `LeaseMatchesRuns` that two unsettled runs share an owner only as
  chained runs of one batch, and that the runs of a chain have its kind. Without it
  the release of one run could free a context another run holds. The awkward case
  is `IssueChained`: a run joins a chain in flight, and one must know that *no*
  run of a borrower is among those that hold the owner.
* `Heads`: a started body, and a disposal past its start, is at the head of the chain
  of its Session. `Dequeue` in a settlement takes the head, so this says it takes
  the right one, and `Tail` is applied to no empty sequence.
* `Bounds`: where accepted runs end. `TypeOK` needs it, and `Lease`, since the columns of
  `history` are an interval and `Joined` is a natural number only because a batch's
  runs of one context continue each other.

On top of `IInv`, in the same module:

* `DisposalWaits`: `Spec => []DisposalWaitsForRuns`. The invariant added is `Turns`: a
  disposal is queued once (`Once`), only where it was accepted (`Closing`), and behind
  every unsettled run of its context that is a `Session.run` (`Ahead`); an enqueue has
  left the queue while its batch still holds the context, so for those it takes the
  other guard, that a context a batch holds refuses its disposal (`Held`). A queue is
  one sequence for all contexts of a Session: the proof carries the places of jobs
  through `Append` and `Tail`.
* `CapturedHolds`: `Spec => []CapturedLengthHolds`, inductive on `IInv` alone: every
  step that moves a length needs a lease no other run of that owner can have.
* `ChainsTile`: `Spec => []ChainTilesRange`. `Tiling` adds that no member of a chain ends
  past the position the next reservation gets. `Turns` is needed too: `FinishDisposal`
  drops the rows awaiting a commit, from which a chain would start.
* `ReadersSeeTheirPast`: `Spec => []EveryReadSeesItsPast`, and `RestingIntact`:
  `Spec => []RestingRowsIntact`. The rows of a ring are kept by

      RingInv == IInv /\ Turns /\ CapturedLengthHolds /\ Tiling   (Basis)
                 /\ Slack /\ Coverage /\ Placing                   (Positions)
                 /\ Rings

  `Slack`: what is uncommitted or reserved, with the window behind the logical length,
  fits every ring, and a plain run has nothing awaiting a commit under it. `Coverage`:
  the runs of a chain leave out no column before its end. `Placing`: those on earlier
  columns stand earlier in the queue, so when a chained body runs they have written.
  `Rings` says what is in the rows while runs are between their writes and their
  settlement: a run that defers or chains writes into the slack only, so the window and
  the rows that await a commit stay (`Intact`); an immediate run may take the place of
  the window, and leaves the window behind its own end instead (`Replaced`), which is the
  window once it settles; a body that failed past a submit leaves nothing to rely on,
  and poisons its context before anyone reads. The arithmetic is in `RowsDiffer` (columns
  less than the capacity apart have rows of their own), `AppendWrites` and `AppendKeeps`.

**`ContextHistoryProofs`**, from `RingInv` and `ObservedAssumption` (what is observed is
some slot and some depth):

* `HistoryRetained`: `Spec => RetainsHistory`, the refinement of `RetainedHistory`.

`RingInv` says the rows a reader gets hold the columns it expects. The refinement
also asks that what is shown is contents that runs computed, so `Tagged` is added:
every unsettled run carries contents, and so does every accepted or pending column of a
context that is not poisoned. (Of one that a batch poisoned after some of its completions
nothing is asked: nobody reads it.) Every step
then does one of five things to a context, one lemma per group of steps:

| Step | What the view of the context does |
|---|---|
| issue, refusal, reads, release of a lease, a body that only defers | `Same` (`IssueShows`, `QuietShows`) |
| the write of an immediate run; a commit of pending or chained rows | `Extend` (`WriteShows`, `CommitShows`) |
| `rewind` | `Cut` (`RewindShows`) |
| `forkFrom` | `Copy` (`ForkShows`) |
| a failed body or batch, disposal, the loss of the device | `Break`, of every context whose rows are in doubt (`BreakShows`, `LifeShows`, `DeviceShows`) |

The settlement of an immediate run is a stutter (`SettleShows`): the view had already
taken its columns when they were written, because from there the next body reads them.

**`DeviceSchedulingProofs`**, from `SchedulingAssumption`:

* `TypeOKHolds`: `Spec => []TypeOK`;
* `ErrorsReachTheirOwnerHolds`, `FenceCoversBatchHolds`, `SuccessIsCompleteHolds`,
  `ReadsReturnOwnOutputHolds`, `BodiesPrecedeDisposalHolds`: `Spec => []...` for each
  property of the run `sections`.

They follow from

    IInv == Types /\ Shape /\ Lock /\ Stack /\ Leases /\ Chains /\ Reads

* `Lock`: the line of the section lock holds everyone who waits or works inside, each
  once, and who works inside is its head. Two holders would share the device's one
  stack, so everything about errorScopes rests on it.
* `Stack`: the stack holds the scope of the holder while it encodes, and nothing
  otherwise. `ErrorsReachTheirOwner` is a corollary.
* `Leases`: a batch's counter is the cardinality of the calls it accepted whose bodies
  have not left it. `FenceCoversBatch` needs the count to be exact: zero must mean that
  no accepted body is still to encode.
* `Chains`: a Session's chain holds its unfinished calls, each once, its disposal last.
  Only this makes "the head" of a chain the body that runs.
* `Reads`: as long as an `enqueueRead` is unsettled, no later call of its Session writes
  the output slots: its guard is set in the call, long before its body runs, so the
  invariant speaks of the order of bodies on the chain.
* `Pending` (the Session's count of unsettled runs) is proved from `IInv` afterwards;
  only the types need it.

**`FetchAssetsProofs`**, from the assumptions on targets, sizes and pacing:

* `OutcomeHasItsCause`: `Spec => []OutcomeIsTheCause`;
* `AbortStopsTheCall`: `Spec => NothingStartsAfterAbort`, an action property;
* `BytesAreBounded`: `Spec => []BytesWithinBudget`.

`IInv` has `Results` (what a fetch came to fits its stage, and an abort among the
results was preceded by one of the signal), `Causes` (every recorded reason goes back
to the caller or to a file that failed by itself), `Pacing` (files before the loop's
place were started, those behind it were not) and `Ending` (nothing runs after the
call settled). `Causes` alone is not inductive: a fetch that fails after the abort
brings back the signal's reason, which must itself have a cause. For the bytes,
`Lending` says that the running total the admission keeps is the sum of the sizes of
the files that run or were just admitted, and that this sum is within the budget or
one file's. It needs `Pacing`: the file about to be admitted is not among those running.

**`PlanStorageProofs`**, from `StorageAssumption`:

* `HeldAlive`: `Spec => []HeldStorageAlive`;
* `NothingCachedInvalid`: `Spec => []NothingInvalidKept`;
* `RestIsClean`: `Spec => []RestHoldsNothing`;
* `BudgetIsKept`: `Spec => []BudgetKept`.

They follow from

    IInv == /\ Types /\ Queue /\ Sections /\ Counts
            /\ Refused /\ Holding /\ Blame /\ Cleaning /\ BudgetKept

* `Queue` (`Line`, `Batched`, `Reads`, `Uses`): the chain holds each execution that has
  not left, once, with what has begun at its head; the batch's leases count its members
  on the chain; behind a read stand only runs.
* `Holding` and `Cleaning` are `HeldStorageAlive`: what is held is cached or retired, and
  what is retired is destroyed by the run in its section, at its end, or by a job on the
  chain. A job that destroys must find no execution that encodes (it is at the head of
  the chain, so none has begun) and no readback outstanding (`Reads`: none is while the
  batch is open).
* `Blame` is `NothingInvalidKept`, strengthened by who will know: an invalid object was
  made by the holder of the section, whose errorScope will say so, or by a member of a
  batch that is open and broken, or settled as failed and not rolled back yet. Without
  the second half the rollback could not be shown to take it.
* `Sections` and `Counts` make the reservations exact: the binding reservation belongs to
  the run in the section that found no plan, the baked ones are those of the backings.

The steps on the caches are proved apart from the steps of executions: `Works` says what
a piece of work may do to the caches (retire but not destroy, add only objects of its own
execution and key, keep the counts and the budget), each cache operation is shown to be such
work, and so is one after the other (`WorksOn`).

**`GenerationSequenceProofs`**, from `SequenceAssumption` and, for the refinement,
`TurnAssumption` (the value that stands for no turn is none):

* `RowsFit`, `UsedAgrees`, `DraftsContinue`, `NothingLeft`: `Spec => []...` for
  `RowsFitCapacity`, `UsedFollowsToken`, `DraftsFromLastRow`, `NothingLeftUncommitted`.
* `TalksPlainly`: `Spec => ConversesPlainly`, the refinement of `Conversation`.

They follow from

    IInv == Types /\ Chains /\ Copies /\ (\A s : Turn(s)) /\ (\A q : Rows(q))

* `Chains`: a stream has one place on one chain, its own conversation's, and is first
  while it runs. Two streams of one conversation never run at once, so what a stream
  knows of its conversation between two awaits stays true.
* `Turn` is what it knows. `Prefilling` and `Decoding` carry the budget: what is
  committed, with what the turn may still draw, fits. `HandsOut` describes a delivery in
  progress: the rows run ahead of the tokens told by exactly those not handed out, the
  frontier is the index, the pending token the one before it, each confirmed token was
  drawn after the rows before it.
* `Copies` and `Rows`: a branch being copied is on no chain of its own and has no rows.

For the refinement `Turn` also says that a stream that has not drawn has told nothing, and
that what awaits being fed while a prompt is taken is the prompt's first token: the caller
saw it already, so the chunk that feeds it adds only the tokens after it. One lemma
(`TurnsAreTaken`) shows from `Chains` that whoever runs has the turn, for good; one
(`StepTalks`) that a stream's step shows on its own conversation only; and one per action
that what it shows is a step of `Conversation` or nothing. The deepest is `DeliverTalks`:
`HandsOut` has the transcript end with the row whose token is handed out next
(`ReachedRow`), so that token, drawn when the cycle ran, is one that may be drawn now.
Writing and committing rows (`ConfirmTalks`, `CloseCycleTalks`) show nothing.

**`ChatSessionProofs`**, from `SessionAssumption`:

* `KvIsHistory`, `HistorySettles`, `OneHolder`, `AlwaysConsistent`: `Spec => []...` for
  `KvHoldsHistory`, `HistoryIsSettled`, `SequencesAreHeld`, `NeverInconsistent`, for every
  `Room` and every set `Fronts` of lists of roles.

`IInv` is `Types`, `SessionInv(c)` for every session and `Owned` (every open sequence has
exactly one holder). `SessionInv` follows a turn: what was asked is at the end of a
history that was settled before it, but for what a policy gave (`Asking`); the attempts
left cover the turns that could be dropped, and what the policy is to keep ends with what
was asked (`Attempts`), so whatever is put in front of it, the turn finds its question
behind it and can take it back; a held sequence was fed the committed prefix, or the whole
history with its answer once the stream ended well (`Feeding`), the sequence a turn writes
to is its session's until a disposal detaches it (`Writing`), and a fork finds at its
source what it copied (`Branching`). A step changes one session and sequences no other
session holds or reads; one lemma (`Frame`) carries the others over.

**`FoldFacts`** and the caches. The library's induction theorems take an operator as a
parameter, which the provers cannot instantiate. Where a fold must be reasoned about, the
induction is first order: `Least` gives the smallest number in a set of naturals, here
of the sizes of the sets a claim fails for. `SumsExist`, `TotalSplits`, `TotalMonotone` prove of the
library's `FoldSet` what the budgets need; `PicksExist` and its successors in
`PlanStorageProofs` prove of `FoldLeft` that `Kept` has the members it should, in their
order.

A field is updated inside a nested record (`![b] = [@ EXCEPT !.x = ..]`) in the
modules the proofs are about, so that a step which sets two fields of one record is one
update of the function, to the prover as to a reader.

**Only model-checked.** Liveness under fairness, which is outside the prover's reach:
`ChainsDrain` and the other properties that say something eventually happens. Every safety
invariant, action property and refinement of the table above is a theorem.

## 6. What is left out

* Numerics: what attention computes from the rows it reads, WGSL, shapes, fusion,
  sampling, the container format. These are pure functions with numeric tests of
  their own; they are most of the lines of the repository.
* u32 wrap-around in the shaders past the limit the host checks: a deferred run
  near the limit is bounded by the host only when it is committed.
* The context's cache of baked bind groups (it names a backing and is dropped with it).
* In `PlanStorage`: `finishAndRead`, `read` and `write` of residents, the planning of
  regions inside a backing, the loss of the device (everything is discarded then).
* Inside `DeviceScheduling`: leases of contexts that make `Session.dispose` refuse, lent
  weights, `finishAndRead` of user tensors (the path of `enqueueRead` is modelled),
  the section lock a first construction of a Session may take for its canary (the
  code forbids it inside a batch), GPU timing.
* That every wait on the device races its loss: the fairness lets each wait end, and
  whether a given await does so in the code is not told apart.
* A generator closed twice, or closed while its first `next()` is on its way: closing
  before the first step is one step of `GenerationSequence` and `ChatSession`.
* In `GenerationSequence`: what the gate measures and decides, programs, the drafter's
  inside, prefill progress callbacks that only report.
* In `ChatSession`: the tokenizer, what the prompt template says beside the order of calls
  and results, what parsing a tool call finds.
* In `FetchAssets`: the sources themselves (cache, range requests, retries, digests),
  progress events, the manifest.
* The model families beside Gemma, the playground and the tools: straight pipelines
  over the layers above, with no state of their own that interleaves.
* Invalid arguments whose only effect is an exception.

## 7. Plan

What would come next, each module with its run and its mutants:

1. `MeasurementWindow` (`gpu/submit.ts`): the observed time covers the submits it is
   divided over, in runs, `settle()` and `finish()`; composed with `DeviceScheduling`.
2. `WeightLending` (`runtime/weight-residency.ts`): Sessions that lend weights against
   their disposal, and adoption of contexts against the disposal of their Session.
3. `PipelineCache`, `SpeculationGate`: small modules, one hazard each.
4. The sources of the hub: cache entries and retries under `FetchAssets`.

Proofs: the safety properties of these modules, along the same lines.
