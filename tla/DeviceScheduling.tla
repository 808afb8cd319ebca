---------------------------- MODULE DeviceScheduling ----------------------------
(******************************************************************************)
(* How the work of several Sessions shares one device: each Session runs its  *)
(* accepted work one at a time in call order (Session.#serialize), errorScope *)
(* sections exclude each other on a lock granted in order of request          *)
(* (GpuContext.#withScopeLock), and a BatchScope holds one such section from  *)
(* beginBatch until every enqueue it accepted has left it and its fence came  *)
(* back (gpu/context.ts, runtime/executor.ts).                                *)
(*                                                                            *)
(* What the work computes is left out.  Of the contents only the last writer  *)
(* of a Session's output slots is kept, which enqueueRead depends on.  Which  *)
(* contexts the work holds is the subject of GenerationContext.               *)
(******************************************************************************)
EXTENDS Sequences, FiniteSets, Naturals

CONSTANTS
    Sessions,
    Calls,      \* identities of unsettled run / enqueue / enqueueRead calls
    Batches,    \* identities of BatchScopes, reused once settled
    Nobody

ASSUME SchedulingAssumption ==
    /\ Nobody \notin Calls \cup Batches
    /\ Calls \cap (Sessions \cup Batches) = {}
    /\ Sessions \cap Batches = {}

VARIABLES
    call,         \* what is known of every unsettled call
    chain,        \* Session.#chain: its accepted calls and its disposal
    pendingRuns,  \* Session.#pendingRuns
    readBatch,    \* Session.#readBatch
    life,         \* "open", "closing" once dispose was accepted, "disposed"
    output,       \* the call that last wrote the output slots of a Session
    sections,     \* the scope lock: its holder first, then the waiters in order
    scopes,       \* the errorScope stack of the device, by who pushed
    batch,        \* the BatchScopes
    lost

vars == <<call, chain, pendingRuns, readBatch, life, output, sections, scopes,
          batch, lost>>

Kinds == {"run", "enqueue", "enqueueRead"}
Stages == {"idle", "queued", "waiting", "encoding", "reading", "done", "written", "failed"}
BatchStates == {"none", "waiting", "open", "settling", "finished", "fencing", "ended"}

IdleCall == [stage |-> "idle", kind |-> "run", session |-> Nobody, batch |-> Nobody]
NoBatch == [state |-> "none", leases |-> 0, failed |-> FALSE]

Init ==
    /\ call = [e \in Calls |-> IdleCall]
    /\ chain = [s \in Sessions |-> <<>>]
    /\ pendingRuns = [s \in Sessions |-> 0]
    /\ readBatch = [s \in Sessions |-> Nobody]
    /\ life = [s \in Sessions |-> "open"]
    /\ output = [s \in Sessions |-> Nobody]
    /\ sections = <<>>
    /\ scopes = <<>>
    /\ batch = [b \in Batches |-> NoBatch]
    /\ lost = FALSE

\* The head of a Session's chain is the body that may start.
Heads(s, job) == chain[s] # <<>> /\ Head(chain[s]) = job
Join(s, job) == chain' = [chain EXCEPT ![s] = Append(@, job)]
Leave(s) == chain' = [chain EXCEPT ![s] = Tail(@)]

\* The lock is granted in the order it was asked for, and is not reentrant.
HoldsLock(x) == sections # <<>> /\ Head(sections) = x
AskLock(x) == sections' = Append(sections, x)
ReturnLock == sections' = Tail(sections)

\* popErrorScope takes whatever is on top of the device's stack.
PushScope(x) == scopes' = Append(scopes, x)
PopScope == scopes' = SubSeq(scopes, 1, Len(scopes) - 1)

------------------------------------------------------------------------------
(* Session.run *)

IssueRun(r, s) ==
    /\ call[r].stage = "idle"
    /\ life[s] = "open" /\ ~lost
    /\ call' = [call EXCEPT ![r] =
                  [stage |-> "queued", kind |-> "run", session |-> s, batch |-> Nobody]]
    /\ pendingRuns' = [pendingRuns EXCEPT ![s] = @ + 1]
    /\ Join(s, r)
    /\ UNCHANGED <<readBatch, life, output, sections, scopes, batch, lost>>

\* The body is prepared without the lock, which may fail, then asks for it.
StartRun(r) ==
    /\ call[r].kind = "run" /\ call[r].stage = "queued"
    /\ Heads(call[r].session, r)
    /\ \/ /\ call' = [call EXCEPT ![r].stage = "waiting"]
          /\ AskLock(r)
       \/ /\ call' = [call EXCEPT ![r].stage = "done"]
          /\ UNCHANGED sections
    /\ UNCHANGED <<chain, pendingRuns, readBatch, life, output, scopes, batch, lost>>

\* Mutant of EnterSection: the run does not wait for its turn on the lock.
EnterAtOnce(r) ==
    /\ call[r].kind = "run" /\ call[r].stage = "waiting"
    /\ call' = [call EXCEPT ![r].stage = "encoding"]
    /\ PushScope(r)
    /\ UNCHANGED <<chain, pendingRuns, readBatch, life, output, sections, batch, lost>>

EnterSection(r) ==
    /\ call[r].kind = "run" /\ call[r].stage = "waiting"
    /\ HoldsLock(r)
    /\ call' = [call EXCEPT ![r].stage = "encoding"]
    /\ PushScope(r)
    /\ UNCHANGED <<chain, pendingRuns, readBatch, life, output, sections, batch, lost>>

\* Everything is submitted, or discarded by a failure: the scopes are popped.
PopRunScopes(r) ==
    LET s == call[r].session IN
    /\ call[r].kind = "run" /\ call[r].stage = "encoding"
    /\ call' = [call EXCEPT ![r].stage = "reading"]
    /\ output' = [output EXCEPT ![s] = r]
       \/ UNCHANGED output
    /\ PopScope
    /\ UNCHANGED <<chain, pendingRuns, readBatch, life, sections, batch, lost>>

\* The wait for the readback, or the cleanup, ended either way.
EndSection(r) ==
    /\ call[r].kind = "run" /\ call[r].stage = "reading"
    /\ call' = [call EXCEPT ![r].stage = "done"]
    /\ ReturnLock
    /\ UNCHANGED <<chain, pendingRuns, readBatch, life, output, scopes, batch, lost>>

SettleRun(r) ==
    LET s == call[r].session IN
    /\ call[r].kind = "run" /\ call[r].stage = "done"
    /\ call' = [call EXCEPT ![r] = IdleCall]
    /\ pendingRuns' = [pendingRuns EXCEPT ![s] = @ - 1]
    /\ Leave(s)
    /\ UNCHANGED <<readBatch, life, output, sections, scopes, batch, lost>>

------------------------------------------------------------------------------
(* Session.enqueue and Session.enqueueRead *)

Admit(e, s, b, kind) ==
    /\ call' = [call EXCEPT ![e] =
                  [stage |-> "queued", kind |-> kind, session |-> s, batch |-> b]]
    /\ batch' = [batch EXCEPT ![b].leases = @ + 1]
    /\ readBatch' = [readBatch EXCEPT ![s] = IF kind = "enqueueRead" THEN b ELSE @]
    /\ Join(s, e)
    /\ UNCHANGED <<pendingRuns, life, output, sections, scopes, lost>>

\* Mutant of IssueEnqueue: admitted behind an unsettled run.
IssueBehindRun(e, s, b, kind) ==
    /\ call[e].stage = "idle"
    /\ life[s] = "open" /\ ~lost
    /\ readBatch[s] # b
    /\ batch[b].state = "open"
    /\ Admit(e, s, b, kind)

\* Mutant of IssueEnqueue: a batch that settles in its middle takes new work.
IssueWhileSettling(e, s, b, kind) ==
    /\ call[e].stage = "idle"
    /\ life[s] = "open" /\ ~lost
    /\ readBatch[s] # b
    /\ pendingRuns[s] = 0
    /\ batch[b].state \in {"open", "settling"}
    /\ Admit(e, s, b, kind)

\* Mutant of IssueEnqueue: work is admitted behind an enqueueRead.
IssueBehindRead(e, s, b, kind) ==
    /\ call[e].stage = "idle"
    /\ life[s] = "open" /\ ~lost
    /\ pendingRuns[s] = 0
    /\ batch[b].state = "open"
    /\ Admit(e, s, b, kind)

\* #assertEnqueueAdmissible and BatchInternals.enter, in the call itself: the
\* batch is held by a lease before the body is queued.
IssueEnqueue(e, s, b, kind) ==
    /\ call[e].stage = "idle"
    /\ life[s] = "open" /\ ~lost
    /\ readBatch[s] # b
    /\ pendingRuns[s] = 0
    /\ batch[b].state = "open"
    /\ Admit(e, s, b, kind)

StartEnqueue(e) ==
    /\ call[e].kind # "run" /\ call[e].stage = "queued"
    /\ Heads(call[e].session, e)
    /\ call' = [call EXCEPT ![e].stage = "encoding"]
    /\ UNCHANGED <<chain, pendingRuns, readBatch, life, output, sections, scopes,
                   batch, lost>>

\* Mutant of EndEnqueue: the failure shows on the returned promise only.
EndUnrecorded(e) ==
    LET s == call[e].session
        b == call[e].batch
    IN /\ call[e].kind # "run" /\ call[e].stage = "encoding"
       /\ \E ok \in BOOLEAN :
             /\ call' = [call EXCEPT ![e].stage = IF ok THEN "written" ELSE "failed"]
             /\ output' = [output EXCEPT ![s] = IF ok THEN e ELSE @]
             /\ batch' = [batch EXCEPT ![b].leases = @ - 1]
       /\ Leave(s)
       /\ UNCHANGED <<pendingRuns, readBatch, life, sections, scopes, lost>>

\* The body submitted everything or discarded it, and leaves the batch: the
\* lease is returned and a failure recorded as what finish() reports.
EndEnqueue(e) ==
    LET s == call[e].session
        b == call[e].batch
    IN /\ call[e].kind # "run" /\ call[e].stage = "encoding"
       /\ \E ok \in BOOLEAN :
             /\ call' = [call EXCEPT ![e].stage = IF ok THEN "written" ELSE "failed"]
             /\ output' = [output EXCEPT ![s] = IF ok THEN e ELSE @]
             /\ batch' = [batch EXCEPT ![b] =
                           [@ EXCEPT !.leases = batch[b].leases - 1,
                                     !.failed = batch[b].failed \/ ~ok]]
       /\ Leave(s)
       /\ UNCHANGED <<pendingRuns, readBatch, life, sections, scopes, lost>>

------------------------------------------------------------------------------
(* GpuContext.beginBatch and the section of a BatchScope *)

BeginBatch(b) ==
    /\ batch[b].state = "none" /\ ~lost
    /\ batch' = [batch EXCEPT ![b].state = "waiting"]
    /\ AskLock(b)
    /\ UNCHANGED <<call, chain, pendingRuns, readBatch, life, output, scopes, lost>>

\* A device lost while the batch waited for its turn opens nothing.
EnterBatch(b) ==
    /\ batch[b].state = "waiting"
    /\ HoldsLock(b)
    /\ IF lost
       THEN /\ batch' = [batch EXCEPT ![b] = NoBatch]
            /\ ReturnLock
            /\ UNCHANGED scopes
       ELSE /\ batch' = [batch EXCEPT ![b].state = "open"]
            /\ PushScope(b)
            /\ UNCHANGED sections
    /\ UNCHANGED <<call, chain, pendingRuns, readBatch, life, output, lost>>

\* settle(): a fence in the middle of the section.
StartSettle(b) ==
    /\ batch[b].state = "open"
    /\ batch[b].leases = 0
    /\ batch' = [batch EXCEPT ![b].state = "settling"]
    /\ UNCHANGED <<call, chain, pendingRuns, readBatch, life, output, sections,
                   scopes, lost>>

EndSettle(b) ==
    /\ batch[b].state = "settling"
    /\ batch' = [batch EXCEPT ![b].state = "open"]
    /\ UNCHANGED <<call, chain, pendingRuns, readBatch, life, output, sections,
                   scopes, lost>>

\* finish(), the dispose of await using: refused in the middle of settle().
FinishBatch(b) ==
    /\ batch[b].state = "open"
    /\ batch' = [batch EXCEPT ![b].state = "finished"]
    /\ UNCHANGED <<call, chain, pendingRuns, readBatch, life, output, sections,
                   scopes, lost>>

\* The section goes on once finished and drained: the copies of the outputs to
\* read are submitted and the fence is set.
StartFence(b) ==
    /\ batch[b].state = "finished"
    /\ batch[b].leases = 0
    /\ batch' = [batch EXCEPT ![b].state = "fencing"]
    /\ UNCHANGED <<call, chain, pendingRuns, readBatch, life, output, sections,
                   scopes, lost>>

\* The fence came back or the device was lost, the scopes are popped and the
\* lock is returned.  Conclude follows, at once or after the next section began.
EndFence(b) ==
    /\ batch[b].state = "fencing"
    /\ \E ok \in BOOLEAN :
          /\ ok => ~lost
          /\ batch' = [batch EXCEPT ![b] =
                        [@ EXCEPT !.state = "ended", !.failed = batch[b].failed \/ ~ok]]
    /\ PopScope
    /\ ReturnLock
    /\ UNCHANGED <<call, chain, pendingRuns, readBatch, life, output, lost>>

\* resolveFinish: every enqueue of the batch is settled with it.
Conclude(b) ==
    /\ batch[b].state = "ended"
    /\ batch' = [batch EXCEPT ![b] = NoBatch]
    /\ call' = [e \in Calls |-> IF call[e].batch = b THEN IdleCall ELSE call[e]]
    /\ readBatch' = [s \in Sessions |->
                       IF readBatch[s] = b THEN Nobody ELSE readBatch[s]]
    /\ UNCHANGED <<chain, pendingRuns, life, output, sections, scopes, lost>>

------------------------------------------------------------------------------
(* Session.dispose, and the loss of the device *)

Dispose(s) ==
    /\ life[s] = "open"
    /\ readBatch[s] = Nobody
    /\ life' = [life EXCEPT ![s] = "closing"]
    /\ Join(s, s)
    /\ UNCHANGED <<call, pendingRuns, readBatch, output, sections, scopes, batch, lost>>

\* Mutant of DisposeBody: the disposal does not wait for its turn.
DisposeAtOnce(s) ==
    /\ life[s] = "closing"
    /\ life' = [life EXCEPT ![s] = "disposed"]
    /\ output' = [output EXCEPT ![s] = Nobody]
    /\ UNCHANGED <<call, chain, pendingRuns, readBatch, sections, scopes, batch, lost>>

\* Weights and slot backings are destroyed at the Session's turn.
DisposeBody(s) ==
    /\ life[s] = "closing"
    /\ Heads(s, s)
    /\ life' = [life EXCEPT ![s] = "disposed"]
    /\ output' = [output EXCEPT ![s] = Nobody]
    /\ Leave(s)
    /\ UNCHANGED <<call, pendingRuns, readBatch, sections, scopes, batch, lost>>

DeviceLoss ==
    /\ ~lost
    /\ lost' = TRUE
    /\ UNCHANGED <<call, chain, pendingRuns, readBatch, life, output, sections,
                   scopes, batch>>

------------------------------------------------------------------------------
RunStep(r) ==
    \/ StartRun(r)
    \/ EnterSection(r)
    \/ PopRunScopes(r)
    \/ EndSection(r)
    \/ SettleRun(r)

EnqueueStep(e) == StartEnqueue(e) \/ EndEnqueue(e)

BatchStep(b) ==
    \/ EnterBatch(b)
    \/ EndSettle(b)
    \/ StartFence(b)
    \/ EndFence(b)
    \/ Conclude(b)

Next ==
    \/ \E e \in Calls :
          \/ \E s \in Sessions : IssueRun(e, s)
          \/ \E s \in Sessions, b \in Batches, kind \in {"enqueue", "enqueueRead"} :
                IssueEnqueue(e, s, b, kind)
          \/ RunStep(e)
          \/ EnqueueStep(e)
    \/ \E b \in Batches :
          \/ BeginBatch(b)
          \/ StartSettle(b)
          \/ FinishBatch(b)
          \/ BatchStep(b)
    \/ \E s \in Sessions : Dispose(s) \/ DisposeBody(s)
    \/ DeviceLoss

Spec == Init /\ [][Next]_vars

\* Bodies and sections go on by themselves: the GPU answers, or its loss ends
\* the wait.  Whoever opened a batch comes to finish it, whatever number of
\* times it settled the batch before (SF: settle() refuses a finish meanwhile).
Fairness ==
    /\ \A e \in Calls : WF_vars(RunStep(e)) /\ WF_vars(EnqueueStep(e))
    /\ \A b \in Batches : WF_vars(BatchStep(b)) /\ SF_vars(FinishBatch(b))
    /\ \A s \in Sessions : WF_vars(DisposeBody(s))

FairSpec == Spec /\ Fairness

------------------------------------------------------------------------------
TypeOK ==
    /\ call \in [Calls -> [stage : Stages, kind : Kinds, session : Sessions \cup {Nobody},
                           batch : Batches \cup {Nobody}]]
    /\ chain \in [Sessions -> Seq(Calls \cup Sessions)]
    /\ pendingRuns \in [Sessions -> Nat]
    /\ readBatch \in [Sessions -> Batches \cup {Nobody}]
    /\ life \in [Sessions -> {"open", "closing", "disposed"}]
    /\ output \in [Sessions -> Calls \cup {Nobody}]
    /\ sections \in Seq(Calls \cup Batches)
    /\ scopes \in Seq(Calls \cup Batches)
    /\ batch \in [Batches -> [state : BatchStates, leases : Nat, failed : BOOLEAN]]
    /\ lost \in BOOLEAN

\* A GPU operation issued by a body lands on the errorScope of its own section,
\* and every pop takes the scope that section pushed: while a body encodes, the
\* stack holds one entry and it is that of the run, or of the enqueue's batch
\* (the invariants of errorScope sections, gpu/context.ts).
ErrorsReachTheirOwner ==
    /\ \A e \in Calls : call[e].stage = "encoding" =>
          scopes = <<IF call[e].kind = "run" THEN e ELSE call[e].batch>>
    /\ \A b \in Batches : batch[b].state \in {"open", "settling", "finished", "fencing"}
          => scopes = <<b>>

\* A fence of a batch covers all its work: neither settle() nor finish() waits
\* on the GPU while an accepted enqueue has still something to submit, so the
\* measurement window closes over everything it times, and finish() returns with
\* nothing of the batch still executing.
FenceCoversBatch ==
    \A b \in Batches : batch[b].state \in {"settling", "fencing", "ended"} =>
        \A e \in Calls : call[e].batch = b => call[e].stage \in {"written", "failed"}

\* A section settles as a success only if every enqueue it accepted submitted
\* its work: none is lost to a finish() issued before its body ran.
SuccessIsComplete ==
    \A b \in Batches : batch[b].state = "ended" /\ ~batch[b].failed =>
        \A e \in Calls : call[e].batch = b => call[e].stage = "written"

\* What a closing batch copies back for an enqueueRead is what that very call
\* wrote: until then no other work of its Session overwrites the output slots,
\* nor is the Session disposed.
ReadsReturnOwnOutput ==
    \A e \in Calls :
        /\ call[e].kind = "enqueueRead" /\ call[e].stage = "written"
        /\ batch[call[e].batch].state \in {"open", "settling", "finished", "fencing"}
        => output[call[e].session] = e

\* The body of an accepted call never runs on a disposed Session: its disposal
\* waits for its turn behind every call accepted before it.
BodiesPrecedeDisposal ==
    \A e \in Calls : call[e].stage \in {"queued", "waiting", "encoding", "reading", "done"}
        => life[call[e].session] # "disposed"

\* No cycle of waits closes: every accepted call is settled, every batch that was
\* asked for opens or fails, and every finished one concludes, although batches
\* wait for enqueues, enqueues for their Session's chain and runs for the lock.
CallsSettle == \A e \in Calls : call[e].stage = "queued" ~> call[e].stage = "idle"
BatchesConclude ==
    \A b \in Batches : batch[b].state \in {"waiting", "finished"}
                           ~> batch[b].state \in {"none", "open"}
DisposalsEnd == \A s \in Sessions : life[s] = "closing" ~> life[s] = "disposed"
===============================================================================
