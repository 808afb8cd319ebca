------------------------------ MODULE FetchAssets ------------------------------
(***************************************************************************)
(* One download call of the hub: fetchAssets, whose single dispatch loop   *)
(* is paced by the bytes in flight (createByteAdmission), or               *)
(* prefetchAssets, whose workers take one file each.  A file is asked of   *)
(* its source once; the caller's AbortSignal and the first failure abort   *)
(* the rest; the call settles after everything it started.                 *)
(*                                                                         *)
(* A step is a stretch of code between two awaits: the answer of a source, *)
(* the continuation of fetchOne, and the continuation of the run or worker *)
(* around it are three steps, and the caller may cancel between any two.   *)
(*                                                                         *)
(* Targets are numbered in dispatch order, duplicates folded.  A source is *)
(* external: it answers with the bytes, with an error of its own, or, once *)
(* the signal it was given is aborted, with a rejection that says only     *)
(* that.                                                                   *)
(***************************************************************************)
EXTENDS Naturals, FiniteSets, FiniteSetsExt

CONSTANTS
    Targets,       \* number of files of the call
    Sizes,         \* sizes a file may have, in units of the budget
    Budget,        \* BYTE_BUDGET
    Concurrency    \* CONCURRENCY, workers of a prefetch

ASSUME TargetsAssumption == Targets \in Nat \ {0}
ASSUME SizesAssumption == Sizes \subseteq Nat
ASSUME PacingAssumption == Budget \in Nat /\ Concurrency \in Nat \ {0}

VARIABLES
    surface,    \* "whole" (fetchAssets) or "warm" (prefetchAssets)
    direct,     \* the source has no phase 1: nothing to warm
    size,       \* FileRef.size of each target
    cancelled,  \* the caller aborted the signal it passed
    signal,     \* reason of the combined signal, NoReason while it is not aborted
    failure,    \* reason of the call's own AbortController
    next,       \* the target the loop or a worker takes next
    loop,       \* where the dispatch loop of fetchAssets stands
    inFlight,   \* bytes lent by the admission
    task,       \* each target's fetch: its stage and what it came to
    bytes,      \* bytesByRef: the targets that are complete
    outcome     \* what the call came to

pacing == <<next, loop, inFlight>>
inputs == <<surface, direct, size>>
vars == <<inputs, cancelled, signal, failure, pacing, task, bytes, outcome>>

Files == 1..Targets

(* What a promise is rejected with: the error of one file's source, the    *)
(* caller's reason, or an abort that names no cause.                       *)
NoReason == [cause |-> "none", file |-> 0]
Cancel == [cause |-> "cancel", file |-> 0]
Aborted == [cause |-> "abort", file |-> 0]
Own(f) == [cause |-> "file", file |-> f]
Reasons == {NoReason, Cancel, Aborted} \cup {Own(f) : f \in Files}

Pending == [state |-> "pending", reason |-> NoReason]
Resolved == [state |-> "resolved", reason |-> NoReason]
Rejected(r) == [state |-> "rejected", reason |-> r]
Missing == [state |-> "missing", reason |-> NoReason]

Queued == [stage |-> "queued", result |-> NoReason]
Failing(r) == [stage |-> "failing", result |-> r]

TypeOK ==
    /\ surface \in {"whole", "warm"} /\ direct \in BOOLEAN
    /\ size \in [Files -> Sizes]
    /\ cancelled \in BOOLEAN
    /\ signal \in Reasons /\ failure \in Reasons
    /\ next \in 1..(Targets + 1) /\ inFlight \in Nat
    /\ loop \in {"admitted", "waiting", "woken", "drained"}
    /\ task \in [Files -> [stage : {"queued", "requested", "answered", "stored",
                                    "failing", "settled"},
                           result : Reasons]]
    /\ bytes \subseteq Files
    /\ outcome \in [state : {"pending", "resolved", "rejected", "missing"},
                    reason : Reasons]

Running == {f \in Files : task[f].stage \notin {"queued", "settled"}}

-------------------------------------------------------------------------------
(* createByteAdmission and the start of a fetch                            *)

(* Mutant of Admit: what is woken is admitted, the condition is not asked  *)
(* for again.                                                              *)
AdmitWoken(f) ==
    IF loop # "woken" /\ inFlight > 0 /\ inFlight + size[f] > Budget
    THEN loop' = "waiting" /\ UNCHANGED inFlight
    ELSE loop' = "admitted" /\ inFlight' = inFlight + size[f]

(* admit waits, in the one waiter slot, while something is in flight and   *)
(* the request does not fit beside it; alone, any request passes.          *)
Admit(f) ==
    IF inFlight > 0 /\ inFlight + size[f] > Budget
    THEN loop' = "waiting" /\ UNCHANGED inFlight
    ELSE loop' = "admitted" /\ inFlight' = inFlight + size[f]

(* The stretch of the dispatch loop up to its next await: stop once        *)
(* aborted, or ask the admission for the next target.                      *)
Advance(n) ==
    /\ next' = n
    /\ IF n > Targets \/ signal # NoReason
       THEN loop' = "drained" /\ UNCHANGED inFlight
       ELSE Admit(n)

(* Mutant of Begin: the head does not check the signal.                    *)
BeginUnchecked ==
    IF surface = "warm" /\ direct THEN [stage |-> "stored", result |-> NoReason]
    ELSE [stage |-> "requested", result |-> NoReason]

(* The synchronous head of fetchOne and prefetchOne: nothing is asked of   *)
(* the source once the signal is aborted, and a source without phase 1 has *)
(* nothing to warm.                                                        *)
Begin ==
    IF signal # NoReason THEN Failing(signal)
    ELSE IF surface = "warm" /\ direct THEN [stage |-> "stored", result |-> NoReason]
    ELSE [stage |-> "requested", result |-> NoReason]

CompletedBy(fs) == bytes \cup {f \in fs : task'[f].stage = "stored"}

Init ==
    /\ surface \in {"whole", "warm"} /\ direct \in BOOLEAN /\ (direct => surface = "warm")
    /\ size \in [Files -> Sizes]
    /\ cancelled \in BOOLEAN
    /\ signal = IF cancelled THEN Cancel ELSE NoReason
    /\ failure = NoReason
    /\ outcome = Pending
    /\ IF surface = "whole"
       THEN /\ next = 1
            /\ loop = IF cancelled THEN "drained" ELSE "admitted"
            /\ inFlight = IF cancelled THEN 0 ELSE size[1]
            /\ task = [f \in Files |-> Queued]
            /\ bytes = {}
       ELSE /\ next = Min({Concurrency, Targets}) + 1
            /\ loop = "drained" /\ inFlight = 0
            /\ task = [f \in Files |-> IF f < next THEN Begin ELSE Queued]
            /\ bytes = IF direct /\ ~cancelled THEN 1..(next - 1) ELSE {}

-------------------------------------------------------------------------------
(* The steps                                                               *)

Abort(r) == signal' = IF signal = NoReason THEN r ELSE signal

(* The caller aborts the signal it passed, at any time before the end.     *)
CallerCancels ==
    /\ ~cancelled /\ outcome = Pending
    /\ cancelled' = TRUE
    /\ Abort(Cancel)
    /\ UNCHANGED <<inputs, failure, pacing, task, bytes, outcome>>

(* The loop goes on after admit: the fetch is started, nobody checks the   *)
(* signal in between but its own head.                                     *)
Launch ==
    /\ surface = "whole" /\ loop = "admitted"
    /\ task' = [task EXCEPT ![next] = Begin]
    /\ Advance(next + 1)
    /\ UNCHANGED <<inputs, cancelled, signal, failure, bytes, outcome>>

(* The waiter woken by release asks again.                                 *)
Recheck ==
    /\ loop = "woken"
    /\ Admit(next)
    /\ UNCHANGED <<inputs, cancelled, signal, failure, next, task, bytes, outcome>>

(* A source answers: with the bytes (a cached file even after an abort),   *)
(* with an error of its own, or with the abort.                            *)
Answer(f) ==
    /\ task[f].stage = "requested"
    /\ \E r \in {NoReason, Own(f)} \cup (IF signal = NoReason THEN {} ELSE {Aborted, signal}) :
          task' = [task EXCEPT ![f] = [stage |-> "answered", result |-> r]]
    /\ UNCHANGED <<inputs, cancelled, signal, failure, pacing, bytes, outcome>>

(* What fetchOne or prefetchOne makes of an answer.  The bytes that arrive *)
(* after an abort are dropped; a prefetch takes an error met after an      *)
(* abort for the abort, unless it is a HubError.                           *)
Concluding(f) ==
    LET r == task[f].result
    IN  IF r = NoReason
        THEN {IF signal = NoReason
              THEN [stage |-> "stored", result |-> NoReason] ELSE Failing(signal)}
        ELSE IF surface = "warm" /\ signal # NoReason /\ r = Own(f)
        THEN {Failing(r), Failing(signal)}
        ELSE {Failing(r)}

Conclude(f) ==
    /\ task[f].stage = "answered"
    /\ \E t \in Concluding(f) : task' = [task EXCEPT ![f] = t]
    /\ bytes' = CompletedBy({f})
    /\ UNCHANGED <<inputs, cancelled, signal, failure, pacing, outcome>>

(* The first failure aborts the rest; the reason is set once.              *)
RecordFailure(f) ==
    IF task[f].stage = "failing"
    THEN /\ failure' = IF failure = NoReason THEN task[f].result ELSE failure
         /\ Abort(task[f].result)
    ELSE UNCHANGED <<failure, signal>>

(* Mutant of Release: only a fetch that succeeds returns its bytes.        *)
ReleaseStored(f) ==
    IF task[f].stage = "stored"
    THEN /\ inFlight' = inFlight - size[f]
         /\ loop' = IF loop = "waiting" THEN "woken" ELSE loop
    ELSE UNCHANGED <<inFlight, loop>>

(* release: the bytes are returned and the waiter is woken.                *)
Release(f) ==
    /\ inFlight' = inFlight - size[f]
    /\ loop' = IF loop = "waiting" THEN "woken" ELSE loop

(* run: whatever fetchOne came to, the slots are returned.                 *)
SettleRun(f) ==
    /\ surface = "whole" /\ task[f].stage \in {"stored", "failing"}
    /\ RecordFailure(f)
    /\ Release(f)
    /\ task' = [task EXCEPT ![f].stage = "settled"]
    /\ UNCHANGED <<inputs, cancelled, next, bytes, outcome>>

(* worker: go on with the next file, or end with the failure.              *)
SettleWorker(f) ==
    /\ surface = "warm" /\ task[f].stage \in {"stored", "failing"}
    /\ RecordFailure(f)
    /\ LET more == task[f].stage = "stored" /\ next <= Targets
       IN  /\ next' = IF more THEN next + 1 ELSE next
           /\ task' = [g \in Files |-> IF more /\ g = next THEN Begin ELSE
                                       IF g = f THEN [task[f] EXCEPT !.stage = "settled"]
                                       ELSE task[g]]
           /\ bytes' = CompletedBy({next} \cap Files)
    /\ UNCHANGED <<inputs, cancelled, loop, inFlight, outcome>>

(* Mutant of Return: the rejection of the first target that failed.        *)
ReturnByOrder ==
    /\ outcome = Pending /\ loop = "drained" /\ Running = {}
    /\ LET failed == {f \in Files : task[f].result # NoReason}
       IN  outcome' = IF failed # {} THEN Rejected(task[Min(failed)].result)
                      ELSE IF cancelled THEN Rejected(Cancel)
                      ELSE IF bytes # Files THEN Missing
                      ELSE Resolved
    /\ UNCHANGED <<inputs, cancelled, signal, failure, pacing, task, bytes>>

(* Everything that was started has settled: the first failure, the         *)
(* caller's cancellation, or the table.                                    *)
Return ==
    /\ outcome = Pending /\ loop = "drained" /\ Running = {}
    /\ outcome' = IF failure # NoReason THEN Rejected(failure)
                  ELSE IF cancelled THEN Rejected(Cancel)
                  ELSE IF bytes # Files THEN Missing
                  ELSE Resolved
    /\ UNCHANGED <<inputs, cancelled, signal, failure, pacing, task, bytes>>

Step(f) == Answer(f) \/ Conclude(f) \/ SettleRun(f) \/ SettleWorker(f)

Next ==
    \/ CallerCancels
    \/ Launch
    \/ Recheck
    \/ Return
    \/ \E f \in Files : Step(f)

(* A source answers in the end, at the latest because of its own timeout;  *)
(* continuations are microtasks.  The caller need not cancel.              *)
Fairness ==
    /\ WF_vars(Launch) /\ WF_vars(Recheck) /\ WF_vars(Return)
    /\ \A f \in Files : WF_vars(Step(f))

Spec == Init /\ [][Next]_vars /\ Fairness

-------------------------------------------------------------------------------
(* Properties                                                              *)

(* The bytes admitted and not yet returned stay within the budget, unless  *)
(* one file alone exceeds it; a prefetch has at most its workers' files in *)
(* flight.  The admission's own count is exact.                            *)
BytesWithinBudget ==
    LET lent == Running \cup (IF loop = "admitted" THEN {next} ELSE {})
        sum == FoldSet(LAMBDA f, n : size[f] + n, 0, lent)
    IN  IF surface = "whole"
        THEN inFlight = sum /\ (sum <= Budget \/ Cardinality({f \in lent : size[f] > 0}) = 1)
        ELSE Cardinality(lent) <= Concurrency

(* The call settles after everything it started, with the table only when  *)
(* it has every file and nobody cancelled, and with the real first failure *)
(* otherwise: an abort that names no cause comes out only if the caller    *)
(* cancelled, never as the echo of another file's failure.                 *)
OutcomeIsTheCause ==
    outcome # Pending =>
        /\ Running = {}
        /\ outcome # Missing
        /\ outcome = Resolved => bytes = Files /\ ~cancelled
        /\ outcome.state = "rejected" =>
              \/ outcome.reason \in {Cancel, Aborted} /\ cancelled
              \/ \E f \in Files : outcome.reason = Own(f) /\ task[f].result = Own(f)

(* From the abort on, whoever aborted, nothing more is asked of a source   *)
(* and no file completes: neither the dispatch waiting for the budget nor  *)
(* a worker between two files nor an answer on its way goes on.            *)
NothingStartsAfterAbort ==
    [][signal # NoReason =>
          /\ \A f \in Files : task'[f].stage = "requested" => task[f].stage = "requested"
          /\ bytes' = bytes]_vars

(* The call settles: the waiter is woken whatever the fetch that returns   *)
(* its bytes came to, and a file over the budget passes when alone.        *)
CallSettles == <>(outcome # Pending)
===============================================================================
