--------------------------- MODULE FetchAssetsProofs ---------------------------
(* Proofs about FetchAssets, for any number of files and workers, any sizes and
   any budget.

   IInv is the inductive invariant. Its parts:
     Results   what a fetch came to fits its stage, and an abort among the
               results was preceded by one of the signal;
     Causes    every reason recorded goes back to the caller or to a file;
     Pacing    the loop stands where the stages of the files say, so nothing is
               left out when it is drained without an abort;
     Ending    a call that settled stays as it is.
   Lending, beside it, is the invariant of the byte admission: what is lent is the
   sum of the sizes of the files that run or were just admitted, within the
   budget or by one file alone; a prefetch runs at most its workers' files.    *)
EXTENDS FetchAssets, FoldFacts

Stored(f) == task[f].stage = "settled" /\ task[f].result = NoReason

Results ==
    \A f \in Files :
        /\ task[f].stage \in {"queued", "requested", "stored"} => task[f].result = NoReason
        /\ task[f].stage = "failing" => task[f].result # NoReason
        /\ task[f].result \notin {NoReason, Own(f)} =>
              signal # NoReason /\ task[f].result \in {Aborted, signal}
        /\ task[f].stage = "stored" \/ Stored(f) => f \in bytes
        /\ task[f].stage = "settled" /\ task[f].result # NoReason => failure # NoReason

\* Where a reason comes from: the caller, who then cancelled, or a file that
\* failed with an error of its own.
FromCaller(r) == r \in {Cancel, Aborted} /\ cancelled
FromFile(r) ==
    \E f \in Files : r = Own(f) /\ task[f].stage = "settled" /\ task[f].result = Own(f)
Caused(r) == r = NoReason \/ FromCaller(r) \/ FromFile(r)

Causes ==
    /\ Caused(signal) /\ Caused(failure)
    /\ signal # NoReason <=> cancelled \/ failure # NoReason

Pacing ==
    /\ surface = "whole" =>
          /\ \A f \in Files : f >= next => task[f].stage = "queued"
          /\ \A f \in Files : f < next => task[f].stage # "queued"
          /\ loop # "drained" => next \in Files
          /\ loop = "drained" /\ next \in Files => signal # NoReason
    /\ surface = "warm" =>
          /\ loop = "drained"
          /\ \A f \in Files : f >= next => task[f].stage = "queued"
          /\ \A f \in Files : f < next => task[f].stage # "queued"
          /\ next \in Files => signal # NoReason \/ Running # {}

Ending == outcome # Pending => Running = {} /\ loop = "drained"

\* The part of TypeOK that says nothing of the bytes lent.
Types ==
    /\ surface \in {"whole", "warm"} /\ direct \in BOOLEAN
    /\ cancelled \in BOOLEAN
    /\ signal \in Reasons /\ failure \in Reasons
    /\ next \in 1..(Targets + 1)
    /\ loop \in {"admitted", "waiting", "woken", "drained"}
    /\ task \in [Files -> [stage : {"queued", "requested", "answered", "stored",
                                    "failing", "settled"},
                           result : Reasons]]
    /\ bytes \subseteq Files

IInv == Types /\ Results /\ Causes /\ Pacing /\ Ending /\ OutcomeIsTheCause

-------------------------------------------------------------------------------
\* The workers started at once are at least one and at most the files.
LEMMA WorkersBound == Min({Concurrency, Targets}) \in 1..Targets
<1> DEFINE m == Min({Concurrency, Targets})
<1>1. Concurrency \in Nat \ {0} /\ Targets \in Nat \ {0}
    BY PacingAssumption, TargetsAssumption
<1>2. \E x \in {Concurrency, Targets} : \A y \in {Concurrency, Targets} : x <= y
    BY <1>1
<1>3. m \in {Concurrency, Targets} /\ \A y \in {Concurrency, Targets} : m <= y
    BY <1>2 DEF Min
<1> QED BY <1>1, <1>3

\* Reasons are told apart by their cause.
LEMMA ReasonsDiffer ==
    /\ NoReason # Cancel /\ NoReason # Aborted /\ Cancel # Aborted
    /\ \A f \in Files : Own(f) \notin {NoReason, Cancel, Aborted}
    /\ \A f, g \in Files : Own(f) = Own(g) => f = g
BY DEF NoReason, Cancel, Aborted, Own

\* The reasons a promise is rejected with belong to their type.
LEMMA ReasonsTyped ==
    /\ {NoReason, Cancel, Aborted} \subseteq Reasons
    /\ \A f \in Files : Own(f) \in Reasons
BY DEF Reasons

\* The invariant holds when the call is issued, for either surface.
LEMMA InitIInv == Init => IInv
<1> SUFFICES ASSUME Init PROVE IInv
    OBVIOUS
<1> USE TargetsAssumption, WorkersBound, ReasonsDiffer
<1>1. Types
    <2>1. CASE surface = "whole"
        BY <2>1 DEF Init, Types, Files, Queued, Reasons
    <2>2. CASE surface = "warm"
        BY <2>2 DEF Init, Types, Files, Queued, Reasons, Begin, Failing
    <2> QED BY <2>1, <2>2 DEF Init
<1>2. Results
    <2>1. CASE surface = "whole"
        BY <2>1 DEF Init, Results, Stored, Queued
    <2>2. CASE surface = "warm"
        <3>1. CASE cancelled
            <4>1. signal = Cancel /\ Begin = Failing(Cancel)
                BY <3>1 DEF Init, Begin
            <4>2. \A f \in Files : task[f] \in {Failing(Cancel), Queued}
                BY <2>2, <4>1 DEF Init
            <4> QED BY <4>1, <4>2 DEF Results, Stored, Queued, Failing
        <3>2. CASE ~cancelled /\ direct
            <4>1. \A f \in Files :
                    \/ task[f] = [stage |-> "stored", result |-> NoReason] /\ f < next
                    \/ task[f] = Queued
                BY <2>2, <3>2 DEF Init, Begin
            <4>2. bytes = 1..(next - 1) /\ next \in Nat
                BY <2>2, <3>2 DEF Init
            <4>3. \A f \in Files : f < next => f \in bytes
                BY <4>2 DEF Files
            <4> QED BY <4>1, <4>3 DEF Results, Stored, Queued
        <3>3. CASE ~cancelled /\ ~direct
            BY <2>2, <3>3 DEF Init, Results, Stored, Queued, Begin
        <3> QED BY <3>1, <3>2, <3>3 DEF Init
    <2> QED BY <2>1, <2>2 DEF Init
<1>3. Causes
    BY DEF Init, Causes, Caused, FromCaller
<1>4. Pacing
    <2>1. CASE surface = "whole"
        BY <2>1 DEF Init, Pacing, Queued, Files
    <2>2. CASE surface = "warm"
        <3>1. Begin.stage \notin {"queued", "settled"}
            BY DEF Begin, Failing
        <3>2. next \in 2..(Targets + 1) /\ loop = "drained"
            BY <2>2 DEF Init
        <3>3. \A f \in Files : task[f] = IF f < next THEN Begin ELSE Queued
            BY <2>2 DEF Init
        <3>4. 1 \in Files /\ 1 < next
            BY <3>2 DEF Files
        <3>5. Running # {}
            BY <3>1, <3>3, <3>4 DEF Running
        <3>6. \A f \in Files : ~(f >= next /\ f < next) /\ (f >= next \/ f < next)
            BY <3>2 DEF Files
        <3> QED BY <2>2, <3>1, <3>2, <3>3, <3>5, <3>6 DEF Pacing, Queued
    <2> QED BY <2>1, <2>2 DEF Init
<1> QED BY <1>1, <1>2, <1>3, <1>4 DEF Init, IInv, Ending, OutcomeIsTheCause

\* A step that records no reason keeps Causes if what is settled stays.
LEMMA CausesKept ==
    ASSUME Causes, UNCHANGED <<signal, failure, cancelled>>,
           \A f \in Files : task[f].stage = "settled" => task'[f] = task[f]
    PROVE  Causes'
BY DEF Causes, Caused, FromCaller, FromFile

\* The caller's abort reaches the signal only: every pending state stays.
LEMMA CallerCancelsStep ==
    ASSUME IInv, CallerCancels
    PROVE  IInv'
<1> USE TargetsAssumption, ReasonsDiffer, ReasonsTyped DEF IInv
<1>1. Types'
    BY DEF CallerCancels, Abort, Types, Files, inputs, pacing
<1>2. Results'
    BY DEF CallerCancels, Abort, Types, Results, Stored, inputs, pacing
<1>3. Causes'
    BY DEF CallerCancels, Abort, Types, Results, Causes, Caused, FromCaller, FromFile,
           inputs, pacing
<1>4. Pacing'
    BY DEF CallerCancels, Abort, Types, Results, Pacing, Running, Files, inputs, pacing
<1>5. Ending'
    BY DEF CallerCancels, Abort, Ending, Running, Pacing, Results, inputs, pacing
<1>6. OutcomeIsTheCause'
    BY DEF CallerCancels, Abort, OutcomeIsTheCause, Ending, Running, inputs, pacing
<1> QED BY <1>1, <1>2, <1>3, <1>4, <1>5, <1>6

\* The loop starts the file it admitted, and reserves bytes for the next one.
LEMMA LaunchStep ==
    ASSUME IInv, Launch
    PROVE  IInv'
<1> USE TargetsAssumption, ReasonsDiffer, ReasonsTyped DEF IInv
<1>1. Types'
    <2>1. Begin \in [stage : {"requested", "stored", "failing"}, result : Reasons]
        BY DEF Begin, Failing, Types
    <2>2. next \in Files
        BY DEF Launch, Pacing, Types
    <2>3. loop' \in {"admitted", "waiting", "drained"} /\ next' = next + 1
        BY DEF Launch, Advance, Admit
    <2> QED BY <2>1, <2>2, <2>3 DEF Launch, Types, Files, inputs
<1>2. Results'
    BY DEF Launch, Begin, Advance, Admit, Failing, Types, Results, Stored, inputs, pacing
<1>3. Causes'
    <2>1. next \in Files /\ task[next].stage = "queued"
        BY DEF Launch, Pacing, Types, Files
    <2> QED BY <2>1, CausesKept DEF Launch, Types
<1>4. Pacing'
    BY DEF Launch, Begin, Advance, Admit, Failing, Types, Results, Pacing, Running, Files,
           inputs, pacing
<1>5. Ending'
    BY DEF Launch, Begin, Advance, Admit, Failing, Ending, Running, Pacing, Results,
           inputs, pacing
<1>6. OutcomeIsTheCause'
    BY DEF Launch, Begin, Advance, Admit, Failing, OutcomeIsTheCause, Ending, Running,
           inputs, pacing
<1> QED BY <1>1, <1>2, <1>3, <1>4, <1>5, <1>6

\* The woken admission looks at the budget again, for the same file.
LEMMA RecheckStep ==
    ASSUME IInv, Recheck
    PROVE  IInv'
<1> USE TargetsAssumption, ReasonsDiffer, ReasonsTyped DEF IInv
<1>1. Types'
    BY DEF Recheck, Admit, Types, Files, inputs, pacing
<1>2. Results'
    BY DEF Recheck, Admit, Types, Results, Stored, inputs, pacing
<1>3. Causes'
    BY DEF Recheck, Admit, Types, Results, Causes, Caused, FromCaller, FromFile, inputs, pacing
<1>4. Pacing'
    BY DEF Recheck, Admit, Types, Results, Pacing, Running, Files, inputs, pacing
<1>5. Ending'
    BY DEF Recheck, Admit, Ending, Running, Pacing, Results, inputs, pacing
<1>6. OutcomeIsTheCause'
    BY DEF Recheck, Admit, OutcomeIsTheCause, Ending, Running, inputs, pacing
<1> QED BY <1>1, <1>2, <1>3, <1>4, <1>5, <1>6

\* The call settles from what its files came to, and from the failure recorded.
LEMMA ReturnStep ==
    ASSUME IInv, Return
    PROVE  IInv'
<1> USE TargetsAssumption, ReasonsDiffer, ReasonsTyped DEF IInv
<1>1. Types'
    BY DEF Return, Pending, Rejected, Resolved, Missing, Types, Files, inputs, pacing
<1>2. Results'
    BY DEF Return, Pending, Rejected, Resolved, Missing, Types, Results, Stored, inputs, pacing
<1>3. Causes'
    BY DEF Return, Pending, Rejected, Resolved, Missing, Types, Results, Causes, Caused,
           FromCaller, FromFile, inputs, pacing
<1>4. Pacing'
    BY DEF Return, Pending, Rejected, Resolved, Missing, Types, Results, Pacing, Running,
           Files, inputs, pacing
<1>5. Ending'
    BY DEF Return, Pending, Rejected, Resolved, Missing, Ending, Running, Pacing, Results,
           inputs, pacing
<1>6. OutcomeIsTheCause'
    <2>1. Running' = {} /\ \A f \in Files : task'[f] = task[f]
        BY DEF Return, Running
    <2>2. CASE failure # NoReason
        <3>1. outcome' = Rejected(failure)
            BY <2>2 DEF Return
        <3>2. FromCaller(failure) \/ FromFile(failure)
            BY <2>2 DEF Causes, Caused
        <3> QED BY <2>1, <3>1, <3>2 DEF OutcomeIsTheCause, FromCaller, FromFile, Rejected,
                                        Missing, Resolved, Return
    <2>3. CASE failure = NoReason /\ cancelled
        BY <2>1, <2>3 DEF Return, OutcomeIsTheCause, Rejected, Missing, Resolved
    <2>4. CASE failure = NoReason /\ ~cancelled
        <3>1. signal = NoReason
            BY <2>4 DEF Causes
        <3>2. next \notin Files
            BY <3>1 DEF Pacing, Types, Return, Running
        <3>3. \A f \in Files : f < next
            BY <3>2 DEF Types, Files
        <3>4. \A f \in Files : task[f].stage = "settled"
            BY <3>3 DEF Pacing, Types, Return, Running
        <3>5. bytes = Files
            BY <2>4, <3>4 DEF Results, Stored, Types
        <3> QED BY <2>1, <2>4, <3>5 DEF Return, OutcomeIsTheCause, Resolved, Missing
    <2> QED BY <2>2, <2>3, <2>4
<1> QED BY <1>1, <1>2, <1>3, <1>4, <1>5, <1>6

\* A source answers one file, with an error only for a cause it has.
LEMMA AnswerStep ==
    ASSUME NEW f \in Files, IInv, Answer(f)
    PROVE  IInv'
<1> USE TargetsAssumption, ReasonsDiffer, ReasonsTyped DEF IInv
<1>1. Types'
    BY DEF Answer, Types, Files, inputs, pacing
<1>2. Results'
    BY DEF Answer, Types, Results, Stored, inputs, pacing
<1>3. Causes'
    BY DEF Answer, Types, Results, Causes, Caused, FromCaller, FromFile, inputs, pacing
<1>4. Pacing'
    BY DEF Answer, Types, Results, Pacing, Running, Files, inputs, pacing
<1>5. Ending'
    BY DEF Answer, Ending, Running, Pacing, Results, inputs, pacing
<1>6. OutcomeIsTheCause'
    BY DEF Answer, OutcomeIsTheCause, Ending, Running, inputs, pacing
<1> QED BY <1>1, <1>2, <1>3, <1>4, <1>5, <1>6

\* The continuation of fetchOne keeps the bytes or passes the rejection on.
LEMMA ConcludeStep ==
    ASSUME NEW f \in Files, IInv, Conclude(f)
    PROVE  IInv'
<1> USE TargetsAssumption, ReasonsDiffer, ReasonsTyped DEF IInv
<1>1. Types'
    <2>1. Concluding(f) \subseteq [stage : {"stored", "failing"}, result : Reasons]
        BY DEF Concluding, Failing, Types
    <2>2. task' \in [Files -> [stage : {"queued", "requested", "answered", "stored",
                                        "failing", "settled"},
                               result : Reasons]]
        BY <2>1 DEF Conclude, Types
    <2>3. bytes' \subseteq Files
        BY DEF Conclude, CompletedBy, Types
    <2> QED BY <2>2, <2>3 DEF Conclude, Types, inputs, pacing
<1>2. Results'
    BY DEF Conclude, Concluding, CompletedBy, Failing, Types, Results, Stored, inputs, pacing
<1>3. Causes'
    BY CausesKept DEF Conclude, Types
<1>4. Pacing'
    BY DEF Conclude, Concluding, CompletedBy, Failing, Types, Results, Pacing, Running,
           Files, inputs, pacing
<1>5. Ending'
    BY DEF Conclude, Concluding, CompletedBy, Failing, Ending, Running, Pacing, Results,
           inputs, pacing
<1>6. OutcomeIsTheCause'
    BY DEF Conclude, Concluding, CompletedBy, Failing, OutcomeIsTheCause, Ending, Running,
           inputs, pacing
<1> QED BY <1>1, <1>2, <1>3, <1>4, <1>5, <1>6

\* A run returns its bytes to the budget and records the first failure.
LEMMA SettleRunStep ==
    ASSUME NEW f \in Files, IInv, SettleRun(f)
    PROVE  IInv'
<1> USE TargetsAssumption, ReasonsDiffer, ReasonsTyped DEF IInv
<1>1. Types'
    BY DEF SettleRun, RecordFailure, Release, Abort, Types, Files, inputs, pacing
<1>2. Results'
    BY DEF SettleRun, RecordFailure, Release, Abort, Types, Results, Stored, inputs, pacing
<1>3. Causes'
    BY DEF SettleRun, RecordFailure, Release, Abort, Types, Results, Causes, Caused,
           FromCaller, FromFile, inputs, pacing
<1>4. Pacing'
    BY DEF SettleRun, RecordFailure, Release, Abort, Types, Results, Pacing, Running,
           Files, inputs, pacing
<1>5. Ending'
    BY DEF SettleRun, RecordFailure, Release, Abort, Ending, Running, Pacing, Results,
           inputs, pacing
<1>6. OutcomeIsTheCause'
    BY DEF SettleRun, RecordFailure, Release, Abort, OutcomeIsTheCause, Ending, Running,
           inputs, pacing
<1> QED BY <1>1, <1>2, <1>3, <1>4, <1>5, <1>6

\* A worker records the first failure, or takes the next file.
LEMMA SettleWorkerStep ==
    ASSUME NEW f \in Files, IInv, SettleWorker(f)
    PROVE  IInv'
<1> USE TargetsAssumption, ReasonsDiffer, ReasonsTyped DEF IInv
<1>1. Types'
    BY DEF SettleWorker, RecordFailure, Abort, CompletedBy, Begin, Failing, Types, Files,
           inputs, pacing
<1>2. Results'
    BY DEF SettleWorker, RecordFailure, Abort, CompletedBy, Begin, Failing, Types,
           Results, Stored, inputs, pacing
<1>3. Causes'
    <2>1. next \in Files => task[next].stage = "queued"
        BY DEF SettleWorker, Pacing, Files, Types
    <2>2. \A g \in Files : task[g].stage = "settled" => task'[g] = task[g]
        BY <2>1 DEF SettleWorker, Types, Files
    <2>3. CASE task[f].stage = "stored"
        BY <2>2, <2>3, CausesKept DEF SettleWorker, RecordFailure
    <2>4. CASE task[f].stage = "failing"
        <3>1. task'[f].stage = "settled" /\ task'[f].result = task[f].result
            BY <2>4 DEF SettleWorker, Types
        <3>2. task[f].result # NoReason
            BY <2>4 DEF Results
        <3>3. UNCHANGED cancelled /\ \A r : Caused(r) => Caused(r)'
            BY <2>2 DEF SettleWorker, Caused, FromCaller, FromFile
        <3>4. failure = NoReason => Caused(task[f].result)'
            BY <3>1, <3>2, <3>3 DEF Results, Causes, Caused, FromCaller, FromFile
        <3>5. signal = NoReason => Caused(task[f].result)'
            BY <3>4 DEF Causes
        <3> QED BY <2>4, <3>1, <3>2, <3>3, <3>4, <3>5
                DEF Causes, SettleWorker, RecordFailure, Abort
    <2> QED BY <2>3, <2>4 DEF SettleWorker
<1>4. Pacing'
    BY DEF SettleWorker, RecordFailure, Abort, CompletedBy, Begin, Failing, Types,
           Results, Pacing, Running, Files, inputs, pacing
<1>5. Ending'
    BY DEF SettleWorker, RecordFailure, Abort, CompletedBy, Begin, Failing, Ending,
           Running, Pacing, Results, inputs, pacing
<1>6. OutcomeIsTheCause'
    BY DEF SettleWorker, RecordFailure, Abort, CompletedBy, Begin, Failing,
           OutcomeIsTheCause, Ending, Running, inputs, pacing
<1> QED BY <1>1, <1>2, <1>3, <1>4, <1>5, <1>6

\* Every step keeps the invariant.
LEMMA StepIInv ==
    ASSUME IInv, [Next]_vars
    PROVE  IInv'
<1>1. CASE UNCHANGED vars
    BY <1>1 DEF IInv, Types, Results, Stored, Causes, Caused, FromCaller, FromFile, Pacing,
               Ending, Running, OutcomeIsTheCause, vars, inputs, pacing
<1>2. CASE Next
    BY <1>2, CallerCancelsStep, LaunchStep, RecheckStep, ReturnStep, AnswerStep,
       ConcludeStep, SettleRunStep, SettleWorkerStep DEF Next, Step
<1> QED BY <1>1, <1>2

\* The call settles after everything it started, with the whole table or with
\* the cause of its failure (fetchAssetsWithBudget, prefetchAssets).
THEOREM OutcomeHasItsCause == Spec => []OutcomeIsTheCause
<1>1. Init => IInv
    BY InitIInv
<1>2. IInv /\ [Next]_vars => IInv'
    BY StepIInv
<1>3. IInv => OutcomeIsTheCause
    BY DEF IInv
<1> QED BY <1>1, <1>2, <1>3, PTL DEF Spec

\* What is asked of a source and what completes, step by step.
LEMMA NothingStartsStep ==
    ASSUME IInv, [Next]_vars, signal # NoReason
    PROVE  /\ \A f \in Files : task'[f].stage = "requested" => task[f].stage = "requested"
           /\ bytes' = bytes
<1> USE DEF IInv
<1>1. CASE UNCHANGED vars
    BY <1>1 DEF vars
<1>2. CASE CallerCancels \/ Recheck \/ Return
    BY <1>2 DEF CallerCancels, Recheck, Return
<1>3. CASE Launch
    BY <1>3 DEF Launch, Begin, Failing, Types
<1>4. ASSUME NEW f \in Files, Answer(f) \/ SettleRun(f)
      PROVE  /\ \A g \in Files : task'[g].stage = "requested" => task[g].stage = "requested"
             /\ bytes' = bytes
    BY <1>4 DEF Answer, SettleRun, Types
<1>5. ASSUME NEW f \in Files, Conclude(f)
      PROVE  /\ \A g \in Files : task'[g].stage = "requested" => task[g].stage = "requested"
             /\ bytes' = bytes
    BY <1>5 DEF Conclude, Concluding, CompletedBy, Failing, Types
<1>6. ASSUME NEW f \in Files, SettleWorker(f)
      PROVE  /\ \A g \in Files : task'[g].stage = "requested" => task[g].stage = "requested"
             /\ bytes' = bytes
    <2>1. next \in Files => task[next].stage = "queued" /\ next # f
        BY <1>6 DEF SettleWorker, Pacing, Types, Files
    <2> QED BY <1>6, <2>1 DEF SettleWorker, CompletedBy, Begin, Failing, Types
<1> QED BY <1>1, <1>2, <1>3, <1>4, <1>5, <1>6 DEF Next, Step

\* Once the signal is aborted, nothing more is asked of a source and no file
\* completes (the heads of fetchOne and prefetchOne and their second checks).
THEOREM AbortStopsTheCall == Spec => NothingStartsAfterAbort
<1>1. Init => IInv
    BY InitIInv
<1>2. IInv /\ [Next]_vars => IInv'
    BY StepIInv
<1>3. IInv /\ [Next]_vars =>
        (signal # NoReason =>
            /\ \A f \in Files : task'[f].stage = "requested" => task[f].stage = "requested"
            /\ bytes' = bytes)
    BY NothingStartsStep
<1> QED BY <1>1, <1>2, <1>3, PTL DEF Spec, NothingStartsAfterAbort
-------------------------------------------------------------------------------
(* The bytes lent: the sum that BytesWithinBudget folds is FoldFacts' Total.   *)

\* The bytes lent are counted, and within the budget but for one file alone.
Fits(w, n, L) ==
    /\ n = Total(w, L)
    /\ n <= Budget \/ Cardinality({f \in L : w[f] > 0}) = 1

\* A file that is admitted beside what is lent, or alone, keeps it so.
LEMMA FitsMore ==
    ASSUME NEW L, IsFiniteSet(L), NEW w, NEW x, x \notin L,
           \A f \in L \cup {x} : w[f] \in Nat,
           NEW n, Fits(w, n, L), n > 0 => n + w[x] <= Budget
    PROVE  Fits(w, n + w[x], L \cup {x})
<1> DEFINE M == L \cup {x}
<1>1. IsFiniteSet(M) /\ M \ {x} = L /\ x \in M
    BY FS_AddElement
<1>2. Total(w, M) = w[x] + Total(w, L) /\ Total(w, L) \in Nat
    BY <1>1, TotalSplits
<1>3. n \in Nat /\ n + w[x] = Total(w, M) /\ w[x] \in Nat
    BY <1>2 DEF Fits
<1>4. CASE n > 0
    BY <1>3, <1>4 DEF Fits
<1>5. CASE n = 0
    <2>1. ASSUME NEW f \in L PROVE w[f] = 0
        <3>1. Total(w, L) = w[f] + Total(w, L \ {f})
            BY TotalSplits
        <3> DEFINE K == L \ {f}
        <3>2. IsFiniteSet(K) /\ \A y \in K : w[y] \in Nat
            BY FS_RemoveElement
        <3> HIDE DEF K
        <3>3. Total(w, K) \in Nat
            BY <3>2, TotalSplits
        <3>4. w[f] \in Nat /\ 0 = w[f] + Total(w, K)
            BY <1>5, <3>1 DEF Fits, K
        <3> QED BY <3>3, <3>4
    <2>2. CASE w[x] = 0
        BY <1>3, <1>5, <2>2, PacingAssumption DEF Fits
    <2>3. CASE w[x] > 0
        <3>1. {f \in M : w[f] > 0} = {x}
            BY <2>1, <2>3
        <3> QED BY <1>3, <3>1, FS_Singleton DEF Fits
    <2> QED BY <1>3, <2>2, <2>3
<1> QED BY <1>3, <1>4, <1>5

\* A file that is returned keeps it so.
LEMMA FitsLess ==
    ASSUME NEW L, IsFiniteSet(L), NEW w, NEW x \in L, \A f \in L : w[f] \in Nat,
           NEW n, Fits(w, n, L)
    PROVE  Fits(w, n - w[x], L \ {x})
<1> DEFINE M == L \ {x}
<1>1. IsFiniteSet(M) /\ \A f \in M : w[f] \in Nat
    BY FS_RemoveElement
<1>2. Total(w, L) = w[x] + Total(w, M) /\ Total(w, M) \in Nat
    BY <1>1, TotalSplits
<1>3. n - w[x] = Total(w, M) /\ w[x] \in Nat /\ n \in Nat
    BY <1>2 DEF Fits
<1>4. CASE n <= Budget
    BY <1>3, <1>4, PacingAssumption DEF Fits
<1>5. CASE Cardinality({f \in L : w[f] > 0}) = 1
    <2>1. IsFiniteSet({f \in L : w[f] > 0})
        BY FS_Subset
    <2>2. PICK y : {f \in L : w[f] > 0} = {y}
        BY <1>5, <2>1, FS_Singleton
    <2>3. CASE y = x
        <3>1. \A f \in M : w[f] = 0
            BY <1>1, <2>2, <2>3
        <3>2. Total(w, M) = 0
            BY <1>1, <3>1, TotalSplits
        <3> QED BY <1>3, <3>2, PacingAssumption DEF Fits
    <2>4. CASE y # x
        <3>1. {f \in M : w[f] > 0} = {y}
            BY <2>2, <2>4
        <3> QED BY <1>3, <3>1, FS_Singleton DEF Fits
    <2> QED BY <2>3, <2>4
<1> QED BY <1>4, <1>5 DEF Fits
\* The files whose bytes are lent: what runs, and what the loop has admitted.
Lent == Running \cup (IF loop = "admitted" THEN {next} ELSE {})

\* The invariant of the pacing, beside IInv.
Lending ==
    /\ size \in [Files -> Nat]
    /\ surface = "whole" => Fits(size, inFlight, Lent)
    /\ surface = "warm" => Cardinality(Running) <= Concurrency

\* Files, and so every set of them, is finite.
LEMMA FilesFinite == \A S \in SUBSET Files : IsFiniteSet(S)
<1>1. 1 \in Int /\ Targets \in Int
    BY TargetsAssumption
<1>2. IsFiniteSet(Files)
    BY <1>1, FS_Interval DEF Files
<1> QED BY <1>2, FS_Subset

\* What the loop admits next is added to what is lent, and it fits.
LEMMA AdmitFits ==
    ASSUME NEW L \in SUBSET Files, NEW x \in Files, x \notin L, size \in [Files -> Nat],
           Fits(size, inFlight, L), Admit(x)
    PROVE  IF loop' = "admitted" THEN Fits(size, inFlight', L \cup {x})
           ELSE Fits(size, inFlight', L)
<1>1. IsFiniteSet(L) /\ \A f \in L \cup {x} : size[f] \in Nat
    BY FilesFinite
<1>2. inFlight \in Nat
    BY <1>1, TotalSplits DEF Fits
<1>3. CASE inFlight > 0 /\ inFlight + size[x] > Budget
    BY <1>3 DEF Admit
<1>4. CASE ~(inFlight > 0 /\ inFlight + size[x] > Budget)
    <2>1. inFlight > 0 => inFlight + size[x] <= Budget
        BY <1>1, <1>2, <1>4, PacingAssumption
    <2>2. Fits(size, inFlight + size[x], L \cup {x})
        BY <1>1, <2>1, FitsMore
    <2> QED BY <1>4, <2>2 DEF Admit
<1> QED BY <1>3, <1>4

\* The first file of the loop passes; the workers of a prefetch are its files.
LEMMA InitLending == Init => Lending
<1> SUFFICES ASSUME Init PROVE Lending
    OBVIOUS
<1>1. size \in [Files -> Nat]
    BY SizesAssumption DEF Init
<1>2. ASSUME surface = "whole" PROVE Fits(size, inFlight, Lent)
    <2>1. Running = {}
        BY <1>2 DEF Init, Running, Queued
    <2>2. IsFiniteSet({}) /\ Total(size, {}) = 0
        BY FS_EmptySet, TotalSplits
    <2>3. Fits(size, 0, {})
        BY <2>2, PacingAssumption DEF Fits
    <2>4. CASE cancelled
        BY <1>2, <2>1, <2>3, <2>4 DEF Init, Lent
    <2>5. CASE ~cancelled
        <3>1. 1 \in Files /\ size[1] \in Nat
            BY <1>1, TargetsAssumption DEF Files
        <3>2. \A f \in {} \cup {1} : size[f] \in Nat
            BY <3>1
        <3>3. Fits(size, 0 + size[1], {} \cup {1})
            BY <2>2, <2>3, <3>2, FitsMore
        <3>4. Lent = {} \cup {1} /\ inFlight = 0 + size[1]
            BY <1>2, <2>1, <2>5, <3>1 DEF Init, Lent
        <3> QED BY <3>3, <3>4
    <2> QED BY <2>4, <2>5
<1>3. ASSUME surface = "warm" PROVE Cardinality(Running) <= Concurrency
    <2>1. next \in Nat /\ next - 1 <= Concurrency /\ next - 1 \in 1..Targets
        <3>1. Concurrency \in Nat \ {0} /\ Targets \in Nat \ {0}
            BY PacingAssumption, TargetsAssumption
        <3>2. \E x \in {Concurrency, Targets} : \A y \in {Concurrency, Targets} : x <= y
            BY <3>1
        <3>3. Min({Concurrency, Targets}) <= Concurrency
            BY <3>2 DEF Min
        <3>4. next = Min({Concurrency, Targets}) + 1
            BY <1>3 DEF Init
        <3> HIDE DEF Min
        <3> QED BY <3>1, <3>3, <3>4, WorkersBound
    <2>2. Running \subseteq 1..(next - 1)
        <3>1. ASSUME NEW f \in Files, ~(f < next) PROVE task[f] = Queued
            BY <1>3, <3>1 DEF Init
        <3>2. \A f \in Files : f < next => f \in 1..(next - 1)
            BY <2>1 DEF Files
        <3> QED BY <3>1, <3>2 DEF Running, Queued
    <2>3. IsFiniteSet(1..(next - 1)) /\ Cardinality(1..(next - 1)) = next - 1
        BY <2>1, FS_Interval
    <2>4. Cardinality(Running) <= next - 1 /\ Cardinality(Running) \in Nat
        BY <2>2, <2>3, FS_Subset, FS_CardinalityType
    <2> QED BY <2>1, <2>4, PacingAssumption
<1> QED BY <1>1, <1>2, <1>3 DEF Lending

\* A step that starts and ends no fetch and leaves the pacing keeps what is lent.
LEMMA LendingStays ==
    ASSUME Lending, Running' = Running, UNCHANGED <<inputs, pacing>>
    PROVE  Lending'
<1>1. Lent' = Lent
    BY DEF Lent, pacing
<1>2. surface' = surface /\ size' = size /\ inFlight' = inFlight
    BY DEF inputs, pacing
<1> QED BY <1>1, <1>2 DEF Lending

\* A file that is launched was lent its bytes when it was admitted; the next one
\* is admitted beside it.
LEMMA LaunchLending ==
    ASSUME IInv, Lending, Launch
    PROVE  Lending'
<1>1. surface = "whole" /\ loop = "admitted" /\ UNCHANGED inputs
    BY DEF Launch
<1>2. next \in Files /\ \A f \in Files : f >= next => task[f].stage = "queued"
    BY <1>1 DEF IInv, Pacing
<1>3. Begin.stage \notin {"queued", "settled"}
    BY DEF Begin, Failing
<1>4. Running' = Running \cup {next} /\ Lent = Running \cup {next}
    <2>1. task' = [task EXCEPT ![next] = Begin]
        BY DEF Launch
    <2> QED BY <1>1, <1>2, <1>3, <2>1 DEF Running, Lent, IInv, Types
<1>5. Fits(size, inFlight, Running') /\ Running' \in SUBSET Files /\ size \in [Files -> Nat]
    BY <1>1, <1>4 DEF Lending, Running
<1>6. next' = next + 1 /\ next + 1 > next
    BY <1>2 DEF Launch, Advance, Files
<1>7. CASE next + 1 > Targets \/ signal # NoReason
    <2>1. loop' = "drained" /\ inFlight' = inFlight
        BY <1>7 DEF Launch, Advance
    <2> QED BY <1>1, <1>5, <2>1 DEF Lending, Lent, inputs
<1>8. CASE ~(next + 1 > Targets \/ signal # NoReason)
    <2>1. next + 1 \in Files /\ next + 1 \notin Running'
        BY <1>2, <1>4, <1>6, <1>8, TargetsAssumption DEF Files, Running
    <2>2. Admit(next + 1)
        BY <1>8 DEF Launch, Advance
    <2>3. IF loop' = "admitted" THEN Fits(size, inFlight', Running' \cup {next + 1})
          ELSE Fits(size, inFlight', Running')
        BY <1>5, <2>1, <2>2, AdmitFits
    <2> QED BY <1>1, <1>5, <1>6, <2>3 DEF Lending, Lent, inputs
<1> QED BY <1>7, <1>8

\* The woken loop asks again, beside what still runs.
LEMMA RecheckLending ==
    ASSUME IInv, Lending, Recheck
    PROVE  Lending'
<1>1. loop = "woken" /\ Admit(next) /\ UNCHANGED <<inputs, next, task>>
    BY DEF Recheck
<1>2. surface = "whole" /\ next \in Files /\ next \notin Running /\ Running' = Running
    <2>1. surface = "whole" /\ next \in Files
        BY <1>1 DEF IInv, Types, Pacing
    <2>2. task[next].stage = "queued"
        BY <2>1 DEF IInv, Pacing, Files
    <2> QED BY <1>1, <2>1, <2>2 DEF Running
<1>3. Lent = Running /\ Running \in SUBSET Files
    BY <1>1 DEF Lent, Running
<1>4. Fits(size, inFlight, Running) /\ size \in [Files -> Nat]
    BY <1>2, <1>3 DEF Lending
<1>5. IF loop' = "admitted" THEN Fits(size, inFlight', Running \cup {next})
      ELSE Fits(size, inFlight', Running)
    BY <1>1, <1>2, <1>3, <1>4, AdmitFits
<1> QED BY <1>1, <1>2, <1>4, <1>5 DEF Lending, Lent, inputs

\* release gives back exactly what the file was lent.
LEMMA SettleRunLending ==
    ASSUME NEW f \in Files, IInv, Lending, SettleRun(f)
    PROVE  Lending'
<1>1. surface = "whole" /\ task[f].stage \in {"stored", "failing"} /\ UNCHANGED <<inputs, next>>
      /\ task' = [task EXCEPT ![f].stage = "settled"] /\ Release(f)
    BY DEF SettleRun
<1>2. Running' = Running \ {f} /\ f \in Running
    BY <1>1 DEF Running, IInv, Types
<1>3. loop = "admitted" => task[next].stage = "queued"
    BY <1>1 DEF IInv, Pacing, Files
<1>4. f # next \/ loop # "admitted"
    BY <1>1, <1>3
<1>5. Lent' = Lent \ {f} /\ f \in Lent /\ Lent \in SUBSET Files
    <2>1. loop' = "admitted" <=> loop = "admitted"
        BY <1>1 DEF Release
    <2>2. loop = "admitted" => next \in Files
        BY <1>1 DEF IInv, Pacing
    <2> QED BY <1>1, <1>2, <1>4, <2>1, <2>2 DEF Lent, Running
<1>6. Fits(size, inFlight, Lent) /\ size \in [Files -> Nat]
    BY <1>1 DEF Lending
<1>7. Fits(size, inFlight - size[f], Lent \ {f})
    BY <1>5, <1>6, FilesFinite, FitsLess
<1> QED BY <1>1, <1>5, <1>6, <1>7 DEF Lending, Release, inputs

\* A worker that goes on takes one file for the one it is done with.
LEMMA SettleWorkerLending ==
    ASSUME NEW f \in Files, IInv, Lending, SettleWorker(f)
    PROVE  Lending'
<1>1. surface = "warm" /\ task[f].stage \in {"stored", "failing"} /\ UNCHANGED inputs
    BY DEF SettleWorker
<1>2. f \in Running /\ Running \in SUBSET Files
    BY <1>1 DEF Running
<1>3. Running' \subseteq (Running \ {f}) \cup {next}
    BY DEF SettleWorker, Running, IInv, Types
<1> DEFINE R == Running \ {f}
<1>4. IsFiniteSet(Running) /\ IsFiniteSet(R) /\ Cardinality(R) = Cardinality(Running) - 1
    BY <1>2, FilesFinite, FS_RemoveElement
<1>5. IsFiniteSet(R \cup {next}) /\ Cardinality(R \cup {next}) <= Cardinality(R) + 1
    <2>1. /\ IsFiniteSet(R \cup {next})
          /\ \/ Cardinality(R \cup {next}) = Cardinality(R)
             \/ Cardinality(R \cup {next}) = Cardinality(R) + 1
        BY <1>4, FS_AddElement
    <2>2. Cardinality(R) \in Nat
        BY <1>4, FS_CardinalityType
    <2> QED BY <2>1, <2>2
<1>6. Cardinality(Running') <= Cardinality(R \cup {next}) /\ Cardinality(Running') \in Nat
    BY <1>3, <1>5, FS_Subset, FS_CardinalityType
<1>7. /\ Cardinality(Running) \in Nat /\ Cardinality(R) \in Nat
      /\ Cardinality(R \cup {next}) \in Nat
    BY <1>4, <1>5, FS_CardinalityType
<1>8. Cardinality(Running) <= Concurrency
    BY <1>1 DEF Lending
<1> HIDE DEF R
<1>9. Cardinality(Running') <= Concurrency
    BY <1>4, <1>5, <1>6, <1>7, <1>8, PacingAssumption
<1> QED BY <1>1, <1>9 DEF Lending, inputs

\* Every step keeps what is lent counted and within its bounds.
LEMMA StepLending ==
    ASSUME IInv, Lending, [Next]_vars
    PROVE  Lending'
<1>1. CASE UNCHANGED vars
    BY <1>1, LendingStays DEF vars, Running
<1>2. CASE CallerCancels \/ Return
    BY <1>2, LendingStays DEF CallerCancels, Return, Running
<1>3. ASSUME NEW f \in Files, Answer(f) \/ Conclude(f)
      PROVE  Lending'
    <2>1. UNCHANGED <<inputs, pacing>>
        BY <1>3 DEF Answer, Conclude
    <2>2. Running' = Running
        BY <1>3 DEF Answer, Conclude, Concluding, Failing, Running, IInv, Types
    <2> QED BY <2>1, <2>2, LendingStays
<1>4. CASE Next
    BY <1>2, <1>3, <1>4, LaunchLending, RecheckLending, SettleRunLending,
       SettleWorkerLending DEF Next, Step
<1> QED BY <1>1, <1>4

\* The bytes the dispatch loop has lent are within the budget but for one file
\* alone, and counted exactly; a prefetch runs no more files than it has workers
\* (createByteAdmission, prefetchAssets).
THEOREM BytesAreBounded == Spec => []BytesWithinBudget
<1>1. Init => IInv /\ Lending
    BY InitIInv, InitLending
<1>2. IInv /\ Lending /\ [Next]_vars => IInv' /\ Lending'
    BY StepIInv, StepLending
<1>3. IInv /\ Lending => BytesWithinBudget
    <2> SUFFICES ASSUME IInv, Lending PROVE BytesWithinBudget
        OBVIOUS
    <2>1. surface = "warm" => Lent = Running
        BY DEF Lent, IInv, Pacing
    <2>2. surface \in {"whole", "warm"}
        BY DEF IInv, Types
    <2> QED BY <2>1, <2>2 DEF BytesWithinBudget, Lending, Fits, Lent, Total
<1> QED BY <1>1, <1>2, <1>3, PTL DEF Spec
===============================================================================
