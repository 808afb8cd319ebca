------------------------ MODULE GenerationContextProofs ------------------------
(* Proofs about GenerationContext, for any contexts, runs, slots and limits.

   IInv is the inductive invariant. Its parts are proved in this order:
     Borrowing   a registered borrower's lender is open (assertCanDispose,
                 registerBorrower);
     Lease       leases and chains match the runs accepted (acquireRun,
                 acquireChainedRun and their releases);
     Heads       a started body heads its Session's queue (Session.serialize);
     Bounds      no accepted run ends past the limits;
     TypeOK      which needs the others where a settlement computes a length.

   Turns, what the order of a Session's queue gives, is inductive on top of IInv:
     Once        the disposal of a context is queued once;
     Closing     only of a context whose disposal was accepted;
     Ahead       a run of its own kind stands before the disposal of its context;
     Held        the context of an unsettled run has not started its disposal, and
                 that of a batch's run has not even accepted it.
   CapturedLengthHolds is inductive on IInv as it stands, and Tiling, the tiling of
   a chain with the bound its next reservation relies on, on IInv and Turns.

   RingInv, what the rows of the slots hold, adds to these, in this order:
     Slack       what is uncommitted or reserved fits every ring together with the
                 window behind the logical length, and a run that reads the logical
                 length at its start finds nothing that awaits a commit;
     Coverage    the runs of a chain leave no column out before its end;
     Placing     each waits in one place of its queue, in the order of the columns;
     Rings       the rows: the window and what awaits a commit (Intact) unless a run
                 took its place, the window behind the end of such a run (Replaced),
                 and the columns of the runs that keep the window (Extended).       *)
EXTENDS GenerationContext, FoldFacts, SequenceTheorems

\* Borrowing never nests, and a borrower that still reads is registered with a
\* lender that is open.
Borrowing ==
    \A d \in Contexts : IsBorrowing(d) =>
        /\ lender[lender[d]] = NoContext
        /\ phase[d] # "absent" /\ phase[lender[d]] # "absent"
        /\ phase[d] \in {"open", "closing", "disposed"} =>
              d \in borrowers[lender[d]] /\ phase[lender[d]] = "open"

\* No step of a run changes the life of a context.
LEMMA RunsLeaveLives ==
    ASSUME NEW r \in Runs, Issue(r) \/ RunStep(r)
    PROVE  UNCHANGED <<phase, lender, borrowers>>
<1>1. ASSUME Issue(r) PROVE UNCHANGED <<phase, lender, borrowers>>
    BY <1>1 DEF Issue, IssuePlain, IssueChained, RefuseChained, Accept
<1>2. ASSUME RunStep(r) PROVE UNCHANGED <<phase, lender, borrowers>>
    BY <1>2 DEF RunStep, StartBody, WriteBody, DropBody, BreakBody, SettleRun, ReleaseRun
<1> QED BY <1>1, <1>2

\* Every step keeps the types of a context's life and the rules of borrowing.
LEMMA BorrowingStep ==
    ASSUME ContextTypes, Borrowing, [Next]_vars
    PROVE  ContextTypes' /\ Borrowing'
<1> USE ContextAssumption DEF ContextTypes, Borrowing, IsBorrowing, Phases
<1>1. ASSUME UNCHANGED <<phase, lender, borrowers>>
      PROVE  ContextTypes' /\ Borrowing'
    BY <1>1
<1>2. ASSUME NEW r \in Runs, Issue(r) \/ RunStep(r)
      PROVE  ContextTypes' /\ Borrowing'
    BY <1>1, <1>2, RunsLeaveLives
<1>3. ASSUME NEW c \in Contexts, NEW d \in Contexts, Borrow(c, d)
      PROVE  ContextTypes' /\ Borrowing'
    BY <1>3 DEF Borrow, Usable
<1>4. ASSUME NEW c \in Contexts, NEW d \in Contexts, Fork(c, d)
      PROVE  ContextTypes' /\ Borrowing'
    BY <1>4 DEF Fork
<1>5. ASSUME NEW d \in Contexts, RegisterBorrower(d)
      PROVE  ContextTypes' /\ Borrowing'
    BY <1>5 DEF RegisterBorrower, Usable
<1>6. ASSUME NEW d \in Contexts, AdoptFork(d)
      PROVE  ContextTypes' /\ Borrowing'
    BY <1>6 DEF AdoptFork
<1>7. ASSUME NEW c \in Contexts, Dispose(c)
      PROVE  ContextTypes' /\ Borrowing'
    BY <1>7 DEF Dispose
<1>8. ASSUME NEW c \in Contexts, StartDisposal(c)
      PROVE  ContextTypes' /\ Borrowing'
    BY <1>8 DEF StartDisposal
<1>9. ASSUME NEW c \in Contexts, FinishDisposal(c)
      PROVE  ContextTypes' /\ Borrowing'
    BY <1>9 DEF FinishDisposal, Dequeue
<1>10. ASSUME NEW c \in Contexts, NEW n \in Nat, Commit(c, n) \/ Rewind(c, n)
      PROVE  ContextTypes' /\ Borrowing'
    BY <1>1, <1>10 DEF Commit, Rewind
<1>11. CASE BeginBatch \/ FinishBatch \/ SettleBatch \/ DeviceLoss
    BY <1>1, <1>11 DEF BeginBatch, FinishBatch, SettleBatch, DeviceLoss, contextVars
<1>12. CASE UNCHANGED vars
    BY <1>1, <1>12 DEF vars
<1>13. ASSUME NEW c \in Contexts, ContextStep(c)
      PROVE  ContextTypes' /\ Borrowing'
    BY <1>3, <1>4, <1>5, <1>6, <1>7, <1>8, <1>9, <1>10, <1>13 DEF ContextStep
<1> QED BY <1>2, <1>11, <1>12, <1>13 DEF Next
------------------------------------------------------------------------------
(* Leases. *)

\* A run the program has accepted and not yet settled.
Unsettled(r) == runs[r].stage # "idle"

\* An accepted run belongs to a context that was opened.
RunsExist ==
    \A r \in Runs : Unsettled(r) => phase[runs[r].ctx] \notin {"absent", "allocating"}

\* Two runs share an owner of slots only as chained runs of one batch.
RunsExclude ==
    \A r, x \in Runs :
        /\ r # x /\ Unsettled(r) /\ Unsettled(x)
        /\ Owner(runs[r].ctx) = Owner(runs[x].ctx)
        => /\ runs[r].mode = "chained" /\ runs[x].mode = "chained"
           /\ runs[r].kind = "batch" /\ runs[x].kind = "batch"

\* A batch's runs settle with the batch; only a context that owns its slots chains
\* runs; a chain without runs is no chain, and its runs share its kind.
ChainsHold ==
    /\ \A r \in Runs : runs[r].stage = "settled" => runs[r].kind = "run"
    /\ \A r \in Runs : Unsettled(r) /\ runs[r].mode = "chained" => ~IsBorrowing(runs[r].ctx)
    /\ \A c \in Contexts :
          /\ chain[c].runs = {} => chain[c] = NoChain
          /\ \A r \in chain[c].runs : runs[r].kind = chain[c].scope

\* Run r keeps c from other runs: it is a run of c, or of a borrower of c's slots.
HoldsLease(r, c) == Unsettled(r) /\ (runs[r].ctx = c \/ Owner(runs[r].ctx) = c)

\* LeaseMatchesRuns, point by point.
LeasePoints ==
    /\ \A c \in Contexts :
          runKind[c] # "none" <=> \E r \in Runs : HoldsLease(r, c)
    /\ \A c \in Contexts, r \in Runs :
          r \in chain[c].runs <=>
              Unsettled(r) /\ runs[r].ctx = c /\ runs[r].mode = "chained"

\* What acquireRun, acquireChainedRun and their releases keep true together.
Lease == RunsExist /\ RunsExclude /\ ChainsHold /\ LeasePoints

\* The points give the sets of LeaseMatchesRuns.
LEMMA LeaseIsMatched ==
    ASSUME RunTypes, Lease
    PROVE  LeaseMatchesRuns
<1> SUFFICES ASSUME NEW c \in Contexts
             PROVE  /\ runKind[c] # "none" <=>
                        \E r \in Runs : runs[r].stage # "idle"
                                          /\ c \in {runs[r].ctx, Owner(runs[r].ctx)}
                    /\ chain[c].runs = {r \in RunsOf(c) : runs[r].mode = "chained"}
    BY DEF LeaseMatchesRuns
<1>1. chain[c].runs \subseteq Runs
    BY DEF RunTypes
<1> QED BY <1>1 DEF Lease, LeasePoints, HoldsLease, RunsOf, Unsettled

\* What a lease depends on does not change while its run is under way.
SameRun(r) ==
    /\ Unsettled(r)' <=> Unsettled(r)
    /\ runs'[r].ctx = runs[r].ctx /\ runs'[r].kind = runs[r].kind
    /\ runs'[r].mode = runs[r].mode
    /\ runs'[r].stage = "settled" => runs[r].stage = "settled" \/ runs[r].kind = "run"

\* A step that keeps every chain, every held lease and every accepted run keeps
\* the leases, whatever it does to the life of a context that has no run.
LEMMA LeaseUnchanged ==
    ASSUME ContextTypes, RunTypes, RunTypes', Lease, UNCHANGED chain,
           \A c \in Contexts : runKind'[c] # "none" <=> runKind[c] # "none",
           \A r \in Runs : SameRun(r),
           \A c \in Contexts : phase[c] \notin {"absent", "allocating"} =>
               phase'[c] \notin {"absent", "allocating"} /\ lender'[c] = lender[c]
    PROVE  Lease'
<1> USE DEF ContextTypes, RunTypes, Run, SameRun, Unsettled
<1>1. RunsExist'
    BY DEF Lease, RunsExist
<1>2. RunsExclude'
    BY DEF Lease, RunsExist, RunsExclude, Owner, IsBorrowing
<1>3. ChainsHold'
    BY DEF Lease, RunsExist, ChainsHold, LeasePoints, IsBorrowing, NoChain
<1>4. LeasePoints'
  <2>1. \A r \in Runs : Unsettled(r) => Owner(runs[r].ctx)' = Owner(runs[r].ctx)
      BY DEF Owner, IsBorrowing, Lease, RunsExist
  <2>2. \A r \in Runs, c \in Contexts : HoldsLease(r, c)' <=> HoldsLease(r, c)
      BY <2>1 DEF HoldsLease
  <2> QED BY <2>2 DEF Lease, LeasePoints
<1> QED BY <1>1, <1>2, <1>3, <1>4 DEF Lease

\* The steps of a run between its start and the return of its lease.
LEMMA BodyKeepsLease ==
    ASSUME ContextTypes, RunTypes, RunTypes', Lease, NEW r \in Runs,
           StartBody(r) \/ WriteBody(r) \/ DropBody(r) \/ BreakBody(r) \/ SettleRun(r)
    PROVE  Lease'
<1> USE DEF ContextTypes, RunTypes, Run, SameRun, Unsettled
<1>2. \A x \in Runs : SameRun(x)
  <2>1. CASE StartBody(r)
    <3>1. runs[r].stage = "queued"
        BY <2>1 DEF StartBody
    <3>2. CASE EndBody(r, FALSE, FALSE)
        BY <3>1, <3>2 DEF EndBody
    <3>3. ASSUME NEW start, runs' = [runs EXCEPT ![r] =
                                [@ EXCEPT !.stage = "started", !.start = start]]
          PROVE  \A x \in Runs : SameRun(x)
        BY <3>1, <3>3
    <3>4. \/ EndBody(r, FALSE, FALSE)
          \/ \E start : runs' = [runs EXCEPT ![r] =
                                  [@ EXCEPT !.stage = "started", !.start = start]]
        BY <2>1 DEF StartBody
    <3> QED BY <3>2, <3>3, <3>4
  <2>2. CASE WriteBody(r)
      BY <2>2 DEF WriteBody, EndBody
  <2>3. CASE DropBody(r)
      BY <2>3 DEF DropBody, EndBody
  <2>4. CASE BreakBody(r)
      BY <2>4 DEF BreakBody, EndBody
  <2>5. CASE SettleRun(r)
      BY <2>5 DEF SettleRun
  <2> QED BY <2>1, <2>2, <2>3, <2>4, <2>5
<1>3. UNCHANGED <<chain, runKind, lender, phase>>
    BY DEF StartBody, WriteBody, DropBody, BreakBody, SettleRun
<1> QED BY <1>2, <1>3, LeaseUnchanged

\* Committing, rewinding, borrowing, forking and disposing hand out no lease.
LEMMA LifeKeepsLease ==
    ASSUME ContextTypes, RunTypes, RunTypes', Lease, NEW c \in Contexts,
           \/ \E n \in Nat : Commit(c, n) \/ Rewind(c, n)
           \/ \E d \in Contexts : Borrow(c, d) \/ Fork(c, d)
           \/ RegisterBorrower(c) \/ AdoptFork(c)
           \/ Dispose(c) \/ StartDisposal(c) \/ FinishDisposal(c)
    PROVE  Lease'
<1> USE DEF ContextTypes
<1>1. UNCHANGED <<runs, chain, runKind>>
    BY DEF Commit, Rewind, Borrow, Fork, RegisterBorrower, AdoptFork, Dispose,
           StartDisposal, FinishDisposal
<1>2. \A x \in Runs : SameRun(x)
    BY <1>1 DEF SameRun, Unsettled
<1>3. \A x \in Contexts : phase[x] \notin {"absent", "allocating"} =>
          phase'[x] \notin {"absent", "allocating"} /\ lender'[x] = lender[x]
    BY DEF Commit, Rewind, Borrow, Fork, RegisterBorrower, AdoptFork, Dispose,
           StartDisposal, FinishDisposal
<1> QED BY <1>1, <1>2, <1>3, LeaseUnchanged

\* An accepted run is alone with its owner, or joins a chain of a batch.
LEMMA IssueKeepsLease ==
    ASSUME ContextTypes, Borrowing, RunTypes, RunTypes', Lease, NEW r \in Runs, Issue(r)
    PROVE  Lease'
<1> USE ContextAssumption DEF ContextTypes, RunTypes, Unsettled
<1>1. PICK c \in Contexts, query \in QueryLengths, scope \in Scopes, tag \in Tags \cup {NoTag} :
          \/ \E mode \in {"immediate", "deferred"} : IssuePlain(r, c, query, mode, scope, tag)
          \/ IssueChained(r, c, query, scope, tag)
          \/ RefuseChained(r, c, query)
    BY DEF Issue
<1>2. UNCHANGED <<phase, lender>>
    BY <1>1 DEF IssuePlain, IssueChained, RefuseChained, Accept
<1>3. ASSUME NEW mode \in {"immediate", "deferred"}, IssuePlain(r, c, query, mode, scope, tag)
      PROVE  Lease'
  <2>1. /\ runs[r].stage = "idle" /\ phase[c] = "open"
        /\ runKind[c] = "none" /\ runKind[Owner(c)] = "none"
      BY <1>3 DEF IssuePlain, Quiescent, Usable, Owner
  <2>2. /\ runs'[r].ctx = c /\ runs'[r].stage = "queued" /\ runs'[r].kind = scope
        /\ runs'[r].mode = mode
        /\ \A x \in Runs \ {r} : runs'[x] = runs[x]
        /\ chain' = chain
        /\ runKind' = [x \in Contexts |-> IF x \in {c, Owner(c)} THEN scope ELSE runKind[x]]
      BY <1>3 DEF IssuePlain, Accept
  <2>3. \A x \in Runs : Unsettled(x) => Owner(runs[x].ctx) # Owner(c)
    <3>1. Owner(c) \in Contexts
        BY DEF Owner, IsBorrowing
    <3> QED BY <2>1, <3>1 DEF Lease, LeasePoints, HoldsLease
  <2>4. \A x \in Runs \ {r} : Unsettled(x)' <=> Unsettled(x)
      BY <2>2
  <2>5. RunsExist'
      BY <1>2, <2>1, <2>2 DEF Lease, RunsExist
  <2>6. RunsExclude'
      BY <1>2, <2>2, <2>3, <2>4 DEF Lease, RunsExclude, Owner, IsBorrowing
  <2>7. ChainsHold'
    <3>1. \A d \in Contexts : r \notin chain[d].runs
        BY <2>1 DEF Lease, LeasePoints
    <3>2. \A d \in Contexts : \A x \in chain'[d].runs : runs'[x].kind = chain'[d].scope
        BY <2>2, <3>1 DEF Lease, ChainsHold
    <3>3. \A x \in Runs : runs'[x].stage = "settled" => runs'[x].kind = "run"
        BY <2>2 DEF Lease, ChainsHold
    <3>4. \A x \in Runs : Unsettled(x)' /\ runs'[x].mode = "chained" => ~IsBorrowing(runs[x].ctx)'
        BY <1>2, <2>2, <2>4 DEF Lease, ChainsHold, IsBorrowing
    <3> QED BY <2>2, <3>2, <3>3, <3>4 DEF Lease, ChainsHold, NoChain
  <2>8. LeasePoints'
    <3>1. \A d \in Contexts, x \in Runs :
             x \in chain'[d].runs <=>
               Unsettled(x)' /\ runs'[x].ctx = d /\ runs'[x].mode = "chained"
        BY <2>1, <2>2, <2>4 DEF Lease, LeasePoints
    <3>2. \A d \in Contexts :
             /\ HoldsLease(r, d)' <=> d \in {c, Owner(c)}
             /\ ~HoldsLease(r, d)
             /\ \A x \in Runs \ {r} : HoldsLease(x, d)' <=> HoldsLease(x, d)
        BY <1>2, <2>1, <2>2, <2>4 DEF HoldsLease, Owner, IsBorrowing
    <3>3. \A d \in Contexts : runKind'[d] # "none" <=> d \in {c, Owner(c)} \/ runKind[d] # "none"
        BY <2>2
    <3>4. \A d \in Contexts : runKind'[d] # "none" <=> \E x \in Runs : HoldsLease(x, d)'
        BY <3>2, <3>3 DEF Lease, LeasePoints
    <3> QED BY <3>1, <3>4 DEF LeasePoints
  <2> QED BY <2>5, <2>6, <2>7, <2>8 DEF Lease
<1>4. ASSUME IssueChained(r, c, query, scope, tag)
      PROVE  Lease'
  <2>1. /\ runs[r].stage = "idle" /\ phase[c] = "open" /\ lender[c] = NoContext
        /\ \/ runKind[c] = "none"
           \/ chain[c] # NoChain /\ scope = "batch" /\ chain[c].scope = "batch"
      BY <1>4 DEF IssueChained, CanReserve, Usable, IsBorrowing
  <2>2. /\ runs'[r].ctx = c /\ runs'[r].stage = "queued" /\ runs'[r].kind = scope
        /\ runs'[r].mode = "chained"
        /\ \A x \in Runs \ {r} : runs'[x] = runs[x]
        /\ chain'[c].scope = scope /\ chain'[c].runs = chain[c].runs \cup {r}
        /\ \A x \in Contexts \ {c} : chain'[x] = chain[x]
        /\ runKind' = [runKind EXCEPT ![c] = scope]
      BY <1>4 DEF IssueChained, Accept, Reserve
  <2>3. \A x \in Runs \ {r} : Unsettled(x)' <=> Unsettled(x)
      BY <2>2
  <2>4. \A x \in Runs : Unsettled(x) /\ Owner(runs[x].ctx) = c =>
            /\ scope = "batch" /\ runs[x].mode = "chained" /\ runs[x].kind = "batch"
            /\ x \in chain[c].runs
    <3>1. CASE runKind[c] = "none"
        BY <3>1 DEF Lease, LeasePoints, HoldsLease
    <3>2. CASE chain[c] # NoChain /\ scope = "batch" /\ chain[c].scope = "batch"
      <4>1. PICK y \in chain[c].runs : TRUE
          BY <3>2 DEF Lease, ChainsHold
      <4>2. /\ y \in Runs /\ Unsettled(y) /\ runs[y].ctx = c /\ Owner(runs[y].ctx) = c
            /\ runs[y].kind = "batch" /\ runs[y].mode = "chained"
          BY <2>1, <3>2, <4>1 DEF Lease, LeasePoints, ChainsHold, Owner, IsBorrowing
      <4>3. \A x \in Runs : Unsettled(x) /\ Owner(runs[x].ctx) = c =>
                runs[x].mode = "chained" /\ runs[x].kind = "batch"
          BY <4>2 DEF Lease, RunsExclude
      <4>4. \A x \in Runs : Unsettled(x) /\ Owner(runs[x].ctx) = c => runs[x].ctx = c
          BY <4>3 DEF Lease, ChainsHold, Owner
      <4> QED BY <3>2, <4>3, <4>4 DEF Lease, LeasePoints
    <3> QED BY <2>1, <3>1, <3>2
  <2>5. Owner(c) = c
      BY <2>1 DEF Owner, IsBorrowing
  <2>6. RunsExist'
    <3>1. phase'[c] \notin {"absent", "allocating"}
        BY <1>2, <2>1
    <3> QED BY <1>2, <2>2, <3>1 DEF Lease, RunsExist, Unsettled
  <2>7. RunsExclude'
      BY <1>2, <2>2, <2>3, <2>4, <2>5 DEF Lease, RunsExclude, Owner, IsBorrowing
  <2>8. ChainsHold'
    <3>1. \A x \in chain[c].runs : runs[x].kind = scope /\ x # r
      <4> SUFFICES ASSUME NEW x \in chain[c].runs PROVE runs[x].kind = scope /\ x # r
          OBVIOUS
      <4>1. x \in Runs /\ Unsettled(x) /\ runs[x].ctx = c
          BY DEF Lease, LeasePoints
      <4>2. Owner(runs[x].ctx) = c
          BY <2>5, <4>1
      <4> QED BY <2>1, <2>4, <4>1, <4>2
    <3>2. \A x \in Runs \ {r} : \A d \in Contexts : x \in chain[d].runs => runs'[x].kind = chain[d].scope
      BY <2>2 DEF Lease, ChainsHold
    <3>3. \A d \in Contexts \ {c} : r \notin chain[d].runs
      BY <2>1 DEF Lease, LeasePoints
    <3>4. \A d \in Contexts : \A x \in chain'[d].runs : runs'[x].kind = chain'[d].scope
      BY <2>2, <3>1, <3>2, <3>3
    <3>5. \A x \in Runs : runs'[x].stage = "settled" => runs'[x].kind = "run"
        BY <2>2 DEF Lease, ChainsHold
    <3>6. \A x \in Runs : Unsettled(x)' /\ runs'[x].mode = "chained" => ~IsBorrowing(runs[x].ctx)'
        BY <1>2, <2>1, <2>2, <2>3 DEF Lease, ChainsHold, IsBorrowing
    <3>7. \A d \in Contexts : chain'[d].runs = {} => chain'[d] = NoChain
      <4>1. chain'[c].runs # {}
          BY <2>2
      <4>2. \A d \in Contexts \ {c} : chain[d].runs = {} => chain[d] = NoChain
          BY DEF Lease, ChainsHold
      <4> QED BY ONLY <2>2, <4>1, <4>2
    <3> QED BY <3>4, <3>5, <3>6, <3>7 DEF ChainsHold
  <2>9. LeasePoints'
    <3>1. \A d \in Contexts, x \in Runs :
             x \in chain'[d].runs <=>
               Unsettled(x)' /\ runs'[x].ctx = d /\ runs'[x].mode = "chained"
      <4>1. \A d \in Contexts, x \in Runs :
               x \in chain[d].runs <=>
                 Unsettled(x) /\ runs[x].ctx = d /\ runs[x].mode = "chained"
          BY DEF Lease, LeasePoints
      <4>2. ~Unsettled(r) /\ Unsettled(r)'
          BY <2>1, <2>2
      <4> QED BY ONLY <2>2, <2>3, <4>1, <4>2
    <3>2. \A d \in Contexts :
             /\ HoldsLease(r, d)' <=> d = c
             /\ ~HoldsLease(r, d)
             /\ \A x \in Runs \ {r} : HoldsLease(x, d)' <=> HoldsLease(x, d)
        BY <1>2, <2>1, <2>2, <2>3, <2>5 DEF HoldsLease, Owner, IsBorrowing
    <3>3. \A d \in Contexts : runKind'[d] # "none" <=> d = c \/ runKind[d] # "none"
        BY <2>2
    <3>4. \A d \in Contexts : runKind'[d] # "none" <=> \E x \in Runs : HoldsLease(x, d)'
        BY <3>2, <3>3 DEF Lease, LeasePoints
    <3> QED BY <3>1, <3>4 DEF LeasePoints
  <2> QED BY <2>6, <2>7, <2>8, <2>9 DEF Lease
<1>5. ASSUME RefuseChained(r, c, query)
      PROVE  Lease'
  <2>1. UNCHANGED <<chain, runs>> /\ (runKind'[c] # "none" <=> runKind[c] # "none")
        /\ \A d \in Contexts \ {c} : runKind'[d] = runKind[d]
    <3> DEFINE start == ChainStart(c)
               reserved == Reserve(chain[c], r, start, query, "batch")
               after == Return(reserved, r, start, query)
    <3>1. /\ chain' = [chain EXCEPT ![c] = after]
          /\ runKind' = [runKind EXCEPT ![c] = IF after = NoChain THEN "none" ELSE "batch"]
          /\ UNCHANGED runs /\ runs[r].stage = "idle"
          /\ \/ runKind[c] = "none"
             \/ chain[c] # NoChain /\ chain[c].scope = "batch"
        BY <1>5 DEF RefuseChained, CanReserve
    <3>2. r \notin chain[c].runs
        BY <3>1 DEF Lease, LeasePoints, HoldsLease
    <3>3. CASE chain[c] = NoChain
      <4>1. after = NoChain
          BY <3>3 DEF NoChain, Reserve, Return
      <4> QED BY <3>1, <3>3, <4>1
    <3>4. CASE chain[c] # NoChain
      <4>1. chain[c].runs # {} /\ (chain[c].runs \cup {r}) \ {r} = chain[c].runs
          BY <3>2, <3>4 DEF Lease, ChainsHold
      <4>2. after = [scope |-> "batch", runs |-> chain[c].runs, end |-> chain[c].end]
          BY <3>2, <3>4, <4>1 DEF Reserve, Return, ChainStart
      <4>3. runKind[c] # "none"
          BY <4>1 DEF Lease, LeasePoints, HoldsLease
      <4> QED BY <3>1, <3>4, <4>1, <4>2, <4>3
    <3> QED BY <3>3, <3>4
  <2>2. \A x \in Runs : SameRun(x)
      BY <2>1 DEF SameRun
  <2>3. \A d \in Contexts : runKind'[d] # "none" <=> runKind[d] # "none"
      BY <2>1
  <2> QED BY <1>2, <2>1, <2>2, <2>3, LeaseUnchanged
<1> QED BY <1>1, <1>3, <1>4, <1>5

\* The end of an unbatched run returns exactly the lease it took: its own link of
\* the chain, or the whole context with the lender of its slots.
LEMMA ReleaseKeepsLease ==
    ASSUME ContextTypes, Borrowing, RunTypes, RunTypes', Lease, NEW r \in Runs, ReleaseRun(r)
    PROVE  Lease'
<1> USE ContextAssumption DEF ContextTypes, RunTypes, Unsettled
<1> DEFINE c == runs[r].ctx
           o == Owner(c)
<1>1. /\ runs[r].stage = "settled" /\ c \in Contexts /\ o \in Contexts
      /\ runs' = [runs EXCEPT ![r] = IdleRun] /\ UNCHANGED <<phase, lender>>
      /\ runs'[r].stage = "idle"
      /\ runKind' = [x \in Contexts |-> IF x \in {c, o} /\ chain'[c] = NoChain
                                         THEN "none" ELSE runKind[x]]
    BY DEF ReleaseRun, Run, Owner, IsBorrowing, IdleRun
<1>2. \A x \in Runs \ {r} : Unsettled(x) => Owner(runs[x].ctx) # o
    BY <1>1 DEF Lease, ChainsHold, RunsExclude
<1>3. \A d \in Contexts : Owner(d) \in Contexts /\ Owner(Owner(d)) = Owner(d)
    BY DEF Borrowing, Owner, IsBorrowing
<1>4. \A x \in chain[c].runs \cup chain[o].runs : x = r
  <2>1. \A d \in {c, o}, x \in Runs : x \in chain[d].runs => Unsettled(x) /\ runs[x].ctx = d
      BY <1>1 DEF Lease, LeasePoints
  <2>2. \A d \in {c, o} : Owner(d) = o
      BY <1>1, <1>3
  <2> QED BY <1>1, <1>2, <2>1, <2>2
<1>5. /\ chain'[c] = NoChain
      /\ \A d \in Contexts : chain'[d].runs = chain[d].runs \ {r}
      /\ \A d \in Contexts \ {c} : chain'[d] = chain[d]
  <2>1. \A d \in Contexts : r \in chain[d].runs <=> d = c /\ runs[r].mode = "chained"
      BY <1>1 DEF Lease, LeasePoints
  <2>2. CASE runs[r].mode = "chained"
    <3>1. chain[c].runs = {r}
        BY <1>1, <1>4, <2>1, <2>2
    <3>2. chain' = [chain EXCEPT ![c] = NoChain]
        BY <2>2, <3>1 DEF ReleaseRun, Return
    <3> QED BY <1>1, <2>1, <3>1, <3>2 DEF NoChain
  <2>3. CASE runs[r].mode # "chained"
    <3>1. chain' = chain
        BY <2>3 DEF ReleaseRun
    <3>2. chain[c].runs = {}
        BY <1>1, <1>4, <2>1, <2>3
    <3>3. chain[c] = NoChain
        BY <1>1, <3>2 DEF Lease, ChainsHold
    <3> QED BY <1>1, <2>1, <2>3, <3>1, <3>3
  <2> QED BY <2>2, <2>3
<1>6. \A x \in Runs \ {r} : runs'[x] = runs[x] /\ (Unsettled(x)' <=> Unsettled(x))
    BY <1>1
<1>7. RunsExist'
    BY <1>1, <1>6 DEF Lease, RunsExist
<1>8. RunsExclude'
    BY <1>1, <1>6 DEF Lease, RunsExclude, Owner, IsBorrowing
<1>9. ChainsHold'
  <2>1. \A d \in Contexts : chain'[d].runs = {} => chain'[d] = NoChain
      BY <1>5 DEF Lease, ChainsHold
  <2>2. \A d \in Contexts : \A x \in chain'[d].runs : runs'[x].kind = chain'[d].scope
      BY <1>5, <1>6 DEF Lease, ChainsHold, NoChain
  <2>3. \A x \in Runs : runs'[x].stage = "settled" => runs'[x].kind = "run"
      BY <1>1, <1>6 DEF Lease, ChainsHold
  <2>4. \A x \in Runs : Unsettled(x)' /\ runs'[x].mode = "chained" => ~IsBorrowing(runs[x].ctx)'
      BY <1>1, <1>6 DEF Lease, ChainsHold, IsBorrowing
  <2> QED BY <2>1, <2>2, <2>3, <2>4 DEF ChainsHold
<1>10. LeasePoints'
  <2>1. \A d \in Contexts, x \in Runs :
           x \in chain'[d].runs <=>
             Unsettled(x)' /\ runs'[x].ctx = d /\ runs'[x].mode = "chained"
      BY <1>1, <1>5, <1>6 DEF Lease, LeasePoints
  <2>2. \A d \in Contexts :
           /\ ~HoldsLease(r, d)'
           /\ \A x \in Runs \ {r} : HoldsLease(x, d)' <=> HoldsLease(x, d)
      BY <1>1, <1>6 DEF HoldsLease, Owner, IsBorrowing
  <2>3. \A d \in Contexts \ {c, o} : ~HoldsLease(r, d) /\ runKind'[d] = runKind[d]
      BY <1>1 DEF HoldsLease
  <2>4. \A d \in {c, o} : \A x \in Runs \ {r} : ~HoldsLease(x, d)
    <3>1. \A x \in Runs : runs[x].ctx \in Contexts
        BY DEF Run
    <3>2. \A d \in {c, o}, x \in Runs : HoldsLease(x, d) => Unsettled(x) /\ Owner(runs[x].ctx) = o
        BY <1>1, <1>3, <3>1 DEF HoldsLease
    <3> QED BY <1>2, <3>2
  <2>5. \A d \in {c, o} : runKind'[d] = "none"
      BY <1>1, <1>5
  <2>6. \A d \in Contexts : runKind'[d] # "none" <=> \E x \in Runs : HoldsLease(x, d)'
    <3>1. \A d \in {c, o} : ~ \E x \in Runs : HoldsLease(x, d)'
        BY <1>1, <2>2, <2>4
    <3>2. \A d \in Contexts \ {c, o}, x \in Runs : HoldsLease(x, d)' <=> HoldsLease(x, d)
        BY <2>2, <2>3
    <3> SUFFICES ASSUME NEW d \in Contexts
                 PROVE  runKind'[d] # "none" <=> \E x \in Runs : HoldsLease(x, d)'
        OBVIOUS
    <3>3. CASE d \in {c, o}
        BY <2>5, <3>1, <3>3
    <3>4. CASE d \notin {c, o}
      <4>1. runKind[d] # "none" <=> \E x \in Runs : HoldsLease(x, d)
          BY DEF Lease, LeasePoints
      <4>2. runKind'[d] = runKind[d] /\ \A x \in Runs : HoldsLease(x, d)' <=> HoldsLease(x, d)
          BY <2>3, <3>2, <3>4
      <4> QED BY <4>1, <4>2
    <3> QED BY <3>3, <3>4
  <2> QED BY <2>1, <2>6 DEF LeasePoints
<1> QED BY <1>7, <1>8, <1>9, <1>10 DEF Lease

\* A batch returns the leases of all its runs, and no other.
LEMMA SettleBatchKeepsLease ==
    ASSUME ContextTypes, Borrowing, RunTypes, RunTypes', Lease, SettleBatch
    PROVE  Lease'
<1> USE ContextAssumption DEF ContextTypes, RunTypes, Unsettled
<1> DEFINE Held(c) == \E r \in BatchRuns : c \in {runs[r].ctx, Owner(runs[r].ctx)}
<1>1. /\ chain' = [c \in Contexts |-> IF Held(c) THEN NoChain ELSE chain[c]]
      /\ runKind' = [c \in Contexts |-> IF Held(c) THEN "none" ELSE runKind[c]]
      /\ runs' = [r \in Runs |-> IF r \in BatchRuns THEN IdleRun ELSE runs[r]]
      /\ UNCHANGED <<phase, lender>>
    BY DEF SettleBatch
<1>2. \A r \in BatchRuns : r \in Runs /\ Unsettled(r) /\ runs[r].kind = "batch" /\ ~Unsettled(r)'
    BY <1>1 DEF BatchRuns, IdleRun
<1>3. \A x \in Runs \ BatchRuns : runs'[x] = runs[x] /\ (Unsettled(x)' <=> Unsettled(x))
    BY <1>1
<1>4. \A x \in Runs \ BatchRuns : Unsettled(x) => runs[x].kind = "run"
    BY DEF BatchRuns, Run
<1>5. \A x \in Runs \ BatchRuns, d \in Contexts : Held(d) => ~HoldsLease(x, d)
  <2> SUFFICES ASSUME NEW x \in Runs \ BatchRuns, NEW d \in Contexts, Held(d), HoldsLease(x, d)
               PROVE  FALSE
      OBVIOUS
  <2>1. PICK r \in BatchRuns : d \in {runs[r].ctx, Owner(runs[r].ctx)}
      OBVIOUS
  <2>2. Owner(runs[r].ctx) = Owner(d) /\ Owner(runs[x].ctx) = Owner(d)
      BY <2>1, <1>2 DEF HoldsLease, Owner, IsBorrowing, Borrowing, Run
  <2>3. runs[x].kind = "run" /\ Unsettled(x) /\ r # x
      BY <1>4 DEF HoldsLease
  <2> QED BY <1>2, <2>2, <2>3 DEF Lease, RunsExclude
<1>6. \A d \in Contexts : chain'[d].runs = chain[d].runs \ BatchRuns
  <2> SUFFICES ASSUME NEW d \in Contexts PROVE chain'[d].runs = chain[d].runs \ BatchRuns
      OBVIOUS
  <2>1. \A x \in chain[d].runs : x \in Runs /\ Unsettled(x) /\ runs[x].ctx = d
      BY DEF Lease, LeasePoints
  <2>2. CASE Held(d)
      BY <1>1, <1>5, <2>1, <2>2 DEF HoldsLease, NoChain
  <2>3. CASE ~Held(d)
      BY <1>1, <2>1, <2>3
  <2> QED BY <2>2, <2>3
<1>7. RunsExist'
    BY <1>1, <1>2, <1>3 DEF Lease, RunsExist
<1>8. RunsExclude'
  <2>1. \A x \in Runs : Unsettled(x)' => x \in Runs \ BatchRuns /\ Unsettled(x) /\ runs'[x] = runs[x]
      BY <1>2, <1>3
  <2> QED BY <1>1, <2>1 DEF Lease, RunsExclude, Owner, IsBorrowing
<1>9. ChainsHold'
  <2>1. \A d \in Contexts : chain'[d].runs = {} => chain'[d] = NoChain
      BY <1>1 DEF Lease, ChainsHold
  <2>2. \A d \in Contexts : \A x \in chain'[d].runs : runs'[x].kind = chain'[d].scope
      BY <1>1, <1>3, <1>6 DEF Lease, ChainsHold, NoChain
  <2>3. \A x \in Runs : runs'[x].stage = "settled" => runs'[x].kind = "run"
      BY <1>2, <1>3 DEF Lease, ChainsHold
  <2>4. \A x \in Runs : Unsettled(x)' /\ runs'[x].mode = "chained" => ~IsBorrowing(runs[x].ctx)'
      BY <1>1, <1>2, <1>3 DEF Lease, ChainsHold, IsBorrowing
  <2> QED BY <2>1, <2>2, <2>3, <2>4 DEF ChainsHold
<1>10. LeasePoints'
  <2>1. \A d \in Contexts, x \in Runs :
           x \in chain'[d].runs <=>
             Unsettled(x)' /\ runs'[x].ctx = d /\ runs'[x].mode = "chained"
      BY <1>2, <1>3, <1>6 DEF Lease, LeasePoints
  <2>2. \A d \in Contexts :
           /\ \A x \in BatchRuns : ~HoldsLease(x, d)' /\ (HoldsLease(x, d) => Held(d))
           /\ \A x \in Runs \ BatchRuns : HoldsLease(x, d)' <=> HoldsLease(x, d)
      BY <1>1, <1>2, <1>3 DEF HoldsLease, Owner, IsBorrowing
  <2>3. \A d \in Contexts : runKind'[d] # "none" <=> \E x \in Runs : HoldsLease(x, d)'
      BY <1>1, <1>2, <1>5, <2>2 DEF Lease, LeasePoints
  <2> QED BY <2>1, <2>3 DEF LeasePoints
<1> QED BY <1>7, <1>8, <1>9, <1>10 DEF Lease
------------------------------------------------------------------------------
(* Types. *)

\* A bounded set of naturals has a greatest element.
LEMMA GreatestElement ==
    ASSUME NEW S \in SUBSET Nat, S # {}, NEW bound \in Nat, \A n \in S : n <= bound
    PROVE  \E e \in S : \A n \in S : n <= e
<1> DEFINE T == {bound - n : n \in S}
<1>0. \A n \in S : n \in Nat /\ bound - n \in Nat
    OBVIOUS
<1>1. T \subseteq Nat /\ T # {}
    BY <1>0
<1>2. PICK m \in T : \A k \in T : ~(<<k, m>> \in OpToRel(<, Nat))
    BY <1>1, NatLessThanWellFounded, WFMin
<1>3. \A k \in T : ~(k < m)
    BY <1>1, <1>2 DEF OpToRel
<1>4. PICK e \in S : m = bound - e
    OBVIOUS
<1>5. \A n \in S : ~(bound - n < bound - e)
    BY <1>3, <1>4
<1> HIDE DEF T
<1> QED BY <1>0, <1>5

\* What one append leaves behind has the shape of the rows it started from.
LEMMA AppendedType ==
    ASSUME NEW s \in Slots, NEW rows \in [Rows(s) -> Row], NEW past \in Nat,
           NEW query \in Nat, NEW tag \in Tags \cup {NoTag}
    PROVE  Appended(s, rows, past, query, tag) \in [Rows(s) -> Row]
<1> SUFFICES ASSUME NEW row \in Rows(s), AppendedColumns(s, past, query, row) # {}
             PROVE  <<CHOOSE col \in AppendedColumns(s, past, query, row) : TRUE, tag>> \in Row
    BY DEF Appended
<1>1. AppendedColumns(s, past, query, row) \subseteq Nat
    BY DEF AppendedColumns
<1> QED BY <1>1 DEF Row

\* Fresh storage holds rows of the right type.
LEMMA EmptySlotsType ==
    ASSUME NEW s \in Slots
    PROVE  EmptySlots[s] \in [Rows(s) -> Row]
BY DEF EmptySlots, Row
------------------------------------------------------------------------------
(* Whoever is at work on a Session's chain is its head. *)

\* The body of run r is under way, so r heads the queue of its Session.
OnTop(r) ==
    \/ runs[r].stage = "started"
    \/ runs[r].kind = "run" /\ runs[r].stage \in {"written", "failed", "settled"}

\* Every run between start and return, and every disposal past its start, heads the
\* queue of the Session it was appended to.
Heads ==
    /\ \A r \in Runs : OnTop(r) => AtHead(r, SessionOf(runs[r].ctx))
    /\ \A c \in Contexts : phase[c] = "disposed" => AtHead(c, SessionOf(c))

\* Joining a chain does not disturb its head.
LEMMA AppendKeepsHead ==
    ASSUME QueueTypes, NEW session \in Sessions, NEW job \in Runs \cup Contexts,
           queue' = [queue EXCEPT ![session] = Append(@, job)],
           NEW other \in Sessions, NEW x, AtHead(x, other)
    PROVE  AtHead(x, other)'
<1>1. CASE other # session
    BY <1>1 DEF AtHead, QueueTypes
<1>2. CASE other = session
  <2>1. queue[session] \in Seq(Runs \cup Contexts) /\ queue'[session] = Append(queue[session], job)
      BY DEF QueueTypes
  <2>2. Head(Append(queue[session], job)) = Head(queue[session])
      BY <1>2, <2>1, HeadTailAppend DEF AtHead
  <2>3. Append(queue[session], job) # <<>>
      BY <2>1, AppendProperties
  <2> QED BY <1>2, <2>1, <2>2, <2>3 DEF AtHead
<1> QED BY <1>1, <1>2

\* A head that leaves takes only its own place.
LEMMA DequeueKeepsOthers ==
    ASSUME QueueTypes, NEW session \in Sessions, NEW y, AtHead(y, session), Dequeue(session),
           NEW other \in Sessions, NEW x, x # y, AtHead(x, other)
    PROVE  AtHead(x, other)'
<1>1. other # session
    BY DEF AtHead
<1> QED BY <1>1 DEF AtHead, Dequeue, QueueTypes

\* What keeps a chain keeps its heads.
LEMMA HeadsUnchanged ==
    ASSUME ContextTypes, RunTypes, Lease, Heads, UNCHANGED queue,
           \A r \in Runs : runs'[r].ctx = runs[r].ctx \/ runs'[r].stage = "idle",
           \A r \in Runs : OnTop(r)' => OnTop(r) \/ (Unsettled(r) /\ AtHead(r, SessionOf(runs[r].ctx))),
           \A c \in Contexts : phase[c] # "absent" => lender'[c] = lender[c],
           \A c \in Contexts : phase'[c] = "disposed" => phase[c] = "disposed"
                                    \/ (phase[c] # "absent" /\ AtHead(c, SessionOf(c)))
    PROVE  Heads'
<1> USE DEF ContextTypes, RunTypes, Run, AtHead, SessionOf, IsBorrowing, Unsettled
<1>1. ASSUME NEW r \in Runs, OnTop(r)' PROVE AtHead(r, SessionOf(runs[r].ctx))'
  <2>1. Unsettled(r) /\ AtHead(r, SessionOf(runs[r].ctx))
      BY <1>1 DEF Heads, OnTop
  <2>2. runs'[r].ctx = runs[r].ctx
      BY <1>1 DEF OnTop
  <2>3. lender'[runs[r].ctx] = lender[runs[r].ctx]
      BY <2>1 DEF Lease, RunsExist
  <2> QED BY <2>1, <2>2, <2>3
<1>2. ASSUME NEW c \in Contexts, phase'[c] = "disposed" PROVE AtHead(c, SessionOf(c))'
  <2>1. phase[c] # "absent" /\ AtHead(c, SessionOf(c))
      BY <1>2 DEF Heads
  <2> QED BY <2>1
<1> QED BY <1>1, <1>2 DEF Heads

\* A body that ends leaves its queue, and no other run was started on it.
LEMMA EndBodyKeepsHeads ==
    ASSUME ContextTypes, RunTypes, QueueTypes, Lease, Heads, NEW r \in Runs,
           NEW ok \in BOOLEAN, NEW wrote \in BOOLEAN, EndBody(r, ok, wrote),
           runs[r].stage \in {"queued", "started"}, AtHead(r, SessionOf(runs[r].ctx)),
           UNCHANGED <<phase, lender>>
    PROVE  Heads'
<1> USE ContextAssumption DEF ContextTypes, RunTypes, Run
<1>1. /\ runs'[r].ctx = runs[r].ctx /\ runs'[r].kind = runs[r].kind
      /\ runs'[r].stage \in {"written", "failed"}
      /\ \A x \in Runs \ {r} : runs'[x] = runs[x]
    BY DEF EndBody
<1>2. CASE runs[r].kind = "run"
    BY <1>1, <1>2, HeadsUnchanged DEF EndBody, OnTop, Unsettled
<1>3. CASE runs[r].kind # "run"
  <2>1. Dequeue(SessionOf(runs[r].ctx)) /\ SessionOf(runs[r].ctx) \in Sessions
      BY <1>3 DEF EndBody, SessionOf, Sessions
  <2>2. ASSUME NEW x \in Runs, OnTop(x)' PROVE AtHead(x, SessionOf(runs[x].ctx))'
    <3>1. x # r /\ OnTop(x)
        BY <1>1, <1>3, <2>2 DEF OnTop
    <3>2. AtHead(x, SessionOf(runs[x].ctx)) /\ SessionOf(runs[x].ctx) \in Sessions
        BY <3>1 DEF Heads, SessionOf, Sessions
    <3> QED BY <2>1, <3>1, <3>2, DequeueKeepsOthers, <1>1 DEF SessionOf, IsBorrowing
  <2>3. ASSUME NEW c \in Contexts, phase'[c] = "disposed" PROVE AtHead(c, SessionOf(c))'
    <3>1. c # r /\ AtHead(c, SessionOf(c)) /\ SessionOf(c) \in Sessions
        BY <2>3 DEF Heads, SessionOf, Sessions
    <3>2. SessionOf(c)' = SessionOf(c)
        BY DEF SessionOf, IsBorrowing
    <3> QED BY <2>1, <3>1, <3>2, DequeueKeepsOthers DEF SessionOf, IsBorrowing
  <2> QED BY <2>2, <2>3 DEF Heads
<1> QED BY <1>2, <1>3

\* Each step of a run keeps the heads: only the head starts, and it leaves as it ends.
LEMMA RunsKeepHeads ==
    ASSUME ContextTypes, RunTypes, QueueTypes, Lease, Heads, NEW r \in Runs,
           Issue(r) \/ RunStep(r)
    PROVE  Heads'
<1> USE ContextAssumption DEF ContextTypes, RunTypes, Run
<1>1. UNCHANGED <<phase, lender>>
    BY RunsLeaveLives
<1>2. CASE Issue(r)
  <2>1. PICK c \in Contexts, query \in QueryLengths, scope \in Scopes, tag \in Tags \cup {NoTag} :
            \/ \E mode \in {"immediate", "deferred"} : IssuePlain(r, c, query, mode, scope, tag)
            \/ IssueChained(r, c, query, scope, tag)
            \/ RefuseChained(r, c, query)
      BY <1>2 DEF Issue
  <2>2. CASE RefuseChained(r, c, query)
      BY <1>1, <2>2, HeadsUnchanged DEF RefuseChained, OnTop
  <2>3. ASSUME NEW mode, NEW start, Accept(r, c, query, mode, scope, start, tag)
        PROVE  Heads'
    <3>1. /\ queue' = [queue EXCEPT ![SessionOf(c)] = Append(@, r)] /\ SessionOf(c) \in Sessions
          /\ runs'[r].stage = "queued" /\ \A x \in Runs \ {r} : runs'[x] = runs[x]
        BY <2>3 DEF Accept, SessionOf, Sessions
    <3>2. ASSUME NEW x \in Runs, OnTop(x)' PROVE AtHead(x, SessionOf(runs[x].ctx))'
      <4>1. x # r /\ OnTop(x)
          BY <3>1, <3>2 DEF OnTop
      <4>2. AtHead(x, SessionOf(runs[x].ctx)) /\ SessionOf(runs[x].ctx) \in Sessions
          BY <4>1 DEF Heads, SessionOf, Sessions
      <4> QED BY <1>1, <3>1, <4>1, <4>2, AppendKeepsHead DEF SessionOf, IsBorrowing
    <3>3. ASSUME NEW d \in Contexts, phase'[d] = "disposed" PROVE AtHead(d, SessionOf(d))'
      <4>1. AtHead(d, SessionOf(d)) /\ SessionOf(d) \in Sessions
          BY <1>1, <3>3 DEF Heads, SessionOf, Sessions
      <4> QED BY <1>1, <3>1, <4>1, AppendKeepsHead DEF SessionOf, IsBorrowing
    <3> QED BY <3>2, <3>3 DEF Heads
  <2> QED BY <2>1, <2>2, <2>3 DEF IssuePlain, IssueChained
<1>3. CASE StartBody(r)
  <2>1. runs[r].stage = "queued" /\ AtHead(r, SessionOf(runs[r].ctx))
      BY <1>3 DEF StartBody
  <2>2. CASE EndBody(r, FALSE, FALSE)
      BY <1>1, <2>1, <2>2, EndBodyKeepsHeads
  <2>3. ASSUME ~EndBody(r, FALSE, FALSE) PROVE Heads'
    <3>1. UNCHANGED queue
        BY <1>3, <2>3 DEF StartBody
    <3>2. /\ runs'[r].ctx = runs[r].ctx /\ \A x \in Runs \ {r} : runs'[x] = runs[x]
      <4>1. \E start : runs' = [runs EXCEPT ![r] =
                             [@ EXCEPT !.stage = "started", !.start = start]]
          BY <1>3, <2>3 DEF StartBody
      <4> QED BY <4>1
    <3> QED BY <1>1, <2>1, <3>1, <3>2, HeadsUnchanged DEF OnTop, Unsettled
  <2> QED BY <1>3, <2>2, <2>3 DEF StartBody
<1>4. CASE WriteBody(r) \/ DropBody(r) \/ BreakBody(r)
  <2>1. runs[r].stage = "started" /\ AtHead(r, SessionOf(runs[r].ctx))
      BY <1>4 DEF WriteBody, DropBody, BreakBody, Heads, OnTop
  <2>2. \E ok, wrote \in BOOLEAN : EndBody(r, ok, wrote)
      BY <1>4 DEF WriteBody, DropBody, BreakBody
  <2> QED BY <1>1, <2>1, <2>2, EndBodyKeepsHeads
<1>5. CASE SettleRun(r)
  <2>1. /\ runs' = [runs EXCEPT ![r].stage = "settled"] /\ UNCHANGED queue
        /\ runs[r].kind = "run" /\ runs[r].stage \in {"written", "failed"}
      BY <1>5 DEF SettleRun
  <2> QED BY <1>1, <2>1, HeadsUnchanged DEF OnTop, Unsettled
<1>6. CASE ReleaseRun(r)
  <2>1. /\ runs[r].stage = "settled" /\ runs' = [runs EXCEPT ![r] = IdleRun]
        /\ Dequeue(SessionOf(runs[r].ctx)) /\ SessionOf(runs[r].ctx) \in Sessions
      BY <1>6 DEF ReleaseRun, SessionOf, Sessions
  <2>2. AtHead(r, SessionOf(runs[r].ctx))
      BY <2>1 DEF Lease, ChainsHold, Heads, OnTop
  <2>3. ASSUME NEW x \in Runs, OnTop(x)' PROVE AtHead(x, SessionOf(runs[x].ctx))'
    <3>1. x # r /\ OnTop(x) /\ runs'[x] = runs[x]
        BY <2>1, <2>3 DEF OnTop, IdleRun
    <3>2. AtHead(x, SessionOf(runs[x].ctx)) /\ SessionOf(runs[x].ctx) \in Sessions
        BY <3>1 DEF Heads, SessionOf, Sessions
    <3> QED BY <1>1, <2>1, <2>2, <3>1, <3>2, DequeueKeepsOthers DEF SessionOf, IsBorrowing
  <2>4. ASSUME NEW d \in Contexts, phase'[d] = "disposed" PROVE AtHead(d, SessionOf(d))'
    <3>1. d # r /\ AtHead(d, SessionOf(d)) /\ SessionOf(d) \in Sessions
        BY <1>1, <2>4 DEF Heads, SessionOf, Sessions
    <3> QED BY <1>1, <2>1, <2>2, <3>1, DequeueKeepsOthers DEF SessionOf, IsBorrowing
  <2> QED BY <2>3, <2>4 DEF Heads
<1> QED BY <1>2, <1>3, <1>4, <1>5, <1>6 DEF RunStep

\* Disposals join and leave their Session's queue the way runs do.
LEMMA LivesKeepHeads ==
    ASSUME ContextTypes, RunTypes, QueueTypes, Lease, Heads, NEW c \in Contexts,
           \/ \E n \in Nat : Commit(c, n) \/ Rewind(c, n)
           \/ \E d \in Contexts : Borrow(c, d) \/ Fork(c, d)
           \/ RegisterBorrower(c) \/ AdoptFork(c)
           \/ Dispose(c) \/ StartDisposal(c) \/ FinishDisposal(c)
    PROVE  Heads'
<1> USE ContextAssumption DEF ContextTypes, RunTypes, Run
<1>1. CASE \/ \E n \in Nat : Commit(c, n) \/ Rewind(c, n)
           \/ \E d \in Contexts : Borrow(c, d) \/ Fork(c, d)
           \/ RegisterBorrower(c) \/ AdoptFork(c) \/ StartDisposal(c)
  <2>1. /\ UNCHANGED <<queue, runs>>
        /\ \A d \in Contexts : phase[d] # "absent" => lender'[d] = lender[d]
        /\ \A d \in Contexts : phase'[d] = "disposed" =>
              phase[d] = "disposed" \/ (phase[d] # "absent" /\ AtHead(d, SessionOf(d)))
      BY <1>1 DEF Commit, Rewind, Borrow, Fork, RegisterBorrower, AdoptFork, StartDisposal
  <2> QED BY <2>1, HeadsUnchanged DEF OnTop
<1>2. CASE Dispose(c)
  <2>1. /\ queue' = [queue EXCEPT ![SessionOf(c)] = Append(@, c)] /\ SessionOf(c) \in Sessions
        /\ UNCHANGED <<runs, lender>> /\ phase' = [phase EXCEPT ![c] = "closing"]
      BY <1>2 DEF Dispose, SessionOf, Sessions
  <2>2. ASSUME NEW x \in Runs, OnTop(x)' PROVE AtHead(x, SessionOf(runs[x].ctx))'
    <3>1. AtHead(x, SessionOf(runs[x].ctx)) /\ SessionOf(runs[x].ctx) \in Sessions
        BY <2>1, <2>2 DEF Heads, OnTop, SessionOf, Sessions
    <3> QED BY <2>1, <3>1, AppendKeepsHead DEF SessionOf, IsBorrowing
  <2>3. ASSUME NEW d \in Contexts, phase'[d] = "disposed" PROVE AtHead(d, SessionOf(d))'
    <3>1. AtHead(d, SessionOf(d)) /\ SessionOf(d) \in Sessions
        BY <2>1, <2>3 DEF Heads, SessionOf, Sessions
    <3> QED BY <2>1, <3>1, AppendKeepsHead DEF SessionOf, IsBorrowing
  <2> QED BY <2>2, <2>3 DEF Heads
<1>3. CASE FinishDisposal(c)
  <2>1. /\ phase[c] = "disposed" /\ phase' = [phase EXCEPT ![c] = "closed"]
        /\ Dequeue(SessionOf(c)) /\ SessionOf(c) \in Sessions /\ UNCHANGED <<runs, lender>>
      BY <1>3 DEF FinishDisposal, SessionOf, Sessions
  <2>2. AtHead(c, SessionOf(c))
      BY <2>1 DEF Heads
  <2>3. ASSUME NEW x \in Runs, OnTop(x)' PROVE AtHead(x, SessionOf(runs[x].ctx))'
    <3>1. AtHead(x, SessionOf(runs[x].ctx)) /\ SessionOf(runs[x].ctx) \in Sessions /\ x # c
        BY <2>1, <2>3 DEF Heads, OnTop, SessionOf, Sessions
    <3> QED BY <2>1, <2>2, <3>1, DequeueKeepsOthers DEF SessionOf, IsBorrowing
  <2>4. ASSUME NEW d \in Contexts, phase'[d] = "disposed" PROVE AtHead(d, SessionOf(d))'
    <3>1. d # c /\ AtHead(d, SessionOf(d)) /\ SessionOf(d) \in Sessions
        BY <2>1, <2>4 DEF Heads, SessionOf, Sessions
    <3> QED BY <2>1, <2>2, <3>1, DequeueKeepsOthers DEF SessionOf, IsBorrowing
  <2> QED BY <2>3, <2>4 DEF Heads
<1> QED BY <1>1, <1>2, <1>3

\* Settling a batch touches only runs whose bodies have already left the queue.
LEMMA SettleBatchKeepsHeads ==
    ASSUME ContextTypes, RunTypes, QueueTypes, Lease, Heads, SettleBatch
    PROVE  Heads'
<1>1. /\ runs' = [r \in Runs |-> IF r \in BatchRuns THEN IdleRun ELSE runs[r]]
      /\ UNCHANGED <<queue, phase, lender>>
    BY DEF SettleBatch
<1> QED BY <1>1, HeadsUnchanged DEF OnTop, IdleRun
------------------------------------------------------------------------------
(* Lengths. *)

\* No run reaches past the limit by more than one chunk.
MaxRunEnd == MaxLogicalLength + ChunkLength

\* What the ends of accepted runs never exceed.
Bounds ==
    /\ \A c \in Contexts : pastLength[c] <= MaxLogicalLength
    /\ \A r \in Runs : Unsettled(r) /\ (runs[r].mode = "chained" \/ runs[r].stage = "written")
                        => RunEnd(r) <= MaxRunEnd
    /\ \A r \in BatchRuns : batch.state # "none" /\ (runs[r].stage = "failed" => batch.failed)

\* The runs of one context that may conclude, do so within the types.
LEMMA ConclusionTypes ==
    ASSUME TypeOK, Lease, Bounds, NEW c \in Contexts, NEW R \in SUBSET RunsOf(c),
           \A r \in R : runs[r].stage = "written", CanConclude(c, R)
    PROVE  /\ NextPastLength(c, R) \in Nat /\ NextPastLength(c, R) <= MaxLogicalLength
           /\ NextPending(c, R) \in [pastLength : Nat, queryLength : Nat]
           /\ NextHistory(c, R) \in [Columns -> Tags \cup {NoTag}]
<1> USE ContextAssumption
<1>1. /\ pastLength[c] \in Nat /\ pastLength[c] <= MaxLogicalLength
      /\ pending[c] \in [pastLength : Nat, queryLength : Nat]
      /\ history[c] \in [Columns -> Tags \cup {NoTag}]
    BY DEF TypeOK, ContextTypes, LengthTypes, RunTypes, QueueTypes, BatchTypes, Bounds
<1>2. \A r \in R : /\ r \in Runs /\ Unsettled(r) /\ runs[r].ctx = c
                   /\ runs[r].start \in Nat /\ runs[r].query \in Nat
                   /\ runs[r].mode \in Modes /\ runs[r].tag \in Tags \cup {NoTag}
    BY DEF RunsOf, Unsettled, TypeOK, ContextTypes, LengthTypes, RunTypes, QueueTypes, BatchTypes, Run
<1>3. \A r \in R : RunEnd(r) \in Nat /\ RunEnd(r) <= MaxRunEnd
    BY <1>2 DEF Bounds, RunEnd
<1>4. UncommittedEnd(c) \in Nat
    BY <1>1 DEF UncommittedEnd
<1>5. NextPastLength(c, R) \in Nat /\ NextPastLength(c, R) <= MaxLogicalLength
  <2>1. CASE Advances(c, R)
    <3>1. PICK r \in R : runs[r].mode = "immediate"
        BY <2>1 DEF Advances
    <3>2. \A x \in R : x = r
        BY <1>2, <3>1 DEF Lease, RunsExclude
    <3>3. (CHOOSE x \in R : TRUE) = r
        BY <3>2
    <3>4. runs[r].start = pastLength[c] /\ RunEnd(r) <= MaxLogicalLength
        BY <2>1, <3>1 DEF CanConclude, Advances
    <3>5. NextPastLength(c, R) = pastLength[c] + runs[r].query
        BY <2>1, <3>3 DEF NextPastLength
    <3>6. pastLength[c] + runs[r].query <= MaxLogicalLength
        BY <3>4 DEF RunEnd
    <3> QED BY <1>1, <1>2, <3>5, <3>6
  <2>2. CASE ~Advances(c, R)
      BY <1>1, <2>2 DEF NextPastLength
  <2> QED BY <2>1, <2>2
<1>6. NextPending(c, R) \in [pastLength : Nat, queryLength : Nat]
  <2>1. CASE Defers(c, R)
    <3> DEFINE ends == {RunEnd(r) : r \in R}
               first == IF AwaitsCommit(c) THEN pending[c].pastLength ELSE pastLength[c]
               end == CHOOSE e \in ends : \A r \in R : RunEnd(r) <= e
    <3>1. ends \in SUBSET Nat /\ ends # {} /\ MaxRunEnd \in Nat /\ \A n \in ends : n <= MaxRunEnd
        BY <1>3, <2>1 DEF Defers, MaxRunEnd
    <3>2. \E e \in ends : \A n \in ends : n <= e
        BY <3>1, GreatestElement
    <3>3. end \in ends /\ \A r \in R : RunEnd(r) <= end
        BY <3>2
    <3>4. first \in Nat /\ end \in Nat
        BY <1>1, <3>1, <3>3
    <3>5. \E r \in R : first <= runs[r].start
      <4>1. PICK r \in R : runs[r].mode # "immediate"
          BY <2>1 DEF Defers
      <4>2. CASE runs[r].mode = "deferred"
          BY <1>1, <1>2, <2>1, <4>1, <4>2 DEF CanConclude, Defers
      <4>3. CASE runs[r].mode = "chained"
        <5>1. PICK x \in R : runs[x].start = UncommittedEnd(c)
            BY <2>1, <4>3 DEF CanConclude, Defers, ContinueRange
        <5> QED BY <1>1, <5>1 DEF UncommittedEnd
      <4> QED BY <1>2, <4>1, <4>2, <4>3 DEF Modes
    <3>6. end - first \in Nat
        BY <1>2, <3>3, <3>4, <3>5 DEF RunEnd
    <3>7. NextPending(c, R) = [pastLength |-> first, queryLength |-> end - first]
        BY <2>1 DEF NextPending, Joined
    <3> QED BY <3>4, <3>6, <3>7
  <2>2. CASE ~Defers(c, R)
      BY <1>1, <2>2 DEF NextPending
  <2> QED BY <2>1, <2>2
<1>7. NextHistory(c, R) \in [Columns -> Tags \cup {NoTag}]
    BY <1>1, <1>2 DEF NextHistory, Recorded
<1> QED BY <1>5, <1>6, <1>7

\* The completions of the runs R, all written, went through; unless they are all of
\* the batch, every context the batch wrote to is poisoned.
Completed(R) ==
    /\ \A r \in R : runs[r].stage = "written"
    /\ Completes(R)
    /\ pastLength' = [c \in Contexts |-> NextPastLength(c, R \cap RunsOf(c))]
    /\ pending' = [c \in Contexts |-> NextPending(c, R \cap RunsOf(c))]
    /\ history' = [c \in Contexts |-> NextHistory(c, R \cap RunsOf(c))]
    /\ \/ R = BatchRuns /\ UNCHANGED poisoned
       \/ poisoned' = [c \in Contexts |->
                          poisoned[c] \/ \E r \in BatchRuns \cap RunsOf(c) : runs[r].wrote]

\* A run completes only in a batch whose enqueues all succeeded.
LEMMA BatchCompletes ==
    ASSUME TypeOK, Bounds, SettleBatch
    PROVE  \E R \in SUBSET BatchRuns : Completed(R)
<1>1. PICK R \in SUBSET BatchRuns :
         /\ Completes(R)
         /\ pastLength' = [c \in Contexts |-> NextPastLength(c, R \cap RunsOf(c))]
         /\ pending' = [c \in Contexts |-> NextPending(c, R \cap RunsOf(c))]
         /\ history' = [c \in Contexts |-> NextHistory(c, R \cap RunsOf(c))]
         /\ \/ ~batch.failed /\ R = BatchRuns /\ UNCHANGED poisoned
            \/ /\ R = {} \/ ~batch.failed
               /\ poisoned' = [c \in Contexts |-> poisoned[c] \/
                     \E r \in BatchRuns \cap RunsOf(c) : runs[r].wrote]
    BY DEF SettleBatch
<1>2. \A r \in BatchRuns : runs[r].stage = "written" \/ batch.failed
    BY DEF SettleBatch, Bounds
<1> QED BY <1>1, <1>2 DEF Completed

\* A context none of whose runs completed is left as it is.
LEMMA BystandersStay ==
    ASSUME NEW c \in Contexts
    PROVE  /\ NextPastLength(c, {}) = pastLength[c] /\ NextPending(c, {}) = pending[c]
           /\ NextHistory(c, {}) = history[c]
BY DEF NextPastLength, NextPending, NextHistory, Advances, Defers

\* What the runs R complete is within the types.
LEMMA CompletionTypes ==
    ASSUME TypeOK, Lease, Bounds, NEW R \in SUBSET BatchRuns, Completed(R), NEW c \in Contexts
    PROVE  /\ NextPastLength(c, R \cap RunsOf(c)) \in Nat
           /\ NextPastLength(c, R \cap RunsOf(c)) <= MaxLogicalLength
           /\ NextPending(c, R \cap RunsOf(c)) \in [pastLength : Nat, queryLength : Nat]
           /\ NextHistory(c, R \cap RunsOf(c)) \in [Columns -> Tags \cup {NoTag}]
<1>1. CASE R \cap RunsOf(c) = {}
  <2>1. /\ pastLength[c] \in Nat /\ pastLength[c] <= MaxLogicalLength
        /\ pending[c] \in [pastLength : Nat, queryLength : Nat]
        /\ history[c] \in [Columns -> Tags \cup {NoTag}]
      BY DEF TypeOK, LengthTypes, Bounds
  <2>2. /\ NextPastLength(c, {}) = pastLength[c] /\ NextPending(c, {}) = pending[c]
        /\ NextHistory(c, {}) = history[c]
      BY BystandersStay
  <2> QED BY <1>1, <2>1, <2>2
<1>2. CASE R \cap RunsOf(c) # {}
  <2>1. CanConclude(c, R \cap RunsOf(c)) /\ \A r \in R \cap RunsOf(c) : runs[r].stage = "written"
      BY <1>2 DEF Completed, Completes
  <2> QED BY <2>1, ConclusionTypes
<1> QED BY <1>1, <1>2

\* A body that ends: what it needs to have written, and the batch hears of it.
LEMMA EndBodyKeepsBounds ==
    ASSUME TypeOK, Bounds, NEW r \in Runs, NEW ok \in BOOLEAN, NEW wrote \in BOOLEAN,
           EndBody(r, ok, wrote), Unsettled(r), ok => RunEnd(r) <= MaxRunEnd,
           UNCHANGED pastLength
    PROVE  Bounds'
<1>1. /\ runs'[r] = [runs[r] EXCEPT !.stage = IF ok THEN "written" ELSE "failed", !.wrote = wrote]
      /\ \A x \in Runs \ {r} : runs'[x] = runs[x]
    BY DEF EndBody, TypeOK, ContextTypes, LengthTypes, RunTypes, QueueTypes, BatchTypes
<1>2. /\ runs'[r].stage = IF ok THEN "written" ELSE "failed"
      /\ runs'[r].mode = runs[r].mode /\ runs'[r].kind = runs[r].kind
      /\ runs'[r].start = runs[r].start /\ runs'[r].query = runs[r].query
    BY <1>1 DEF TypeOK, ContextTypes, LengthTypes, RunTypes, QueueTypes, BatchTypes, Run
<1>3. \A x \in Runs : /\ RunEnd(x)' = RunEnd(x) /\ (Unsettled(x)' <=> Unsettled(x))
                      /\ (x \in BatchRuns' <=> x \in BatchRuns)
    BY <1>1, <1>2 DEF RunEnd, Unsettled, BatchRuns
<1>4. \A x \in Runs : Unsettled(x)' /\ (runs'[x].mode = "chained" \/ runs'[x].stage = "written")
                      => RunEnd(x)' <= MaxRunEnd
  <2> SUFFICES ASSUME NEW x \in Runs, Unsettled(x)',
                      runs'[x].mode = "chained" \/ runs'[x].stage = "written"
               PROVE  RunEnd(x) <= MaxRunEnd
      BY <1>3
  <2>1. CASE x = r /\ ok
      BY <2>1
  <2>2. CASE x # r \/ ~ok
    <3>1. runs[x].mode = "chained" \/ runs[x].stage = "written"
        BY <1>1, <1>2, <2>2
    <3> QED BY <1>3, <3>1 DEF Bounds
  <2> QED BY <2>1, <2>2
<1>5. \A x \in BatchRuns' : batch'.state # "none" /\ (runs'[x].stage = "failed" => batch'.failed)
  <2> SUFFICES ASSUME NEW x \in BatchRuns
               PROVE  batch'.state # "none" /\ (runs'[x].stage = "failed" => batch'.failed)
      BY <1>3 DEF BatchRuns
  <2>1. batch.state # "none" /\ (runs[x].stage = "failed" => batch.failed) /\ x \in Runs
      BY DEF Bounds, BatchRuns
  <2>2. batch'.state = batch.state /\ (batch.failed => batch'.failed)
      BY DEF EndBody, TypeOK, ContextTypes, LengthTypes, RunTypes, QueueTypes, BatchTypes
  <2>3. x = r => runs[r].kind = "batch"
      BY DEF BatchRuns
  <2>4. x = r /\ ~ok => batch'.failed
      BY <2>3 DEF EndBody, TypeOK, ContextTypes, LengthTypes, RunTypes, QueueTypes, BatchTypes
  <2> QED BY <1>1, <1>2, <2>1, <2>2, <2>4
<1> QED BY <1>4, <1>5 DEF Bounds, MaxRunEnd

\* Each step of a run keeps the bounds.
LEMMA RunsKeepBounds ==
    ASSUME TypeOK, Lease, Bounds, NEW r \in Runs, Issue(r) \/ RunStep(r)
    PROVE  Bounds'
<1> USE ContextAssumption
<1>1. CASE Issue(r)
  <2>1. PICK c \in Contexts, query \in QueryLengths, scope \in Scopes, tag \in Tags \cup {NoTag} :
            \/ \E mode \in {"immediate", "deferred"} : IssuePlain(r, c, query, mode, scope, tag)
            \/ IssueChained(r, c, query, scope, tag)
            \/ RefuseChained(r, c, query)
      BY <1>1 DEF Issue
  <2>2. CASE RefuseChained(r, c, query)
      BY <2>2 DEF RefuseChained, Bounds, RunEnd, BatchRuns, Unsettled
  <2>3. ASSUME NEW mode, NEW start, Accept(r, c, query, mode, scope, start, tag),
               mode = "chained" => start + query <= MaxRunEnd,
               scope = "batch" => batch.state = "open"
        PROVE  Bounds'
    <3>1. /\ runs'[r] = [stage |-> "queued", ctx |-> c, kind |-> scope, mode |-> mode,
                         query |-> query, start |-> start, tag |-> tag, wrote |-> FALSE]
          /\ \A x \in Runs \ {r} : runs'[x] = runs[x]
          /\ UNCHANGED <<pastLength, batch>>
        BY <2>3 DEF Accept, TypeOK, ContextTypes, LengthTypes, RunTypes, QueueTypes, BatchTypes
    <3>2. RunEnd(r)' = start + query /\ runs'[r].stage = "queued" /\ runs'[r].mode = mode
          /\ runs'[r].kind = scope
        BY <3>1 DEF RunEnd
    <3>3. \A x \in Runs \ {r} : /\ RunEnd(x)' = RunEnd(x) /\ (Unsettled(x)' <=> Unsettled(x))
                                /\ (x \in BatchRuns' <=> x \in BatchRuns)
        BY <3>1 DEF RunEnd, Unsettled, BatchRuns
    <3>4. \A x \in Runs : Unsettled(x)' /\ (runs'[x].mode = "chained" \/ runs'[x].stage = "written")
                          => RunEnd(x)' <= MaxRunEnd
        BY <2>3, <3>1, <3>2, <3>3 DEF Bounds
    <3>5. \A x \in BatchRuns' : x \in Runs /\ (x = r => scope = "batch")
        BY <3>2 DEF BatchRuns
    <3>6. \A x \in BatchRuns' : batch'.state # "none" /\ (runs'[x].stage = "failed" => batch'.failed)
        BY <2>3, <3>1, <3>2, <3>3, <3>5 DEF Bounds
    <3> QED BY <3>1, <3>4, <3>6 DEF Bounds, MaxRunEnd
  <2>4. ASSUME NEW mode \in {"immediate", "deferred"}, IssuePlain(r, c, query, mode, scope, tag)
        PROVE  Bounds'
      BY <2>3, <2>4 DEF IssuePlain, Admissible, EnqueueAdmissible
  <2>5. CASE IssueChained(r, c, query, scope, tag)
    <3>1. ChainStart(c) + query <= MaxLogicalLength
        BY <2>5 DEF IssueChained, CanReserve
    <3>2. ChainStart(c) \in Nat /\ query \in Nat
        BY DEF ChainStart, UncommittedEnd, TypeOK, ContextTypes, LengthTypes, RunTypes, QueueTypes, BatchTypes
    <3>3. ChainStart(c) + query <= MaxRunEnd
        BY <3>1, <3>2 DEF MaxRunEnd
    <3> QED BY <2>3, <2>5, <3>3 DEF IssueChained, Admissible, EnqueueAdmissible
  <2> QED BY <2>1, <2>2, <2>4, <2>5
<1>2. CASE StartBody(r)
  <2>1. Unsettled(r) /\ runs[r].stage = "queued"
      BY <1>2 DEF StartBody, Unsettled
  <2>2. CASE EndBody(r, FALSE, FALSE) /\ UNCHANGED pastLength
      BY <2>1, <2>2, EndBodyKeepsBounds
  <2>3. ASSUME NEW start,
               /\ runs' = [runs EXCEPT ![r] =
                        [@ EXCEPT !.stage = "started", !.start = start]]
               /\ runs[r].mode = "chained" => start = runs[r].start
               /\ \A d \in Contexts : pastLength'[d] <= MaxLogicalLength
               /\ UNCHANGED batch
        PROVE  Bounds'
    <3>1. /\ runs'[r].stage = "started" /\ runs'[r].mode = runs[r].mode
          /\ runs'[r].kind = runs[r].kind /\ runs'[r].query = runs[r].query
          /\ runs[r].mode = "chained" => runs'[r].start = runs[r].start
          /\ \A x \in Runs \ {r} : runs'[x] = runs[x]
        BY <2>3 DEF TypeOK, ContextTypes, LengthTypes, RunTypes, QueueTypes, BatchTypes, Run
    <3>2. \A x \in Runs : /\ Unsettled(x)' <=> Unsettled(x)
                          /\ x \in BatchRuns' <=> x \in BatchRuns
                          /\ x # r \/ runs[x].mode = "chained" => RunEnd(x)' = RunEnd(x)
        BY <2>1, <3>1 DEF BatchRuns, Unsettled, RunEnd
    <3>3. \A x \in Runs : Unsettled(x)' /\ (runs'[x].mode = "chained" \/ runs'[x].stage = "written")
                          => RunEnd(x)' <= MaxRunEnd
        BY <3>1, <3>2 DEF Bounds
    <3>4. \A x \in BatchRuns' : x \in Runs
        BY DEF BatchRuns
    <3>5. \A x \in BatchRuns' : batch'.state # "none" /\ (runs'[x].stage = "failed" => batch'.failed)
      <4> SUFFICES ASSUME NEW x \in BatchRuns'
                   PROVE  batch'.state # "none" /\ (runs'[x].stage = "failed" => batch'.failed)
          OBVIOUS
      <4>1. x \in BatchRuns
          BY <3>2, <3>4
      <4>2. batch.state # "none" /\ (runs[x].stage = "failed" => batch.failed)
          BY <4>1 DEF Bounds
      <4> QED BY <2>3, <3>1, <3>4, <4>2
    <3> QED BY <2>3, <3>3, <3>5 DEF Bounds, MaxRunEnd
  <2>4. CASE InternalUsable(runs[r].ctx) /\ InternalUsable(Owner(runs[r].ctx))
    <3> DEFINE start == IF runs[r].mode = "chained" THEN runs[r].start
                        ELSE pastLength[Owner(runs[r].ctx)]
    <3>1. /\ runs' = [runs EXCEPT ![r] =
                   [@ EXCEPT !.stage = "started", !.start = start]]
          /\ pastLength' = [pastLength EXCEPT ![runs[r].ctx] = pastLength[Owner(runs[r].ctx)]]
          /\ UNCHANGED batch
        BY <1>2, <2>4 DEF StartBody
    <3>2. Owner(runs[r].ctx) \in Contexts
        BY DEF TypeOK, ContextTypes, LengthTypes, RunTypes, QueueTypes, BatchTypes, Run, Owner, IsBorrowing
    <3>3. \A d \in Contexts : pastLength'[d] <= MaxLogicalLength
        BY <3>1, <3>2 DEF Bounds, TypeOK, ContextTypes, LengthTypes, RunTypes, QueueTypes, BatchTypes
    <3> HIDE DEF start
    <3>4. runs[r].mode = "chained" => start = runs[r].start
        BY DEF start
    <3> QED BY <2>3, <3>1, <3>3, <3>4
  <2> QED BY <1>2, <2>2, <2>4 DEF StartBody
<1>3. CASE WriteBody(r)
  <2>1. runs[r].stage = "started" /\ PassesLimits(r) /\ UNCHANGED pastLength
      BY <1>3 DEF WriteBody
  <2>2. RunEnd(r) <= MaxRunEnd
    <3>1. CASE runs[r].mode = "chained"
        BY <2>1, <3>1 DEF Bounds, Unsettled
    <3>2. CASE runs[r].mode # "chained"
      <4>1. /\ runs[r].start = pastLength[runs[r].ctx] /\ runs[r].query <= ChunkLength
            /\ runs[r].query \in Nat /\ runs[r].ctx \in Contexts /\ pastLength[runs[r].ctx] \in Nat
          BY <2>1, <3>2 DEF PassesLimits, ChunkRows, TypeOK, ContextTypes, LengthTypes, RunTypes, QueueTypes, BatchTypes, Run
      <4> QED BY <4>1 DEF Bounds, RunEnd, MaxRunEnd
    <3> QED BY <3>1, <3>2
  <2>3. \E wrote \in BOOLEAN : EndBody(r, TRUE, wrote)
      BY <1>3 DEF WriteBody
  <2> QED BY <2>1, <2>2, <2>3, EndBodyKeepsBounds DEF Unsettled
<1>4. CASE DropBody(r) \/ BreakBody(r)
  <2>1. runs[r].stage = "started" /\ UNCHANGED pastLength /\ \E wrote \in BOOLEAN : EndBody(r, FALSE, wrote)
      BY <1>4 DEF DropBody, BreakBody
  <2> QED BY <2>1, EndBodyKeepsBounds DEF Unsettled
<1>5. CASE SettleRun(r)
  <2>1. \A d \in Contexts : pastLength'[d] <= MaxLogicalLength
    <3>1. CASE UNCHANGED pastLength
        BY <3>1 DEF Bounds
    <3>2. CASE /\ runs[r].stage = "written" /\ CanConclude(runs[r].ctx, {r})
               /\ pastLength' = [pastLength EXCEPT ![runs[r].ctx] = NextPastLength(runs[r].ctx, {r})]
      <4>1. {r} \in SUBSET RunsOf(runs[r].ctx) /\ runs[r].ctx \in Contexts
          BY <3>2 DEF RunsOf, TypeOK, ContextTypes, LengthTypes, RunTypes, QueueTypes, BatchTypes, Run
      <4>2. NextPastLength(runs[r].ctx, {r}) <= MaxLogicalLength
          BY <3>2, <4>1, ConclusionTypes
      <4> QED BY <3>2, <4>1, <4>2 DEF Bounds, TypeOK, ContextTypes, LengthTypes, RunTypes, QueueTypes, BatchTypes
    <3> QED BY <1>5, <3>1, <3>2 DEF SettleRun
  <2>2. /\ runs' = [runs EXCEPT ![r].stage = "settled"] /\ UNCHANGED batch
        /\ runs[r].kind = "run" /\ Unsettled(r)
      BY <1>5 DEF SettleRun, Unsettled
  <2>3. /\ runs'[r].stage = "settled" /\ runs'[r].mode = runs[r].mode
        /\ runs'[r].kind = runs[r].kind /\ runs'[r].query = runs[r].query
        /\ runs'[r].start = runs[r].start
        /\ \A x \in Runs \ {r} : runs'[x] = runs[x]
      BY <2>2 DEF TypeOK, ContextTypes, LengthTypes, RunTypes, QueueTypes, BatchTypes, Run
  <2> QED BY <2>1, <2>2, <2>3 DEF Bounds, MaxRunEnd, RunEnd, BatchRuns, Unsettled
<1>6. CASE ReleaseRun(r)
  <2>1. /\ runs'[r].stage = "idle" /\ UNCHANGED <<batch, pastLength>>
        /\ \A x \in Runs \ {r} : runs'[x] = runs[x]
      BY <1>6 DEF ReleaseRun, TypeOK, ContextTypes, LengthTypes, RunTypes, QueueTypes, BatchTypes, IdleRun
  <2> QED BY <2>1 DEF Bounds, MaxRunEnd, RunEnd, BatchRuns, Unsettled
<1> QED BY <1>1, <1>2, <1>3, <1>4, <1>5, <1>6 DEF RunStep

\* Committing keeps what was appended, rewinding drops rows: neither passes a bound.
LEMMA LivesKeepBounds ==
    ASSUME TypeOK, Bounds, NEW c \in Contexts, ContextStep(c)
    PROVE  Bounds'
<1> USE ContextAssumption
<1>1. UNCHANGED <<runs, batch>>
    BY DEF ContextStep, Commit, Rewind, Borrow, Fork, RegisterBorrower, AdoptFork, Dispose,
           StartDisposal, FinishDisposal
<1>2. \A d \in Contexts : pastLength'[d] <= MaxLogicalLength
  <2> USE DEF TypeOK, ContextTypes, LengthTypes, RunTypes, QueueTypes, BatchTypes, Bounds
  <2>1. ASSUME NEW n \in Nat, Commit(c, n) PROVE \A d \in Contexts : pastLength'[d] <= MaxLogicalLength
      BY <2>1 DEF Commit
  <2>2. ASSUME NEW n \in Nat, Rewind(c, n) PROVE \A d \in Contexts : pastLength'[d] <= MaxLogicalLength
      BY <2>2 DEF Rewind
  <2>3. ASSUME NEW d \in Contexts, Fork(c, d) PROVE \A e \in Contexts : pastLength'[e] <= MaxLogicalLength
      BY <2>3 DEF Fork
  <2>4. CASE UNCHANGED pastLength
      BY <2>4
  <2> QED BY <2>1, <2>2, <2>3, <2>4 DEF ContextStep, Borrow, RegisterBorrower, AdoptFork,
             Dispose, StartDisposal, FinishDisposal
<1> QED BY <1>1, <1>2 DEF Bounds, RunEnd, BatchRuns, Unsettled

\* Settling a batch advances each length to the end of its last run at most.
LEMMA BatchKeepsBounds ==
    ASSUME TypeOK, TypeOK', Lease, Bounds, BeginBatch \/ FinishBatch \/ SettleBatch \/ DeviceLoss
    PROVE  Bounds'
<1> USE ContextAssumption
<1>1. CASE BeginBatch
  <2>1. BatchRuns = {} /\ UNCHANGED <<runs, pastLength>>
      BY <1>1 DEF BeginBatch, Bounds, contextVars
  <2> QED BY <2>1 DEF Bounds, RunEnd, BatchRuns, Unsettled
<1>2. CASE FinishBatch
  <2>1. UNCHANGED <<runs, pastLength>> /\ batch' = [batch EXCEPT !.state = "finished"]
      BY <1>2 DEF FinishBatch, contextVars
  <2>2. batch'.state # "none" /\ batch'.failed = batch.failed
      BY <2>1 DEF TypeOK, ContextTypes, LengthTypes, RunTypes, QueueTypes, BatchTypes
  <2> QED BY <2>1, <2>2 DEF Bounds, RunEnd, BatchRuns, Unsettled
<1>3. CASE SettleBatch
  <2>1. /\ runs' = [r \in Runs |-> IF r \in BatchRuns THEN IdleRun ELSE runs[r]]
        /\ BatchRuns' = {}
      BY <1>3 DEF SettleBatch, BatchRuns, IdleRun
  <2>2. \A c \in Contexts : pastLength'[c] <= MaxLogicalLength
    <3>1. PICK R \in SUBSET BatchRuns : Completed(R)
        BY <1>3, BatchCompletes
    <3> QED BY <3>1, CompletionTypes DEF Completed
  <2> QED BY <2>1, <2>2 DEF Bounds, RunEnd, Unsettled, IdleRun
<1>4. CASE DeviceLoss
    BY <1>4 DEF DeviceLoss, contextVars, Bounds, RunEnd, BatchRuns, Unsettled
<1> QED BY <1>1, <1>2, <1>3, <1>4
------------------------------------------------------------------------------
(* Every step keeps the types. *)

\* A part of the state that does not change keeps its type.
LEMMA FrameTypes ==
    ASSUME TypeOK
    PROVE  /\ UNCHANGED <<phase, lender, borrowers>> => ContextTypes'
           /\ UNCHANGED <<pastLength, pending, poisoned, history>> => LengthTypes'
           /\ UNCHANGED slots => SlotTypes'
           /\ UNCHANGED <<runs, chain, runKind>> => RunTypes'
           /\ UNCHANGED queue => QueueTypes'
           /\ UNCHANGED <<batch, lost>> => BatchTypes'
<1>1. UNCHANGED <<phase, lender, borrowers>> => ContextTypes'
    BY DEF TypeOK, ContextTypes
<1>2. UNCHANGED <<pastLength, pending, poisoned, history>> => LengthTypes'
    BY DEF TypeOK, LengthTypes
<1>3. UNCHANGED slots => SlotTypes'
    BY DEF TypeOK, SlotTypes
<1>4. UNCHANGED <<runs, chain, runKind>> => RunTypes'
    BY DEF TypeOK, RunTypes
<1>5. UNCHANGED queue => QueueTypes'
    BY DEF TypeOK, QueueTypes
<1>6. UNCHANGED <<batch, lost>> => BatchTypes'
    BY DEF TypeOK, BatchTypes
<1> QED BY <1>1, <1>2, <1>3, <1>4, <1>5, <1>6

\* A body that ends leaves records and queues of the right type.
LEMMA EndBodyTypes ==
    ASSUME TypeOK, NEW r \in Runs, NEW ok \in BOOLEAN, NEW wrote \in BOOLEAN,
           EndBody(r, ok, wrote), AtHead(r, SessionOf(runs[r].ctx)),
           UNCHANGED <<pastLength, pending, history, chain, runKind, lost>>
    PROVE  LengthTypes' /\ RunTypes' /\ QueueTypes' /\ BatchTypes'
<1>1. RunTypes'
  <2> DEFINE stage == IF ok THEN "written" ELSE "failed"
             run == [runs[r] EXCEPT !.stage = stage, !.wrote = wrote]
  <2>0. stage \in Stages /\ runs' = [runs EXCEPT ![r] = run]
      BY DEF EndBody, Stages
  <2> HIDE DEF stage
  <2>1. run \in Run
    <3>1. runs[r] \in Run
        BY DEF TypeOK, RunTypes
    <3> QED BY <2>0, <3>1 DEF Run
  <2>2. runs' = [runs EXCEPT ![r] = run]
      BY <2>0
  <2> HIDE DEF run
  <2> QED BY <2>1, <2>2 DEF TypeOK, RunTypes
<1>2. SessionOf(runs[r].ctx) \in Sessions /\ queue[SessionOf(runs[r].ctx)] # <<>>
    BY DEF SessionOf, Sessions, AtHead
<1>3. Tail(queue[SessionOf(runs[r].ctx)]) \in Seq(Runs \cup Contexts)
    BY <1>2, HeadTailProperties DEF TypeOK, QueueTypes
<1>4. QueueTypes'
    BY <1>2, <1>3 DEF EndBody, Dequeue, TypeOK, QueueTypes
<1>5. BatchTypes'
    BY DEF EndBody, TypeOK, BatchTypes
<1>6. LengthTypes'
    BY DEF EndBody, TypeOK, LengthTypes
<1> QED BY <1>1, <1>4, <1>5, <1>6

\* Accepting a run, or refusing it after its reservation, keeps the types.
LEMMA IssueKeepsTypes ==
    ASSUME TypeOK, NEW r \in Runs, Issue(r)
    PROVE  TypeOK'
<1> USE ContextAssumption
<1>1. PICK c \in Contexts, query \in QueryLengths, scope \in Scopes, tag \in Tags \cup {NoTag} :
          \/ \E mode \in {"immediate", "deferred"} : IssuePlain(r, c, query, mode, scope, tag)
          \/ IssueChained(r, c, query, scope, tag)
          \/ RefuseChained(r, c, query)
    BY DEF Issue
<1>2. query \in Nat /\ scope \in {"run", "batch"} /\ ChainStart(c) \in Nat /\ SessionOf(c) \in Sessions
    BY DEF ChainStart, UncommittedEnd, TypeOK, LengthTypes, RunTypes, SessionOf, Sessions
<1>3. /\ ContextTypes' /\ LengthTypes' /\ SlotTypes' /\ BatchTypes'
  <2>1. UNCHANGED <<phase, lender, borrowers, pastLength, pending, poisoned, history, slots, batch, lost>>
      BY <1>1 DEF IssuePlain, IssueChained, RefuseChained, Accept
  <2> QED BY <2>1, FrameTypes
<1>4. ASSUME NEW mode \in Modes, NEW start \in Nat, Accept(r, c, query, mode, scope, start, tag)
      PROVE  runs' \in [Runs -> Run] /\ QueueTypes'
  <2>1. Append(queue[SessionOf(c)], r) \in Seq(Runs \cup Contexts)
      BY <1>2, AppendProperties DEF TypeOK, QueueTypes
  <2>2. [stage |-> "queued", ctx |-> c, kind |-> scope, mode |-> mode, query |-> query,
         start |-> start, tag |-> tag, wrote |-> FALSE] \in Run
      BY <1>2 DEF Run, Stages
  <2> QED BY <1>2, <1>4, <2>1, <2>2 DEF Accept, TypeOK, QueueTypes, RunTypes
<1>5. ASSUME NEW mode \in {"immediate", "deferred"}, IssuePlain(r, c, query, mode, scope, tag)
      PROVE  RunTypes' /\ QueueTypes'
  <2>1. runs' \in [Runs -> Run] /\ QueueTypes'
      BY <1>4, <1>5 DEF IssuePlain, Modes
  <2> QED BY <1>2, <1>5, <2>1 DEF IssuePlain, TypeOK, RunTypes
<1>6. ASSUME IssueChained(r, c, query, scope, tag)
      PROVE  RunTypes' /\ QueueTypes'
  <2>1. runs' \in [Runs -> Run] /\ QueueTypes'
      BY <1>2, <1>4, <1>6 DEF IssueChained, Modes
  <2>2. chain' \in [Contexts -> [scope : {"run", "batch"}, runs : SUBSET Runs, end : Nat]]
      BY <1>2, <1>6 DEF IssueChained, Reserve, TypeOK, RunTypes
  <2>3. runKind' \in [Contexts -> {"none", "run", "batch"}]
      BY <1>2, <1>6 DEF IssueChained, TypeOK, RunTypes
  <2> QED BY <2>1, <2>2, <2>3 DEF RunTypes
<1>7. ASSUME RefuseChained(r, c, query)
      PROVE  RunTypes' /\ QueueTypes'
  <2> DEFINE after == Return(Reserve(chain[c], r, ChainStart(c), query, "batch"),
                             r, ChainStart(c), query)
  <2>1. after \in [scope : {"run", "batch"}, runs : SUBSET Runs, end : Nat]
      BY <1>2 DEF Return, Reserve, NoChain, TypeOK, RunTypes
  <2>2. /\ chain' = [chain EXCEPT ![c] = after]
        /\ runKind' = [runKind EXCEPT ![c] = IF after = NoChain THEN "none" ELSE "batch"]
        /\ UNCHANGED <<runs, queue>>
      BY <1>7 DEF RefuseChained
  <2> HIDE DEF after
  <2> QED BY <2>1, <2>2, FrameTypes DEF TypeOK, RunTypes
<1> QED BY <1>1, <1>3, <1>5, <1>6, <1>7 DEF TypeOK

\* The steps of a run keep the types.
LEMMA BodyKeepsTypes ==
    ASSUME TypeOK, Lease, Heads, Bounds, NEW r \in Runs, RunStep(r)
    PROVE  TypeOK'
<1> USE ContextAssumption
<1> DEFINE c == runs[r].ctx
<1>1. c \in Contexts /\ runs[r] \in Run /\ SessionOf(c) \in Sessions
    BY DEF TypeOK, RunTypes, Run, SessionOf, Sessions
<1>2. ContextTypes'
    BY RunsLeaveLives, FrameTypes
<1>3. CASE StartBody(r)
  <2>1. /\ AtHead(r, SessionOf(c))
        /\ UNCHANGED <<pending, history, chain, runKind, slots, lost>>
      BY <1>3 DEF StartBody
  <2>2. CASE EndBody(r, FALSE, FALSE) /\ UNCHANGED pastLength
      BY <1>2, <2>1, <2>2, EndBodyTypes, FrameTypes DEF TypeOK
  <2>3. CASE InternalUsable(c) /\ InternalUsable(Owner(c))
    <3> DEFINE start == IF runs[r].mode = "chained" THEN runs[r].start ELSE pastLength[Owner(c)]
               run == [runs[r] EXCEPT !.stage = "started", !.start = start]
    <3>1. /\ runs' = [runs EXCEPT ![r] = run]
          /\ pastLength' = [pastLength EXCEPT ![c] = pastLength[Owner(c)]]
          /\ UNCHANGED <<queue, batch, poisoned>>
        BY <1>3, <2>3 DEF StartBody
    <3>2. Owner(c) \in Contexts /\ pastLength[Owner(c)] \in Nat
        BY <1>1 DEF TypeOK, ContextTypes, LengthTypes, Owner, IsBorrowing
    <3>3. start \in Nat
        BY <1>1, <3>2 DEF Run
    <3> HIDE DEF start
    <3>4. run \in Run
        BY <1>1, <3>3 DEF Run, Stages
    <3> HIDE DEF run
    <3>5. RunTypes'
        BY <2>1, <3>1, <3>4 DEF TypeOK, RunTypes
    <3>6. LengthTypes'
        BY <2>1, <3>1, <3>2 DEF TypeOK, LengthTypes
    <3> QED BY <1>2, <2>1, <3>1, <3>5, <3>6, FrameTypes DEF TypeOK
  <2> QED BY <1>3, <2>2, <2>3 DEF StartBody
<1>4. CASE WriteBody(r) \/ DropBody(r) \/ BreakBody(r)
  <2>1. AtHead(r, SessionOf(c))
      BY <1>4 DEF WriteBody, DropBody, BreakBody, Heads, OnTop
  <2>2. /\ \E ok, wrote \in BOOLEAN : EndBody(r, ok, wrote)
        /\ UNCHANGED <<pastLength, pending, history, chain, runKind, lost>>
      BY <1>4 DEF WriteBody, DropBody, BreakBody
  <2>3. LengthTypes' /\ RunTypes' /\ QueueTypes' /\ BatchTypes'
      BY <2>1, <2>2, EndBodyTypes
  <2>4. SlotTypes'
    <3>1. ASSUME NEW rows, slots' = [slots EXCEPT ![c] = rows], rows = [s \in Slots |-> rows[s]],
                 \A s \in Slots : rows[s] \in [Rows(s) -> Row]
          PROVE  SlotTypes'
      <4>1. slots' = [d \in Contexts |-> IF d = c THEN rows ELSE slots[d]]
          BY <3>1 DEF TypeOK, SlotTypes
      <4>2. slots' = [d \in Contexts |-> slots'[d]]
          BY <4>1
      <4> QED BY <3>1, <4>1, <4>2 DEF TypeOK, SlotTypes
    <3>2. CASE UNCHANGED slots
        BY <3>2, FrameTypes
    <3>3. CASE slots' = [slots EXCEPT ![c] = EmptySlots]
        BY <3>1, <3>3, EmptySlotsType DEF EmptySlots
    <3>4. CASE WriteSlots(runs[r])
      <4> DEFINE rows == [s \in Slots |->
                    Appended(s, slots[c][s], runs[r].start, runs[r].query, runs[r].tag)]
      <4>1. slots' = [slots EXCEPT ![c] = rows]
          BY <3>4 DEF WriteSlots, TypeOK, SlotTypes
      <4>2. \A s \in Slots : rows[s] \in [Rows(s) -> Row]
          BY <1>1, AppendedType DEF TypeOK, SlotTypes, Run
      <4>3. rows = [s \in Slots |-> rows[s]]
          OBVIOUS
      <4> HIDE DEF rows
      <4> QED BY <3>1, <4>1, <4>2, <4>3
    <3> QED BY <1>4, <3>2, <3>3, <3>4 DEF WriteBody, DropBody, BreakBody
  <2> QED BY <1>2, <2>3, <2>4 DEF TypeOK
<1>5. CASE SettleRun(r)
  <2>1. /\ runs' = [runs EXCEPT ![r].stage = "settled"]
        /\ UNCHANGED <<chain, runKind, slots, queue, batch, lost>>
      BY <1>5 DEF SettleRun
  <2>2. RunTypes'
      BY <1>1, <2>1 DEF TypeOK, RunTypes, Run, Stages
  <2>3. CASE /\ runs[r].stage = "written" /\ CanConclude(c, {r})
             /\ pastLength' = [pastLength EXCEPT ![c] = NextPastLength(c, {r})]
             /\ pending' = [pending EXCEPT ![c] = NextPending(c, {r})]
             /\ history' = [history EXCEPT ![c] = NextHistory(c, {r})]
             /\ UNCHANGED poisoned
    <3>1. {r} \in SUBSET RunsOf(c)
        BY <2>3 DEF RunsOf
    <3>2. /\ NextPastLength(c, {r}) \in Nat
          /\ NextPending(c, {r}) \in [pastLength : Nat, queryLength : Nat]
          /\ NextHistory(c, {r}) \in [Columns -> Tags \cup {NoTag}]
        BY <1>1, <2>3, <3>1, ConclusionTypes
    <3>3. LengthTypes'
        BY <1>1, <2>3, <3>2 DEF TypeOK, LengthTypes
    <3> QED BY <1>2, <2>1, <2>2, <3>3, FrameTypes DEF TypeOK
  <2>4. CASE /\ poisoned' = [poisoned EXCEPT ![c] = @ \/ runs[r].wrote]
             /\ UNCHANGED <<pastLength, pending, history>>
    <3>1. LengthTypes'
        BY <1>1, <2>4 DEF TypeOK, LengthTypes, Run
    <3> QED BY <1>2, <2>1, <2>2, <3>1, FrameTypes DEF TypeOK
  <2> QED BY <1>5, <2>3, <2>4 DEF SettleRun
<1>6. CASE ReleaseRun(r)
  <2>1. UNCHANGED <<pastLength, pending, poisoned, slots, batch, lost, history>>
      BY <1>6 DEF ReleaseRun
  <2>2. AtHead(r, SessionOf(c))
      BY <1>6 DEF ReleaseRun, Lease, ChainsHold, Heads, OnTop
  <2>3. Tail(queue[SessionOf(c)]) \in Seq(Runs \cup Contexts)
      BY <1>1, <2>2, HeadTailProperties DEF TypeOK, QueueTypes, AtHead
  <2>4. QueueTypes'
      BY <1>6, <2>3 DEF ReleaseRun, Dequeue, TypeOK, QueueTypes
  <2>5. IdleRun \in Run
      BY DEF IdleRun, Run, Stages, Modes
  <2>6. runs' \in [Runs -> Run]
      BY <1>6, <2>5 DEF ReleaseRun, TypeOK, RunTypes
  <2>7. Return(chain[c], r, runs[r].start, runs[r].query)
            \in [scope : {"run", "batch"}, runs : SUBSET Runs, end : Nat]
      BY <1>1 DEF Return, NoChain, TypeOK, RunTypes, Run
  <2>8. chain' \in [Contexts -> [scope : {"run", "batch"}, runs : SUBSET Runs, end : Nat]]
      BY <1>6, <2>7 DEF ReleaseRun, TypeOK, RunTypes
  <2>9. runKind' \in [Contexts -> {"none", "run", "batch"}]
      BY <1>6 DEF ReleaseRun, TypeOK, RunTypes
  <2> QED BY <1>2, <2>1, <2>4, <2>6, <2>8, <2>9, FrameTypes DEF TypeOK, RunTypes
<1> QED BY <1>3, <1>4, <1>5, <1>6 DEF RunStep

\* The steps of a context's life keep the types.
LEMMA LivesKeepTypes ==
    ASSUME TypeOK, Heads, NEW c \in Contexts, ContextStep(c)
    PROVE  TypeOK'
<1> USE ContextAssumption
<1>1. RunTypes' /\ BatchTypes'
  <2>1. UNCHANGED <<runs, chain, runKind, batch, lost>>
      BY DEF ContextStep, Commit, Rewind, Borrow, Fork, RegisterBorrower, AdoptFork, Dispose,
             StartDisposal, FinishDisposal
  <2> QED BY <2>1, FrameTypes
<1>2. ASSUME NEW d \in Contexts, NEW rows, slots' = [slots EXCEPT ![d] = rows],
             rows = [s \in Slots |-> rows[s]], \A s \in Slots : rows[s] \in [Rows(s) -> Row]
      PROVE  SlotTypes'
  <2>1. slots' = [e \in Contexts |-> IF e = d THEN rows ELSE slots[e]]
      BY <1>2 DEF TypeOK, SlotTypes
  <2>2. slots' = [e \in Contexts |-> slots'[e]]
      BY <2>1
  <2> QED BY <1>2, <2>1, <2>2 DEF TypeOK, SlotTypes
<1>3. ASSUME NEW n \in Nat, Commit(c, n) \/ Rewind(c, n)
      PROVE  ContextTypes' /\ LengthTypes' /\ SlotTypes' /\ QueueTypes'
  <2>1. UNCHANGED <<phase, lender, borrowers, slots, queue, poisoned>>
      BY <1>3 DEF Commit, Rewind
  <2>2. \A from : Forgotten(c, from) \in [Columns -> Tags \cup {NoTag}]
      BY DEF Forgotten, TypeOK, LengthTypes
  <2>3. CASE Commit(c, n)
    <3>1. pending[c].pastLength \in Nat /\ pending[c].pastLength + n \in Nat
        BY <1>3 DEF TypeOK, LengthTypes
    <3>2. /\ pastLength' = [pastLength EXCEPT ![c] = pending[c].pastLength + n]
          /\ pending' = [pending EXCEPT ![c] = NoPending]
          /\ history' = [history EXCEPT ![c] = Forgotten(c, pending[c].pastLength + n)]
          /\ UNCHANGED poisoned
        BY <2>3 DEF Commit
    <3>3. NoPending \in [pastLength : Nat, queryLength : Nat]
        BY DEF NoPending
    <3>4. history' \in [Contexts -> [Columns -> Tags \cup {NoTag}]]
        BY <2>2, <3>2 DEF TypeOK, LengthTypes
    <3>5. pastLength' \in [Contexts -> Nat]
        BY <3>1, <3>2 DEF TypeOK, LengthTypes
    <3>6. pending' \in [Contexts -> [pastLength : Nat, queryLength : Nat]]
        BY <3>2, <3>3 DEF TypeOK, LengthTypes
    <3>7. poisoned' \in [Contexts -> BOOLEAN]
        BY <3>2 DEF TypeOK, LengthTypes
    <3> QED BY <2>1, <3>4, <3>5, <3>6, <3>7, FrameTypes DEF LengthTypes
  <2>4. CASE Rewind(c, n)
    <3>1. /\ pastLength' = [pastLength EXCEPT ![c] = n]
          /\ history' = [history EXCEPT ![c] = Forgotten(c, n)]
          /\ UNCHANGED <<pending, poisoned>>
        BY <2>4 DEF Rewind
    <3>2. history' \in [Contexts -> [Columns -> Tags \cup {NoTag}]]
        BY <2>2, <3>1 DEF TypeOK, LengthTypes
    <3>3. pastLength' \in [Contexts -> Nat]
        BY <1>3, <3>1 DEF TypeOK, LengthTypes
    <3>4. /\ pending' \in [Contexts -> [pastLength : Nat, queryLength : Nat]]
          /\ poisoned' \in [Contexts -> BOOLEAN]
        BY <3>1 DEF TypeOK, LengthTypes
    <3> QED BY <2>1, <3>2, <3>3, <3>4, FrameTypes DEF LengthTypes
  <2> QED BY <1>3, <2>3, <2>4
<1>4. ASSUME NEW d \in Contexts, Borrow(c, d)
      PROVE  ContextTypes' /\ LengthTypes' /\ SlotTypes' /\ QueueTypes'
  <2>1. UNCHANGED <<pastLength, pending, poisoned, history, slots, queue>>
      BY <1>4 DEF Borrow
  <2>2. ContextTypes'
      BY <1>4 DEF Borrow, Phases, TypeOK, ContextTypes
  <2> QED BY <2>1, <2>2, FrameTypes
<1>5. ASSUME NEW d \in Contexts, Fork(c, d)
      PROVE  ContextTypes' /\ LengthTypes' /\ SlotTypes' /\ QueueTypes'
  <2>1. UNCHANGED queue
      BY <1>5 DEF Fork
  <2>2. ContextTypes'
      BY <1>5 DEF Fork, Phases, TypeOK, ContextTypes
  <2>3. LengthTypes'
      BY <1>5 DEF Fork, TypeOK, LengthTypes
  <2>4. SlotTypes'
      BY <1>2, <1>5 DEF Fork, TypeOK, SlotTypes
  <2> QED BY <2>1, <2>2, <2>3, <2>4, FrameTypes
<1>6. ASSUME RegisterBorrower(c) \/ AdoptFork(c) \/ StartDisposal(c)
      PROVE  ContextTypes' /\ LengthTypes' /\ SlotTypes' /\ QueueTypes'
  <2>1. UNCHANGED <<pastLength, pending, poisoned, history, slots, queue>>
      BY <1>6 DEF RegisterBorrower, AdoptFork, StartDisposal
  <2>2. ContextTypes'
      BY <1>6 DEF RegisterBorrower, AdoptFork, StartDisposal, IsBorrowing, Phases, TypeOK, ContextTypes
  <2> QED BY <2>1, <2>2, FrameTypes
<1>7. ASSUME Dispose(c)
      PROVE  ContextTypes' /\ LengthTypes' /\ SlotTypes' /\ QueueTypes'
  <2>1. UNCHANGED <<pastLength, pending, poisoned, history, slots>>
      BY <1>7 DEF Dispose
  <2>2. ContextTypes'
      BY <1>7 DEF Dispose, Phases, TypeOK, ContextTypes
  <2>3. SessionOf(c) \in Sessions
      BY DEF SessionOf, Sessions
  <2>4. Append(queue[SessionOf(c)], c) \in Seq(Runs \cup Contexts)
      BY <2>3, AppendProperties DEF TypeOK, QueueTypes
  <2>5. QueueTypes'
      BY <1>7, <2>3, <2>4 DEF Dispose, TypeOK, QueueTypes
  <2> QED BY <2>1, <2>2, <2>5, FrameTypes
<1>8. ASSUME FinishDisposal(c)
      PROVE  ContextTypes' /\ LengthTypes' /\ SlotTypes' /\ QueueTypes'
  <2>1. ContextTypes'
      BY <1>8 DEF FinishDisposal, IsBorrowing, Phases, TypeOK, ContextTypes
  <2>2. LengthTypes'
      BY <1>8 DEF FinishDisposal, NoPending, TypeOK, LengthTypes
  <2>3. SlotTypes'
    <3>1. UNCHANGED slots \/ slots' = [slots EXCEPT ![c] = EmptySlots]
        BY <1>8 DEF FinishDisposal
    <3>2. EmptySlots = [s \in Slots |-> EmptySlots[s]]
        BY DEF EmptySlots
    <3> QED BY <1>2, <3>1, <3>2, EmptySlotsType, FrameTypes
  <2>4. SessionOf(c) \in Sessions /\ AtHead(c, SessionOf(c))
      BY <1>8 DEF FinishDisposal, Heads, SessionOf, Sessions
  <2>5. Tail(queue[SessionOf(c)]) \in Seq(Runs \cup Contexts)
      BY <2>4, HeadTailProperties DEF TypeOK, QueueTypes, AtHead
  <2>6. QueueTypes'
      BY <1>8, <2>4, <2>5 DEF FinishDisposal, Dequeue, TypeOK, QueueTypes
  <2> QED BY <2>1, <2>2, <2>3, <2>6
<1> QED BY <1>1, <1>3, <1>4, <1>5, <1>6, <1>7, <1>8 DEF ContextStep, TypeOK

\* The steps of a batch, and the loss of the device, keep the types.
LEMMA BatchKeepsTypes ==
    ASSUME TypeOK, Lease, Bounds, BeginBatch \/ FinishBatch \/ SettleBatch \/ DeviceLoss
    PROVE  TypeOK'
<1> USE ContextAssumption
<1>1. CASE BeginBatch \/ FinishBatch \/ DeviceLoss
  <2>1. UNCHANGED <<contextVars, runs, queue>>
      BY <1>1 DEF BeginBatch, FinishBatch, DeviceLoss
  <2>2. BatchTypes'
    <3>1. CASE BeginBatch
        BY <3>1 DEF BeginBatch, TypeOK, BatchTypes
    <3>2. CASE FinishBatch
        BY <3>2 DEF FinishBatch, TypeOK, BatchTypes
    <3>3. CASE DeviceLoss
        BY <3>3 DEF DeviceLoss, TypeOK, BatchTypes
    <3> QED BY <1>1, <3>1, <3>2, <3>3
  <2> QED BY <2>1, <2>2, FrameTypes DEF TypeOK, contextVars
<1>2. CASE SettleBatch
  <2> DEFINE Held(c) == \E r \in BatchRuns : c \in {runs[r].ctx, Owner(runs[r].ctx)}
  <2>1. /\ UNCHANGED <<phase, lender, borrowers, slots, queue, lost>>
        /\ batch' = [state |-> "none", failed |-> FALSE]
      BY <1>2 DEF SettleBatch
  <2>2. RunTypes'
    <3>1. /\ chain' = [c \in Contexts |-> IF Held(c) THEN NoChain ELSE chain[c]]
          /\ runKind' = [c \in Contexts |-> IF Held(c) THEN "none" ELSE runKind[c]]
          /\ runs' = [r \in Runs |-> IF r \in BatchRuns THEN IdleRun ELSE runs[r]]
        BY <1>2 DEF SettleBatch
    <3>2. IdleRun \in Run
        BY DEF IdleRun, Run, Stages, Modes
    <3>3. NoChain \in [scope : {"run", "batch"}, runs : SUBSET Runs, end : Nat]
        BY DEF NoChain
    <3> QED BY <3>1, <3>2, <3>3 DEF TypeOK, RunTypes
  <2>3. LengthTypes'
    <3>1. PICK R \in SUBSET BatchRuns : Completed(R)
        BY <1>2, BatchCompletes
    <3>2. /\ pastLength' \in [Contexts -> Nat]
          /\ pending' \in [Contexts -> [pastLength : Nat, queryLength : Nat]]
          /\ history' \in [Contexts -> [Columns -> Tags \cup {NoTag}]]
        BY <3>1, CompletionTypes DEF Completed
    <3>3. poisoned' \in [Contexts -> BOOLEAN]
      <4>1. \A c \in Contexts :
               (poisoned[c] \/ \E r \in BatchRuns \cap RunsOf(c) : runs[r].wrote) \in BOOLEAN
          OBVIOUS
      <4> QED BY <3>1, <4>1 DEF Completed, TypeOK, LengthTypes
    <3> QED BY <3>2, <3>3 DEF LengthTypes
  <2> QED BY <2>1, <2>2, <2>3, FrameTypes DEF TypeOK, BatchTypes
<1> QED BY <1>1, <1>2
------------------------------------------------------------------------------
(* The inductive invariant, and what follows from it. *)

\* Inductive: each part needs the types, and the types of a settled length need the
\* leases (one settling run per context) and the bounds.
IInv == TypeOK /\ Borrowing /\ Lease /\ Heads /\ Bounds

\* Initially one context is open and nothing is under way.
LEMMA InitIInv == Init => IInv
<1> USE ContextAssumption DEF Init
<1> SUFFICES ASSUME Init PROVE IInv
    OBVIOUS
<1>1. /\ \A r \in Runs : runs[r] = IdleRun
      /\ IdleRun.stage = "idle" /\ IdleRun.kind = "run" /\ IdleRun \in Run
    BY DEF IdleRun, Run, Stages, Modes
<1>2. TypeOK
  <2>1. ContextTypes
      BY DEF ContextTypes, Phases
  <2>2. LengthTypes
      BY DEF LengthTypes, NoPending, NoHistory
  <2>3. SlotTypes
    <3>1. \A c \in Contexts : slots[c] = EmptySlots
        OBVIOUS
    <3>2. EmptySlots = [s \in Slots |-> EmptySlots[s]]
        BY DEF EmptySlots
    <3>3. slots = [c \in Contexts |-> slots[c]]
        OBVIOUS
    <3> QED BY <3>1, <3>2, <3>3, EmptySlotsType DEF SlotTypes
  <2>4. RunTypes
      BY <1>1 DEF RunTypes, NoChain
  <2>5. QueueTypes
      BY DEF QueueTypes
  <2>6. BatchTypes
      BY DEF BatchTypes
  <2> QED BY <2>1, <2>2, <2>3, <2>4, <2>5, <2>6 DEF TypeOK
<1>3. Borrowing
    BY DEF Borrowing, IsBorrowing
<1>4. Lease
  <2>1. ChainsHold
      BY <1>1 DEF ChainsHold, Unsettled, NoChain
  <2>2. LeasePoints
      BY <1>1 DEF LeasePoints, HoldsLease, Unsettled, NoChain
  <2> QED BY <1>1, <2>1, <2>2 DEF Lease, RunsExist, RunsExclude, Unsettled
<1>5. Heads
    BY <1>1 DEF Heads, OnTop
<1>6. Bounds
    BY <1>1 DEF Bounds, Unsettled, BatchRuns
<1> QED BY <1>2, <1>3, <1>4, <1>5, <1>6 DEF IInv

\* The types come first: the other parts of the invariant are kept between
\* states that have them.
LEMMA TypesStep == ASSUME IInv, [Next]_vars PROVE TypeOK'
<1> USE DEF IInv
<1>1. ASSUME NEW r \in Runs, Issue(r) \/ RunStep(r) PROVE TypeOK'
    BY <1>1, IssueKeepsTypes, BodyKeepsTypes
<1>2. ASSUME NEW c \in Contexts, ContextStep(c) PROVE TypeOK'
    BY <1>2, LivesKeepTypes
<1>3. CASE BeginBatch \/ FinishBatch \/ SettleBatch \/ DeviceLoss
    BY <1>3, BatchKeepsTypes
<1>4. CASE UNCHANGED vars
    BY <1>4, FrameTypes DEF vars, TypeOK
<1> QED BY <1>1, <1>2, <1>3, <1>4 DEF Next

\* The steps of a context's life, in the groups the lemmas above take them.
LEMMA LifeKinds ==
    ASSUME NEW c \in Contexts, ContextStep(c)
    PROVE  \/ \E n \in Nat : Commit(c, n) \/ Rewind(c, n)
           \/ \E d \in Contexts : Borrow(c, d) \/ Fork(c, d)
           \/ RegisterBorrower(c) \/ AdoptFork(c)
           \/ Dispose(c) \/ StartDisposal(c) \/ FinishDisposal(c)
BY ContextAssumption DEF ContextStep

\* Steps that touch neither a run nor a context's life keep leases and heads.
LEMMA IdleKeeps ==
    ASSUME IInv, TypeOK', UNCHANGED <<phase, lender, chain, runKind, runs, queue>>
    PROVE  Lease' /\ Heads'
<1>1. \A r \in Runs : SameRun(r)
    BY DEF SameRun, Unsettled
<1>2. Lease'
    BY <1>1, LeaseUnchanged DEF IInv, TypeOK
<1>3. Heads'
    BY DEF IInv, Heads, OnTop, AtHead, SessionOf, IsBorrowing
<1> QED BY <1>2, <1>3

\* Every step keeps the leases.
LEMMA LeaseStep == ASSUME IInv, TypeOK', [Next]_vars PROVE Lease'
<1> USE DEF IInv, TypeOK
<1>1. ASSUME NEW r \in Runs, Issue(r) \/ RunStep(r) PROVE Lease'
    BY <1>1, IssueKeepsLease, BodyKeepsLease, ReleaseKeepsLease DEF RunStep
<1>2. ASSUME NEW c \in Contexts, ContextStep(c) PROVE Lease'
    BY <1>2, LifeKinds, LifeKeepsLease
<1>3. CASE SettleBatch
    BY <1>3, SettleBatchKeepsLease
<1>4. CASE BeginBatch \/ FinishBatch \/ DeviceLoss
    BY <1>4, IdleKeeps DEF BeginBatch, FinishBatch, DeviceLoss, contextVars
<1>5. CASE UNCHANGED vars
    BY <1>5, IdleKeeps DEF vars
<1> QED BY <1>1, <1>2, <1>3, <1>4, <1>5 DEF Next

\* Every step keeps the heads.
LEMMA HeadsStep == ASSUME IInv, TypeOK', [Next]_vars PROVE Heads'
<1> USE DEF IInv, TypeOK
<1>1. ASSUME NEW r \in Runs, Issue(r) \/ RunStep(r) PROVE Heads'
    BY <1>1, RunsKeepHeads
<1>2. ASSUME NEW c \in Contexts, ContextStep(c) PROVE Heads'
    BY <1>2, LifeKinds, LivesKeepHeads
<1>3. CASE SettleBatch
    BY <1>3, SettleBatchKeepsHeads
<1>4. CASE BeginBatch \/ FinishBatch \/ DeviceLoss
    BY <1>4, IdleKeeps DEF BeginBatch, FinishBatch, DeviceLoss, contextVars
<1>5. CASE UNCHANGED vars
    BY <1>5, IdleKeeps DEF vars
<1> QED BY <1>1, <1>2, <1>3, <1>4, <1>5 DEF Next

\* Every step keeps the bounds.
LEMMA BoundsStep == ASSUME IInv, TypeOK', [Next]_vars PROVE Bounds'
<1> USE DEF IInv
<1>1. ASSUME NEW r \in Runs, Issue(r) \/ RunStep(r) PROVE Bounds'
    BY <1>1, RunsKeepBounds
<1>2. ASSUME NEW c \in Contexts, ContextStep(c) PROVE Bounds'
    BY <1>2, LivesKeepBounds
<1>3. CASE BeginBatch \/ FinishBatch \/ SettleBatch \/ DeviceLoss
    BY <1>3, BatchKeepsBounds
<1>4. CASE UNCHANGED vars
    BY <1>4 DEF vars, Bounds, BatchRuns, RunEnd, Unsettled
<1> QED BY <1>1, <1>2, <1>3, <1>4 DEF Next

\* The invariant is inductive.
LEMMA IInvStep == IInv /\ [Next]_vars => IInv'
<1> SUFFICES ASSUME IInv, [Next]_vars PROVE IInv'
    OBVIOUS
<1>1. TypeOK'
    BY TypesStep
<1>2. Borrowing'
    BY BorrowingStep DEF IInv, TypeOK
<1> QED BY <1>1, <1>2, LeaseStep, HeadsStep, BoundsStep DEF IInv

\* The invariant holds in every state of every behaviour.
THEOREM IInvHolds == Spec => []IInv
BY InitIInv, IInvStep, PTL DEF Spec

\* Every variable holds what its declaration says, for any number of contexts,
\* runs and slots and any limits.
THEOREM TypesHold == Spec => []TypeOK
<1>1. IInv => TypeOK
    BY DEF IInv
<1> QED BY <1>1, IInvHolds, PTL

\* A context that lends its slots is never disposed under a borrower that was
\* registered: assertCanDispose and the second check of createBorrowed suffice,
\* although the two disposals run on the chains of different Sessions.
THEOREM SlotsOutliveBorrowers == Spec => []BorrowedSlotsAlive
<1>1. IInv => BorrowedSlotsAlive
    BY DEF IInv, Borrowing, BorrowedSlotsAlive, IsBorrowing
<1> QED BY <1>1, IInvHolds, PTL

\* A lease is held exactly while an accepted run is unsettled, and the chain of
\* a context is exactly its chained runs in flight: acquireRun, releaseRun,
\* acquireChainedRun and releaseChainedRun balance in every interleaving.
THEOREM LeasesMatch == Spec => []LeaseMatchesRuns
<1>1. IInv => LeaseMatchesRuns
    BY LeaseIsMatched DEF IInv, TypeOK
<1> QED BY <1>1, IInvHolds, PTL

------------------------------------------------------------------------------
(* The order of the queues. *)

\* Job x has place i on the queue of a Session.
Place(x, session, i) == i \in 1..Len(queue[session]) /\ queue[session][i] = x

Once ==
    \A c \in Contexts, s, t \in Sessions, i, j \in Nat :
        Place(c, s, i) /\ Place(c, t, j) => s = t /\ i = j

Closing ==
    \A c \in Contexts, s \in Sessions, i \in Nat :
        Place(c, s, i) => phase[c] \in {"closing", "disposed"}

\* Run r has place i, and the disposal of its context a later one if any.
Precedes(r, i) ==
    /\ Place(r, SessionOf(runs[r].ctx), i)
    /\ \A j \in Nat : Place(runs[r].ctx, SessionOf(runs[r].ctx), j) => i < j

Ahead ==
    \A r \in Runs : Unsettled(r) /\ runs[r].kind = "run" => \E i \in Nat : Precedes(r, i)

Held ==
    \A r \in Runs : Unsettled(r) =>
        /\ phase[runs[r].ctx] \in {"open", "closing"}
        /\ runs[r].kind = "batch" =>
              phase[runs[r].ctx] = "open" /\ runKind[runs[r].ctx] = "batch"

Turns == Once /\ Closing /\ Ahead /\ Held

------------------------------------------------------------------------------
(* Places on a queue. *)

\* The head has the first place.
LEMMA HeadPlace ==
    ASSUME QueueTypes, NEW s \in Sessions, NEW x, AtHead(x, s)
    PROVE  Place(x, s, 1)
BY DEF QueueTypes, AtHead, Place

\* Who joins takes the place behind all others.
LEMMA AppendPlaces ==
    ASSUME QueueTypes, NEW s \in Sessions, NEW x \in Runs \cup Contexts,
           queue' = [queue EXCEPT ![s] = Append(@, x)]
    PROVE  \A y : \A t \in Sessions, i \in Nat :
               Place(y, t, i)' <=>
                   Place(y, t, i) \/ (t = s /\ y = x /\ i = Len(queue[s]) + 1)
<1>1. queue[s] \in Seq(Runs \cup Contexts) /\ queue'[s] = Append(queue[s], x)
    BY DEF QueueTypes
<1>2. /\ Len(queue'[s]) = Len(queue[s]) + 1 /\ Len(queue[s]) \in Nat
      /\ \A i \in 1..Len(queue[s]) : queue'[s][i] = queue[s][i]
      /\ queue'[s][Len(queue[s]) + 1] = x
    BY <1>1, AppendProperties
<1>3. \A t \in Sessions \ {s} : queue'[t] = queue[t]
    BY DEF QueueTypes
<1> QED BY <1>2, <1>3 DEF Place

\* When the head leaves, the others advance by one place.
LEMMA DequeuePlaces ==
    ASSUME QueueTypes, NEW s \in Sessions, queue[s] # <<>>, Dequeue(s)
    PROVE  \A y : \A t \in Sessions, i \in Nat :
               Place(y, t, i)' <=> IF t = s THEN i # 0 /\ Place(y, t, i + 1) ELSE Place(y, t, i)
<1>1. queue[s] \in Seq(Runs \cup Contexts) /\ queue'[s] = Tail(queue[s])
    BY DEF QueueTypes, Dequeue
<1>2. /\ Len(queue'[s]) = Len(queue[s]) - 1 /\ Len(queue[s]) \in Nat
      /\ \A i \in 1..(Len(queue[s]) - 1) : queue'[s][i] = queue[s][i + 1]
    BY <1>1, HeadTailProperties
<1>3. \A t \in Sessions \ {s} : queue'[t] = queue[t]
    BY DEF QueueTypes, Dequeue
<1> QED BY <1>2, <1>3 DEF Place
------------------------------------------------------------------------------
(* Steps. *)

\* What the steps below need of the types of runs.
RunsTyped == \A r \in Runs : runs[r].ctx \in Contexts /\ runs[r].kind \in {"run", "batch"}

\* The types of the runs give it.
LEMMA TypedRuns == RunTypes => RunsTyped
BY DEF RunTypes, Run, RunsTyped

\* Every context has a Session.
LEMMA SessionsTyped == \A c \in Contexts : SessionOf(c) \in Sessions
BY DEF SessionOf, Sessions

\* A step that queues nothing and dequeues nothing keeps the turns, if it keeps
\* the lives of contexts with runs and does not undo an accepted disposal.
LEMMA TurnsUnchanged ==
    ASSUME RunsTyped, RunsExist, Turns, UNCHANGED queue,
           \A r \in Runs : Unsettled(r)' =>
               /\ Unsettled(r)
               /\ runs'[r].ctx = runs[r].ctx /\ runs'[r].kind = runs[r].kind
               /\ runs[r].kind = "batch" => runKind'[runs[r].ctx] = runKind[runs[r].ctx]
               /\ phase'[runs[r].ctx] = phase[runs[r].ctx],
           \A c \in Contexts : phase[c] \notin {"absent", "allocating"} => lender'[c] = lender[c],
           \A c \in Contexts : phase[c] \in {"closing", "disposed"} =>
               phase'[c] \in {"closing", "disposed"}
    PROVE  Turns'
<1>1. \A x : \A s \in Sessions, i \in Nat : Place(x, s, i)' <=> Place(x, s, i)
    BY DEF Place
<1>2. Once' /\ Closing'
    BY <1>1 DEF Turns, Once, Closing
<1>3. Ahead'
  <2> SUFFICES ASSUME NEW r \in Runs, Unsettled(r)', runs'[r].kind = "run"
               PROVE  \E i \in Nat : Precedes(r, i)'
      BY DEF Ahead
  <2>1. /\ Unsettled(r) /\ runs[r].kind = "run" /\ runs'[r].ctx = runs[r].ctx
        /\ runs[r].ctx \in Contexts /\ lender'[runs[r].ctx] = lender[runs[r].ctx]
      BY DEF RunsExist, RunsTyped
  <2>2. SessionOf(runs[r].ctx)' = SessionOf(runs[r].ctx) /\ SessionOf(runs[r].ctx) \in Sessions
      BY <2>1, SessionsTyped DEF SessionOf, IsBorrowing
  <2> QED BY <1>1, <2>1, <2>2 DEF Turns, Ahead, Precedes
<1>4. Held'
    BY DEF Turns, Held
<1> QED BY <1>2, <1>3, <1>4 DEF Turns

\* An accepted run joins behind the others, and no disposal of its context is queued.
LEMMA AcceptKeepsTurns ==
    ASSUME RunsTyped, QueueTypes, Turns,
           NEW r \in Runs, NEW c \in Contexts, runs[r].stage = "idle", phase[c] = "open",
           queue' = [queue EXCEPT ![SessionOf(c)] = Append(@, r)],
           runs'[r].ctx = c, runs'[r].kind = "batch" => runKind'[c] = "batch",
           \A x \in Runs \ {r} : runs'[x] = runs[x],
           UNCHANGED <<phase, lender>>,
           \A x \in Runs : Unsettled(x) /\ runs[x].kind = "batch" =>
               runKind'[runs[x].ctx] = "batch"
    PROVE  Turns'
<1>0. PICK s \in Sessions : s = SessionOf(c)
    BY SessionsTyped
<1>1. r \in Runs \cup Contexts /\ r \notin Contexts
    BY ContextAssumption
<1>2. \A y : \A t \in Sessions, i \in Nat :
          Place(y, t, i)' <=> Place(y, t, i) \/ (t = s /\ y = r /\ i = Len(queue[s]) + 1)
    BY <1>0, <1>1, AppendPlaces
<1>3. \A d \in Contexts, t \in Sessions, i \in Nat : Place(d, t, i)' <=> Place(d, t, i)
    BY <1>1, <1>2
<1>4. Once' /\ Closing'
    BY <1>3 DEF Turns, Once, Closing
<1>5. \A d \in Contexts : SessionOf(d)' = SessionOf(d) /\ SessionOf(d) \in Sessions
    BY SessionsTyped DEF SessionOf, IsBorrowing
<1>6. \A x \in Runs \ {r} : Unsettled(x)' <=> Unsettled(x)
    BY DEF Unsettled
<1>7. Ahead'
  <2>1. ASSUME NEW x \in Runs \ {r}, Unsettled(x), runs[x].kind = "run"
        PROVE  \E i \in Nat : Precedes(x, i)'
    <3>1. PICK i \in Nat : Precedes(x, i)
        BY <2>1 DEF Turns, Ahead
    <3>2. runs[x].ctx \in Contexts /\ runs'[x].ctx = runs[x].ctx
        BY DEF RunsTyped
    <3> QED BY <1>2, <1>3, <1>5, <3>1, <3>2 DEF Precedes
  <2>2. \E i \in Nat : Precedes(r, i)'
    <3>1. PICK n \in Nat : n = Len(queue[s]) + 1
        BY DEF QueueTypes
    <3>2. Place(r, s, n)'
        BY <1>2, <3>1
    <3>3. \A j \in Nat : ~Place(c, s, j)'
        BY <1>1, <1>3 DEF Turns, Closing
    <3>4. SessionOf(runs[r].ctx)' = s
        BY <1>0, <1>5
    <3> QED BY <3>1, <3>2, <3>3, <3>4 DEF Precedes
  <2> QED BY <1>6, <2>1, <2>2 DEF Ahead
<1>8. Held'
    BY <1>6 DEF Turns, Held
<1> QED BY <1>4, <1>7, <1>8 DEF Turns

\* A run that leaves as the head advances the others, and leaves no run of its
\* own kind without a place.
LEMMA LeaveKeepsTurns ==
    ASSUME RunsTyped, QueueTypes, Turns,
           NEW r \in Runs, AtHead(r, SessionOf(runs[r].ctx)), Dequeue(SessionOf(runs[r].ctx)),
           UNCHANGED <<phase, lender>>,
           \A x \in Runs \ {r} : runs'[x] = runs[x],
           Unsettled(r)' => /\ Unsettled(r) /\ runs'[r].ctx = runs[r].ctx
                            /\ runs[r].kind = "batch" /\ runs'[r].kind = "batch",
           \A x \in Runs : Unsettled(x)' /\ runs'[x].kind = "batch" =>
               runKind'[runs[x].ctx] = runKind[runs[x].ctx]
    PROVE  Turns'
<1>0. PICK s \in Sessions : s = SessionOf(runs[r].ctx)
    BY SessionsTyped DEF RunsTyped
<1>1. \A d \in Contexts : SessionOf(d)' = SessionOf(d) /\ SessionOf(d) \in Sessions
    BY SessionsTyped DEF SessionOf, IsBorrowing
<1>2. queue[s] # <<>> /\ AtHead(r, s) /\ Dequeue(s)
    BY <1>0 DEF AtHead
<1>3. \A y : \A t \in Sessions, i \in Nat :
          Place(y, t, i)' <=> IF t = s THEN i # 0 /\ Place(y, t, i + 1) ELSE Place(y, t, i)
    BY <1>2, DequeuePlaces
<1>4. Place(r, s, 1)
    BY <1>2, HeadPlace
<1>5. Once'
  <2> SUFFICES ASSUME NEW c \in Contexts, NEW t \in Sessions, NEW u \in Sessions,
                      NEW i \in Nat, NEW j \in Nat, Place(c, t, i)', Place(c, u, j)'
               PROVE  t = u /\ i = j
      BY DEF Once
  <2>1. Place(c, t, IF t = s THEN i + 1 ELSE i) /\ Place(c, u, IF u = s THEN j + 1 ELSE j)
      BY <1>3
  <2> QED BY <2>1 DEF Turns, Once
<1>6. Closing'
  <2>1. \A c \in Contexts, t \in Sessions, i \in Nat : Place(c, t, i)' =>
            \E k \in Nat : Place(c, t, k)
      BY <1>3
  <2> QED BY <2>1 DEF Turns, Closing
<1>7. Ahead'
  <2> SUFFICES ASSUME NEW x \in Runs, Unsettled(x)', runs'[x].kind = "run"
               PROVE  \E i \in Nat : Precedes(x, i)'
      BY DEF Ahead
  <2>1. x # r /\ Unsettled(x) /\ runs[x].kind = "run" /\ runs'[x].ctx = runs[x].ctx
      BY DEF Unsettled
  <2>2. PICK c \in Contexts, t \in Sessions :
            c = runs[x].ctx /\ t = SessionOf(c) /\ t = SessionOf(c)'
      BY <1>1 DEF RunsTyped
  <2>3. PICK i \in Nat : Place(x, t, i) /\ \A j \in Nat : Place(c, t, j) => i < j
      BY <2>1, <2>2 DEF Turns, Ahead, Precedes
  <2>4. runs'[x].ctx = c
      BY <2>1, <2>2
  <2>5. CASE t # s
    <3>1. Place(x, t, i)' /\ \A j \in Nat : Place(c, t, j)' => i < j
        BY <1>3, <2>2, <2>3, <2>5
    <3> QED BY <2>2, <2>4, <3>1 DEF Precedes
  <2>6. CASE t = s
    <3>1. i # 1 /\ i # 0
        BY <1>4, <2>1, <2>3, <2>6 DEF Place
    <3>2. i - 1 \in Nat /\ i - 1 # 0 /\ (i - 1) + 1 = i
        BY <3>1
    <3>3. Place(x, t, i - 1)'
        BY <1>3, <2>2, <2>3, <2>6, <3>2
    <3>4. \A j \in Nat : Place(c, t, j)' => i - 1 < j
        BY <1>3, <2>2, <2>3, <2>6, <3>2
    <3> QED BY <2>2, <2>4, <3>2, <3>3, <3>4 DEF Precedes
  <2> QED BY <2>5, <2>6
<1>8. Held'
  <2> SUFFICES ASSUME NEW x \in Runs, Unsettled(x)'
               PROVE  /\ phase'[runs'[x].ctx] \in {"open", "closing"}
                      /\ runs'[x].kind = "batch" =>
                            phase'[runs'[x].ctx] = "open" /\ runKind'[runs'[x].ctx] = "batch"
      BY DEF Held
  <2>1. Unsettled(x) /\ runs'[x].ctx = runs[x].ctx /\ runs'[x].kind = runs[x].kind
      BY DEF Unsettled
  <2> QED BY <2>1 DEF Turns, Held
<1> QED BY <1>5, <1>6, <1>7, <1>8 DEF Turns

\* Disposing accepts no new run, and queues the context behind those accepted.
LEMMA DisposeKeepsTurns ==
    ASSUME ContextTypes, RunsTyped, QueueTypes, Lease, Turns, NEW c \in Contexts, Dispose(c)
    PROVE  Turns'
<1>0. PICK s \in Sessions : s = SessionOf(c)
    BY SessionsTyped
<1>1. /\ queue' = [queue EXCEPT ![s] = Append(@, c)] /\ c \in Runs \cup Contexts
      /\ phase[c] = "open" /\ runKind[c] # "batch" /\ phase' = [phase EXCEPT ![c] = "closing"]
      /\ UNCHANGED <<runs, lender, runKind>>
    BY <1>0 DEF Dispose
<1>2. \A y : \A t \in Sessions, i \in Nat :
          Place(y, t, i)' <=> Place(y, t, i) \/ (t = s /\ y = c /\ i = Len(queue[s]) + 1)
    BY <1>1, AppendPlaces
<1>3. \A t \in Sessions, i \in Nat : ~Place(c, t, i)
    BY <1>1 DEF Turns, Closing
<1>4. phase' \in [Contexts -> Phases] /\ phase'[c] = "closing"
      /\ \A d \in Contexts \ {c} : phase'[d] = phase[d]
    BY <1>1 DEF ContextTypes, Phases
<1>5. Once'
    BY <1>2, <1>3 DEF Turns, Once
<1>6. Closing'
    BY <1>2, <1>4 DEF Turns, Closing
<1>7. Ahead'
  <2> SUFFICES ASSUME NEW r \in Runs, Unsettled(r), runs[r].kind = "run"
               PROVE  \E i \in Nat : Precedes(r, i)'
      BY <1>1 DEF Ahead, Unsettled
  <2>1. PICK d \in Contexts, t \in Sessions :
            d = runs[r].ctx /\ t = SessionOf(d) /\ t = SessionOf(d)'
      BY <1>1, SessionsTyped DEF RunsTyped, SessionOf, IsBorrowing
  <2>2. PICK i \in Nat : Place(r, t, i) /\ \A j \in Nat : Place(d, t, j) => i < j
      BY <2>1 DEF Turns, Ahead, Precedes
  <2>3. i <= Len(queue[t]) /\ Len(queue[t]) \in Nat
      BY <2>2 DEF Place, QueueTypes
  <2>4. Place(r, t, i)'
      BY <1>2, <2>2
  <2>5. \A j \in Nat : Place(d, t, j)' => i < j
      BY <1>2, <2>2, <2>3
  <2> QED BY <1>1, <2>1, <2>4, <2>5 DEF Precedes
<1>8. Held'
  <2> SUFFICES ASSUME NEW r \in Runs, Unsettled(r)
               PROVE  /\ phase'[runs[r].ctx] \in {"open", "closing"}
                      /\ runs[r].kind = "batch" =>
                            phase'[runs[r].ctx] = "open" /\ runKind[runs[r].ctx] = "batch"
      BY <1>1 DEF Held, Unsettled
  <2>1. runs[r].kind = "batch" => runs[r].ctx # c
      BY <1>1 DEF Turns, Held
  <2> QED BY <1>4, <2>1 DEF Turns, Held, RunsTyped
<1> QED BY <1>5, <1>6, <1>7, <1>8 DEF Turns

\* A disposal starts when no run of its context is left.
LEMMA NoRunAtDisposal ==
    ASSUME RunsTyped, QueueTypes, Turns, NEW c \in Contexts, phase[c] # "open",
           AtHead(c, SessionOf(c)), NEW r \in Runs, Unsettled(r)
    PROVE  runs[r].ctx # c
<1> SUFFICES ASSUME runs[r].ctx = c PROVE FALSE
    OBVIOUS
<1>1. PICK s \in Sessions : s = SessionOf(c)
    BY SessionsTyped
<1>2. Place(c, s, 1)
    BY <1>1, HeadPlace
<1>3. runs[r].kind = "run"
    BY DEF Turns, Held, RunsTyped
<1>4. PICK i \in Nat : Place(r, s, i) /\ i < 1
    BY <1>1, <1>2, <1>3 DEF Turns, Ahead, Precedes
<1> QED BY <1>4 DEF Place

\* The end of a disposal takes the one place its context has.
LEMMA FinishKeepsTurns ==
    ASSUME ContextTypes, RunsTyped, QueueTypes, Heads, Turns, NEW c \in Contexts,
           FinishDisposal(c)
    PROVE  Turns'
<1>0. PICK s \in Sessions : s = SessionOf(c)
    BY SessionsTyped
<1>1. /\ phase[c] = "disposed" /\ phase' = [phase EXCEPT ![c] = "closed"] /\ Dequeue(s)
      /\ UNCHANGED <<runs, lender, runKind>>
    BY <1>0 DEF FinishDisposal
<1>2. AtHead(c, s) /\ queue[s] # <<>>
    BY <1>0, <1>1 DEF Heads, AtHead
<1>3. \A y : \A t \in Sessions, i \in Nat :
          Place(y, t, i)' <=> IF t = s THEN i # 0 /\ Place(y, t, i + 1) ELSE Place(y, t, i)
    BY <1>1, <1>2, DequeuePlaces
<1>4. Place(c, s, 1)
    BY <1>2, HeadPlace
<1>5. phase' \in [Contexts -> Phases] /\ \A d \in Contexts \ {c} : phase'[d] = phase[d]
    BY <1>1 DEF ContextTypes, Phases
<1>6. Once'
  <2> SUFFICES ASSUME NEW d \in Contexts, NEW t \in Sessions, NEW u \in Sessions,
                      NEW i \in Nat, NEW j \in Nat, Place(d, t, i)', Place(d, u, j)'
               PROVE  t = u /\ i = j
      BY DEF Once
  <2>1. Place(d, t, IF t = s THEN i + 1 ELSE i) /\ Place(d, u, IF u = s THEN j + 1 ELSE j)
      BY <1>3
  <2> QED BY <2>1 DEF Turns, Once
<1>7. Closing'
  <2> SUFFICES ASSUME NEW d \in Contexts, NEW t \in Sessions, NEW i \in Nat, Place(d, t, i)'
               PROVE  phase'[d] \in {"closing", "disposed"}
      BY DEF Closing
  <2>1. Place(d, t, IF t = s THEN i + 1 ELSE i) /\ (t = s => i # 0)
      BY <1>3
  <2>2. d # c
      BY <1>4, <2>1 DEF Turns, Once
  <2> QED BY <1>5, <2>1, <2>2 DEF Turns, Closing
<1>8. \A r \in Runs : Unsettled(r) => runs[r].ctx # c
    BY <1>1 DEF Turns, Held
<1>9. Ahead'
  <2> SUFFICES ASSUME NEW r \in Runs, Unsettled(r), runs[r].kind = "run"
               PROVE  \E i \in Nat : Precedes(r, i)'
      BY <1>1 DEF Ahead, Unsettled
  <2>1. PICK d \in Contexts, t \in Sessions :
            d = runs[r].ctx /\ t = SessionOf(d) /\ t = SessionOf(d)'
      BY <1>1, SessionsTyped DEF RunsTyped, SessionOf, IsBorrowing
  <2>2. PICK i \in Nat : Place(r, t, i) /\ \A j \in Nat : Place(d, t, j) => i < j
      BY <2>1 DEF Turns, Ahead, Precedes
  <2>3. r # c
      BY ContextAssumption
  <2>4. CASE t # s
    <3>1. Place(r, t, i)' /\ \A j \in Nat : Place(d, t, j)' => i < j
        BY <1>3, <2>2, <2>4
    <3> QED BY <1>1, <2>1, <3>1 DEF Precedes
  <2>5. CASE t = s
    <3>1. i # 1 /\ i # 0
        BY <1>4, <2>2, <2>3, <2>5 DEF Place
    <3>2. i - 1 \in Nat /\ i - 1 # 0 /\ (i - 1) + 1 = i
        BY <3>1
    <3>3. Place(r, t, i - 1)'
        BY <1>3, <2>2, <2>5, <3>2
    <3>4. \A j \in Nat : Place(d, t, j)' => i - 1 < j
        BY <1>3, <2>2, <2>5, <3>2
    <3> QED BY <1>1, <2>1, <3>2, <3>3, <3>4 DEF Precedes
  <2> QED BY <2>4, <2>5
<1>10. Held'
  <2>1. \A r \in Runs : Unsettled(r) => phase'[runs[r].ctx] = phase[runs[r].ctx]
      BY <1>5, <1>8 DEF RunsTyped
  <2> QED BY <1>1, <2>1 DEF Turns, Held, Unsettled
<1> QED BY <1>6, <1>7, <1>9, <1>10 DEF Turns
------------------------------------------------------------------------------
(* The steps of the specification. *)

\* An issued run joins its queue, or was refused and leaves the context as it was.
LEMMA IssueKeepsTurns ==
    ASSUME IInv, Turns, NEW r \in Runs, Issue(r)
    PROVE  Turns'
<1>1. RunsTyped /\ RunsExist /\ QueueTypes /\ RunTypes
    BY TypedRuns DEF IInv, TypeOK, Lease
<1>2. UNCHANGED <<phase, lender>>
    BY RunsLeaveLives
<1>3. PICK c \in Contexts, query \in QueryLengths, scope \in Scopes, tag \in Tags \cup {NoTag} :
          \/ \E mode \in {"immediate", "deferred"} : IssuePlain(r, c, query, mode, scope, tag)
          \/ IssueChained(r, c, query, scope, tag)
          \/ RefuseChained(r, c, query)
    BY DEF Issue
<1>4. \A x \in Runs : Unsettled(x) /\ runs[x].kind = "batch" => runKind[runs[x].ctx] = "batch"
    BY DEF Turns, Held
<1>5. ASSUME NEW mode \in {"immediate", "deferred"}, IssuePlain(r, c, query, mode, scope, tag)
      PROVE  Turns'
  <2>1. /\ runs[r].stage = "idle" /\ phase[c] = "open"
        /\ runKind[c] = "none" /\ runKind[Owner(c)] = "none"
        /\ runKind' = [x \in Contexts |-> IF x \in {c, Owner(c)} THEN scope ELSE runKind[x]]
      BY <1>5 DEF IssuePlain, Quiescent, Usable, Owner
  <2>2. /\ queue' = [queue EXCEPT ![SessionOf(c)] = Append(@, r)]
        /\ runs'[r].ctx = c /\ runs'[r].kind = scope
        /\ \A x \in Runs \ {r} : runs'[x] = runs[x]
      BY <1>1, <1>5 DEF IssuePlain, Accept, RunTypes
  <2>3. \A x \in Runs : Unsettled(x) /\ runs[x].kind = "batch" =>
            runKind'[runs[x].ctx] = "batch"
      BY <1>1, <1>4, <2>1 DEF RunsTyped
  <2> QED BY <1>1, <1>2, <2>1, <2>2, <2>3, AcceptKeepsTurns
<1>6. ASSUME IssueChained(r, c, query, scope, tag)
      PROVE  Turns'
  <2>1. /\ runs[r].stage = "idle" /\ phase[c] = "open"
        /\ runKind[c] = "none" \/ scope = "batch"
        /\ runKind' = [runKind EXCEPT ![c] = scope]
      BY <1>6 DEF IssueChained, CanReserve, Usable
  <2>2. /\ queue' = [queue EXCEPT ![SessionOf(c)] = Append(@, r)]
        /\ runs'[r].ctx = c /\ runs'[r].kind = scope
        /\ \A x \in Runs \ {r} : runs'[x] = runs[x]
      BY <1>1, <1>6 DEF IssueChained, Accept, RunTypes
  <2>3. runKind'[c] = scope /\ \A d \in Contexts \ {c} : runKind'[d] = runKind[d]
      BY <1>1, <2>1 DEF RunTypes
  <2>4. \A x \in Runs : Unsettled(x) /\ runs[x].kind = "batch" =>
            runKind'[runs[x].ctx] = "batch"
      BY <1>1, <1>4, <2>1, <2>3 DEF RunsTyped
  <2> QED BY <1>1, <1>2, <2>1, <2>2, <2>3, <2>4, AcceptKeepsTurns
<1>7. ASSUME RefuseChained(r, c, query)
      PROVE  Turns'
  <2> DEFINE start == ChainStart(c)
             after == Return(Reserve(chain[c], r, start, query, "batch"), r, start, query)
  <2>1. runKind' = [runKind EXCEPT ![c] = IF after = NoChain THEN "none" ELSE "batch"]
      BY <1>7 DEF RefuseChained
  <2>2. /\ runs[r].stage = "idle" /\ UNCHANGED <<runs, queue>>
        /\ runKind[c] = "none" \/ chain[c] # NoChain
      BY <1>7 DEF RefuseChained, CanReserve
  <2>3. runKind[c] # "none" => after # NoChain
    <3> SUFFICES ASSUME chain[c] # NoChain PROVE after # NoChain
        BY <2>2
    <3>1. chain[c].runs # {} /\ r \notin chain[c].runs
        BY <2>2 DEF IInv, Lease, ChainsHold, LeasePoints, Unsettled
    <3>2. after.runs = chain[c].runs
        BY <3>1 DEF Return, Reserve
    <3> HIDE DEF after
    <3> QED BY <3>1, <3>2 DEF NoChain
  <2>4. \A x \in Runs : Unsettled(x) /\ runs[x].kind = "batch" =>
            runKind'[runs[x].ctx] = runKind[runs[x].ctx]
      BY <1>1, <1>4, <2>1, <2>3 DEF RunTypes, RunsTyped
  <2> QED BY <1>1, <1>2, <2>2, <2>4, TurnsUnchanged DEF Unsettled
<1> QED BY <1>3, <1>5, <1>6, <1>7

\* The end of a body: a run of its own keeps its place, an enqueue gives it up.
LEMMA EndBodyKeepsTurns ==
    ASSUME IInv, Turns, NEW r \in Runs, NEW ok \in BOOLEAN, NEW wrote \in BOOLEAN,
           Unsettled(r), AtHead(r, SessionOf(runs[r].ctx)), EndBody(r, ok, wrote),
           UNCHANGED <<phase, lender, runKind>>
    PROVE  Turns'
<1>1. RunsTyped /\ RunsExist /\ QueueTypes /\ RunTypes
    BY TypedRuns DEF IInv, TypeOK, Lease
<1>2. /\ runs'[r].ctx = runs[r].ctx /\ runs'[r].kind = runs[r].kind
      /\ \A x \in Runs \ {r} : runs'[x] = runs[x]
    BY <1>1 DEF EndBody, RunTypes, Run
<1>3. CASE runs[r].kind = "run"
    BY <1>1, <1>2, <1>3, TurnsUnchanged DEF EndBody, Unsettled
<1>4. CASE runs[r].kind = "batch"
  <2>1. Dequeue(SessionOf(runs[r].ctx))
      BY <1>4 DEF EndBody
  <2> QED BY <1>1, <1>2, <1>4, <2>1, LeaveKeepsTurns
<1> QED BY <1>1, <1>3, <1>4 DEF RunsTyped

\* The steps of an accepted run.
LEMMA RunKeepsTurns ==
    ASSUME IInv, Turns, NEW r \in Runs, RunStep(r)
    PROVE  Turns'
<1>1. RunsTyped /\ RunsExist /\ QueueTypes /\ RunTypes
    BY TypedRuns DEF IInv, TypeOK, Lease
<1>2. UNCHANGED <<phase, lender>>
    BY RunsLeaveLives
<1>3. CASE StartBody(r)
  <2>1. Unsettled(r) /\ AtHead(r, SessionOf(runs[r].ctx)) /\ UNCHANGED runKind
      BY <1>3 DEF StartBody, Unsettled
  <2>2. CASE EndBody(r, FALSE, FALSE)
      BY <1>2, <2>1, <2>2, EndBodyKeepsTurns
  <2>3. ASSUME ~EndBody(r, FALSE, FALSE) PROVE Turns'
    <3>1. /\ UNCHANGED queue
          /\ \E start : runs' = [runs EXCEPT ![r] =
                                  [@ EXCEPT !.stage = "started", !.start = start]]
        BY <1>3, <2>3 DEF StartBody
    <3>2. /\ runs'[r].ctx = runs[r].ctx /\ runs'[r].kind = runs[r].kind
          /\ \A x \in Runs \ {r} : runs'[x] = runs[x]
        BY <1>1, <3>1 DEF RunTypes, Run
    <3> QED BY <1>1, <1>2, <2>1, <3>1, <3>2, TurnsUnchanged DEF Unsettled
  <2> QED BY <2>2, <2>3
<1>4. CASE WriteBody(r) \/ DropBody(r) \/ BreakBody(r)
  <2>1. runs[r].stage = "started" /\ AtHead(r, SessionOf(runs[r].ctx)) /\ UNCHANGED runKind
      BY <1>4 DEF WriteBody, DropBody, BreakBody, IInv, Heads, OnTop
  <2>2. \E ok, wrote \in BOOLEAN : EndBody(r, ok, wrote)
      BY <1>4 DEF WriteBody, DropBody, BreakBody
  <2> QED BY <1>2, <2>1, <2>2, EndBodyKeepsTurns DEF Unsettled
<1>5. CASE SettleRun(r)
  <2>1. /\ Unsettled(r) /\ UNCHANGED <<queue, runKind>>
        /\ runs' = [runs EXCEPT ![r].stage = "settled"]
      BY <1>5 DEF SettleRun, Unsettled
  <2>2. /\ runs'[r].ctx = runs[r].ctx /\ runs'[r].kind = runs[r].kind
        /\ \A x \in Runs \ {r} : runs'[x] = runs[x]
      BY <1>1, <2>1 DEF RunTypes, Run
  <2> QED BY <1>1, <1>2, <2>1, <2>2, TurnsUnchanged DEF Unsettled
<1>6. CASE ReleaseRun(r)
  <2>1. PICK c \in Contexts : c = runs[r].ctx
      BY <1>1 DEF RunsTyped
  <2>2. /\ runs[r].stage = "settled" /\ runs' = [runs EXCEPT ![r] = IdleRun]
        /\ Dequeue(SessionOf(runs[r].ctx))
      BY <1>6 DEF ReleaseRun
  <2>3. Unsettled(r) /\ runs[r].kind = "run" /\ AtHead(r, SessionOf(runs[r].ctx))
      BY <2>2 DEF IInv, Lease, ChainsHold, Heads, OnTop, Unsettled
  <2>4. ~Unsettled(r)' /\ \A x \in Runs \ {r} : runs'[x] = runs[x]
      BY <1>1, <2>2 DEF Unsettled, IdleRun, RunTypes
  <2>5. ASSUME NEW x \in Runs \ {r}, Unsettled(x), runs[x].kind = "batch"
        PROVE  runKind'[runs[x].ctx] = runKind[runs[x].ctx]
    <3>1. Owner(runs[x].ctx) # Owner(c)
        BY <2>1, <2>3, <2>5 DEF IInv, Lease, RunsExclude
    <3>2. Owner(Owner(c)) = Owner(c)
        BY DEF IInv, Borrowing, Owner, IsBorrowing
    <3>3. runs[x].ctx \notin {c, Owner(c)} /\ runs[x].ctx \in Contexts
        BY <1>1, <3>1, <3>2 DEF RunsTyped
    <3> QED BY <1>6, <2>1, <3>3 DEF ReleaseRun
  <2>6. \A x \in Runs : Unsettled(x)' /\ runs'[x].kind = "batch" =>
            runKind'[runs[x].ctx] = runKind[runs[x].ctx]
      BY <2>4, <2>5 DEF Unsettled
  <2> QED BY <1>1, <1>2, <2>2, <2>3, <2>4, <2>6, LeaveKeepsTurns
<1> QED BY <1>3, <1>4, <1>5, <1>6 DEF RunStep

\* The steps of a context's life.
LEMMA LifeKeepsTurns ==
    ASSUME IInv, Turns, NEW c \in Contexts, ContextStep(c)
    PROVE  Turns'
<1>1. RunsTyped /\ RunsExist /\ QueueTypes /\ ContextTypes /\ Lease /\ Heads
    BY TypedRuns DEF IInv, TypeOK, Lease
<1>2. ASSUME UNCHANGED <<queue, runs, runKind>>,
             \A d \in Contexts : phase[d] \notin {"absent", "allocating"} =>
                 lender'[d] = lender[d],
             \A d \in Contexts : phase[d] \in {"closing", "disposed"} =>
                 phase'[d] \in {"closing", "disposed"},
             \A r \in Runs : Unsettled(r) => phase'[runs[r].ctx] = phase[runs[r].ctx]
      PROVE  Turns'
    BY <1>1, <1>2, TurnsUnchanged DEF Unsettled
<1>3. ASSUME NEW n \in Nat, Commit(c, n) \/ Rewind(c, n) PROVE Turns'
    BY <1>2, <1>3 DEF Commit, Rewind
<1>4. ASSUME NEW d \in Contexts, Borrow(c, d) \/ Fork(c, d) PROVE Turns'
  <2>1. /\ UNCHANGED <<queue, runs, runKind>>
        /\ phase[d] = "absent" /\ phase' = [phase EXCEPT ![d] = "allocating"]
        /\ lender' = lender \/ lender' = [lender EXCEPT ![d] = c]
      BY <1>4 DEF Borrow, Fork
  <2>2. \A x \in Contexts \ {d} : phase'[x] = phase[x] /\ lender'[x] = lender[x]
      BY <1>1, <2>1 DEF ContextTypes
  <2> QED BY <1>1, <1>2, <2>1, <2>2 DEF RunsExist, RunsTyped
<1>5. CASE RegisterBorrower(c) \/ AdoptFork(c)
  <2>1. /\ UNCHANGED <<queue, runs, runKind, lender>> /\ phase[c] = "allocating"
        /\ \E p : phase' = [phase EXCEPT ![c] = p]
      BY <1>5 DEF RegisterBorrower, AdoptFork
  <2>2. \A x \in Contexts \ {c} : phase'[x] = phase[x]
      BY <1>1, <2>1 DEF ContextTypes
  <2> QED BY <1>1, <1>2, <2>1, <2>2 DEF RunsExist, RunsTyped
<1>6. CASE StartDisposal(c)
  <2>1. /\ UNCHANGED <<queue, runs, runKind, lender>> /\ phase[c] = "closing"
        /\ AtHead(c, SessionOf(c)) /\ phase' = [phase EXCEPT ![c] = "disposed"]
      BY <1>6 DEF StartDisposal
  <2>2. phase'[c] = "disposed" /\ \A x \in Contexts \ {c} : phase'[x] = phase[x]
      BY <1>1, <2>1 DEF ContextTypes
  <2>3. \A r \in Runs : Unsettled(r) => runs[r].ctx # c
      BY <1>1, <2>1, NoRunAtDisposal
  <2> QED BY <1>1, <1>2, <2>1, <2>2, <2>3 DEF RunsTyped
<1>7. CASE Dispose(c)
    BY <1>1, <1>7, DisposeKeepsTurns
<1>8. CASE FinishDisposal(c)
    BY <1>1, <1>8, FinishKeepsTurns
<1> QED BY <1>3, <1>4, <1>5, <1>6, <1>7, <1>8, LifeKinds

\* Every step keeps the turns.
LEMMA TurnsStep == ASSUME IInv, Turns, [Next]_vars PROVE Turns'
<1>1. RunsTyped /\ RunsExist
    BY TypedRuns DEF IInv, TypeOK, Lease
<1>2. CASE SettleBatch
  <2>1. /\ UNCHANGED <<phase, lender, queue>>
        /\ runs' = [r \in Runs |-> IF r \in BatchRuns THEN IdleRun ELSE runs[r]]
      BY <1>2 DEF SettleBatch
  <2>2. \A r \in Runs : Unsettled(r)' =>
            Unsettled(r) /\ runs'[r] = runs[r] /\ runs[r].kind # "batch"
      BY <2>1 DEF Unsettled, IdleRun, BatchRuns
  <2> QED BY <1>1, <2>1, <2>2, TurnsUnchanged
<1>3. CASE BeginBatch \/ FinishBatch \/ DeviceLoss \/ UNCHANGED vars
  <2>1. UNCHANGED <<phase, lender, queue, runs, runKind>>
      BY <1>3 DEF BeginBatch, FinishBatch, DeviceLoss, contextVars, vars
  <2> QED BY <1>1, <2>1, TurnsUnchanged DEF Unsettled
<1> QED BY <1>2, <1>3, IssueKeepsTurns, RunKeepsTurns, LifeKeepsTurns DEF Next

\* Initially nothing is queued and nothing is under way.
LEMMA InitTurns == Init => Turns
<1> SUFFICES ASSUME Init PROVE Turns
    OBVIOUS
<1>1. \A x : \A s \in Sessions, i \in Nat : ~Place(x, s, i)
    BY DEF Init, Place
<1>2. \A r \in Runs : ~Unsettled(r)
    BY DEF Init, Unsettled, IdleRun
<1> QED BY <1>1, <1>2 DEF Turns, Once, Closing, Ahead, Held

\* While an accepted run is unsettled, its context and the owner of the slots it
\* reads have not started their disposal: the serialisation chain of the Session
\* and the refusal to dispose a context a batch holds are enough for that.
THEOREM DisposalWaits == Spec => []DisposalWaitsForRuns
<1>1. Init => IInv /\ Turns
    BY InitIInv, InitTurns
<1>2. (IInv /\ Turns) /\ [Next]_vars => (IInv /\ Turns)'
    BY IInvStep, TurnsStep
<1>3. IInv /\ Turns => DisposalWaitsForRuns
  <2> SUFFICES ASSUME IInv, Turns, NEW r \in Runs, Unsettled(r)
               PROVE  /\ phase[runs[r].ctx] \in {"open", "closing"}
                      /\ phase[Owner(runs[r].ctx)] \in {"open", "closing"}
      BY DEF DisposalWaitsForRuns, Unsettled
  <2>1. phase[runs[r].ctx] \in {"open", "closing"} /\ runs[r].ctx \in Contexts
      BY TypedRuns DEF Turns, Held, IInv, TypeOK, RunsTyped
  <2> QED BY <2>1 DEF IInv, Borrowing, Owner, IsBorrowing
<1> QED BY <1>1, <1>2, <1>3, PTL DEF Spec
------------------------------------------------------------------------------
(* The captured length: inductive on IInv as it stands. *)

\* A run between the read of the logical length and its settlement.
Captured(r) == runs[r].stage \in {"started", "written"} /\ runs[r].mode # "chained"

\* A step keeps the captured lengths if it lets go of a captured run, or keeps
\* the run, its owner and both lengths.
LEMMA CapturedKept ==
    ASSUME CapturedLengthHolds,
           \A r \in Runs : Captured(r)' =>
               /\ Captured(r)
               /\ runs'[r].ctx = runs[r].ctx /\ runs'[r].start = runs[r].start
               /\ Owner(runs[r].ctx)' = Owner(runs[r].ctx)
               /\ pastLength'[runs[r].ctx] = pastLength[runs[r].ctx]
               /\ pastLength'[Owner(runs[r].ctx)] = pastLength[Owner(runs[r].ctx)]
    PROVE  CapturedLengthHolds'
<1> SUFFICES ASSUME NEW r \in Runs, Captured(r)'
             PROVE  /\ runs'[r].start = pastLength'[runs'[r].ctx]
                    /\ runs'[r].start = pastLength'[Owner(runs[r].ctx)']
    BY DEF CapturedLengthHolds, Captured, Owner, IsBorrowing
<1> QED BY DEF CapturedLengthHolds, Captured

\* No other run captured a length of the owner of an unsettled run, unless both
\* are chained.
LEMMA AloneWithOwner ==
    ASSUME IInv, NEW r \in Runs, Unsettled(r), NEW x \in Runs \ {r}, Captured(x)
    PROVE  Owner(runs[x].ctx) # Owner(runs[r].ctx)
BY DEF IInv, Lease, RunsExclude, Captured, Unsettled

\* The steps of an accepted run: only its own start captures, and no other run's
\* capture depends on the length it moves.
LEMMA RunKeepsCaptured ==
    ASSUME IInv, CapturedLengthHolds, NEW r \in Runs, RunStep(r)
    PROVE  CapturedLengthHolds'
<1>1. RunTypes /\ LengthTypes /\ RunsTyped
    BY TypedRuns DEF IInv, TypeOK
<1>2. PICK c \in Contexts : c = runs[r].ctx
    BY <1>1 DEF RunsTyped
<1>3. UNCHANGED <<phase, lender>> /\ \A d \in Contexts : Owner(d)' = Owner(d)
    BY RunsLeaveLives DEF Owner, IsBorrowing
<1>4. Unsettled(r)
    BY DEF RunStep, StartBody, WriteBody, DropBody, BreakBody, SettleRun, ReleaseRun, Unsettled
<1>5. Owner(Owner(c)) = Owner(c) /\ Owner(c) \in Contexts
    BY DEF IInv, TypeOK, ContextTypes, Borrowing, Owner, IsBorrowing
<1>6. \A x \in Runs \ {r} : Captured(x) =>
          /\ runs[x].ctx \in Contexts /\ runs[x].ctx # c
          /\ runs[x].ctx # Owner(c) /\ Owner(runs[x].ctx) # Owner(c)
    BY <1>1, <1>2, <1>4, <1>5, AloneWithOwner DEF RunsTyped
<1>7. ASSUME UNCHANGED pastLength, \A x \in Runs \ {r} : runs'[x] = runs[x],
             Captured(r)' => Captured(r) /\ runs'[r].ctx = runs[r].ctx
                                /\ runs'[r].start = runs[r].start
      PROVE  CapturedLengthHolds'
    BY <1>1, <1>3, <1>7, CapturedKept DEF Captured, RunsTyped
<1>8. ASSUME NEW ok \in BOOLEAN, NEW wrote \in BOOLEAN, EndBody(r, ok, wrote),
             ok => runs[r].stage = "started", UNCHANGED pastLength
      PROVE  CapturedLengthHolds'
  <2>1. /\ runs'[r] = [runs[r] EXCEPT !.stage = IF ok THEN "written" ELSE "failed", !.wrote = wrote]
        /\ \A x \in Runs \ {r} : runs'[x] = runs[x]
      BY <1>1, <1>8 DEF EndBody, RunTypes
  <2> QED BY <1>1, <1>7, <1>8, <2>1 DEF Captured, RunTypes, Run
<1>9. CASE StartBody(r)
  <2>1. CASE EndBody(r, FALSE, FALSE) /\ UNCHANGED pastLength
      BY <1>8, <2>1
  <2>2. ASSUME ~(EndBody(r, FALSE, FALSE) /\ UNCHANGED pastLength)
        PROVE  CapturedLengthHolds'
    <3>1. /\ runs' = [runs EXCEPT ![r] =
                        [@ EXCEPT !.stage = "started",
                                  !.start = IF runs[r].mode = "chained" THEN runs[r].start
                                            ELSE pastLength[Owner(c)]]]
          /\ pastLength' = [pastLength EXCEPT ![c] = pastLength[Owner(c)]]
        BY <1>2, <1>9, <2>2 DEF StartBody
    <3>2. /\ runs'[r].ctx = c /\ runs'[r].mode = runs[r].mode
          /\ runs[r].mode # "chained" => runs'[r].start = pastLength[Owner(c)]
          /\ \A x \in Runs \ {r} : runs'[x] = runs[x]
        BY <1>1, <1>2, <3>1 DEF RunTypes, Run
    <3>3. /\ pastLength'[c] = pastLength[Owner(c)]
          /\ pastLength'[Owner(c)] = pastLength[Owner(c)]
          /\ \A d \in Contexts \ {c} : pastLength'[d] = pastLength[d]
        BY <1>1, <1>5, <3>1 DEF LengthTypes
    <3>4. Captured(r)' => /\ runs'[r].start = pastLength'[runs'[r].ctx]
                          /\ runs'[r].start = pastLength'[Owner(c)']
        BY <1>3, <3>2, <3>3 DEF Captured
    <3>5. ASSUME NEW x \in Runs \ {r}, Captured(x)'
          PROVE  /\ runs'[x].start = pastLength'[runs'[x].ctx]
                 /\ runs'[x].start = pastLength'[Owner(runs[x].ctx)']
      <4>1. Captured(x) /\ runs'[x] = runs[x]
          BY <3>2, <3>5 DEF Captured
      <4>2. runs[x].start = pastLength[runs[x].ctx] /\ runs[x].start = pastLength[Owner(runs[x].ctx)]
          BY <4>1 DEF CapturedLengthHolds, Captured
      <4>3. Owner(runs[x].ctx) # c /\ Owner(runs[x].ctx) \in Contexts
          BY <1>5, <1>6, <4>1 DEF IInv, TypeOK, ContextTypes, Borrowing, Owner, IsBorrowing
      <4> QED BY <1>3, <1>6, <3>3, <4>1, <4>2, <4>3
    <3> QED BY <1>2, <3>2, <3>4, <3>5 DEF CapturedLengthHolds, Captured, Owner, IsBorrowing
  <2> QED BY <2>1, <2>2
<1>10. CASE WriteBody(r) \/ DropBody(r) \/ BreakBody(r)
  <2>1. \E ok, wrote \in BOOLEAN : EndBody(r, ok, wrote)
      BY <1>10 DEF WriteBody, DropBody, BreakBody
  <2>2. runs[r].stage = "started" /\ UNCHANGED pastLength
      BY <1>10 DEF WriteBody, DropBody, BreakBody
  <2> QED BY <1>8, <2>1, <2>2
<1>11. CASE SettleRun(r)
  <2>1. /\ runs' = [runs EXCEPT ![r].stage = "settled"]
        /\ pastLength' = pastLength
             \/ pastLength' = [pastLength EXCEPT ![c] = NextPastLength(c, {r})]
      BY <1>2, <1>11 DEF SettleRun
  <2>2. ~Captured(r)' /\ \A x \in Runs \ {r} : runs'[x] = runs[x]
      BY <1>1, <2>1 DEF Captured, RunTypes, Run
  <2>3. \A d \in Contexts \ {c} : pastLength'[d] = pastLength[d]
      BY <1>1, <2>1 DEF LengthTypes
  <2>4. pastLength'[c] # pastLength[c] => Owner(c) = c
      BY <1>1, <2>1 DEF LengthTypes, NextPastLength, Advances, Owner
  <2>5. \A x \in Runs \ {r} : Captured(x) =>
            /\ pastLength'[runs[x].ctx] = pastLength[runs[x].ctx]
            /\ pastLength'[Owner(runs[x].ctx)] = pastLength[Owner(runs[x].ctx)]
    <3> SUFFICES ASSUME NEW x \in Runs \ {r}, Captured(x)
                 PROVE  /\ pastLength'[runs[x].ctx] = pastLength[runs[x].ctx]
                        /\ pastLength'[Owner(runs[x].ctx)] = pastLength[Owner(runs[x].ctx)]
        OBVIOUS
    <3>1. Owner(runs[x].ctx) \in Contexts
        BY <1>6 DEF IInv, TypeOK, ContextTypes, Owner, IsBorrowing
    <3> QED BY <1>6, <2>3, <2>4, <3>1
  <2> QED BY <1>1, <1>3, <2>2, <2>5, CapturedKept DEF Captured, RunsTyped
<1>12. CASE ReleaseRun(r)
  <2>1. runs' = [runs EXCEPT ![r] = IdleRun] /\ UNCHANGED pastLength
      BY <1>12 DEF ReleaseRun
  <2>2. ~Captured(r)' /\ \A x \in Runs \ {r} : runs'[x] = runs[x]
      BY <1>1, <2>1 DEF Captured, IdleRun, RunTypes
  <2> QED BY <1>7, <2>1, <2>2
<1> QED BY <1>9, <1>10, <1>11, <1>12 DEF RunStep

\* A commit, a rewind and a fork move no length a run captured: the first two
\* need a context that no run holds, the third writes to a context not yet opened.
LEMMA LifeKeepsCaptured ==
    ASSUME IInv, CapturedLengthHolds, NEW c \in Contexts, ContextStep(c)
    PROVE  CapturedLengthHolds'
<1>1. RunsTyped /\ RunsExist /\ ContextTypes /\ LengthTypes
    BY TypedRuns DEF IInv, TypeOK, Lease
<1>2. \A r \in Runs : Captured(r) =>
          /\ runs[r].ctx \in Contexts /\ Owner(runs[r].ctx) \in Contexts
          /\ phase[runs[r].ctx] # "absent" /\ phase[Owner(runs[r].ctx)] # "absent"
    BY <1>1 DEF RunsTyped, RunsExist, ContextTypes, IInv, Borrowing, Owner, IsBorrowing,
                Captured, Unsettled
<1>3. ASSUME NEW n \in Nat, Commit(c, n) \/ Rewind(c, n) PROVE CapturedLengthHolds'
  <2>1. /\ runKind[c] = "none" /\ UNCHANGED <<runs, lender>>
        /\ \E end : pastLength' = [pastLength EXCEPT ![c] = end]
      BY <1>3 DEF Commit, Rewind, Quiescent
  <2>2. \A d \in Contexts \ {c} : pastLength'[d] = pastLength[d]
      BY <1>1, <2>1 DEF LengthTypes
  <2>3. \A r \in Runs : Captured(r) => runs[r].ctx # c /\ Owner(runs[r].ctx) # c
      BY <2>1 DEF IInv, Lease, LeasePoints, HoldsLease, Captured, Unsettled
  <2> QED BY <1>2, <2>1, <2>2, <2>3, CapturedKept DEF Captured, Owner, IsBorrowing
<1>4. ASSUME NEW d \in Contexts, Borrow(c, d) \/ Fork(c, d) PROVE CapturedLengthHolds'
  <2>1. /\ UNCHANGED runs /\ phase[d] = "absent"
        /\ lender' = lender \/ lender' = [lender EXCEPT ![d] = c]
        /\ pastLength' = pastLength \/ pastLength' = [pastLength EXCEPT ![d] = pastLength[c]]
      BY <1>4 DEF Borrow, Fork
  <2>2. \A x \in Contexts \ {d} : lender'[x] = lender[x] /\ pastLength'[x] = pastLength[x]
      BY <1>1, <2>1 DEF ContextTypes, LengthTypes
  <2>3. \A r \in Runs : Captured(r) => runs[r].ctx # d /\ Owner(runs[r].ctx) # d
      BY <1>2, <2>1
  <2> QED BY <1>2, <2>1, <2>2, <2>3, CapturedKept DEF Captured, Owner, IsBorrowing
<1>5. CASE \/ RegisterBorrower(c) \/ AdoptFork(c)
           \/ Dispose(c) \/ StartDisposal(c) \/ FinishDisposal(c)
  <2>1. UNCHANGED <<runs, lender, pastLength>>
      BY <1>5 DEF RegisterBorrower, AdoptFork, Dispose, StartDisposal, FinishDisposal
  <2> QED BY <2>1 DEF CapturedLengthHolds, Owner, IsBorrowing
<1> QED BY <1>3, <1>4, <1>5, LifeKinds

\* Every step keeps the captured lengths.
LEMMA CapturedStep ==
    ASSUME IInv, CapturedLengthHolds, [Next]_vars
    PROVE  CapturedLengthHolds'
<1>1. RunTypes /\ LengthTypes /\ ContextTypes /\ RunsTyped
    BY TypedRuns DEF IInv, TypeOK
<1>2. ASSUME NEW r \in Runs, Issue(r) PROVE CapturedLengthHolds'
  <2>1. UNCHANGED <<pastLength, lender>>
      BY <1>2 DEF Issue, IssuePlain, IssueChained, RefuseChained, Accept
  <2>2. \A x \in Runs : Captured(x)' => runs'[x] = runs[x]
    <3>1. \/ UNCHANGED runs
          \/ \E c, query, scope, tag, mode, start : Accept(r, c, query, mode, scope, start, tag)
        BY <1>2 DEF Issue, IssuePlain, IssueChained, RefuseChained
    <3> QED BY <1>1, <3>1 DEF Accept, Captured, RunTypes
  <2> QED BY <2>1, <2>2, CapturedKept DEF Captured, Owner, IsBorrowing
<1>3. CASE SettleBatch
  <2>0. PICK R \in SUBSET BatchRuns :
           pastLength' = [c \in Contexts |-> NextPastLength(c, R \cap RunsOf(c))]
      BY <1>3 DEF SettleBatch
  <2>1. /\ UNCHANGED lender
        /\ runs' = [r \in Runs |-> IF r \in BatchRuns THEN IdleRun ELSE runs[r]]
      BY <1>3 DEF SettleBatch
  <2>2. \A x \in Runs : Captured(x)' =>
            Captured(x) /\ runs'[x] = runs[x] /\ runs[x].kind # "batch"
      BY <2>1 DEF Captured, IdleRun, BatchRuns
  <2>3. ASSUME NEW x \in Runs, Captured(x), runs[x].kind # "batch",
               NEW c \in Contexts, Owner(runs[x].ctx) = c \/ runs[x].ctx = c
        PROVE  pastLength'[c] = pastLength[c]
    <3> SUFFICES ASSUME pastLength'[c] # pastLength[c] PROVE FALSE
        OBVIOUS
    <3>1. Advances(c, R \cap RunsOf(c))
        BY <1>1, <2>0 DEF NextPastLength, LengthTypes
    <3>2. PICK r \in BatchRuns \cap RunsOf(c) : Owner(c) = c
        BY <3>1 DEF Advances, Owner
    <3>3. r \in Runs /\ r # x /\ Unsettled(r) /\ Owner(runs[r].ctx) = c
        BY <2>3, <3>2 DEF BatchRuns, RunsOf, Unsettled
    <3> QED BY <2>3, <3>2, <3>3, AloneWithOwner
  <2>4. \A x \in Runs : Owner(runs[x].ctx) \in Contexts /\ runs[x].ctx \in Contexts
      BY <1>1 DEF RunsTyped, ContextTypes, Owner, IsBorrowing
  <2> QED BY <2>1, <2>2, <2>3, <2>4, CapturedKept DEF Captured, Owner, IsBorrowing
<1>4. CASE BeginBatch \/ FinishBatch \/ DeviceLoss \/ UNCHANGED vars
  <2>1. UNCHANGED <<runs, lender, pastLength>>
      BY <1>4 DEF BeginBatch, FinishBatch, DeviceLoss, contextVars, vars
  <2> QED BY <2>1 DEF CapturedLengthHolds, Owner, IsBorrowing
<1> QED BY <1>2, <1>3, <1>4, RunKeepsCaptured, LifeKeepsCaptured DEF Next

\* The logical length does not move under a run that captured it: commit, rewind,
\* fork and the settlements of other runs all stay out while its lease stands, so
\* assertCapturedPast never fires.
THEOREM CapturedHolds == Spec => []CapturedLengthHolds
<1>1. Init => IInv /\ CapturedLengthHolds
    BY InitIInv DEF Init, CapturedLengthHolds, IdleRun
<1>2. (IInv /\ CapturedLengthHolds) /\ [Next]_vars => (IInv /\ CapturedLengthHolds)'
    BY IInvStep, CapturedStep
<1> QED BY <1>1, <1>2, PTL DEF Spec
------------------------------------------------------------------------------
(* The tiling of a chain: inductive on IInv /\ Turns. *)

\* The runs of a chain that have still to settle.
Members(c) == {r \in chain[c].runs : runs[r].stage # "settled"}

\* ChainTilesRange, and no member ends past the position of the next reservation.
Tiled(c) ==
    /\ ContinueRange(c, Members(c))
    /\ \A r, x \in Members(c) :
          r # x => RunEnd(r) <= runs[x].start \/ RunEnd(x) <= runs[r].start
    /\ \E r \in Members(c) : RunEnd(r) = chain[c].end
    /\ \A r \in Members(c) : RunEnd(r) <= chain[c].end

Tiling == \A c \in Contexts : Members(c) # {} => Tiled(c)

\* What the tiling of one context depends on.
SameTiles(c) ==
    /\ Members(c)' = Members(c)
    /\ \A r \in Members(c) : runs'[r].start = runs[r].start /\ runs'[r].query = runs[r].query
    /\ chain'[c].end = chain[c].end
    /\ pastLength'[c] = pastLength[c] /\ pending'[c] = pending[c]

\* A context keeps its tiling while none of that changes.
LEMMA TiledKept ==
    ASSUME NEW c \in Contexts, SameTiles(c), Tiled(c)
    PROVE  Tiled(c)'
<1>1. UncommittedEnd(c)' = UncommittedEnd(c)
    BY DEF SameTiles, UncommittedEnd, AwaitsCommit
<1>2. \A r \in Members(c) : RunEnd(r)' = RunEnd(r)
    BY DEF SameTiles, RunEnd
<1> QED BY <1>1, <1>2 DEF SameTiles, Tiled, ContinueRange

\* Members are accepted chained runs of their context.
LEMMA MembersHold ==
    ASSUME IInv, NEW c \in Contexts, NEW r \in Members(c)
    PROVE  /\ r \in Runs /\ r \in chain[c].runs /\ Unsettled(r)
           /\ runs[r].ctx = c /\ runs[r].mode = "chained"
           /\ Owner(runs[r].ctx) = c /\ HoldsLease(r, c)
<1>1. r \in Runs /\ r \in chain[c].runs
    BY DEF Members, IInv, TypeOK, RunTypes
<1>2. Unsettled(r) /\ runs[r].ctx = c /\ runs[r].mode = "chained"
    BY <1>1 DEF IInv, Lease, LeasePoints
<1> QED BY <1>1, <1>2 DEF IInv, Lease, ChainsHold, Owner, HoldsLease

\* A run that settles alone is the last of its context.
LEMMA NoOtherMember ==
    ASSUME IInv, NEW r \in Runs, Unsettled(r), runs[r].kind = "run"
    PROVE  \A x \in Members(runs[r].ctx) : x = r
<1> SUFFICES ASSUME NEW x \in Members(runs[r].ctx), x # r PROVE FALSE
    OBVIOUS
<1>1. runs[r].ctx \in Contexts
    BY TypedRuns DEF IInv, TypeOK, RunsTyped
<1>2. x \in Runs /\ Unsettled(x) /\ Owner(runs[x].ctx) = Owner(runs[r].ctx)
    BY <1>1, MembersHold
<1> QED BY <1>2 DEF IInv, Lease, RunsExclude

\* A chained run is placed at the end of the chain, or of the uncommitted range
\* where no chain is in flight.
LEMMA IssueKeepsTiling ==
    ASSUME IInv, Tiling, NEW r \in Runs, Issue(r)
    PROVE  Tiling'
<1>1. RunTypes /\ RunTypes'
    BY IInvStep DEF Next, IInv, TypeOK
<1>2. PICK c \in Contexts, query \in QueryLengths, scope \in Scopes, tag \in Tags \cup {NoTag} :
          \/ \E mode \in {"immediate", "deferred"} : IssuePlain(r, c, query, mode, scope, tag)
          \/ IssueChained(r, c, query, scope, tag)
          \/ RefuseChained(r, c, query)
    BY DEF Issue
<1>3. UNCHANGED <<pastLength, pending>> /\ runs[r].stage = "idle"
    BY <1>2 DEF IssuePlain, IssueChained, RefuseChained, Accept
<1>4. \A x \in Runs \ {r} : runs'[x] = runs[x]
    BY <1>1, <1>2 DEF IssuePlain, IssueChained, RefuseChained, Accept, RunTypes
<1>5. \A d \in Contexts : r \notin chain[d].runs /\ chain[d].runs \subseteq Runs
    BY <1>1, <1>3 DEF IInv, Lease, LeasePoints, Unsettled, RunTypes
<1>6. \A d \in Contexts : chain'[d] = chain[d] => SameTiles(d)
    BY <1>3, <1>4, <1>5 DEF SameTiles, Members
<1>7. ASSUME NEW mode \in {"immediate", "deferred"}, IssuePlain(r, c, query, mode, scope, tag)
      PROVE  Tiling'
    BY <1>6, <1>7, TiledKept DEF IssuePlain, Tiling, SameTiles
<1>8. ASSUME IssueChained(r, c, query, scope, tag) PROVE Tiling'
  <2>1. /\ chain' = [chain EXCEPT ![c] = Reserve(@, r, ChainStart(c), query, scope)]
        /\ runs' = [runs EXCEPT ![r] =
                      [stage |-> "queued", ctx |-> c, kind |-> scope, mode |-> "chained",
                       query |-> query, start |-> ChainStart(c), tag |-> tag, wrote |-> FALSE]]
      BY <1>8 DEF IssueChained, Accept
  <2>2. /\ chain'[c].runs = chain[c].runs \cup {r} /\ chain'[c].end = ChainStart(c) + query
        /\ \A d \in Contexts \ {c} : chain'[d] = chain[d]
      BY <1>1, <2>1 DEF RunTypes, Reserve
  <2>3. runs'[r].stage = "queued" /\ runs'[r].start = ChainStart(c) /\ runs'[r].query = query
      BY <1>1, <2>1 DEF RunTypes
  <2>4. Members(c)' = Members(c) \cup {r} /\ r \notin Members(c)
      BY <1>4, <1>5, <2>2, <2>3 DEF Members
  <2>5. /\ ChainStart(c) \in Nat /\ query \in Nat
        /\ \A x \in Runs : runs[x].start \in Nat /\ runs[x].query \in Nat
    <3>1. runs'[r] \in Run
        BY <1>1 DEF RunTypes
    <3> QED BY <1>1, <2>3, <3>1 DEF RunTypes, Run
  <2>6. UncommittedEnd(c)' = UncommittedEnd(c)
      BY <1>3 DEF UncommittedEnd, AwaitsCommit
  <2>7. RunEnd(r)' = ChainStart(c) + query /\ \A x \in Members(c) : RunEnd(x)' = RunEnd(x)
      BY <1>4, <1>5, <2>3 DEF RunEnd, Members
  <2>8. Members(c) = {} => ChainStart(c) = UncommittedEnd(c)
    <3> SUFFICES ASSUME Members(c) = {}, chain[c] # NoChain PROVE FALSE
        BY DEF ChainStart
    <3>1. PICK x \in chain[c].runs : TRUE
        BY DEF IInv, Lease, ChainsHold
    <3>2. x \in Runs /\ runs[x].stage = "settled" /\ runs[x].kind = chain[c].scope
        BY <1>5, <3>1 DEF Members, IInv, Lease, ChainsHold
    <3>3. Unsettled(x) /\ HoldsLease(x, c)
        BY <3>1, <3>2 DEF IInv, Lease, LeasePoints, HoldsLease
    <3>4. runKind[c] # "none"
        BY <3>2, <3>3 DEF IInv, Lease, LeasePoints
    <3>5. chain[c].scope = "batch"
        BY <1>8, <3>4 DEF IssueChained, CanReserve
    <3> QED BY <3>2, <3>5 DEF IInv, Lease, ChainsHold
  <2>9. Members(c) # {} => ChainStart(c) = chain[c].end
    <3> SUFFICES ASSUME Members(c) # {} PROVE chain[c] # NoChain
        BY DEF ChainStart
    <3> QED BY DEF Members, NoChain
  <2>10. Tiled(c)'
    <3>1. CASE Members(c) = {}
        BY <2>3, <2>4, <2>2, <2>5, <2>6, <2>7, <2>8, <3>1 DEF Tiled, ContinueRange
    <3>2. CASE Members(c) # {}
      <4>1. Tiled(c) /\ ChainStart(c) = chain[c].end
          BY <2>9, <3>2 DEF Tiling
      <4>2. \A x \in Members(c) : runs'[x] = runs[x] /\ x \in Runs
          BY <1>4, <1>5 DEF Members
      <4>3. ContinueRange(c, Members(c))'
          BY <2>3, <2>4, <2>6, <2>7, <4>1, <4>2 DEF Tiled, ContinueRange
      <4>4. \A x \in Members(c) : RunEnd(x) \in Nat /\ RunEnd(x) <= ChainStart(c)
          BY <2>5, <4>1, <4>2 DEF Tiled, RunEnd
      <4>5. \A x, y \in Members(c)' :
                x # y => RunEnd(x)' <= runs'[y].start \/ RunEnd(y)' <= runs'[x].start
          BY <2>3, <2>4, <2>7, <4>1, <4>2, <4>4 DEF Tiled
      <4>6. \A x \in Members(c)' : RunEnd(x)' <= chain'[c].end
          BY <2>2, <2>4, <2>5, <2>7, <4>4
      <4>7. RunEnd(r)' = chain'[c].end
          BY <2>2, <2>7
      <4> QED BY <2>4, <4>3, <4>5, <4>6, <4>7 DEF Tiled
    <3> QED BY <3>1, <3>2
  <2>11. \A d \in Contexts \ {c} : SameTiles(d)
      BY <1>6, <2>2
  <2> QED BY <2>10, <2>11, TiledKept DEF Tiling, SameTiles
<1>9. ASSUME RefuseChained(r, c, query) PROVE Tiling'
  <2> DEFINE start == ChainStart(c)
             after == Return(Reserve(chain[c], r, start, query, "batch"), r, start, query)
  <2>1. chain' = [chain EXCEPT ![c] = after]
      BY <1>9 DEF RefuseChained
  <2>2. chain'[c] = after /\ \A d \in Contexts \ {c} : chain'[d] = chain[d]
      BY <1>1, <2>1 DEF RunTypes
  <2>3. CASE chain[c].runs = {}
    <3>1. after = NoChain
        BY <2>3 DEF Return, Reserve
    <3>2. Members(c)' = {}
        BY <2>2, <3>1 DEF Members, NoChain
    <3> QED BY <1>6, <2>2, <3>2, TiledKept DEF Tiling, SameTiles
  <2>4. CASE chain[c].runs # {}
    <3>1. after.runs = chain[c].runs /\ after.end = start
        BY <1>5, <2>4 DEF Return, Reserve
    <3>2. start = chain[c].end
        BY <2>4 DEF ChainStart, NoChain
    <3>3. SameTiles(c)
        BY <1>3, <1>4, <1>5, <2>2, <3>1, <3>2 DEF SameTiles, Members
    <3> QED BY <1>6, <2>2, <3>3, TiledKept DEF Tiling, SameTiles
  <2> QED BY <2>3, <2>4
<1> QED BY <1>2, <1>7, <1>8, <1>9

\* A run of a batch keeps its position to the end of its body; one that settles
\* alone leaves its chain without members.
LEMMA RunKeepsTiling ==
    ASSUME IInv, Tiling, NEW r \in Runs, RunStep(r)
    PROVE  Tiling'
<1>1. RunTypes /\ LengthTypes /\ RunsTyped
    BY TypedRuns DEF IInv, TypeOK
<1>2. PICK c \in Contexts : c = runs[r].ctx
    BY <1>1 DEF RunsTyped
<1>3. Unsettled(r)
    BY DEF RunStep, StartBody, WriteBody, DropBody, BreakBody, SettleRun, ReleaseRun, Unsettled
<1>4. \A d \in Contexts \ {c} : r \notin chain[d].runs
    BY <1>2 DEF IInv, Lease, LeasePoints
<1>5. ASSUME runs[r].kind = "run", runs'[r].stage \in {"settled", "idle"},
             \A x \in Runs \ {r} : runs'[x] = runs[x],
             chain'[c].runs \subseteq chain[c].runs, chain[c].runs \subseteq Runs,
             \A d \in Contexts \ {c} : /\ pastLength'[d] = pastLength[d]
                                       /\ pending'[d] = pending[d] /\ chain'[d] = chain[d],
             runs'[r].stage = "idle" => r \notin chain'[c].runs
      PROVE  Tiling'
  <2>1. Members(c)' = {}
      BY <1>2, <1>3, <1>5, NoOtherMember DEF Members
  <2>2. \A d \in Contexts \ {c} : chain[d].runs \subseteq Runs
      BY <1>1 DEF RunTypes
  <2>3. \A d \in Contexts \ {c} : SameTiles(d)
      BY <1>4, <1>5, <2>2 DEF SameTiles, Members
  <2> QED BY <2>1, <2>3, TiledKept DEF Tiling, SameTiles
<1>6. ASSUME UNCHANGED <<chain, pastLength, pending>> \/ runs[r].mode # "chained",
             UNCHANGED <<chain, pending>>, runs[r].stage # "settled", runs'[r].stage # "settled",
             \A x \in Runs \ {r} : runs'[x] = runs[x],
             \A d \in Contexts \ {c} : pastLength'[d] = pastLength[d],
             runs[r].mode = "chained" =>
                 runs'[r].start = runs[r].start /\ runs'[r].query = runs[r].query
      PROVE  Tiling'
  <2>1. \A d \in Contexts : chain[d].runs \subseteq Runs
      BY <1>1 DEF RunTypes
  <2>2. \A d \in Contexts : Members(d)' = Members(d)
      BY <1>6, <2>1 DEF Members
  <2>3. \A d \in Contexts \ {c} : SameTiles(d)
      BY <1>4, <1>6, <2>1, <2>2 DEF SameTiles, Members
  <2>4. CASE runs[r].mode = "chained"
    <3>1. SameTiles(c)
        BY <1>6, <2>1, <2>2, <2>4 DEF SameTiles, Members
    <3> QED BY <2>3, <3>1, TiledKept DEF Tiling, SameTiles
  <2>5. CASE runs[r].mode # "chained"
    <3>1. Members(c) = {}
      <4> SUFFICES ASSUME NEW x \in Members(c) PROVE FALSE
          OBVIOUS
      <4>1. x \in Runs /\ Unsettled(x) /\ Owner(runs[x].ctx) = Owner(runs[r].ctx) /\ x # r
          BY <1>2, <2>5, MembersHold
      <4> QED BY <1>3, <2>5, <4>1 DEF IInv, Lease, RunsExclude
    <3> QED BY <2>2, <2>3, <3>1, TiledKept DEF Tiling, SameTiles
  <2> QED BY <2>4, <2>5
<1>7. ASSUME NEW ok \in BOOLEAN, NEW wrote \in BOOLEAN, EndBody(r, ok, wrote),
             runs[r].stage \in {"queued", "started"}, UNCHANGED <<chain, pastLength, pending>>
      PROVE  Tiling'
  <2>1. /\ runs'[r] = [runs[r] EXCEPT !.stage = IF ok THEN "written" ELSE "failed", !.wrote = wrote]
        /\ \A x \in Runs \ {r} : runs'[x] = runs[x]
      BY <1>1, <1>7 DEF EndBody, RunTypes
  <2>2. /\ runs'[r].start = runs[r].start /\ runs'[r].query = runs[r].query
        /\ runs'[r].stage # "settled"
      BY <1>1, <2>1 DEF RunTypes, Run
  <2> QED BY <1>6, <1>7, <2>1, <2>2
<1>8. CASE StartBody(r)
  <2>1. runs[r].stage = "queued" /\ UNCHANGED <<chain, pending>>
      BY <1>8 DEF StartBody
  <2>2. CASE EndBody(r, FALSE, FALSE) /\ UNCHANGED pastLength
      BY <1>7, <2>1, <2>2
  <2>3. ASSUME ~(EndBody(r, FALSE, FALSE) /\ UNCHANGED pastLength) PROVE Tiling'
    <3>1. /\ runs' = [runs EXCEPT ![r] =
                        [@ EXCEPT !.stage = "started",
                                  !.start = IF runs[r].mode = "chained" THEN runs[r].start
                                            ELSE pastLength[Owner(c)]]]
          /\ pastLength' = [pastLength EXCEPT ![c] = pastLength[Owner(c)]]
        BY <1>2, <1>8, <2>3 DEF StartBody
    <3>2. /\ runs'[r].stage = "started" /\ runs'[r].query = runs[r].query
          /\ runs[r].mode = "chained" => runs'[r].start = runs[r].start
          /\ \A x \in Runs \ {r} : runs'[x] = runs[x]
        BY <1>1, <3>1 DEF RunTypes, Run
    <3>3. /\ \A d \in Contexts \ {c} : pastLength'[d] = pastLength[d]
          /\ runs[r].mode = "chained" => UNCHANGED pastLength
      <4>1. runs[r].mode = "chained" => Owner(c) = c
          BY <1>2, <1>3 DEF IInv, Lease, ChainsHold, Owner
      <4> QED BY <1>1, <3>1, <4>1 DEF LengthTypes
    <3> QED BY <1>6, <2>1, <3>2, <3>3
  <2> QED BY <2>2, <2>3
<1>9. CASE WriteBody(r) \/ DropBody(r) \/ BreakBody(r)
  <2>1. \E ok, wrote \in BOOLEAN : EndBody(r, ok, wrote)
      BY <1>9 DEF WriteBody, DropBody, BreakBody
  <2>2. runs[r].stage = "started" /\ UNCHANGED <<chain, pastLength, pending>>
      BY <1>9 DEF WriteBody, DropBody, BreakBody
  <2> QED BY <1>7, <2>1, <2>2
<1>10. CASE SettleRun(r)
  <2>1. /\ runs[r].kind = "run" /\ runs' = [runs EXCEPT ![r].stage = "settled"] /\ UNCHANGED chain
        /\ \/ UNCHANGED <<pastLength, pending>>
           \/ /\ pastLength' = [pastLength EXCEPT ![c] = NextPastLength(c, {r})]
              /\ pending' = [pending EXCEPT ![c] = NextPending(c, {r})]
      BY <1>2, <1>10 DEF SettleRun
  <2>2. runs'[r].stage = "settled" /\ \A x \in Runs \ {r} : runs'[x] = runs[x]
      BY <1>1, <2>1 DEF RunTypes, Run
  <2>3. \A d \in Contexts \ {c} : pastLength'[d] = pastLength[d] /\ pending'[d] = pending[d]
      BY <1>1, <2>1 DEF LengthTypes
  <2>4. chain[c].runs \subseteq Runs
      BY <1>1 DEF RunTypes
  <2> QED BY <1>5, <2>1, <2>2, <2>3, <2>4
<1>11. CASE ReleaseRun(r)
  <2>1. /\ runs[r].stage = "settled" /\ runs' = [runs EXCEPT ![r] = IdleRun]
        /\ UNCHANGED <<pastLength, pending>>
        /\ chain' = IF runs[r].mode = "chained"
                    THEN [chain EXCEPT ![c] = Return(@, r, runs[r].start, runs[r].query)]
                    ELSE chain
      BY <1>2, <1>11 DEF ReleaseRun
  <2>2. runs[r].kind = "run"
      BY <2>1 DEF IInv, Lease, ChainsHold
  <2>3. runs'[r].stage = "idle" /\ \A x \in Runs \ {r} : runs'[x] = runs[x]
      BY <1>1, <2>1 DEF RunTypes, IdleRun
  <2>4. \A d \in Contexts \ {c} : chain'[d] = chain[d]
      BY <1>1, <2>1 DEF RunTypes
  <2>5. r \notin chain'[c].runs /\ chain'[c].runs \subseteq chain[c].runs
    <3>1. CASE runs[r].mode = "chained"
      <4>1. chain'[c] = Return(chain[c], r, runs[r].start, runs[r].query)
          BY <1>1, <2>1, <3>1 DEF RunTypes
      <4> QED BY <4>1 DEF Return, NoChain
    <3>2. CASE runs[r].mode # "chained"
        BY <2>1, <3>2 DEF IInv, Lease, LeasePoints
    <3> QED BY <3>1, <3>2
  <2>6. chain[c].runs \subseteq Runs
      BY <1>1 DEF RunTypes
  <2> QED BY <1>5, <2>1, <2>2, <2>3, <2>4, <2>5, <2>6
<1> QED BY <1>8, <1>9, <1>10, <1>11 DEF RunStep

\* The life of a context moves its uncommitted range only while it has no run.
LEMMA LifeKeepsTiling ==
    ASSUME IInv, Turns, Tiling, NEW c \in Contexts, ContextStep(c)
    PROVE  Tiling'
<1>1. LengthTypes
    BY DEF IInv, TypeOK
<1>2. ASSUME NEW e \in Contexts, UNCHANGED <<runs, chain>>, Members(e) = {},
             \A d \in Contexts \ {e} : pastLength'[d] = pastLength[d] /\ pending'[d] = pending[d]
      PROVE  Tiling'
  <2>1. \A d \in Contexts : Members(d)' = Members(d)
      BY <1>2 DEF Members
  <2>2. \A d \in Contexts \ {e} : SameTiles(d)
      BY <1>2, <2>1 DEF SameTiles
  <2> QED BY <1>2, <2>1, <2>2, TiledKept DEF Tiling
<1>3. ASSUME NEW n \in Nat, Commit(c, n) \/ Rewind(c, n) PROVE Tiling'
  <2>1. runKind[c] = "none" /\ UNCHANGED <<runs, chain>>
      BY <1>3 DEF Commit, Rewind, Quiescent
  <2>2. Members(c) = {}
      BY <2>1, MembersHold DEF IInv, Lease, LeasePoints
  <2>3. \A d \in Contexts \ {c} : pastLength'[d] = pastLength[d] /\ pending'[d] = pending[d]
      BY <1>1, <1>3 DEF Commit, Rewind, LengthTypes
  <2> QED BY <1>2, <2>1, <2>2, <2>3
<1>4. ASSUME NEW d \in Contexts, Borrow(c, d) \/ Fork(c, d) PROVE Tiling'
  <2>1. /\ UNCHANGED <<runs, chain, pending>> /\ phase[d] = "absent"
        /\ pastLength' = pastLength \/ pastLength' = [pastLength EXCEPT ![d] = pastLength[c]]
      BY <1>4 DEF Borrow, Fork
  <2>2. Members(d) = {}
      BY <2>1, MembersHold DEF IInv, Lease, RunsExist
  <2>3. \A x \in Contexts \ {d} : pastLength'[x] = pastLength[x] /\ pending'[x] = pending[x]
      BY <1>1, <2>1 DEF LengthTypes
  <2> QED BY <1>2, <2>1, <2>2, <2>3
<1>5. CASE RegisterBorrower(c) \/ AdoptFork(c) \/ Dispose(c) \/ StartDisposal(c)
  <2>1. UNCHANGED <<runs, chain, pastLength, pending>>
      BY <1>5 DEF RegisterBorrower, AdoptFork, Dispose, StartDisposal
  <2>2. \A d \in Contexts : SameTiles(d)
      BY <2>1 DEF SameTiles, Members
  <2> QED BY <2>2, TiledKept DEF Tiling, SameTiles
<1>6. CASE FinishDisposal(c)
  <2>1. /\ UNCHANGED <<runs, chain, pastLength>> /\ phase[c] = "disposed"
        /\ pending' = [pending EXCEPT ![c] = NoPending]
      BY <1>6 DEF FinishDisposal
  <2>2. Members(c) = {}
      BY <2>1, MembersHold DEF Turns, Held
  <2>3. \A d \in Contexts \ {c} : pastLength'[d] = pastLength[d] /\ pending'[d] = pending[d]
      BY <1>1, <2>1 DEF LengthTypes
  <2> QED BY <1>2, <2>1, <2>2, <2>3
<1> QED BY <1>3, <1>4, <1>5, <1>6, LifeKinds

\* Every step keeps the tiling.
LEMMA TilingStep ==
    ASSUME IInv, Turns, Tiling, [Next]_vars
    PROVE  Tiling'
<1>1. RunTypes /\ LengthTypes
    BY DEF IInv, TypeOK
<1>2. CASE SettleBatch
  <2> DEFINE Held0(c) == \E r \in BatchRuns : c \in {runs[r].ctx, Owner(runs[r].ctx)}
  <2>1. /\ runs' = [r \in Runs |-> IF r \in BatchRuns THEN IdleRun ELSE runs[r]]
        /\ chain' = [c \in Contexts |-> IF Held0(c) THEN NoChain ELSE chain[c]]
        /\ \E R \in SUBSET BatchRuns :
              /\ pastLength' = [c \in Contexts |-> NextPastLength(c, R \cap RunsOf(c))]
              /\ pending' = [c \in Contexts |-> NextPending(c, R \cap RunsOf(c))]
      BY <1>2 DEF SettleBatch
  <2>2. ASSUME NEW c \in Contexts, Members(c)' # {} PROVE SameTiles(c)
    <3>1. ~Held0(c) /\ chain'[c] = chain[c]
        BY <2>1, <2>2 DEF Members, NoChain
    <3>2. \A r \in chain[c].runs : r \in Runs /\ r \notin BatchRuns
        BY <1>1, <3>1 DEF IInv, Lease, LeasePoints, RunTypes
    <3>3. \A r \in chain[c].runs : runs'[r] = runs[r]
        BY <2>1, <3>2
    <3>4. \A r \in BatchRuns : r \notin RunsOf(c)
        BY <3>1 DEF RunsOf
    <3>5. pastLength'[c] = pastLength[c] /\ pending'[c] = pending[c]
      <4>1. PICK R \in SUBSET BatchRuns :
               /\ pastLength'[c] = NextPastLength(c, R \cap RunsOf(c))
               /\ pending'[c] = NextPending(c, R \cap RunsOf(c))
          BY <2>1
      <4>2. R \cap RunsOf(c) = {}
          BY <3>4
      <4> QED BY <4>1, <4>2, BystandersStay
    <3> QED BY <3>1, <3>3, <3>5 DEF SameTiles, Members
  <2> QED BY <2>2, TiledKept DEF Tiling, SameTiles
<1>3. CASE BeginBatch \/ FinishBatch \/ DeviceLoss \/ UNCHANGED vars
  <2>1. UNCHANGED <<runs, chain, pastLength, pending>>
      BY <1>3 DEF BeginBatch, FinishBatch, DeviceLoss, contextVars, vars
  <2>2. \A d \in Contexts : SameTiles(d)
      BY <2>1 DEF SameTiles, Members
  <2> QED BY <2>2, TiledKept DEF Tiling, SameTiles
<1> QED BY <1>2, <1>3, IssueKeepsTiling, RunKeepsTiling, LifeKeepsTiling DEF Next

\* The chained runs in flight of a context tile the columns from the end of its
\* uncommitted range to the end of the chain: acquireChainedRun places each where
\* the one before stops, and no settlement, commit or refusal moves a boundary
\* under them, so extendPending meets every one where it expects it.
THEOREM ChainsTile == Spec => []ChainTilesRange
<1>1. Init => IInv /\ Turns /\ Tiling
    BY InitIInv, InitTurns DEF Init, Tiling, Members, NoChain
<1>2. (IInv /\ Turns /\ Tiling) /\ [Next]_vars => (IInv /\ Turns /\ Tiling)'
    BY IInvStep, TurnsStep, TilingStep
<1>3. Tiling => ChainTilesRange
    BY DEF Tiling, Tiled, Members, ChainTilesRange
<1> QED BY <1>1, <1>2, <1>3, PTL DEF Spec
------------------------------------------------------------------------------
(* Rows of a slot. *)

\* Two numbers less than n apart leave different remainders.
LEMMA RemaindersDiffer ==
    ASSUME NEW n \in Nat \ {0}, NEW a \in Nat, NEW b \in Nat, a < b, b < a + n
    PROVE  a % n # b % n
<1> SUFFICES ASSUME a % n = b % n PROVE FALSE
    OBVIOUS
<1> a \div n \in Int
    OBVIOUS
<1> b \div n \in Int
    OBVIOUS
<1>1. PICK q \in Int : q = a \div n
    OBVIOUS
<1>2. PICK p \in Int : p = b \div n
    OBVIOUS
<1>3. PICK m \in Int : m = a % n
    OBVIOUS
<1>4. a = n * (a \div n) + (a % n)
    OBVIOUS
<1>5. b = n * (b \div n) + (b % n)
    OBVIOUS
<1>6. a = n * q + m /\ b = n * p + m
    BY <1>1, <1>2, <1>3, <1>4, <1>5
<1>7. b - a = n * p - n * q
    BY <1>6
<1>8. n * p - n * q = n * (p - q)
    OBVIOUS
<1>9. PICK k \in Int : k = p - q
    OBVIOUS
<1>10. n * k > 0 /\ n * k < n
    BY <1>7, <1>8, <1>9
<1>11. k <= 0 => n * k <= 0
    OBVIOUS
<1>12. k >= 1 => n * k >= n
    OBVIOUS
<1> QED BY <1>10, <1>11, <1>12

\* Two columns less than the capacity apart have rows of their own.
LEMMA RowsDiffer ==
    ASSUME NEW s \in Slots, NEW a \in Nat, NEW b \in Nat, a < b,
           IsSliding(s) => b < a + Capacity[s]
    PROVE  SlotRow(s, a) # SlotRow(s, b)
<1>1. Capacity[s] \in Nat \ {0}
    BY SlotsAssumption
<1>2. IsSliding(s) => a % Capacity[s] # b % Capacity[s]
    BY <1>1, RemaindersDiffer
<1> QED BY <1>2 DEF SlotRow

\* Every column has a row in a ring, in a full slot those below its capacity.
LEMMA RowExists ==
    ASSUME NEW s \in Slots, NEW col \in Nat, IsSliding(s) \/ col < Capacity[s]
    PROVE  SlotRow(s, col) \in Rows(s)
<1>1. PICK n \in Nat \ {0} : n = Capacity[s]
    BY SlotsAssumption
<1>2. col % n \in 0 .. (n - 1)
    OBVIOUS
<1> QED BY <1>1, <1>2 DEF SlotRow, Rows

\* An append leaves in the row of each of its last columns that column.
LEMMA AppendWrites ==
    ASSUME NEW s \in Slots, NEW start \in Nat, NEW query \in Nat, NEW rows, NEW tag,
           NEW col \in start .. (start + query - 1), SlotRow(s, col) \in Rows(s),
           IsSliding(s) => start + query <= col + Capacity[s]
    PROVE  Appended(s, rows, start, query, tag)[SlotRow(s, col)] = <<col, tag>>
<1> DEFINE row == SlotRow(s, col)
           found == AppendedColumns(s, start, query, row)
<1>1. Capacity[s] \in Nat \ {0} /\ col \in Nat
    BY SlotsAssumption
<1>2. col \in found
    BY <1>1 DEF AppendedColumns
<1>3. ASSUME NEW x \in found PROVE x = col
  <2>1. /\ x \in Nat /\ x < start + query /\ SlotRow(s, x) = row
        /\ IsSliding(s) => (x - start) + Capacity[s] >= query
      BY <1>3 DEF AppendedColumns
  <2>2. CASE x < col
      BY <1>1, <2>1, <2>2, RowsDiffer
  <2>3. CASE col < x
      BY <1>1, <2>1, <2>3, RowsDiffer
  <2> QED BY <1>1, <2>1, <2>2, <2>3
<1>4. found # {} /\ (CHOOSE x \in found : TRUE) = col
    BY <1>2, <1>3
<1> QED BY <1>4 DEF Appended

\* It leaves alone the rows of other columns within the capacity of its own.
LEMMA AppendKeeps ==
    ASSUME NEW s \in Slots, NEW start \in Nat, NEW query \in Nat, NEW rows, NEW tag,
           NEW col \in Nat, SlotRow(s, col) \in Rows(s),
           col < start \/ start + query <= col,
           IsSliding(s) => start + query <= col + Capacity[s] /\ col < start + Capacity[s]
    PROVE  Appended(s, rows, start, query, tag)[SlotRow(s, col)] = rows[SlotRow(s, col)]
<1> DEFINE row == SlotRow(s, col)
           found == AppendedColumns(s, start, query, row)
<1>1. Capacity[s] \in Nat \ {0}
    BY SlotsAssumption
<1>2. ASSUME NEW x \in found PROVE FALSE
  <2>1. x \in Nat /\ start <= x /\ x < start + query /\ SlotRow(s, x) = row
      BY <1>2 DEF AppendedColumns
  <2>2. CASE col < start
      BY <1>1, <2>1, <2>2, RowsDiffer
  <2>3. CASE start + query <= col
      BY <1>1, <2>1, <2>3, RowsDiffer
  <2> QED BY <2>2, <2>3
<1>3. found = {}
    BY <1>2
<1> QED BY <1>3 DEF Appended
------------------------------------------------------------------------------
(* What is ahead of the logical length is within the slack. *)

\* A run that reads the logical length at its start and has not settled.
Plain(r) == Unsettled(r) /\ runs[r].stage # "settled" /\ runs[r].mode # "chained"

\* The columns up to end fit every ring together with the window behind the
\* logical length of c.
Fits(c, end) == \A s \in SlidingSlots : end + Window[s] <= pastLength[c] + Capacity[s]

\* What is uncommitted and what is reserved fit; only a context that was opened
\* has rows that await a commit.
Room(c) ==
    /\ AwaitsCommit(c) => pending[c].pastLength = pastLength[c]
    /\ Fits(c, UncommittedEnd(c))
    /\ chain[c] # NoChain => Fits(c, chain[c].end) /\ UncommittedEnd(c) <= chain[c].end
    /\ phase[c] \in {"absent", "allocating"} => ~AwaitsCommit(c)

\* Nothing awaits a commit under run r; one that defers fits as Room demands.
Free(r) ==
    /\ ~AwaitsCommit(Owner(runs[r].ctx))
    /\ runs[r].mode = "deferred" =>
          ~IsBorrowing(runs[r].ctx)
          /\ \A s \in SlidingSlots : runs[r].query + Window[s] <= Capacity[s]

Slack ==
    /\ \A c \in Contexts : ~IsBorrowing(c) => Room(c)
    /\ \A r \in Runs : Plain(r) => Free(r)

\* Run r computes column col.
Covers(r, col) == runs[r].start <= col /\ col < RunEnd(r)

\* The runs of a chain leave no column out from the end of the uncommitted range
\* to the end of the chain, and none starts before.
Covered(c) ==
    /\ \A r \in Members(c) : UncommittedEnd(c) <= runs[r].start
    /\ chain[c] # NoChain =>
          \A col \in UncommittedEnd(c) .. (chain[c].end - 1) :
              \E r \in chain[c].runs : Covers(r, col)

Coverage == \A c \in Contexts : Covered(c)

------------------------------------------------------------------------------
(* The runs of a chain take their turns in the order of their columns. *)

\* A run whose body has not left the queue.
Waiting(r) ==
    \/ runs[r].stage \in {"queued", "started"}
    \/ runs[r].kind = "run" /\ Unsettled(r)

\* A run that waits has one place, on the queue of its Session.
InPlace ==
    /\ \A r \in Runs : Waiting(r) => \E i \in Nat : Place(r, SessionOf(runs[r].ctx), i)
    /\ \A r \in Runs, s \in Sessions, i \in Nat : Place(r, s, i) => Waiting(r)
    /\ \A r \in Runs, s, t \in Sessions, i, j \in Nat :
          Place(r, s, i) /\ Place(r, t, j) => s = t /\ i = j

\* Runs x and r are of one chain, x on earlier columns.
Earlier(x, r) ==
    /\ Unsettled(x) /\ Unsettled(r) /\ x # r
    /\ runs[x].ctx = runs[r].ctx
    /\ runs[x].mode = "chained" /\ runs[r].mode = "chained"
    /\ RunEnd(x) <= runs[r].start

InOrder ==
    \A x, r \in Runs : Earlier(x, r) =>
        \A s, t \in Sessions, i, j \in Nat : Place(x, s, i) /\ Place(r, t, j) => i < j

------------------------------------------------------------------------------
(* The rows. *)

\* The row of column col of slot s has what tag says.
Keeps(o, s, col, tag) ==
    SlotRow(s, col) \in Rows(s) /\ slots[o][s][SlotRow(s, col)] = <<col, tag>>

\* The window behind the logical length, and the rows that await a commit.
Intact(o) ==
    \A s \in Slots :
        \A col \in ReadonlyColumnBase(s, pastLength[o]) .. (UncommittedEnd(o) - 1) :
            Keeps(o, s, col, history[o][col])

\* A run that takes the place of the window: it may write over rows before it.
Replaces(r) == runs[r].stage = "written" /\ runs[r].mode = "immediate"

\* A run that leaves no row for sure.
Spoils(r) == runs[r].stage = "failed" /\ runs[r].wrote

\* A run that keeps the window.
Extends(r) == runs[r].stage = "written" /\ runs[r].mode # "immediate"

\* The window behind the end of run r.
Replaced(o, r) ==
    \A s \in Slots :
        \A col \in ReadonlyColumnBase(s, RunEnd(r)) .. (RunEnd(r) - 1) :
            Keeps(o, s, col, IF col < runs[r].start THEN history[o][col] ELSE runs[r].tag)

\* The columns of run r.
Extended(o, r) ==
    \A s \in Slots : \A col \in runs[r].start .. (RunEnd(r) - 1) : Keeps(o, s, col, runs[r].tag)

Serves(o) ==
    ~IsBorrowing(o) /\ phase[o] \in {"allocating", "open", "closing"} /\ IsLive(o)

Ring(o) ==
    /\ (\A r \in Runs : runs[r].ctx = o => ~Replaces(r) /\ ~Spoils(r)) => Intact(o)
    /\ \A r \in Runs : runs[r].ctx = o /\ Replaces(r) => Replaced(o, r)
    /\ \A r \in Runs : runs[r].ctx = o /\ Extends(r) => Extended(o, r)

\* A run writes unless it borrows.
Writers ==
    \A r \in Runs : runs[r].stage = "written" => (runs[r].wrote <=> ~IsBorrowing(runs[r].ctx))

Rings == Writers /\ \A o \in Contexts : Serves(o) => Ring(o)


\* What the proofs below need of the types.
LEMMA Shapes ==
    ASSUME IInv
    PROVE  /\ \A r \in Runs : /\ runs[r].ctx \in Contexts /\ Owner(runs[r].ctx) \in Contexts
                              /\ runs[r].start \in Nat /\ runs[r].query \in Nat
                              /\ RunEnd(r) \in Nat
                              /\ runs[r].mode \in {"immediate", "deferred", "chained"}
                              /\ runs[r].kind \in {"run", "batch"}
                              /\ runs[r].stage \in Stages
           /\ \A c \in Contexts : /\ pastLength[c] \in Nat /\ UncommittedEnd(c) \in Nat
                                  /\ pending[c] \in [pastLength : Nat, queryLength : Nat]
                                  /\ chain[c].end \in Nat /\ chain[c].runs \subseteq Runs
           /\ \A s \in Slots : Window[s] \in Nat /\ Capacity[s] \in Nat /\ Capacity[s] > 0
                               /\ Window[s] <= Capacity[s]
<1>1. RunTypes /\ LengthTypes /\ ContextTypes
    BY DEF IInv, TypeOK
<1>2. ASSUME NEW r \in Runs
      PROVE  /\ runs[r].ctx \in Contexts /\ Owner(runs[r].ctx) \in Contexts
             /\ runs[r].start \in Nat /\ runs[r].query \in Nat
             /\ RunEnd(r) \in Nat
             /\ runs[r].mode \in {"immediate", "deferred", "chained"}
             /\ runs[r].kind \in {"run", "batch"}
             /\ runs[r].stage \in Stages
  <2>1. runs[r] \in Run
      BY <1>1 DEF RunTypes
  <2> QED BY <1>1, <2>1 DEF Run, Modes, RunEnd, Owner, IsBorrowing, ContextTypes
<1>3. ASSUME NEW c \in Contexts
      PROVE  /\ pastLength[c] \in Nat /\ UncommittedEnd(c) \in Nat
             /\ pending[c] \in [pastLength : Nat, queryLength : Nat]
             /\ chain[c].end \in Nat /\ chain[c].runs \subseteq Runs
  <2>1. /\ pastLength[c] \in Nat /\ pending[c] \in [pastLength : Nat, queryLength : Nat]
        /\ chain[c] \in [scope : {"run", "batch"}, runs : SUBSET Runs, end : Nat]
      BY <1>1 DEF RunTypes, LengthTypes
  <2> QED BY <2>1 DEF UncommittedEnd
<1> QED BY <1>2, <1>3, SlotsAssumption

\* The slack of the graph is within that of every sliding slot.
LEMMA SlackFits ==
    ASSUME NEW n \in Nat, WithinSlack(n), NEW s \in SlidingSlots
    PROVE  n + Window[s] <= Capacity[s]
<1> DEFINE S == {SlackOf(t) : t \in SlidingSlots}
<1>1. \A t \in SlidingSlots : t \in Slots
    BY DEF SlidingSlots
<1>2. \A t \in Slots : SlackOf(t) \in Nat
    BY SlotsAssumption DEF SlackOf
<1>3. S \subseteq Nat /\ S # {}
    BY <1>1, <1>2
<1>4. \E m \in S : \A k \in S : m <= k
    BY <1>3, Least
<1>5. \E m \in S : \A t \in SlidingSlots : m <= SlackOf(t)
    BY <1>4
<1>6. SlidingSlack \in S /\ \A t \in SlidingSlots : SlidingSlack <= SlackOf(t)
    BY <1>5 DEF SlidingSlack
<1>7. n <= SlidingSlack /\ SlidingSlack \in Nat /\ SlidingSlack <= SlackOf(s)
    BY <1>3, <1>6 DEF WithinSlack
<1> HIDE DEF S
<1>8. Window[s] \in Nat /\ Capacity[s] \in Nat /\ SlackOf(s) = Capacity[s] - Window[s]
    BY <1>1, SlotsAssumption DEF SlackOf
<1> QED BY <1>7, <1>8

\* The runs of a context that has no other unsettled run.
LEMMA AloneOf ==
    ASSUME IInv, NEW r \in Runs, Unsettled(r), runs[r].mode # "chained" \/ runs[r].kind = "run",
           NEW x \in Runs, Unsettled(x), Owner(runs[x].ctx) = Owner(runs[r].ctx)
    PROVE  x = r
BY DEF IInv, Lease, RunsExclude

\* All runs of a context settle together, alone or with their batch.
LEMMA SettlesAll ==
    ASSUME IInv, NEW c \in Contexts
    PROVE  /\ \A r \in Runs : Unsettled(r) /\ runs[r].kind = "run" /\ runs[r].ctx = c
                                  => RunsOf(c) = {r}
           /\ BatchRuns \cap RunsOf(c) # {} => RunsOf(c) \subseteq BatchRuns
<1>1. ASSUME NEW r \in Runs, Unsettled(r), runs[r].kind = "run", runs[r].ctx = c
      PROVE  RunsOf(c) = {r}
  <2>1. \A x \in RunsOf(c) : x \in Runs /\ Unsettled(x) /\ runs[x].ctx = c
      BY DEF RunsOf, Unsettled
  <2>2. \A x \in RunsOf(c) : x = r
      BY <1>1, <2>1, AloneOf
  <2> QED BY <1>1, <2>2 DEF RunsOf, Unsettled
<1>2. ASSUME NEW x \in BatchRuns \cap RunsOf(c) PROVE RunsOf(c) \subseteq BatchRuns
  <2>1. x \in Runs /\ Unsettled(x) /\ runs[x].ctx = c /\ runs[x].kind = "batch"
      BY DEF BatchRuns, RunsOf, Unsettled
  <2> SUFFICES ASSUME NEW r \in RunsOf(c) PROVE r \in BatchRuns
      OBVIOUS
  <2>2. r \in Runs /\ Unsettled(r) /\ runs[r].ctx = c
      BY DEF RunsOf, Unsettled
  <2>3. runs[r].kind = "batch"
      BY <2>1, <2>2 DEF IInv, Lease, RunsExclude
  <2> QED BY <2>2, <2>3 DEF BatchRuns, Unsettled
<1> QED BY <1>1, <1>2

\* A chained run is a member of its context's chain until it settles.
LEMMA ChainedMember ==
    ASSUME IInv, NEW r \in Runs, Unsettled(r), runs[r].mode = "chained",
           runs[r].stage # "settled"
    PROVE  /\ r \in Members(runs[r].ctx) /\ chain[runs[r].ctx] # NoChain
           /\ ~IsBorrowing(runs[r].ctx)
<1>1. runs[r].ctx \in Contexts
    BY Shapes
<1>2. r \in chain[runs[r].ctx].runs
    BY <1>1 DEF IInv, Lease, LeasePoints
<1> QED BY <1>1, <1>2 DEF IInv, Lease, ChainsHold, Members, NoChain

\* Two unsettled runs of a context are members of its chain, on other columns.
LEMMA Apart ==
    ASSUME IInv, Tiling, NEW r \in Runs, NEW x \in Runs, r # x, Unsettled(r), Unsettled(x),
           runs[x].ctx = runs[r].ctx
    PROVE  /\ runs[r].mode = "chained" /\ runs[x].mode = "chained"
           /\ runs[r].kind = "batch" /\ runs[x].kind = "batch"
           /\ r \in Members(runs[r].ctx) /\ x \in Members(runs[r].ctx)
           /\ RunEnd(r) <= runs[x].start \/ RunEnd(x) <= runs[r].start
<1>1. /\ runs[r].mode = "chained" /\ runs[x].mode = "chained"
      /\ runs[r].kind = "batch" /\ runs[x].kind = "batch"
    BY DEF IInv, Lease, RunsExclude
<1>2. runs[r].stage # "settled" /\ runs[x].stage # "settled"
    BY <1>1 DEF IInv, Lease, ChainsHold
<1>3. r \in Members(runs[r].ctx) /\ x \in Members(runs[r].ctx) /\ runs[r].ctx \in Contexts
    BY <1>1, <1>2, ChainedMember, Shapes
<1>4. Tiled(runs[r].ctx)
    BY <1>3 DEF Tiling
<1> QED BY <1>1, <1>3, <1>4 DEF Tiled

\* A run that keeps the window starts where nothing is to be kept, and ends
\* within the slack.
LEMMA Placed ==
    ASSUME IInv, CapturedLengthHolds, Tiling, Slack, Coverage,
           NEW r \in Runs, NEW c \in Contexts, runs[r].ctx = c, ~IsBorrowing(c),
           runs[r].mode # "immediate", runs[r].stage \in {"started", "written"}
    PROVE  /\ pastLength[c] <= UncommittedEnd(c) /\ UncommittedEnd(c) <= runs[r].start
           /\ runs[r].mode = "deferred" => runs[r].start = UncommittedEnd(c) /\ ~AwaitsCommit(c)
           /\ Fits(c, RunEnd(r))
<1>1. /\ pastLength[c] \in Nat /\ UncommittedEnd(c) \in Nat /\ RunEnd(r) \in Nat
      /\ pending[c] \in [pastLength : Nat, queryLength : Nat]
      /\ runs[r].start \in Nat /\ runs[r].query \in Nat /\ RunEnd(r) = runs[r].start + runs[r].query
    BY Shapes DEF RunEnd
<1>2. pastLength[c] <= UncommittedEnd(c)
    BY <1>1 DEF Slack, Room, UncommittedEnd
<1>3. CASE runs[r].mode = "deferred"
  <2>1. Plain(r)
      BY <1>3 DEF Plain, Unsettled
  <2>2. ~AwaitsCommit(c) /\ \A s \in SlidingSlots : runs[r].query + Window[s] <= Capacity[s]
      BY <1>3, <2>1 DEF Slack, Free, Owner
  <2>3. runs[r].start = pastLength[c] /\ UncommittedEnd(c) = pastLength[c]
      BY <1>3, <2>2 DEF CapturedLengthHolds, UncommittedEnd
  <2>4. ASSUME NEW s \in SlidingSlots PROVE RunEnd(r) + Window[s] <= pastLength[c] + Capacity[s]
    <3>1. Window[s] \in Nat /\ Capacity[s] \in Nat /\ runs[r].query + Window[s] <= Capacity[s]
        BY <2>2, Shapes DEF SlidingSlots
    <3> QED BY <1>1, <2>3, <3>1
  <2> QED BY <1>1, <1>2, <2>2, <2>3, <2>4 DEF Fits
<1>4. CASE runs[r].mode = "chained"
  <2>1. r \in Members(c) /\ chain[c] # NoChain
      BY <1>4, ChainedMember DEF Unsettled
  <2>2. RunEnd(r) <= chain[c].end /\ chain[c].end \in Nat
      BY <2>1, Shapes DEF Tiling, Tiled
  <2>3. Fits(c, chain[c].end)
      BY <2>1 DEF Slack, Room
  <2>4. ASSUME NEW s \in SlidingSlots PROVE RunEnd(r) + Window[s] <= pastLength[c] + Capacity[s]
    <3>1. /\ Window[s] \in Nat /\ Capacity[s] \in Nat
          /\ chain[c].end + Window[s] <= pastLength[c] + Capacity[s]
        BY <2>3, Shapes DEF SlidingSlots, Fits
    <3> QED BY <1>1, <2>2, <3>1
  <2>5. UncommittedEnd(c) <= runs[r].start
      BY <2>1 DEF Coverage, Covered
  <2> QED BY <1>2, <1>4, <2>4, <2>5 DEF Fits
<1> QED BY <1>3, <1>4, Shapes

\* What a conclusion leaves: the run advanced the length to its end, or the runs
\* moved the end of the uncommitted range to the last of theirs.
Advanced(c, R) ==
    \E r \in R : /\ R = {r} /\ runs[r].mode = "immediate" /\ runs[r].start = pastLength[c]
                 /\ RunEnd(r) <= MaxLogicalLength /\ ~AwaitsCommit(c)
                 /\ NextPastLength(c, R) = RunEnd(r) /\ NextPending(c, R) = pending[c]

Deferred(c, R) ==
    /\ \A r \in R : runs[r].mode # "immediate"
    /\ NextPastLength(c, R) = pastLength[c]
    /\ \E r \in R :
          /\ \A x \in R : RunEnd(x) <= RunEnd(r)
          /\ NextPending(c, R) = [pastLength |-> pastLength[c],
                                  queryLength |-> RunEnd(r) - pastLength[c]]

\* The two ways runs of a context conclude.
LEMMA Concludes ==
    ASSUME IInv, CapturedLengthHolds, Tiling, Slack, Coverage, NEW c \in Contexts,
           ~IsBorrowing(c), NEW R \in SUBSET RunsOf(c), R # {},
           \A r \in R : runs[r].stage = "written", CanConclude(c, R)
    PROVE  Advanced(c, R) \/ Deferred(c, R)
<1>1. \A r \in R : /\ r \in Runs /\ Unsettled(r) /\ runs[r].ctx = c /\ Owner(runs[r].ctx) = c
                   /\ runs[r].stage = "written" /\ RunEnd(r) \in Nat
                   /\ RunEnd(r) = runs[r].start + runs[r].query
    BY Shapes DEF RunsOf, Unsettled, Owner, RunEnd
<1>2. pastLength[c] \in Nat /\ UncommittedEnd(c) \in Nat
    BY Shapes
<1>3. ASSUME NEW r \in R, runs[r].mode = "immediate" PROVE Advanced(c, R)
  <2>1. R = {r}
      BY <1>1, <1>3, AloneOf
  <2>2. /\ Advances(c, R) /\ ~Defers(c, R) /\ (CHOOSE x \in R : TRUE) = r
        /\ runs[r].start = pastLength[c] /\ RunEnd(r) <= MaxLogicalLength
      BY <1>3, <2>1 DEF Advances, Defers, CanConclude
  <2>3. ~AwaitsCommit(c)
      BY <1>1, <1>3 DEF Slack, Free, Plain
  <2>4. NextPastLength(c, R) = RunEnd(r) /\ NextPending(c, R) = pending[c]
      BY <1>1, <2>2 DEF NextPastLength, NextPending
  <2> QED BY <1>3, <2>1, <2>2, <2>3, <2>4 DEF Advanced
<1>4. ASSUME \A r \in R : runs[r].mode # "immediate" PROVE Deferred(c, R)
  <2> DEFINE ends == {RunEnd(r) : r \in R}
             end == CHOOSE e \in ends : \A r \in R : RunEnd(r) <= e
  <2>1. ~Advances(c, R) /\ Defers(c, R)
      BY <1>4 DEF Advances, Defers
  <2>2. MaxRunEnd \in Nat /\ \A r \in R : RunEnd(r) <= MaxRunEnd
      BY <1>1, ContextAssumption DEF IInv, Bounds, MaxRunEnd
  <2>3. ends \in SUBSET Nat /\ ends # {} /\ \A n \in ends : n <= MaxRunEnd
      BY <1>1, <2>2
  <2>4. \E e \in ends : \A n \in ends : n <= e
      BY <2>2, <2>3, GreatestElement
  <2>5. end \in ends /\ \A r \in R : RunEnd(r) <= end
      BY <2>4
  <2>6. PICK r \in R : end = RunEnd(r)
      BY <2>5
  <2>7. (IF AwaitsCommit(c) THEN pending[c].pastLength ELSE pastLength[c]) = pastLength[c]
      BY DEF Slack, Room
  <2>8. NextPending(c, R) = [pastLength |-> pastLength[c], queryLength |-> end - pastLength[c]]
      BY <2>1, <2>7 DEF NextPending, Joined
  <2>9. NextPastLength(c, R) = pastLength[c]
      BY <2>1 DEF NextPastLength
  <2> HIDE DEF end
  <2> QED BY <1>4, <2>5, <2>6, <2>8, <2>9 DEF Deferred
<1> QED BY <1>3, <1>4

\* The runs R of context c conclude.
Settles(c, R) ==
    /\ R # {} /\ R \subseteq RunsOf(c) /\ \A r \in R : runs[r].stage = "written"
    /\ CanConclude(c, R)
    /\ pastLength'[c] = NextPastLength(c, R)
    /\ pending'[c] = NextPending(c, R)
    /\ history'[c] = NextHistory(c, R)

\* The runs of c keep as they are, or fail and tell whether they wrote.
Fails(c) == \A r \in RunsOf(c) : runs'[r] = runs[r] \/ (runs[r].wrote => poisoned'[c])

\* Runs of c conclude while all of them settle, and those are all, or fail after all.
Concluding(c) ==
    /\ \A r \in RunsOf(c) : runs'[r].stage \in {"settled", "idle"}
    /\ \E R \in SUBSET RunsOf(c) : Settles(c, R) /\ (R = RunsOf(c) \/ Fails(c))

\* A settlement concludes runs of a context or leaves its lengths as they are.
LEMMA SettleKinds ==
    ASSUME IInv, NEW c \in Contexts, SettleBatch \/ \E r \in Runs : SettleRun(r)
    PROVE  \/ Concluding(c)
           \/ UNCHANGED <<pastLength[c], pending[c], history[c]>> /\ Fails(c)
<1>1. RunTypes /\ LengthTypes /\ RunsTyped
    BY TypedRuns DEF IInv, TypeOK
<1>2. ASSUME NEW r \in Runs, SettleRun(r)
      PROVE  \/ Concluding(c)
             \/ UNCHANGED <<pastLength[c], pending[c], history[c]>> /\ Fails(c)
  <2>1. /\ runs[r].kind = "run" /\ Unsettled(r) /\ runs' = [runs EXCEPT ![r].stage = "settled"]
      BY <1>2 DEF SettleRun, Unsettled
  <2>2. runs'[r].stage = "settled"
      BY <1>1, <2>1 DEF RunTypes, Run
  <2>3. CASE runs[r].ctx = c /\ runs[r].stage = "written" /\ CanConclude(c, {r})
             /\ pastLength' = [pastLength EXCEPT ![c] = NextPastLength(c, {r})]
             /\ pending' = [pending EXCEPT ![c] = NextPending(c, {r})]
             /\ history' = [history EXCEPT ![c] = NextHistory(c, {r})]
    <3>1. RunsOf(c) = {r}
        BY <2>1, <2>3, SettlesAll
    <3>2. /\ pastLength'[c] = NextPastLength(c, {r}) /\ pending'[c] = NextPending(c, {r})
          /\ history'[c] = NextHistory(c, {r})
        BY <1>1, <2>3 DEF LengthTypes
    <3>3. Settles(c, {r})
        BY <2>3, <3>1, <3>2 DEF Settles
    <3> QED BY <2>2, <3>1, <3>3 DEF Concluding
  <2>4. \A x \in Runs \ {r} : runs'[x] = runs[x]
      BY <1>1, <2>1 DEF RunTypes
  <2>5. CASE runs[r].ctx # c
    <3>1. UNCHANGED <<pastLength[c], pending[c], history[c]>>
        BY <1>1, <1>2, <2>5 DEF SettleRun, LengthTypes
    <3>2. Fails(c)
        BY <2>4, <2>5 DEF Fails, RunsOf
    <3> QED BY <3>1, <3>2
  <2>6. CASE /\ runs[r].ctx = c /\ UNCHANGED <<pastLength, pending, history>>
             /\ poisoned' = [poisoned EXCEPT ![c] = @ \/ runs[r].wrote]
    <3>1. poisoned'[c] = (poisoned[c] \/ runs[r].wrote)
        BY <1>1, <2>6 DEF LengthTypes
    <3>2. Fails(c)
        BY <2>4, <3>1 DEF Fails, RunsOf
    <3> QED BY <2>6, <3>2
  <2> QED BY <1>2, <2>3, <2>5, <2>6 DEF SettleRun
<1>3. CASE SettleBatch
  <2>1. PICK R \in SUBSET BatchRuns : Completed(R)
      BY <1>3, BatchCompletes DEF IInv
  <2> DEFINE S == R \cap RunsOf(c)
  <2>2. /\ pastLength'[c] = NextPastLength(c, S) /\ pending'[c] = NextPending(c, S)
        /\ history'[c] = NextHistory(c, S)
      BY <2>1 DEF Completed
  <2>3. runs' = [r \in Runs |-> IF r \in BatchRuns THEN IdleRun ELSE runs[r]]
      BY <1>3 DEF SettleBatch
  <2>4. R = BatchRuns \/ Fails(c)
    <3>1. ASSUME R # BatchRuns, NEW r \in RunsOf(c) PROVE runs'[r] = runs[r] \/ (runs[r].wrote => poisoned'[c])
      <4>1. CASE r \in BatchRuns
          BY <2>1, <3>1, <4>1 DEF Completed
      <4>2. CASE r \notin BatchRuns
          BY <2>3, <4>2 DEF RunsOf
      <4> QED BY <4>1, <4>2
    <3> QED BY <3>1 DEF Fails
  <2>5. CASE S = {}
    <3>1. UNCHANGED <<pastLength[c], pending[c], history[c]>>
        BY <2>2, <2>5, BystandersStay
    <3>2. CASE R = BatchRuns
      <4>1. \A r \in RunsOf(c) : runs'[r] = runs[r]
          BY <2>3, <2>5, <3>2 DEF RunsOf
      <4> QED BY <3>1, <4>1 DEF Fails
    <3> QED BY <2>4, <3>1, <3>2
  <2>6. CASE S # {}
    <3>1. RunsOf(c) \subseteq BatchRuns
        BY <2>6, SettlesAll
    <3>2. \A r \in RunsOf(c) : runs'[r].stage = "idle"
        BY <2>3, <3>1 DEF BatchRuns, IdleRun
    <3>3. Settles(c, S)
        BY <2>1, <2>2, <2>6 DEF Settles, Completed, Completes
    <3>4. S = RunsOf(c) \/ Fails(c)
        BY <2>4, <3>1
    <3> QED BY <3>2, <3>3, <3>4 DEF Concluding
  <2> QED BY <2>5, <2>6
<1> QED BY <1>2, <1>3

\* Where the uncommitted range ends after a conclusion.
LEMMA EndsMoved ==
    ASSUME IInv, CapturedLengthHolds, Tiling, Slack, Coverage, NEW c \in Contexts,
           ~IsBorrowing(c), NEW R \in SUBSET RunsOf(c), Settles(c, R)
    PROVE  \/ /\ Advanced(c, R) /\ pending'[c] = pending[c] /\ ~AwaitsCommit(c)'
              /\ \E r \in R : /\ R = {r} /\ pastLength'[c] = RunEnd(r)
                              /\ UncommittedEnd(c)' = RunEnd(r)
           \/ /\ Deferred(c, R) /\ pastLength'[c] = pastLength[c]
              /\ AwaitsCommit(c)' => pending'[c].pastLength = pastLength'[c]
              /\ \E r \in R : /\ UncommittedEnd(c)' = RunEnd(r)
                              /\ \A x \in R : RunEnd(x) <= RunEnd(r)
<1>1. Advanced(c, R) \/ Deferred(c, R)
    BY Concludes DEF Settles
<1>2. /\ pastLength[c] \in Nat /\ \A r \in R : RunEnd(r) \in Nat
      /\ pastLength'[c] = NextPastLength(c, R) /\ pending'[c] = NextPending(c, R)
    BY Shapes DEF RunsOf, Settles
<1>3. CASE Advanced(c, R)
    BY <1>2, <1>3 DEF Advanced, AwaitsCommit, UncommittedEnd
<1>4. CASE Deferred(c, R)
  <2>1. PICK r \in R : /\ \A x \in R : RunEnd(x) <= RunEnd(r)
                       /\ pending'[c] = [pastLength |-> pastLength[c],
                                         queryLength |-> RunEnd(r) - pastLength[c]]
      BY <1>2, <1>4 DEF Deferred
  <2>2. pastLength'[c] = pastLength[c]
      BY <1>2, <1>4 DEF Deferred
  <2>3. pending'[c].pastLength = pastLength[c] /\ pending'[c].queryLength = RunEnd(r) - pastLength[c]
      BY <2>1
  <2>4. CASE pending'[c] = NoPending
    <3>1. pending'[c].pastLength = 0 /\ pending'[c].queryLength = 0
        BY <2>4 DEF NoPending
    <3>2. pastLength[c] = 0 /\ RunEnd(r) = 0
        BY <1>2, <2>3, <3>1
    <3>3. UncommittedEnd(c)' = RunEnd(r)
        BY <2>2, <2>4, <3>2 DEF UncommittedEnd, AwaitsCommit
    <3> QED BY <1>4, <2>1, <2>2, <2>3, <3>3
  <2>5. CASE pending'[c] # NoPending
    <3>1. UncommittedEnd(c)' = pastLength[c] + (RunEnd(r) - pastLength[c])
        BY <2>3, <2>5 DEF UncommittedEnd, AwaitsCommit
    <3>2. UncommittedEnd(c)' = RunEnd(r)
        BY <1>2, <3>1
    <3> QED BY <1>4, <2>1, <2>2, <2>3, <3>2
  <2> QED BY <2>4, <2>5
<1> QED BY <1>1, <1>3, <1>4
------------------------------------------------------------------------------
(* Every step keeps the slack. *)

\* What the room of a context depends on, and how it may change.
SameRoom(c) ==
    /\ pastLength'[c] = pastLength[c] /\ pending'[c] = pending[c]
    /\ chain'[c] # NoChain => chain[c] # NoChain /\ chain'[c].end = chain[c].end
    /\ phase'[c] \in {"absent", "allocating"} => phase[c] \in {"absent", "allocating"}

\* The room stays while that does.
LEMMA RoomKept ==
    ASSUME NEW c \in Contexts, Room(c), SameRoom(c)
    PROVE  Room(c)'
<1>1. (AwaitsCommit(c)' <=> AwaitsCommit(c)) /\ UncommittedEnd(c)' = UncommittedEnd(c)
    BY DEF SameRoom, AwaitsCommit, UncommittedEnd
<1> QED BY <1>1 DEF Room, SameRoom, Fits

\* What keeps a run free.
SameFree(r) ==
    /\ Plain(r) /\ runs'[r].ctx = runs[r].ctx
    /\ runs'[r].mode = runs[r].mode /\ runs'[r].query = runs[r].query
    /\ lender'[runs[r].ctx] = lender[runs[r].ctx]
    /\ AwaitsCommit(Owner(runs[r].ctx))' => AwaitsCommit(Owner(runs[r].ctx))

\* It stays free while that holds.
LEMMA FreeKept ==
    ASSUME Slack, NEW r \in Runs, SameFree(r)
    PROVE  Free(r)'
<1>1. Free(r)
    BY DEF Slack, SameFree
<1>2. Owner(runs[r].ctx)' = Owner(runs[r].ctx) /\ (IsBorrowing(runs[r].ctx)' <=> IsBorrowing(runs[r].ctx))
    BY DEF SameFree, Owner, IsBorrowing
<1> QED BY <1>1, <1>2 DEF SameFree, Free

\* Rows at the logical length itself always fit.
LEMMA LengthFits ==
    ASSUME IInv, NEW c \in Contexts
    PROVE  Fits(c, pastLength[c])
<1>1. pastLength[c] \in Nat
    BY Shapes
<1>2. \A s \in SlidingSlots : Window[s] \in Nat /\ Capacity[s] \in Nat /\ Window[s] <= Capacity[s]
    BY Shapes DEF SlidingSlots
<1> QED BY <1>1, <1>2 DEF Fits

\* An issued run finds nothing awaiting a commit, or is reserved within the slack.
LEMMA IssueKeepsSlack ==
    ASSUME IInv, IInv', Slack, NEW r \in Runs, Issue(r)
    PROVE  Slack'
<1>1. RunTypes /\ RunTypes' /\ ContextTypes
    BY DEF IInv, TypeOK
<1>2. PICK c \in Contexts, query \in QueryLengths, scope \in Scopes, tag \in Tags \cup {NoTag} :
          \/ \E mode \in {"immediate", "deferred"} : IssuePlain(r, c, query, mode, scope, tag)
          \/ IssueChained(r, c, query, scope, tag)
          \/ RefuseChained(r, c, query)
    BY DEF Issue
<1>3. UNCHANGED <<phase, lender, pastLength, pending>> /\ runs[r].stage = "idle" /\ query \in Nat
    BY <1>2, ContextAssumption DEF IssuePlain, IssueChained, RefuseChained, Accept
<1>4. \A x \in Runs \ {r} : runs'[x] = runs[x]
    BY <1>1, <1>2 DEF IssuePlain, IssueChained, RefuseChained, Accept, RunTypes
<1>5. \A d \in Contexts : AwaitsCommit(d)' <=> AwaitsCommit(d)
    BY <1>3 DEF AwaitsCommit
<1>6. \A d \in Contexts : chain'[d] = chain[d] => SameRoom(d)
    BY <1>3 DEF SameRoom
<1>7. ASSUME NEW x \in Runs, x # r, Plain(x)' PROVE Free(x)'
  <2>1. runs'[x] = runs[x] /\ Plain(x)
      BY <1>4, <1>7 DEF Plain, Unsettled
  <2>2. Owner(runs[x].ctx) \in Contexts
      BY Shapes
  <2>3. AwaitsCommit(Owner(runs[x].ctx))' => AwaitsCommit(Owner(runs[x].ctx))
      BY <1>3, <2>1 DEF AwaitsCommit, Owner, IsBorrowing
  <2>4. SameFree(x)
      BY <1>3, <2>1, <2>3 DEF SameFree
  <2> QED BY <2>4, FreeKept
<1>8. \A d \in Contexts : IsBorrowing(d)' <=> IsBorrowing(d)
    BY <1>3 DEF IsBorrowing
<1>9. ASSUME NEW mode \in {"immediate", "deferred"}, IssuePlain(r, c, query, mode, scope, tag)
      PROVE  Slack'
  <2>1. /\ chain' = chain /\ ~AwaitsCommit(Owner(c))
        /\ mode = "deferred" => ~IsBorrowing(c) /\ WithinSlack(query)
      BY <1>9 DEF IssuePlain, Quiescent, Owner
  <2>2. runs'[r].ctx = c /\ runs'[r].mode = mode /\ runs'[r].query = query
      BY <1>1, <1>9 DEF IssuePlain, Accept, RunTypes
  <2>3. Owner(c) \in Contexts /\ Owner(c)' = Owner(c)
      BY <1>1, <1>3 DEF ContextTypes, Owner, IsBorrowing
  <2>4. ~AwaitsCommit(Owner(c))'
      BY <1>3, <2>1, <2>3 DEF AwaitsCommit
  <2>5. mode = "deferred" => \A s \in SlidingSlots : query + Window[s] <= Capacity[s]
      BY <1>3, <2>1, SlackFits
  <2>6. Free(r)'
      BY <1>8, <2>1, <2>2, <2>3, <2>4, <2>5 DEF Free
  <2>7. \A d \in Contexts : SameRoom(d)
      BY <1>6, <2>1
  <2> QED BY <1>7, <1>8, <2>6, <2>7, RoomKept DEF Slack
<1>10. ASSUME IssueChained(r, c, query, scope, tag) PROVE Slack'
  <2> DEFINE end == ChainStart(c) + query
  <2>1. /\ chain' = [chain EXCEPT ![c] = Reserve(@, r, ChainStart(c), query, scope)]
        /\ ~IsBorrowing(c) /\ WithinSlack(end - pastLength[c])
      BY <1>10 DEF IssueChained, CanReserve
  <2>2. chain'[c].end = end /\ \A d \in Contexts \ {c} : chain'[d] = chain[d]
      BY <1>1, <2>1 DEF RunTypes, Reserve
  <2>3. /\ pastLength[c] \in Nat /\ ChainStart(c) \in Nat
      BY Shapes DEF ChainStart
  <2>4. Room(c) /\ pastLength[c] <= end /\ UncommittedEnd(c) <= end
    <3>1. Room(c)
        BY <2>1 DEF Slack
    <3>2. pastLength[c] <= UncommittedEnd(c)
        BY <3>1, Shapes DEF Room, UncommittedEnd
    <3>3. UncommittedEnd(c) <= ChainStart(c)
        BY <3>1, Shapes DEF Room, ChainStart
    <3>4. pastLength[c] \in Nat /\ UncommittedEnd(c) \in Nat
        BY Shapes
    <3> QED BY <1>3, <2>3, <3>1, <3>2, <3>3, <3>4
  <2>5. Fits(c, end)
    <3> SUFFICES ASSUME NEW s \in SlidingSlots PROVE end + Window[s] <= pastLength[c] + Capacity[s]
        BY DEF Fits
    <3>1. end - pastLength[c] \in Nat
        BY <1>3, <2>3, <2>4
    <3>2. (end - pastLength[c]) + Window[s] <= Capacity[s]
        BY <2>1, <3>1, SlackFits
    <3>3. Window[s] \in Nat /\ Capacity[s] \in Nat
        BY Shapes DEF SlidingSlots
    <3> QED BY <1>3, <2>3, <3>2, <3>3
  <2> HIDE DEF end
  <2>6. Room(c)'
    <3>1. UncommittedEnd(c)' = UncommittedEnd(c) /\ (AwaitsCommit(c)' <=> AwaitsCommit(c))
        BY <1>3 DEF UncommittedEnd, AwaitsCommit
    <3> QED BY <1>3, <2>2, <2>4, <2>5, <3>1 DEF Room, Fits
  <2>7. ~Plain(r)'
    <3>1. runs'[r].mode = "chained"
        BY <1>1, <1>10 DEF IssueChained, Accept, RunTypes
    <3> QED BY <3>1 DEF Plain
  <2>8. \A d \in Contexts \ {c} : SameRoom(d)
      BY <1>6, <2>2
  <2> QED BY <1>7, <1>8, <2>6, <2>7, <2>8, RoomKept DEF Slack
<1>11. ASSUME RefuseChained(r, c, query) PROVE Slack'
  <2> DEFINE start == ChainStart(c)
             after == Return(Reserve(chain[c], r, start, query, "batch"), r, start, query)
  <2>1. chain' = [chain EXCEPT ![c] = after] /\ UNCHANGED runs
      BY <1>11 DEF RefuseChained
  <2>2. chain'[c] = after /\ \A d \in Contexts \ {c} : chain'[d] = chain[d]
      BY <1>1, <2>1 DEF RunTypes
  <2>3. after # NoChain => chain[c] # NoChain /\ after.end = chain[c].end
    <3>1. r \notin chain[c].runs
        BY <1>3 DEF IInv, Lease, LeasePoints, Unsettled
    <3>2. CASE chain[c].runs = {}
        BY <3>2 DEF Return, Reserve
    <3>3. CASE chain[c].runs # {}
      <4>1. chain[c] # NoChain
          BY <3>3 DEF NoChain
      <4>2. start = chain[c].end
          BY <4>1 DEF ChainStart
      <4>3. after.end = start
          BY <3>1, <3>3 DEF Return, Reserve
      <4> QED BY <4>1, <4>2, <4>3
    <3> QED BY <3>2, <3>3
  <2> HIDE DEF after
  <2>4. SameRoom(c)
      BY <1>3, <2>2, <2>3 DEF SameRoom
  <2>5. \A d \in Contexts : SameRoom(d)
      BY <1>6, <2>2, <2>4
  <2>6. ~Plain(r)'
      BY <1>3, <2>1 DEF Plain, Unsettled
  <2> QED BY <1>7, <1>8, <2>5, <2>6, RoomKept DEF Slack
<1> QED BY <1>2, <1>9, <1>10, <1>11

\* A settlement moves the uncommitted range to the end of runs that fit.
LEMMA SettleKeepsSlack ==
    ASSUME IInv, CapturedLengthHolds, Tiling, Slack, Coverage,
           SettleBatch \/ \E r \in Runs : SettleRun(r)
    PROVE  Slack'
<1>1. RunTypes /\ ContextTypes
    BY DEF IInv, TypeOK
<1>2. /\ UNCHANGED <<phase, lender>>
      /\ \A c \in Contexts : chain'[c] = chain[c] \/ chain'[c] = NoChain
      /\ \A x \in Runs : Plain(x)' => runs'[x] = runs[x] /\ Plain(x)
  <2>1. ASSUME NEW r \in Runs, SettleRun(r) PROVE <1>2!:
    <3>1. UNCHANGED <<phase, lender, chain>> /\ runs' = [runs EXCEPT ![r].stage = "settled"]
        BY <2>1 DEF SettleRun
    <3>2. runs'[r].stage = "settled" /\ \A x \in Runs \ {r} : runs'[x] = runs[x]
        BY <1>1, <3>1 DEF RunTypes, Run
    <3> QED BY <3>1, <3>2 DEF Plain, Unsettled
  <2>2. CASE SettleBatch
    <3>1. /\ UNCHANGED <<phase, lender>>
          /\ runs' = [r \in Runs |-> IF r \in BatchRuns THEN IdleRun ELSE runs[r]]
          /\ \A c \in Contexts : chain'[c] = chain[c] \/ chain'[c] = NoChain
        BY <2>2 DEF SettleBatch
    <3> QED BY <3>1 DEF Plain, Unsettled, IdleRun
  <2> QED BY <2>1, <2>2
<1>3. \A c \in Contexts : IsBorrowing(c)' <=> IsBorrowing(c)
    BY <1>2 DEF IsBorrowing
<1>4. ASSUME NEW c \in Contexts, ~IsBorrowing(c), NEW R \in SUBSET RunsOf(c), Settles(c, R)
      PROVE  Room(c)'
  <2>1. /\ \A r \in RunsOf(c) : r \in Runs /\ Unsettled(r) /\ runs[r].ctx = c
        /\ \A r \in R : r \in RunsOf(c) /\ runs[r].stage = "written"
      BY <1>4 DEF RunsOf, Unsettled, Settles
  <2>2. phase[c] \notin {"absent", "allocating"} /\ phase'[c] = phase[c]
    <3>1. RunsOf(c) # {}
        BY <1>4 DEF Settles
    <3> QED BY <1>2, <2>1, <3>1 DEF IInv, Lease, RunsExist
  <2>3. chain[c] # NoChain => \E x \in RunsOf(c) : runs[x].mode = "chained"
    <3> SUFFICES ASSUME chain[c] # NoChain PROVE \E x \in RunsOf(c) : runs[x].mode = "chained"
        OBVIOUS
    <3>1. PICK x \in chain[c].runs : TRUE
        BY DEF IInv, Lease, ChainsHold
    <3> QED BY <3>1, Shapes DEF IInv, Lease, LeasePoints, RunsOf, Unsettled
  <2>4. CASE Advanced(c, R) /\ ~AwaitsCommit(c)'
             /\ \E r \in R : /\ R = {r} /\ pastLength'[c] = RunEnd(r)
                             /\ UncommittedEnd(c)' = RunEnd(r)
    <3>1. PICK r \in R : /\ runs[r].mode = "immediate"
                         /\ pastLength'[c] = RunEnd(r) /\ UncommittedEnd(c)' = RunEnd(r)
        BY <2>4 DEF Advanced
    <3>2. chain'[c] = NoChain
      <4>1. ASSUME NEW x \in RunsOf(c), runs[x].mode = "chained" PROVE FALSE
          BY <2>1, <3>1, <4>1, Apart
      <4> QED BY <1>2, <2>3, <4>1
    <3>3. RunEnd(r) \in Nat
        BY <2>1, Shapes
    <3>4. Fits(c, UncommittedEnd(c))'
      <4>1. \A s \in SlidingSlots : Window[s] \in Nat /\ Capacity[s] \in Nat /\ Window[s] <= Capacity[s]
          BY Shapes DEF SlidingSlots
      <4> QED BY <3>1, <3>3, <4>1 DEF Fits
    <3> QED BY <2>2, <2>4, <3>2, <3>4 DEF Room
  <2>5. CASE /\ Deferred(c, R) /\ pastLength'[c] = pastLength[c]
             /\ AwaitsCommit(c)' => pending'[c].pastLength = pastLength'[c]
             /\ \E r \in R : /\ UncommittedEnd(c)' = RunEnd(r)
                             /\ \A x \in R : RunEnd(x) <= RunEnd(r)
    <3>1. PICK r \in R : UncommittedEnd(c)' = RunEnd(r)
        BY <2>5
    <3>2. r \in Runs /\ Unsettled(r) /\ runs[r].ctx = c /\ runs[r].stage = "written"
          /\ runs[r].mode # "immediate"
        BY <2>1, <2>5 DEF Deferred
    <3>3. Fits(c, RunEnd(r))
        BY <1>4, <3>2, Placed
    <3>4. Fits(c, UncommittedEnd(c))'
        BY <2>5, <3>1, <3>3 DEF Fits
    <3>5. chain[c] # NoChain => /\ Fits(c, chain[c].end)
                                /\ RunEnd(r) <= chain[c].end
      <4> SUFFICES ASSUME chain[c] # NoChain
                   PROVE  Fits(c, chain[c].end) /\ RunEnd(r) <= chain[c].end
          OBVIOUS
      <4>1. PICK x \in RunsOf(c) : runs[x].mode = "chained"
          BY <2>3
      <4>2. runs[r].mode = "chained"
          BY <2>1, <3>2, <4>1, Apart
      <4>3. r \in Members(c)
          BY <3>2, <4>2, ChainedMember
      <4>4. RunEnd(r) <= chain[c].end
          BY <4>3 DEF Tiling, Tiled
      <4> QED BY <1>4, <4>4 DEF Slack, Room
    <3>6. chain'[c] # NoChain => Fits(c, chain[c].end)' /\ chain'[c] = chain[c]
        BY <1>2, <2>5, <3>5 DEF Fits
    <3> QED BY <2>2, <2>5, <3>1, <3>4, <3>5, <3>6 DEF Room, Fits
  <2> QED BY <1>4, <2>4, <2>5, EndsMoved
<1>5. ASSUME NEW c \in Contexts, ~IsBorrowing(c) PROVE Room(c)'
  <2>1. \/ \E R \in SUBSET RunsOf(c) : Settles(c, R)
        \/ UNCHANGED <<pastLength[c], pending[c], history[c]>>
      BY SettleKinds DEF Concluding
  <2>2. ASSUME UNCHANGED <<pastLength[c], pending[c], history[c]>> PROVE Room(c)'
    <3>1. Room(c)
        BY <1>5 DEF Slack
    <3>2. SameRoom(c)
        BY <1>2, <2>2 DEF SameRoom
    <3> QED BY <3>1, <3>2, RoomKept
  <2> QED BY <1>4, <1>5, <2>1, <2>2
<1>6. ASSUME NEW x \in Runs, Plain(x)' PROVE Free(x)'
  <2>1. runs'[x] = runs[x] /\ Plain(x)
      BY <1>2, <1>6
  <2>2. PICK o \in Contexts : o = Owner(runs[x].ctx)
      BY Shapes
  <2>3. ~IsBorrowing(o) /\ Owner(o) = o
      BY <2>2, Shapes DEF IInv, Borrowing, Owner, IsBorrowing
  <2>4. pending'[o] = pending[o]
    <3>1. ASSUME NEW y \in RunsOf(o), runs'[y].stage \in {"settled", "idle"} PROVE FALSE
      <4>1. y \in Runs /\ Unsettled(y) /\ Owner(runs[y].ctx) = o
          BY <2>3 DEF RunsOf, Unsettled
      <4>2. y = x
          BY <2>1, <2>2, <4>1, AloneOf DEF Plain
      <4> QED BY <1>6, <3>1, <4>2 DEF Plain, Unsettled
    <3>2. ~Concluding(o)
        BY <3>1 DEF Concluding, Settles
    <3> QED BY <3>2, SettleKinds
  <2>5. SameFree(x)
      BY <1>2, <2>1, <2>2, <2>4 DEF SameFree, AwaitsCommit, Owner, IsBorrowing
  <2> QED BY <2>5, FreeKept
<1> QED BY <1>3, <1>5, <1>6 DEF Slack

\* A run keeps the slack up to its settlement, and gives its reservation back
\* when no other stands.
LEMMA RunKeepsSlack ==
    ASSUME IInv, CapturedLengthHolds, Tiling, Slack, Coverage, NEW r \in Runs, RunStep(r)
    PROVE  Slack'
<1>1. RunTypes /\ LengthTypes /\ RunsTyped
    BY TypedRuns DEF IInv, TypeOK
<1>2. PICK c \in Contexts : c = runs[r].ctx
    BY <1>1 DEF RunsTyped
<1>3. UNCHANGED <<phase, lender>>
    BY RunsLeaveLives
<1>4. ASSUME UNCHANGED pending,
             \A d \in Contexts : chain'[d] = chain[d] \/ chain'[d] = NoChain,
             \A d \in Contexts : ~IsBorrowing(d) => pastLength'[d] = pastLength[d],
             \A x \in Runs : Plain(x)' => /\ Plain(x) /\ runs'[x].ctx = runs[x].ctx
                                          /\ runs'[x].mode = runs[x].mode
                                          /\ runs'[x].query = runs[x].query
      PROVE  Slack'
  <2>1. ASSUME NEW d \in Contexts, ~IsBorrowing(d) PROVE Room(d)'
      BY <1>3, <1>4, <2>1, RoomKept DEF Slack, SameRoom
  <2>2. ASSUME NEW x \in Runs, Plain(x)' PROVE Free(x)'
    <3>1. SameFree(x)
        BY <1>3, <1>4, <2>2 DEF SameFree, AwaitsCommit, Owner, IsBorrowing
    <3> QED BY <3>1, FreeKept
  <2> QED BY <1>3, <2>1, <2>2 DEF Slack, IsBorrowing
<1>5. ASSUME NEW ok \in BOOLEAN, NEW wrote \in BOOLEAN, EndBody(r, ok, wrote),
             runs[r].stage \in {"queued", "started"}, UNCHANGED <<chain, pastLength, pending>>
      PROVE  Slack'
  <2>1. /\ runs'[r] = [runs[r] EXCEPT !.stage = IF ok THEN "written" ELSE "failed", !.wrote = wrote]
        /\ \A x \in Runs \ {r} : runs'[x] = runs[x]
      BY <1>1, <1>5 DEF EndBody, RunTypes
  <2>2. /\ runs'[r].ctx = runs[r].ctx /\ runs'[r].mode = runs[r].mode
        /\ runs'[r].query = runs[r].query
      BY <1>1, <2>1 DEF RunTypes, Run
  <2> QED BY <1>4, <1>5, <2>1, <2>2 DEF Plain, Unsettled
<1>6. CASE StartBody(r)
  <2>1. runs[r].stage = "queued" /\ UNCHANGED <<chain, pending>>
      BY <1>6 DEF StartBody
  <2>2. CASE EndBody(r, FALSE, FALSE) /\ UNCHANGED pastLength
      BY <1>5, <2>1, <2>2
  <2>3. ASSUME ~(EndBody(r, FALSE, FALSE) /\ UNCHANGED pastLength) PROVE Slack'
    <3>1. /\ \E start : runs' = [runs EXCEPT ![r] =
                                  [@ EXCEPT !.stage = "started", !.start = start]]
          /\ pastLength' = [pastLength EXCEPT ![c] = pastLength[Owner(c)]]
        BY <1>2, <1>6, <2>3 DEF StartBody
    <3>2. /\ runs'[r].ctx = runs[r].ctx /\ runs'[r].mode = runs[r].mode
          /\ runs'[r].query = runs[r].query
          /\ \A x \in Runs \ {r} : runs'[x] = runs[x]
        BY <1>1, <3>1 DEF RunTypes, Run
    <3>3. \A d \in Contexts : ~IsBorrowing(d) => pastLength'[d] = pastLength[d]
        BY <1>1, <3>1 DEF LengthTypes, Owner
    <3> QED BY <1>4, <2>1, <3>2, <3>3 DEF Plain, Unsettled
  <2> QED BY <2>2, <2>3
<1>7. CASE WriteBody(r) \/ DropBody(r) \/ BreakBody(r)
  <2>1. \E ok, wrote \in BOOLEAN : EndBody(r, ok, wrote)
      BY <1>7 DEF WriteBody, DropBody, BreakBody
  <2>2. runs[r].stage = "started" /\ UNCHANGED <<chain, pastLength, pending>>
      BY <1>7 DEF WriteBody, DropBody, BreakBody
  <2> QED BY <1>5, <2>1, <2>2
<1>8. CASE ReleaseRun(r)
  <2>1. /\ runs[r].stage = "settled" /\ runs' = [runs EXCEPT ![r] = IdleRun]
        /\ UNCHANGED <<pastLength, pending>>
        /\ chain' = IF runs[r].mode = "chained"
                    THEN [chain EXCEPT ![c] = Return(@, r, runs[r].start, runs[r].query)]
                    ELSE chain
      BY <1>2, <1>8 DEF ReleaseRun
  <2>2. runs[r].kind = "run" /\ Unsettled(r)
      BY <2>1 DEF IInv, Lease, ChainsHold, Unsettled
  <2>3. runs'[r].stage = "idle" /\ \A x \in Runs \ {r} : runs'[x] = runs[x]
      BY <1>1, <2>1 DEF RunTypes, IdleRun
  <2>4. \A d \in Contexts \ {c} : chain'[d] = chain[d]
      BY <1>1, <2>1 DEF RunTypes
  <2>5. chain'[c] = chain[c] \/ chain'[c] = NoChain
    <3>1. CASE runs[r].mode = "chained"
      <4>1. chain'[c] = Return(chain[c], r, runs[r].start, runs[r].query)
          BY <1>1, <2>1, <3>1 DEF RunTypes
      <4>2. RunsOf(c) = {r}
          BY <1>2, <2>2, SettlesAll
      <4>3. chain[c].runs = {r}
          BY <1>2, <2>2, <3>1, <4>2, Shapes DEF IInv, Lease, LeasePoints, RunsOf, Unsettled
      <4> QED BY <4>1, <4>3 DEF Return
    <3>2. CASE runs[r].mode # "chained"
        BY <2>1, <3>2
    <3> QED BY <3>1, <3>2
  <2> QED BY <1>4, <2>1, <2>3, <2>4, <2>5 DEF Plain, Unsettled
<1> QED BY <1>6, <1>7, <1>8, SettleKeepsSlack DEF RunStep

\* A context without runs has no chain.
LEMMA NoRunNoChain ==
    ASSUME IInv, NEW c \in Contexts, \A r \in Runs : Unsettled(r) => runs[r].ctx # c
    PROVE  RunsOf(c) = {} /\ chain[c] = NoChain
<1>1. RunsOf(c) = {}
    BY DEF RunsOf, Unsettled
<1>2. chain[c].runs = {}
    BY Shapes DEF IInv, Lease, LeasePoints
<1> QED BY <1>1, <1>2 DEF IInv, Lease, ChainsHold

\* So has one that is not leased.
LEMMA UnleasedHasNoRun ==
    ASSUME IInv, NEW c \in Contexts, runKind[c] = "none"
    PROVE  \A r \in Runs : Unsettled(r) => runs[r].ctx # c /\ Owner(runs[r].ctx) # c
BY DEF IInv, Lease, LeasePoints, HoldsLease

\* Where nothing is uncommitted or reserved there is room.
LEMMA RoomAtRest ==
    ASSUME NEW c \in Contexts, ~AwaitsCommit(c)', chain'[c] = NoChain, pastLength'[c] \in Nat
    PROVE  Room(c)'
<1>1. UncommittedEnd(c)' = pastLength'[c]
    BY DEF UncommittedEnd
<1>2. \A s \in SlidingSlots : Window[s] \in Nat /\ Capacity[s] \in Nat /\ Window[s] <= Capacity[s]
    BY SlotsAssumption DEF SlidingSlots
<1> QED BY <1>1, <1>2 DEF Room, Fits

\* A commit, a rewind and a fork leave nothing uncommitted.
LEMMA LifeKeepsSlack ==
    ASSUME IInv, IInv', Turns, Slack, NEW c \in Contexts, ContextStep(c)
    PROVE  Slack'
<1>1. LengthTypes /\ LengthTypes' /\ ContextTypes
    BY DEF IInv, TypeOK
<1>2. UNCHANGED <<runs, chain>>
    BY DEF ContextStep, Commit, Rewind, Borrow, Fork, RegisterBorrower, AdoptFork, Dispose,
           StartDisposal, FinishDisposal
<1>3. ASSUME NEW e \in Contexts, ~IsBorrowing(e)' => Room(e)',
             \A r \in Runs : Unsettled(r) => lender'[runs[r].ctx] = lender[runs[r].ctx],
             \A d \in Contexts \ {e} : /\ pastLength'[d] = pastLength[d]
                                       /\ pending'[d] = pending[d]
                                       /\ phase'[d] = phase[d] /\ lender'[d] = lender[d],
             AwaitsCommit(e)' => AwaitsCommit(e)
      PROVE  Slack'
  <2>1. ASSUME NEW d \in Contexts, ~IsBorrowing(d)' PROVE Room(d)'
    <3>1. CASE d = e
        BY <1>3, <2>1, <3>1
    <3>2. CASE d # e
      <4>1. Room(d) /\ SameRoom(d)
          BY <1>2, <1>3, <2>1, <3>2 DEF Slack, SameRoom, IsBorrowing
      <4> QED BY <4>1, RoomKept
    <3> QED BY <3>1, <3>2
  <2>2. ASSUME NEW x \in Runs, Plain(x)' PROVE Free(x)'
    <3>1. Plain(x) /\ lender'[runs[x].ctx] = lender[runs[x].ctx]
        BY <1>2, <1>3, <2>2 DEF Plain, Unsettled
    <3>2. PICK o \in Contexts : o = Owner(runs[x].ctx)
        BY Shapes
    <3>3. AwaitsCommit(o)' => AwaitsCommit(o)
        BY <1>3 DEF AwaitsCommit
    <3>4. Owner(runs[x].ctx)' = o
        BY <1>2, <3>1, <3>2 DEF Owner, IsBorrowing
    <3>5. SameFree(x)
        BY <1>2, <3>1, <3>2, <3>3, <3>4 DEF SameFree
    <3> QED BY <3>5, FreeKept
  <2> QED BY <2>1, <2>2 DEF Slack
<1>4. ASSUME NEW n \in Nat, Commit(c, n) \/ Rewind(c, n) PROVE Slack'
  <2>1. runKind[c] = "none" /\ UNCHANGED <<phase, lender>>
      BY <1>4 DEF Commit, Rewind, Quiescent
  <2>2. chain'[c] = NoChain
      BY <1>2, <2>1, UnleasedHasNoRun, NoRunNoChain
  <2>3. /\ \A d \in Contexts \ {c} : pastLength'[d] = pastLength[d] /\ pending'[d] = pending[d]
        /\ ~AwaitsCommit(c)'
      BY <1>1, <1>4 DEF Commit, Rewind, Quiescent, AwaitsCommit, LengthTypes
  <2>4. Room(c)'
      BY <1>1, <2>2, <2>3, RoomAtRest DEF LengthTypes
  <2> QED BY <1>3, <2>1, <2>3, <2>4
<1>5. ASSUME NEW d \in Contexts, Fork(c, d) PROVE Slack'
  <2>1. /\ phase[d] = "absent" /\ UNCHANGED <<lender, pending>>
        /\ phase' = [phase EXCEPT ![d] = "allocating"]
        /\ pastLength' = [pastLength EXCEPT ![d] = pastLength[c]]
      BY <1>5 DEF Fork
  <2>2. \A x \in Contexts \ {d} : phase'[x] = phase[x] /\ pastLength'[x] = pastLength[x]
      BY <1>1, <2>1 DEF LengthTypes, ContextTypes
  <2>3. ~IsBorrowing(d) /\ ~AwaitsCommit(d)
      BY <2>1 DEF IInv, Borrowing, Slack, Room
  <2>4. chain'[d] = NoChain
      BY <1>2, <2>1, NoRunNoChain DEF IInv, Lease, RunsExist
  <2>5. Room(d)'
      BY <1>1, <2>1, <2>3, <2>4, RoomAtRest DEF AwaitsCommit, LengthTypes
  <2> QED BY <1>3, <2>1, <2>2, <2>3, <2>5 DEF AwaitsCommit
<1>6. ASSUME NEW d \in Contexts, Borrow(c, d) PROVE Slack'
  <2>1. /\ phase[d] = "absent" /\ UNCHANGED <<pastLength, pending>>
        /\ phase' = [phase EXCEPT ![d] = "allocating"]
        /\ lender' = [lender EXCEPT ![d] = c]
      BY <1>6 DEF Borrow
  <2>2. /\ IsBorrowing(d)'
        /\ \A x \in Contexts \ {d} : phase'[x] = phase[x] /\ lender'[x] = lender[x]
      BY <1>1, <2>1, ContextAssumption DEF ContextTypes, IsBorrowing
  <2>3. \A r \in Runs : Unsettled(r) => runs[r].ctx # d /\ runs[r].ctx \in Contexts
      BY <2>1, Shapes DEF IInv, Lease, RunsExist
  <2> QED BY <1>3, <2>1, <2>2, <2>3 DEF AwaitsCommit
<1>7. CASE RegisterBorrower(c) \/ AdoptFork(c) \/ Dispose(c) \/ StartDisposal(c)
  <2>1. /\ UNCHANGED <<lender, pastLength, pending>> /\ phase[c] # "absent"
        /\ \E p \in {"open", "closed", "closing", "disposed"} : phase' = [phase EXCEPT ![c] = p]
      BY <1>7 DEF RegisterBorrower, AdoptFork, Dispose, StartDisposal
  <2>2. /\ \A x \in Contexts \ {c} : phase'[x] = phase[x]
        /\ phase'[c] \notin {"absent", "allocating"}
      BY <1>1, <2>1 DEF ContextTypes
  <2>3. SameRoom(c)
      BY <1>2, <2>1, <2>2 DEF SameRoom
  <2>4. ~IsBorrowing(c)' => Room(c)'
      BY <2>1, <2>3, RoomKept DEF Slack, IsBorrowing
  <2> QED BY <1>3, <2>1, <2>2, <2>4 DEF AwaitsCommit
<1>8. CASE FinishDisposal(c)
  <2>1. /\ UNCHANGED <<lender, pastLength>> /\ phase[c] = "disposed"
        /\ phase' = [phase EXCEPT ![c] = "closed"]
        /\ pending' = [pending EXCEPT ![c] = NoPending]
      BY <1>8 DEF FinishDisposal
  <2>2. /\ \A x \in Contexts \ {c} : phase'[x] = phase[x] /\ pending'[x] = pending[x]
        /\ ~AwaitsCommit(c)'
      BY <1>1, <2>1 DEF ContextTypes, LengthTypes, AwaitsCommit
  <2>3. chain'[c] = NoChain
      BY <1>2, <2>1, NoRunNoChain DEF Turns, Held
  <2>4. Room(c)'
      BY <1>1, <2>2, <2>3, RoomAtRest DEF LengthTypes
  <2> QED BY <1>3, <2>1, <2>2, <2>4
<1> QED BY <1>4, <1>5, <1>6, <1>7, <1>8, LifeKinds

\* Every step keeps the slack.
LEMMA SlackStep ==
    ASSUME IInv, IInv', Turns, CapturedLengthHolds, Tiling, Slack, Coverage, [Next]_vars
    PROVE  Slack'
<1>1. CASE BeginBatch \/ FinishBatch \/ DeviceLoss \/ UNCHANGED vars
  <2>1. UNCHANGED <<phase, lender, pastLength, pending, chain, runs>>
      BY <1>1 DEF BeginBatch, FinishBatch, DeviceLoss, contextVars, vars
  <2>2. \A c \in Contexts : SameRoom(c) /\ (IsBorrowing(c)' <=> IsBorrowing(c))
      BY <2>1 DEF SameRoom, IsBorrowing
  <2>3. \A x \in Runs : Plain(x)' => SameFree(x)
      BY <2>1 DEF Plain, Unsettled, SameFree, AwaitsCommit, Owner, IsBorrowing
  <2> QED BY <2>2, <2>3, RoomKept, FreeKept DEF Slack
<1> QED BY <1>1, IssueKeepsSlack, RunKeepsSlack, SettleKeepsSlack, LifeKeepsSlack DEF Next

\* Initially nothing is uncommitted or accepted.
LEMMA InitSlack == Init => Slack
<1> SUFFICES ASSUME Init PROVE Slack
    OBVIOUS
<1>1. \A c \in Contexts : ~AwaitsCommit(c) /\ chain[c] = NoChain /\ pastLength[c] = 0
    BY DEF Init, AwaitsCommit
<1>2. \A s \in SlidingSlots : Window[s] \in Nat /\ Capacity[s] \in Nat /\ Window[s] <= Capacity[s]
    BY SlotsAssumption DEF SlidingSlots
<1>3. \A c \in Contexts : Room(c)
    BY <1>1, <1>2 DEF Room, Fits, UncommittedEnd
<1>4. \A r \in Runs : ~Plain(r)
    BY DEF Init, Plain, Unsettled, IdleRun
<1> QED BY <1>3, <1>4 DEF Slack
------------------------------------------------------------------------------
(* Every step keeps the coverage. *)

\* What the coverage of a context depends on, and how it may change.
SameCover(c) ==
    \/ chain'[c] = NoChain
    \/ /\ chain[c] # NoChain
       /\ chain'[c].runs = chain[c].runs /\ chain'[c].end = chain[c].end
       /\ pastLength'[c] = pastLength[c] /\ pending'[c] = pending[c]
       /\ \A r \in chain[c].runs : /\ runs'[r].start = runs[r].start
                                   /\ runs'[r].query = runs[r].query
                                   /\ runs[r].stage = "settled" => runs'[r].stage = "settled"

\* The cover stays while that does.
LEMMA CoverKept ==
    ASSUME NEW c \in Contexts, Covered(c), SameCover(c)
    PROVE  Covered(c)'
<1>1. CASE chain'[c] = NoChain
    BY <1>1 DEF Covered, Members, NoChain
<1>2. CASE chain'[c] # NoChain
  <2>1. UncommittedEnd(c)' = UncommittedEnd(c)
      BY <1>2 DEF SameCover, UncommittedEnd, AwaitsCommit
  <2>2. Members(c)' \subseteq Members(c) /\ \A r \in Members(c) : runs'[r].start = runs[r].start
      BY <1>2 DEF SameCover, Members
  <2>3. \A r \in chain[c].runs : \A col : Covers(r, col)' <=> Covers(r, col)
      BY <1>2 DEF SameCover, Covers, RunEnd
  <2> QED BY <1>2, <2>1, <2>2, <2>3 DEF SameCover, Covered
<1> QED BY <1>1, <1>2

\* An issued run that is chained takes the columns after those of the chain.
LEMMA IssueKeepsCoverage ==
    ASSUME IInv, IInv', Tiling, Slack, Coverage, NEW r \in Runs, Issue(r)
    PROVE  Coverage'
<1>1. RunTypes /\ RunTypes'
    BY DEF IInv, TypeOK
<1>2. PICK c \in Contexts, query \in QueryLengths, scope \in Scopes, tag \in Tags \cup {NoTag} :
          \/ \E mode \in {"immediate", "deferred"} : IssuePlain(r, c, query, mode, scope, tag)
          \/ IssueChained(r, c, query, scope, tag)
          \/ RefuseChained(r, c, query)
    BY DEF Issue
<1>3. UNCHANGED <<lender, pastLength, pending>> /\ runs[r].stage = "idle" /\ query \in Nat
    BY <1>2, ContextAssumption DEF IssuePlain, IssueChained, RefuseChained, Accept
<1>4. \A x \in Runs \ {r} : runs'[x] = runs[x]
    BY <1>1, <1>2 DEF IssuePlain, IssueChained, RefuseChained, Accept, RunTypes
<1>5. \A d \in Contexts : r \notin chain[d].runs /\ chain[d].runs \subseteq Runs
    BY <1>1, <1>3 DEF IInv, Lease, LeasePoints, Unsettled, RunTypes
<1>6. \A d \in Contexts : chain'[d] = chain[d] => SameCover(d)
    BY <1>3, <1>4, <1>5 DEF SameCover
<1>7. ASSUME NEW mode \in {"immediate", "deferred"}, IssuePlain(r, c, query, mode, scope, tag)
      PROVE  Coverage'
    BY <1>6, <1>7, CoverKept DEF IssuePlain, Coverage
<1>8. ASSUME IssueChained(r, c, query, scope, tag) PROVE Coverage'
  <2> DEFINE start == ChainStart(c)
  <2>1. /\ chain' = [chain EXCEPT ![c] = Reserve(@, r, start, query, scope)]
        /\ runs' = [runs EXCEPT ![r] =
                      [stage |-> "queued", ctx |-> c, kind |-> scope, mode |-> "chained",
                       query |-> query, start |-> start, tag |-> tag, wrote |-> FALSE]]
        /\ ~IsBorrowing(c)
      BY <1>8 DEF IssueChained, Accept, CanReserve
  <2>2. /\ chain'[c].runs = chain[c].runs \cup {r} /\ chain'[c].end = start + query
        /\ \A d \in Contexts \ {c} : chain'[d] = chain[d]
      BY <1>1, <2>1 DEF RunTypes, Reserve
  <2>3. runs'[r].start = start /\ runs'[r].query = query
      BY <1>1, <2>1 DEF RunTypes
  <2>4. UncommittedEnd(c)' = UncommittedEnd(c)
      BY <1>3 DEF UncommittedEnd, AwaitsCommit
  <2>5. /\ start \in Nat /\ UncommittedEnd(c) \in Nat /\ UncommittedEnd(c) <= start
        /\ chain[c] # NoChain => start = chain[c].end
        /\ chain[c] = NoChain => start = UncommittedEnd(c)
      BY <2>1, Shapes DEF ChainStart, Slack, Room
  <2> HIDE DEF start
  <2>6. \A x \in chain[c].runs : /\ runs'[x] = runs[x]
                                 /\ \A col : Covers(x, col)' <=> Covers(x, col)
      BY <1>4, <1>5 DEF Covers, RunEnd
  <2>7. ASSUME NEW x \in Members(c)' PROVE UncommittedEnd(c)' <= runs'[x].start
    <3>1. CASE x = r
        BY <2>3, <2>4, <2>5, <3>1
    <3>2. CASE x # r
      <4>1. x \in Members(c)
          BY <2>2, <2>6, <2>7, <3>2 DEF Members
      <4> QED BY <1>5, <2>4, <2>6, <4>1 DEF Coverage, Covered, Members
    <3> QED BY <3>1, <3>2
  <2>8. ASSUME NEW col \in UncommittedEnd(c)' .. (chain'[c].end - 1)
        PROVE  \E x \in chain'[c].runs : Covers(x, col)'
    <3>1. CASE col < start
      <4>1. chain[c] # NoChain /\ col \in UncommittedEnd(c) .. (chain[c].end - 1)
          BY <2>4, <2>5, <2>8, <3>1
      <4>2. PICK x \in chain[c].runs : Covers(x, col)
          BY <4>1 DEF Coverage, Covered
      <4> QED BY <2>2, <2>6, <4>2
    <3>2. CASE start <= col
      <4>1. col < start + query
          BY <1>3, <2>2, <2>4, <2>5, <2>8
      <4> QED BY <2>2, <2>3, <3>2, <4>1 DEF Covers, RunEnd
    <3> QED BY <2>4, <2>5, <2>8, <3>1, <3>2
  <2>9. Covered(c)'
      BY <2>7, <2>8 DEF Covered
  <2>10. \A d \in Contexts \ {c} : Covered(d)'
      BY <1>6, <2>2, CoverKept DEF Coverage
  <2> QED BY <2>9, <2>10 DEF Coverage
<1>9. ASSUME RefuseChained(r, c, query) PROVE Coverage'
  <2> DEFINE start == ChainStart(c)
             after == Return(Reserve(chain[c], r, start, query, "batch"), r, start, query)
  <2>1. chain' = [chain EXCEPT ![c] = after]
      BY <1>9 DEF RefuseChained
  <2>2. chain'[c] = after /\ \A d \in Contexts \ {c} : chain'[d] = chain[d]
      BY <1>1, <2>1 DEF RunTypes
  <2>3. \/ after = NoChain
        \/ chain[c] # NoChain /\ after.runs = chain[c].runs /\ after.end = chain[c].end
    <3>1. CASE chain[c].runs = {}
        BY <3>1 DEF Return, Reserve
    <3>2. CASE chain[c].runs # {}
      <4>1. chain[c] # NoChain
          BY <3>2 DEF NoChain
      <4>2. start = chain[c].end
          BY <4>1 DEF ChainStart
      <4>3. after.runs = chain[c].runs /\ after.end = start
          BY <1>5, <3>2 DEF Return, Reserve
      <4> QED BY <4>1, <4>2, <4>3
    <3> QED BY <3>1, <3>2
  <2> HIDE DEF after
  <2>4. SameCover(c)
      BY <1>3, <1>4, <1>5, <2>2, <2>3 DEF SameCover
  <2> QED BY <1>6, <2>2, <2>4, CoverKept DEF Coverage
<1> QED BY <1>2, <1>7, <1>8, <1>9

\* A settlement returns the chain, or moves the uncommitted range to its end.
LEMMA SettleKeepsCoverage ==
    ASSUME IInv, CapturedLengthHolds, Tiling, Slack, Coverage,
           SettleBatch \/ \E r \in Runs : SettleRun(r)
    PROVE  Coverage'
<1>1. RunTypes
    BY DEF IInv, TypeOK
<1> SUFFICES ASSUME NEW c \in Contexts PROVE Covered(c)'
    BY DEF Coverage
<1>2. CASE SettleBatch
  <2> DEFINE Held0(d) == \E r \in BatchRuns : d \in {runs[r].ctx, Owner(runs[r].ctx)}
  <2>1. /\ runs' = [r \in Runs |-> IF r \in BatchRuns THEN IdleRun ELSE runs[r]]
        /\ chain' = [d \in Contexts |-> IF Held0(d) THEN NoChain ELSE chain[d]]
      BY <1>2 DEF SettleBatch
  <2>2. ASSUME chain'[c] # NoChain PROVE SameCover(c)
    <3>1. ~Held0(c) /\ chain'[c] = chain[c]
        BY <2>1, <2>2
    <3>2. \A r \in RunsOf(c) : r \in Runs /\ r \notin BatchRuns /\ runs'[r] = runs[r]
        BY <2>1, <3>1 DEF RunsOf
    <3>3. \A r \in chain[c].runs : r \in RunsOf(c)
        BY Shapes DEF IInv, Lease, LeasePoints, RunsOf, Unsettled
    <3>4. ~Concluding(c)
        BY <3>2 DEF Concluding, Settles
    <3>5. pastLength'[c] = pastLength[c] /\ pending'[c] = pending[c]
        BY <3>4, SettleKinds
    <3> QED BY <2>2, <3>1, <3>2, <3>3, <3>5 DEF SameCover
  <2> QED BY <2>2, CoverKept DEF SameCover, Coverage
<1>3. ASSUME NEW r \in Runs, SettleRun(r) PROVE Covered(c)'
  <2>1. /\ UNCHANGED chain /\ runs' = [runs EXCEPT ![r].stage = "settled"]
        /\ runs[r].kind = "run" /\ Unsettled(r)
      BY <1>3 DEF SettleRun, Unsettled
  <2>2. /\ runs'[r].stage = "settled" /\ runs'[r].start = runs[r].start
        /\ runs'[r].query = runs[r].query
        /\ \A x \in Runs \ {r} : runs'[x] = runs[x]
      BY <1>1, <2>1 DEF RunTypes, Run
  <2>3. CASE UNCHANGED <<pastLength[c], pending[c], history[c]>>
    <3>1. SameCover(c)
        BY <2>1, <2>2, <2>3, Shapes DEF SameCover
    <3> QED BY <3>1, CoverKept DEF Coverage
  <2>4. CASE Concluding(c)
    <3>0. Settles(c, RunsOf(c)) /\ \A x \in RunsOf(c) : runs'[x].stage \in {"settled", "idle"}
      <4>1. PICK R \in SUBSET RunsOf(c) : Settles(c, R)
          BY <2>4 DEF Concluding
      <4>2. RunsOf(c) \subseteq Runs
          BY DEF RunsOf
      <4>3. PICK x \in R : x \in RunsOf(c)
          BY <4>1 DEF Settles
      <4>4. x = r
          BY <2>2, <2>4, <4>1, <4>2, <4>3 DEF Concluding, Settles
      <4>5. RunsOf(c) = {r}
          BY <2>1, <4>3, <4>4, SettlesAll DEF RunsOf
      <4>6. R = RunsOf(c)
          BY <4>3, <4>4, <4>5
      <4> QED BY <2>4, <4>1, <4>6 DEF Concluding
    <3>1. ASSUME chain[c] # NoChain PROVE Covered(c)'
      <4>1. PICK x \in chain[c].runs : TRUE
          BY <3>1 DEF IInv, Lease, ChainsHold
      <4>2. /\ x \in Runs /\ Unsettled(x) /\ runs[x].ctx = c /\ runs[x].mode = "chained"
            /\ x \in RunsOf(c) /\ ~IsBorrowing(c)
          BY <4>1, Shapes DEF IInv, Lease, LeasePoints, ChainsHold, RunsOf, Unsettled
      <4>3. runs[x].stage = "written" /\ \A y \in RunsOf(c) : runs[y].stage = "written"
          BY <3>0, <4>2 DEF Settles
      <4>4. x \in Members(c) /\ \A y \in Members(c) : y \in RunsOf(c)
          BY <4>2, <4>3, ChainedMember, MembersHold DEF RunsOf, Unsettled
      <4>5. PICK y \in Members(c) : RunEnd(y) = chain[c].end
          BY <4>4 DEF Tiling, Tiled
      <4>6. ~Advanced(c, RunsOf(c))
          BY <4>2 DEF Advanced
      <4>7. PICK z \in RunsOf(c) : /\ UncommittedEnd(c)' = RunEnd(z)
                                   /\ \A y1 \in RunsOf(c) : RunEnd(y1) <= RunEnd(z)
          BY <3>0, <4>2, <4>6, EndsMoved
      <4>8. chain[c].end <= UncommittedEnd(c)'
          BY <4>4, <4>5, <4>7
      <4>9. UncommittedEnd(c)' \in Nat /\ chain'[c].end \in Nat /\ chain'[c].end = chain[c].end
          BY <2>1, <4>7, Shapes DEF RunsOf
      <4>10. Members(c)' = {}
          BY <2>1, <3>0, Shapes DEF Members, IInv, Lease, LeasePoints, RunsOf, Unsettled, Settles
      <4> QED BY <4>8, <4>9, <4>10 DEF Covered
    <3>2. ASSUME chain[c] = NoChain PROVE Covered(c)'
        BY <2>1, <3>2, CoverKept DEF SameCover, Coverage
    <3> QED BY <3>1, <3>2
  <2> QED BY <1>3, <2>3, <2>4, SettleKinds
<1> QED BY <1>2, <1>3

\* A run keeps its columns to its settlement.
LEMMA RunKeepsCoverage ==
    ASSUME IInv, CapturedLengthHolds, Tiling, Slack, Coverage, NEW r \in Runs, RunStep(r)
    PROVE  Coverage'
<1>1. RunTypes /\ LengthTypes /\ RunsTyped
    BY TypedRuns DEF IInv, TypeOK
<1>2. PICK c \in Contexts : c = runs[r].ctx
    BY <1>1 DEF RunsTyped
<1>3. \A d \in Contexts : chain[d] # NoChain => ~IsBorrowing(d)
  <2> SUFFICES ASSUME NEW d \in Contexts, chain[d] # NoChain PROVE ~IsBorrowing(d)
      OBVIOUS
  <2>1. PICK x \in chain[d].runs : TRUE
      BY DEF IInv, Lease, ChainsHold
  <2> QED BY <2>1, Shapes DEF IInv, Lease, LeasePoints, ChainsHold
<1>4. ASSUME UNCHANGED pending,
             \A d \in Contexts : chain'[d] = chain[d] \/ chain'[d] = NoChain,
             \A d \in Contexts : ~IsBorrowing(d) => pastLength'[d] = pastLength[d],
             \A x \in Runs \ {r} : runs'[x] = runs[x],
             runs[r].mode # "chained"
               \/ chain'[c] = NoChain
               \/ /\ runs[r].stage # "settled"
                  /\ runs'[r].start = runs[r].start /\ runs'[r].query = runs[r].query
      PROVE  Coverage'
  <2> SUFFICES ASSUME NEW d \in Contexts, chain'[d] # NoChain PROVE SameCover(d)
      BY CoverKept DEF Coverage, SameCover
  <2>1. chain'[d] = chain[d] /\ chain[d] # NoChain /\ pastLength'[d] = pastLength[d]
      BY <1>3, <1>4
  <2>2. \A x \in chain[d].runs : x \in Runs /\ runs[x].ctx = d /\ runs[x].mode = "chained"
      BY Shapes DEF IInv, Lease, LeasePoints
  <2>3. \A x \in chain[d].runs : /\ runs'[x].start = runs[x].start
                                 /\ runs'[x].query = runs[x].query
                                 /\ runs[x].stage = "settled" => runs'[x].stage = "settled"
      BY <1>2, <1>4, <2>2
  <2> QED BY <1>4, <2>1, <2>3 DEF SameCover
<1>5. ASSUME NEW ok \in BOOLEAN, NEW wrote \in BOOLEAN, EndBody(r, ok, wrote),
             runs[r].stage \in {"queued", "started"}, UNCHANGED <<chain, pastLength, pending>>
      PROVE  Coverage'
  <2>1. /\ runs'[r] = [runs[r] EXCEPT !.stage = IF ok THEN "written" ELSE "failed", !.wrote = wrote]
        /\ \A x \in Runs \ {r} : runs'[x] = runs[x]
      BY <1>1, <1>5 DEF EndBody, RunTypes
  <2>2. runs'[r].start = runs[r].start /\ runs'[r].query = runs[r].query
      BY <1>1, <2>1 DEF RunTypes, Run
  <2> QED BY <1>4, <1>5, <2>1, <2>2
<1>6. CASE StartBody(r)
  <2>1. runs[r].stage = "queued" /\ UNCHANGED <<chain, pending>>
      BY <1>6 DEF StartBody
  <2>2. CASE EndBody(r, FALSE, FALSE) /\ UNCHANGED pastLength
      BY <1>5, <2>1, <2>2
  <2>3. ASSUME ~(EndBody(r, FALSE, FALSE) /\ UNCHANGED pastLength) PROVE Coverage'
    <3>1. /\ runs' = [runs EXCEPT ![r] =
                        [@ EXCEPT !.stage = "started",
                                  !.start = IF runs[r].mode = "chained" THEN runs[r].start
                                            ELSE pastLength[Owner(c)]]]
          /\ pastLength' = [pastLength EXCEPT ![c] = pastLength[Owner(c)]]
        BY <1>2, <1>6, <2>3 DEF StartBody
    <3>2. /\ runs'[r].query = runs[r].query
          /\ runs[r].mode = "chained" => runs'[r].start = runs[r].start
          /\ \A x \in Runs \ {r} : runs'[x] = runs[x]
        BY <1>1, <3>1 DEF RunTypes, Run
    <3>3. \A d \in Contexts : ~IsBorrowing(d) => pastLength'[d] = pastLength[d]
        BY <1>1, <3>1 DEF LengthTypes, Owner
    <3> QED BY <1>4, <2>1, <3>2, <3>3
  <2> QED BY <2>2, <2>3
<1>7. CASE WriteBody(r) \/ DropBody(r) \/ BreakBody(r)
  <2>1. \E ok, wrote \in BOOLEAN : EndBody(r, ok, wrote)
      BY <1>7 DEF WriteBody, DropBody, BreakBody
  <2>2. runs[r].stage = "started" /\ UNCHANGED <<chain, pastLength, pending>>
      BY <1>7 DEF WriteBody, DropBody, BreakBody
  <2> QED BY <1>5, <2>1, <2>2
<1>8. CASE ReleaseRun(r)
  <2>1. /\ UNCHANGED <<pastLength, pending>>
        /\ \A d \in Contexts \ {c} : chain'[d] = chain[d]
        /\ \A x \in Runs \ {r} : runs'[x] = runs[x]
      BY <1>1, <1>2, <1>8 DEF ReleaseRun, RunTypes
  <2>2. runs[r].mode = "chained" => chain'[c] = NoChain
    <3> SUFFICES ASSUME runs[r].mode = "chained" PROVE chain'[c] = NoChain
        OBVIOUS
    <3>1. chain'[c] = Return(chain[c], r, runs[r].start, runs[r].query)
        BY <1>1, <1>2, <1>8 DEF ReleaseRun, RunTypes
    <3>2. runs[r].kind = "run" /\ Unsettled(r)
        BY <1>8 DEF ReleaseRun, IInv, Lease, ChainsHold, Unsettled
    <3>3. RunsOf(c) = {r}
        BY <1>2, <3>2, SettlesAll
    <3>4. chain[c].runs = {r}
        BY <1>2, <3>2, <3>3, Shapes DEF IInv, Lease, LeasePoints, RunsOf, Unsettled
    <3> QED BY <3>1, <3>4 DEF Return
  <2>3. runs[r].mode # "chained" => chain' = chain
      BY <1>8 DEF ReleaseRun
  <2> QED BY <1>4, <2>1, <2>2, <2>3
<1> QED BY <1>6, <1>7, <1>8, SettleKeepsCoverage DEF RunStep

\* The life of a context moves its uncommitted range only while it has no chain.
LEMMA LifeKeepsCoverage ==
    ASSUME IInv, Turns, Coverage, NEW c \in Contexts, ContextStep(c)
    PROVE  Coverage'
<1>1. LengthTypes
    BY DEF IInv, TypeOK
<1>2. UNCHANGED <<runs, chain>>
    BY DEF ContextStep, Commit, Rewind, Borrow, Fork, RegisterBorrower, AdoptFork, Dispose,
           StartDisposal, FinishDisposal
<1>3. ASSUME NEW e \in Contexts, chain[e] = NoChain,
             \A d \in Contexts \ {e} : pastLength'[d] = pastLength[d] /\ pending'[d] = pending[d]
      PROVE  Coverage'
    BY <1>2, <1>3, CoverKept DEF SameCover, Coverage
<1>4. ASSUME NEW n \in Nat, Commit(c, n) \/ Rewind(c, n) PROVE Coverage'
  <2>1. chain[c] = NoChain
      BY <1>4, UnleasedHasNoRun, NoRunNoChain DEF Commit, Rewind, Quiescent
  <2>2. \A d \in Contexts \ {c} : pastLength'[d] = pastLength[d] /\ pending'[d] = pending[d]
      BY <1>1, <1>4 DEF Commit, Rewind, LengthTypes
  <2> QED BY <1>3, <2>1, <2>2
<1>5. ASSUME NEW d \in Contexts, Borrow(c, d) \/ Fork(c, d) PROVE Coverage'
  <2>1. chain[d] = NoChain
      BY <1>5, NoRunNoChain DEF Borrow, Fork, IInv, Lease, RunsExist
  <2>2. \A x \in Contexts \ {d} : pastLength'[x] = pastLength[x] /\ pending'[x] = pending[x]
      BY <1>1, <1>5 DEF Borrow, Fork, LengthTypes
  <2> QED BY <1>3, <2>1, <2>2
<1>6. CASE RegisterBorrower(c) \/ AdoptFork(c) \/ Dispose(c) \/ StartDisposal(c)
  <2>1. UNCHANGED <<pastLength, pending>>
      BY <1>6 DEF RegisterBorrower, AdoptFork, Dispose, StartDisposal
  <2> QED BY <1>2, <2>1, CoverKept DEF SameCover, Coverage
<1>7. CASE FinishDisposal(c)
  <2>1. chain[c] = NoChain
      BY <1>7, NoRunNoChain DEF FinishDisposal, Turns, Held
  <2>2. \A d \in Contexts \ {c} : pastLength'[d] = pastLength[d] /\ pending'[d] = pending[d]
      BY <1>1, <1>7 DEF FinishDisposal, LengthTypes
  <2> QED BY <1>3, <2>1, <2>2
<1> QED BY <1>4, <1>5, <1>6, <1>7, LifeKinds

\* Every step keeps the coverage.
LEMMA CoverageStep ==
    ASSUME IInv, IInv', Turns, CapturedLengthHolds, Tiling, Slack, Coverage, [Next]_vars
    PROVE  Coverage'
<1>1. CASE BeginBatch \/ FinishBatch \/ DeviceLoss \/ UNCHANGED vars
  <2>1. UNCHANGED <<pastLength, pending, chain, runs>>
      BY <1>1 DEF BeginBatch, FinishBatch, DeviceLoss, contextVars, vars
  <2> QED BY <2>1, CoverKept DEF SameCover, Coverage
<1> QED BY <1>1, IssueKeepsCoverage, RunKeepsCoverage, SettleKeepsCoverage, LifeKeepsCoverage
        DEF Next

\* Initially there is no chain.
LEMMA InitCoverage == Init => Coverage
BY DEF Init, Coverage, Covered, Members, NoChain
------------------------------------------------------------------------------
(* Every step keeps the places and their order. *)

Placing == InPlace /\ InOrder

\* What the place of a run depends on.
SameWait(x) ==
    /\ Waiting(x)' <=> Waiting(x)
    /\ Waiting(x) => /\ runs'[x].ctx = runs[x].ctx
                     /\ lender'[runs[x].ctx] = lender[runs[x].ctx]

\* What its order among the runs of its chain depends on.
SameSpan(x) ==
    Unsettled(x)' /\ runs'[x].mode = "chained" =>
        /\ Unsettled(x) /\ runs[x].mode = "chained" /\ runs'[x].ctx = runs[x].ctx
        /\ runs'[x].start = runs[x].start /\ runs'[x].query = runs[x].query

\* Runs that keep their columns keep their order.
LEMMA EarlierKept ==
    ASSUME NEW x, NEW r, SameSpan(x), SameSpan(r), Earlier(x, r)'
    PROVE  Earlier(x, r)
BY DEF SameSpan, Earlier, RunEnd

\* A run that waits stays on the queue of its Session.
LEMMA WaitKept ==
    ASSUME NEW x \in Runs, SameWait(x), Waiting(x)
    PROVE  SessionOf(runs[x].ctx)' = SessionOf(runs[x].ctx)
BY DEF SameWait, SessionOf, IsBorrowing

\* A step that moves nobody keeps the places.
LEMMA PlacesUnchanged ==
    ASSUME Placing, UNCHANGED queue, \A x \in Runs : SameWait(x) /\ SameSpan(x)
    PROVE  Placing'
<1>1. \A x : \A s \in Sessions, i \in Nat : Place(x, s, i)' <=> Place(x, s, i)
    BY DEF Place
<1>2. ASSUME NEW x \in Runs, Waiting(x)'
      PROVE  \E i \in Nat : Place(x, SessionOf(runs[x].ctx), i)'
  <2>1. Waiting(x) /\ SessionOf(runs[x].ctx)' = SessionOf(runs[x].ctx)
      BY <1>2, WaitKept DEF SameWait
  <2>2. PICK i \in Nat : Place(x, SessionOf(runs[x].ctx), i)
      BY <2>1 DEF Placing, InPlace
  <2> QED BY <2>1, <2>2 DEF Place
<1>3. InPlace'
    BY <1>1, <1>2 DEF Placing, InPlace, SameWait
<1>4. InOrder'
    BY <1>1, EarlierKept DEF Placing, InOrder
<1> QED BY <1>3, <1>4 DEF Placing

\* Who joins waits behind all others.
LEMMA JoinKeepsPlaces ==
    ASSUME QueueTypes, Placing, NEW s \in Sessions, NEW job \in Runs \cup Contexts,
           queue' = [queue EXCEPT ![s] = Append(@, job)],
           \A x \in Runs \ {job} : SameWait(x) /\ SameSpan(x),
           job \in Runs => /\ ~Waiting(job) /\ Waiting(job)'
                           /\ SessionOf(runs[job].ctx)' = s,
           job \in Runs => \A x \in Runs : ~Earlier(job, x)'
    PROVE  Placing'
<1>1. \A y : \A t \in Sessions, i \in Nat :
          Place(y, t, i)' <=> Place(y, t, i) \/ (t = s /\ y = job /\ i = Len(queue[s]) + 1)
    BY AppendPlaces
<1>2. PICK n \in Nat : n = Len(queue[s])
    BY DEF QueueTypes
<1>3. \A y : \A i \in Nat : Place(y, s, i) => i <= n
    BY <1>2 DEF Place
<1>4. \A t \in Sessions, i \in Nat : job \in Runs => ~Place(job, t, i)
    BY DEF Placing, InPlace
<1>5. ASSUME NEW x \in Runs, Waiting(x)'
      PROVE  \E i \in Nat : Place(x, SessionOf(runs[x].ctx), i)'
  <2>1. CASE x = job
    <3>1. Place(job, s, n + 1)'
        BY <1>1, <1>2
    <3> QED BY <1>2, <2>1, <3>1 DEF Place
  <2>2. CASE x # job
    <3>1. Waiting(x) /\ SessionOf(runs[x].ctx)' = SessionOf(runs[x].ctx)
        BY <1>5, <2>2, WaitKept DEF SameWait
    <3>2. PICK i \in Nat : Place(x, SessionOf(runs[x].ctx), i)
        BY <3>1 DEF Placing, InPlace
    <3>3. SessionOf(runs[x].ctx) \in Sessions
        BY DEF SessionOf, Sessions
    <3>4. Place(x, SessionOf(runs[x].ctx), i)'
      <4>1. PICK t \in Sessions : t = SessionOf(runs[x].ctx)
          BY <3>3
      <4>2. Place(x, t, i)'
          BY <1>1, <3>2, <4>1
      <4> QED BY <3>1, <4>1, <4>2 DEF Place
    <3> QED BY <3>4
  <2> QED BY <2>1, <2>2
<1>6. ASSUME NEW x \in Runs, NEW t \in Sessions, NEW i \in Nat, Place(x, t, i)'
      PROVE  Waiting(x)'
    BY <1>1, <1>6 DEF Placing, InPlace, SameWait
<1>7. ASSUME NEW x \in Runs, NEW t \in Sessions, NEW u \in Sessions, NEW i \in Nat,
             NEW j \in Nat, Place(x, t, i)', Place(x, u, j)'
      PROVE  t = u /\ i = j
    BY <1>1, <1>2, <1>4, <1>7 DEF Placing, InPlace
<1>8. InPlace'
    BY <1>5, <1>6, <1>7 DEF InPlace
<1>9. InOrder'
  <2> SUFFICES ASSUME NEW x \in Runs, NEW r \in Runs, Earlier(x, r)',
                      NEW t \in Sessions, NEW u \in Sessions, NEW i \in Nat, NEW j \in Nat,
                      Place(x, t, i)', Place(r, u, j)'
               PROVE  i < j
      BY DEF InOrder
  <2>1. x # job /\ Place(x, t, i)
      BY <1>1
  <2>2. CASE r = job
    <3>1. /\ runs'[x].ctx = runs'[r].ctx /\ Waiting(x)' /\ Waiting(x)
        BY <1>6, <2>1 DEF Earlier, SameWait
    <3>2. \E k \in Nat : Place(x, SessionOf(runs[x].ctx), k)' /\ SessionOf(runs[x].ctx)' = s
        BY <1>5, <2>2, <3>1 DEF SessionOf, IsBorrowing
    <3>3. t = s
        BY <1>7, <3>2 DEF Place
    <3>4. j = n + 1
        BY <1>1, <1>2, <1>4, <2>2
    <3> QED BY <1>3, <2>1, <3>3, <3>4
  <2>3. CASE r # job
    <3>1. Place(r, u, j) /\ Earlier(x, r)
        BY <1>1, <2>1, <2>3, EarlierKept
    <3> QED BY <2>1, <3>1 DEF Placing, InOrder
  <2> QED BY <2>2, <2>3
<1> QED BY <1>8, <1>9 DEF Placing

\* When the head leaves, the others keep their order.
LEMMA LeaveKeepsPlaces ==
    ASSUME QueueTypes, Placing, NEW s \in Sessions, NEW job \in Runs \cup Contexts,
           AtHead(job, s), Dequeue(s),
           \A x \in Runs : SameSpan(x),
           \A x \in Runs \ {job} : SameWait(x),
           job \in Runs => ~Waiting(job)'
    PROVE  Placing'
<1>1. queue[s] # <<>> /\ Place(job, s, 1)
    BY HeadPlace DEF AtHead
<1>2. \A y : \A t \in Sessions, i \in Nat :
          Place(y, t, i)' <=> IF t = s THEN i # 0 /\ Place(y, t, i + 1) ELSE Place(y, t, i)
    BY <1>1, DequeuePlaces
<1>3. ASSUME NEW x \in Runs, NEW t \in Sessions, NEW i \in Nat, Place(x, t, i)'
      PROVE  x # job /\ \E k \in Nat : k = (IF t = s THEN i + 1 ELSE i) /\ Place(x, t, k)
  <2>1. PICK k \in Nat : k = (IF t = s THEN i + 1 ELSE i) /\ Place(x, t, k)
      BY <1>2, <1>3
  <2>2. x # job
    <3> SUFFICES ASSUME x = job PROVE FALSE
        OBVIOUS
    <3>1. t = s /\ k = 1
        BY <1>1, <2>1 DEF Placing, InPlace
    <3> QED BY <1>2, <1>3, <2>1, <3>1
  <2> QED BY <2>1, <2>2
<1>4. ASSUME NEW x \in Runs, Waiting(x)'
      PROVE  \E i \in Nat : Place(x, SessionOf(runs[x].ctx), i)'
  <2>1. x # job /\ Waiting(x) /\ SessionOf(runs[x].ctx)' = SessionOf(runs[x].ctx)
      BY <1>4, WaitKept DEF SameWait
  <2>2. PICK t \in Sessions : t = SessionOf(runs[x].ctx)
      BY DEF SessionOf, Sessions
  <2>3. PICK i \in Nat : Place(x, t, i)
      BY <2>1, <2>2 DEF Placing, InPlace
  <2>4. i # 0 /\ (t = s => i # 1)
      BY <1>1, <2>1, <2>3 DEF Place
  <2>5. \E k \in Nat : Place(x, t, k)'
    <3>1. CASE t = s
      <4>1. i - 1 \in Nat /\ i - 1 # 0 /\ (i - 1) + 1 = i
          BY <2>4, <3>1
      <4> QED BY <1>2, <2>3, <3>1, <4>1
    <3>2. CASE t # s
        BY <1>2, <2>3, <3>2
    <3> QED BY <3>1, <3>2
  <2> QED BY <2>1, <2>2, <2>5 DEF Place
<1>5. ASSUME NEW x \in Runs, NEW t \in Sessions, NEW i \in Nat, Place(x, t, i)'
      PROVE  Waiting(x)'
    BY <1>3, <1>5 DEF Placing, InPlace, SameWait
<1>6. ASSUME NEW x \in Runs, NEW t \in Sessions, NEW u \in Sessions, NEW i \in Nat,
             NEW j \in Nat, Place(x, t, i)', Place(x, u, j)'
      PROVE  t = u /\ i = j
    BY <1>3, <1>6 DEF Placing, InPlace
<1>7. InPlace'
    BY <1>4, <1>5, <1>6 DEF InPlace
<1>8. InOrder'
  <2> SUFFICES ASSUME NEW x \in Runs, NEW r \in Runs, Earlier(x, r)',
                      NEW t \in Sessions, NEW u \in Sessions, NEW i \in Nat, NEW j \in Nat,
                      Place(x, t, i)', Place(r, u, j)'
               PROVE  i < j
      BY DEF InOrder
  <2>1. PICK k \in Nat : k = (IF t = s THEN i + 1 ELSE i) /\ Place(x, t, k)
      BY <1>3
  <2>2. PICK m \in Nat : m = (IF u = s THEN j + 1 ELSE j) /\ Place(r, u, m)
      BY <1>3
  <2>3. k < m
      BY <2>1, <2>2, EarlierKept DEF Placing, InOrder
  <2>4. t = u
    <3>1. /\ Waiting(x)' /\ Waiting(r)' /\ runs'[x].ctx = runs'[r].ctx
        BY <1>5 DEF Earlier
    <3>2. SessionOf(runs[x].ctx)' = SessionOf(runs[r].ctx)'
        BY <3>1 DEF SessionOf, IsBorrowing
    <3>3. t = SessionOf(runs[x].ctx)' /\ u = SessionOf(runs[r].ctx)'
      <4>1. SessionOf(runs[x].ctx)' \in Sessions /\ SessionOf(runs[r].ctx)' \in Sessions
          BY DEF SessionOf, Sessions
      <4>2. \A y \in Runs : \A v \in Sessions : v = SessionOf(runs[y].ctx)' =>
                \A a \in Nat : Place(y, SessionOf(runs[y].ctx), a)' => Place(y, v, a)'
          BY DEF Place
      <4> QED BY <1>4, <1>6, <3>1, <4>1, <4>2
    <3> QED BY <3>2, <3>3
  <2> QED BY <2>1, <2>2, <2>3, <2>4
<1> QED BY <1>7, <1>8 DEF Placing

\* An issued run joins its queue; a chained one has later columns than its chain.
LEMMA IssueKeepsPlaces ==
    ASSUME IInv, IInv', Tiling, Placing, NEW r \in Runs, Issue(r)
    PROVE  Placing'
<1>1. RunTypes /\ RunTypes' /\ QueueTypes
    BY DEF IInv, TypeOK
<1>2. PICK c \in Contexts, query \in QueryLengths, scope \in Scopes, tag \in Tags \cup {NoTag} :
          \/ \E mode \in {"immediate", "deferred"} : IssuePlain(r, c, query, mode, scope, tag)
          \/ IssueChained(r, c, query, scope, tag)
          \/ RefuseChained(r, c, query)
    BY DEF Issue
<1>3. UNCHANGED <<lender, pastLength, pending>> /\ runs[r].stage = "idle" /\ query \in Nat \ {0}
    BY <1>2, ContextAssumption DEF IssuePlain, IssueChained, RefuseChained, Accept
<1>4. \A x \in Runs \ {r} : runs'[x] = runs[x]
    BY <1>1, <1>2 DEF IssuePlain, IssueChained, RefuseChained, Accept, RunTypes
<1>5. \A x \in Runs \ {r} : SameWait(x) /\ SameSpan(x)
    BY <1>3, <1>4 DEF SameWait, SameSpan, Waiting, Unsettled
<1>6. ~Waiting(r)
    BY <1>3 DEF Waiting, Unsettled
<1>7. ASSUME NEW mode, NEW start, Accept(r, c, query, mode, scope, start, tag),
             \/ mode # "chained"
             \/ start = ChainStart(c) /\ IssueChained(r, c, query, scope, tag)
      PROVE  Placing'
  <2>1. /\ queue' = [queue EXCEPT ![SessionOf(c)] = Append(@, r)]
        /\ runs'[r].stage = "queued" /\ runs'[r].ctx = c /\ runs'[r].mode = mode
        /\ runs'[r].start = start /\ runs'[r].query = query
      BY <1>1, <1>7 DEF Accept, RunTypes
  <2>2. PICK s \in Sessions : s = SessionOf(c)
      BY DEF SessionOf, Sessions
  <2>3. Waiting(r)' /\ SessionOf(runs[r].ctx)' = s
      BY <1>3, <2>1, <2>2 DEF Waiting, SessionOf, IsBorrowing
  <2>4. ASSUME NEW x \in Runs, Earlier(r, x)' PROVE FALSE
    <3>1. /\ mode = "chained" /\ x # r /\ runs'[x] = runs[x] /\ Unsettled(x)
          /\ runs[x].ctx = c /\ runs[x].mode = "chained"
        BY <1>4, <2>1, <2>4 DEF Earlier, Unsettled
    <3>2. x \in chain[c].runs
        BY <3>1 DEF IInv, Lease, LeasePoints
    <3>3. chain[c] # NoChain
        BY <3>2 DEF NoChain
    <3>4. start = chain[c].end
        BY <1>7, <3>1, <3>3 DEF ChainStart
    <3>5. runKind[c] # "none"
        BY <3>1 DEF IInv, Lease, LeasePoints, HoldsLease
    <3>6. chain[c].scope = "batch"
        BY <1>7, <3>1, <3>5 DEF IssueChained, CanReserve
    <3>7. runs[x].stage # "settled"
        BY <3>2, <3>6, <3>1 DEF IInv, Lease, ChainsHold
    <3>8. x \in Members(c)
        BY <3>2, <3>7 DEF Members
    <3>9. RunEnd(x) <= chain[c].end
        BY <3>8 DEF Tiling, Tiled
    <3>10. RunEnd(r)' <= runs'[x].start /\ RunEnd(r)' = start + query
        BY <2>1, <2>4 DEF Earlier, RunEnd
    <3>11. RunEnd(x) = runs[x].start + runs[x].query /\ runs[x].start \in Nat /\ runs[x].query \in Nat
           /\ chain[c].end \in Nat
        BY Shapes DEF RunEnd
    <3> QED BY <1>3, <3>1, <3>4, <3>9, <3>10, <3>11
  <2>5. queue' = [queue EXCEPT ![s] = Append(@, r)]
      BY <2>1, <2>2
  <2> QED BY <1>1, <1>5, <1>6, <2>3, <2>4, <2>5, JoinKeepsPlaces
<1>8. CASE UNCHANGED <<runs, queue>>
  <2>1. \A x \in Runs : SameWait(x) /\ SameSpan(x)
      BY <1>3, <1>8 DEF SameWait, SameSpan, Waiting, Unsettled
  <2> QED BY <1>8, <2>1, PlacesUnchanged
<1>9. ASSUME NEW m \in {"immediate", "deferred"}, IssuePlain(r, c, query, m, scope, tag)
      PROVE  Placing'
  <2>1. PICK n \in Nat : n = 0
      OBVIOUS
  <2>2. Accept(r, c, query, m, scope, n, tag)
      BY <1>9, <2>1 DEF IssuePlain
  <2>3. m # "chained"
      OBVIOUS
  <2> QED BY <1>7, <2>2, <2>3
<1>10. CASE IssueChained(r, c, query, scope, tag)
  <2>1. Accept(r, c, query, "chained", scope, ChainStart(c), tag)
      BY <1>10 DEF IssueChained
  <2> QED BY <1>7, <1>10, <2>1
<1>11. CASE RefuseChained(r, c, query)
    BY <1>8, <1>11 DEF RefuseChained
<1> QED BY <1>2, <1>9, <1>10, <1>11

\* A run of its own leaves the queue with its lease, an enqueue with its body.
LEMMA RunKeepsPlaces ==
    ASSUME IInv, Placing, NEW r \in Runs, RunStep(r)
    PROVE  Placing'
<1>1. RunTypes /\ QueueTypes
    BY DEF IInv, TypeOK
<1>2. PICK s \in Sessions : s = SessionOf(runs[r].ctx)
    BY DEF SessionOf, Sessions
<1>3. UNCHANGED lender
    BY RunsLeaveLives
<1>4. ASSUME \A x \in Runs \ {r} : runs'[x] = runs[x]
      PROVE  \A x \in Runs \ {r} : SameWait(x) /\ SameSpan(x)
    BY <1>3, <1>4 DEF SameWait, SameSpan, Waiting, Unsettled
<1>5. ASSUME NEW ok \in BOOLEAN, NEW wrote \in BOOLEAN, EndBody(r, ok, wrote),
             runs[r].stage \in {"queued", "started"}, AtHead(r, s)
      PROVE  Placing'
  <2>1. /\ runs'[r] = [runs[r] EXCEPT !.stage = IF ok THEN "written" ELSE "failed", !.wrote = wrote]
        /\ \A x \in Runs \ {r} : runs'[x] = runs[x]
      BY <1>1, <1>5 DEF EndBody, RunTypes
  <2>2. /\ runs'[r].stage = IF ok THEN "written" ELSE "failed"
        /\ runs'[r].ctx = runs[r].ctx /\ runs'[r].kind = runs[r].kind
        /\ runs'[r].mode = runs[r].mode
        /\ runs'[r].start = runs[r].start /\ runs'[r].query = runs[r].query
      BY <1>1, <2>1 DEF RunTypes, Run
  <2>3. SameSpan(r) /\ \A x \in Runs \ {r} : SameWait(x) /\ SameSpan(x)
      BY <1>4, <1>5, <2>1, <2>2 DEF SameSpan, Unsettled
  <2>4. CASE runs[r].kind = "run"
    <3>1. SameWait(r)
        BY <1>3, <1>5, <2>2, <2>4 DEF SameWait, Waiting, Unsettled
    <3>2. UNCHANGED queue
        BY <1>5, <2>4 DEF EndBody
    <3> QED BY <2>3, <3>1, <3>2, PlacesUnchanged
  <2>5. CASE runs[r].kind # "run"
    <3>1. ~Waiting(r)'
        BY <2>2, <2>5 DEF Waiting
    <3>2. Dequeue(s)
        BY <1>2, <1>5, <2>5 DEF EndBody
    <3> QED BY <1>1, <1>5, <2>3, <3>1, <3>2, LeaveKeepsPlaces
  <2> QED BY <2>4, <2>5
<1>6. CASE StartBody(r)
  <2>1. runs[r].stage = "queued" /\ AtHead(r, s)
      BY <1>2, <1>6 DEF StartBody
  <2>2. CASE EndBody(r, FALSE, FALSE)
      BY <1>5, <2>1, <2>2
  <2>3. CASE ~EndBody(r, FALSE, FALSE)
    <3>1. /\ runs' = [runs EXCEPT ![r] =
                        [@ EXCEPT !.stage = "started",
                                  !.start = IF runs[r].mode = "chained" THEN runs[r].start
                                            ELSE pastLength[Owner(runs[r].ctx)]]]
          /\ UNCHANGED queue
        BY <1>6, <2>3 DEF StartBody
    <3>2. /\ runs'[r].stage = "started" /\ runs'[r].ctx = runs[r].ctx
          /\ runs'[r].mode = runs[r].mode /\ runs'[r].query = runs[r].query
          /\ runs[r].mode = "chained" => runs'[r].start = runs[r].start
          /\ \A x \in Runs \ {r} : runs'[x] = runs[x]
        BY <1>1, <3>1 DEF RunTypes, Run
    <3>3. SameWait(r) /\ SameSpan(r)
        BY <1>3, <2>1, <3>2 DEF SameWait, SameSpan, Waiting, Unsettled
    <3> QED BY <1>4, <3>1, <3>2, <3>3, PlacesUnchanged
  <2> QED BY <2>2, <2>3
<1>7. CASE WriteBody(r) \/ DropBody(r) \/ BreakBody(r)
  <2>1. \E ok, wrote \in BOOLEAN : EndBody(r, ok, wrote)
      BY <1>7 DEF WriteBody, DropBody, BreakBody
  <2>2. runs[r].stage = "started"
      BY <1>7 DEF WriteBody, DropBody, BreakBody
  <2>3. AtHead(r, s)
      BY <1>2, <2>2 DEF IInv, Heads, OnTop
  <2> QED BY <1>5, <2>1, <2>2, <2>3
<1>8. CASE SettleRun(r)
  <2>1. /\ runs[r].kind = "run" /\ Unsettled(r) /\ UNCHANGED queue
        /\ runs' = [runs EXCEPT ![r].stage = "settled"]
      BY <1>8 DEF SettleRun, Unsettled
  <2>2. /\ runs'[r] = [runs[r] EXCEPT !.stage = "settled"]
        /\ \A x \in Runs \ {r} : runs'[x] = runs[x]
      BY <1>1, <2>1 DEF RunTypes
  <2>3. /\ runs'[r].stage = "settled" /\ runs'[r].ctx = runs[r].ctx
        /\ runs'[r].kind = runs[r].kind /\ runs'[r].mode = runs[r].mode
        /\ runs'[r].start = runs[r].start /\ runs'[r].query = runs[r].query
      BY <1>1, <2>2 DEF RunTypes, Run
  <2>4. SameWait(r) /\ SameSpan(r)
      BY <1>3, <2>1, <2>3 DEF SameWait, SameSpan, Waiting, Unsettled
  <2> QED BY <1>4, <2>1, <2>2, <2>4, PlacesUnchanged
<1>9. CASE ReleaseRun(r)
  <2>1. /\ runs[r].stage = "settled" /\ runs' = [runs EXCEPT ![r] = IdleRun] /\ Dequeue(s)
      BY <1>2, <1>9 DEF ReleaseRun
  <2>2. runs[r].kind = "run"
      BY <2>1 DEF IInv, Lease, ChainsHold
  <2>3. AtHead(r, s)
      BY <1>2, <2>1, <2>2 DEF IInv, Heads, OnTop
  <2>4. runs'[r] = IdleRun /\ \A x \in Runs \ {r} : runs'[x] = runs[x]
      BY <1>1, <2>1 DEF RunTypes
  <2>5. ~Waiting(r)' /\ SameSpan(r)
      BY <2>4 DEF Waiting, SameSpan, Unsettled, IdleRun
  <2> QED BY <1>1, <1>4, <2>1, <2>3, <2>4, <2>5, LeaveKeepsPlaces
<1> QED BY <1>6, <1>7, <1>8, <1>9 DEF RunStep

\* A disposal waits behind the runs accepted before it.
LEMMA LifeKeepsPlaces ==
    ASSUME IInv, Placing, NEW c \in Contexts, ContextStep(c)
    PROVE  Placing'
<1>1. QueueTypes /\ ContextTypes
    BY DEF IInv, TypeOK
<1>2. UNCHANGED runs
    BY DEF ContextStep, Commit, Rewind, Borrow, Fork, RegisterBorrower, AdoptFork, Dispose,
           StartDisposal, FinishDisposal
<1>3. \A x \in Runs : SameSpan(x)
    BY <1>2 DEF SameSpan, Unsettled
<1>4. \A x \in Runs : Waiting(x) => Unsettled(x)
    BY DEF Waiting, Unsettled
<1>5. ASSUME \A x \in Runs : Unsettled(x) => lender'[runs[x].ctx] = lender[runs[x].ctx]
      PROVE  \A x \in Runs : SameWait(x)
  <2> SUFFICES ASSUME NEW x \in Runs PROVE SameWait(x)
      OBVIOUS
  <2>1. Waiting(x)' <=> Waiting(x)
      BY <1>2 DEF Waiting, Unsettled
  <2> QED BY <1>2, <1>4, <1>5, <2>1 DEF SameWait
<1>6. PICK s \in Sessions : s = SessionOf(c)
    BY DEF SessionOf, Sessions
<1>7. ASSUME NEW d \in Contexts, Borrow(c, d) PROVE Placing'
  <2>1. phase[d] = "absent" /\ lender' = [lender EXCEPT ![d] = c] /\ UNCHANGED queue
      BY <1>7 DEF Borrow
  <2>2. \A x \in Runs : Unsettled(x) => lender'[runs[x].ctx] = lender[runs[x].ctx]
      BY <1>1, <2>1, Shapes DEF IInv, Lease, RunsExist, ContextTypes
  <2> QED BY <1>3, <1>5, <2>1, <2>2, PlacesUnchanged
<1>8. CASE Dispose(c)
  <2>1. queue' = [queue EXCEPT ![s] = Append(@, c)] /\ UNCHANGED lender
      BY <1>6, <1>8 DEF Dispose
  <2>2. c \notin Runs
      BY ContextAssumption
  <2> QED BY <1>1, <1>3, <1>5, <2>1, <2>2, JoinKeepsPlaces
<1>9. CASE FinishDisposal(c)
  <2>1. AtHead(c, s) /\ Dequeue(s) /\ UNCHANGED lender
      BY <1>6, <1>9 DEF FinishDisposal, IInv, Heads
  <2>2. c \notin Runs
      BY ContextAssumption
  <2> QED BY <1>1, <1>3, <1>5, <2>1, <2>2, LeaveKeepsPlaces
<1>10. CASE UNCHANGED <<queue, lender>>
    BY <1>3, <1>5, <1>10, PlacesUnchanged
<1> QED BY <1>7, <1>8, <1>9, <1>10
        DEF ContextStep, Commit, Rewind, Fork, RegisterBorrower, AdoptFork, StartDisposal

\* Every step keeps them.
LEMMA PlacingStep ==
    ASSUME IInv, IInv', Tiling, Placing, [Next]_vars
    PROVE  Placing'
<1>1. CASE BeginBatch \/ FinishBatch \/ DeviceLoss \/ UNCHANGED vars
  <2>1. UNCHANGED <<queue, lender, runs>>
      BY <1>1 DEF BeginBatch, FinishBatch, DeviceLoss, contextVars, vars
  <2>2. \A x \in Runs : SameWait(x) /\ SameSpan(x)
      BY <2>1 DEF SameWait, SameSpan, Waiting, Unsettled
  <2> QED BY <2>1, <2>2, PlacesUnchanged
<1>2. CASE SettleBatch
  <2>1. /\ UNCHANGED <<queue, lender>>
        /\ runs' = [r \in Runs |-> IF r \in BatchRuns THEN IdleRun ELSE runs[r]]
        /\ \A r \in BatchRuns : runs[r].stage \in {"written", "failed"} /\ runs[r].kind = "batch"
      BY <1>2 DEF SettleBatch, BatchRuns
  <2>2. \A x \in Runs : SameWait(x) /\ SameSpan(x)
      BY <2>1 DEF SameWait, SameSpan, Waiting, Unsettled, IdleRun
  <2> QED BY <2>1, <2>2, PlacesUnchanged
<1> QED BY <1>1, <1>2, IssueKeepsPlaces, RunKeepsPlaces, LifeKeepsPlaces DEF Next

\* Initially no run waits.
LEMMA InitPlacing == Init => Placing
<1> SUFFICES ASSUME Init PROVE Placing
    OBVIOUS
<1>1. \A x : \A s \in Sessions, i \in Nat : ~Place(x, s, i)
    BY DEF Init, Place
<1>2. \A r \in Runs : ~Waiting(r)
    BY DEF Init, Waiting, Unsettled, IdleRun
<1> QED BY <1>1, <1>2 DEF Placing, InPlace, InOrder
------------------------------------------------------------------------------
(* Every step keeps the rows. *)

\* A run that has written, or may have.
Marks(r) == runs[r].stage = "written" \/ Spoils(r)

\* What the rows of o depend on.
SameRing(o) ==
    /\ slots'[o] = slots[o] /\ pastLength'[o] = pastLength[o]
    /\ pending'[o] = pending[o] /\ history'[o] = history[o]
    /\ \A r \in Runs : \/ runs'[r] = runs[r]
                       \/ /\ runs[r].ctx = o => ~Marks(r)
                          /\ runs'[r].ctx = o => ~Marks(r)'

\* Keeps, of the rows after the step.
WillKeep(o, s, col, tag) ==
    SlotRow(s, col) \in Rows(s) /\ slots'[o][s][SlotRow(s, col)] = <<col, tag>>

\* They are kept while none of that changes.
LEMMA RingKept ==
    ASSUME NEW o \in Contexts, Ring(o), SameRing(o)
    PROVE  Ring(o)'
<1>1. /\ slots'[o] = slots[o] /\ pastLength'[o] = pastLength[o]
      /\ pending'[o] = pending[o] /\ history'[o] = history[o]
    BY DEF SameRing
<1>2. UncommittedEnd(o)' = UncommittedEnd(o)
    BY <1>1 DEF UncommittedEnd, AwaitsCommit
<1>3. ASSUME NEW r \in Runs, (runs[r].ctx = o /\ Marks(r)) \/ (runs'[r].ctx = o /\ Marks(r)')
      PROVE  runs'[r] = runs[r]
    BY <1>3 DEF SameRing
<1>4. \A r \in Runs : (Replaces(r) \/ Spoils(r) \/ Extends(r)) => Marks(r)
    BY DEF Replaces, Spoils, Extends, Marks
<1>5. \A r \in Runs : (Replaces(r)' \/ Spoils(r)' \/ Extends(r)') => Marks(r)'
    BY DEF Replaces, Spoils, Extends, Marks
<1>6. \A s, col, tag : Keeps(o, s, col, tag) => WillKeep(o, s, col, tag)
    BY <1>1 DEF Keeps, WillKeep
<1>7. Intact(o) => Intact(o)'
  <2> SUFFICES ASSUME Intact(o), NEW s \in Slots,
                      NEW col \in ReadonlyColumnBase(s, pastLength[o]) .. (UncommittedEnd(o) - 1)
               PROVE  WillKeep(o, s, col, history'[o][col])
      BY <1>1, <1>2 DEF Intact, Keeps, WillKeep
  <2>1. Keeps(o, s, col, history[o][col])
      BY DEF Intact
  <2> QED BY <1>1, <1>6, <2>1
<1>8. ASSUME \A r \in Runs : runs'[r].ctx = o => ~Replaces(r)' /\ ~Spoils(r)'
      PROVE  Intact(o)'
  <2>1. \A r \in Runs : runs[r].ctx = o => ~Replaces(r) /\ ~Spoils(r)
    <3> SUFFICES ASSUME NEW r \in Runs, runs[r].ctx = o, Replaces(r) \/ Spoils(r) PROVE FALSE
        OBVIOUS
    <3>1. runs'[r] = runs[r]
        BY <1>3, <1>4
    <3> QED BY <1>8, <3>1 DEF Replaces, Spoils
  <2> QED BY <1>7, <2>1 DEF Ring
<1>9. ASSUME NEW r \in Runs, runs'[r].ctx = o, Replaces(r)'
      PROVE  Replaced(o, r)'
  <2>1. runs'[r] = runs[r]
      BY <1>3, <1>5, <1>9
  <2>2. Replaced(o, r) /\ RunEnd(r)' = RunEnd(r)
      BY <1>9, <2>1 DEF Ring, Replaces, RunEnd
  <2> SUFFICES ASSUME NEW s \in Slots,
                      NEW col \in ReadonlyColumnBase(s, RunEnd(r)) .. (RunEnd(r) - 1)
               PROVE  WillKeep(o, s, col, IF col < runs'[r].start THEN history'[o][col]
                                          ELSE runs'[r].tag)
      BY <2>2 DEF Replaced, Keeps, WillKeep
  <2>3. Keeps(o, s, col, IF col < runs[r].start THEN history[o][col] ELSE runs[r].tag)
      BY <2>2 DEF Replaced
  <2> QED BY <1>1, <1>6, <2>1, <2>3
<1>10. ASSUME NEW r \in Runs, runs'[r].ctx = o, Extends(r)'
       PROVE  Extended(o, r)'
  <2>1. runs'[r] = runs[r]
      BY <1>3, <1>5, <1>10
  <2>2. Extended(o, r) /\ RunEnd(r)' = RunEnd(r)
      BY <1>10, <2>1 DEF Ring, Extends, RunEnd
  <2> SUFFICES ASSUME NEW s \in Slots, NEW col \in runs[r].start .. (RunEnd(r) - 1)
               PROVE  WillKeep(o, s, col, runs'[r].tag)
      BY <2>1, <2>2 DEF Extended, Keeps, WillKeep
  <2>3. Keeps(o, s, col, runs[r].tag)
      BY <2>2 DEF Extended
  <2> QED BY <1>6, <2>1, <2>3
<1> QED BY <1>8, <1>9, <1>10 DEF Ring

\* A run that is written keeps its record, and its context its lender.
LEMMA WritersKept ==
    ASSUME Writers, \A r \in Runs : runs'[r].stage = "written" => runs'[r] = runs[r],
           \A r \in Runs : Unsettled(r) => lender'[runs[r].ctx] = lender[runs[r].ctx]
    PROVE  Writers'
<1> SUFFICES ASSUME NEW r \in Runs, runs'[r].stage = "written"
             PROVE  runs'[r].wrote <=> ~IsBorrowing(runs[r].ctx)'
    BY DEF Writers
<1>1. runs'[r] = runs[r] /\ Unsettled(r)
    BY DEF Unsettled
<1>2. lender'[runs'[r].ctx] = lender[runs[r].ctx]
    BY <1>1
<1> QED BY <1>1, <1>2 DEF Writers, IsBorrowing

\* The steps that write no row.
LEMMA RingsKept ==
    ASSUME Rings, Writers', \A o \in Contexts : Serves(o)' => Serves(o) /\ SameRing(o)
    PROVE  Rings'
<1>1. ASSUME NEW o \in Contexts, Serves(o)' PROVE Ring(o)'
    BY <1>1, RingKept DEF Rings
<1> QED BY <1>1 DEF Rings

\* Issuing a run writes nothing.
LEMMA IssueKeepsRings ==
    ASSUME IInv, IInv', Rings, NEW r \in Runs, Issue(r)
    PROVE  Rings'
<1>1. RunTypes /\ RunTypes'
    BY DEF IInv, TypeOK
<1>2. PICK c \in Contexts, query \in QueryLengths, scope \in Scopes, tag \in Tags \cup {NoTag} :
          \/ \E mode \in {"immediate", "deferred"} : IssuePlain(r, c, query, mode, scope, tag)
          \/ IssueChained(r, c, query, scope, tag)
          \/ RefuseChained(r, c, query)
    BY DEF Issue
<1>3. /\ UNCHANGED <<phase, lender, pastLength, pending, poisoned, slots, lost, history>>
      /\ runs[r].stage = "idle"
    BY <1>2 DEF IssuePlain, IssueChained, RefuseChained, Accept
<1>4. \A x \in Runs \ {r} : runs'[x] = runs[x]
    BY <1>1, <1>2 DEF IssuePlain, IssueChained, RefuseChained, Accept, RunTypes
<1>5. runs'[r].stage \in {"idle", "queued"}
  <2>1. ASSUME NEW mode, NEW start, Accept(r, c, query, mode, scope, start, tag)
        PROVE  runs'[r].stage = "queued"
      BY <1>1, <2>1 DEF Accept, RunTypes
  <2>2. CASE UNCHANGED runs
      BY <1>3, <2>2
  <2> QED BY <1>2, <2>1, <2>2 DEF IssuePlain, IssueChained, RefuseChained
<1>6. \A o \in Contexts : SameRing(o)
    BY <1>3, <1>4, <1>5 DEF SameRing, Marks, Spoils
<1>7. Writers'
  <2>1. \A x \in Runs : runs'[x].stage = "written" => runs'[x] = runs[x]
      BY <1>4, <1>5
  <2> QED BY <1>3, <2>1, WritersKept DEF Rings
<1>8. \A o \in Contexts : Serves(o)' => Serves(o)
    BY <1>3 DEF Serves, IsBorrowing, IsLive
<1> QED BY <1>6, <1>7, <1>8, RingsKept

\* What the end of a body records.
LEMMA BodyEnds ==
    ASSUME IInv, NEW r \in Runs, NEW ok \in BOOLEAN, NEW wrote \in BOOLEAN, EndBody(r, ok, wrote)
    PROVE  /\ \A x \in Runs \ {r} : runs'[x] = runs[x]
           /\ runs'[r].stage = IF ok THEN "written" ELSE "failed"
           /\ runs'[r].wrote = wrote
           /\ runs'[r].ctx = runs[r].ctx /\ runs'[r].kind = runs[r].kind
           /\ runs'[r].mode = runs[r].mode /\ runs'[r].start = runs[r].start
           /\ runs'[r].query = runs[r].query /\ runs'[r].tag = runs[r].tag
           /\ RunEnd(r)' = RunEnd(r)
           /\ poisoned' = IF runs[r].kind = "run" THEN poisoned
                          ELSE [poisoned EXCEPT ![runs[r].ctx] = @ \/ (~ok /\ wrote)]
<1>1. RunTypes
    BY DEF IInv, TypeOK
<1>2. runs' = [runs EXCEPT ![r] =
                 [@ EXCEPT !.stage = IF ok THEN "written" ELSE "failed", !.wrote = wrote]]
    BY DEF EndBody
<1>3. /\ runs'[r] = [runs[r] EXCEPT !.stage = IF ok THEN "written" ELSE "failed", !.wrote = wrote]
      /\ \A x \in Runs \ {r} : runs'[x] = runs[x]
    BY <1>1, <1>2 DEF RunTypes
<1>4. /\ runs'[r].stage = IF ok THEN "written" ELSE "failed"
      /\ runs'[r].wrote = wrote
      /\ runs'[r].ctx = runs[r].ctx /\ runs'[r].kind = runs[r].kind
      /\ runs'[r].mode = runs[r].mode /\ runs'[r].start = runs[r].start
      /\ runs'[r].query = runs[r].query /\ runs'[r].tag = runs[r].tag
    BY <1>1, <1>3 DEF RunTypes, Run
<1>5. RunEnd(r)' = RunEnd(r)
    BY <1>4 DEF RunEnd
<1>6. poisoned' = IF runs[r].kind = "run" THEN poisoned
                  ELSE [poisoned EXCEPT ![runs[r].ctx] = @ \/ (~ok /\ wrote)]
    BY DEF EndBody
<1> QED BY <1>3, <1>4, <1>5, <1>6

\* A context that serves still does not borrow and is not poisoned.
LEMMA RunsLeaveServing ==
    ASSUME IInv, NEW r \in Runs, RunStep(r) \/ Issue(r), NEW o \in Contexts, Serves(o)'
    PROVE  Serves(o) /\ ~poisoned'[o]
<1>1. UNCHANGED <<phase, lender>>
    BY RunsLeaveLives
<1>2. LengthTypes /\ runs[r].ctx \in Contexts
    BY Shapes DEF IInv, TypeOK
<1>3. poisoned[o] => poisoned'[o]
  <2>1. CASE Issue(r)
      BY <2>1 DEF Issue, IssuePlain, IssueChained, RefuseChained, Accept
  <2>2. ASSUME NEW ok \in BOOLEAN, NEW wrote \in BOOLEAN, EndBody(r, ok, wrote)
        PROVE  poisoned[o] => poisoned'[o]
      BY <1>2, <2>2 DEF EndBody, LengthTypes
  <2>3. CASE RunStep(r)
    <3>1. CASE \/ UNCHANGED poisoned
               \/ poisoned' = [poisoned EXCEPT ![runs[r].ctx] = @ \/ runs[r].wrote]
        BY <1>2, <3>1 DEF LengthTypes
    <3>2. CASE \E ok, wrote \in BOOLEAN : EndBody(r, ok, wrote)
        BY <2>2, <3>2
    <3> QED BY <2>3, <3>1, <3>2
            DEF RunStep, StartBody, WriteBody, DropBody, BreakBody, SettleRun, ReleaseRun
  <2> QED BY <2>1, <2>3
<1>4. UNCHANGED lost
  <2>1. CASE Issue(r)
      BY <2>1 DEF Issue, IssuePlain, IssueChained, RefuseChained, Accept
  <2>2. CASE RunStep(r)
      BY <2>2 DEF RunStep, StartBody, WriteBody, DropBody, BreakBody, SettleRun, ReleaseRun
  <2> QED BY <2>1, <2>2
<1> QED BY <1>1, <1>3, <1>4 DEF Serves, IsBorrowing, IsLive

\* Neither do its start, a failure before its first submit and its release.
LEMMA QuietKeepsRings ==
    ASSUME IInv, Rings, NEW r \in Runs, StartBody(r) \/ DropBody(r) \/ ReleaseRun(r)
    PROVE  Rings'
<1>1. RunTypes /\ LengthTypes
    BY DEF IInv, TypeOK
<1>2. UNCHANGED <<lender, slots, pending, history>>
    BY RunsLeaveLives DEF RunStep, StartBody, DropBody, ReleaseRun
<1>3. \A o \in Contexts : ~IsBorrowing(o) => pastLength'[o] = pastLength[o]
    BY <1>1 DEF StartBody, DropBody, ReleaseRun, LengthTypes, Owner
<1>4. /\ \A x \in Runs \ {r} : runs'[x] = runs[x]
      /\ ~Marks(r) /\ ~Marks(r)'
  <2>1. ASSUME EndBody(r, FALSE, FALSE), runs[r].stage \in {"queued", "started"}
        PROVE  /\ \A x \in Runs \ {r} : runs'[x] = runs[x]
               /\ ~Marks(r) /\ ~Marks(r)'
      BY <2>1, BodyEnds DEF Marks, Spoils
  <2>2. CASE DropBody(r)
      BY <2>1, <2>2 DEF DropBody
  <2>3. CASE StartBody(r)
    <3>1. CASE runs' = [runs EXCEPT ![r] =
                    [@ EXCEPT !.stage = "started",
                              !.start = IF runs[r].mode = "chained" THEN runs[r].start
                                        ELSE pastLength[Owner(runs[r].ctx)]]]
      <4>1. /\ runs'[r].stage = "started"
            /\ \A x \in Runs \ {r} : runs'[x] = runs[x]
          BY <1>1, <3>1 DEF RunTypes, Run
      <4> QED BY <2>3, <4>1 DEF StartBody, Marks, Spoils
    <3> QED BY <2>1, <2>3, <3>1 DEF StartBody
  <2>4. CASE ReleaseRun(r)
    <3>1. runs[r].stage = "settled" /\ runs' = [runs EXCEPT ![r] = IdleRun]
        BY <2>4 DEF ReleaseRun
    <3> QED BY <1>1, <3>1 DEF RunTypes, IdleRun, Marks, Spoils
  <2> QED BY <2>2, <2>3, <2>4
<1>5. Writers'
  <2>1. \A x \in Runs : runs'[x].stage = "written" => runs'[x] = runs[x]
      BY <1>4 DEF Marks
  <2> QED BY <1>2, <2>1, WritersKept DEF Rings
<1>6. ASSUME NEW o \in Contexts, Serves(o)' PROVE Serves(o) /\ SameRing(o)
  <2>1. Serves(o)
      BY <1>6, RunsLeaveServing DEF RunStep
  <2>2. SameRing(o)
      BY <1>2, <1>3, <1>4, <2>1 DEF SameRing, Serves
  <2> QED BY <2>1, <2>2
<1> QED BY <1>5, <1>6, RingsKept

\* The first column of the window moves with the position.
LEMMA BaseMoves ==
    ASSUME NEW s \in Slots, NEW a \in Nat, NEW b \in Nat, a <= b
    PROVE  /\ ReadonlyColumnBase(s, a) \in Nat /\ ReadonlyColumnBase(s, a) <= a
           /\ ReadonlyColumnBase(s, a) <= ReadonlyColumnBase(s, b)
           /\ ReadonlyColumnBase(s, a) <= ColumnBase(s, a)
           /\ IsSliding(s) => a <= ReadonlyColumnBase(s, a) + Window[s]
<1>1. Window[s] \in Nat
    BY SlotsAssumption
<1> QED BY <1>1 DEF ReadonlyColumnBase, ColumnBase, Lesser, IsSliding

\* A run in the place of the window leaves the window behind its own end.
LEMMA WriteReplaces ==
    ASSUME IInv, Slack, Tiling, Rings, NEW r \in Runs, WriteBody(r), NEW c \in Contexts,
           runs[r].ctx = c, Serves(c), runs[r].mode = "immediate"
    PROVE  Ring(c)'
<1>1. /\ pastLength[c] \in Nat /\ UncommittedEnd(c) \in Nat
      /\ runs[r].start \in Nat /\ runs[r].query \in Nat /\ RunEnd(r) \in Nat
      /\ RunEnd(r) = runs[r].start + runs[r].query
    BY Shapes DEF RunEnd
<1>2. /\ runs[r].stage = "started" /\ ~IsBorrowing(c) /\ EndBody(r, TRUE, TRUE)
      /\ runs[r].start = pastLength[c] /\ FitsFullSlots(runs[r].start, runs[r].query)
      /\ slots' = [slots EXCEPT ![c] =
            [s \in Slots |-> Appended(s, @[s], runs[r].start, runs[r].query, runs[r].tag)]]
      /\ UNCHANGED <<pastLength, pending, history>>
    BY DEF WriteBody, PassesLimits, WriteSlots, Serves
<1>3. ~AwaitsCommit(c) /\ UncommittedEnd(c) = pastLength[c]
  <2>1. Plain(r) /\ Owner(runs[r].ctx) = c
      BY <1>2 DEF Plain, Unsettled, Owner
  <2> QED BY <2>1 DEF Slack, Free, UncommittedEnd
<1>4. \A x \in Runs : Unsettled(x) /\ runs[x].ctx = c => x = r
    BY <1>2, AloneOf DEF Unsettled
<1>5. /\ \A x \in Runs \ {r} : runs'[x] = runs[x]
      /\ runs'[r].stage = "written" /\ runs'[r].ctx = c /\ runs'[r].mode = "immediate"
      /\ runs'[r].start = runs[r].start /\ runs'[r].tag = runs[r].tag /\ RunEnd(r)' = RunEnd(r)
    BY <1>2, BodyEnds
<1>6. ASSUME NEW x \in Runs, runs'[x].ctx = c, Marks(x)' PROVE x = r
    BY <1>4, <1>5, <1>6 DEF Marks, Spoils, Unsettled
<1>7. Intact(c)
  <2>1. \A x \in Runs : runs[x].ctx = c => ~Replaces(x) /\ ~Spoils(x)
      BY <1>2, <1>4 DEF Replaces, Spoils, Unsettled
  <2> QED BY <2>1 DEF Rings, Ring
<1>8. \A s \in Slots : slots'[c][s] =
          Appended(s, slots[c][s], runs[r].start, runs[r].query, runs[r].tag)
    BY <1>2 DEF IInv, TypeOK, SlotTypes
<1>9. Replaced(c, r)'
  <2> SUFFICES ASSUME NEW s \in Slots,
                      NEW col \in ReadonlyColumnBase(s, RunEnd(r)) .. (RunEnd(r) - 1)
               PROVE  WillKeep(c, s, col, IF col < runs[r].start THEN history[c][col]
                                          ELSE runs[r].tag)
      BY <1>2, <1>5 DEF Replaced, Keeps, WillKeep
  <2>1. /\ ReadonlyColumnBase(s, pastLength[c]) \in Nat
        /\ ReadonlyColumnBase(s, pastLength[c]) <= ReadonlyColumnBase(s, RunEnd(r))
        /\ ReadonlyColumnBase(s, RunEnd(r)) \in Nat
        /\ IsSliding(s) => RunEnd(r) <= ReadonlyColumnBase(s, RunEnd(r)) + Window[s]
      BY <1>1, <1>2, BaseMoves
  <2>2. /\ col \in Nat /\ ReadonlyColumnBase(s, RunEnd(r)) <= col /\ col < RunEnd(r)
        /\ Window[s] \in Nat /\ Capacity[s] \in Nat \ {0} /\ Window[s] <= Capacity[s]
      BY <1>1, <2>1, SlotsAssumption
  <2>3. IsSliding(s) => RunEnd(r) <= col + Capacity[s]
      BY <1>1, <2>1, <2>2
  <2>4. CASE col < runs[r].start
    <3>1. Keeps(c, s, col, history[c][col])
        BY <1>1, <1>2, <1>3, <1>7, <2>1, <2>2, <2>4 DEF Intact
    <3>2. Appended(s, slots[c][s], runs[r].start, runs[r].query, runs[r].tag)[SlotRow(s, col)]
              = slots[c][s][SlotRow(s, col)]
        BY <1>1, <2>2, <2>3, <2>4, <3>1, AppendKeeps DEF Keeps
    <3> QED BY <1>8, <2>4, <3>1, <3>2 DEF Keeps, WillKeep
  <2>5. CASE ~(col < runs[r].start)
    <3>1. IsSliding(s) \/ col < Capacity[s]
        BY <1>1, <1>2, <2>2 DEF FitsFullSlots, SlidingSlots
    <3>2. SlotRow(s, col) \in Rows(s)
        BY <2>2, <3>1, RowExists
    <3>3. col \in runs[r].start .. (runs[r].start + runs[r].query - 1)
        BY <1>1, <2>2, <2>5
    <3>4. Appended(s, slots[c][s], runs[r].start, runs[r].query, runs[r].tag)[SlotRow(s, col)]
              = <<col, runs[r].tag>>
        BY <1>1, <2>3, <3>2, <3>3, AppendWrites
    <3> QED BY <1>8, <2>5, <3>2, <3>4 DEF WillKeep
  <2> QED BY <2>4, <2>5
<1>10. Replaces(r)'
    BY <1>5 DEF Replaces
<1>11. \A x \in Runs : runs'[x].ctx = c /\ (Replaces(x)' \/ Extends(x)') => x = r
    BY <1>6 DEF Replaces, Extends, Marks
<1>12. ~Extends(r)'
    BY <1>5 DEF Extends
<1>13. runs'[r].ctx = c
    BY <1>5
<1>14. \A x \in Runs : runs'[x].ctx = c /\ Replaces(x)' => Replaced(c, x)'
    BY <1>9, <1>11
<1> QED BY <1>10, <1>11, <1>12, <1>13, <1>14 DEF Ring

\* A run that keeps the window writes into the slack only.
LEMMA WriteExtends ==
    ASSUME IInv, CapturedLengthHolds, Tiling, Slack, Coverage, Rings, NEW r \in Runs,
           WriteBody(r), NEW c \in Contexts,
           runs[r].ctx = c, Serves(c), runs[r].mode # "immediate"
    PROVE  Ring(c)'
<1>1. /\ pastLength[c] \in Nat /\ UncommittedEnd(c) \in Nat
      /\ runs[r].start \in Nat /\ runs[r].query \in Nat /\ RunEnd(r) \in Nat
      /\ RunEnd(r) = runs[r].start + runs[r].query
    BY Shapes DEF RunEnd
<1>2. /\ runs[r].stage = "started" /\ ~IsBorrowing(c) /\ EndBody(r, TRUE, TRUE)
      /\ FitsFullSlots(runs[r].start, runs[r].query)
      /\ slots' = [slots EXCEPT ![c] =
            [s \in Slots |-> Appended(s, @[s], runs[r].start, runs[r].query, runs[r].tag)]]
      /\ UNCHANGED <<pastLength, pending, history>>
    BY DEF WriteBody, PassesLimits, WriteSlots, Serves
<1>3. /\ pastLength[c] <= UncommittedEnd(c) /\ UncommittedEnd(c) <= runs[r].start
      /\ Fits(c, RunEnd(r))
    BY <1>2, Placed
<1>4. /\ \A x \in Runs \ {r} : runs'[x] = runs[x]
      /\ runs'[r].stage = "written" /\ runs'[r].ctx = c /\ runs'[r].mode = runs[r].mode
      /\ runs'[r].start = runs[r].start /\ runs'[r].tag = runs[r].tag /\ RunEnd(r)' = RunEnd(r)
    BY <1>2, BodyEnds
<1>5. UncommittedEnd(c)' = UncommittedEnd(c)
    BY <1>2 DEF UncommittedEnd, AwaitsCommit
<1>6. \A s \in Slots : slots'[c][s] =
          Appended(s, slots[c][s], runs[r].start, runs[r].query, runs[r].tag)
    BY <1>2 DEF IInv, TypeOK, SlotTypes
\* A column of the window or of the slack, other than those of the run, stays.
<1>7. ASSUME NEW s \in Slots, NEW col \in Nat, NEW tag, Keeps(c, s, col, tag),
             col < runs[r].start \/ RunEnd(r) <= col,
             ReadonlyColumnBase(s, pastLength[c]) <= col,
             IsSliding(s) => col + Window[s] < pastLength[c] + Capacity[s]
      PROVE  WillKeep(c, s, col, tag)
  <2>1. /\ Window[s] \in Nat /\ Capacity[s] \in Nat \ {0} /\ Window[s] <= Capacity[s]
        /\ ReadonlyColumnBase(s, pastLength[c]) \in Nat
        /\ IsSliding(s) => pastLength[c] <= ReadonlyColumnBase(s, pastLength[c]) + Window[s]
        /\ IsSliding(s) => RunEnd(r) + Window[s] <= pastLength[c] + Capacity[s]
      BY <1>1, <1>3, SlotsAssumption, BaseMoves DEF Fits, SlidingSlots
  <2>2. IsSliding(s) => RunEnd(r) <= col + Capacity[s] /\ col < runs[r].start + Capacity[s]
      BY <1>1, <1>3, <1>7, <2>1
  <2>3. Appended(s, slots[c][s], runs[r].start, runs[r].query, runs[r].tag)[SlotRow(s, col)]
            = slots[c][s][SlotRow(s, col)]
      BY <1>1, <1>7, <2>2, AppendKeeps DEF Keeps
  <2> QED BY <1>6, <1>7, <2>3 DEF Keeps, WillKeep
<1>8. ASSUME \A x \in Runs : runs'[x].ctx = c => ~Replaces(x)' /\ ~Spoils(x)'
      PROVE  Intact(c)'
  <2>1. \A x \in Runs : runs[x].ctx = c => ~Replaces(x) /\ ~Spoils(x)
    <3> SUFFICES ASSUME NEW x \in Runs, runs[x].ctx = c, Replaces(x) \/ Spoils(x) PROVE FALSE
        OBVIOUS
    <3>1. x # r /\ runs'[x] = runs[x]
        BY <1>2, <1>4 DEF Replaces, Spoils
    <3> QED BY <1>8, <3>1 DEF Replaces, Spoils
  <2>2. Intact(c) /\ UNCHANGED <<pastLength, history>>
      BY <1>2, <2>1 DEF Rings, Ring
  <2> SUFFICES ASSUME NEW s \in Slots,
                      NEW col \in ReadonlyColumnBase(s, pastLength[c]) .. (UncommittedEnd(c) - 1)
               PROVE  WillKeep(c, s, col, history[c][col])
      BY <1>5, <2>2 DEF Intact, Keeps, WillKeep
  <2>3. /\ ReadonlyColumnBase(s, pastLength[c]) \in Nat
        /\ Window[s] \in Nat /\ Capacity[s] \in Nat
        /\ IsSliding(s) => RunEnd(r) + Window[s] <= pastLength[c] + Capacity[s]
      BY <1>1, <1>3, SlotsAssumption, BaseMoves DEF Fits, SlidingSlots
  <2>4. /\ col \in Nat /\ col < runs[r].start /\ ReadonlyColumnBase(s, pastLength[c]) <= col
        /\ IsSliding(s) => col + Window[s] < pastLength[c] + Capacity[s]
      BY <1>1, <1>3, <2>3
  <2>5. Keeps(c, s, col, history[c][col])
      BY <2>2 DEF Intact
  <2> QED BY <1>7, <2>4, <2>5
<1>9. ASSUME NEW x \in Runs, runs'[x].ctx = c, Replaces(x)' PROVE FALSE
  <2>1. x # r /\ runs[x].ctx = c /\ runs[x].mode = "immediate" /\ Unsettled(x)
      BY <1>4, <1>9 DEF Replaces, Unsettled
  <2> QED BY <1>2, <2>1, Apart DEF Unsettled
<1>10. ASSUME NEW x \in Runs, runs'[x].ctx = c, Extends(x)', x # r
       PROVE  Extended(c, x)'
  <2>1. /\ runs'[x] = runs[x] /\ runs[x].ctx = c /\ Extends(x) /\ Extended(c, x)
        /\ RunEnd(x)' = RunEnd(x)
      BY <1>4, <1>10 DEF Extends, Rings, Ring, RunEnd
  <2>2. RunEnd(r) <= runs[x].start \/ RunEnd(x) <= runs[r].start
      BY <1>2, <1>10, <2>1, Apart DEF Unsettled, Extends
  <2>3. UncommittedEnd(c) <= runs[x].start /\ Fits(c, RunEnd(x))
      BY <1>2, <2>1, Placed DEF Extends
  <2>4. runs[x].start \in Nat /\ RunEnd(x) \in Nat
      BY Shapes
  <2> SUFFICES ASSUME NEW s \in Slots, NEW col \in runs[x].start .. (RunEnd(x) - 1)
               PROVE  WillKeep(c, s, col, runs[x].tag)
      BY <2>1 DEF Extended, Keeps, WillKeep
  <2>5. /\ ReadonlyColumnBase(s, pastLength[c]) \in Nat
        /\ ReadonlyColumnBase(s, pastLength[c]) <= pastLength[c]
        /\ Window[s] \in Nat /\ Capacity[s] \in Nat
        /\ IsSliding(s) => RunEnd(x) + Window[s] <= pastLength[c] + Capacity[s]
      BY <1>1, <2>3, SlotsAssumption, BaseMoves DEF Fits, SlidingSlots
  <2>6. /\ col \in Nat /\ runs[x].start <= col /\ col < RunEnd(x)
        /\ ReadonlyColumnBase(s, pastLength[c]) <= col
        /\ IsSliding(s) => col + Window[s] < pastLength[c] + Capacity[s]
      BY <1>1, <1>3, <2>3, <2>4, <2>5
  <2>7. col < runs[r].start \/ RunEnd(r) <= col
      BY <1>1, <2>2, <2>4, <2>6
  <2>8. Keeps(c, s, col, runs[x].tag)
      BY <2>1 DEF Extended
  <2> QED BY <1>7, <2>6, <2>7, <2>8
<1>11. Extended(c, r)'
  <2> SUFFICES ASSUME NEW s \in Slots, NEW col \in runs[r].start .. (RunEnd(r) - 1)
               PROVE  WillKeep(c, s, col, runs[r].tag)
      BY <1>4 DEF Extended, Keeps, WillKeep
  <2>1. /\ Window[s] \in Nat /\ Capacity[s] \in Nat \ {0}
        /\ IsSliding(s) => RunEnd(r) + Window[s] <= pastLength[c] + Capacity[s]
      BY <1>3, SlotsAssumption DEF Fits, SlidingSlots
  <2>2. col \in Nat /\ runs[r].start <= col /\ col < RunEnd(r)
      BY <1>1
  <2>3. IsSliding(s) => RunEnd(r) <= col + Capacity[s]
      BY <1>1, <1>3, <2>1, <2>2
  <2>4. IsSliding(s) \/ col < Capacity[s]
      BY <1>1, <1>2, <2>1, <2>2 DEF FitsFullSlots, SlidingSlots
  <2>5. SlotRow(s, col) \in Rows(s)
      BY <2>2, <2>4, RowExists
  <2>6. Appended(s, slots[c][s], runs[r].start, runs[r].query, runs[r].tag)[SlotRow(s, col)]
            = <<col, runs[r].tag>>
      BY <1>1, <2>3, <2>5, AppendWrites
  <2> QED BY <1>6, <2>5, <2>6 DEF WillKeep
<1>12. \A x \in Runs : runs'[x].ctx = c /\ Extends(x)' => Extended(c, x)'
    BY <1>10, <1>11
<1> QED BY <1>8, <1>9, <1>12 DEF Ring

\* A failure that may have written leaves no row to rely on.
LEMMA BreakKeepsRing ==
    ASSUME IInv, Rings, NEW r \in Runs, BreakBody(r), NEW c \in Contexts,
           runs[r].ctx = c, Serves(c), ~poisoned'[c]
    PROVE  Ring(c)'
<1>1. runs[r].stage = "started" /\ ~IsBorrowing(c) /\ EndBody(r, FALSE, TRUE)
    BY DEF BreakBody
<1>2. runs[r].kind = "run"
  <2> SUFFICES ASSUME runs[r].kind # "run" PROVE FALSE
      OBVIOUS
  <2>1. poisoned' = [poisoned EXCEPT ![c] = @ \/ (~FALSE /\ TRUE)]
      BY <1>1, BodyEnds
  <2>2. poisoned'[c]
      BY <2>1 DEF IInv, TypeOK, LengthTypes
  <2> QED BY <2>2
<1>3. \A x \in Runs : Unsettled(x) /\ runs[x].ctx = c => x = r
    BY <1>1, <1>2, AloneOf DEF Unsettled
<1>4. /\ \A x \in Runs \ {r} : runs'[x] = runs[x]
      /\ runs'[r].stage = "failed" /\ runs'[r].ctx = c /\ runs'[r].wrote
    BY <1>1, BodyEnds
<1>5. \A x \in Runs : runs'[x].ctx = c /\ runs'[x].stage # "idle" => x = r
    BY <1>3, <1>4 DEF Unsettled
<1>6. Spoils(r)'
    BY <1>4 DEF Spoils
<1>7. \A x \in Runs : runs'[x].ctx = c => ~Replaces(x)' /\ ~Extends(x)'
    BY <1>4, <1>5 DEF Replaces, Extends
<1> QED BY <1>4, <1>6, <1>7 DEF Ring

\* The bodies that write.
LEMMA BodyKeepsRings ==
    ASSUME IInv, CapturedLengthHolds, Tiling, Slack, Coverage, Rings, NEW r \in Runs,
           WriteBody(r) \/ BreakBody(r)
    PROVE  Rings'
<1>1. /\ SlotTypes /\ runs[r].ctx \in Contexts /\ runs[r].stage = "started"
      /\ UNCHANGED <<lender, pastLength, pending, history>>
    BY Shapes, RunsLeaveLives DEF RunStep, WriteBody, BreakBody, IInv, TypeOK
<1>2. /\ \A x \in Runs \ {r} : runs'[x] = runs[x]
      /\ runs'[r].ctx = runs[r].ctx
      /\ runs'[r].stage = "written" => (runs'[r].wrote <=> ~IsBorrowing(runs[r].ctx))
  <2>1. CASE WriteBody(r)
    <3>1. PICK wrote \in BOOLEAN : wrote = (~IsBorrowing(runs[r].ctx))
        OBVIOUS
    <3>2. EndBody(r, TRUE, wrote)
        BY <2>1, <3>1 DEF WriteBody
    <3> QED BY <3>1, <3>2, BodyEnds
  <2>2. CASE BreakBody(r)
      BY <2>2, BodyEnds DEF BreakBody
  <2> QED BY <2>1, <2>2
<1>3. \A o \in Contexts : o # runs[r].ctx \/ IsBorrowing(o) => slots'[o] = slots[o]
    BY <1>1 DEF WriteBody, BreakBody, WriteSlots, SlotTypes
<1>4. Writers'
  <2> SUFFICES ASSUME NEW x \in Runs, runs'[x].stage = "written"
               PROVE  runs'[x].wrote <=> ~IsBorrowing(runs[x].ctx)'
      BY DEF Writers
  <2>1. runs'[x].ctx = runs[x].ctx /\ lender'[runs'[x].ctx] = lender[runs[x].ctx]
      BY <1>1, <1>2
  <2>2. runs'[x].wrote <=> ~IsBorrowing(runs[x].ctx)
      BY <1>2 DEF Rings, Writers
  <2> QED BY <2>1, <2>2 DEF IsBorrowing
<1>5. ASSUME NEW o \in Contexts, Serves(o)' PROVE Ring(o)'
  <2>1. Serves(o) /\ ~poisoned'[o] /\ Ring(o)
      BY <1>5, RunsLeaveServing DEF RunStep, Rings
  <2>2. CASE o # runs[r].ctx
    <3>1. SameRing(o)
        BY <1>1, <1>2, <1>3, <2>2 DEF SameRing
    <3> QED BY <2>1, <3>1, RingKept
  <2>3. CASE o = runs[r].ctx
      BY <2>1, <2>3, WriteReplaces, WriteExtends, BreakKeepsRing
  <2> QED BY <2>2, <2>3
<1> QED BY <1>4, <1>5 DEF Rings

\* A conclusion accepts the rows of its runs.
LEMMA ConclusionKeepsRing ==
    ASSUME IInv, CapturedLengthHolds, Tiling, Slack, Coverage, Rings, NEW c \in Contexts,
           Serves(c), Settles(c, RunsOf(c)), UNCHANGED slots,
           \A x \in Runs : runs'[x].ctx = c => ~Marks(x)'
    PROVE  Ring(c)'
<1> DEFINE R == RunsOf(c)
<1>1. /\ pastLength[c] \in Nat /\ UncommittedEnd(c) \in Nat /\ ~IsBorrowing(c)
      /\ \A r \in R : /\ r \in Runs /\ runs[r].ctx = c /\ runs[r].stage = "written"
                      /\ runs[r].start \in Nat /\ RunEnd(r) \in Nat
    BY Shapes DEF RunsOf, Settles, Serves
<1>2. history'[c] = Recorded(c, R)
  <2>1. Advances(c, R) \/ Defers(c, R)
      BY <1>1 DEF Advances, Defers, Settles
  <2> QED BY <2>1 DEF Settles, NextHistory
<1>3. ASSUME NEW r \in R, NEW col \in Nat, col < RunEnd(r) PROVE col \in Columns
  <2>1. RunEnd(r) <= MaxRunEnd /\ MaxRunEnd \in Nat
      BY <1>1, ContextAssumption DEF IInv, Bounds, Unsettled, MaxRunEnd
  <2> QED BY <1>1, <1>3, <2>1, ContextAssumption DEF Columns, MaxRunEnd
\* The history of a column, of those below the ends of the runs.
<1>4. ASSUME NEW r \in R, NEW col \in Nat, col < RunEnd(r)
      PROVE  \/ \E x \in R : Covers(x, col) /\ history'[c][col] = runs[x].tag
             \/ (\A x \in R : ~Covers(x, col)) /\ history'[c][col] = history[c][col]
  <2> DEFINE Found == {x \in R : runs[x].start <= col /\ col < RunEnd(x)}
             x0 == CHOOSE x \in R : runs[x].start <= col /\ col < RunEnd(x)
  <2>1. col \in Columns
      BY <1>3, <1>4
  <2>2. history'[c][col] = IF \E x \in R : runs[x].start <= col /\ col < RunEnd(x)
                           THEN runs[x0].tag ELSE history[c][col]
      BY <1>2, <2>1 DEF Recorded
  <2>3. CASE \E x \in R : runs[x].start <= col /\ col < RunEnd(x)
    <3>1. x0 \in R /\ runs[x0].start <= col /\ col < RunEnd(x0)
        BY <2>3
    <3> QED BY <2>2, <2>3, <3>1 DEF Covers
  <2>4. CASE ~ \E x \in R : runs[x].start <= col /\ col < RunEnd(x)
      BY <2>2, <2>4 DEF Covers
  <2> QED BY <2>3, <2>4
<1> HIDE DEF R
<1>5. Intact(c)'
  <2>1. CASE Advanced(c, R)
    <3>1. PICK r \in R : /\ R = {r} /\ runs[r].mode = "immediate"
                         /\ pastLength'[c] = RunEnd(r) /\ UncommittedEnd(c)' = RunEnd(r)
      <4>1. \A r \in R : \/ runs[r].mode # "immediate"
                         \/ ~ \A x \in R : runs[x].mode # "immediate"
          OBVIOUS
      <4>2. ~Deferred(c, R)
          BY <2>1, <4>1 DEF Advanced, Deferred
      <4>3. \E r \in R : R = {r} /\ pastLength'[c] = RunEnd(r) /\ UncommittedEnd(c)' = RunEnd(r)
          BY <1>1, <4>2, EndsMoved DEF R
      <4> QED BY <2>1, <4>3 DEF Advanced
    <3>2. Replaced(c, r)
        BY <1>1, <3>1 DEF Rings, Ring, Replaces
    <3> SUFFICES ASSUME NEW s \in Slots,
                        NEW col \in ReadonlyColumnBase(s, RunEnd(r)) .. (RunEnd(r) - 1)
                 PROVE  WillKeep(c, s, col, history'[c][col])
        BY <3>1 DEF Intact, Keeps, WillKeep
    <3>3. col \in Nat /\ col < RunEnd(r)
        BY <1>1, BaseMoves
    <3>4. Keeps(c, s, col, IF col < runs[r].start THEN history[c][col] ELSE runs[r].tag)
        BY <3>2 DEF Replaced
    <3>5. history'[c][col] = IF col < runs[r].start THEN history[c][col] ELSE runs[r].tag
        BY <1>1, <1>4, <3>1, <3>3 DEF Covers
    <3> QED BY <3>4, <3>5 DEF Keeps, WillKeep
  <2>2. CASE Deferred(c, R)
    <3>1. \A x \in R : runs[x].mode # "immediate"
        BY <2>2 DEF Deferred
    <3>2. PICK r \in R : /\ pastLength'[c] = pastLength[c] /\ UncommittedEnd(c)' = RunEnd(r)
                         /\ \A x \in R : RunEnd(x) <= RunEnd(r)
      <4>1. ~Advanced(c, R)
          BY <3>1 DEF Advanced
      <4> QED BY <1>1, <4>1, EndsMoved DEF R
    <3>3. Intact(c) /\ \A x \in R : Extended(c, x)
      <4>1. \A x \in Runs : runs[x].ctx = c => ~Replaces(x) /\ ~Spoils(x)
          BY <1>1, <3>1 DEF R, RunsOf, Replaces, Spoils
      <4>2. \A x \in R : Extends(x)
          BY <1>1, <3>1 DEF Extends
      <4> QED BY <1>1, <4>1, <4>2 DEF Rings, Ring
    <3> SUFFICES ASSUME NEW s \in Slots,
                        NEW col \in ReadonlyColumnBase(s, pastLength[c]) .. (RunEnd(r) - 1)
                 PROVE  WillKeep(c, s, col, history'[c][col])
        BY <3>2 DEF Intact, Keeps, WillKeep
    <3>4. col \in Nat /\ col < RunEnd(r) /\ ReadonlyColumnBase(s, pastLength[c]) <= col
        BY <1>1, BaseMoves
    <3>5. CASE \E x \in R : Covers(x, col) /\ history'[c][col] = runs[x].tag
      <4>1. PICK x \in R : Covers(x, col) /\ history'[c][col] = runs[x].tag
          BY <3>5
      <4>2. Keeps(c, s, col, runs[x].tag)
          BY <1>1, <3>3, <3>4, <4>1 DEF Extended, Covers
      <4> QED BY <4>1, <4>2 DEF Keeps, WillKeep
    <3>6. CASE (\A x \in R : ~Covers(x, col)) /\ history'[c][col] = history[c][col]
      <4>1. col < UncommittedEnd(c)
        <5> SUFFICES ASSUME UncommittedEnd(c) <= col PROVE FALSE
            BY <1>1, <3>4
        <5>1. CASE runs[r].mode = "deferred"
          <6>1. runs[r].start = UncommittedEnd(c)
              BY <1>1, <5>1, Placed
          <6> QED BY <3>4, <3>6, <6>1 DEF Covers
        <5>2. CASE runs[r].mode = "chained"
          <6>1. r \in Members(c) /\ chain[c] # NoChain
              BY <1>1, <5>2, ChainedMember DEF Unsettled
          <6>2. RunEnd(r) <= chain[c].end /\ chain[c].end \in Nat
              BY <6>1, Shapes DEF Tiling, Tiled
          <6>3. col \in UncommittedEnd(c) .. (chain[c].end - 1)
              BY <1>1, <3>4, <6>2
          <6>4. PICK x \in chain[c].runs : Covers(x, col)
              BY <6>1, <6>3 DEF Coverage, Covered
          <6>5. x \in R
              BY <6>4, Shapes DEF R, RunsOf, IInv, Lease, LeasePoints, Unsettled
          <6> QED BY <3>6, <6>4, <6>5
        <5> QED BY <1>1, <3>1, <5>1, <5>2, Shapes
      <4>2. Keeps(c, s, col, history[c][col])
          BY <1>1, <3>3, <3>4, <4>1 DEF Intact
      <4> QED BY <3>6, <4>2 DEF Keeps, WillKeep
    <3> QED BY <1>4, <3>4, <3>5, <3>6
  <2>3. Advanced(c, R) \/ Deferred(c, R)
      BY <1>1, EndsMoved DEF R
  <2> QED BY <2>1, <2>2, <2>3
<1>6. \A x \in Runs : runs'[x].ctx = c => ~Replaces(x)' /\ ~Extends(x)'
    BY DEF Replaces, Extends, Marks
<1> QED BY <1>5, <1>6 DEF Ring

\* Where some of the runs of an owner conclude and the others do not, the rows that
\* all of them wrote poison it: unless it is poisoned, all of them conclude.
LEMMA AllConclude ==
    ASSUME Writers, NEW c \in Contexts, Concluding(c), ~IsBorrowing(c), ~poisoned'[c]
    PROVE  Settles(c, RunsOf(c))
<1>1. PICK R \in SUBSET RunsOf(c) : Settles(c, R) /\ (R = RunsOf(c) \/ Fails(c))
    BY DEF Concluding
<1>2. PICK x \in R : x \in RunsOf(c) /\ runs[x].stage = "written"
    BY <1>1 DEF Settles
<1>3. x \in Runs /\ runs[x].ctx = c /\ runs[x].wrote
    BY <1>2 DEF RunsOf, Writers
<1>4. runs'[x] # runs[x]
    BY <1>2 DEF Concluding
<1>5. ~Fails(c)
    BY <1>2, <1>3, <1>4 DEF Fails
<1> QED BY <1>1, <1>5

\* A settlement accepts the rows of its runs, or poisons what they wrote to.
LEMMA SettleKeepsRings ==
    ASSUME IInv, CapturedLengthHolds, Tiling, Slack, Coverage, Rings,
           SettleBatch \/ \E r \in Runs : SettleRun(r)
    PROVE  Rings'
<1>1. RunTypes /\ LengthTypes /\ UNCHANGED <<phase, lender, slots, lost>>
    BY DEF IInv, TypeOK, SettleRun, SettleBatch
<1>2. \A x \in Runs : runs'[x] = runs[x] \/ runs'[x].stage \in {"settled", "idle"}
  <2>1. ASSUME NEW r \in Runs, SettleRun(r)
        PROVE  \A x \in Runs : runs'[x] = runs[x] \/ runs'[x].stage \in {"settled", "idle"}
    <3>1. runs' = [runs EXCEPT ![r].stage = "settled"]
        BY <2>1 DEF SettleRun
    <3> QED BY <1>1, <3>1 DEF RunTypes, Run
  <2>2. CASE SettleBatch
      BY <2>2 DEF SettleBatch, IdleRun
  <2> QED BY <2>1, <2>2
<1>3. \A o \in Contexts : poisoned[o] => poisoned'[o]
    BY <1>1 DEF SettleRun, SettleBatch, LengthTypes
<1>4. Writers'
  <2>1. \A x \in Runs : runs'[x].stage = "written" => runs'[x] = runs[x]
      BY <1>2
  <2> QED BY <1>1, <2>1, WritersKept DEF Rings
<1>5. ASSUME NEW o \in Contexts, Serves(o)' PROVE Ring(o)'
  <2>1. Serves(o) /\ ~poisoned'[o] /\ ~IsBorrowing(o) /\ Ring(o)
      BY <1>1, <1>3, <1>5 DEF Serves, IsBorrowing, IsLive, Rings
  <2>2. \A x \in Runs : runs'[x].stage \in {"settled", "idle"} => ~Marks(x)'
      BY DEF Marks, Spoils
  <2>3. CASE Concluding(o)
    <3>0. /\ \A r \in RunsOf(o) : runs'[r].stage \in {"settled", "idle"}
          /\ Settles(o, RunsOf(o))
        BY <2>1, <2>3, AllConclude DEF Concluding, Rings
    <3>1. ASSUME NEW x \in Runs, runs'[x].ctx = o, Marks(x)' PROVE FALSE
      <4>1. runs'[x] = runs[x] /\ runs'[x].stage \notin {"settled", "idle"}
          BY <1>2, <2>2, <3>1
      <4>2. x \in RunsOf(o)
          BY <3>1, <4>1 DEF RunsOf
      <4> QED BY <3>0, <4>1, <4>2
    <3> QED BY <1>1, <2>1, <3>0, <3>1, ConclusionKeepsRing
  <2>4. CASE UNCHANGED <<pastLength[o], pending[o], history[o]>> /\ Fails(o)
    <3>1. ASSUME NEW x \in Runs, runs'[x] # runs[x]
          PROVE  /\ runs[x].ctx = o => ~Marks(x)
                 /\ ~Marks(x)'
      <4>1. ~Marks(x)'
          BY <1>2, <2>2, <3>1
      <4>2. ASSUME runs[x].ctx = o, Marks(x) PROVE FALSE
        <5>1. x \in RunsOf(o)
            BY <4>2 DEF RunsOf, Marks, Spoils
        <5>2. ~runs[x].wrote
            BY <2>1, <2>4, <3>1, <5>1 DEF Fails
        <5> QED BY <2>1, <4>2, <5>2 DEF Rings, Writers, Marks, Spoils
      <4> QED BY <4>1, <4>2
    <3>2. SameRing(o)
        BY <1>1, <2>4, <3>1 DEF SameRing
    <3> QED BY <2>1, <3>2, RingKept
  <2> QED BY <2>3, <2>4, SettleKinds
<1> QED BY <1>4, <1>5 DEF Rings

\* A context without runs is whole.
LEMMA RingOfRest ==
    ASSUME NEW o \in Contexts, \A x \in Runs : Unsettled(x) => runs[x].ctx # o
    PROVE  Ring(o) <=> Intact(o)
BY DEF Ring, Replaces, Spoils, Extends, Unsettled

\* Committing and rewinding drop rows from the end; a fork copies the slots.
LEMMA LifeKeepsRings ==
    ASSUME IInv, Slack, Rings, NEW c \in Contexts, ContextStep(c)
    PROVE  Rings'
<1>1. RunTypes /\ LengthTypes /\ ContextTypes /\ SlotTypes
    BY DEF IInv, TypeOK
<1>2. UNCHANGED <<runs, poisoned, lost>>
    BY DEF ContextStep, Commit, Rewind, Borrow, Fork, RegisterBorrower, AdoptFork, Dispose,
           StartDisposal, FinishDisposal
<1>3. \A d \in Contexts : phase[d] # "absent" => lender'[d] = lender[d]
    BY <1>1 DEF ContextStep, Commit, Rewind, Borrow, Fork, RegisterBorrower, AdoptFork, Dispose,
           StartDisposal, FinishDisposal, ContextTypes
<1>4. Writers'
  <2>1. \A x \in Runs : Unsettled(x) => lender'[runs[x].ctx] = lender[runs[x].ctx]
      BY <1>3, Shapes DEF IInv, Lease, RunsExist
  <2> QED BY <1>2, <2>1, WritersKept DEF Rings
\* A context that keeps its rows.
<1>5. ASSUME NEW o \in Contexts, Serves(o)', Serves(o),
             UNCHANGED <<slots[o], pastLength[o], pending[o], history[o]>>
      PROVE  Ring(o)'
  <2>1. SameRing(o)
      BY <1>2, <1>5 DEF SameRing
  <2> QED BY <1>5, <2>1, RingKept DEF Rings
\* A context without runs that drops rows.
<1>6. ASSUME NEW o \in Contexts, Serves(o), runKind[o] = "none",
             NEW end \in Nat, pastLength[o] <= end \/ SlidingSlots = {},
             end <= UncommittedEnd(o), pastLength'[o] = end, UncommittedEnd(o)' = end,
             history'[o] = Forgotten(o, end), UNCHANGED slots, end <= MaxLogicalLength
      PROVE  Ring(o)'
  <2>1. \A x \in Runs : Unsettled(x) => runs[x].ctx # o
      BY <1>6 DEF IInv, Lease, LeasePoints, HoldsLease
  <2>2. Intact(o) /\ pastLength[o] \in Nat /\ UncommittedEnd(o) \in Nat
      BY <1>6, <2>1, RingOfRest, Shapes DEF Rings
  <2>3. Intact(o)'
    <3> SUFFICES ASSUME NEW s \in Slots,
                        NEW col \in ReadonlyColumnBase(s, end) .. (end - 1)
                 PROVE  WillKeep(o, s, col, history'[o][col])
        BY <1>6 DEF Intact, Keeps, WillKeep
    <3>1. ReadonlyColumnBase(s, end) \in Nat
        BY <1>6, BaseMoves
    <3>2. /\ ReadonlyColumnBase(s, pastLength[o]) \in Nat
          /\ ReadonlyColumnBase(s, pastLength[o]) <= ReadonlyColumnBase(s, end)
      <4>1. CASE pastLength[o] <= end
          BY <1>6, <2>2, <4>1, BaseMoves
      <4>2. CASE SlidingSlots = {}
          BY <4>2 DEF SlidingSlots, ReadonlyColumnBase
      <4> QED BY <1>6, <4>1, <4>2
    <3>3. col \in Nat /\ col < end
        BY <3>1
    <3>4. history'[o][col] = history[o][col]
      <4>1. col \in Columns
          BY <1>6, <3>3, ContextAssumption DEF Columns
      <4> QED BY <1>6, <3>3, <4>1 DEF Forgotten
    <3>5. Keeps(o, s, col, history[o][col])
        BY <1>6, <2>2, <3>1, <3>2, <3>3 DEF Intact
    <3> QED BY <1>6, <3>4, <3>5 DEF Keeps, WillKeep
  <2>4. \A x \in Runs : Unsettled(x)' => runs'[x].ctx # o
      BY <1>2, <2>1 DEF Unsettled
  <2> QED BY <2>3, <2>4 DEF Ring, Replaces, Spoils, Extends, Unsettled
<1>7. ASSUME NEW o \in Contexts, Serves(o)' PROVE Ring(o)'
  <2>1. ASSUME NEW rows \in 0 .. ChunkLength, Commit(c, rows) PROVE Ring(o)'
    <3>1. Serves(o)
        BY <1>7, <2>1 DEF Commit, Serves, IsBorrowing, IsLive
    <3>2. CASE o # c
        BY <1>1, <1>5, <1>7, <2>1, <3>1, <3>2 DEF Commit, LengthTypes
    <3>3. CASE o = c
      <4>1. PICK end \in Nat : end = pending[c].pastLength + rows
          BY <1>1 DEF LengthTypes
      <4>2. /\ runKind[c] = "none" /\ AwaitsCommit(c) /\ rows <= pending[c].queryLength
            /\ end <= MaxLogicalLength /\ pending[c].pastLength = pastLength[c]
            /\ pastLength'[c] = end /\ pending'[c] = NoPending
            /\ history'[c] = Forgotten(c, end) /\ UNCHANGED slots
          BY <1>1, <2>1, <4>1 DEF Commit, LengthTypes
      <4>3. pastLength[c] <= end /\ end <= UncommittedEnd(c)
          BY <1>1, <4>1, <4>2 DEF UncommittedEnd, LengthTypes
      <4>4. UncommittedEnd(c)' = end
          BY <4>2 DEF UncommittedEnd, AwaitsCommit
      <4> QED BY <1>6, <3>1, <3>3, <4>2, <4>3, <4>4
    <3> QED BY <3>2, <3>3
  <2>2. ASSUME NEW position \in 0 .. MaxLogicalLength, Rewind(c, position) PROVE Ring(o)'
    <3>1. Serves(o)
        BY <1>7, <2>2 DEF Rewind, Serves, IsBorrowing, IsLive
    <3>2. CASE o # c
        BY <1>1, <1>5, <1>7, <2>2, <3>1, <3>2 DEF Rewind, LengthTypes
    <3>3. CASE o = c
      <4>1. PICK end \in Nat : end = position
          BY ContextAssumption
      <4>2. /\ runKind[c] = "none" /\ ~AwaitsCommit(c) /\ SlidingSlots = {}
            /\ end <= pastLength[c] /\ end <= MaxLogicalLength
            /\ pastLength'[c] = end /\ pending'[c] = pending[c]
            /\ history'[c] = Forgotten(c, end) /\ UNCHANGED slots
          BY <1>1, <2>2, <4>1, ContextAssumption DEF Rewind, Quiescent, LengthTypes
      <4>3. end <= UncommittedEnd(c) /\ UncommittedEnd(c)' = end
          BY <4>2 DEF UncommittedEnd, AwaitsCommit
      <4> QED BY <1>6, <3>1, <3>3, <4>2, <4>3
    <3> QED BY <3>2, <3>3
  <2>3. ASSUME NEW d \in Contexts, Borrow(c, d) PROVE Ring(o)'
    <3>1. o # d
        BY <1>1, <1>7, <2>3, ContextAssumption DEF Borrow, Serves, IsBorrowing, ContextTypes
    <3>2. Serves(o)
        BY <1>1, <1>7, <2>3, <3>1 DEF Borrow, Serves, IsBorrowing, IsLive, ContextTypes
    <3> QED BY <1>5, <1>7, <2>3, <3>2 DEF Borrow
  <2>4. ASSUME NEW d \in Contexts, Fork(c, d) PROVE Ring(o)'
    <3>1. CASE o # d
      <4>1. Serves(o)
          BY <1>1, <1>7, <2>4, <3>1 DEF Fork, Serves, IsBorrowing, IsLive, ContextTypes
      <4> QED BY <1>1, <1>5, <1>7, <2>4, <3>1, <4>1 DEF Fork, LengthTypes, SlotTypes
    <3>2. CASE o = d
      <4>1. /\ phase[d] = "absent" /\ Quiescent(c) /\ ~IsBorrowing(c) /\ UNCHANGED <<pending, lender>>
            /\ pastLength'[d] = pastLength[c] /\ slots'[d] = slots[c] /\ history'[d] = history[c]
          BY <1>1, <2>4 DEF Fork, LengthTypes, SlotTypes
      <4>2. ~AwaitsCommit(d)
          BY <1>7, <3>2, <4>1 DEF Serves, IsBorrowing, Slack, Room
      <4>3. UncommittedEnd(d)' = pastLength[c] /\ UncommittedEnd(c) = pastLength[c]
          BY <4>1, <4>2 DEF UncommittedEnd, AwaitsCommit, Quiescent
      <4>4. Serves(c) /\ \A x \in Runs : Unsettled(x) => runs[x].ctx # c
          BY <4>1 DEF Serves, Quiescent, Usable, IInv, Lease, LeasePoints, HoldsLease
      <4>5. Intact(c)
          BY <4>4, RingOfRest DEF Rings
      <4>6. Intact(d)'
        <5> SUFFICES ASSUME NEW s \in Slots,
                            NEW col \in ReadonlyColumnBase(s, pastLength[c]) .. (pastLength[c] - 1)
                     PROVE  WillKeep(d, s, col, history[c][col])
            BY <4>1, <4>3 DEF Intact, Keeps, WillKeep
        <5> QED BY <4>1, <4>3, <4>5 DEF Intact, Keeps, WillKeep
      <4>7. \A x \in Runs : Unsettled(x)' => runs'[x].ctx # d
          BY <1>2, <4>1 DEF Unsettled, IInv, Lease, RunsExist
      <4> QED BY <3>2, <4>6, <4>7 DEF Ring, Replaces, Spoils, Extends, Unsettled
    <3> QED BY <3>1, <3>2
  <2>5. CASE RegisterBorrower(c) \/ AdoptFork(c) \/ Dispose(c) \/ StartDisposal(c)
    <3>1. Serves(o)
        BY <1>1, <1>7, <2>5
           DEF RegisterBorrower, AdoptFork, Dispose, StartDisposal, Serves, IsBorrowing, IsLive,
               ContextTypes
    <3> QED BY <1>5, <1>7, <2>5, <3>1 DEF RegisterBorrower, AdoptFork, Dispose, StartDisposal
  <2>6. CASE FinishDisposal(c)
    <3>1. o # c /\ Serves(o)
        BY <1>1, <1>7, <2>6 DEF FinishDisposal, Serves, IsBorrowing, IsLive, ContextTypes
    <3>2. UNCHANGED <<slots[o], pastLength[o], pending[o], history[o]>>
        BY <1>1, <2>6, <3>1 DEF FinishDisposal, LengthTypes, SlotTypes
    <3> QED BY <1>5, <1>7, <3>1, <3>2
  <2> QED BY <2>1, <2>2, <2>3, <2>4, <2>5, <2>6 DEF ContextStep
<1> QED BY <1>4, <1>7 DEF Rings

\* Every step keeps them.
LEMMA RingsStep ==
    ASSUME IInv, IInv', CapturedLengthHolds, Tiling, Slack, Coverage, Rings, [Next]_vars
    PROVE  Rings'
<1>1. CASE BeginBatch \/ FinishBatch \/ DeviceLoss \/ UNCHANGED vars
  <2>1. /\ UNCHANGED <<phase, lender, pastLength, pending, poisoned, slots, runs, history>>
        /\ lost' = lost \/ lost' = TRUE
      BY <1>1 DEF BeginBatch, FinishBatch, DeviceLoss, contextVars, vars
  <2>2. \A o \in Contexts : SameRing(o)
      BY <2>1 DEF SameRing
  <2>3. Writers'
      BY <2>1, WritersKept DEF Rings
  <2>4. \A o \in Contexts : Serves(o)' => Serves(o)
      BY <2>1 DEF Serves, IsBorrowing, IsLive
  <2> QED BY <2>2, <2>3, <2>4, RingsKept
<1>2. ASSUME NEW r \in Runs, RunStep(r) PROVE Rings'
    BY <1>2, QuietKeepsRings, BodyKeepsRings, SettleKeepsRings DEF RunStep
<1> QED BY <1>1, <1>2, IssueKeepsRings, SettleKeepsRings, LifeKeepsRings DEF Next

\* Initially there is nothing to keep.
LEMMA InitRings == Init => Rings
<1> SUFFICES ASSUME Init PROVE Rings
    OBVIOUS
<1>1. \A r \in Runs : ~Unsettled(r)
    BY DEF Init, Unsettled, IdleRun
<1>2. Writers
    BY <1>1 DEF Writers, Unsettled
<1>3. ASSUME NEW o \in Contexts PROVE Ring(o)
  <2>1. pastLength[o] = 0 /\ UncommittedEnd(o) = 0
      BY DEF Init, UncommittedEnd, AwaitsCommit
  <2>2. ASSUME NEW s \in Slots, NEW col \in ReadonlyColumnBase(s, 0) .. (0 - 1) PROVE FALSE
      BY BaseMoves
  <2>3. Intact(o)
      BY <2>1, <2>2 DEF Intact
  <2> QED BY <1>1, <2>3, RingOfRest
<1> QED BY <1>2, <1>3 DEF Rings
------------------------------------------------------------------------------
(* What readers find. *)

\* All of it together is inductive.
Basis == IInv /\ Turns /\ CapturedLengthHolds /\ Tiling
Positions == Slack /\ Coverage /\ Placing
RingInv == Basis /\ Positions /\ Rings

\* Initially nothing runs and nothing is written.
LEMMA InitRingInv == Init => RingInv
<1>1. Init => Basis
    BY InitIInv, InitTurns
       DEF Basis, Init, CapturedLengthHolds, IdleRun, Tiling, Members, NoChain
<1> QED BY <1>1, InitSlack, InitCoverage, InitPlacing, InitRings DEF RingInv, Positions

\* Every step keeps the parts, each from the others before it.
LEMMA RingInvStep == ASSUME RingInv, [Next]_vars PROVE RingInv'
<1>1. Basis'
    BY IInvStep, TurnsStep, CapturedStep, TilingStep DEF RingInv, Basis
<1>2. Positions'
    BY <1>1, SlackStep, CoverageStep, PlacingStep DEF RingInv, Basis, Positions
<1>3. Rings'
    BY <1>1, RingsStep DEF RingInv, Basis, Positions
<1> QED BY <1>1, <1>2, <1>3 DEF RingInv

\* A context that no run holds has no mark on its rows.
LEMMA RestsIntact == RingInv => RestingRowsIntact
<1> SUFFICES ASSUME RingInv, NEW c \in Contexts, ~IsBorrowing(c),
                    phase[c] \in {"allocating", "open", "closing"}, IsLive(c),
                    runKind[c] = "none", NEW s \in Slots
             PROVE  Holds(c, s, ReadonlyColumnBase(s, pastLength[c]), UncommittedEnd(c))
    BY DEF RestingRowsIntact
<1>1. \A x \in Runs : Unsettled(x) => runs[x].ctx # c
    BY DEF RingInv, Basis, IInv, Lease, LeasePoints, HoldsLease
<1>2. Intact(c)
    BY <1>1, RingOfRest DEF RingInv, Rings, Serves
<1>3. pastLength[c] \in Nat /\ UncommittedEnd(c) \in Nat
    BY Shapes DEF RingInv, Basis
<1> SUFFICES ASSUME NEW col \in ReadonlyColumnBase(s, pastLength[c]) .. (UncommittedEnd(c) - 1)
             PROVE  slots[c][s][SlotRow(s, col)] = <<col, ExpectedTag(c, col)>>
    BY DEF Holds
<1>4. col < UncommittedEnd(c)
    BY <1>3, BaseMoves
<1> QED BY <1>2, <1>4 DEF Intact, Keeps, ExpectedTag

\* A run alone on the slots it reads finds the window behind the logical length.
LEMMA PlainReads ==
    ASSUME RingInv, NEW r \in Runs, runs[r].stage = "started", runs[r].mode # "chained",
           NEW o \in Contexts, o = Owner(runs[r].ctx), IsLive(o), NEW s \in Slots,
           NEW base \in Nat, ReadonlyColumnBase(s, runs[r].start) <= base
    PROVE  Holds(o, s, base, runs[r].start)
<1> USE DEF RingInv, Basis, Positions
<1>1. /\ runs[r].ctx \in Contexts /\ runs[r].start \in Nat
      /\ pastLength[o] \in Nat
    BY Shapes
<1>2. ~IsBorrowing(o) /\ phase[o] \in {"open", "closing"}
  <2>1. phase[runs[r].ctx] \in {"open", "closing"}
      BY DEF Turns, Held, Unsettled
  <2> QED BY <1>1, <2>1 DEF IInv, Borrowing, Owner, IsBorrowing
<1>3. ~AwaitsCommit(o) /\ runs[r].start = pastLength[o] /\ UncommittedEnd(o) = pastLength[o]
    BY DEF Slack, Plain, Free, Unsettled, CapturedLengthHolds, UncommittedEnd
<1>4. \A x \in Runs : Unsettled(x) /\ runs[x].ctx = o => x = r
  <2>1. \A x \in Runs : runs[x].ctx = o => Owner(runs[x].ctx) = o
      BY <1>2 DEF Owner
  <2> QED BY <2>1, AloneOf DEF Unsettled
<1>5. Intact(o)
  <2>1. \A x \in Runs : runs[x].ctx = o => ~Replaces(x) /\ ~Spoils(x)
      BY <1>4 DEF Replaces, Spoils, Unsettled
  <2> QED BY <1>2, <2>1 DEF Rings, Ring, Serves
<1> SUFFICES ASSUME NEW col \in base .. (runs[r].start - 1)
             PROVE  slots[o][s][SlotRow(s, col)] = <<col, ExpectedTag(o, col)>>
    BY DEF Holds
<1>6. ReadonlyColumnBase(s, pastLength[o]) \in Nat
    BY <1>1, BaseMoves
<1>7. col \in ReadonlyColumnBase(s, pastLength[o]) .. (UncommittedEnd(o) - 1)
    BY <1>1, <1>3, <1>6
<1>8. col < UncommittedEnd(o)
    BY <1>1, <1>3
<1> QED BY <1>5, <1>7, <1>8 DEF Intact, Keeps, ExpectedTag

\* A chained run has its turn after those on earlier columns, which have written.
LEMMA EarlierHasWritten ==
    ASSUME RingInv, NEW r \in Runs, runs[r].stage = "started", NEW x \in Runs, Earlier(x, r),
           ~(runs[r].kind = "batch" /\ batch.failed)
    PROVE  Extends(x)
<1> USE DEF RingInv, Basis, Positions
<1>1. PICK s \in Sessions : s = SessionOf(runs[r].ctx)
    BY DEF SessionOf, Sessions
<1>2. Place(r, s, 1)
    BY <1>1, HeadPlace DEF IInv, TypeOK, Heads, OnTop
<1>3. ~Waiting(x)
  <2> SUFFICES ASSUME Waiting(x) PROVE FALSE
      OBVIOUS
  <2>1. SessionOf(runs[x].ctx) = s
      BY <1>1 DEF Earlier
  <2>2. PICK i \in Nat : Place(x, s, i)
      BY <2>1 DEF Placing, InPlace
  <2>3. i < 1 /\ i >= 1
      BY <1>2, <2>2 DEF Placing, InOrder, Place
  <2> QED BY <2>3
<1>4. runs[x].kind = "batch" /\ runs[x].stage \in {"written", "failed", "settled"}
    BY <1>3, Shapes DEF Waiting, Earlier, Unsettled, Stages
<1>5. runs[r].kind = "batch"
    BY <1>4, Apart DEF Earlier
<1>6. runs[x].stage # "failed"
    BY <1>4, <1>5 DEF IInv, Bounds, BatchRuns
<1>7. runs[x].stage # "settled"
    BY <1>4 DEF IInv, Lease, ChainsHold
<1> QED BY <1>4, <1>6, <1>7 DEF Extends, Earlier

\* It finds the window, the rows that await a commit and those of the runs before.
LEMMA ChainedReads ==
    ASSUME RingInv, NEW r \in Runs, runs[r].stage = "started", runs[r].mode = "chained",
           NEW c \in Contexts, c = runs[r].ctx, IsLive(c), NEW s \in Slots,
           ~(runs[r].kind = "batch" /\ batch.failed)
    PROVE  ~IsBorrowing(c) /\ Holds(c, s, ColumnBase(s, runs[r].start), runs[r].start)
<1> USE DEF RingInv, Basis, Positions
<1>1. /\ runs[r].start \in Nat /\ runs[r].query \in Nat /\ RunEnd(r) = runs[r].start + runs[r].query
      /\ pastLength[c] \in Nat /\ UncommittedEnd(c) \in Nat /\ chain[c].end \in Nat
    BY Shapes DEF RunEnd
<1>2. r \in Members(c) /\ chain[c] # NoChain /\ ~IsBorrowing(c)
    BY ChainedMember DEF Unsettled
<1>3. pastLength[c] <= UncommittedEnd(c) /\ UncommittedEnd(c) <= runs[r].start
    BY <1>2, Placed
<1>4. Serves(c)
  <2>1. phase[c] \in {"open", "closing"}
      BY DEF Turns, Held, Unsettled
  <2> QED BY <1>2, <2>1 DEF Serves
<1>5. ASSUME NEW x \in Runs, Unsettled(x), runs[x].ctx = c, x # r
      PROVE  runs[x].mode = "chained" /\ ~Spoils(x)
  <2>1. runs[x].mode = "chained" /\ runs[x].kind = "batch" /\ runs[r].kind = "batch"
      BY <1>5, Apart DEF Unsettled
  <2> QED BY <1>5, <2>1 DEF IInv, Bounds, BatchRuns, Spoils, Unsettled
<1>6. Intact(c)
  <2>1. \A x \in Runs : runs[x].ctx = c => ~Replaces(x) /\ ~Spoils(x)
      BY <1>5 DEF Replaces, Spoils, Unsettled
  <2> QED BY <1>4, <2>1 DEF Rings, Ring
<1>7. /\ ReadonlyColumnBase(s, pastLength[c]) \in Nat
      /\ ReadonlyColumnBase(s, pastLength[c]) <= ColumnBase(s, runs[r].start)
      /\ ColumnBase(s, runs[r].start) \in Nat
  <2>1. /\ ReadonlyColumnBase(s, pastLength[c]) \in Nat
        /\ ReadonlyColumnBase(s, runs[r].start) \in Nat
        /\ ReadonlyColumnBase(s, pastLength[c]) <= ReadonlyColumnBase(s, runs[r].start)
        /\ ReadonlyColumnBase(s, runs[r].start) <= ColumnBase(s, runs[r].start)
      BY <1>1, <1>3, BaseMoves
  <2>2. ColumnBase(s, runs[r].start) \in Int
      BY <1>1, SlotsAssumption DEF ColumnBase, Lesser
  <2> QED BY <2>1, <2>2
<1>8. ASSUME NEW col \in ColumnBase(s, runs[r].start) .. (runs[r].start - 1)
      PROVE  slots[c][s][SlotRow(s, col)] = <<col, ExpectedTag(c, col)>>
  <2>1. col \in Nat /\ col < runs[r].start /\ ReadonlyColumnBase(s, pastLength[c]) <= col
      BY <1>1, <1>7
  <2>2. CASE col < UncommittedEnd(c)
    <3>1. col \in ReadonlyColumnBase(s, pastLength[c]) .. (UncommittedEnd(c) - 1)
        BY <1>1, <1>7, <2>1, <2>2
    <3> QED BY <1>6, <2>2, <3>1 DEF Intact, Keeps, ExpectedTag
  <2>3. CASE ~(col < UncommittedEnd(c))
    <3>1. RunEnd(r) <= chain[c].end
        BY <1>2 DEF Tiling, Tiled
    <3>2. col \in UncommittedEnd(c) .. (chain[c].end - 1)
        BY <1>1, <2>1, <2>3, <3>1
    <3>3. PICK y \in chain[c].runs : Covers(y, col)
        BY <1>2, <3>2 DEF Coverage, Covered
    <3>4. /\ y \in Runs /\ Unsettled(y) /\ runs[y].ctx = c /\ runs[y].mode = "chained"
          /\ runs[y].start \in Nat /\ RunEnd(y) \in Nat /\ y # r
          /\ runs[y].start <= col /\ col < RunEnd(y)
        BY <2>1, <3>3, Shapes DEF IInv, Lease, LeasePoints, Covers
    <3>5. RunEnd(y) <= runs[r].start
      <4>1. RunEnd(r) <= runs[y].start \/ RunEnd(y) <= runs[r].start
          BY <3>4, Apart DEF Unsettled
      <4> QED BY <1>1, <2>1, <3>4, <4>1
    <3>6. Earlier(y, r)
        BY <3>4, <3>5 DEF Earlier, Unsettled
    <3>7. Extends(y)
        BY <3>4, <3>6, EarlierHasWritten
    <3>8. Keeps(c, s, col, runs[y].tag)
      <4>1. Extended(c, y)
          BY <1>4, <3>4, <3>7 DEF Rings, Ring
      <4> QED BY <2>1, <3>4, <4>1 DEF Extended
    <3>9. ASSUME NEW z \in RunsOf(c), runs[z].start <= col, col < RunEnd(z) PROVE z = y
      <4> SUFFICES ASSUME z # y PROVE FALSE
          OBVIOUS
      <4>1. z \in Runs /\ Unsettled(z) /\ runs[z].ctx = c /\ runs[z].start \in Nat /\ RunEnd(z) \in Nat
          BY Shapes DEF RunsOf, Unsettled
      <4>2. RunEnd(z) <= runs[y].start \/ RunEnd(y) <= runs[z].start
          BY <3>4, <4>1, Apart
      <4> QED BY <2>1, <3>4, <3>9, <4>1, <4>2
    <3>10. (CHOOSE z \in RunsOf(c) : runs[z].start <= col /\ col < RunEnd(z)) = y
      <4>1. y \in RunsOf(c)
          BY <3>4 DEF RunsOf, Unsettled
      <4> QED BY <3>4, <3>9, <4>1
    <3>11. ExpectedTag(c, col) = runs[y].tag
        BY <2>3, <3>10 DEF ExpectedTag
    <3> QED BY <3>8, <3>11 DEF Keeps
  <2> QED BY <2>2, <2>3
<1> QED BY <1>2, <1>8 DEF Holds

\* So every reader finds its past.
LEMMA ReadsSee == RingInv => EveryReadSeesItsPast
<1> SUFFICES ASSUME RingInv, NEW r \in Runs, runs[r].stage = "started",
                    IsLive(runs[r].ctx), IsLive(Owner(runs[r].ctx)),
                    ~(runs[r].kind = "batch" /\ batch.failed), NEW s \in Slots
             PROVE  Holds(Owner(runs[r].ctx), s,
                          IF IsBorrowing(runs[r].ctx) THEN ReadonlyColumnBase(s, runs[r].start)
                          ELSE ColumnBase(s, runs[r].start), runs[r].start)
    BY DEF EveryReadSeesItsPast
<1>1. /\ runs[r].ctx \in Contexts /\ Owner(runs[r].ctx) \in Contexts /\ runs[r].start \in Nat
    BY Shapes DEF RingInv, Basis
<1>2. CASE runs[r].mode = "chained"
  <2>1. ~IsBorrowing(runs[r].ctx)
        /\ Holds(runs[r].ctx, s, ColumnBase(s, runs[r].start), runs[r].start)
      BY <1>1, <1>2, ChainedReads
  <2> QED BY <2>1 DEF Owner
<1>3. CASE runs[r].mode # "chained"
  <2> DEFINE base == IF IsBorrowing(runs[r].ctx) THEN ReadonlyColumnBase(s, runs[r].start)
                     ELSE ColumnBase(s, runs[r].start)
  <2>1. /\ ReadonlyColumnBase(s, runs[r].start) \in Nat
        /\ ReadonlyColumnBase(s, runs[r].start) <= ColumnBase(s, runs[r].start)
      BY <1>1, BaseMoves
  <2>2. ColumnBase(s, runs[r].start) \in Int
      BY <1>1, SlotsAssumption DEF ColumnBase, Lesser
  <2>3. base \in Nat /\ ReadonlyColumnBase(s, runs[r].start) <= base
      BY <2>1, <2>2
  <2> HIDE DEF base
  <2>4. Holds(Owner(runs[r].ctx), s, base, runs[r].start)
      BY <1>1, <1>3, <2>3, PlainReads
  <2> QED BY <2>4 DEF base
<1> QED BY <1>2, <1>3

\* Between runs the window behind the logical length and all rows that await a
\* commit are in the slots: assertGenerationCommit, the slack of deferred runs and
\* the two-step settlement leave no row to be lost, whatever is committed next.
THEOREM RestingIntact == Spec => []RestingRowsIntact
BY InitRingInv, RingInvStep, RestsIntact, PTL DEF Spec

\* A run that reads a live context finds in every slot exactly the accepted rows
\* of its window, for any capacities and windows, any number of contexts, runs
\* and borrowers, and every interleaving of their steps with failures and loss.
THEOREM ReadersSeeTheirPast == Spec => []EveryReadSeesItsPast
BY InitRingInv, RingInvStep, ReadsSee, PTL DEF Spec
===============================================================================
