------------------------------ MODULE PlanStorage ------------------------------
(***************************************************************************)
(* What one Session keeps on the device between executions: prepared plans *)
(* with the params they bake, slot backings, and the residents a backing   *)
(* bakes.  A backing that leaves the cache is retired, and its buffers are *)
(* destroyed later, on the Session's chain, when no unsubmitted encoding   *)
(* can name them.                                                          *)
(*                                                                         *)
(* An allocation that meets a non-fatal OOM returns an invalid object and  *)
(* throws nothing: only the errorScope of the section shows it, at the end *)
(* of a run or at the settlement of a batch.  Until then the object is in  *)
(* a cache and others may have hit it.                                     *)
(*                                                                         *)
(* An execution is a call.  It makes at most one plan, one backing and one *)
(* buffer for each params, so the pair of its key and the call that made   *)
(* it identifies an object.  One Session; its device is not lost.          *)
(***************************************************************************)
EXTENDS Naturals, Sequences, SequencesExt, FiniteSets, FiniteSetsExt, Functions

CONSTANTS
    Calls,          \* the executions: runs and enqueues
    Keys,           \* signatures of bindings (#preparedKey)
    Resident,       \* the keys whose signature names the resident tensor
    Bytes,          \* bytes and input bytes of a key's backing
    Budget,         \* planBackingBudgetBytes
    PlanCapacity,   \* PREPARED_PLAN_CAPACITY
    Params,         \* contents of params; every key bakes all of them
    Nobody

ASSUME StorageAssumption ==
    /\ Resident \subseteq Keys
    /\ Bytes \in [Keys -> Nat] /\ Budget \in Nat
    /\ PlanCapacity \in Nat \ {0}
    /\ Nobody # "batch"
    /\ Calls \cap {Nobody, "batch", "dispose", "destroy"} = {}

VARIABLES
    store,      \* the caches, see Empty
    resident,   \* the resident tensor: use and binding reservations, disposed
    call,       \* each execution
    chain,      \* #chain: what is accepted and has not left, in order
    disposal,   \* dispose was accepted
    holder,     \* who holds the section lock
    broken,     \* an invalid object was made or used in the open section
    batch       \* the batch and what its settlement knows

vars == <<store, resident, call, chain, disposal, holder, broken, batch>>

(* An object of a cache: its key, the call that made it, whether the device *)
(* really has it.                                                           *)
Object(k, c, good) == [key |-> k, by |-> c, ok |-> good]
None == Object(Nobody, Nobody, TRUE)

(* prepared and backings are kept least recently used first.                *)
Empty == [prepared |-> <<>>, params |-> [p \in Params |-> None], backings |-> <<>>,
          retired |-> {}, baked |-> 0]

Unissued == [stage |-> "unissued", kind |-> "run", key |-> Nobody, plan |-> None,
             holds |-> None]
NoBatch == [stage |-> "none", leases |-> 0, members |-> {}, reads |-> FALSE,
            failed |-> FALSE]

(* Accepted, its body not left.                                             *)
Working(c) == call[c].stage \in {"queued", "waiting", "fencing", "deriving", "encoding"}
(* Its additions may still be rolled back.                                  *)
Unsettled(c) == Working(c) \/ call[c].stage = "joined"

(* What a cache has of a key, and for it; the members of os it has, in their  *)
(* order; its order once the key has been used.                               *)
Of(cache, k) == {o \in ToSet(cache) : o.key = k}
Cached(cache, k) == IF Of(cache, k) = {} THEN None ELSE CHOOSE o \in Of(cache, k) : TRUE
Kept(cache, os) == FoldLeft(LAMBDA t, o : IF o \in os THEN Append(t, o) ELSE t, <<>>, cache)
Used(cache, k) == Kept(cache, ToSet(cache) \ Of(cache, k)) \o Kept(cache, Of(cache, k))

Count(k) == IF k \in Resident THEN 1 ELSE 0
Bakes(os) == Cardinality({o \in os : o.key \in Resident})

------------------------------------------------------------------------------
(* The caches                                                                *)

\* #retireBacking, of each of the backings given: the buffers await destruction,
\* the residents are given back.
Retire(s, gone) ==
    LET retiring == gone \cap ToSet(s.backings)
    IN  [s EXCEPT !.backings = Kept(@, ToSet(@) \ gone),
                  !.retired = @ \cup retiring,
                  !.baked = @ - Bakes(retiring)]

\* #destroyRetired
Destroyed(s) == [s EXCEPT !.retired = {}]

KeysOf(cache) == {o.key : o \in ToSet(cache)}
Load(ks) == FoldSet(LAMBDA k, n : Bytes[k] + n, 0, ks)

\* What stays when the n oldest backings of a Session go.
After(s, n) == SubSeq(s.backings, n + 1, Len(s.backings))

\* Mutant of EvictFor: makes room for what is there, not for the newcomer.
EvictForKept(s, k) ==
    Retire(s, ToSet(SubSeq(s.backings, 1, Min({n \in 0 .. Len(s.backings) :
        n = Len(s.backings) \/ Load(KeysOf(After(s, n))) <= Budget}))))

\* #evictBackingsFor: the oldest go until the newcomer fits.
EvictFor(s, k) ==
    Retire(s, ToSet(SubSeq(s.backings, 1, Min({n \in 0 .. Len(s.backings) :
        n = Len(s.backings) \/ Load(KeysOf(After(s, n))) + Bytes[k] <= Budget}))))

\* #activateBacking: the cached backing, or a new one baked from the plan.
Activate(s, c, plan, good) ==
    LET k == plan.key
        t == EvictFor(s, k)
    IN  IF Of(s.backings, k) # {}
        THEN [s EXCEPT !.backings = Used(@, k)]
        ELSE [t EXCEPT !.backings = Append(@, Object(k, c, good /\ plan.ok)),
                       !.baked = @ + Count(k)]

\* #takePrepared
Take(s, k) == [s EXCEPT !.prepared = Used(@, k)]

\* #registerPrepared: the oldest plan goes beyond the bound, with its backing.
Register(s, plan) ==
    LET t == [s EXCEPT !.prepared = Append(@, plan)]
    IN  IF Len(t.prepared) <= PlanCapacity THEN t
        ELSE Retire([t EXCEPT !.prepared = Tail(@)], Of(t.backings, Head(t.prepared).key))

\* #writeParams: what is cached is reused, the rest is allocated.
Allocate(s, c, ps, good) ==
    [s EXCEPT !.params = [p \in Params |-> IF p \in ps /\ s.params[p] = None
                                           THEN Object(p, c, good) ELSE s.params[p]]]

\* #derivePrepared: the plan is valid if the params it bakes are.
Derive(s, c, good) ==
    LET t == Allocate(s, c, Params, good)
    IN  Register(t, Object(call[c].key, c, \A p \in Params : t.params[p].ok))

\* #retireBuiltBackings and #forgetDerived of the additions of some executions,
\* matched by identity.
RetireBuilt(s, cs) == Retire(s, {o \in ToSet(s.backings) : o.by \in cs})

PlansOf(s, cs) == {o \in ToSet(s.prepared) : o.by \in cs}
BakedFrom(s, plans) == UNION {Of(s.backings, o.key) : o \in plans}

\* Mutant of Forget: the plan goes, its params stay in their cache.
ForgetPlan(s, cs) ==
    Retire([s EXCEPT !.prepared = Kept(@, ToSet(@) \ PlansOf(s, cs))],
           BakedFrom(s, PlansOf(s, cs)))

Forget(s, cs) ==
    Retire([s EXCEPT !.prepared = Kept(@, ToSet(@) \ PlansOf(s, cs)),
                     !.params = [p \in Params |-> IF @[p].by \in cs THEN None ELSE @[p]]],
           BakedFrom(s, PlansOf(s, cs)))

\* The objects of a cache that are not what they seem.
Invalid(s) == {o \in ToSet(s.prepared) \cup ToSet(s.backings) \cup Range(s.params) : ~o.ok}

------------------------------------------------------------------------------
Init ==
    /\ store = Empty
    /\ resident = [use |-> 0, bound |-> 0, disposed |-> FALSE]
    /\ call = [c \in Calls |-> Unissued]
    /\ chain = <<>> /\ disposal = FALSE
    /\ holder = Nobody /\ broken = FALSE /\ batch = NoBatch

------------------------------------------------------------------------------
(* Acceptance                                                                *)

\* run, enqueue and enqueueRead: the residents are reserved, the body is queued.
\* An enqueue needs an open batch, no unsettled run, and no enqueueRead before it.
Issue(c, kind, k) ==
    /\ call[c].stage = "unissued" /\ ~disposal
    /\ k \in Resident => ~resident.disposed
    /\ IF kind = "run" THEN UNCHANGED batch
       ELSE /\ batch.stage = "open" /\ ~batch.reads
            /\ \A d \in Calls : Working(d) => call[d].kind # "run"
            /\ batch' = [batch EXCEPT !.leases = @ + 1, !.members = @ \cup {c},
                                      !.reads = kind = "read"]
    /\ resident' = [resident EXCEPT !.use = @ + Count(k)]
    /\ call' = [call EXCEPT ![c] = [Unissued EXCEPT !.stage = "queued", !.kind = kind, !.key = k]]
    /\ chain' = Append(chain, c)
    /\ UNCHANGED <<store, disposal, holder, broken>>

\* Session.dispose: refused while an enqueueRead waits for its batch.
Dispose ==
    /\ ~disposal /\ ~batch.reads
    /\ disposal' = TRUE
    /\ chain' = Append(chain, "dispose")
    /\ UNCHANGED <<store, resident, call, holder, broken, batch>>

\* ResidentTensor.dispose: refused while anything is reserved.
DisposeResident ==
    /\ ~resident.disposed
    /\ store.baked = 0 /\ resident.bound = 0 /\ resident.use = 0
    /\ resident' = [resident EXCEPT !.disposed = TRUE]
    /\ UNCHANGED <<store, call, chain, disposal, holder, broken, batch>>

------------------------------------------------------------------------------
(* The body of a run                                                         *)

\* The plan is looked up before the section lock is waited for.
Start(c) ==
    /\ chain # <<>> /\ Head(chain) = c /\ call[c].stage = "queued" /\ call[c].kind = "run"
    /\ store' = Take(store, call[c].key)
    /\ call' = [call EXCEPT ![c] = [@ EXCEPT !.stage = "waiting",
                                             !.plan = Cached(store.prepared, call[c].key)]]
    /\ UNCHANGED <<resident, chain, disposal, holder, broken, batch>>

\* The encoding of a run on the given caches, with the backing of its plan.
Backed(c, s, bad) ==
    /\ store' = s
    /\ call' = [call EXCEPT ![c] = [@ EXCEPT !.stage = "encoding", !.holds = Last(s.backings)]]
    /\ broken' = (bad \/ ~Last(s.backings).ok)

\* The lock is taken.  A hit goes on with its backing, or waits for the device to
\* release memory before it builds one; a miss binds the residents and derives.
Enter(c) ==
    /\ call[c].stage = "waiting" /\ holder = Nobody
    /\ holder' = c
    /\ IF call[c].plan = None
       THEN /\ resident' = [resident EXCEPT !.bound = @ + Count(call[c].key)]
            /\ call' = [call EXCEPT ![c].stage = "deriving"]
            /\ broken' = FALSE /\ UNCHANGED store
       ELSE /\ IF Of(store.backings, call[c].key) # {}
               THEN Backed(c, Activate(store, c, call[c].plan, TRUE), FALSE)
               ELSE /\ call' = [call EXCEPT ![c].stage = "fencing"]
                    /\ broken' = FALSE /\ UNCHANGED store
            /\ UNCHANGED resident
    /\ UNCHANGED <<chain, disposal, batch>>

\* An answer of the device comes after the microtasks that conclude a batch.
Concluded == batch.stage # "ended"

BuildBacking(c) ==
    /\ call[c].stage = "fencing" /\ Concluded
    /\ \E good \in BOOLEAN : Backed(c, Activate(store, c, call[c].plan, good), broken)
    /\ UNCHANGED <<resident, chain, disposal, holder, batch>>

DerivePlan(c) ==
    /\ call[c].stage = "deriving" /\ call[c].kind = "run"
    /\ \E good \in BOOLEAN :
          /\ store' = Derive(store, c, good)
          /\ broken' = ~Last(store'.prepared).ok
    /\ call' = [call EXCEPT ![c].stage = "encoding"]
    /\ UNCHANGED <<resident, chain, disposal, holder, batch>>

\* The body is left: the lock, the place on the chain and the reservations go.
Leave(c) ==
    /\ resident' = [resident EXCEPT
                      !.use = @ - Count(call[c].key),
                      !.bound = IF holder = c /\ call[c].plan = None THEN @ - Count(call[c].key) ELSE @]
    /\ call' = [call EXCEPT ![c] = [Unissued EXCEPT !.stage = "done"]]
    /\ chain' = Tail(chain)
    /\ holder' = IF holder = c THEN Nobody ELSE holder
    /\ UNCHANGED <<disposal, batch>>

RunSucceeds(c) ==
    /\ call[c].stage = "encoding" /\ call[c].kind = "run" /\ ~broken /\ Concluded
    /\ store' = Destroyed(store)
    /\ Leave(c) /\ UNCHANGED broken

\* A run fails: what it built is retired, and what it derived is forgotten only
\* if its scopes report a failure (they do when an invalid object was met).  A
\* derivation that throws leaves the params it had made.
RunFails(c) ==
    /\ call[c].stage \in {"fencing", "deriving", "encoding"} /\ holder = c /\ Concluded
    /\ \E ps \in {{}, IF call[c].stage = "deriving" THEN Params ELSE {}}, good, scope \in BOOLEAN :
          LET s == Allocate(store, c, ps, good)
              bad == broken \/ \E p \in ps : ~s.params[p].ok
          IN  /\ bad => scope
              /\ store' = Destroyed(IF scope THEN Forget(RetireBuilt(s, {c}), {c})
                                    ELSE RetireBuilt(s, {c}))
    /\ broken' = FALSE
    /\ Leave(c)

------------------------------------------------------------------------------
(* The body of an enqueue, inside the section of its batch                   *)

\* The body is left: the lease, the place on the chain and the reservation go;
\* what it added stays with the batch.
Join(c, held) ==
    /\ call' = [call EXCEPT ![c] = [@ EXCEPT !.stage = "joined", !.holds = held]]
    /\ resident' = [resident EXCEPT !.use = @ - Count(call[c].key)]
    /\ batch' = [batch EXCEPT !.leases = @ - 1]
    /\ chain' = Tail(chain)
    /\ UNCHANGED <<disposal, holder>>

\* The synchronous rest of the body: backing, encoding and submit.  A readback
\* keeps the backing until the batch settles.
Submit(c, s, plan) ==
    \E good \in BOOLEAN :
        LET t == Activate(s, c, plan, good)
            b == Last(t.backings)
        IN  /\ store' = Destroyed(t)
            /\ broken' = (broken \/ ~b.ok \/ ~plan.ok)
            /\ Join(c, IF call[c].kind = "read" THEN b ELSE None)

\* A hit is synchronous; a miss derives first.
StartEnqueue(c) ==
    /\ chain # <<>> /\ Head(chain) = c /\ call[c].stage = "queued" /\ call[c].kind # "run"
    /\ IF Of(store.prepared, call[c].key) # {}
       THEN Submit(c, Take(store, call[c].key), Cached(store.prepared, call[c].key))
       ELSE /\ call' = [call EXCEPT ![c].stage = "deriving"]
            /\ UNCHANGED <<store, resident, chain, disposal, holder, broken, batch>>

DeriveEnqueue(c) ==
    /\ call[c].stage = "deriving" /\ call[c].kind # "run"
    /\ \E good \in BOOLEAN :
          LET s == Derive(store, c, good) IN Submit(c, s, Last(s.prepared))

\* An enqueue fails on the host after part of its work: the backing it built is
\* retired, the plan and params stay until the batch is known to have failed.
EnqueueFails(c) ==
    /\ call[c].kind # "run"
    /\ \/ /\ chain # <<>> /\ Head(chain) = c /\ call[c].stage = "queued"
          /\ Of(store.prepared, call[c].key) # {}
       \/ call[c].stage = "deriving"
    /\ \E good, builds \in BOOLEAN, ps \in SUBSET Params :
          LET hit == call[c].stage = "queued"
              d == IF hit THEN Take(store, call[c].key)
                   ELSE IF ps = Params THEN Derive(store, c, good) ELSE Allocate(store, c, ps, good)
              s == IF builds /\ (hit \/ ps = Params)
                   THEN Activate(d, c, Last(d.prepared), TRUE) ELSE d
          IN  /\ broken' = (broken \/ \E o \in Invalid(s) : o.by = c)
              /\ store' = Destroyed(RetireBuilt(s, {c}))
    /\ Join(c, None)

\* A body that throws before it touches a cache: the context is gone, a symbol
\* is not bound.
Refuse(c) ==
    /\ chain # <<>> /\ Head(chain) = c /\ call[c].stage = "queued"
    /\ IF call[c].kind = "run"
       THEN Leave(c)
       ELSE Join(c, None)
    /\ UNCHANGED <<store, broken>>

------------------------------------------------------------------------------
(* The batch, and the jobs on the chain that are not executions              *)

OpenBatch ==
    /\ batch.stage = "none" /\ holder = Nobody
    /\ ~disposal /\ \E c \in Calls : call[c].stage = "unissued"
    /\ batch' = [NoBatch EXCEPT !.stage = "open"]
    /\ holder' = "batch" /\ broken' = FALSE
    /\ UNCHANGED <<store, resident, call, chain, disposal>>

FinishBatch ==
    /\ batch.stage = "open"
    /\ batch' = [batch EXCEPT !.stage = "finished"]
    /\ UNCHANGED <<store, resident, call, chain, disposal, holder, broken>>

\* The section ends after its leases: readbacks are copied and fenced, the scopes
\* answer, the lock is free.
SettleBatch ==
    /\ batch.stage = "finished" /\ batch.leases = 0
    /\ \E failed \in {broken, TRUE} :
          batch' = [batch EXCEPT !.stage = "ended", !.failed = failed]
    /\ call' = [c \in Calls |-> IF c \in batch.members THEN [call[c] EXCEPT !.holds = None]
                                ELSE call[c]]
    /\ holder' = Nobody /\ broken' = FALSE
    /\ UNCHANGED <<store, resident, chain, disposal>>

\* What the settlement of a batch leaves of its members' additions.
RolledBack ==
    IF batch.failed THEN Forget(RetireBuilt(store, batch.members), batch.members) ELSE store

EndBatch ==
    /\ call' = [c \in Calls |-> IF c \in batch.members THEN [Unissued EXCEPT !.stage = "done"]
                                ELSE call[c]]
    /\ batch' = NoBatch
    /\ UNCHANGED <<resident, disposal, holder, broken>>

\* Mutants of ConcludeBatch: the buffers are destroyed at once; nobody destroys
\* them.
ConcludeDestroying ==
    /\ batch.stage = "ended"
    /\ store' = Destroyed(RolledBack)
    /\ UNCHANGED chain
    /\ EndBatch

ConcludeKeeping ==
    /\ batch.stage = "ended"
    /\ store' = RolledBack
    /\ UNCHANGED chain
    /\ EndBatch

\* #rollbackSettled of every member: a failed section takes all its additions
\* along; their buffers are destroyed by a job of the chain, for a run that got
\* the lock meanwhile may be encoding with them.
ConcludeBatch ==
    /\ batch.stage = "ended"
    /\ store' = RolledBack
    /\ chain' = IF batch.failed /\ batch.members # {} /\ store'.retired # {}
                THEN Append(chain, "destroy") ELSE chain
    /\ EndBatch

DestroyJob ==
    /\ chain # <<>> /\ Head(chain) = "destroy"
    /\ store' = Destroyed(store)
    /\ chain' = Tail(chain)
    /\ UNCHANGED <<resident, call, disposal, holder, broken, batch>>

\* #disposeOnce: every backing goes.
DisposeJob ==
    /\ chain # <<>> /\ Head(chain) = "dispose"
    /\ store' = Destroyed(Retire(store, ToSet(store.backings)))
    /\ chain' = Tail(chain)
    /\ UNCHANGED <<resident, call, disposal, holder, broken, batch>>

------------------------------------------------------------------------------
Body(c) ==
    \/ Start(c) \/ Enter(c) \/ BuildBacking(c) \/ DerivePlan(c)
    \/ RunSucceeds(c) \/ RunFails(c)
    \/ StartEnqueue(c) \/ DeriveEnqueue(c) \/ EnqueueFails(c) \/ Refuse(c)

Next ==
    \/ \E c \in Calls, kind \in {"run", "enqueue", "read"}, k \in Keys : Issue(c, kind, k)
    \/ \E c \in Calls : Body(c)
    \/ OpenBatch \/ FinishBatch \/ SettleBatch \/ ConcludeBatch
    \/ DestroyJob \/ Dispose \/ DisposeJob \/ DisposeResident

Spec == Init /\ [][Next]_vars

------------------------------------------------------------------------------
(* Properties                                                                *)

\* What an execution still encodes with, or reads back at the settlement of its
\* batch, has not been destroyed: a backing may be retired under it, by the
\* rollback of an earlier batch, but not destroyed.  The resident an accepted
\* execution names, or a cached backing bakes, is not disposed either.
HeldStorageAlive ==
    /\ \A c \in Calls : call[c].holds # None =>
          call[c].holds \in ToSet(store.backings) \cup store.retired
    /\ resident.disposed =>
          /\ \A c \in Calls : Working(c) => call[c].key \notin Resident
          /\ \A o \in ToSet(store.backings) : o.key \notin Resident

\* An object the device does not really have is only ever in a cache while the
\* execution that made it may still be rolled back: no failure is cached for
\* the executions to come.
NothingInvalidKept ==
    \A o \in Invalid(store) : Unsettled(o.by)

\* At rest nothing awaits destruction, nothing is reserved but what a cached
\* backing bakes, and the reservations a resident counts are exact.
RestHoldsNothing ==
    chain = <<>> /\ batch.stage = "none" =>
        /\ store.retired = {}
        /\ resident.use = 0 /\ resident.bound = 0
        /\ store.baked = Bakes(ToSet(store.backings))

\* The backings kept exceed the budget only as one backing that exceeds it alone.
BudgetKept == Load(KeysOf(store.backings)) <= Budget \/ Len(store.backings) = 1
===============================================================================
