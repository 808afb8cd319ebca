--------------------------- MODULE PlanStorageProofs ---------------------------
(* Proofs about PlanStorage, for any number of executions and keys, any sizes,
   any budget and any bound on the plans.

   IInv is the inductive invariant. Its parts:
     Types     the type of each variable;
     Line      the chain holds what is accepted and has not left, each execution
               once; what has begun is at its head;
     Batched   the members of the batch, and how many of them are on the chain;
     Reads     only runs wait behind a read, and nobody disposes;
     Uses      the use reservations are the executions on the chain that name the
               tensor;
     Sections  who holds the lock is the run that is encoding, or the batch;
     Counts    the binding reservations of the tensor are exact;
     Refused   nothing names the tensor once it is disposed;
     Holding   what is encoded with, or read back later, is cached or retired;
     Blame     an invalid object was made in the open section, which knows it, or
               by the batch that is settled as failed;
     Cleaning  what is retired will be destroyed, by the run in its section or by
               a job of the chain;
     BudgetKept, the property.                                                  *)
EXTENDS PlanStorage, FoldFacts

Objects == [key : Keys, by : Calls, ok : BOOLEAN]
Stores == [prepared : Seq(Objects),
           params : [Params -> [key : Params, by : Calls, ok : BOOLEAN] \cup {None}],
           backings : Seq(Objects), retired : SUBSET Objects, baked : Int]
Stages == {"unissued", "queued", "waiting", "fencing", "deriving", "encoding", "joined",
           "done"}

Executions == [stage : Stages, kind : {"run", "enqueue", "read"}, key : Keys \cup {Nobody},
               plan : Objects \cup {None}, holds : Objects \cup {None}]
Batches == [stage : {"none", "open", "finished", "ended"}, leases : Int,
            members : SUBSET Calls, reads : BOOLEAN, failed : BOOLEAN]
Reservations == [use : Int, bound : Int, disposed : BOOLEAN]

Types ==
    /\ store \in Stores
    /\ resident \in Reservations
    /\ call \in [Calls -> Executions]
    /\ chain \in Seq(Calls \cup {"dispose", "destroy"})
    /\ disposal \in BOOLEAN
    /\ holder \in Calls \cup {"batch", Nobody}
    /\ broken \in BOOLEAN
    /\ batch \in Batches

\* The section of the batch is open.
Open == batch.stage \in {"open", "finished"}

Begun(c) == call[c].stage \in {"waiting", "fencing", "deriving", "encoding"}
Running(c) == call[c].kind = "run" /\ call[c].stage \in {"fencing", "deriving", "encoding"}

\* x is on the chain before y.
Before(q, x, y) == \E i, j \in DOMAIN q : i < j /\ q[i] = x /\ q[j] = y

Place(c) ==
    /\ Working(c) <=> c \in ToSet(chain)
    /\ ~Before(chain, c, c)
    /\ Begun(c) => chain # <<>> /\ Head(chain) = c
    /\ Unsettled(c) => call[c].key \in Keys
    /\ call[c].plan # None => call[c].plan.key = call[c].key
    /\ call[c].stage \in {"waiting", "fencing", "encoding"} => call[c].kind = "run"
    /\ call[c].stage = "fencing" => call[c].plan # None

Line ==
    /\ \A c \in Calls : Place(c)
    /\ "dispose" \in ToSet(chain) => disposal

\* The members of the batch on the chain.
Leasing == {c \in batch.members : Working(c)}

Batched ==
    /\ \A c \in Calls :
          /\ c \in batch.members <=> Unsettled(c) /\ call[c].kind # "run"
          /\ call[c].stage = "joined" => c \in batch.members
    /\ IsFiniteSet(batch.members)
    /\ batch.leases = Cardinality(Leasing)
    /\ batch.members # {} => batch.stage # "none"
    /\ batch.stage = "ended" => batch.leases = 0

Reads ==
    /\ batch.reads => ~disposal /\ batch.stage # "none"
    /\ \A c \in batch.members : call[c].kind = "read" => batch.reads
    /\ \A c \in Calls : call[c].kind = "read" =>
          \A d \in ToSet(chain) : Before(chain, c, d) => d \in Calls /\ call[d].kind = "run"
    /\ Open => \A c \in batch.members : call[c].stage = "joined" /\ call[c].kind = "read" =>
          \A d \in ToSet(chain) : d \in Calls /\ call[d].kind = "run"

\* The executions on the chain that name the resident tensor.
Users == {c \in Calls : Working(c) /\ call[c].key \in Resident}

Uses == IsFiniteSet(Users) /\ resident.use = Cardinality(Users)

Queue == Line /\ Batched /\ Reads /\ Uses

Sections ==
    /\ \A c \in Calls : holder = c <=> Running(c)
    /\ holder = "batch" <=> Open
    /\ \A c \in Calls : Running(c) /\ call[c].stage # "encoding" => ~broken

Counts ==
    /\ resident.bound = IF holder \in Calls /\ call[holder].plan = None
                        THEN Count(call[holder].key) ELSE 0
    /\ store.baked = Bakes(ToSet(store.backings))

Refused ==
    resident.disposed =>
        /\ Users = {}
        /\ \A o \in ToSet(store.backings) : o.key \notin Resident

Holding ==
    \A c \in Calls : call[c].holds # None =>
        /\ call[c].holds \in ToSet(store.backings) \cup store.retired
        /\ \/ call[c].stage = "encoding"
           \/ call[c].stage = "joined" /\ call[c].kind = "read" /\ Open

Blame ==
    \A o \in Invalid(store) :
        \/ o.by = holder /\ broken
        \/ /\ o.by \in batch.members
           /\ Open => broken
           /\ batch.stage = "ended" => batch.failed

Cleaning ==
    store.retired # {} => holder \in Calls \/ "destroy" \in ToSet(chain)

IInv ==
    /\ Types /\ Queue /\ Sections /\ Counts
    /\ Refused /\ Holding /\ Blame /\ Cleaning /\ BudgetKept

-------------------------------------------------------------------------------
(* The caches                                                                  *)

\* The function g keeps, over every set of D, the members of os as the fold of
\* Kept does: the last index is taken out.
Picks(cache, os, D, g) ==
    \A s \in D : g[s] = IF s = {} THEN <<>>
                        ELSE IF cache[Max(s)] \in os
                             THEN Append(g[s \ {Max(s)}], cache[Max(s)])
                             ELSE g[s \ {Max(s)}]

\* A set of indices that is not empty has a last one.
LEMMA Greatest ==
    ASSUME NEW n \in Nat, NEW s \in SUBSET (1 .. n), s # {}
    PROVE  Max(s) \in s /\ \A y \in s : Max(s) >= y
<1> DEFINE T == {m \in Nat : \A y \in s : m >= y}
<1>1. \A y \in s : y \in Nat /\ n >= y
    OBVIOUS
<1>2. n \in T /\ T \subseteq Nat
    BY <1>1
<1> HIDE DEF T
<1>3. PICK m \in T : \A k \in T : m <= k
    BY <1>2, Least
<1>4. m \in Nat /\ \A y \in s : m >= y
    BY <1>3 DEF T
<1>5. m \in s
    <2>1. SUFFICES ASSUME m \notin s PROVE FALSE
        OBVIOUS
    <2>2. \A y \in s : m # y /\ m > y /\ m - 1 >= y
        BY <1>1, <1>4, <2>1
    <2>3. m - 1 \in Nat
        <3>1. PICK y \in s : TRUE
            OBVIOUS
        <3>2. y \in Nat /\ m - 1 >= y
            BY <1>1, <2>2
        <3> QED BY <1>4, <3>2
    <2>4. m - 1 \in T
        BY <2>2, <2>3 DEF T
    <2> QED BY <1>3, <1>4, <2>4
<1>6. \E x \in s : \A y \in s : x >= y
    BY <1>4, <1>5
<1> QED BY <1>6 DEF Max

\* There is one over every set of the indices of a cache.
LEMMA PicksExist ==
    ASSUME NEW S, NEW cache \in Seq(S), NEW os
    PROVE  \E g : DOMAIN g = SUBSET DOMAIN cache
                  /\ g = [s \in SUBSET DOMAIN cache |-> g[s]]
                  /\ Picks(cache, os, SUBSET DOMAIN cache, g)
<1> DEFINE D == DOMAIN cache
           Small(n) == {s \in SUBSET D : Cardinality(s) <= n}
           Picked(n) == \E g : /\ g = [s \in Small(n) |-> g[s]]
                               /\ Picks(cache, os, Small(n), g)
<1>1. Len(cache) \in Nat /\ D = 1 .. Len(cache) /\ IsFiniteSet(D)
    BY FS_Interval
<1>2. \A s \in SUBSET D : /\ IsFiniteSet(s) /\ Cardinality(s) \in Nat
                          /\ Cardinality(s) <= Cardinality(D)
    BY <1>1, FS_Subset, FS_CardinalityType
<1>3. \A s \in SUBSET D : s # {} => Max(s) \in s
    BY <1>1, Greatest
<1> HIDE DEF D
<1>4. Picked(0)
    <2>1. \A s \in Small(0) : s = {}
        BY <1>2, FS_EmptySet
    <2> DEFINE g == [s \in Small(0) |-> <<>>]
    <2>2. g = [s \in Small(0) |-> g[s]] /\ Picks(cache, os, Small(0), g)
        BY <2>1 DEF Picks
    <2> HIDE DEF g
    <2> QED BY <2>2
<1>5. ASSUME NEW n \in Nat, Picked(n) PROVE Picked(n + 1)
    <2>1. PICK g : g = [s \in Small(n) |-> g[s]] /\ Picks(cache, os, Small(n), g)
        BY <1>5
    <2> DEFINE b(s) == s \ {Max(s)}
               h == [s \in Small(n + 1) |-> IF s = {} THEN <<>>
                                            ELSE IF cache[Max(s)] \in os
                                                 THEN Append(g[b(s)], cache[Max(s)])
                                                 ELSE g[b(s)]]
    <2>2. ASSUME NEW s \in Small(n + 1), s # {}
          PROVE  b(s) \in Small(n)
        <3>1. Max(s) \in s /\ s \in SUBSET D /\ Cardinality(s) <= n + 1
            BY <1>3, <2>2
        <3>2. Cardinality(s \ {Max(s)}) = Cardinality(s) - 1
            BY <1>2, <3>1, FS_RemoveElement
        <3> QED BY <1>2, <3>1, <3>2
    <2> HIDE DEF b
    <2>3. \A s \in Small(n) : s \in Small(n + 1)
        BY <1>2
    <2>4. \A s \in Small(n) : h[s] = g[s]
        BY <2>1, <2>3 DEF Picks, b
    <2>5. ASSUME NEW s \in Small(n + 1), s # {}
          PROVE  h[s] = IF cache[Max(s)] \in os THEN Append(h[b(s)], cache[Max(s)]) ELSE h[b(s)]
        BY <2>2, <2>4, <2>5
    <2>6. \A s \in Small(n + 1) : s = {} => h[s] = <<>>
        OBVIOUS
    <2>7. h = [s \in Small(n + 1) |-> h[s]]
        OBVIOUS
    <2> HIDE DEF h, Small
    <2>8. Picks(cache, os, Small(n + 1), h)
        BY <2>5, <2>6 DEF Picks, b
    <2> QED BY <2>7, <2>8
<1> HIDE DEF Picked
<1>6. \A n \in Nat : Picked(n)
    <2>1. SUFFICES ASSUME {n \in Nat : ~Picked(n)} # {} PROVE FALSE
        OBVIOUS
    <2>2. PICK n \in {m \in Nat : ~Picked(m)} : \A m \in {k \in Nat : ~Picked(k)} : n <= m
        BY <2>1, Least
    <2>3. n # 0
        BY <1>4, <2>2
    <2>4. n - 1 \in Nat /\ ~(n <= n - 1)
        BY <2>2, <2>3
    <2>5. Picked((n - 1) + 1)
        BY <1>5, <2>2, <2>4
    <2> QED BY <2>2, <2>4, <2>5
<1>7. Picked(Cardinality(D)) /\ Small(Cardinality(D)) = SUBSET D
    <2>1. Cardinality(D) \in Nat
        BY <1>1, FS_CardinalityType
    <2> QED BY <1>2, <1>6, <2>1
<1> HIDE DEF Small
<1> QED BY <1>7 DEF Picked, D

\* What a sequence has once a member is appended, or another sequence.
LEMMA ToSetAppend ==
    ASSUME NEW S, NEW t \in Seq(S), NEW e \in S
    PROVE  ToSet(Append(t, e)) = ToSet(t) \cup {e}
<1>1. Len(Append(t, e)) = Len(t) + 1 /\ Len(t) \in Nat
    OBVIOUS
<1>2. \A i \in 1 .. Len(t) : Append(t, e)[i] = t[i]
    OBVIOUS
<1>3. Append(t, e)[Len(t) + 1] = e
    OBVIOUS
<1>4. DOMAIN Append(t, e) = 1 .. (Len(t) + 1) /\ DOMAIN t = 1 .. Len(t)
    BY <1>1
<1>5. \A i \in 1 .. (Len(t) + 1) : i \in 1 .. Len(t) \/ i = Len(t) + 1
    BY <1>1
<1>6. Len(t) + 1 \in 1 .. (Len(t) + 1) /\ 1 .. Len(t) \subseteq 1 .. (Len(t) + 1)
    BY <1>1
<1> QED BY <1>2, <1>3, <1>4, <1>5, <1>6 DEF ToSet

\* A sequence with a length is not the empty one.
LEMMA LongIsNonempty ==
    ASSUME NEW S, NEW q \in Seq(S), Len(q) # 0
    PROVE  q # <<>>
OBVIOUS

\* The members of a concatenation.
LEMMA ToSetConcat ==
    ASSUME NEW S, NEW t \in Seq(S), NEW u \in Seq(S)
    PROVE  ToSet(t \o u) = ToSet(t) \cup ToSet(u)
<1>1. Len(t \o u) = Len(t) + Len(u) /\ Len(t) \in Nat /\ Len(u) \in Nat
    OBVIOUS
<1>2. \A i \in 1 .. Len(t) : (t \o u)[i] = t[i]
    OBVIOUS
<1>3. \A i \in 1 .. Len(u) : (t \o u)[i + Len(t)] = u[i]
    OBVIOUS
<1>4. DOMAIN (t \o u) = 1 .. (Len(t) + Len(u)) /\ DOMAIN t = 1 .. Len(t) /\ DOMAIN u = 1 .. Len(u)
    BY <1>1
<1>5. \A i \in 1 .. (Len(t) + Len(u)) :
          i \in 1 .. Len(t) \/ (i - Len(t) \in 1 .. Len(u) /\ i = (i - Len(t)) + Len(t))
    BY <1>1
<1>6. /\ 1 .. Len(t) \subseteq 1 .. (Len(t) + Len(u))
      /\ \A i \in 1 .. Len(u) : i + Len(t) \in 1 .. (Len(t) + Len(u))
    BY <1>1
<1>7. ASSUME NEW x \in ToSet(t \o u) PROVE x \in ToSet(t) \cup ToSet(u)
    <2>1. PICK i \in 1 .. (Len(t) + Len(u)) : x = (t \o u)[i]
        BY <1>4 DEF ToSet
    <2>2. CASE i \in 1 .. Len(t)
        BY <1>2, <1>4, <2>1, <2>2 DEF ToSet
    <2>3. CASE i - Len(t) \in 1 .. Len(u) /\ i = (i - Len(t)) + Len(t)
        <3>1. x = u[i - Len(t)]
            BY <1>3, <2>1, <2>3
        <3> QED BY <1>4, <2>3, <3>1 DEF ToSet
    <2> QED BY <1>5, <2>2, <2>3
<1>8. ASSUME NEW x \in ToSet(t) PROVE x \in ToSet(t \o u)
    <2>1. PICK i \in 1 .. Len(t) : x = t[i]
        BY <1>4 DEF ToSet
    <2> QED BY <1>2, <1>4, <1>6, <2>1 DEF ToSet
<1>9. ASSUME NEW x \in ToSet(u) PROVE x \in ToSet(t \o u)
    <2>1. PICK i \in 1 .. Len(u) : x = u[i]
        BY <1>4 DEF ToSet
    <2>2. x = (t \o u)[i + Len(t)] /\ i + Len(t) \in DOMAIN (t \o u)
        BY <1>3, <1>4, <1>6, <2>1
    <2> QED BY <2>2 DEF ToSet
<1> QED BY <1>7, <1>8, <1>9

\* What Kept keeps of a cache: the members of os it has, and no more of them.
LEMMA KeptHolds ==
    ASSUME NEW S, NEW cache \in Seq(S), NEW os
    PROVE  /\ Kept(cache, os) \in Seq(S)
           /\ ToSet(Kept(cache, os)) = ToSet(cache) \cap os
           /\ Len(Kept(cache, os)) <= Len(cache)
<1> DEFINE Rec(i) == i = [s \in SUBSET DOMAIN cache |->
                          IF s = {} THEN <<>>
                          ELSE IF cache[Max(s)] \in os
                               THEN Append(i[s \ {Max(s)}], cache[Max(s)])
                               ELSE i[s \ {Max(s)}]]
           iter == CHOOSE i : Rec(i)
<1>1. \E i : Rec(i)
    <2>1. PICK g : /\ g = [s \in SUBSET DOMAIN cache |-> g[s]]
                   /\ Picks(cache, os, SUBSET DOMAIN cache, g)
        BY PicksExist
    <2>2. Rec(g)
        BY <2>1 DEF Picks
    <2> QED BY <2>2
<1>2. Rec(iter)
    BY <1>1
<1>3. Kept(cache, os) = iter[DOMAIN cache]
    BY DEF Kept, FoldLeft, MapThenFoldSet
<1>4. Picks(cache, os, SUBSET DOMAIN cache, iter)
    BY <1>2 DEF Picks
<1> HIDE DEF iter
<1> DEFINE Good(n) == /\ iter[1 .. n] \in Seq(S)
                      /\ ToSet(iter[1 .. n]) = {cache[i] : i \in 1 .. n} \cap os
                      /\ Len(iter[1 .. n]) <= n
<1>5. Len(cache) \in Nat /\ DOMAIN cache = 1 .. Len(cache)
    OBVIOUS
<1>6. Good(0)
    <2>1. iter[1 .. 0] = <<>>
        <3>1. 1 .. 0 = {} /\ {} \in SUBSET DOMAIN cache
            OBVIOUS
        <3> QED BY <1>4, <3>1 DEF Picks
    <2> QED BY <2>1 DEF ToSet
<1>7. ASSUME NEW n \in 1 .. Len(cache), Good(n - 1) PROVE Good(n)
    <2>1. n \in Nat /\ n \in 1 .. n /\ n <= Len(cache)
        BY <1>5
    <2>2. Max(1 .. n) = n
        <3>1. 1 .. n # {} /\ n \in Nat
            BY <2>1
        <3>2. Max(1 .. n) \in 1 .. n /\ \A y \in 1 .. n : Max(1 .. n) >= y
            BY <3>1, Greatest
        <3> HIDE DEF Max
        <3> QED BY <3>1, <3>2
    <2>3. (1 .. n) \ {n} = 1 .. (n - 1)
        BY <2>1
    <2>4. 1 .. n # {} /\ 1 .. n \in SUBSET DOMAIN cache
        <3>1. \A i \in 1 .. n : i \in 1 .. Len(cache)
            BY <1>5, <2>1
        <3> QED BY <1>5, <2>1, <3>1
    <2>5. iter[1 .. n] = IF cache[n] \in os THEN Append(iter[1 .. (n - 1)], cache[n])
                         ELSE iter[1 .. (n - 1)]
        BY <1>4, <2>2, <2>3, <2>4 DEF Picks
    <2> DEFINE t == iter[1 .. (n - 1)]
               u == iter[1 .. n]
    <2>6. t \in Seq(S) /\ ToSet(t) = {cache[i] : i \in 1 .. (n - 1)} \cap os /\ Len(t) <= n - 1
        BY <1>7
    <2>7. cache[n] \in S
        BY <1>5
    <2>8. {cache[i] : i \in 1 .. n} = {cache[i] : i \in 1 .. (n - 1)} \cup {cache[n]}
        BY <2>1
    <2>9. u = IF cache[n] \in os THEN Append(t, cache[n]) ELSE t
        BY <2>5
    <2> HIDE DEF t
    <2>10. ToSet(Append(t, cache[n])) = ToSet(t) \cup {cache[n]}
        BY <2>6, <2>7, ToSetAppend
    <2>11. Append(t, cache[n]) \in Seq(S) /\ Len(Append(t, cache[n])) = Len(t) + 1 /\ Len(t) \in Nat
        BY <2>6, <2>7
    <2>12. u \in Seq(S) /\ Len(u) <= n
        BY <2>1, <2>6, <2>9, <2>11
    <2>13. ToSet(u) = {cache[i] : i \in 1 .. n} \cap os
        BY <2>6, <2>8, <2>9, <2>10
    <2> QED BY <2>12, <2>13
<1> HIDE DEF Good
<1>8. \A n \in 0 .. Len(cache) : Good(n)
    <2> DEFINE Bad == {n \in Nat : n <= Len(cache) /\ ~Good(n)}
    <2>1. SUFFICES ASSUME Bad # {} PROVE FALSE
        BY <1>5
    <2>2. PICK n \in Bad : \A m \in Bad : n <= m
        BY <2>1, Least
    <2>3. n # 0 /\ n \in 1 .. Len(cache)
        BY <1>5, <1>6, <2>2
    <2>4. n - 1 \in Nat /\ ~(n <= n - 1) /\ n - 1 <= Len(cache)
        BY <1>5, <2>3
    <2>5. Good(n - 1)
        BY <2>2, <2>4
    <2> QED BY <1>7, <2>2, <2>3, <2>5
<1>9. Good(Len(cache)) /\ iter[1 .. Len(cache)] = Kept(cache, os)
    BY <1>3, <1>5, <1>8
<1>10. ToSet(cache) = {cache[i] : i \in 1 .. Len(cache)}
    BY <1>5 DEF ToSet
<1> QED BY <1>5, <1>9, <1>10 DEF Good

\* A cache has finitely many objects and keys.
LEMMA CacheFinite ==
    ASSUME NEW cache \in Seq(Objects)
    PROVE  /\ IsFiniteSet(ToSet(cache)) /\ ToSet(cache) \subseteq Objects
           /\ IsFiniteSet(KeysOf(cache)) /\ KeysOf(cache) \subseteq Keys
<1>1. Len(cache) \in Nat /\ DOMAIN cache = 1 .. Len(cache)
    OBVIOUS
<1>2. IsFiniteSet(DOMAIN cache)
    BY <1>1, FS_Interval
<1>3. \A i \in DOMAIN cache : cache[i] \in Objects
    OBVIOUS
<1>4. IsFiniteSet(ToSet(cache)) /\ ToSet(cache) \subseteq Objects
    <2>1. cache \in Surjection(DOMAIN cache, ToSet(cache))
        BY <1>3 DEF Surjection, ToSet
    <2> QED BY <1>2, <1>3, <2>1, FS_Surjection DEF ToSet
<1>5. IsFiniteSet(KeysOf(cache)) /\ KeysOf(cache) \subseteq Keys
    <2> DEFINE f == [i \in DOMAIN cache |-> cache[i].key]
    <2>1. f \in Surjection(DOMAIN cache, KeysOf(cache))
        BY DEF Surjection, ToSet, KeysOf
    <2>2. KeysOf(cache) \subseteq Keys
        BY <1>4 DEF KeysOf, Objects
    <2> HIDE DEF f
    <2> QED BY <1>2, <2>1, <2>2, FS_Surjection
<1> QED BY <1>4, <1>5

\* A load is a number, grows with the keys, and by the bytes of a new one.
LEMMA LoadGrows ==
    ASSUME NEW ks \in SUBSET Keys, IsFiniteSet(ks)
    PROVE  /\ Load(ks) \in Nat
           /\ \A js \in SUBSET ks : Load(js) <= Load(ks)
           /\ Load({}) = 0
           /\ \A k \in Keys : Load(ks \cup {k}) <= Load(ks) + Bytes[k]
<1>1. \A js : Load(js) = Total(Bytes, js)
    BY DEF Load, Total
<1>2. \A k \in Keys : Bytes[k] \in Nat
    BY StorageAssumption
<1>3. Load(ks) \in Nat /\ \A js \in SUBSET ks : Load(js) <= Load(ks)
    BY <1>1, <1>2, TotalSplits, TotalMonotone
<1>4. Load({}) = 0
    BY <1>1, FS_EmptySet, TotalSplits
<1>5. ASSUME NEW k \in Keys PROVE Load(ks \cup {k}) <= Load(ks) + Bytes[k]
    <2>1. CASE k \in ks
        <3>1. ks \cup {k} = ks
            BY <2>1
        <3>2. Load(ks) \in Nat /\ Bytes[k] \in Nat
            BY <1>2, <1>3
        <3>3. Load(ks) <= Load(ks) + Bytes[k]
            BY <3>2
        <3> QED BY <3>1, <3>3
    <2>2. CASE k \notin ks
        <3> DEFINE js == ks \cup {k}
        <3>1. IsFiniteSet(js) /\ k \in js /\ js \ {k} = ks /\ \A x \in js : Bytes[x] \in Nat
            BY <1>2, <2>2, FS_AddElement
        <3> HIDE DEF js
        <3>2. Load(js) = Bytes[k] + Load(ks)
            BY <1>1, <3>1, TotalSplits
        <3> QED BY <1>2, <1>3, <3>2 DEF js
    <2> QED BY <2>1, <2>2
<1> QED BY <1>3, <1>4, <1>5

\* The backings that bake the resident, as some go and one comes.
LEMMA BakesCounts ==
    ASSUME NEW os, IsFiniteSet(os)
    PROVE  /\ Bakes(os) \in Nat
           /\ \A gone : Bakes(os \ gone) = Bakes(os) - Bakes(gone \cap os)
           /\ \A o : o \notin os => Bakes(os \cup {o}) = Bakes(os) + Count(o.key)
           /\ Bakes(os) = 0 => \A o \in os : o.key \notin Resident
<1> DEFINE baking(xs) == {o \in xs : o.key \in Resident}
<1>1. IsFiniteSet(baking(os))
    BY FS_Subset
<1>2. Bakes(os) \in Nat
    BY <1>1, FS_CardinalityType DEF Bakes
<1>3. ASSUME NEW gone PROVE Bakes(os \ gone) = Bakes(os) - Bakes(gone \cap os)
    <2>1. /\ baking(os \ gone) = baking(os) \ gone
          /\ baking(gone \cap os) = baking(os) \cap gone
        OBVIOUS
    <2> HIDE DEF baking
    <2> QED BY <1>1, <2>1, FS_Difference DEF Bakes, baking
<1>4. ASSUME NEW o, o \notin os PROVE Bakes(os \cup {o}) = Bakes(os) + Count(o.key)
    <2>1. CASE o.key \in Resident
        <3>1. baking(os \cup {o}) = baking(os) \cup {o} /\ o \notin baking(os)
            BY <1>4, <2>1
        <3>2. Cardinality(baking(os) \cup {o}) = Cardinality(baking(os)) + 1
            BY <1>1, <3>1, FS_AddElement
        <3> QED BY <2>1, <3>1, <3>2 DEF Bakes, Count
    <2>2. CASE o.key \notin Resident
        <3>1. baking(os \cup {o}) = baking(os)
            BY <2>2
        <3>2. Bakes(os \cup {o}) = Bakes(os) /\ Count(o.key) = 0
            BY <2>2, <3>1 DEF Bakes, Count
        <3> QED BY <1>2, <3>2
    <2> QED BY <2>1, <2>2
<1>5. ASSUME Bakes(os) = 0, NEW o \in os PROVE o.key \notin Resident
    <2>1. baking(os) = {}
        BY <1>1, <1>5, FS_EmptySet DEF Bakes
    <2> QED BY <2>1
<1> QED BY <1>2, <1>3, <1>4, <1>5

\* Within the budget, or alone.
Within(backings) == Load(KeysOf(backings)) <= Budget \/ Len(backings) = 1

\* Fewer keys in no longer a cache stay within the budget.
LEMMA WithinLess ==
    ASSUME NEW b \in Seq(Objects), NEW d \in Seq(Objects), Within(b),
           ToSet(d) \subseteq ToSet(b), Len(d) <= Len(b)
    PROVE  Within(d)
<1>1. KeysOf(d) \subseteq KeysOf(b)
    BY DEF KeysOf
<1>2. Load(KeysOf(d)) \in Nat /\ Load(KeysOf(b)) \in Nat /\ Load(KeysOf(d)) <= Load(KeysOf(b))
    BY <1>1, CacheFinite, LoadGrows
<1>3. CASE Load(KeysOf(b)) <= Budget
    BY <1>2, <1>3, StorageAssumption DEF Within
<1>4. CASE Len(b) = 1
    <2>1. CASE Len(d) = 1
        BY <2>1 DEF Within
    <2>2. CASE Len(d) # 1
        <3>1. d = <<>>
            BY <1>4, <2>2
        <3>2. KeysOf(d) = {}
            BY <3>1 DEF KeysOf, ToSet
        <3>3. Load({}) = 0
            BY FS_EmptySet, LoadGrows
        <3> QED BY <3>2, <3>3, StorageAssumption DEF Within
    <2> QED BY <2>1, <2>2
<1> QED BY <1>3, <1>4 DEF Within

\* A cache reordered by a use has the same objects, and stays within the budget.
LEMMA UsedHolds ==
    ASSUME NEW b \in Seq(Objects), NEW k
    PROVE  /\ Used(b, k) \in Seq(Objects)
           /\ ToSet(Used(b, k)) = ToSet(b)
           /\ Within(b) => Within(Used(b, k))
           /\ Of(b, k) # {} => Used(b, k) # <<>> /\ Last(Used(b, k)) \in Of(b, k)
<1> DEFINE u == Kept(b, ToSet(b) \ Of(b, k))
           v == Kept(b, Of(b, k))
<1>1. u \in Seq(Objects) /\ ToSet(u) = ToSet(b) \ Of(b, k) /\ Len(u) <= Len(b)
    <2>1. ToSet(u) = ToSet(b) \cap (ToSet(b) \ Of(b, k))
        BY KeptHolds
    <2> QED BY <2>1, KeptHolds
<1>2. v \in Seq(Objects) /\ ToSet(v) = Of(b, k) /\ Len(v) <= Len(b)
    <2>1. ToSet(v) = ToSet(b) \cap Of(b, k)
        BY KeptHolds
    <2> QED BY <2>1, KeptHolds DEF Of
<1>3. Used(b, k) = u \o v
    BY DEF Used
<1> HIDE DEF u, v
<1>4. Used(b, k) \in Seq(Objects)
    BY <1>1, <1>2, <1>3
<1>5. ToSet(Used(b, k)) = ToSet(b)
    <2>1. ToSet(u \o v) = ToSet(u) \cup ToSet(v) /\ Of(b, k) \subseteq ToSet(b)
        BY <1>1, <1>2, ToSetConcat DEF Of
    <2> QED BY <1>1, <1>2, <1>3, <2>1
<1>6. ASSUME Within(b) PROVE Within(Used(b, k))
    <2>1. KeysOf(Used(b, k)) = KeysOf(b)
        BY <1>5 DEF KeysOf
    <2>2. ASSUME Len(b) = 1 PROVE Len(Used(b, k)) = 1
        <3>1. ToSet(b) = {b[1]}
            BY <2>2 DEF ToSet
        <3>2. Len(u) \in Nat /\ Len(v) \in Nat /\ Len(Used(b, k)) = Len(u) + Len(v)
            BY <1>1, <1>2, <1>3
        <3>3. u = <<>> \/ v = <<>>
            <4>1. ToSet(u) = {} \/ ToSet(v) = {}
                BY <1>1, <1>2, <3>1 DEF Of
            <4>2. \A t \in Seq(Objects) : t # <<>> => t[1] \in ToSet(t)
                BY DEF ToSet
            <4> QED BY <1>1, <1>2, <4>1, <4>2
        <3>4. Len(Used(b, k)) <= 1
            BY <1>1, <1>2, <2>2, <3>2, <3>3
        <3>5. Used(b, k) # <<>>
            BY <1>5, <3>1 DEF ToSet
        <3>6. Len(Used(b, k)) # 0
            BY <1>4, <3>5
        <3> QED BY <3>2, <3>4, <3>6
    <2> QED BY <1>6, <2>1, <2>2 DEF Within
<1>7. ASSUME Of(b, k) # {} PROVE Used(b, k) # <<>> /\ Last(Used(b, k)) \in Of(b, k)
    <2>1. v # <<>>
        BY <1>2, <1>7 DEF ToSet
    <2>2. Len(v) \in Nat /\ Len(v) >= 1 /\ Len(u) \in Nat
        BY <1>1, <1>2, <2>1
    <2>3. (u \o v)[Len(u) + Len(v)] = v[Len(v)] /\ Len(u \o v) = Len(u) + Len(v)
        BY <1>1, <1>2, <2>2
    <2>4. v[Len(v)] \in ToSet(v)
        BY <1>2, <2>2 DEF ToSet
    <2> QED BY <1>2, <1>3, <2>2, <2>3, <2>4 DEF Last
<1> QED BY <1>4, <1>5, <1>6, <1>7

-------------------------------------------------------------------------------
(* The operations on the caches                                                *)

Exact(s) == s.baked = Bakes(ToSet(s.backings))

\* The caches t are the caches s after work of the execution c on the key k: no
\* buffer is destroyed, what is new is of c, the residents are counted, and the
\* budget is kept.
Works(s, t, c, k) ==
    /\ t \in Stores
    /\ ToSet(s.backings) \cup s.retired \subseteq ToSet(t.backings) \cup t.retired
    /\ \A o \in ToSet(t.backings) : o \in ToSet(s.backings) \/ (o.by = c /\ o.key = k)
    /\ \A o \in ToSet(t.prepared) : o \in ToSet(s.prepared) \/ (o.by = c /\ o.key = k)
    /\ \A p \in Params : t.params[p] \in {s.params[p], None} \/ t.params[p].by = c
    /\ Exact(s) => Exact(t)
    /\ Within(s.backings) => Within(t.backings)

\* Two pieces of one execution's work on the caches are one.
LEMMA WorksOn ==
    ASSUME NEW s, NEW t, NEW u, NEW c, NEW k, Works(s, t, c, k), Works(t, u, c, k)
    PROVE  Works(s, u, c, k)
BY DEF Works

\* An object the device does not have is new, of the execution, or was there.
LEMMA WorksInvalid ==
    ASSUME NEW s \in Stores, NEW t, NEW c, NEW k, Works(s, t, c, k), NEW o \in Invalid(t)
    PROVE  o \in Invalid(s) \/ o.by = c
<1>1. CASE o \in ToSet(t.prepared) \cup ToSet(t.backings)
    BY <1>1 DEF Works, Invalid
<1>2. CASE o \in Range(t.params)
    <2>1. PICK p \in Params : o = t.params[p]
        BY <1>2 DEF Works, Stores, Range
    <2>2. o # None
        BY DEF Invalid, None, Object
    <2>3. s.params[p] \in Range(s.params)
        BY DEF Stores, Range
    <2> QED BY <2>1, <2>2, <2>3 DEF Works, Invalid
<1> QED BY <1>1, <1>2 DEF Invalid

\* Retiring takes backings out of the cache and keeps their buffers.
LEMMA RetireWorks ==
    ASSUME NEW s \in Stores, NEW gone, NEW c, NEW k
    PROVE  /\ Works(s, Retire(s, gone), c, k)
           /\ ToSet(Retire(s, gone).backings) = ToSet(s.backings) \ gone
           /\ Retire(s, gone).retired = s.retired \cup (gone \cap ToSet(s.backings))
           /\ Retire(s, gone).prepared = s.prepared
           /\ Retire(s, gone).params = s.params
<1> DEFINE b == s.backings
           d == Kept(b, ToSet(b) \ gone)
           t == Retire(s, gone)
           retiring == gone \cap ToSet(b)
<1>1. b \in Seq(Objects) /\ s.retired \in SUBSET Objects /\ s.baked \in Int
      /\ s.prepared \in Seq(Objects)
      /\ s.params \in [Params -> [key : Params, by : Calls, ok : BOOLEAN] \cup {None}]
    BY DEF Stores
<1>2. d \in Seq(Objects) /\ ToSet(d) = ToSet(b) \ gone /\ Len(d) <= Len(b)
    <2>1. ToSet(d) = ToSet(b) \cap (ToSet(b) \ gone)
        BY <1>1, KeptHolds
    <2> QED BY <1>1, <2>1, KeptHolds
<1>3. /\ t.backings = d /\ t.retired = s.retired \cup retiring
      /\ t.baked = s.baked - Bakes(retiring)
      /\ t.prepared = s.prepared /\ t.params = s.params
      /\ t = [prepared |-> s.prepared, params |-> s.params, backings |-> d,
              retired |-> s.retired \cup retiring, baked |-> s.baked - Bakes(retiring)]
    <2>1. s = [prepared |-> s.prepared, params |-> s.params, backings |-> b,
               retired |-> s.retired, baked |-> s.baked]
        BY DEF Stores
    <2> HIDE DEF b, d
    <2>2. Retire(s, gone) = [s EXCEPT !.backings = d, !.retired = s.retired \cup retiring,
                                      !.baked = s.baked - Bakes(retiring)]
        BY <2>1 DEF Retire, d, b
    <2> HIDE DEF retiring
    <2> QED BY <2>1, <2>2
<1>4. IsFiniteSet(ToSet(b)) /\ ToSet(b) \subseteq Objects
    BY <1>1, CacheFinite
<1>5. Bakes(ToSet(b)) \in Nat /\ Bakes(retiring) \in Nat
    <2>1. IsFiniteSet(retiring)
        BY <1>4, FS_Intersection
    <2> QED BY <1>4, <2>1, BakesCounts
<1>6. Bakes(ToSet(d)) = Bakes(ToSet(b)) - Bakes(retiring)
    BY <1>2, <1>4, BakesCounts
<1> HIDE DEF b, d, t
<1>7. t \in Stores
    BY <1>1, <1>2, <1>3, <1>4, <1>5 DEF Stores
<1>8. Exact(s) => Exact(t)
    BY <1>3, <1>6 DEF Exact, b
<1>9. Within(s.backings) => Within(t.backings)
    BY <1>1, <1>2, <1>3, WithinLess DEF b
<1> QED BY <1>2, <1>3, <1>7, <1>8, <1>9 DEF Works, b, t

\* The caches with other plans.
LEMMA PlansReplaced ==
    ASSUME NEW s \in Stores, NEW p
    PROVE  [s EXCEPT !.prepared = p] =
               [prepared |-> p, params |-> s.params, backings |-> s.backings,
                retired |-> s.retired, baked |-> s.baked]
BY DEF Stores

\* The caches with other backings, and another count of the residents.
LEMMA BackingsReplaced ==
    ASSUME NEW s \in Stores, NEW u, NEW n,
           NEW t, t = [s EXCEPT !.backings = u, !.baked = n]
    PROVE  t = [prepared |-> s.prepared, params |-> s.params, backings |-> u,
                retired |-> s.retired, baked |-> n]
<1>1. PICK plans, params, backings, retired, baked :
          s = [prepared |-> plans, params |-> params, backings |-> backings,
               retired |-> retired, baked |-> baked]
    BY DEF Stores
<1>2. t = [s EXCEPT !.backings = u, !.baked = n]
    OBVIOUS
<1> QED BY <1>1, <1>2

\* Work that reaches no backing.
LEMMA WorksStay ==
    ASSUME NEW s \in Stores, NEW t \in Stores, NEW c, NEW k,
           t.backings = s.backings, t.retired = s.retired, t.baked = s.baked,
           \A o \in ToSet(t.prepared) : o \in ToSet(s.prepared) \/ (o.by = c /\ o.key = k),
           \A p \in Params : t.params[p] \in {s.params[p], None} \/ t.params[p].by = c
    PROVE  Works(s, t, c, k)
BY DEF Works, Exact, Within

\* A plan that is taken is the last one, and of its key.
LEMMA TakeWorks ==
    ASSUME NEW s \in Stores, NEW j, NEW c, NEW k
    PROVE  /\ Works(s, Take(s, j), c, k)
           /\ ToSet(Take(s, j).prepared) = ToSet(s.prepared)
           /\ Take(s, j).backings = s.backings /\ Take(s, j).params = s.params
           /\ Of(s.prepared, j) # {} => Last(Take(s, j).prepared) \in Of(s.prepared, j)
<1> DEFINE t == Take(s, j)
           u == Used(s.prepared, j)
<1>1. s = [prepared |-> s.prepared, params |-> s.params, backings |-> s.backings,
           retired |-> s.retired, baked |-> s.baked] /\ s.prepared \in Seq(Objects)
    BY DEF Stores
<1>2. /\ u \in Seq(Objects) /\ ToSet(u) = ToSet(s.prepared)
      /\ Of(s.prepared, j) # {} => Last(u) \in Of(s.prepared, j)
    BY <1>1, UsedHolds
<1> HIDE DEF u
<1>3. t = [prepared |-> u, params |-> s.params, backings |-> s.backings,
           retired |-> s.retired, baked |-> s.baked]
    BY <1>1 DEF Take, u
<1> HIDE DEF t
<1>4. t \in Stores
    BY <1>2, <1>3 DEF Stores
<1>5. Works(s, t, c, k)
    BY <1>2, <1>3, <1>4, WorksStay
<1> QED BY <1>2, <1>3, <1>5 DEF t

\* Params that are allocated are the execution's; those there were stay.
LEMMA AllocateWorks ==
    ASSUME NEW s \in Stores, NEW c \in Calls, NEW ps \in SUBSET Params, NEW good \in BOOLEAN,
           NEW k
    PROVE  /\ Works(s, Allocate(s, c, ps, good), c, k)
           /\ Allocate(s, c, ps, good).backings = s.backings
           /\ Allocate(s, c, ps, good).prepared = s.prepared
           /\ \A p \in Params : \/ Allocate(s, c, ps, good).params[p] = s.params[p]
                                \/ /\ p \in ps
                                   /\ Allocate(s, c, ps, good).params[p] = Object(p, c, good)
<1> DEFINE t == Allocate(s, c, ps, good)
           f == [p \in Params |-> IF p \in ps /\ s.params[p] = None
                                  THEN Object(p, c, good) ELSE s.params[p]]
<1>1. s = [prepared |-> s.prepared, params |-> s.params, backings |-> s.backings,
           retired |-> s.retired, baked |-> s.baked]
    BY DEF Stores
<1>2. /\ f \in [Params -> [key : Params, by : Calls, ok : BOOLEAN] \cup {None}]
      /\ \A p \in Params : f[p] = s.params[p] \/ (p \in ps /\ f[p] = Object(p, c, good))
    BY DEF Stores, Object
<1> HIDE DEF f
<1>3. t = [prepared |-> s.prepared, params |-> f, backings |-> s.backings,
           retired |-> s.retired, baked |-> s.baked]
    BY <1>1 DEF Allocate, f
<1> HIDE DEF t
<1>4. t \in Stores
    BY <1>2, <1>3 DEF Stores
<1>5. \A p \in Params : t.params[p] \in {s.params[p], None} \/ t.params[p].by = c
    BY <1>2, <1>3 DEF Object
<1>6. Works(s, t, c, k)
    BY <1>3, <1>4, <1>5, WorksStay
<1> QED BY <1>2, <1>3, <1>6 DEF t

\* The plan that is registered is the last one.
LEMMA RegisterWorks ==
    ASSUME NEW s \in Stores, NEW plan \in Objects
    PROVE  /\ Works(s, Register(s, plan), plan.by, plan.key)
           /\ ToSet(Register(s, plan).backings) \subseteq ToSet(s.backings)
           /\ Register(s, plan).params = s.params
           /\ Register(s, plan).prepared # <<>> /\ Last(Register(s, plan).prepared) = plan
           /\ ToSet(Register(s, plan).prepared) \subseteq ToSet(s.prepared) \cup {plan}
<1> DEFINE p == Append(s.prepared, plan)
           t == [s EXCEPT !.prepared = Append(@, plan)]
           u == [t EXCEPT !.prepared = Tail(@)]
           gone == Of(t.backings, Head(t.prepared).key)
<1>1. s = [prepared |-> s.prepared, params |-> s.params, backings |-> s.backings,
           retired |-> s.retired, baked |-> s.baked] /\ s.prepared \in Seq(Objects)
    BY DEF Stores
<1>2. /\ p \in Seq(Objects) /\ p # <<>> /\ Last(p) = plan
      /\ Len(p) = Len(s.prepared) + 1 /\ Len(s.prepared) \in Nat
      /\ ToSet(p) = ToSet(s.prepared) \cup {plan}
    BY <1>1, ToSetAppend DEF Last
<1> HIDE DEF p
<1>3. t = [prepared |-> p, params |-> s.params, backings |-> s.backings,
           retired |-> s.retired, baked |-> s.baked]
    <2>1. t = [s EXCEPT !.prepared = p]
        BY DEF p
    <2> HIDE DEF t
    <2> QED BY <2>1, PlansReplaced
<1> HIDE DEF t
<1>4. t \in Stores
    BY <1>2, <1>3 DEF Stores
<1>5. Works(s, t, plan.by, plan.key)
    BY <1>2, <1>3, <1>4, WorksStay
<1>6. CASE Len(p) <= PlanCapacity
    <2>1. Register(s, plan) = t
        BY <1>3, <1>6 DEF Register, t
    <2> QED BY <1>2, <1>3, <1>5, <2>1
<1>7. CASE ~(Len(p) <= PlanCapacity)
    <2>1. Register(s, plan) = Retire(u, gone)
        BY <1>3, <1>7 DEF Register, t
    <2>2. Len(p) >= 2
        BY <1>2, <1>7, StorageAssumption
    <2>3. /\ Tail(p) \in Seq(Objects) /\ Tail(p) # <<>> /\ Last(Tail(p)) = plan
          /\ ToSet(Tail(p)) \subseteq ToSet(p)
        <3>1. Len(Tail(p)) = Len(p) - 1 /\ Tail(p) \in Seq(Objects)
            BY <1>2, <2>2
        <3>2. \A i \in 1 .. (Len(p) - 1) : Tail(p)[i] = p[i + 1] /\ i + 1 \in 1 .. Len(p)
            BY <1>2, <2>2
        <3>3. Len(p) - 1 \in 1 .. (Len(p) - 1) /\ (Len(p) - 1) + 1 = Len(p)
            BY <1>2, <2>2
        <3>4. Last(Tail(p)) = plan
            BY <1>2, <3>1, <3>2, <3>3 DEF Last
        <3>5. ToSet(Tail(p)) \subseteq ToSet(p)
            BY <1>2, <3>1, <3>2 DEF ToSet
        <3>6. Tail(p) # <<>>
            <4>1. Len(Tail(p)) # 0
                BY <3>1, <3>3
            <4> QED BY <3>1, <4>1, LongIsNonempty
        <3> QED BY <3>1, <3>4, <3>5, <3>6
    <2>4. u = [prepared |-> Tail(p), params |-> s.params, backings |-> s.backings,
               retired |-> s.retired, baked |-> s.baked]
        <3>1. u = [t EXCEPT !.prepared = Tail(p)]
            BY <1>3
        <3> HIDE DEF u
        <3> QED BY <1>3, <1>4, <3>1, PlansReplaced
    <2> HIDE DEF u, gone
    <2>5. u \in Stores
        BY <1>1, <2>3, <2>4 DEF Stores
    <2>6. Works(t, u, plan.by, plan.key)
        BY <1>3, <1>4, <2>3, <2>4, <2>5, WorksStay
    <2>7. /\ Works(u, Retire(u, gone), plan.by, plan.key)
          /\ ToSet(Retire(u, gone).backings) = ToSet(u.backings) \ gone
          /\ Retire(u, gone).prepared = u.prepared /\ Retire(u, gone).params = u.params
        BY <2>5, RetireWorks
    <2>8. Works(s, Retire(u, gone), plan.by, plan.key)
        BY <1>5, <2>6, <2>7, WorksOn
    <2> QED BY <1>2, <2>1, <2>3, <2>4, <2>7, <2>8
<1> QED BY <1>6, <1>7

\* The plan that is derived is the last one, and valid if the params it bakes are.
LEMMA DeriveWorks ==
    ASSUME NEW s \in Stores, NEW c \in Calls, NEW good \in BOOLEAN, call[c].key \in Keys
    PROVE  LET t == Derive(s, c, good)
           IN  /\ Works(s, t, c, call[c].key)
               /\ ToSet(t.backings) \subseteq ToSet(s.backings)
               /\ t.prepared # <<>>
               /\ ToSet(t.prepared) \subseteq ToSet(s.prepared) \cup {Last(t.prepared)}
               /\ Last(t.prepared) = Object(call[c].key, c, \A p \in Params : t.params[p].ok)
<1> DEFINE a == Allocate(s, c, Params, good)
           plan == Object(call[c].key, c, \A p \in Params : a.params[p].ok)
           t == Derive(s, c, good)
<1>1. /\ Works(s, a, c, call[c].key) /\ a.backings = s.backings /\ a \in Stores
      /\ a.prepared = s.prepared
    BY AllocateWorks DEF Works
<1>2. plan \in Objects /\ plan.by = c /\ plan.key = call[c].key
    BY DEF Object, Objects
<1>3. t = Register(a, plan)
    BY DEF Derive
<1> HIDE DEF a
<1>4. /\ Works(a, t, c, call[c].key) /\ ToSet(t.backings) \subseteq ToSet(a.backings)
      /\ t.params = a.params /\ t.prepared # <<>> /\ Last(t.prepared) = plan
      /\ ToSet(t.prepared) \subseteq ToSet(a.prepared) \cup {plan}
    <2> HIDE DEF plan, t
    <2> QED BY <1>1, <1>2, <1>3, RegisterWorks
<1> HIDE DEF t
<1>5. Works(s, t, c, call[c].key)
    BY <1>1, <1>4, WorksOn
<1> QED BY <1>1, <1>4, <1>5 DEF t

\* Eviction retires the oldest backings, until the newcomer fits or none is left.
LEMMA EvictWorks ==
    ASSUME NEW s \in Stores, NEW k \in Keys, NEW c
    PROVE  LET t == EvictFor(s, k)
           IN  /\ Works(s, t, c, k)
               /\ ToSet(t.backings) \subseteq ToSet(s.backings)
               /\ t.prepared = s.prepared /\ t.params = s.params
               /\ t.backings = <<>> \/ Load(KeysOf(t.backings)) + Bytes[k] <= Budget
<1> DEFINE b == s.backings
           enough == {n \in 0 .. Len(b) : n = Len(b) \/ Load(KeysOf(After(s, n))) + Bytes[k] <= Budget}
           n == Min(enough)
           gone == ToSet(SubSeq(b, 1, n))
           t == EvictFor(s, k)
<1>1. b \in Seq(Objects) /\ Len(b) \in Nat
    BY DEF Stores
<1>2. n \in enough
    <2>1. Len(b) \in enough /\ enough \subseteq Nat
        BY <1>1
    <2> HIDE DEF enough
    <2>2. \E m \in enough : \A y \in enough : m <= y
        BY <2>1, Least
    <2> QED BY <2>2 DEF Min
<1>3. t = Retire(s, gone)
    BY DEF EvictFor
<1>4. n \in 0 .. Len(b) /\ (n = Len(b) \/ Load(KeysOf(After(s, n))) + Bytes[k] <= Budget)
    BY <1>2
<1> HIDE DEF n, enough
<1>5. /\ Works(s, t, c, k) /\ t.prepared = s.prepared /\ t.params = s.params
      /\ ToSet(t.backings) = ToSet(b) \ gone /\ t.backings \in Seq(Objects)
    <2> HIDE DEF gone, t
    <2>1. /\ Works(s, t, c, k) /\ t.prepared = s.prepared /\ t.params = s.params
          /\ ToSet(t.backings) = ToSet(b) \ gone
        BY <1>3, RetireWorks
    <2> QED BY <2>1 DEF Works, Stores
<1>6. After(s, n) \in Seq(Objects)
    BY <1>1, <1>4 DEF After
<1>7. ToSet(b) \ gone \subseteq ToSet(After(s, n))
    <2>1. SUFFICES ASSUME NEW x \in ToSet(b), x \notin gone PROVE x \in ToSet(After(s, n))
        OBVIOUS
    <2>2. PICK i \in 1 .. Len(b) : x = b[i]
        BY <1>1 DEF ToSet
    <2>3. ~(i <= n)
        <3>1. SUFFICES ASSUME i <= n PROVE FALSE
            OBVIOUS
        <3>2. Len(SubSeq(b, 1, n)) = n /\ i \in 1 .. n /\ SubSeq(b, 1, n)[i] = b[i]
              /\ SubSeq(b, 1, n) \in Seq(Objects)
            BY <1>1, <1>4, <3>1
        <3> DEFINE u == SubSeq(b, 1, n)
        <3>3. u \in Seq(Objects) /\ i \in 1 .. Len(u) /\ u[i] = x
            BY <2>2, <3>2
        <3>4. x \notin ToSet(u)
            BY <2>1
        <3> HIDE DEF u
        <3> QED BY <3>3, <3>4 DEF ToSet
    <2>4. /\ Len(After(s, n)) = Len(b) - n /\ i - n \in 1 .. (Len(b) - n)
          /\ \A j \in 1 .. (Len(b) - n) : After(s, n)[j] = b[j + n]
        BY <1>1, <1>4, <2>3 DEF After
    <2>5. After(s, n)[i - n] = b[i]
        BY <1>1, <1>4, <2>4
    <2> QED BY <1>6, <2>2, <2>4, <2>5 DEF ToSet
<1>8. t.backings = <<>> \/ Load(KeysOf(t.backings)) + Bytes[k] <= Budget
    <2>1. CASE n = Len(b)
        <3>1. After(s, n) = <<>>
            BY <1>1, <2>1 DEF After
        <3>2. ToSet(t.backings) = {}
            <4>1. ToSet(<<>>) = {}
                BY DEF ToSet
            <4> HIDE DEF t, gone
            <4> QED BY <1>5, <1>7, <3>1, <4>1
        <3>3. t.backings # <<>> => t.backings[1] \in ToSet(t.backings)
            BY <1>5 DEF ToSet
        <3> QED BY <3>2, <3>3
    <2>2. CASE Load(KeysOf(After(s, n))) + Bytes[k] <= Budget
        <3> DEFINE all == KeysOf(After(s, n))
                   some == KeysOf(t.backings)
        <3>1. some \subseteq all
            BY <1>5, <1>7 DEF KeysOf
        <3>2. IsFiniteSet(all) /\ all \subseteq Keys
            BY <1>6, CacheFinite
        <3>3. IsFiniteSet(some) /\ some \subseteq Keys
            BY <1>5, CacheFinite
        <3>4. Load(all) + Bytes[k] <= Budget
            BY <2>2
        <3> HIDE DEF all, some
        <3>5. Load(all) \in Nat /\ Load(some) \in Nat /\ Load(some) <= Load(all)
            BY <3>1, <3>2, <3>3, LoadGrows
        <3>6. Load(some) + Bytes[k] <= Budget
            BY <3>4, <3>5, StorageAssumption
        <3> QED BY <3>6 DEF some
    <2> QED BY <1>4, <2>1, <2>2
<1> HIDE DEF t, gone
<1> QED BY <1>5, <1>8 DEF t

\* The backing that is activated is the last one: the cached one, or one baked
\* from the plan.
LEMMA ActivateWorks ==
    ASSUME NEW s \in Stores, NEW c \in Calls, NEW plan \in Objects, NEW good \in BOOLEAN
    PROVE  LET t == Activate(s, c, plan, good)
           IN  /\ Works(s, t, c, plan.key)
               /\ t.prepared = s.prepared /\ t.params = s.params
               /\ t.backings # <<>> /\ Last(t.backings) \in ToSet(t.backings)
               /\ Of(s.backings, plan.key) # {} =>
                      /\ ToSet(t.backings) = ToSet(s.backings)
                      /\ Last(t.backings) \in Of(s.backings, plan.key)
                      /\ t.retired = s.retired
               /\ Of(s.backings, plan.key) = {} =>
                      /\ Last(t.backings) = Object(plan.key, c, good /\ plan.ok)
                      /\ ToSet(t.backings) \subseteq ToSet(s.backings) \cup {Last(t.backings)}
<1> DEFINE k == plan.key
           b == s.backings
           t == Activate(s, c, plan, good)
<1>1. k \in Keys /\ plan.ok \in BOOLEAN
    BY DEF Objects
<1>2. s = [prepared |-> s.prepared, params |-> s.params, backings |-> b,
           retired |-> s.retired, baked |-> s.baked] /\ b \in Seq(Objects)
    BY DEF Stores
<1>3. CASE Of(b, k) # {}
    <2> DEFINE u == Used(b, k)
    <2>1. /\ u \in Seq(Objects) /\ ToSet(u) = ToSet(b) /\ (Within(b) => Within(u))
          /\ u # <<>> /\ Last(u) \in Of(b, k) /\ Of(b, k) \subseteq ToSet(b)
        BY <1>2, <1>3, UsedHolds DEF Of
    <2> HIDE DEF u
    <2>2. t = [prepared |-> s.prepared, params |-> s.params, backings |-> u,
               retired |-> s.retired, baked |-> s.baked]
        BY <1>2, <1>3 DEF Activate, u
    <2> HIDE DEF t
    <2>3. t \in Stores
        BY <2>1, <2>2 DEF Stores
    <2>4. Works(s, t, c, k)
        BY <2>1, <2>2, <2>3 DEF Works, Exact
    <2> QED BY <1>3, <2>1, <2>2, <2>4 DEF t
<1>4. CASE Of(b, k) = {}
    <2> DEFINE e == EvictFor(s, k)
               o == Object(k, c, good /\ plan.ok)
               u == Append(e.backings, o)
    <2>1. /\ Works(s, e, c, k) /\ e.prepared = s.prepared /\ e.params = s.params
          /\ ToSet(e.backings) \subseteq ToSet(b)
          /\ e.backings = <<>> \/ Load(KeysOf(e.backings)) + Bytes[k] <= Budget
        BY <1>1, EvictWorks
    <2>2. e \in Stores /\ e.backings \in Seq(Objects)
        BY <2>1 DEF Works, Stores
    <2>3. o \in Objects /\ o.key = k /\ o.by = c
        BY <1>1 DEF Object, Objects
    <2>4. t = [e EXCEPT !.backings = u, !.baked = e.baked + Count(k)]
        BY <1>4, <2>2 DEF Activate, Stores
    <2> HIDE DEF e, o
    <2>5. u \in Seq(Objects) /\ u # <<>> /\ Last(u) = o /\ ToSet(u) = ToSet(e.backings) \cup {o}
          /\ Len(u) = Len(e.backings) + 1
        BY <2>2, <2>3, ToSetAppend DEF Last
    <2> HIDE DEF u, t
    <2>6. t = [prepared |-> s.prepared, params |-> s.params, backings |-> u,
               retired |-> e.retired, baked |-> e.baked + Count(k)]
        <3> DEFINE n == e.baked + Count(k)
        <3>1. t = [e EXCEPT !.backings = u, !.baked = n]
            BY <2>4
        <3> HIDE DEF n
        <3>2. t = [prepared |-> e.prepared, params |-> e.params, backings |-> u,
                   retired |-> e.retired, baked |-> n]
            BY <2>2, <3>1, BackingsReplaced
        <3> QED BY <2>1, <3>2 DEF n
    <2>7. t \in Stores
        <3>1. Count(k) \in Int /\ e.baked \in Int /\ e.retired \in SUBSET Objects
            BY <2>2 DEF Stores, Count
        <3>2. e.baked + Count(k) \in Int
            BY <3>1
        <3> HIDE DEF k
        <3> QED BY <2>5, <2>6, <3>1, <3>2 DEF Stores
    <2>8. Exact(s) => Exact(t)
        <3>1. o \notin ToSet(e.backings)
            BY <1>4, <2>1, <2>3 DEF Of
        <3>2. IsFiniteSet(ToSet(e.backings))
            BY <2>2, CacheFinite
        <3>3. Bakes(ToSet(u)) = Bakes(ToSet(e.backings)) + Count(k)
            BY <2>3, <2>5, <3>1, <3>2, BakesCounts
        <3> QED BY <2>1, <2>6, <3>3 DEF Exact, Works
    <2>9. Within(u)
        <3>1. CASE e.backings = <<>>
            <4>1. Len(u) = 1
                BY <2>5, <3>1
            <4> QED BY <4>1 DEF Within
        <3>2. CASE Load(KeysOf(e.backings)) + Bytes[k] <= Budget
            <4> DEFINE all == KeysOf(e.backings)
            <4>1. KeysOf(u) = all \cup {k}
                BY <2>3, <2>5 DEF KeysOf
            <4>2. IsFiniteSet(all) /\ all \subseteq Keys
                BY <2>2, CacheFinite
            <4>3. Load(all) + Bytes[k] <= Budget
                BY <3>2
            <4>4. IsFiniteSet(all \cup {k})
                BY <4>2, FS_AddElement
            <4> HIDE DEF all, k
            <4>5. Load(all \cup {k}) <= Load(all) + Bytes[k] /\ Load(all) \in Nat
                BY <1>1, <4>2, LoadGrows
            <4>6. Load(all \cup {k}) \in Nat /\ Bytes[k] \in Nat
                BY <1>1, <4>2, <4>4, LoadGrows, StorageAssumption
            <4>7. Load(all \cup {k}) <= Budget
                BY <4>3, <4>5, <4>6, StorageAssumption
            <4> QED BY <4>1, <4>7 DEF Within
        <3> QED BY <2>1, <3>1, <3>2
    <2>10. Works(s, t, c, k)
        BY <2>1, <2>3, <2>5, <2>6, <2>7, <2>8, <2>9 DEF Works
    <2>11. /\ t.backings = u /\ t.prepared = s.prepared /\ t.params = s.params
           /\ u # <<>> /\ Last(u) = o /\ o \in ToSet(u)
           /\ ToSet(u) \subseteq ToSet(b) \cup {o}
        BY <2>1, <2>5, <2>6
    <2> QED BY <1>4, <2>10, <2>11 DEF t, o
<1> QED BY <1>3, <1>4

\* What some executions built leaves the cache.
LEMMA RetireBuiltWorks ==
    ASSUME NEW s \in Stores, NEW cs, NEW c, NEW k
    PROVE  LET t == RetireBuilt(s, cs)
           IN  /\ Works(s, t, c, k) /\ t.prepared = s.prepared /\ t.params = s.params
               /\ \A o \in ToSet(t.backings) : o \in ToSet(s.backings) /\ o.by \notin cs
               /\ cs = {} => t.retired = s.retired
<1> DEFINE gone == {o \in ToSet(s.backings) : o.by \in cs}
           t == RetireBuilt(s, cs)
<1>1. t = Retire(s, gone)
    BY DEF RetireBuilt
<1>2. cs = {} => gone = {}
    OBVIOUS
<1> HIDE DEF gone, t
<1>3. /\ Works(s, t, c, k) /\ t.prepared = s.prepared /\ t.params = s.params
      /\ ToSet(t.backings) = ToSet(s.backings) \ gone
      /\ t.retired = s.retired \cup (gone \cap ToSet(s.backings))
    BY <1>1, RetireWorks
<1>4. cs = {} => t.retired = s.retired
    BY <1>2, <1>3
<1> QED BY <1>3, <1>4 DEF gone, t

\* What some executions derived is forgotten.
LEMMA ForgetWorks ==
    ASSUME NEW s \in Stores, NEW cs, NEW c, NEW k
    PROVE  LET t == Forget(s, cs)
           IN  /\ Works(s, t, c, k)
               /\ ToSet(t.backings) \subseteq ToSet(s.backings)
               /\ \A o \in ToSet(t.prepared) : o \in ToSet(s.prepared) /\ o.by \notin cs
               /\ \A p \in Params : \/ t.params[p] = None
                                    \/ t.params[p] = s.params[p] /\ t.params[p].by \notin cs
               /\ cs = {} => t.retired = s.retired
<1> DEFINE plans == Kept(s.prepared, ToSet(s.prepared) \ PlansOf(s, cs))
           params == [p \in Params |-> IF s.params[p].by \in cs THEN None ELSE s.params[p]]
           u == [s EXCEPT !.prepared = plans, !.params = params]
           gone == BakedFrom(s, PlansOf(s, cs))
           t == Forget(s, cs)
<1>1. t = Retire(u, gone)
    BY DEF Forget
<1>2. plans \in Seq(Objects) /\ \A o \in ToSet(plans) : o \in ToSet(s.prepared) /\ o.by \notin cs
    <2>1. s.prepared \in Seq(Objects)
        BY DEF Stores
    <2>2. /\ plans \in Seq(Objects)
          /\ ToSet(plans) = ToSet(s.prepared) \cap (ToSet(s.prepared) \ PlansOf(s, cs))
        BY <2>1, KeptHolds
    <2> HIDE DEF plans
    <2> QED BY <2>2 DEF PlansOf
<1>3. /\ params \in [Params -> [key : Params, by : Calls, ok : BOOLEAN] \cup {None}]
      /\ \A p \in Params : \/ params[p] = None
                           \/ params[p] = s.params[p] /\ params[p].by \notin cs
    BY DEF Stores
<1>4. cs = {} => gone = {}
    BY DEF BakedFrom, PlansOf
<1> HIDE DEF plans, params, gone
<1>5. u = [prepared |-> plans, params |-> params, backings |-> s.backings,
           retired |-> s.retired, baked |-> s.baked]
    <2>1. PICK p, q, b, r, n : s = [prepared |-> p, params |-> q, backings |-> b, retired |-> r,
                                    baked |-> n]
        BY DEF Stores
    <2>2. u = [s EXCEPT !.prepared = plans, !.params = params]
        OBVIOUS
    <2> HIDE DEF u
    <2> QED BY <2>1, <2>2
<1> HIDE DEF u, t
<1>6. u \in Stores
    BY <1>2, <1>3, <1>5 DEF Stores
<1>7. Works(s, u, c, k)
    <2>1. \A o \in ToSet(u.prepared) : o \in ToSet(s.prepared) \/ (o.by = c /\ o.key = k)
        BY <1>2, <1>5
    <2>2. \A p \in Params : u.params[p] \in {s.params[p], None} \/ u.params[p].by = c
        BY <1>3, <1>5
    <2> QED BY <1>5, <1>6, <2>1, <2>2, WorksStay
<1>8. /\ Works(u, t, c, k) /\ t.prepared = u.prepared /\ t.params = u.params
      /\ ToSet(t.backings) = ToSet(u.backings) \ gone
      /\ t.retired = u.retired \cup (gone \cap ToSet(u.backings))
    BY <1>1, <1>6, RetireWorks
<1>9. Works(s, t, c, k)
    BY <1>7, <1>8, WorksOn
<1>10. cs = {} => t.retired = s.retired
    BY <1>5, <1>8, <1>4
<1> QED BY <1>2, <1>3, <1>5, <1>8, <1>9, <1>10 DEF t

\* Nothing invalid of the executions whose additions are rolled back stays.
LEMMA RollsBack ==
    ASSUME NEW s \in Stores, NEW cs, NEW c, NEW k
    PROVE  LET t == Forget(RetireBuilt(s, cs), cs)
           IN  /\ Works(s, t, c, k) /\ ToSet(t.backings) \subseteq ToSet(s.backings)
               /\ \A o \in Invalid(t) : o \in Invalid(s) /\ o.by \notin cs
               /\ cs = {} => t.retired = s.retired
<1> DEFINE u == RetireBuilt(s, cs)
           t == Forget(u, cs)
<1>1. /\ Works(s, u, c, k) /\ u.prepared = s.prepared /\ u.params = s.params
      /\ \A o \in ToSet(u.backings) : o \in ToSet(s.backings) /\ o.by \notin cs
      /\ cs = {} => u.retired = s.retired
    BY RetireBuiltWorks
<1>2. u \in Stores
    BY <1>1 DEF Works
<1> HIDE DEF u
<1>3. /\ Works(u, t, c, k)
      /\ ToSet(t.backings) \subseteq ToSet(u.backings)
      /\ \A o \in ToSet(t.prepared) : o \in ToSet(u.prepared) /\ o.by \notin cs
      /\ \A p \in Params : \/ t.params[p] = None
                           \/ t.params[p] = u.params[p] /\ t.params[p].by \notin cs
      /\ cs = {} => t.retired = u.retired
    BY <1>2, ForgetWorks
<1> HIDE DEF t
<1>4. Works(s, t, c, k)
    BY <1>1, <1>3, WorksOn
<1>5. ASSUME NEW o \in Invalid(t) PROVE o \in Invalid(s) /\ o.by \notin cs
    <2>1. CASE o \in ToSet(t.prepared) \cup ToSet(t.backings)
        BY <1>1, <1>3, <1>5, <2>1 DEF Invalid
    <2>2. CASE o \in Range(t.params)
        <3>1. PICK p \in Params : o = t.params[p]
            BY <1>4, <2>2 DEF Works, Stores, Range
        <3>2. o # None
            BY <1>5 DEF Invalid, None, Object
        <3>3. s.params[p] \in Range(s.params)
            BY DEF Stores, Range
        <3> QED BY <1>1, <1>3, <1>5, <3>1, <3>2, <3>3 DEF Invalid
    <2> QED BY <1>5, <2>1, <2>2 DEF Invalid
<1> QED BY <1>1, <1>3, <1>4, <1>5 DEF t, u

-------------------------------------------------------------------------------
(* The chain                                                                   *)

\* What is on the chain once its head has left.
LEMMA Popped ==
    ASSUME NEW S, NEW q \in Seq(S), q # <<>>
    PROVE  /\ Tail(q) \in Seq(S) /\ ToSet(q) = {Head(q)} \cup ToSet(Tail(q))
           /\ \A x \in ToSet(Tail(q)) : Before(q, Head(q), x)
           /\ \A x, y : Before(Tail(q), x, y) => Before(q, x, y)
<1> DEFINE u == Tail(q)
<1>1. Len(q) \in Nat /\ Len(q) >= 1 /\ DOMAIN q = 1 .. Len(q) /\ Head(q) = q[1]
    OBVIOUS
<1>2. u \in Seq(S) /\ Len(u) = Len(q) - 1 /\ DOMAIN u = 1 .. (Len(q) - 1)
    BY <1>1
<1>3. \A i \in DOMAIN u : u[i] = q[i + 1] /\ i + 1 \in DOMAIN q /\ 1 < i + 1
    BY <1>1, <1>2
<1>4. \A i \in DOMAIN q : i = 1 \/ (i - 1 \in DOMAIN u /\ i = (i - 1) + 1)
    BY <1>1, <1>2
<1>5. 1 \in DOMAIN q
    BY <1>1
<1> HIDE DEF u
<1>6. ToSet(q) = {Head(q)} \cup ToSet(u)
    <2>1. ASSUME NEW x \in ToSet(q) PROVE x = Head(q) \/ x \in ToSet(u)
        <3>1. PICK i \in DOMAIN q : x = q[i]
            BY DEF ToSet
        <3>2. CASE i = 1
            BY <1>1, <3>1, <3>2
        <3>3. CASE i - 1 \in DOMAIN u /\ i = (i - 1) + 1
            <4>1. u[i - 1] = q[i]
                BY <1>3, <3>3
            <4> QED BY <3>1, <3>3, <4>1 DEF ToSet
        <3> QED BY <1>4, <3>2, <3>3
    <2>2. ASSUME NEW x \in ToSet(u) PROVE x \in ToSet(q)
        BY <1>3 DEF ToSet
    <2>3. Head(q) \in ToSet(q)
        BY <1>1, <1>5 DEF ToSet
    <2> QED BY <2>1, <2>2, <2>3
<1>7. ASSUME NEW x \in ToSet(u) PROVE Before(q, Head(q), x)
    <2>1. PICK i \in DOMAIN u : x = u[i]
        BY DEF ToSet
    <2> QED BY <1>1, <1>3, <1>5, <2>1 DEF Before
<1>8. ASSUME NEW x, NEW y, Before(u, x, y) PROVE Before(q, x, y)
    <2>1. PICK i, j \in DOMAIN u : i < j /\ u[i] = x /\ u[j] = y
        BY <1>8 DEF Before
    <2>2. i + 1 < j + 1
        BY <1>2, <2>1
    <2> QED BY <1>3, <2>1, <2>2 DEF Before
<1> QED BY <1>2, <1>6, <1>7, <1>8 DEF u

\* What is on the chain once a job is added.
LEMMA Pushed ==
    ASSUME NEW S, NEW q \in Seq(S), NEW e \in S
    PROVE  /\ Append(q, e) \in Seq(S) /\ ToSet(Append(q, e)) = ToSet(q) \cup {e}
           /\ q # <<>> => Append(q, e) # <<>> /\ Head(Append(q, e)) = Head(q)
           /\ \A x, y : Before(Append(q, e), x, y) =>
                  Before(q, x, y) \/ (x \in ToSet(q) /\ y = e)
<1> DEFINE u == Append(q, e)
<1>1. /\ u \in Seq(S) /\ u # <<>> /\ Len(q) \in Nat
      /\ DOMAIN u = 1 .. (Len(q) + 1) /\ DOMAIN q = 1 .. Len(q)
    OBVIOUS
<1>2. \A i \in DOMAIN u : /\ i \in DOMAIN q => u[i] = q[i]
                          /\ i \notin DOMAIN q => i = Len(q) + 1 /\ u[i] = e
    BY <1>1
<1>3. ToSet(u) = ToSet(q) \cup {e}
    BY ToSetAppend
<1>4. q # <<>> => Head(u) = Head(q)
    OBVIOUS
<1> HIDE DEF u
<1>5. ASSUME NEW x, NEW y, Before(u, x, y)
      PROVE  Before(q, x, y) \/ (x \in ToSet(q) /\ y = e)
    <2>1. PICK i, j \in DOMAIN u : i < j /\ u[i] = x /\ u[j] = y
        BY <1>5 DEF Before
    <2>2. i \in DOMAIN q
        BY <1>1, <2>1
    <2>3. CASE j \in DOMAIN q
        BY <1>2, <2>1, <2>2, <2>3 DEF Before
    <2>4. CASE j \notin DOMAIN q
        BY <1>2, <2>1, <2>2, <2>4 DEF ToSet
    <2> QED BY <2>3, <2>4
<1> QED BY <1>1, <1>3, <1>4, <1>5 DEF u

\* Who is before another is on the chain, as the other is.
LEMMA BothOn ==
    ASSUME NEW q, NEW x, NEW y, Before(q, x, y)
    PROVE  x \in ToSet(q) /\ y \in ToSet(q)
BY DEF Before, ToSet

\* What the state of an execution says of the lock and of the batch.
LEMMA Standing ==
    ASSUME Types, Queue, Sections
    PROVE  /\ \A c \in Calls : Working(c) /\ call[c].kind # "run" =>
                  c \in batch.members /\ Open /\ holder = "batch"
           /\ holder \in Calls => /\ chain # <<>> /\ Head(chain) = holder
                                  /\ Running(holder) /\ Working(holder) /\ ~Open
           /\ batch.leases = 0 => Leasing = {}
           /\ Nobody \notin Calls /\ "batch" \notin Calls /\ Nobody # "batch"
           /\ "dispose" \notin Calls /\ "destroy" \notin Calls
<1>1. /\ Nobody \notin Calls /\ "batch" \notin Calls /\ Nobody # "batch"
      /\ "dispose" \notin Calls /\ "destroy" \notin Calls
    BY StorageAssumption
<1>2. IsFiniteSet(Leasing)
    <2>1. IsFiniteSet(batch.members) /\ Leasing \subseteq batch.members
        BY DEF Queue, Batched, Leasing
    <2> QED BY <2>1, FS_Subset
<1>3. batch.leases = 0 => Leasing = {}
    BY <1>2, FS_EmptySet DEF Queue, Batched
<1>4. ASSUME NEW c \in Calls, Working(c), call[c].kind # "run"
      PROVE  c \in batch.members /\ Open /\ holder = "batch"
    <2>1. c \in batch.members
        BY <1>4 DEF Queue, Batched, Unsettled
    <2>2. batch.leases # 0
        BY <1>3, <1>4, <2>1 DEF Leasing
    <2>3. batch.stage # "none" /\ batch.stage # "ended"
        BY <2>1, <2>2 DEF Queue, Batched
    <2> QED BY <2>1, <2>3 DEF Types, Batches, Open, Sections
<1>5. ASSUME holder \in Calls
      PROVE  /\ chain # <<>> /\ Head(chain) = holder
             /\ Running(holder) /\ Working(holder) /\ ~Open
    <2>1. Running(holder) /\ holder # "batch"
        BY <1>1, <1>5 DEF Sections
    <2> QED BY <1>5, <2>1 DEF Queue, Line, Place, Begun, Running, Working, Sections
<1> QED BY <1>1, <1>3, <1>4, <1>5

\* The head of the chain, an execution, goes on with its body.
LEMMA MoveKeeps ==
    ASSUME Types, Queue, NEW c \in Calls, chain # <<>>, Head(chain) = c, Working(c),
           UNCHANGED <<chain, disposal, batch>>, resident'.use = resident.use,
           \A d \in Calls \ {c} : call'[d] = call[d],
           call'[c].kind = call[c].kind, call'[c].key = call[c].key, Working(c)',
           call'[c].plan # None => call'[c].plan.key = call[c].key,
           call'[c].stage \in {"waiting", "fencing", "encoding"} => call[c].kind = "run",
           call'[c].stage = "fencing" => call'[c].plan # None
    PROVE  Queue'
<1>1. \A d \in Calls : (Working(d)' <=> Working(d)) /\ (Unsettled(d)' <=> Unsettled(d))
    BY DEF Working, Unsettled
<1>2. \A d \in Calls : call'[d].kind = call[d].kind /\ call'[d].key = call[d].key
    OBVIOUS
<1>3. \A d \in Calls : call'[d].stage = "joined" <=> call[d].stage = "joined"
    BY DEF Working
<1>4. ASSUME NEW d \in Calls PROVE Place(d)'
    <2>1. CASE d = c
        BY <1>1, <1>2, <2>1 DEF Queue, Line, Place, Unsettled
    <2>2. CASE d # c
        BY <1>1, <2>2 DEF Queue, Line, Place, Begun
    <2> QED BY <2>1, <2>2
<1>5. Line'
    BY <1>4 DEF Queue, Line
<1>6. Batched'
    <2>1. Leasing' = Leasing
        BY <1>1 DEF Leasing, Types, Batches
    <2> QED BY <1>1, <1>2, <1>3, <2>1 DEF Queue, Batched
<1>7. Reads'
    <2>1. batch.members \subseteq Calls
        BY DEF Types, Batches
    <2> QED BY <1>2, <1>3, <2>1 DEF Queue, Reads, Open
<1>8. Uses'
    <2>1. Users' = Users
        BY <1>1, <1>2 DEF Users
    <2> QED BY <2>1 DEF Queue, Uses
<1> QED BY <1>5, <1>6, <1>7, <1>8 DEF Queue

\* A run leaves.
LEMMA LeaveKeeps ==
    ASSUME Types, Queue, NEW c \in Calls, chain # <<>>, Head(chain) = c, Working(c),
           call[c].kind = "run", Leave(c)
    PROVE  Queue' /\ Users' \subseteq Users
<1>1. /\ call' = [call EXCEPT ![c] = [Unissued EXCEPT !.stage = "done"]]
      /\ chain' = Tail(chain) /\ UNCHANGED <<disposal, batch>>
      /\ resident'.use = resident.use - Count(call[c].key)
    BY DEF Leave, Types, Reservations
<1>2. /\ call'[c].stage = "done" /\ call'[c].kind = "run" /\ call'[c].plan = None
      /\ \A d \in Calls \ {c} : call'[d] = call[d]
    BY <1>1 DEF Types, Unissued
<1>3. /\ ToSet(chain) = {c} \cup ToSet(chain')
      /\ \A x \in ToSet(chain') : Before(chain, c, x)
      /\ \A x, y : Before(chain', x, y) => Before(chain, x, y)
    BY <1>1, Popped DEF Types
<1>4. c \notin ToSet(chain')
    BY <1>3 DEF Queue, Line, Place
<1>5. ~Working(c)' /\ ~Unsettled(c)' /\ ~Begun(c)'
    BY <1>2 DEF Working, Unsettled, Begun
<1>6. \A d \in Calls \ {c} : /\ (Working(d)' <=> Working(d)) /\ (Unsettled(d)' <=> Unsettled(d))
                             /\ (Begun(d)' <=> Begun(d)) /\ ~Begun(d)
    BY <1>2 DEF Working, Unsettled, Begun, Queue, Line, Place
<1>7. ASSUME NEW d \in Calls PROVE Place(d)'
    <2>1. CASE d = c
        <3>1. ~Before(chain', c, c)
            BY <1>3 DEF Queue, Line, Place
        <3> QED BY <1>2, <1>4, <1>5, <2>1, <3>1 DEF Place
    <2>2. CASE d # c
        <3>1. Place(d)
            BY DEF Queue, Line
        <3>2. call'[d] = call[d]
            BY <1>2, <2>2
        <3>3. Working(d)' <=> d \in ToSet(chain')
            BY <1>3, <1>6, <2>2, <3>1 DEF Place
        <3>4. ~Before(chain', d, d) /\ ~Begun(d)'
            BY <1>3, <1>6, <2>2, <3>1 DEF Place
        <3> QED BY <1>6, <2>2, <3>1, <3>2, <3>3, <3>4 DEF Place
    <2> QED BY <2>1, <2>2
<1>8. Line'
    BY <1>1, <1>3, <1>7 DEF Queue, Line
<1>9. c \notin batch.members /\ batch.members \subseteq Calls
    BY DEF Queue, Batched, Types, Batches
<1>10. Batched'
    <2>1. Leasing' = Leasing
        BY <1>1, <1>6, <1>9 DEF Leasing
    <2>2. ASSUME NEW d \in Calls
          PROVE  /\ d \in batch'.members <=> Unsettled(d)' /\ call'[d].kind # "run"
                 /\ call'[d].stage = "joined" => d \in batch'.members
        BY <1>1, <1>2, <1>6, <1>9 DEF Queue, Batched
    <2> QED BY <1>1, <2>1, <2>2 DEF Queue, Batched
<1>11. Reads'
    <2>1. \A d \in batch.members : call'[d] = call[d]
        BY <1>2, <1>9
    <2>2. ASSUME NEW d \in Calls, call'[d].kind = "read", NEW e \in ToSet(chain'),
                 Before(chain', d, e)
          PROVE  e \in Calls /\ call'[e].kind = "run"
        <3>1. d # c /\ call[d].kind = "read"
            BY <1>2, <2>2
        <3>2. Before(chain, d, e) /\ e \in ToSet(chain)
            BY <1>3, <2>2
        <3> QED BY <1>2, <3>1, <3>2 DEF Queue, Reads
    <2>3. ASSUME Open', NEW d \in batch'.members, call'[d].stage = "joined", call'[d].kind = "read",
                 NEW e \in ToSet(chain')
          PROVE  e \in Calls /\ call'[e].kind = "run"
        <3>1. Open /\ d \in batch.members /\ call[d].stage = "joined" /\ call[d].kind = "read"
            BY <1>1, <2>1, <2>3 DEF Open
        <3>2. e \in Calls /\ call[e].kind = "run"
            BY <1>3, <2>3, <3>1 DEF Queue, Reads
        <3> QED BY <1>2, <3>2
    <2> QED BY <1>1, <2>1, <2>2, <2>3 DEF Queue, Reads
<1>12. Uses' /\ Users' \subseteq Users
    <2>1. Users' = Users \ {c}
        BY <1>2, <1>5, <1>6 DEF Users
    <2>2. CASE call[c].key \in Resident
        <3>1. c \in Users
            BY <2>2 DEF Users
        <3>2. IsFiniteSet(Users \ {c}) /\ Cardinality(Users \ {c}) = Cardinality(Users) - 1
            BY <3>1, FS_RemoveElement DEF Queue, Uses
        <3> QED BY <1>1, <2>1, <2>2, <3>2 DEF Queue, Uses, Count
    <2>3. CASE call[c].key \notin Resident
        <3>1. Users' = Users
            BY <2>1, <2>3 DEF Users
        <3>2. resident'.use = resident.use
            BY <1>1, <2>3 DEF Count, Types, Reservations
        <3> QED BY <3>1, <3>2 DEF Queue, Uses
    <2> QED BY <2>1, <2>2, <2>3
<1> QED BY <1>8, <1>10, <1>11, <1>12 DEF Queue

\* An enqueue leaves; it stays a member of the batch.
LEMMA JoinKeeps ==
    ASSUME Types, Queue, Sections, NEW c \in Calls, chain # <<>>, Head(chain) = c, Working(c),
           call[c].kind # "run", NEW held, Join(c, held)
    PROVE  Queue' /\ Users' \subseteq Users
<1>1. /\ call' = [call EXCEPT ![c] = [call[c] EXCEPT !.stage = "joined", !.holds = held]]
      /\ chain' = Tail(chain) /\ UNCHANGED disposal
      /\ resident'.use = resident.use - Count(call[c].key)
      /\ batch' = [batch EXCEPT !.leases = batch.leases - 1]
    BY DEF Join, Types, Reservations
<1>2. /\ call'[c].stage = "joined" /\ call'[c].kind = call[c].kind /\ call'[c].key = call[c].key
      /\ call'[c].plan = call[c].plan
      /\ \A d \in Calls \ {c} : call'[d] = call[d]
    BY <1>1 DEF Types, Executions
<1>3. /\ ToSet(chain) = {c} \cup ToSet(chain')
      /\ \A x \in ToSet(chain') : Before(chain, c, x)
      /\ \A x, y : Before(chain', x, y) => Before(chain, x, y)
    BY <1>1, Popped DEF Types
<1>4. c \notin ToSet(chain')
    BY <1>3 DEF Queue, Line, Place
<1>5. ~Working(c)' /\ Unsettled(c)' /\ ~Begun(c)' /\ Unsettled(c)
    BY <1>2 DEF Working, Unsettled, Begun
<1>6. \A d \in Calls \ {c} : /\ (Working(d)' <=> Working(d)) /\ (Unsettled(d)' <=> Unsettled(d))
                             /\ (Begun(d)' <=> Begun(d)) /\ ~Begun(d)
    BY <1>2 DEF Working, Unsettled, Begun, Queue, Line, Place
<1>7. ASSUME NEW d \in Calls PROVE Place(d)'
    <2>1. Place(d)
        BY DEF Queue, Line
    <2>2. CASE d = c
        <3>1. ~Before(chain', c, c)
            BY <1>3 DEF Queue, Line, Place
        <3> QED BY <1>2, <1>4, <1>5, <2>1, <2>2, <3>1 DEF Place
    <2>3. CASE d # c
        <3>1. call'[d] = call[d]
            BY <1>2, <2>3
        <3>2. Working(d)' <=> d \in ToSet(chain')
            BY <1>3, <1>6, <2>1, <2>3 DEF Place
        <3>3. ~Before(chain', d, d) /\ ~Begun(d)'
            BY <1>3, <1>6, <2>1, <2>3 DEF Place
        <3> QED BY <1>6, <2>1, <2>3, <3>1, <3>2, <3>3 DEF Place
    <2> QED BY <2>2, <2>3
<1>8. Line'
    BY <1>1, <1>3, <1>7 DEF Queue, Line
<1>9. /\ batch'.members = batch.members /\ batch'.stage = batch.stage /\ batch'.reads = batch.reads
      /\ batch'.leases = batch.leases - 1
      /\ batch.members \subseteq Calls /\ c \in batch.members
      /\ Open /\ holder = "batch"
    BY <1>1, Standing DEF Types, Batches
<1>10. Batched'
    <2>1. Leasing' = Leasing \ {c} /\ c \in Leasing
        BY <1>5, <1>6, <1>9 DEF Leasing
    <2>2. IsFiniteSet(Leasing)
        <3>1. Leasing \subseteq batch.members
            BY DEF Leasing
        <3> QED BY <3>1, FS_Subset DEF Queue, Batched
    <2>3. Cardinality(Leasing \ {c}) = Cardinality(Leasing) - 1
        BY <2>1, <2>2, FS_RemoveElement
    <2>4. ASSUME NEW d \in Calls
          PROVE  /\ d \in batch'.members <=> Unsettled(d)' /\ call'[d].kind # "run"
                 /\ call'[d].stage = "joined" => d \in batch'.members
        BY <1>2, <1>5, <1>6, <1>9 DEF Queue, Batched
    <2>5. batch'.leases = Cardinality(Leasing')
        BY <1>9, <2>1, <2>3 DEF Queue, Batched
    <2>6. batch'.stage # "ended" /\ batch'.stage # "none"
        BY <1>9 DEF Open
    <2> QED BY <1>9, <2>4, <2>5, <2>6 DEF Queue, Batched
<1>11. Reads'
    <2>1. \A d \in Calls : call'[d].kind = call[d].kind
        BY <1>2
    <2>2. ASSUME NEW d \in Calls, call'[d].kind = "read", NEW e \in ToSet(chain'),
                 Before(chain', d, e)
          PROVE  e \in Calls /\ call'[e].kind = "run"
        <3>1. call[d].kind = "read" /\ Before(chain, d, e) /\ e \in ToSet(chain)
            BY <1>3, <2>1, <2>2
        <3> QED BY <2>1, <3>1 DEF Queue, Reads
    <2>3. ASSUME NEW d \in batch.members, call'[d].stage = "joined", call'[d].kind = "read",
                 NEW e \in ToSet(chain')
          PROVE  e \in Calls /\ call'[e].kind = "run"
        <3>1. CASE d = c
            <4>1. Before(chain, c, e) /\ e \in ToSet(chain) /\ call[c].kind = "read"
                BY <1>2, <1>3, <2>3, <3>1
            <4>2. e \in Calls /\ call[e].kind = "run"
                BY <4>1 DEF Queue, Reads
            <4> QED BY <2>1, <4>2
        <3>2. CASE d # c
            <4>1. call[d].stage = "joined" /\ call[d].kind = "read"
                BY <1>2, <1>9, <2>3, <3>2
            <4>2. e \in Calls /\ call[e].kind = "run"
                BY <1>3, <1>9, <2>3, <4>1 DEF Queue, Reads
            <4> QED BY <2>1, <4>2
        <3> QED BY <3>1, <3>2
    <2>4. \A d \in batch'.members : call'[d].kind = "read" => batch'.reads
        BY <1>9, <2>1 DEF Queue, Reads
    <2>5. batch'.reads => ~disposal' /\ batch'.stage # "none"
        BY <1>1, <1>9 DEF Queue, Reads
    <2> QED BY <1>9, <2>2, <2>3, <2>4, <2>5 DEF Reads
<1>12. Uses' /\ Users' \subseteq Users
    <2>1. Users' = Users \ {c}
        BY <1>2, <1>5, <1>6 DEF Users
    <2>2. CASE call[c].key \in Resident
        <3>1. c \in Users
            BY <2>2 DEF Users
        <3>2. IsFiniteSet(Users \ {c}) /\ Cardinality(Users \ {c}) = Cardinality(Users) - 1
            BY <3>1, FS_RemoveElement DEF Queue, Uses
        <3> QED BY <1>1, <2>1, <2>2, <3>2 DEF Queue, Uses, Count
    <2>3. CASE call[c].key \notin Resident
        <3>1. Users' = Users
            BY <2>1, <2>3 DEF Users
        <3>2. resident'.use = resident.use
            BY <1>1, <2>3 DEF Count, Types, Reservations
        <3> QED BY <3>1, <3>2 DEF Queue, Uses
    <2> QED BY <2>1, <2>2, <2>3
<1> QED BY <1>8, <1>10, <1>11, <1>12 DEF Queue

\* A job that is no execution leaves.
LEMMA JobKeeps ==
    ASSUME Types, Queue, chain # <<>>, Head(chain) \notin Calls, chain' = Tail(chain),
           UNCHANGED <<resident, call, disposal, batch>>
    PROVE  Queue' /\ Users' = Users
<1>1. /\ ToSet(chain) = {Head(chain)} \cup ToSet(chain')
      /\ \A x \in ToSet(chain') : Before(chain, Head(chain), x)
      /\ \A x, y : Before(chain', x, y) => Before(chain, x, y)
    BY Popped DEF Types
<1>2. \A d \in Calls : /\ (Working(d)' <=> Working(d)) /\ (Unsettled(d)' <=> Unsettled(d))
                       /\ (Begun(d)' <=> Begun(d)) /\ ~Begun(d)
    BY DEF Working, Unsettled, Begun, Queue, Line, Place
<1>3. ASSUME NEW d \in Calls PROVE Place(d)'
    <2>1. Place(d)
        BY DEF Queue, Line
    <2>2. Working(d)' <=> d \in ToSet(chain')
        BY <1>1, <1>2, <2>1 DEF Place
    <2> QED BY <1>1, <1>2, <2>1, <2>2 DEF Place
<1>4. Line'
    BY <1>1, <1>3 DEF Queue, Line
<1>5. Batched'
    <2>1. Leasing' = Leasing
        BY <1>2 DEF Leasing, Types, Batches
    <2> QED BY <1>2, <2>1 DEF Queue, Batched
<1>6. Reads'
    BY <1>1 DEF Queue, Reads, Open
<1>7. Uses' /\ Users' = Users
    BY <1>2 DEF Queue, Uses, Users
<1> QED BY <1>4, <1>5, <1>6, <1>7 DEF Queue

\* While a job that destroys buffers is at the head of the chain nobody else
\* encodes or reads back.
LEMMA NobodyElse ==
    ASSUME Types, Queue, Sections, Holding, chain # <<>>,
           Head(chain) \in Calls => call[Head(chain)].kind # "run" \/ holder = Head(chain),
           NEW d \in Calls, d # Head(chain)
    PROVE  call[d].holds = None
<1>1. SUFFICES ASSUME call[d].holds # None PROVE FALSE
    OBVIOUS
<1>2. ~Begun(d)
    BY DEF Queue, Line, Place
<1>3. call[d].stage = "joined" /\ call[d].kind = "read" /\ Open
    BY <1>1, <1>2 DEF Holding, Begun
<1>4. d \in batch.members
    BY <1>3 DEF Queue, Batched
<1>5. Head(chain) \in ToSet(chain)
    BY Popped DEF Types
<1>6. Head(chain) \in Calls /\ call[Head(chain)].kind = "run"
    BY <1>3, <1>4, <1>5 DEF Queue, Reads
<1>7. holder \in Calls
    BY <1>6
<1> QED BY <1>3, <1>7, Standing

\* Destroying takes the retired buffers only.
LEMMA DestroyedHolds ==
    ASSUME NEW s \in Stores
    PROVE  /\ Destroyed(s) \in Stores /\ Destroyed(s).retired = {}
           /\ Destroyed(s).backings = s.backings /\ Destroyed(s).prepared = s.prepared
           /\ Destroyed(s).params = s.params /\ Destroyed(s).baked = s.baked
           /\ Invalid(Destroyed(s)) = Invalid(s)
<1> DEFINE t == Destroyed(s)
<1>1. PICK p, q, b, r, n : s = [prepared |-> p, params |-> q, backings |-> b, retired |-> r,
                                baked |-> n]
    BY DEF Stores
<1>2. t = [prepared |-> p, params |-> q, backings |-> b, retired |-> {}, baked |-> n]
    BY <1>1 DEF Destroyed
<1> HIDE DEF t
<1>3. /\ t.retired = {} /\ t.backings = s.backings /\ t.prepared = s.prepared
      /\ t.params = s.params /\ t.baked = s.baked
    BY <1>1, <1>2
<1>4. t \in Stores
    BY <1>1, <1>2 DEF Stores
<1>5. Invalid(t) = Invalid(s)
    BY <1>3 DEF Invalid
<1> QED BY <1>3, <1>4, <1>5 DEF t

\* Who made an invalid object is an execution.
LEMMA Maker ==
    ASSUME NEW s \in Stores, NEW o \in Invalid(s)
    PROVE  o.by \in Calls /\ ~o.ok /\ o # None
<1>1. ~o.ok /\ o # None
    BY DEF Invalid, None, Object
<1>2. CASE o \in ToSet(s.prepared) \cup ToSet(s.backings)
    <2>1. s.prepared \in Seq(Objects) /\ s.backings \in Seq(Objects)
        BY DEF Stores
    <2>2. o \in Objects
        BY <1>2, <2>1, CacheFinite
    <2> QED BY <1>1, <2>2 DEF Objects
<1>3. CASE o \in Range(s.params)
    <2>1. o \in [key : Params, by : Calls, ok : BOOLEAN] \cup {None}
        BY <1>3 DEF Stores, Range
    <2> QED BY <1>1, <2>1
<1> QED BY <1>2, <1>3 DEF Invalid

\* What holds of the caches after a step that works on them, whether it destroys
\* what is retired or not.
LEMMA StoreKeeps ==
    ASSUME IInv, NEW c, NEW k, NEW s, Works(store, s, c, k),
           \/ c \in Calls /\ Working(c) /\ k = call[c].key
           \/ ToSet(s.backings) \subseteq ToSet(store.backings),
           store' \in {s, Destroyed(s)},
           Users' \subseteq Users, resident'.disposed = resident.disposed
    PROVE  /\ store' \in Stores /\ s \in Stores /\ Invalid(store') = Invalid(s)
           /\ store'.backings = s.backings /\ store'.params = s.params
           /\ store'.prepared = s.prepared
           /\ store' = s \/ store'.retired = {}
           /\ store'.baked = Bakes(ToSet(store'.backings))
           /\ Refused' /\ BudgetKept'
<1>1. s \in Stores /\ store \in Stores
    BY DEF Works, IInv, Types
<1>2. /\ store' \in Stores /\ Invalid(store') = Invalid(s)
      /\ store'.backings = s.backings /\ store'.params = s.params /\ store'.prepared = s.prepared
      /\ store' = s \/ store'.retired = {}
      /\ store'.baked = s.baked
    <2>1. CASE store' = s
        BY <1>1, <2>1
    <2>2. CASE store' = Destroyed(s)
        BY <1>1, <2>2, DestroyedHolds
    <2> QED BY <2>1, <2>2
<1>3. store'.baked = Bakes(ToSet(store'.backings))
    BY <1>2 DEF Works, Exact, IInv, Counts
<1>4. BudgetKept'
    <2>1. Within(store.backings)
        BY DEF IInv, BudgetKept, Within
    <2>2. Within(s.backings)
        BY <2>1 DEF Works
    <2> QED BY <1>2, <2>2 DEF BudgetKept, Within
<1>5. Refused'
    <2>1. SUFFICES ASSUME resident.disposed
                   PROVE  Users' = {} /\ \A o \in ToSet(s.backings) : o.key \notin Resident
        BY <1>2 DEF Refused
    <2>2. Users = {} /\ \A o \in ToSet(store.backings) : o.key \notin Resident
        BY <2>1 DEF IInv, Refused
    <2>3. c \in Calls /\ Working(c) /\ k = call[c].key => k \notin Resident
        BY <2>2 DEF Users
    <2> QED BY <2>2, <2>3 DEF Works
<1> QED BY <1>1, <1>2, <1>3, <1>4, <1>5

-------------------------------------------------------------------------------
(* The steps                                                                   *)

\* The invariant holds at first.
LEMMA InitIInv == Init => IInv
<1> SUFFICES ASSUME Init PROVE IInv
    OBVIOUS
<1>1. /\ store.prepared = <<>> /\ store.backings = <<>> /\ store.retired = {}
      /\ store.baked = 0 /\ store.params = [p \in Params |-> None]
    BY DEF Init, Empty
<1>2. ToSet(store.prepared) = {} /\ ToSet(store.backings) = {} /\ ToSet(chain) = {}
    BY <1>1 DEF ToSet, Init
<1>3. \A c \in Calls : /\ call[c] = Unissued
                       /\ ~Working(c) /\ ~Unsettled(c) /\ ~Begun(c) /\ ~Running(c)
    BY DEF Init, Unissued, Working, Unsettled, Begun, Running
<1>4. Types
    <2>1. store \in Stores
        BY DEF Init, Empty, Stores
    <2>2. Unissued \in Executions
        BY DEF Unissued, Executions, Stages
    <2>3. call \in [Calls -> Executions]
        BY <2>2 DEF Init
    <2>4. batch \in Batches
        BY DEF Init, NoBatch, Batches
    <2>5. resident \in Reservations
        BY DEF Init, Reservations
    <2>6. /\ disposal \in BOOLEAN
          /\ holder \in Calls \cup {"batch", Nobody} /\ broken \in BOOLEAN
        BY DEF Init
    <2>7. chain \in Seq(Calls \cup {"dispose", "destroy"})
        <3> DEFINE jobs == Calls \cup {"dispose", "destroy"}
        <3>1. <<>> \in Seq(jobs)
            <4> HIDE DEF jobs
            <4> QED OBVIOUS
        <3> QED BY <3>1 DEF Init
    <2> QED BY <2>1, <2>3, <2>4, <2>5, <2>6, <2>7 DEF Types
<1>5. Users = {} /\ Leasing = {} /\ IsFiniteSet({}) /\ Cardinality({}) = 0
    BY <1>3, FS_EmptySet DEF Users, Leasing, Init, NoBatch
<1>6. Queue
    <2>1. ASSUME NEW c \in Calls PROVE Place(c)
        <3>1. ~Before(chain, c, c)
            BY DEF Init, Before
        <3> QED BY <1>2, <1>3, <3>1 DEF Place, Unissued
    <2>2. Batched
        BY <1>3, <1>5 DEF Batched, Init, NoBatch, Unissued
    <2>3. Reads
        BY <1>2 DEF Reads, Init, NoBatch
    <2> QED BY <1>2, <1>5, <2>1, <2>2, <2>3 DEF Queue, Line, Uses, Init
<1>7. Sections
    <2>1. Nobody # "batch" /\ Nobody \notin Calls
        BY StorageAssumption
    <2> QED BY <1>3, <2>1 DEF Sections, Init, NoBatch, Open
<1>8. Counts
    <2>1. Nobody \notin Calls
        BY StorageAssumption
    <2>2. {o \in {} : o.key \in Resident} = {}
        OBVIOUS
    <2> QED BY <1>1, <1>2, <1>5, <2>1, <2>2 DEF Counts, Init, Bakes
<1>9. Refused /\ Holding /\ Cleaning
    BY <1>1, <1>3 DEF Refused, Holding, Cleaning, Init, Unissued
<1>10. Blame
    <2>1. Range(store.params) \subseteq {None}
        BY <1>1 DEF Range
    <2>2. Invalid(store) = {}
        BY <1>2, <2>1 DEF Invalid, None, Object
    <2> QED BY <2>2 DEF Blame
<1>11. BudgetKept
    <2>1. KeysOf(store.backings) = {}
        BY <1>2 DEF KeysOf
    <2>2. Load({}) = 0
        BY FS_EmptySet, LoadGrows
    <2> QED BY <2>1, <2>2, StorageAssumption DEF BudgetKept
<1> QED BY <1>4, <1>6, <1>7, <1>8, <1>9, <1>10, <1>11 DEF IInv

\* The resident tensor is disposed when nothing names it.
LEMMA DisposeResidentIInv ==
    ASSUME IInv, DisposeResident PROVE IInv'
<1>1. /\ resident' = [resident EXCEPT !.disposed = TRUE]
      /\ UNCHANGED <<store, call, chain, disposal, holder, broken, batch>>
      /\ store.baked = 0 /\ resident.use = 0
    BY DEF DisposeResident
<1>2. resident'.use = resident.use /\ resident'.bound = resident.bound
      /\ resident' \in Reservations
    BY <1>1 DEF IInv, Types, Reservations
<1>3. Types'
    BY <1>1, <1>2 DEF IInv, Types
<1>4. \A c \in Calls : /\ (Working(c)' <=> Working(c)) /\ (Unsettled(c)' <=> Unsettled(c))
                       /\ (Begun(c)' <=> Begun(c)) /\ (Running(c)' <=> Running(c))
    BY <1>1 DEF Working, Unsettled, Begun, Running
<1>5. Users' = Users /\ Leasing' = Leasing
    BY <1>1, <1>4 DEF Users, Leasing, IInv, Types, Batches
<1>6. Queue'
    BY <1>1, <1>2, <1>4, <1>5 DEF IInv, Queue, Line, Place, Batched, Reads, Uses, Open
<1>7. Sections' /\ Counts'
    BY <1>1, <1>2, <1>4 DEF IInv, Sections, Counts, Open
<1>8. Refused'
    <2>1. Users = {}
        BY <1>1, FS_EmptySet DEF IInv, Queue, Uses
    <2>2. \A o \in ToSet(store.backings) : o.key \notin Resident
        <3>1. IsFiniteSet(ToSet(store.backings))
            BY CacheFinite DEF IInv, Types, Stores
        <3>2. Bakes(ToSet(store.backings)) = 0
            BY <1>1 DEF IInv, Counts
        <3> QED BY <3>1, <3>2, BakesCounts
    <2> QED BY <1>1, <1>5, <2>1, <2>2 DEF Refused
<1>9. Holding' /\ Blame' /\ Cleaning' /\ BudgetKept'
    BY <1>1 DEF IInv, Holding, Blame, Cleaning, BudgetKept, Open
<1> QED BY <1>3, <1>6, <1>7, <1>8, <1>9 DEF IInv

\* dispose is accepted while no read waits for its batch.
LEMMA DisposeIInv ==
    ASSUME IInv, Dispose PROVE IInv'
<1>1. /\ disposal' = TRUE /\ chain' = Append(chain, "dispose") /\ ~batch.reads
      /\ UNCHANGED <<store, resident, call, holder, broken, batch>>
    BY DEF Dispose
<1>2. /\ chain' \in Seq(Calls \cup {"dispose", "destroy"})
      /\ ToSet(chain') = ToSet(chain) \cup {"dispose"}
      /\ chain # <<>> => chain' # <<>> /\ Head(chain') = Head(chain)
      /\ \A x, y : Before(chain', x, y) => Before(chain, x, y) \/ (x \in ToSet(chain) /\ y = "dispose")
    BY <1>1, Pushed DEF IInv, Types
<1>3. Types'
    BY <1>1, <1>2 DEF IInv, Types
<1>4. \A c \in Calls : /\ (Working(c)' <=> Working(c)) /\ (Unsettled(c)' <=> Unsettled(c))
                       /\ (Begun(c)' <=> Begun(c)) /\ (Running(c)' <=> Running(c))
                       /\ c # "dispose"
    BY <1>1, StorageAssumption DEF Working, Unsettled, Begun, Running
<1>5. Users' = Users /\ Leasing' = Leasing
    BY <1>1, <1>4 DEF Users, Leasing, IInv, Types, Batches
<1>6. Queue'
    <2>1. ASSUME NEW c \in Calls PROVE Place(c)'
        BY <1>1, <1>2, <1>4 DEF IInv, Queue, Line, Place
    <2>2. Batched'
        BY <1>1, <1>4, <1>5 DEF IInv, Queue, Batched
    <2>3. \A c \in batch.members : call[c].kind # "read"
        BY <1>1 DEF IInv, Queue, Reads
    <2>4. \A c \in Calls : call[c].kind = "read" => c \notin ToSet(chain)
        BY <2>3 DEF IInv, Queue, Line, Place, Batched, Unsettled
    <2>5. Reads'
        BY <1>1, <1>2, <2>3, <2>4, BothOn DEF Reads
    <2> QED BY <1>1, <1>5, <2>1, <2>2, <2>5 DEF IInv, Queue, Line, Uses
<1>7. Sections' /\ Counts' /\ Refused'
    BY <1>1, <1>4, <1>5 DEF IInv, Sections, Counts, Refused, Open
<1>8. Holding' /\ Blame' /\ Cleaning' /\ BudgetKept'
    BY <1>1, <1>2 DEF IInv, Holding, Blame, Cleaning, BudgetKept, Open
<1> QED BY <1>3, <1>6, <1>7, <1>8 DEF IInv

\* An execution is accepted.
LEMMA IssueIInv ==
    ASSUME IInv, NEW c \in Calls, NEW kind \in {"run", "enqueue", "read"}, NEW k \in Keys,
           Issue(c, kind, k)
    PROVE  IInv'
<1>1. /\ call[c].stage = "unissued" /\ ~disposal /\ (k \in Resident => ~resident.disposed)
      /\ resident' = [resident EXCEPT !.use = resident.use + Count(k)]
      /\ call' = [call EXCEPT ![c] = [Unissued EXCEPT !.stage = "queued", !.kind = kind,
                                                      !.key = k]]
      /\ chain' = Append(chain, c)
      /\ UNCHANGED <<store, disposal, holder, broken>>
    BY DEF Issue, IInv, Types, Reservations
<1>2. /\ call'[c].stage = "queued" /\ call'[c].kind = kind /\ call'[c].key = k
      /\ call'[c].plan = None /\ call'[c].holds = None
      /\ \A d \in Calls \ {c} : call'[d] = call[d]
      /\ call' \in [Calls -> Executions]
    BY <1>1 DEF IInv, Types, Unissued, Executions, Stages
<1>3. /\ chain' \in Seq(Calls \cup {"dispose", "destroy"})
      /\ ToSet(chain') = ToSet(chain) \cup {c}
      /\ chain # <<>> => chain' # <<>> /\ Head(chain') = Head(chain)
      /\ \A x, y : Before(chain', x, y) => Before(chain, x, y) \/ (x \in ToSet(chain) /\ y = c)
    BY <1>1, Pushed DEF IInv, Types
<1>4. /\ batch' \in Batches /\ batch'.stage = batch.stage /\ batch'.failed = batch.failed
      /\ kind = "run" => batch' = batch
      /\ kind # "run" => /\ batch.stage = "open" /\ ~batch.reads
                         /\ batch'.leases = batch.leases + 1
                         /\ batch'.members = batch.members \cup {c}
                         /\ batch'.reads = (kind = "read")
    <2>1. CASE kind = "run"
        BY <2>1 DEF Issue, IInv, Types, Batches
    <2>2. CASE kind # "run"
        <3> DEFINE reads == kind = "read"
                   members == batch.members \cup {c}
        <3>1. /\ batch.stage = "open" /\ ~batch.reads
              /\ batch' = [batch EXCEPT !.leases = batch.leases + 1, !.members = members,
                                        !.reads = reads]
            BY <2>2 DEF Issue, IInv, Types, Batches
        <3>2. reads \in BOOLEAN /\ members \in SUBSET Calls /\ batch \in Batches
            BY DEF IInv, Types, Batches
        <3> HIDE DEF reads, members
        <3>3. batch' \in Batches
            <4>1. PICK stage, leases, old, read, failed :
                      batch = [stage |-> stage, leases |-> leases, members |-> old,
                               reads |-> read, failed |-> failed]
                BY <3>2 DEF Batches
            <4>2. batch' = [stage |-> stage, leases |-> leases + 1, members |-> members,
                            reads |-> reads, failed |-> failed]
                BY <3>1, <4>1
            <4>3. stage \in {"none", "open", "finished", "ended"} /\ leases \in Int
                  /\ failed \in BOOLEAN
                BY <3>2, <4>1 DEF Batches
            <4> QED BY <3>2, <4>2, <4>3 DEF Batches
        <3>4. /\ batch'.stage = batch.stage /\ batch'.failed = batch.failed
              /\ batch'.leases = batch.leases + 1 /\ batch'.members = members
              /\ batch'.reads = reads
            BY <3>1, <3>2 DEF Batches
        <3> QED BY <2>2, <3>1, <3>3, <3>4 DEF reads, members
    <2> QED BY <2>1, <2>2
<1>5. resident'.use = resident.use + Count(k) /\ resident'.bound = resident.bound
      /\ resident'.disposed = resident.disposed /\ resident' \in Reservations
    BY <1>1 DEF IInv, Types, Reservations, Count
<1>6. Types'
    BY <1>1, <1>2, <1>3, <1>4, <1>5 DEF IInv, Types
<1>7. /\ Working(c)' /\ ~Working(c) /\ Unsettled(c)' /\ ~Unsettled(c) /\ ~Begun(c)' /\ ~Running(c)'
      /\ ~Running(c)
    BY <1>1, <1>2 DEF Working, Unsettled, Begun, Running
<1>8. \A d \in Calls \ {c} : /\ (Working(d)' <=> Working(d)) /\ (Unsettled(d)' <=> Unsettled(d))
                             /\ (Begun(d)' <=> Begun(d)) /\ (Running(d)' <=> Running(d))
    BY <1>2 DEF Working, Unsettled, Begun, Running
<1>9. c \notin ToSet(chain) /\ c \notin batch.members /\ batch.members \subseteq Calls
    BY <1>7 DEF IInv, Queue, Line, Place, Batched, Types, Batches
<1>10. ASSUME NEW d \in Calls PROVE Place(d)'
    <2>1. CASE d = c
        <3>1. ~Before(chain', c, c)
            BY <1>3, <1>9, BothOn
        <3> QED BY <1>2, <1>3, <1>7, <2>1, <3>1 DEF Place
    <2>2. CASE d # c
        <3>1. Place(d)
            BY DEF IInv, Queue, Line
        <3>2. ~Before(chain', d, d)
            BY <1>3, <2>2, <3>1 DEF Place
        <3> QED BY <1>2, <1>3, <1>8, <2>2, <3>1, <3>2 DEF Place
    <2> QED BY <2>1, <2>2
<1>11. Line'
    <2>1. c # "dispose"
        BY StorageAssumption
    <2> QED BY <1>1, <1>3, <1>10, <2>1 DEF IInv, Queue, Line
<1>12. Batched'
    <2>1. CASE kind = "run"
        <3>1. Leasing' = Leasing
            BY <1>4, <1>8, <1>9, <2>1 DEF Leasing
        <3>2. ASSUME NEW d \in Calls
              PROVE  /\ d \in batch'.members <=> Unsettled(d)' /\ call'[d].kind # "run"
                     /\ call'[d].stage = "joined" => d \in batch'.members
            BY <1>2, <1>4, <1>8, <1>9, <2>1 DEF IInv, Queue, Batched
        <3> QED BY <1>4, <2>1, <3>1, <3>2 DEF IInv, Queue, Batched
    <2>2. CASE kind # "run"
        <3>1. Leasing' = Leasing \cup {c} /\ c \notin Leasing
            BY <1>4, <1>7, <1>8, <1>9, <2>2 DEF Leasing
        <3>2. IsFiniteSet(Leasing) /\ IsFiniteSet(batch'.members)
            <4>1. Leasing \subseteq batch.members
                BY DEF Leasing
            <4> QED BY <1>4, <2>2, <4>1, FS_Subset, FS_AddElement DEF IInv, Queue, Batched
        <3>3. batch'.leases = Cardinality(Leasing')
            <4>1. Cardinality(Leasing \cup {c}) = Cardinality(Leasing) + 1
                BY <3>1, <3>2, FS_AddElement
            <4> QED BY <1>4, <2>2, <3>1, <4>1 DEF IInv, Queue, Batched
        <3>4. ASSUME NEW d \in Calls
              PROVE  /\ d \in batch'.members <=> Unsettled(d)' /\ call'[d].kind # "run"
                     /\ call'[d].stage = "joined" => d \in batch'.members
            BY <1>2, <1>4, <1>7, <1>8, <1>9, <2>2 DEF IInv, Queue, Batched
        <3> QED BY <1>4, <2>2, <3>2, <3>3, <3>4 DEF Batched
    <2> QED BY <2>1, <2>2
<1>13. ASSUME kind # "run"
       PROVE  /\ \A d \in batch.members : call[d].kind # "read"
              /\ \A d \in Calls : call[d].kind = "read" => d \notin ToSet(chain)
    <2>1. \A d \in batch.members : call[d].kind # "read"
        BY <1>4, <1>13 DEF IInv, Queue, Reads
    <2> QED BY <2>1 DEF IInv, Queue, Line, Place, Batched, Unsettled
<1>14. Reads'
    <2>1. \A d \in Calls \ {c} : call'[d] = call[d]
        BY <1>2
    <2>2. batch'.reads => ~disposal' /\ batch'.stage # "none"
        BY <1>1, <1>4 DEF IInv, Queue, Reads
    <2>3. \A d \in batch'.members : call'[d].kind = "read" => batch'.reads
        BY <1>2, <1>4, <1>9, <1>13 DEF IInv, Queue, Reads
    <2>4. ASSUME NEW d \in Calls, call'[d].kind = "read", NEW e \in ToSet(chain'),
                 Before(chain', d, e)
          PROVE  e \in Calls /\ call'[e].kind = "run"
        <3>1. d \in ToSet(chain)
            BY <1>3, <2>4, BothOn
        <3>2. d # c /\ call[d].kind = "read"
            BY <1>2, <1>9, <2>4, <3>1
        <3>3. kind = "run"
            BY <1>13, <3>1, <3>2
        <3>4. CASE Before(chain, d, e)
            <4>1. e \in ToSet(chain)
                BY <3>4, BothOn
            <4>2. e \in Calls /\ call[e].kind = "run" /\ e # c
                BY <1>9, <3>2, <3>4, <4>1 DEF IInv, Queue, Reads
            <4> QED BY <1>2, <4>2
        <3>5. CASE e = c
            BY <1>2, <3>3, <3>5
        <3> QED BY <1>3, <2>4, <3>4, <3>5
    <2>5. ASSUME Open', NEW d \in batch'.members, call'[d].stage = "joined",
                 call'[d].kind = "read", NEW e \in ToSet(chain')
          PROVE  e \in Calls /\ call'[e].kind = "run"
        <3>1. d # c
            BY <1>2, <2>5
        <3>2. d \in batch.members
            BY <1>4, <2>5, <3>1
        <3>3. call[d].stage = "joined" /\ call[d].kind = "read" /\ Open
            BY <1>2, <1>4, <1>9, <2>5, <3>1, <3>2 DEF Open
        <3>4. kind = "run"
            BY <1>13, <3>2, <3>3
        <3>5. CASE e = c
            BY <1>2, <3>4, <3>5
        <3>6. CASE e \in ToSet(chain)
            <4>1. e \in Calls /\ call[e].kind = "run" /\ e # c
                BY <1>9, <3>2, <3>3, <3>6 DEF IInv, Queue, Reads
            <4> QED BY <1>2, <4>1
        <3> QED BY <1>3, <2>5, <3>5, <3>6
    <2> QED BY <2>2, <2>3, <2>4, <2>5 DEF Reads
<1>15. Uses' /\ (k \notin Resident => Users' = Users)
    <2>1. CASE k \in Resident
        <3>1. Users' = Users \cup {c} /\ c \notin Users
            BY <1>2, <1>7, <1>8, <2>1 DEF Users
        <3>2. IsFiniteSet(Users \cup {c}) /\ Cardinality(Users \cup {c}) = Cardinality(Users) + 1
            BY <3>1, FS_AddElement DEF IInv, Queue, Uses
        <3> QED BY <1>5, <2>1, <3>1, <3>2 DEF IInv, Queue, Uses, Count
    <2>2. CASE k \notin Resident
        <3>1. Users' = Users
            BY <1>2, <1>7, <1>8, <2>2 DEF Users
        <3>2. resident'.use = resident.use
            BY <1>5, <2>2 DEF Count, IInv, Types, Reservations
        <3> QED BY <3>1, <3>2 DEF IInv, Queue, Uses
    <2> QED BY <2>1, <2>2
<1>16. Sections'
    BY <1>1, <1>2, <1>4, <1>7, <1>8 DEF IInv, Sections, Open
<1>17. Counts'
    <2>1. holder # c
        BY <1>7 DEF IInv, Sections
    <2> QED BY <1>1, <1>2, <1>5, <2>1 DEF IInv, Counts
<1>18. Refused'
    BY <1>1, <1>5, <1>15 DEF IInv, Refused
<1>19. Holding'
    BY <1>1, <1>2, <1>4 DEF IInv, Holding, Open
<1>20. Blame'
    BY <1>1, <1>4 DEF IInv, Blame, Open
<1>21. Cleaning' /\ BudgetKept'
    BY <1>1, <1>3 DEF IInv, Cleaning, BudgetKept
<1> QED BY <1>6, <1>11, <1>12, <1>14, <1>15, <1>16, <1>17, <1>18, <1>19, <1>20, <1>21
        DEF IInv, Queue

\* What a cache has for a key.
LEMMA CachedIs ==
    ASSUME NEW b \in Seq(Objects), NEW k
    PROVE  /\ Cached(b, k) \in Objects \cup {None}
           /\ Cached(b, k) # None => Cached(b, k).key = k /\ Cached(b, k) \in ToSet(b)
           /\ Of(b, k) # {} => Cached(b, k) \in Objects /\ Cached(b, k).key = k
<1>1. Of(b, k) # {} => Cached(b, k) \in Of(b, k)
    BY DEF Cached
<1>2. Of(b, k) = {} => Cached(b, k) = None
    BY DEF Cached
<1>3. \A o \in Of(b, k) : o \in Objects /\ o.key = k /\ o \in ToSet(b)
    BY CacheFinite DEF Of
<1> QED BY <1>1, <1>2, <1>3

\* An execution after a change of some of its fields.
Edited(x, e, stage, plan, holds) ==
    \/ e = [x EXCEPT !.stage = stage] /\ plan = x.plan /\ holds = x.holds
    \/ e = [x EXCEPT !.stage = stage, !.plan = plan] /\ holds = x.holds
    \/ e = [x EXCEPT !.stage = stage, !.holds = holds] /\ plan = x.plan
    \/ e = [x EXCEPT !.holds = holds] /\ stage = x.stage /\ plan = x.plan

\* The others of its fields stay.
LEMMA EditedIs ==
    ASSUME NEW x \in Executions, NEW e, NEW stage, NEW plan, NEW holds,
           Edited(x, e, stage, plan, holds)
    PROVE  e = [stage |-> stage, kind |-> x.kind, key |-> x.key, plan |-> plan, holds |-> holds]
<1>1. PICK s, kind, key, p, h :
          x = [stage |-> s, kind |-> kind, key |-> key, plan |-> p, holds |-> h]
    BY DEF Executions
<1>2. CASE e = [x EXCEPT !.stage = stage] /\ plan = x.plan /\ holds = x.holds
    <2>1. e = [x EXCEPT !.stage = stage]
        BY <1>2
    <2> QED BY <1>1, <1>2, <2>1
<1>3. CASE e = [x EXCEPT !.stage = stage, !.plan = plan] /\ holds = x.holds
    <2>1. e = [x EXCEPT !.stage = stage, !.plan = plan]
        BY <1>3
    <2> QED BY <1>1, <1>3, <2>1
<1>4. CASE e = [x EXCEPT !.stage = stage, !.holds = holds] /\ plan = x.plan
    <2>1. e = [x EXCEPT !.stage = stage, !.holds = holds]
        BY <1>4
    <2> QED BY <1>1, <1>4, <2>1
<1>5. CASE e = [x EXCEPT !.holds = holds] /\ stage = x.stage /\ plan = x.plan
    <2>1. e = [x EXCEPT !.holds = holds]
        BY <1>5
    <2> QED BY <1>1, <1>5, <2>1
<1> QED BY <1>2, <1>3, <1>4, <1>5 DEF Edited

\* The executions after one has changed.
LEMMA Changed ==
    ASSUME Types, NEW c \in Calls, NEW stage \in Stages, NEW plan \in Objects \cup {None},
           NEW holds \in Objects \cup {None}, NEW e,
           Edited(call[c], e, stage, plan, holds), call' = [call EXCEPT ![c] = e]
    PROVE  /\ call' \in [Calls -> Executions]
           /\ call'[c].stage = stage /\ call'[c].plan = plan /\ call'[c].holds = holds
           /\ call'[c].kind = call[c].kind /\ call'[c].key = call[c].key
           /\ \A d \in Calls \ {c} : call'[d] = call[d]
<1>1. call[c] \in Executions
    BY DEF Types
<1>2. e = [stage |-> stage, kind |-> call[c].kind, key |-> call[c].key, plan |-> plan,
           holds |-> holds]
    BY <1>1, EditedIs
<1>3. e \in Executions
    <2>1. call[c].kind \in {"run", "enqueue", "read"} /\ call[c].key \in Keys \cup {Nobody}
        BY <1>1 DEF Executions
    <2> QED BY <1>2, <2>1 DEF Executions
<1>4. call' \in [Calls -> Executions] /\ call'[c] = e /\ \A d \in Calls \ {c} : call'[d] = call[d]
    BY <1>3 DEF Types
<1> QED BY <1>2, <1>4

\* The plan is looked up.
LEMMA StartIInv ==
    ASSUME IInv, NEW c \in Calls, Start(c) PROVE IInv'
<1> DEFINE k == call[c].key
           plan == Cached(store.prepared, k)
<1>1. /\ chain # <<>> /\ Head(chain) = c /\ call[c].stage = "queued" /\ call[c].kind = "run"
      /\ store' = Take(store, k)
      /\ UNCHANGED <<resident, chain, disposal, holder, broken, batch>>
    BY DEF Start
<1>2. store \in Stores /\ store.prepared \in Seq(Objects) /\ call[c].holds \in Objects \cup {None}
    BY DEF IInv, Types, Stores, Executions
<1>3. plan \in Objects \cup {None} /\ (plan # None => plan.key = k)
    BY <1>2, CachedIs
<1> DEFINE e == [call[c] EXCEPT !.stage = "waiting", !.plan = plan]
<1>4. call' = [call EXCEPT ![c] = e] /\ Edited(call[c], e, "waiting", plan, call[c].holds)
    BY DEF Start, IInv, Types, Edited
<1> HIDE DEF e
<1> HIDE DEF plan
<1>5. /\ call' \in [Calls -> Executions]
      /\ call'[c].stage = "waiting" /\ call'[c].plan = plan /\ call'[c].holds = call[c].holds
      /\ call'[c].kind = call[c].kind /\ call'[c].key = call[c].key
      /\ \A d \in Calls \ {c} : call'[d] = call[d]
    BY <1>2, <1>3, <1>4, Changed DEF IInv, Stages
<1>6. Working(c) /\ Working(c)' /\ ~Running(c) /\ ~Running(c)'
    BY <1>1, <1>5 DEF Working, Running
<1>7. Queue'
    BY <1>1, <1>3, <1>5, <1>6, MoveKeeps DEF IInv
<1>8. Users' = Users
    <2>1. \A d \in Calls : Working(d)' <=> Working(d)
        BY <1>5, <1>6 DEF Working
    <2> QED BY <1>5, <2>1 DEF Users
<1>9. /\ Works(store, store', c, k) /\ ToSet(store'.prepared) = ToSet(store.prepared)
      /\ store'.backings = store.backings /\ store'.params = store.params
      /\ store'.retired = store.retired
    <2>1. /\ Works(store, Take(store, k), c, k)
          /\ ToSet(Take(store, k).prepared) = ToSet(store.prepared)
          /\ Take(store, k).backings = store.backings /\ Take(store, k).params = store.params
        BY <1>2, TakeWorks
    <2>2. Take(store, k).retired = store.retired
        BY <1>2 DEF Take, Stores
    <2> QED BY <1>1, <2>1, <2>2
<1>10. /\ store' \in Stores /\ store'.baked = Bakes(ToSet(store'.backings))
       /\ Refused' /\ BudgetKept'
    BY <1>1, <1>6, <1>8, <1>9, StoreKeeps
<1>11. Types'
    BY <1>1, <1>5, <1>10 DEF IInv, Types
<1>12. holder # c /\ call[c].holds = None
    BY <1>1, <1>6 DEF IInv, Sections, Holding
<1>13. Sections'
    <2>1. \A d \in Calls \ {c} : Running(d)' <=> Running(d)
        BY <1>5 DEF Running
    <2> QED BY <1>1, <1>5, <1>6, <2>1 DEF IInv, Sections, Open
<1>14. Counts'
    BY <1>1, <1>5, <1>10, <1>12 DEF IInv, Counts
<1>15. Holding'
    BY <1>1, <1>5, <1>9, <1>12 DEF IInv, Holding, Open
<1>16. Blame'
    <2>1. Invalid(store') = Invalid(store)
        BY <1>9 DEF Invalid
    <2> QED BY <1>1, <2>1 DEF IInv, Blame, Open
<1>17. Cleaning'
    BY <1>1, <1>9 DEF IInv, Cleaning
<1> QED BY <1>7, <1>10, <1>11, <1>13, <1>14, <1>15, <1>16, <1>17 DEF IInv

\* A run takes the lock, or goes on under it.
LEMMA RunGoesOn ==
    ASSUME IInv, NEW c \in Calls, call[c].kind = "run",
           call[c].stage \in {"waiting", "fencing", "deriving"},
           holder \in {Nobody, c}, holder' = c,
           NEW stage \in {"fencing", "deriving", "encoding"}, NEW holds \in Objects \cup {None},
           NEW e, Edited(call[c], e, stage, call[c].plan, holds), call' = [call EXCEPT ![c] = e],
           stage = "fencing" => call[c].plan # None,
           UNCHANGED <<chain, disposal, batch>>,
           resident' \in Reservations, resident'.use = resident.use,
           resident'.disposed = resident.disposed,
           resident'.bound = IF call[c].plan = None THEN Count(call[c].key) ELSE 0,
           Works(store, store', c, call[c].key),
           holds # None => stage = "encoding" /\ holds \in ToSet(store'.backings),
           broken' \in BOOLEAN, stage # "encoding" => ~broken',
           \A o \in Invalid(store') : \/ o \in Invalid(store) /\ (holder = c /\ broken => broken')
                                      \/ o.by = c /\ broken'
    PROVE  IInv'
<1>1. Begun(c) /\ Working(c)
    BY DEF Begun, Working
<1>2. chain # <<>> /\ Head(chain) = c
    BY <1>1 DEF IInv, Queue, Line, Place
<1>3. ~Open /\ holder # "batch" /\ c # Nobody /\ c # "batch"
    <2>1. Nobody # "batch" /\ Nobody \notin Calls /\ "batch" \notin Calls
        BY StorageAssumption
    <2> QED BY <2>1 DEF IInv, Sections
<1>4. stage \in Stages /\ call[c].plan \in Objects \cup {None}
    BY DEF Stages, IInv, Types, Executions
<1>5. /\ call' \in [Calls -> Executions]
      /\ call'[c].stage = stage /\ call'[c].plan = call[c].plan /\ call'[c].holds = holds
      /\ call'[c].kind = "run" /\ call'[c].key = call[c].key
      /\ \A d \in Calls \ {c} : call'[d] = call[d]
    <2> DEFINE plan == call[c].plan
    <2>1. Types /\ plan \in Objects \cup {None} /\ Edited(call[c], e, stage, plan, holds)
        BY <1>4 DEF IInv
    <2>2. plan = call[c].plan
        OBVIOUS
    <2> HIDE DEF plan
    <2>3. /\ call' \in [Calls -> Executions]
          /\ call'[c].stage = stage /\ call'[c].plan = plan /\ call'[c].holds = holds
          /\ call'[c].kind = call[c].kind /\ call'[c].key = call[c].key
          /\ \A d \in Calls \ {c} : call'[d] = call[d]
        BY <1>4, <2>1, Changed
    <2> QED BY <2>2, <2>3
<1>6. Working(c)' /\ Running(c)'
    BY <1>5 DEF Working, Running
<1>7. Queue'
    <2>1. call'[c].plan # None => call'[c].plan.key = call[c].key
        BY <1>5 DEF IInv, Queue, Line, Place
    <2> QED BY <1>1, <1>2, <1>5, <1>6, <2>1, MoveKeeps DEF IInv
<1>8. Users' = Users
    <2>1. \A d \in Calls : Working(d)' <=> Working(d)
        BY <1>1, <1>5, <1>6 DEF Working
    <2> QED BY <1>5, <2>1 DEF Users
<1>9. /\ store' \in Stores /\ store'.baked = Bakes(ToSet(store'.backings))
      /\ Refused' /\ BudgetKept'
    <2> DEFINE s == store'
    <2>1. Works(store, s, c, call[c].key)
        OBVIOUS
    <2>2. store' \in {s, Destroyed(s)}
        OBVIOUS
    <2> HIDE DEF s
    <2> QED BY <1>1, <1>8, <2>1, <2>2, StoreKeeps
<1>10. Types'
    BY <1>5, <1>9 DEF IInv, Types
<1>11. \A d \in Calls \ {c} : ~Running(d) /\ ~Running(d)' /\ call[d].stage # "encoding"
    <2>1. \A d \in Calls \ {c} : ~Begun(d)
        BY <1>2 DEF IInv, Queue, Line, Place
    <2> QED BY <1>5, <2>1 DEF Running, Begun
<1>12. Sections'
    BY <1>3, <1>5, <1>6, <1>11 DEF Sections, Open
<1>13. Counts'
    BY <1>5, <1>9 DEF Counts
<1>14. Holding'
    BY <1>3, <1>5, <1>11 DEF IInv, Holding
<1>15. Blame'
    <2>1. SUFFICES ASSUME NEW o \in Invalid(store')
                   PROVE  \/ o.by = c /\ broken'
                          \/ o.by \in batch.members /\ ~Open /\ (batch.stage = "ended" => batch.failed)
        BY DEF Blame, Open
    <2>2. CASE o.by = c /\ broken'
        BY <2>2
    <2>3. CASE o \in Invalid(store) /\ (holder = c /\ broken => broken')
        <3>1. o.by \in Calls
            BY <2>3, Maker DEF IInv, Types
        <3>2. Nobody \notin Calls
            BY StorageAssumption
        <3> QED BY <1>3, <2>3, <3>1, <3>2 DEF IInv, Blame
    <2> QED BY <2>2, <2>3
<1>16. Cleaning'
    BY DEF Cleaning
<1> QED BY <1>7, <1>9, <1>10, <1>12, <1>13, <1>14, <1>15, <1>16 DEF IInv

\* An invalid object the activation of a backing adds is the backing.
LEMMA ActivateInvalid ==
    ASSUME NEW s \in Stores, NEW c \in Calls, NEW plan \in Objects, NEW good \in BOOLEAN,
           NEW o \in Invalid(Activate(s, c, plan, good))
    PROVE  o \in Invalid(s) \/ (o = Last(Activate(s, c, plan, good).backings) /\ o.by = c)
<1> DEFINE t == Activate(s, c, plan, good)
<1>1. /\ t.prepared = s.prepared /\ t.params = s.params
      /\ Of(s.backings, plan.key) # {} => ToSet(t.backings) = ToSet(s.backings)
      /\ Of(s.backings, plan.key) = {} =>
             /\ Last(t.backings) = Object(plan.key, c, good /\ plan.ok)
             /\ ToSet(t.backings) \subseteq ToSet(s.backings) \cup {Last(t.backings)}
    BY ActivateWorks
<1> HIDE DEF t
<1>2. o \in Invalid(t)
    BY DEF t
<1>3. o \in ToSet(t.backings) => o \in ToSet(s.backings) \/ (o = Last(t.backings) /\ o.by = c)
    BY <1>1 DEF Object
<1> QED BY <1>1, <1>2, <1>3 DEF Invalid, t

\* The encoding of a run with the backing of its plan.
LEMMA BackedIInv ==
    ASSUME IInv, NEW c \in Calls, call[c].kind = "run", call[c].stage \in {"waiting", "fencing"},
           holder \in {Nobody, c}, holder' = c, call[c].plan # None,
           NEW good \in BOOLEAN, NEW bad \in BOOLEAN, holder = c => bad = broken,
           Backed(c, Activate(store, c, call[c].plan, good), bad),
           UNCHANGED <<resident, chain, disposal, batch>>
    PROVE  IInv'
<1> DEFINE plan == call[c].plan
           holds == Last(store'.backings)
           e == [call[c] EXCEPT !.stage = "encoding", !.holds = holds]
<1>1. plan \in Objects /\ plan.key = call[c].key /\ store \in Stores
    BY DEF IInv, Types, Executions, Queue, Line, Place
<1>2. /\ store' = Activate(store, c, plan, good)
      /\ broken' = (bad \/ ~holds.ok)
      /\ call' = [call EXCEPT ![c] = e]
    BY DEF Backed, IInv, Types
<1>3. /\ Works(store, store', c, call[c].key) /\ holds \in ToSet(store'.backings)
    <2> HIDE DEF plan, holds, e
    <2> QED BY <1>1, <1>2, ActivateWorks DEF holds
<1>4. holds \in Objects
    BY <1>3, CacheFinite DEF Works, Stores
<1>5. Edited(call[c], e, "encoding", plan, holds)
    BY DEF Edited
<1>6. \A o \in Invalid(store') : \/ o \in Invalid(store) /\ (holder = c /\ broken => broken')
                                 \/ o.by = c /\ broken'
    <2>1. SUFFICES ASSUME NEW o \in Invalid(store') PROVE o \in Invalid(store) \/ (o.by = c /\ broken')
        BY <1>2
    <2>2. o \in Invalid(store) \/ (o = holds /\ o.by = c)
        <3> HIDE DEF plan, e
        <3> QED BY <1>1, <1>2, ActivateInvalid
    <2>3. ~o.ok
        BY DEF Invalid
    <2> QED BY <1>2, <2>2, <2>3
<1>7. resident.bound = IF call[c].plan = None THEN Count(call[c].key) ELSE 0
    <2>1. Nobody \notin Calls
        BY StorageAssumption
    <2> QED BY <2>1 DEF IInv, Counts
<1>8. resident \in Reservations /\ broken' \in BOOLEAN
    BY <1>2, <1>4 DEF IInv, Types, Objects
<1> HIDE DEF e, holds
<1>9. /\ resident' \in Reservations /\ resident'.use = resident.use
      /\ resident'.disposed = resident.disposed
      /\ resident'.bound = IF call[c].plan = None THEN Count(call[c].key) ELSE 0
    BY <1>7, <1>8
<1> QED BY <1>2, <1>3, <1>4, <1>5, <1>6, <1>8, <1>9, RunGoesOn

\* The derived plan shows that a derivation made an invalid object.
LEMMA DeriveInvalid ==
    ASSUME NEW s \in Stores, NEW c \in Calls, NEW good \in BOOLEAN, call[c].key \in Keys,
           NEW o \in Invalid(Derive(s, c, good))
    PROVE  o \in Invalid(s) \/ (o.by = c /\ ~Last(Derive(s, c, good).prepared).ok)
<1> DEFINE t == Derive(s, c, good)
           plan == Last(t.prepared)
<1>1. /\ Works(s, t, c, call[c].key)
      /\ ToSet(t.backings) \subseteq ToSet(s.backings)
      /\ ToSet(t.prepared) \subseteq ToSet(s.prepared) \cup {plan}
      /\ plan = Object(call[c].key, c, \A p \in Params : t.params[p].ok)
    BY DeriveWorks
<1> HIDE DEF t
<1>2. o \in Invalid(t)
    BY DEF t
<1>3. o # None /\ ~o.ok
    BY <1>2 DEF Invalid, None, Object
<1>4. CASE o \in ToSet(t.prepared)
    BY <1>1, <1>3, <1>4 DEF Invalid, Object, t
<1>5. CASE o \in ToSet(t.backings)
    BY <1>1, <1>3, <1>5 DEF Invalid
<1>6. CASE o \in Range(t.params)
    <2>1. PICK p \in Params : o = t.params[p]
        BY <1>1, <1>6 DEF Works, Stores, Range
    <2>2. s.params[p] \in Range(s.params)
        BY DEF Stores, Range
    <2>3. o = s.params[p] \/ o.by = c
        BY <1>1, <1>3, <2>1 DEF Works
    <2>4. ~plan.ok
        BY <1>1, <1>3, <2>1 DEF Object
    <2> QED BY <1>3, <2>2, <2>3, <2>4 DEF Invalid, t
<1> QED BY <1>2, <1>4, <1>5, <1>6 DEF Invalid

\* The lock is taken.
LEMMA EnterIInv ==
    ASSUME IInv, NEW c \in Calls, Enter(c) PROVE IInv'
<1>1. /\ call[c].stage = "waiting" /\ holder = Nobody /\ holder' = c
      /\ UNCHANGED <<chain, disposal, batch>>
    BY DEF Enter
<1>2. call[c].kind = "run" /\ store \in Stores /\ call[c] \in Executions
    BY <1>1 DEF IInv, Queue, Line, Place, Types
<1>3. resident \in Reservations /\ resident.bound = 0 /\ c # Nobody
    <2>1. Nobody \notin Calls
        BY StorageAssumption
    <2> QED BY <1>1, <2>1 DEF IInv, Types, Counts
<1>4. Works(store, store, c, call[c].key)
    BY <1>2, WorksStay
<1>5. \A o \in Invalid(store) : holder = c /\ broken => broken'
    BY <1>1, <1>3
<1>6. CASE call[c].plan = None
    <2> DEFINE e == [call[c] EXCEPT !.stage = "deriving"]
    <2>1. /\ store' = store /\ broken' = FALSE
          /\ resident' = [resident EXCEPT !.bound = resident.bound + Count(call[c].key)]
          /\ call' = [call EXCEPT ![c] = e]
        BY <1>6 DEF Enter, IInv, Types, Reservations
    <2>2. Edited(call[c], e, "deriving", call[c].plan, call[c].holds)
        BY DEF Edited
    <2> HIDE DEF e
    <2>3. /\ resident' \in Reservations /\ resident'.use = resident.use
          /\ resident'.disposed = resident.disposed /\ resident'.bound = Count(call[c].key)
        BY <1>3, <2>1 DEF Reservations, Count
    <2>4. call[c].holds = None
        BY <1>1 DEF IInv, Holding
    <2>5. Works(store, store', c, call[c].key) /\ Invalid(store') = Invalid(store)
        BY <1>4, <2>1
    <2>6. resident'.bound = IF call[c].plan = None THEN Count(call[c].key) ELSE 0
        BY <1>6, <2>3
    <2>7. call[c].holds \in Objects \cup {None}
        BY <2>4
    <2>8. /\ call[c].stage \in {"waiting", "fencing", "deriving"} /\ holder \in {Nobody, c}
          /\ "deriving" \in {"fencing", "deriving", "encoding"} /\ broken' \in BOOLEAN
        BY <1>1, <2>1
    <2>9. \A o \in Invalid(store') : \/ o \in Invalid(store) /\ (holder = c /\ broken => broken')
                                     \/ o.by = c /\ broken'
        BY <1>5, <2>5
    <2> QED BY <1>1, <1>2, <2>1, <2>2, <2>3, <2>4, <2>5, <2>6, <2>7, <2>8, <2>9, RunGoesOn
<1>7. CASE call[c].plan # None /\ Of(store.backings, call[c].key) # {}
    <2>1. Backed(c, Activate(store, c, call[c].plan, TRUE), FALSE) /\ UNCHANGED resident
        BY <1>7 DEF Enter
    <2>2. call[c].stage \in {"waiting", "fencing"} /\ holder \in {Nobody, c} /\ holder # c
        BY <1>1, <1>3
    <2> QED BY <1>1, <1>2, <1>7, <2>1, <2>2, BackedIInv
<1>8. CASE call[c].plan # None /\ Of(store.backings, call[c].key) = {}
    <2> DEFINE e == [call[c] EXCEPT !.stage = "fencing"]
    <2>1. /\ store' = store /\ broken' = FALSE /\ resident' = resident
          /\ call' = [call EXCEPT ![c] = e]
        BY <1>8 DEF Enter, IInv, Types
    <2>2. Edited(call[c], e, "fencing", call[c].plan, call[c].holds)
        BY DEF Edited
    <2> HIDE DEF e
    <2>3. /\ resident' \in Reservations /\ resident'.use = resident.use
          /\ resident'.disposed = resident.disposed
          /\ resident'.bound = IF call[c].plan = None THEN Count(call[c].key) ELSE 0
        BY <1>3, <1>8, <2>1
    <2>4. call[c].holds = None
        BY <1>1 DEF IInv, Holding
    <2>5. Works(store, store', c, call[c].key) /\ Invalid(store') = Invalid(store)
        BY <1>4, <2>1
    <2>6. call[c].holds \in Objects \cup {None}
        BY <2>4
    <2>7. /\ call[c].stage \in {"waiting", "fencing", "deriving"} /\ holder \in {Nobody, c}
          /\ "fencing" \in {"fencing", "deriving", "encoding"} /\ broken' \in BOOLEAN
        BY <1>1, <2>1
    <2>8. \A o \in Invalid(store') : \/ o \in Invalid(store) /\ (holder = c /\ broken => broken')
                                     \/ o.by = c /\ broken'
        BY <1>5, <2>5
    <2> QED BY <1>1, <1>2, <1>8, <2>1, <2>2, <2>3, <2>4, <2>5, <2>6, <2>7, <2>8, RunGoesOn
<1> QED BY <1>6, <1>7, <1>8

\* A run builds its backing after the device has released memory.
LEMMA BuildBackingIInv ==
    ASSUME IInv, NEW c \in Calls, BuildBacking(c) PROVE IInv'
<1>1. /\ call[c].stage = "fencing" /\ UNCHANGED <<resident, chain, disposal, holder, batch>>
    BY DEF BuildBacking
<1>2. PICK good \in BOOLEAN : Backed(c, Activate(store, c, call[c].plan, good), broken)
    BY DEF BuildBacking
<1>3. /\ call[c].kind = "run" /\ call[c].plan # None /\ holder = c
      /\ call[c].stage \in {"waiting", "fencing"}
    BY <1>1 DEF IInv, Queue, Line, Place, Sections, Running
<1>4. broken \in BOOLEAN /\ holder \in {Nobody, c} /\ holder' = c
    BY <1>1, <1>3 DEF IInv, Types
<1> QED BY <1>1, <1>2, <1>3, <1>4, BackedIInv

\* A run derives its plan.
LEMMA DerivePlanIInv ==
    ASSUME IInv, NEW c \in Calls, DerivePlan(c) PROVE IInv'
<1>1. /\ call[c].stage = "deriving" /\ call[c].kind = "run"
      /\ call' = [call EXCEPT ![c].stage = "encoding"]
      /\ UNCHANGED <<resident, chain, disposal, holder, batch>>
    BY DEF DerivePlan
<1>2. PICK good \in BOOLEAN : store' = Derive(store, c, good) /\ broken' = ~Last(store'.prepared).ok
    BY DEF DerivePlan
<1>3. /\ holder = c /\ ~broken /\ call[c].key \in Keys /\ store \in Stores
      /\ call[c].holds = None /\ resident \in Reservations
    BY <1>1 DEF IInv, Queue, Line, Place, Sections, Running, Unsettled, Working, Types, Holding
<1>4. Works(store, store', c, call[c].key)
    BY <1>2, <1>3, DeriveWorks
<1>5. \A o \in Invalid(store') : \/ o \in Invalid(store) /\ (holder = c /\ broken => broken')
                                 \/ o.by = c /\ broken'
    BY <1>2, <1>3, DeriveInvalid
<1> DEFINE e == [call[c] EXCEPT !.stage = "encoding"]
<1>6. call' = [call EXCEPT ![c] = e]
    BY <1>1 DEF IInv, Types
<1>7. Edited(call[c], e, "encoding", call[c].plan, call[c].holds)
    BY DEF Edited
<1> HIDE DEF e
<1>8. resident'.bound = IF call[c].plan = None THEN Count(call[c].key) ELSE 0
    BY <1>1, <1>3 DEF IInv, Counts
<1>9. /\ call[c].stage \in {"waiting", "fencing", "deriving"} /\ holder \in {Nobody, c}
      /\ holder' = c /\ "encoding" \in {"fencing", "deriving", "encoding"}
      /\ broken' \in BOOLEAN /\ call[c].holds \in Objects \cup {None}
      /\ resident' \in Reservations /\ resident'.use = resident.use
      /\ resident'.disposed = resident.disposed
    BY <1>1, <1>2, <1>3
<1> QED BY <1>1, <1>3, <1>4, <1>5, <1>6, <1>7, <1>8, <1>9, RunGoesOn

\* A run leaves: under the lock, with its failures rolled back and what is retired
\* destroyed, or before it has touched anything.
LEMMA LeaveIInv ==
    ASSUME IInv, NEW c \in Calls, chain # <<>>, Head(chain) = c, Working(c),
           call[c].kind = "run", Leave(c), broken' \in BOOLEAN,
           NEW s, Works(store, s, c, call[c].key),
           \/ holder = c /\ store' = Destroyed(s) /\ Invalid(s) = {}
           \/ holder # c /\ store' = store /\ s = store /\ broken' = broken
    PROVE  IInv'
<1>1. /\ call' = [call EXCEPT ![c] = [Unissued EXCEPT !.stage = "done"]]
      /\ chain' = Tail(chain) /\ UNCHANGED <<disposal, batch>>
      /\ holder' = IF holder = c THEN Nobody ELSE holder
    BY DEF Leave
<1>2. /\ call'[c].stage = "done" /\ call'[c].holds = None /\ call'[c].kind = "run"
      /\ \A d \in Calls \ {c} : call'[d] = call[d]
      /\ call' \in [Calls -> Executions]
    <2> DEFINE e == [Unissued EXCEPT !.stage = "done"]
    <2>1. /\ e.stage = "done" /\ e.holds = None /\ e.kind = "run"
          /\ e = [stage |-> "done", kind |-> "run", key |-> Nobody, plan |-> None, holds |-> None]
        BY DEF Unissued
    <2>2. e \in Executions
        BY <2>1 DEF Executions, Stages
    <2> HIDE DEF e
    <2>3. call' = [call EXCEPT ![c] = e]
        BY <1>1 DEF e
    <2> QED BY <2>1, <2>2, <2>3 DEF IInv, Types
<1>3. /\ ToSet(chain) = {c} \cup ToSet(chain') /\ chain' \in Seq(Calls \cup {"dispose", "destroy"})
    BY <1>1, Popped DEF IInv, Types
<1>4. Queue' /\ Users' \subseteq Users
    BY LeaveKeeps DEF IInv
<1>5. /\ resident' \in Reservations /\ resident'.disposed = resident.disposed
      /\ resident'.bound = IF holder = c /\ call[c].plan = None
                           THEN resident.bound - Count(call[c].key) ELSE resident.bound
    <2> DEFINE u == resident.use - Count(call[c].key)
               b == IF holder = c /\ call[c].plan = None
                    THEN resident.bound - Count(call[c].key) ELSE resident.bound
    <2>1. resident \in Reservations
        BY DEF IInv, Types
    <2>2. u \in Int /\ b \in Int
        BY <2>1 DEF Reservations, Count
    <2>3. resident' = [resident EXCEPT !.use = u, !.bound = b]
        BY <2>1 DEF Leave, Reservations
    <2> HIDE DEF u, b
    <2>4. /\ resident' \in Reservations /\ resident'.disposed = resident.disposed
          /\ resident'.bound = b
        BY <2>1, <2>2, <2>3 DEF Reservations
    <2> QED BY <2>4 DEF b
<1>6. /\ store' \in Stores /\ Invalid(store') = Invalid(s)
      /\ store'.baked = Bakes(ToSet(store'.backings)) /\ Refused' /\ BudgetKept'
    BY <1>4, <1>5, StoreKeeps
<1>7. Types'
    BY <1>1, <1>2, <1>3, <1>5, <1>6 DEF IInv, Types
<1>8. /\ ~Running(c)' /\ (holder = c => ~Open) /\ Nobody # "batch" /\ Nobody \notin Calls
      /\ c # "destroy" /\ (holder = c => \A d \in Calls \ {c} : ~Running(d))
      /\ \A d \in Calls \ {c} : Running(d)' <=> Running(d)
    BY <1>2, Standing DEF IInv, Sections, Running
<1>9. Sections'
    BY <1>1, <1>2, <1>8 DEF IInv, Sections, Open
<1>10. Counts'
    <2>1. CASE holder = c
        <3>1. resident.bound = IF call[c].plan = None THEN Count(call[c].key) ELSE 0
            BY <2>1 DEF IInv, Counts
        <3>2. resident'.bound = 0
            BY <1>5, <2>1, <3>1 DEF Count
        <3> QED BY <1>1, <1>6, <1>8, <2>1, <3>2 DEF Counts
    <2>2. CASE holder # c
        BY <1>1, <1>2, <1>5, <1>6, <2>2 DEF IInv, Counts
    <2> QED BY <2>1, <2>2
<1>11. Holding'
    <2>1. CASE holder = c
        <3>1. \A d \in Calls \ {c} : call[d].holds = None
            BY <2>1, NobodyElse DEF IInv
        <3> QED BY <1>2, <3>1 DEF Holding
    <2>2. CASE holder # c
        BY <1>1, <1>2, <2>2 DEF IInv, Holding, Open
    <2> QED BY <2>1, <2>2
<1>12. Blame'
    <2>1. CASE holder = c
        BY <1>6, <2>1 DEF Blame
    <2>2. CASE holder # c
        BY <1>1, <2>2 DEF IInv, Blame, Open
    <2> QED BY <2>1, <2>2
<1>13. Cleaning'
    <2>1. CASE holder = c
        <3>1. store'.retired = {}
            BY <2>1, DestroyedHolds DEF Works
        <3> QED BY <3>1 DEF Cleaning
    <2>2. CASE holder # c
        BY <1>1, <1>3, <1>8, <2>2 DEF IInv, Cleaning
    <2> QED BY <2>1, <2>2
<1> QED BY <1>4, <1>6, <1>7, <1>9, <1>10, <1>11, <1>12, <1>13 DEF IInv

\* A run under the lock that goes on after the batches have concluded has no other
\* additions to wait for.
LEMMA Alone ==
    ASSUME IInv, Concluded, NEW c \in Calls, holder = c
    PROVE  /\ chain # <<>> /\ Head(chain) = c /\ Working(c) /\ call[c].kind = "run"
           /\ call[c].key \in Keys
           /\ \A o \in Invalid(store) : o.by = c /\ broken
<1>1. /\ chain # <<>> /\ Head(chain) = c /\ Working(c) /\ Running(c) /\ ~Open
    BY Standing DEF IInv
<1>2. batch.stage = "none"
    BY <1>1 DEF Concluded, Open, IInv, Types, Batches
<1>3. batch.members = {}
    BY <1>2 DEF IInv, Queue, Batched
<1>4. call[c].key \in Keys
    BY <1>1 DEF IInv, Queue, Line, Place, Unsettled
<1> QED BY <1>1, <1>3, <1>4 DEF IInv, Blame, Running

\* A run succeeds.
LEMMA RunSucceedsIInv ==
    ASSUME IInv, NEW c \in Calls, RunSucceeds(c) PROVE IInv'
<1>1. /\ call[c].stage = "encoding" /\ call[c].kind = "run" /\ ~broken /\ Concluded
      /\ store' = Destroyed(store) /\ Leave(c) /\ broken' = broken
    BY DEF RunSucceeds
<1>2. holder = c
    BY <1>1 DEF IInv, Sections, Running
<1>3. chain # <<>> /\ Head(chain) = c /\ Working(c) /\ Invalid(store) = {}
    BY <1>1, <1>2, Alone
<1>4. Works(store, store, c, call[c].key)
    BY WorksStay DEF IInv, Types
<1>5. broken' \in BOOLEAN
    BY <1>1 DEF IInv, Types
<1> QED BY <1>1, <1>2, <1>3, <1>4, <1>5, LeaveIInv

\* A run fails.
LEMMA RunFailsIInv ==
    ASSUME IInv, NEW c \in Calls, RunFails(c) PROVE IInv'
<1>1. /\ holder = c /\ Concluded /\ Leave(c) /\ broken' = FALSE
    BY DEF RunFails
<1>2. PICK ps \in {{}, IF call[c].stage = "deriving" THEN Params ELSE {}},
           good \in BOOLEAN, scope \in BOOLEAN :
          LET s == Allocate(store, c, ps, good)
              bad == broken \/ \E p \in ps : ~s.params[p].ok
          IN  /\ bad => scope
              /\ store' = Destroyed(IF scope THEN Forget(RetireBuilt(s, {c}), {c})
                                    ELSE RetireBuilt(s, {c}))
    BY DEF RunFails
<1> DEFINE a == Allocate(store, c, ps, good)
           s == IF scope THEN Forget(RetireBuilt(a, {c}), {c}) ELSE RetireBuilt(a, {c})
           k == call[c].key
<1>3. /\ broken \/ (\E p \in ps : ~a.params[p].ok) => scope
      /\ store' = Destroyed(s)
    BY <1>2
<1>4. ps \in SUBSET Params /\ store \in Stores
    BY DEF IInv, Types
<1>5. /\ Works(store, a, c, k) /\ a.backings = store.backings /\ a.prepared = store.prepared
      /\ \A p \in Params : \/ a.params[p] = store.params[p]
                           \/ p \in ps /\ a.params[p] = Object(p, c, good)
    BY <1>4, AllocateWorks
<1>6. /\ chain # <<>> /\ Head(chain) = c /\ Working(c) /\ call[c].kind = "run"
      /\ \A o \in Invalid(store) : o.by = c /\ broken
    BY <1>1, Alone
<1> HIDE DEF a, k
<1>7. a \in Stores
    BY <1>5 DEF Works
<1>8. ASSUME NEW o \in Invalid(a) PROVE o.by = c /\ scope
    <2>1. o # None /\ ~o.ok
        BY DEF Invalid, None, Object
    <2>2. CASE o \in ToSet(a.prepared) \cup ToSet(a.backings)
        <3>1. o \in Invalid(store)
            BY <1>5, <2>1, <2>2 DEF Invalid
        <3> QED BY <1>3, <1>6, <3>1
    <2>3. CASE o \in Range(a.params)
        <3>1. PICK p \in Params : o = a.params[p]
            BY <1>7, <2>3 DEF Stores, Range
        <3>2. CASE a.params[p] = store.params[p]
            <4>1. o \in Invalid(store)
                BY <1>4, <2>1, <3>1, <3>2 DEF Invalid, Stores, Range
            <4> QED BY <1>3, <1>6, <4>1
        <3>3. CASE p \in ps /\ a.params[p] = Object(p, c, good)
            BY <1>3, <2>1, <3>1, <3>3 DEF Object
        <3> QED BY <1>5, <3>2, <3>3
    <2> QED BY <2>2, <2>3 DEF Invalid
<1>9. Works(a, s, c, k) /\ Invalid(s) = {}
    <2>1. CASE scope
        <3> DEFINE t == Forget(RetireBuilt(a, {c}), {c})
        <3>1. /\ Works(a, t, c, k)
              /\ \A o \in Invalid(t) : o \in Invalid(a) /\ o.by \notin {c}
            BY <1>7, RollsBack
        <3>2. s = t
            BY <2>1
        <3> HIDE DEF t, s
        <3> QED BY <1>8, <3>1, <3>2
    <2>2. CASE ~scope
        <3> DEFINE t == RetireBuilt(a, {c})
        <3>1. /\ Works(a, t, c, k) /\ t.prepared = a.prepared /\ t.params = a.params
              /\ \A o \in ToSet(t.backings) : o \in ToSet(a.backings)
            BY <1>7, RetireBuiltWorks
        <3>2. s = t
            BY <2>2
        <3> HIDE DEF t, s
        <3>3. Invalid(t) \subseteq Invalid(a)
            BY <3>1 DEF Invalid
        <3> QED BY <1>8, <2>2, <3>1, <3>2, <3>3
    <2> QED BY <2>1, <2>2
<1> HIDE DEF s
<1>10. Works(store, s, c, k)
    BY <1>5, <1>9, WorksOn
<1> QED BY <1>1, <1>3, <1>6, <1>9, <1>10, LeaveIInv DEF k

\* What an enqueue changes as it leaves.
LEMMA Joined ==
    ASSUME Types, NEW c \in Calls, NEW held \in Objects \cup {None}, Join(c, held)
    PROVE  /\ call' \in [Calls -> Executions]
           /\ call'[c].stage = "joined" /\ call'[c].holds = held
           /\ call'[c].kind = call[c].kind
           /\ \A d \in Calls \ {c} : call'[d] = call[d]
           /\ resident' \in Reservations /\ resident'.disposed = resident.disposed
           /\ resident'.bound = resident.bound
           /\ batch' \in Batches /\ batch'.stage = batch.stage
           /\ batch'.members = batch.members /\ batch'.failed = batch.failed
<1> DEFINE e == [call[c] EXCEPT !.stage = "joined", !.holds = held]
           plan == call[c].plan
<1>1. call' = [call EXCEPT ![c] = e] /\ Edited(call[c], e, "joined", plan, held)
    BY DEF Join, Types, Edited
<1>2. plan \in Objects \cup {None} /\ "joined" \in Stages
    BY DEF Types, Executions, Stages
<1> HIDE DEF e, plan
<1>3. /\ call' \in [Calls -> Executions]
      /\ call'[c].stage = "joined" /\ call'[c].plan = plan /\ call'[c].holds = held
      /\ call'[c].kind = call[c].kind /\ call'[c].key = call[c].key
      /\ \A d \in Calls \ {c} : call'[d] = call[d]
    BY <1>1, <1>2, Changed
<1>4. /\ resident' \in Reservations /\ resident'.disposed = resident.disposed
      /\ resident'.bound = resident.bound
    BY DEF Join, Types, Reservations, Count
<1>5. /\ batch' \in Batches /\ batch'.stage = batch.stage /\ batch'.members = batch.members
      /\ batch'.failed = batch.failed
    <2>1. PICK stage, leases, members, reads, failed :
              batch = [stage |-> stage, leases |-> leases, members |-> members,
                       reads |-> reads, failed |-> failed]
        BY DEF Types, Batches
    <2>2. batch' = [stage |-> stage, leases |-> leases - 1, members |-> members,
                    reads |-> reads, failed |-> failed]
        BY <2>1 DEF Join
    <2>3. /\ stage \in {"none", "open", "finished", "ended"} /\ leases \in Int
          /\ members \in SUBSET Calls /\ reads \in BOOLEAN /\ failed \in BOOLEAN
        BY <2>1 DEF Types, Batches
    <2> QED BY <2>1, <2>2, <2>3 DEF Batches
<1> QED BY <1>3, <1>4, <1>5

\* An enqueue leaves: what is retired is destroyed, or it has touched nothing.
LEMMA JoinIInv ==
    ASSUME IInv, NEW c \in Calls, chain # <<>>, Head(chain) = c, Working(c),
           call[c].kind # "run", NEW held \in Objects \cup {None}, Join(c, held),
           broken' \in BOOLEAN, broken => broken',
           NEW s, Works(store, s, c, call[c].key),
           store' = Destroyed(s) \/ (store' = store /\ s = store),
           held # None => held \in ToSet(s.backings) /\ call[c].kind = "read",
           \A o \in Invalid(s) : o \in Invalid(store) \/ (o.by = c /\ broken')
    PROVE  IInv'
<1>1. chain' = Tail(chain) /\ UNCHANGED <<disposal, holder>>
    BY DEF Join
<1>2. /\ call' \in [Calls -> Executions] /\ call'[c].stage = "joined" /\ call'[c].holds = held
      /\ call'[c].kind = call[c].kind
      /\ \A d \in Calls \ {c} : call'[d] = call[d]
    BY Joined DEF IInv
<1>3. /\ resident' \in Reservations /\ resident'.disposed = resident.disposed
      /\ resident'.bound = resident.bound
    BY Joined DEF IInv
<1>4. /\ batch' \in Batches /\ batch'.stage = batch.stage /\ batch'.members = batch.members
      /\ batch'.failed = batch.failed
    BY Joined DEF IInv
<1>5. /\ ToSet(chain) = {c} \cup ToSet(chain') /\ chain' \in Seq(Calls \cup {"dispose", "destroy"})
    BY <1>1, Popped DEF IInv, Types
<1>6. Queue' /\ Users' \subseteq Users
    BY JoinKeeps DEF IInv
<1>7. /\ c \in batch.members /\ Open /\ holder = "batch" /\ holder \notin Calls
      /\ c # "destroy"
    BY Standing DEF IInv
<1>8. /\ store' \in Stores /\ Invalid(store') = Invalid(s) /\ store'.backings = s.backings
      /\ store'.baked = Bakes(ToSet(store'.backings)) /\ Refused' /\ BudgetKept'
    <2>1. store' \in {s, Destroyed(s)}
        OBVIOUS
    <2> QED BY <1>6, <1>3, <2>1, StoreKeeps
<1>9. Types'
    BY <1>1, <1>2, <1>5, <1>3, <1>4, <1>8 DEF IInv, Types
<1>10. /\ ~Running(c)' /\ \A d \in Calls : ~Running(d)
       /\ \A d \in Calls \ {c} : Running(d)' <=> Running(d)
    BY <1>2, <1>7 DEF IInv, Sections, Running
<1>11. Sections'
    BY <1>1, <1>7, <1>4, <1>10 DEF IInv, Sections, Open
<1>12. Counts'
    BY <1>1, <1>7, <1>3, <1>8 DEF IInv, Counts
<1>13. Holding'
    <2>1. ASSUME NEW d \in Calls, call'[d].holds # None, d # c
          PROVE  /\ call'[d].holds \in ToSet(store'.backings) \cup store'.retired
                 /\ \/ call'[d].stage = "encoding"
                    \/ call'[d].stage = "joined" /\ call'[d].kind = "read" /\ Open'
        <3>1. call'[d] = call[d]
            BY <1>2, <2>1
        <3>2. store' = store
            BY <2>1, <3>1, NobodyElse DEF IInv
        <3> QED BY <1>4, <2>1, <3>1, <3>2 DEF IInv, Holding, Open
    <2> QED BY <1>2, <1>7, <1>4, <1>8, <2>1 DEF Holding, Open
<1>14. Blame'
    <2>1. SUFFICES ASSUME NEW o \in Invalid(store')
                   PROVE  /\ o.by \in batch'.members /\ (Open' => broken')
                          /\ (batch'.stage = "ended" => batch'.failed)
        BY DEF Blame
    <2>2. CASE o \in Invalid(store)
        <3>1. o.by \in Calls
            BY <2>2, Maker DEF IInv, Types
        <3>2. o.by # holder
            BY <1>7, <3>1
        <3> QED BY <1>7, <1>4, <2>2, <3>2 DEF IInv, Blame, Open
    <2>3. CASE o.by = c /\ broken'
        BY <1>7, <1>4, <2>3 DEF Open
    <2> QED BY <1>8, <2>2, <2>3
<1>15. Cleaning'
    <2>1. CASE store' = Destroyed(s)
        <3>1. store'.retired = {}
            BY <2>1, DestroyedHolds DEF Works
        <3> QED BY <3>1 DEF Cleaning
    <2>2. CASE store' = store
        BY <1>1, <1>5, <1>7, <2>2 DEF IInv, Cleaning
    <2> QED BY <2>1, <2>2
<1> QED BY <1>6, <1>8, <1>9, <1>11, <1>12, <1>13, <1>14, <1>15 DEF IInv

\* An execution leaves before its body has touched a cache.
LEMMA RefuseIInv ==
    ASSUME IInv, NEW c \in Calls, Refuse(c) PROVE IInv'
<1>1. /\ chain # <<>> /\ Head(chain) = c /\ call[c].stage = "queued"
      /\ store' = store /\ broken' = broken
    BY DEF Refuse
<1>2. Working(c) /\ ~Running(c) /\ broken' \in BOOLEAN /\ Works(store, store, c, call[c].key)
    BY <1>1, WorksStay DEF Working, Running, IInv, Types
<1>3. holder # c
    BY <1>2 DEF IInv, Sections
<1>4. CASE call[c].kind = "run"
    <2>1. Leave(c)
        BY <1>4 DEF Refuse
    <2> QED BY <1>1, <1>2, <1>3, <1>4, <2>1, LeaveIInv
<1>5. CASE call[c].kind # "run"
    <2>1. Join(c, None)
        BY <1>5 DEF Refuse
    <2>2. \A o \in Invalid(store) : o \in Invalid(store) \/ (o.by = c /\ broken')
        OBVIOUS
    <2> QED BY <1>1, <1>2, <1>5, <2>1, <2>2, JoinIInv
<1> QED BY <1>4, <1>5

\* The backing, the encoding and the submit of an enqueue, on caches it has worked on.
LEMMA SubmitIInv ==
    ASSUME IInv, NEW c \in Calls, chain # <<>>, Head(chain) = c, Working(c),
           call[c].kind # "run", NEW s, Works(store, s, c, call[c].key),
           NEW plan \in Objects, plan.key = call[c].key, Submit(c, s, plan),
           \A o \in Invalid(s) : o \in Invalid(store) \/ (o.by = c /\ ~plan.ok)
    PROVE  IInv'
<1>1. PICK good \in BOOLEAN :
          LET t == Activate(s, c, plan, good)
              b == Last(t.backings)
          IN  /\ store' = Destroyed(t)
              /\ broken' = (broken \/ ~b.ok \/ ~plan.ok)
              /\ Join(c, IF call[c].kind = "read" THEN b ELSE None)
    BY DEF Submit
<1> DEFINE t == Activate(s, c, plan, good)
           b == Last(t.backings)
           held == IF call[c].kind = "read" THEN b ELSE None
<1>2. store' = Destroyed(t) /\ broken' = (broken \/ ~b.ok \/ ~plan.ok) /\ Join(c, held)
    BY <1>1
<1>3. s \in Stores
    BY DEF Works
<1>4. Works(s, t, c, call[c].key) /\ b \in ToSet(t.backings)
    BY <1>3, ActivateWorks
<1>5. \A o \in Invalid(t) : o \in Invalid(s) \/ (o = b /\ o.by = c)
    BY <1>3, ActivateInvalid
<1> HIDE DEF t
<1>6. b \in Objects
    <2>1. t.backings \in Seq(Objects)
        BY <1>4 DEF Works, Stores
    <2> HIDE DEF b
    <2> QED BY <1>4, <2>1, CacheFinite
<1> HIDE DEF b
<1>7. Works(store, t, c, call[c].key)
    BY <1>4, WorksOn
<1>8. \A o \in Invalid(t) : o \in Invalid(store) \/ (o.by = c /\ broken')
    <2>1. \A o \in Invalid(t) : ~o.ok
        BY DEF Invalid
    <2> QED BY <1>2, <1>5, <2>1
<1>9. held \in Objects \cup {None} /\ broken' \in BOOLEAN /\ (broken => broken')
      /\ (held # None => held \in ToSet(t.backings) /\ call[c].kind = "read")
    BY <1>2, <1>4, <1>6
<1> HIDE DEF held
<1>10. store' = Destroyed(t) \/ (store' = store /\ t = store)
    BY <1>2
<1> QED BY <1>2, <1>7, <1>8, <1>9, <1>10, JoinIInv

\* An enqueue starts: a hit encodes, a miss derives.
LEMMA StartEnqueueIInv ==
    ASSUME IInv, NEW c \in Calls, StartEnqueue(c) PROVE IInv'
<1>1. chain # <<>> /\ Head(chain) = c /\ call[c].stage = "queued" /\ call[c].kind # "run"
    BY DEF StartEnqueue
<1>2. /\ Working(c) /\ store \in Stores /\ store.prepared \in Seq(Objects)
      /\ call[c].holds = None
    BY <1>1 DEF Working, IInv, Types, Stores, Holding
<1>3. CASE Of(store.prepared, call[c].key) # {}
    <2> DEFINE plan == Cached(store.prepared, call[c].key)
               s == Take(store, call[c].key)
    <2>1. Submit(c, s, plan)
        BY <1>3 DEF StartEnqueue
    <2>2. plan \in Objects /\ plan.key = call[c].key
        BY <1>2, <1>3, CachedIs
    <2>3. /\ Works(store, s, c, call[c].key) /\ ToSet(s.prepared) = ToSet(store.prepared)
          /\ s.backings = store.backings /\ s.params = store.params
        BY <1>2, TakeWorks
    <2> HIDE DEF plan, s
    <2>4. Invalid(s) = Invalid(store)
        BY <2>3 DEF Invalid
    <2> QED BY <1>1, <1>2, <2>1, <2>2, <2>3, <2>4, SubmitIInv
<1>4. CASE Of(store.prepared, call[c].key) = {}
    <2> DEFINE e == [call[c] EXCEPT !.stage = "deriving"]
               plan == call[c].plan
    <2>1. /\ call' = [call EXCEPT ![c] = e]
          /\ UNCHANGED <<store, resident, chain, disposal, holder, broken, batch>>
        BY <1>4 DEF StartEnqueue, IInv, Types
    <2>2. /\ Edited(call[c], e, "deriving", plan, call[c].holds)
          /\ plan \in Objects \cup {None} /\ "deriving" \in Stages
          /\ call[c].holds \in Objects \cup {None}
        BY DEF Edited, IInv, Types, Executions, Stages
    <2> HIDE DEF e, plan
    <2>3. /\ call' \in [Calls -> Executions]
          /\ call'[c].stage = "deriving" /\ call'[c].plan = plan /\ call'[c].holds = call[c].holds
          /\ call'[c].kind = call[c].kind /\ call'[c].key = call[c].key
          /\ \A d \in Calls \ {c} : call'[d] = call[d]
        BY <2>1, <2>2, Changed DEF IInv
    <2>4. Working(c)' /\ ~Running(c) /\ ~Running(c)'
        BY <1>1, <2>3 DEF Working, Running
    <2>5. Queue'
        <3>1. plan # None => plan.key = call[c].key
            BY DEF plan, IInv, Queue, Line, Place
        <3> QED BY <1>1, <1>2, <2>1, <2>3, <2>4, <3>1, MoveKeeps DEF IInv
    <2>6. Users' = Users
        <3>1. \A d \in Calls : Working(d)' <=> Working(d)
            BY <1>2, <2>3, <2>4 DEF Working
        <3> QED BY <2>3, <3>1 DEF Users
    <2>7. Types'
        BY <2>1, <2>3 DEF IInv, Types
    <2>8. \A d \in Calls : (Running(d)' <=> Running(d)) /\ (d # c => call'[d] = call[d])
        BY <2>3, <2>4 DEF Running
    <2>9. Sections'
        BY <2>1, <2>4, <2>8 DEF IInv, Sections, Open
    <2>10. Counts'
        <3>1. holder # c
            BY <2>4 DEF IInv, Sections
        <3> QED BY <2>1, <2>3, <3>1 DEF IInv, Counts
    <2>11. Refused' /\ Blame' /\ Cleaning' /\ BudgetKept'
        BY <2>1, <2>6 DEF IInv, Refused, Blame, Cleaning, BudgetKept, Open
    <2>12. Holding'
        BY <1>2, <2>1, <2>3 DEF IInv, Holding, Open
    <2> QED BY <2>5, <2>7, <2>9, <2>10, <2>11, <2>12 DEF IInv
<1> QED BY <1>3, <1>4

\* An execution that derives is at the head of the chain.
LEMMA Deriving ==
    ASSUME IInv, NEW c \in Calls, call[c].stage = "deriving"
    PROVE  /\ chain # <<>> /\ Head(chain) = c /\ Working(c) /\ call[c].key \in Keys
           /\ store \in Stores
BY DEF IInv, Queue, Line, Place, Begun, Working, Unsettled, Types

\* An enqueue derives and encodes.
LEMMA DeriveEnqueueIInv ==
    ASSUME IInv, NEW c \in Calls, DeriveEnqueue(c) PROVE IInv'
<1>1. call[c].stage = "deriving" /\ call[c].kind # "run"
    BY DEF DeriveEnqueue
<1>2. PICK good \in BOOLEAN :
          LET s == Derive(store, c, good) IN Submit(c, s, Last(s.prepared))
    BY DEF DeriveEnqueue
<1>3. /\ chain # <<>> /\ Head(chain) = c /\ Working(c) /\ call[c].key \in Keys
      /\ store \in Stores
    BY <1>1, Deriving
<1> DEFINE s == Derive(store, c, good)
           plan == Last(s.prepared)
<1>4. Submit(c, s, plan)
    BY <1>2
<1>5. /\ Works(store, s, c, call[c].key)
      /\ plan = Object(call[c].key, c, \A p \in Params : s.params[p].ok)
    BY <1>3, DeriveWorks
<1>6. \A o \in Invalid(s) : o \in Invalid(store) \/ (o.by = c /\ ~plan.ok)
    BY <1>3, DeriveInvalid
<1> HIDE DEF s
<1>7. plan \in Objects /\ plan.key = call[c].key
    BY <1>3, <1>5 DEF Object, Objects
<1>8. Works(store, s, c, call[c].key)
    BY <1>5
<1> HIDE DEF plan
<1> QED BY <1>1, <1>3, <1>4, <1>6, <1>7, <1>8, SubmitIInv

\* An enqueue fails on the host.
LEMMA EnqueueFailsIInv ==
    ASSUME IInv, NEW c \in Calls, EnqueueFails(c) PROVE IInv'
<1> DEFINE hit == call[c].stage = "queued"
           k == call[c].key
<1>1. /\ call[c].kind # "run" /\ Join(c, None)
      /\ \/ chain # <<>> /\ Head(chain) = c /\ hit /\ Of(store.prepared, k) # {}
         \/ call[c].stage = "deriving"
    BY DEF EnqueueFails
<1>2. PICK good \in BOOLEAN, builds \in BOOLEAN, ps \in SUBSET Params :
          LET d == IF hit THEN Take(store, k)
                   ELSE IF ps = Params THEN Derive(store, c, good)
                        ELSE Allocate(store, c, ps, good)
              s == IF builds /\ (hit \/ ps = Params)
                   THEN Activate(d, c, Last(d.prepared), TRUE) ELSE d
          IN  /\ broken' = (broken \/ \E o \in Invalid(s) : o.by = c)
              /\ store' = Destroyed(RetireBuilt(s, {c}))
    BY DEF EnqueueFails
<1> DEFINE d == IF hit THEN Take(store, k)
                ELSE IF ps = Params THEN Derive(store, c, good) ELSE Allocate(store, c, ps, good)
           s == IF builds /\ (hit \/ ps = Params)
                THEN Activate(d, c, Last(d.prepared), TRUE) ELSE d
           t == RetireBuilt(s, {c})
<1>3. broken' = (broken \/ \E o \in Invalid(s) : o.by = c) /\ store' = Destroyed(t)
    BY <1>2
<1>4. /\ chain # <<>> /\ Head(chain) = c /\ Working(c) /\ k \in Keys /\ store \in Stores
    <2>1. CASE call[c].stage = "deriving"
        BY <2>1, Deriving
    <2>2. CASE chain # <<>> /\ Head(chain) = c /\ hit
        <3>1. Working(c)
            BY <2>2 DEF Working
        <3> QED BY <2>2, <3>1 DEF IInv, Queue, Line, Place, Unsettled, Types
    <2> QED BY <1>1, <2>1, <2>2
<1>5. Works(store, d, c, k)
    <2>1. CASE hit
        BY <1>4, <2>1, TakeWorks
    <2>2. CASE ~hit /\ ps = Params
        BY <1>4, <2>2, DeriveWorks
    <2>3. CASE ~hit /\ ps # Params
        BY <1>4, <2>3, AllocateWorks
    <2> QED BY <2>1, <2>2, <2>3
<1>6. ASSUME hit \/ ps = Params
      PROVE  Last(d.prepared) \in Objects /\ Last(d.prepared).key = k
    <2>1. CASE hit
        <3> DEFINE u == Take(store, k)
        <3>1. d = u
            BY <2>1
        <3>2. Last(u.prepared) \in Of(store.prepared, k)
            BY <1>1, <1>4, <2>1, TakeWorks
        <3>3. store.prepared \in Seq(Objects)
            BY <1>4 DEF Stores
        <3> HIDE DEF d, u
        <3>4. Last(u.prepared) \in Objects /\ Last(u.prepared).key = k
            BY <3>2, <3>3, CacheFinite DEF Of
        <3> QED BY <3>1, <3>4
    <2>2. CASE ~hit
        <3> DEFINE u == Derive(store, c, good)
        <3>1. d = u
            BY <1>6, <2>2
        <3>2. Last(u.prepared) = Object(k, c, \A p \in Params : u.params[p].ok)
            BY <1>4, DeriveWorks
        <3> HIDE DEF d, u
        <3>3. Last(u.prepared) \in Objects /\ Last(u.prepared).key = k
            BY <1>4, <3>2 DEF Object, Objects
        <3> QED BY <3>1, <3>3
    <2> QED BY <2>1, <2>2
<1> HIDE DEF d
<1>7. Works(d, s, c, k) /\ d \in Stores
    <2>1. d \in Stores
        BY <1>5 DEF Works
    <2>2. CASE builds /\ (hit \/ ps = Params)
        <3> DEFINE plan == Last(d.prepared)
        <3>1. plan \in Objects /\ plan.key = k
            BY <1>6, <2>2
        <3>2. s = Activate(d, c, plan, TRUE)
            BY <2>2
        <3> HIDE DEF plan, s
        <3> QED BY <2>1, <3>1, <3>2, ActivateWorks
    <2>3. CASE ~(builds /\ (hit \/ ps = Params))
        <3>1. s = d
            BY <2>3
        <3> QED BY <2>1, <3>1, WorksStay
    <2> QED BY <2>1, <2>2, <2>3
<1> HIDE DEF s
<1>8. Works(store, s, c, k) /\ s \in Stores
    <2>1. Works(store, s, c, k)
        BY <1>5, <1>7, WorksOn
    <2> QED BY <2>1 DEF Works
<1>9. /\ Works(s, t, c, k) /\ t.prepared = s.prepared /\ t.params = s.params
      /\ \A o \in ToSet(t.backings) : o \in ToSet(s.backings)
    BY <1>8, RetireBuiltWorks
<1> HIDE DEF t
<1>10. Works(store, t, c, k)
    BY <1>8, <1>9, WorksOn
<1>11. \A o \in Invalid(t) : o \in Invalid(store) \/ (o.by = c /\ broken')
    <2>1. \A o \in Invalid(t) : o \in Invalid(s)
        BY <1>9 DEF Invalid
    <2>2. \A o \in Invalid(s) : o \in Invalid(store) \/ o.by = c
        BY <1>4, <1>8, WorksInvalid
    <2> QED BY <1>3, <2>1, <2>2
<1>12. /\ broken' \in BOOLEAN /\ (broken => broken')
       /\ store' = Destroyed(t) \/ (store' = store /\ t = store)
    BY <1>3
<1> QED BY <1>1, <1>4, <1>10, <1>11, <1>12, JoinIInv DEF k

\* A job of the chain that is no execution destroys what is retired.
LEMMA JobIInv ==
    ASSUME IInv, chain # <<>>, Head(chain) \notin Calls, chain' = Tail(chain),
           UNCHANGED <<resident, call, disposal, holder, broken, batch>>,
           NEW s, Works(store, s, Nobody, Nobody), store' = Destroyed(s),
           ToSet(s.backings) \subseteq ToSet(store.backings), Invalid(s) \subseteq Invalid(store)
    PROVE  IInv'
<1>1. Queue' /\ Users' = Users
    BY JobKeeps DEF IInv
<1>2. chain' \in Seq(Calls \cup {"dispose", "destroy"})
    BY Popped DEF IInv, Types
<1>3. /\ store' \in Stores /\ s \in Stores /\ Invalid(store') = Invalid(s)
      /\ store'.baked = Bakes(ToSet(store'.backings)) /\ Refused' /\ BudgetKept'
    <2>1. store' \in {s, Destroyed(s)} /\ Users' \subseteq Users
        BY <1>1
    <2>2. resident'.disposed = resident.disposed
        OBVIOUS
    <2> QED BY <2>1, <2>2, StoreKeeps
<1>4. Types'
    BY <1>2, <1>3 DEF IInv, Types
<1>5. \A c \in Calls : Running(c)' <=> Running(c)
    BY DEF Running
<1>6. Sections' /\ Counts'
    BY <1>3, <1>5 DEF IInv, Sections, Counts, Open
<1>7. Holding'
    <2>1. \A d \in Calls : call[d].holds = None
        BY NobodyElse DEF IInv
    <2> QED BY <2>1 DEF Holding
<1>8. Blame'
    BY <1>3 DEF IInv, Blame, Open
<1>9. Cleaning'
    BY <1>3, DestroyedHolds DEF Cleaning
<1> QED BY <1>1, <1>3, <1>4, <1>6, <1>7, <1>8, <1>9 DEF IInv

\* Destroying what a rollback retired, and what a disposed Session had.
LEMMA JobsIInv ==
    ASSUME IInv, DestroyJob \/ DisposeJob PROVE IInv'
<1>1. store \in Stores
    BY DEF IInv, Types
<1>2. "destroy" \notin Calls /\ "dispose" \notin Calls
    BY StorageAssumption
<1>3. CASE DestroyJob
    <2>1. /\ chain # <<>> /\ Head(chain) = "destroy" /\ store' = Destroyed(store)
          /\ chain' = Tail(chain)
          /\ UNCHANGED <<resident, call, disposal, holder, broken, batch>>
        BY <1>3 DEF DestroyJob
    <2>2. Works(store, store, Nobody, Nobody)
        BY <1>1, WorksStay
    <2> QED BY <1>2, <2>1, <2>2, JobIInv
<1>4. CASE DisposeJob
    <2> DEFINE s == Retire(store, ToSet(store.backings))
    <2>1. /\ chain # <<>> /\ Head(chain) = "dispose" /\ store' = Destroyed(s)
          /\ chain' = Tail(chain)
          /\ UNCHANGED <<resident, call, disposal, holder, broken, batch>>
        BY <1>4 DEF DisposeJob
    <2>2. /\ Works(store, s, Nobody, Nobody)
          /\ ToSet(s.backings) = ToSet(store.backings) \ ToSet(store.backings)
          /\ s.prepared = store.prepared /\ s.params = store.params
        BY <1>1, RetireWorks
    <2> HIDE DEF s
    <2>3. ToSet(s.backings) \subseteq ToSet(store.backings) /\ Invalid(s) \subseteq Invalid(store)
        BY <2>2 DEF Invalid
    <2> QED BY <1>2, <2>1, <2>2, <2>3, JobIInv
<1> QED BY <1>3, <1>4

\* The section of a batch opens, and closes to new enqueues.
LEMMA OpenFinishIInv ==
    ASSUME IInv, OpenBatch \/ FinishBatch PROVE IInv'
<1>1. /\ UNCHANGED <<store, resident, call, chain, disposal>>
      /\ batch'.members = batch.members /\ batch'.leases = batch.leases
      /\ batch' \in Batches /\ Open' /\ batch'.stage \in {"open", "finished"}
      /\ OpenBatch => /\ holder = Nobody /\ holder' = "batch" /\ broken' = FALSE
                      /\ batch.stage = "none" /\ ~batch'.reads /\ batch.members = {}
      /\ FinishBatch => /\ holder' = holder /\ broken' = broken /\ batch.stage = "open"
                        /\ batch'.reads = batch.reads /\ batch'.failed = batch.failed
    <2>1. CASE OpenBatch
        <3>1. batch.members = {} /\ batch.leases = 0
            <4>1. batch.members = {}
                BY <2>1 DEF OpenBatch, IInv, Queue, Batched
            <4>2. Leasing = {}
                BY <4>1 DEF Leasing
            <4> QED BY <4>1, <4>2, FS_EmptySet DEF IInv, Queue, Batched
        <3>2. /\ batch' = [stage |-> "open", leases |-> 0, members |-> {}, reads |-> FALSE,
                           failed |-> FALSE]
            BY <2>1 DEF OpenBatch, NoBatch
        <3>3. ~FinishBatch
            BY <2>1 DEF OpenBatch, FinishBatch
        <3>4. {} \in SUBSET Calls /\ 0 \in Int
            OBVIOUS
        <3>5. batch' \in Batches
            BY <3>2, <3>4 DEF Batches
        <3>6. /\ batch'.stage = "open" /\ batch'.leases = 0 /\ batch'.members = {}
              /\ batch'.reads = FALSE
            BY <3>2
        <3>7. /\ UNCHANGED <<store, resident, call, chain, disposal>>
              /\ holder = Nobody /\ holder' = "batch" /\ broken' = FALSE /\ batch.stage = "none"
            BY <2>1 DEF OpenBatch
        <3> QED BY <3>1, <3>3, <3>5, <3>6, <3>7 DEF Open
    <2>2. CASE FinishBatch
        <3>1. ~OpenBatch
            BY <2>2 DEF OpenBatch, FinishBatch
        <3> QED BY <2>2, <3>1 DEF FinishBatch, Open, IInv, Types, Batches
    <2> QED BY <2>1, <2>2
<1>2. \A c \in Calls : /\ (Working(c)' <=> Working(c)) /\ (Unsettled(c)' <=> Unsettled(c))
                       /\ (Begun(c)' <=> Begun(c)) /\ (Running(c)' <=> Running(c))
    BY <1>1 DEF Working, Unsettled, Begun, Running
<1>3. Users' = Users /\ Leasing' = Leasing
    BY <1>1, <1>2 DEF Users, Leasing, IInv, Types, Batches
<1>4. /\ Nobody # "batch" /\ Nobody \notin Calls /\ "batch" \notin Calls
    BY StorageAssumption
<1>5. Types'
    BY <1>1 DEF IInv, Types
<1>6. Line' /\ Uses'
    BY <1>1, <1>2, <1>3 DEF IInv, Queue, Line, Place, Uses
<1>7. Batched'
    BY <1>1, <1>2, <1>3 DEF IInv, Queue, Batched
<1>8. Reads'
    BY <1>1 DEF IInv, Queue, Reads, Open
<1>9. Sections'
    BY <1>1, <1>2, <1>4 DEF IInv, Sections, Open
<1>10. Counts'
    BY <1>1, <1>4 DEF IInv, Counts
<1>11. Refused' /\ BudgetKept'
    BY <1>1, <1>3 DEF IInv, Refused, BudgetKept
<1>12. Holding'
    BY <1>1 DEF IInv, Holding, Open
<1>13. Blame'
    <2>1. CASE OpenBatch
        <3>1. \A o \in Invalid(store) : o.by \in Calls
            BY Maker DEF IInv, Types
        <3>2. Invalid(store) = {}
            BY <1>1, <1>4, <2>1, <3>1 DEF IInv, Blame
        <3> QED BY <1>1, <3>2 DEF Blame
    <2>2. CASE FinishBatch
        BY <1>1, <2>2 DEF IInv, Blame, Open
    <2> QED BY <2>1, <2>2
<1>14. Cleaning'
    BY <1>1, <1>4 DEF IInv, Cleaning
<1> QED BY <1>5, <1>6, <1>7, <1>8, <1>9, <1>10, <1>11, <1>12, <1>13, <1>14 DEF IInv, Queue

\* The section of a batch ends: the readbacks are read, the scopes have answered.
LEMMA SettleBatchIInv ==
    ASSUME IInv, SettleBatch PROVE IInv'
<1>1. /\ batch.stage = "finished" /\ batch.leases = 0 /\ holder' = Nobody /\ broken' = FALSE
      /\ UNCHANGED <<store, resident, chain, disposal>>
      /\ call' = [c \in Calls |-> IF c \in batch.members THEN [call[c] EXCEPT !.holds = None]
                                  ELSE call[c]]
    BY DEF SettleBatch
<1>2. PICK failed \in {broken, TRUE} :
          batch' = [batch EXCEPT !.stage = "ended", !.failed = failed]
    BY DEF SettleBatch
<1>3. /\ batch'.stage = "ended" /\ batch'.leases = 0 /\ batch'.members = batch.members
      /\ batch'.reads = batch.reads /\ (broken => batch'.failed) /\ batch' \in Batches
    <2>1. PICK stage, leases, members, reads, old :
              batch = [stage |-> stage, leases |-> leases, members |-> members,
                       reads |-> reads, failed |-> old]
        BY DEF IInv, Types, Batches
    <2>2. batch' = [stage |-> "ended", leases |-> leases, members |-> members,
                    reads |-> reads, failed |-> failed]
        BY <1>2, <2>1
    <2>3. /\ leases = 0 /\ members \in SUBSET Calls /\ reads \in BOOLEAN /\ failed \in BOOLEAN
        BY <1>1, <2>1 DEF IInv, Types, Batches
    <2>4. broken => failed
        <3>1. failed = broken \/ failed = TRUE
            BY <1>2
        <3> QED BY <3>1
    <2>5. batch' \in Batches
        BY <2>2, <2>3 DEF Batches
    <2>6. /\ batch'.stage = "ended" /\ batch'.leases = leases /\ batch'.members = members
          /\ batch'.reads = reads /\ batch'.failed = failed
        BY <2>2
    <2>7. leases = 0 /\ batch.members = members /\ batch.reads = reads
        BY <2>1, <2>3
    <2> QED BY <2>4, <2>5, <2>6, <2>7
<1>4. ASSUME NEW c \in Calls
      PROVE  /\ call'[c].stage = call[c].stage /\ call'[c].kind = call[c].kind
             /\ call'[c].key = call[c].key /\ call'[c].plan = call[c].plan
             /\ call'[c].holds = IF c \in batch.members THEN None ELSE call[c].holds
             /\ call'[c] \in Executions
    BY <1>1 DEF IInv, Types, Executions
<1>5. \A c \in Calls : /\ (Working(c)' <=> Working(c)) /\ (Unsettled(c)' <=> Unsettled(c))
                       /\ (Begun(c)' <=> Begun(c)) /\ (Running(c)' <=> Running(c))
    BY <1>4 DEF Working, Unsettled, Begun, Running
<1>6. Users' = Users /\ Leasing' = Leasing
    BY <1>3, <1>4, <1>5 DEF Users, Leasing, IInv, Types, Batches
<1>7. Nobody # "batch" /\ Nobody \notin Calls /\ "batch" \notin Calls /\ holder = "batch"
      /\ ~Open'
    BY <1>1, <1>3, StorageAssumption DEF IInv, Sections, Open
<1>8. Types'
    <2>1. call' \in [Calls -> Executions]
        BY <1>1, <1>4
    <2> QED BY <1>1, <1>3, <2>1 DEF IInv, Types
<1>9. Line' /\ Uses'
    BY <1>1, <1>4, <1>5, <1>6 DEF IInv, Queue, Line, Place, Uses
<1>10. Batched'
    <2>1. ASSUME NEW c \in Calls
          PROVE  /\ c \in batch'.members <=> Unsettled(c)' /\ call'[c].kind # "run"
                 /\ call'[c].stage = "joined" => c \in batch'.members
        BY <1>3, <1>4, <1>5 DEF IInv, Queue, Batched
    <2>2. IsFiniteSet(batch'.members) /\ batch'.leases = Cardinality(Leasing')
        BY <1>1, <1>3, <1>6 DEF IInv, Queue, Batched
    <2>3. batch'.stage # "none" /\ batch'.leases = 0
        BY <1>3
    <2> QED BY <2>1, <2>2, <2>3 DEF Batched
<1>11. Reads'
    <2>1. batch.members \subseteq Calls
        BY DEF IInv, Types, Batches
    <2> QED BY <1>1, <1>3, <1>4, <1>7, <2>1 DEF IInv, Queue, Reads
<1>12. Sections'
    <2>1. \A c \in Calls : ~Running(c)
        BY <1>7 DEF IInv, Sections
    <2> QED BY <1>1, <1>5, <1>7, <2>1 DEF Sections
<1>13. Counts' /\ Refused' /\ BudgetKept'
    BY <1>1, <1>6, <1>7 DEF IInv, Counts, Refused, BudgetKept
<1>14. Holding'
    <2>1. \A c \in Calls \ batch.members : call[c].stage # "joined"
        BY DEF IInv, Queue, Batched
    <2> QED BY <1>1, <1>4, <2>1 DEF IInv, Holding
<1>15. Blame'
    <2>1. \A o \in Invalid(store) : o.by \in Calls
        BY Maker DEF IInv, Types
    <2> QED BY <1>1, <1>3, <1>7, <2>1 DEF IInv, Blame, Open
<1>16. Cleaning'
    BY <1>1, <1>7 DEF IInv, Cleaning
<1> QED BY <1>8, <1>9, <1>10, <1>11, <1>12, <1>13, <1>14, <1>15, <1>16 DEF IInv, Queue

\* The settlement of a batch rolls the additions of a failed one back.
LEMMA ConcludeBatchIInv ==
    ASSUME IInv, ConcludeBatch PROVE IInv'
<1>1. /\ batch.stage = "ended" /\ store' = RolledBack /\ batch' = NoBatch
      /\ chain' = IF batch.failed /\ batch.members # {} /\ store'.retired # {}
                  THEN Append(chain, "destroy") ELSE chain
      /\ call' = [c \in Calls |-> IF c \in batch.members THEN [Unissued EXCEPT !.stage = "done"]
                                  ELSE call[c]]
      /\ UNCHANGED <<resident, disposal, holder, broken>>
    BY DEF ConcludeBatch, EndBatch
<1>2. /\ batch'.stage = "none" /\ batch'.leases = 0 /\ batch'.members = {} /\ batch'.reads = FALSE
      /\ batch' \in Batches
    <2>1. batch' = [stage |-> "none", leases |-> 0, members |-> {}, reads |-> FALSE,
                    failed |-> FALSE]
        BY <1>1 DEF NoBatch
    <2>2. {} \in SUBSET Calls /\ 0 \in Int
        OBVIOUS
    <2>3. batch' \in Batches
        BY <2>1, <2>2 DEF Batches
    <2> QED BY <2>1, <2>3
<1>3. /\ store \in Stores /\ ~Open /\ ~Open' /\ batch.members \subseteq Calls
      /\ Nobody # "batch" /\ Nobody \notin Calls /\ "batch" \notin Calls
      /\ "destroy" \notin Calls /\ "destroy" # "dispose"
    BY <1>1, <1>2, StorageAssumption DEF Open, IInv, Types, Batches
<1>4. \A c \in batch.members : ~Working(c) /\ call[c].stage = "joined"
    <2>1. Leasing = {}
        BY <1>1, Standing DEF IInv, Queue, Batched
    <2> QED BY <1>3, <2>1 DEF Leasing, IInv, Queue, Batched, Unsettled
<1>5. ASSUME NEW c \in Calls
      PROVE  /\ call'[c] \in Executions
             /\ c \notin batch.members => call'[c] = call[c]
             /\ c \in batch.members =>
                    /\ call'[c].stage = "done" /\ call'[c].kind = "run"
                    /\ call'[c].plan = None /\ call'[c].holds = None
    <2> DEFINE e == [Unissued EXCEPT !.stage = "done"]
    <2>1. e = [stage |-> "done", kind |-> "run", key |-> Nobody, plan |-> None, holds |-> None]
        BY DEF Unissued
    <2>2. e \in Executions
        BY <2>1 DEF Executions, Stages
    <2>3. call'[c] = IF c \in batch.members THEN e ELSE call[c]
        BY <1>1
    <2>4. call[c] \in Executions
        BY DEF IInv, Types
    <2> HIDE DEF e
    <2> QED BY <2>1, <2>2, <2>3, <2>4
<1>6. \A c \in Calls : /\ (Working(c)' <=> Working(c))
                       /\ (Unsettled(c)' <=> Unsettled(c) /\ c \notin batch.members)
                       /\ (Begun(c)' <=> Begun(c)) /\ (Running(c)' <=> Running(c))
    BY <1>4, <1>5 DEF Working, Unsettled, Begun, Running
<1>7. Users' = Users /\ Leasing' = {}
    <2>1. \A c \in Calls : Working(c) => call'[c] = call[c]
        BY <1>4, <1>5
    <2> QED BY <1>2, <1>6, <2>1 DEF Users, Leasing
<1>8. /\ Works(store, store', Nobody, Nobody)
      /\ ToSet(store'.backings) \subseteq ToSet(store.backings)
      /\ \A o \in Invalid(store') : o \in Invalid(store)
                                    /\ (batch.failed => o.by \notin batch.members)
      /\ ~batch.failed \/ batch.members = {} => store'.retired = store.retired
    <2>1. CASE batch.failed
        <3> DEFINE s == Forget(RetireBuilt(store, batch.members), batch.members)
        <3>1. /\ Works(store, s, Nobody, Nobody)
              /\ ToSet(s.backings) \subseteq ToSet(store.backings)
              /\ \A o \in Invalid(s) : o \in Invalid(store) /\ o.by \notin batch.members
              /\ batch.members = {} => s.retired = store.retired
            BY <1>3, RollsBack
        <3>2. store' = s
            BY <1>1, <2>1 DEF RolledBack
        <3> HIDE DEF s
        <3> QED BY <2>1, <3>1, <3>2
    <2>2. CASE ~batch.failed
        <3>1. store' = store
            BY <1>1, <2>2 DEF RolledBack
        <3> QED BY <1>3, <2>2, <3>1, WorksStay
    <2> QED BY <2>1, <2>2
<1>9. /\ store' \in Stores /\ store'.baked = Bakes(ToSet(store'.backings))
      /\ Refused' /\ BudgetKept'
    <2> DEFINE s == store'
    <2>1. /\ Works(store, s, Nobody, Nobody) /\ ToSet(s.backings) \subseteq ToSet(store.backings)
          /\ store' \in {s, Destroyed(s)} /\ Users' \subseteq Users
          /\ resident'.disposed = resident.disposed
        BY <1>1, <1>7, <1>8
    <2> HIDE DEF s
    <2> QED BY <2>1, StoreKeeps
<1>10. /\ chain' \in Seq(Calls \cup {"dispose", "destroy"})
       /\ ToSet(chain) \subseteq ToSet(chain') /\ ToSet(chain') \subseteq ToSet(chain) \cup {"destroy"}
       /\ chain # <<>> => chain' # <<>> /\ Head(chain') = Head(chain)
       /\ \A x, y : Before(chain', x, y) =>
              Before(chain, x, y) \/ (x \in ToSet(chain) /\ y = "destroy")
    <2>1. chain \in Seq(Calls \cup {"dispose", "destroy"})
        BY DEF IInv, Types
    <2>2. CASE chain' = chain
        BY <2>1, <2>2
    <2>3. CASE chain' = Append(chain, "destroy")
        BY <2>1, <2>3, Pushed
    <2> QED BY <1>1, <2>2, <2>3
<1>11. Types'
    <2>1. call' \in [Calls -> Executions]
        BY <1>1, <1>5
    <2> QED BY <1>1, <1>2, <1>9, <1>10, <2>1 DEF IInv, Types
<1>12. ASSUME NEW c \in Calls PROVE Place(c)'
    <2>1. Place(c)
        BY DEF IInv, Queue, Line
    <2>2. (c \in ToSet(chain') <=> c \in ToSet(chain)) /\ ~Before(chain', c, c)
        BY <1>3, <1>10, <2>1 DEF Place
    <2>3. Begun(c)' => chain' # <<>> /\ Head(chain') = c
        BY <1>6, <1>10, <2>1 DEF Place
    <2>4. CASE c \in batch.members
        BY <1>5, <1>6, <2>1, <2>2, <2>3, <2>4 DEF Place
    <2>5. CASE c \notin batch.members
        BY <1>5, <1>6, <2>1, <2>2, <2>3, <2>5 DEF Place
    <2> QED BY <2>4, <2>5
<1>13. Line' /\ Uses'
    BY <1>1, <1>3, <1>7, <1>10, <1>12 DEF IInv, Queue, Line, Uses
<1>14. Batched'
    <2>1. ASSUME NEW c \in Calls
          PROVE  /\ c \in batch'.members <=> Unsettled(c)' /\ call'[c].kind # "run"
                 /\ call'[c].stage = "joined" => c \in batch'.members
        BY <1>2, <1>5, <1>6 DEF IInv, Queue, Batched
    <2> QED BY <1>2, <1>7, <2>1, FS_EmptySet DEF Batched
<1>15. Reads'
    <2>1. ASSUME NEW c \in Calls, call'[c].kind = "read", NEW d \in ToSet(chain'),
                 Before(chain', c, d)
          PROVE  d \in Calls /\ call'[d].kind = "run"
        <3>1. c \notin batch.members /\ call[c].kind = "read"
            BY <1>5, <2>1
        <3>2. ~Working(c)
            BY <1>3, <3>1, Standing DEF IInv
        <3>3. c \notin ToSet(chain)
            BY <3>2 DEF IInv, Queue, Line, Place
        <3> QED BY <1>10, <2>1, <3>3, BothOn
    <2> QED BY <1>2, <1>3, <2>1 DEF Reads
<1>16. Sections'
    <2>1. \A c \in Calls : Running(c) => call'[c] = call[c]
        BY <1>4, <1>5 DEF Running
    <2> QED BY <1>1, <1>3, <1>6, <2>1 DEF IInv, Sections
<1>17. Counts'
    <2>1. holder \in Calls => call'[holder] = call[holder]
        <3>1. holder \in Calls => Running(holder)
            BY DEF IInv, Sections
        <3> QED BY <1>4, <1>5, <3>1 DEF Running
    <2> QED BY <1>1, <1>9, <2>1 DEF IInv, Counts
<1>18. Holding'
    <2>1. SUFFICES ASSUME NEW c \in Calls, call'[c].holds # None
                   PROVE  /\ call'[c].holds \in ToSet(store'.backings) \cup store'.retired
                          /\ call'[c].stage = "encoding"
        BY DEF Holding
    <2>2. call'[c] = call[c]
        BY <1>5, <2>1
    <2> QED BY <1>3, <1>8, <2>1, <2>2 DEF IInv, Holding, Works
<1>19. Blame'
    <2>1. SUFFICES ASSUME NEW o \in Invalid(store') PROVE o.by = holder' /\ broken'
        BY DEF Blame
    <2> QED BY <1>1, <1>3, <1>8, <2>1 DEF IInv, Blame
<1>20. Cleaning'
    <2>1. SUFFICES ASSUME store'.retired # {} PROVE holder \in Calls \/ "destroy" \in ToSet(chain')
        BY <1>1 DEF Cleaning
    <2>2. CASE ~batch.failed \/ batch.members = {}
        BY <1>8, <1>10, <2>1, <2>2 DEF IInv, Cleaning
    <2>3. CASE batch.failed /\ batch.members # {}
        <3>1. chain' = Append(chain, "destroy")
            BY <1>1, <2>1, <2>3
        <3>2. ToSet(chain') = ToSet(chain) \cup {"destroy"}
            BY <3>1, Pushed DEF IInv, Types
        <3> QED BY <3>2
    <2> QED BY <2>2, <2>3
<1> QED BY <1>9, <1>11, <1>13, <1>14, <1>15, <1>16, <1>17, <1>18, <1>19, <1>20 DEF IInv, Queue

-------------------------------------------------------------------------------
(* The theorems                                                                *)

\* Every step keeps the invariant.
LEMMA StepIInv == IInv /\ [Next]_vars => IInv'
<1> SUFFICES ASSUME IInv, [Next]_vars PROVE IInv'
    OBVIOUS
<1>1. CASE \E c \in Calls, kind \in {"run", "enqueue", "read"}, k \in Keys : Issue(c, kind, k)
    BY <1>1, IssueIInv
<1>2. CASE \E c \in Calls : Body(c)
    <2>1. PICK c \in Calls : Body(c)
        BY <1>2
    <2>2. CASE Start(c) \/ Enter(c) \/ BuildBacking(c) \/ DerivePlan(c)
        BY <2>2, StartIInv, EnterIInv, BuildBackingIInv, DerivePlanIInv
    <2>3. CASE RunSucceeds(c) \/ RunFails(c)
        BY <2>3, RunSucceedsIInv, RunFailsIInv
    <2>4. CASE StartEnqueue(c) \/ DeriveEnqueue(c) \/ EnqueueFails(c) \/ Refuse(c)
        BY <2>4, StartEnqueueIInv, DeriveEnqueueIInv, EnqueueFailsIInv, RefuseIInv
    <2> QED BY <2>1, <2>2, <2>3, <2>4 DEF Body
<1>3. CASE OpenBatch \/ FinishBatch \/ SettleBatch \/ ConcludeBatch
    BY <1>3, OpenFinishIInv, SettleBatchIInv, ConcludeBatchIInv
<1>4. CASE DestroyJob \/ Dispose \/ DisposeJob \/ DisposeResident
    BY <1>4, JobsIInv, DisposeIInv, DisposeResidentIInv
<1>5. CASE UNCHANGED vars
    <2>1. /\ store' = store /\ resident' = resident /\ call' = call /\ chain' = chain
          /\ disposal' = disposal /\ holder' = holder /\ broken' = broken /\ batch' = batch
        BY <1>5 DEF vars
    <2> QED BY <2>1 DEF IInv, Types, Queue, Line, Place, Batched, Reads, Uses, Sections, Counts,
                        Refused, Holding, Blame, Cleaning, BudgetKept, Working, Unsettled,
                        Begun, Running, Users, Leasing, Open
<1> QED BY <1>1, <1>2, <1>3, <1>4, <1>5 DEF Next

\* The caches, the reservations, the chain and the batch agree with each other, as
\* IInv says, in every state.
THEOREM IInvHolds == Spec => []IInv
<1> QED BY InitIInv, StepIInv, PTL DEF Spec

\* What an execution encodes with, or a readback waits for, is not destroyed, and a
\* resident tensor that is disposed is named by no execution and by no backing
\* (#retireBacking, #destroyRetired, #rollbackSettled, ResidentTensor.dispose).
THEOREM HeldAlive == Spec => []HeldStorageAlive
<1>1. IInv => HeldStorageAlive
    BY DEF IInv, Holding, Refused, Users, HeldStorageAlive
<1> QED BY <1>1, IInvHolds, PTL

\* An object the device does not have leaves the caches before the execution that
\* made it settles: by the run that fails, or by the rollback of its batch.
THEOREM NothingCachedInvalid == Spec => []NothingInvalidKept
<1>1. IInv => NothingInvalidKept
    <2> SUFFICES ASSUME IInv, NEW o \in Invalid(store) PROVE Unsettled(o.by)
        BY DEF NothingInvalidKept
    <2>1. o.by \in Calls
        BY Maker DEF IInv, Types
    <2>2. CASE o.by = holder
        <3>1. Running(o.by)
            BY <2>1, <2>2 DEF IInv, Sections
        <3> QED BY <3>1 DEF Running, Unsettled, Working
    <2>3. CASE o.by \in batch.members
        BY <2>1, <2>3 DEF IInv, Queue, Batched
    <2> QED BY <2>2, <2>3 DEF IInv, Blame
<1> QED BY <1>1, IInvHolds, PTL

\* A Session at rest keeps no buffer that awaits its destruction and no reservation
\* but the ones of its cached backings.
THEOREM RestIsClean == Spec => []RestHoldsNothing
<1>1. IInv => RestHoldsNothing
    <2> SUFFICES ASSUME IInv, chain = <<>>, batch.stage = "none"
                 PROVE  /\ store.retired = {} /\ resident.use = 0 /\ resident.bound = 0
                        /\ store.baked = Bakes(ToSet(store.backings))
        BY DEF RestHoldsNothing
    <2>1. ToSet(chain) = {}
        BY DEF ToSet
    <2>2. holder \notin Calls
        BY Standing DEF IInv
    <2>3. Users = {}
        BY <2>1 DEF Users, IInv, Queue, Line, Place
    <2>4. resident.use = 0
        BY <2>3, FS_EmptySet DEF IInv, Queue, Uses
    <2> QED BY <2>1, <2>2, <2>4 DEF IInv, Cleaning, Counts
<1> QED BY <1>1, IInvHolds, PTL

\* The backings a Session keeps are within its budget, unless there is only one
\* (#evictBackingsFor).
THEOREM BudgetIsKept == Spec => []BudgetKept
<1>1. IInv => BudgetKept
    BY DEF IInv
<1> QED BY <1>1, IInvHolds, PTL
===============================================================================
