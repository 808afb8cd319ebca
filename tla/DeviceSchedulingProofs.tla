------------------------- MODULE DeviceSchedulingProofs -------------------------
(* Proofs about DeviceScheduling, for any Sessions, calls and batches.

   IInv is the inductive invariant.  Its parts, in the order of their proofs:
     Types     the variables but for the two counts, which are proved apart;
     Shape     the stages a call of each kind passes, and the batch it joined;
     Lock      one holder of the section lock, and everything behind it waits;
     Stack     the errorScope stack is the holder's;
     Leases    a batch counts the calls it accepted that have not left it;
     Chains    a Session's chain holds its calls that have not left it, each
               once, and its disposal behind them;
     Reads     what an enqueueRead is promised until its batch ends.
   Pending, that a Session counts the runs it has not settled, rests on IInv
   and nothing rests on it but the types.                                      *)
EXTENDS DeviceScheduling, FiniteSetTheorems, SequenceTheorems, TLAPS

\* The batch is inside its section.
Inside(b) == batch[b].state \in {"open", "settling", "finished", "fencing"}

\* The call was accepted and its body has not left the chain of its Session.
OnChain(e) == call[e].stage \in {"queued", "waiting", "encoding", "reading", "done"}

Shape ==
    \A e \in Calls :
        /\ call[e].stage = "idle" => call[e].kind = "run" /\ call[e].batch = Nobody
        /\ call[e].stage # "idle" => call[e].session \in Sessions
        /\ call[e].kind = "run" =>
              /\ call[e].stage \notin {"written", "failed"}
              /\ call[e].batch = Nobody
        /\ call[e].kind # "run" =>
              /\ call[e].stage \in {"queued", "encoding", "written", "failed"}
              /\ call[e].batch \in Batches
              /\ Inside(call[e].batch) \/ batch[call[e].batch].state = "ended"

\* Runs and batches that hold the lock, by what they do with it.
RunHolds(e) == call[e].kind = "run" /\ call[e].stage \in {"encoding", "reading"}
RunWaits(e) == call[e].kind = "run" /\ call[e].stage = "waiting"

Distinct(q) == \A i, j \in 1..Len(q) : q[i] = q[j] => i = j

\* Who stands in the line of the lock: its holder and the waiters.
InLine(x) ==
    /\ x \in Calls => RunWaits(x) \/ RunHolds(x)
    /\ x \in Batches => batch[x].state = "waiting" \/ Inside(x)

Lock ==
    /\ Distinct(sections)
    /\ \A i \in 1..Len(sections) : InLine(sections[i])
    /\ \A e \in Calls : RunHolds(e) => HoldsLock(e)
    /\ \A b \in Batches : Inside(b) => HoldsLock(b)

\* The stack holds the scope of whoever encodes in the section.
Stack ==
    \/ \E e \in Calls : RunHolds(e) /\ call[e].stage = "encoding" /\ scopes = <<e>>
    \/ \E b \in Batches : Inside(b) /\ scopes = <<b>>
    \/ /\ scopes = <<>>
       /\ \A e \in Calls : RunHolds(e) => call[e].stage # "encoding"
       /\ \A b \in Batches : ~Inside(b)

\* The calls a batch accepted whose bodies have not left it.
Leased(b) == {e \in Calls : call[e].batch = b /\ call[e].stage \in {"queued", "encoding"}}

Leases ==
    /\ \A b \in Batches :
          /\ IsFiniteSet(Leased(b)) /\ batch[b].leases = Cardinality(Leased(b))
          /\ Leased(b) # {} => batch[b].state \in {"open", "finished"}
    /\ \A e \in Calls : call[e].stage = "failed" => batch[call[e].batch].failed

\* The chain of a Session: its calls, each once, and its disposal at the end.
InOrder(s) ==
    /\ Distinct(chain[s])
    /\ \A i \in 1..Len(chain[s]) :
          \/ chain[s][i] \in Calls /\ OnChain(chain[s][i]) /\ call[chain[s][i]].session = s
          \/ chain[s][i] = s /\ i = Len(chain[s]) /\ life[s] = "closing"
    /\ life[s] = "closing" => chain[s] # <<>> /\ chain[s][Len(chain[s])] = s
    /\ life[s] = "disposed" => chain[s] = <<>>

\* The place of a call on the chain of its Session.
Placed(e) ==
    /\ OnChain(e) => \E i \in 1..Len(chain[call[e].session]) : chain[call[e].session][i] = e
    /\ call[e].stage \in {"waiting", "encoding", "reading", "done"} => Heads(call[e].session, e)

Chains == (\A s \in Sessions : InOrder(s)) /\ (\A e \in Calls : Placed(e))

\* A call that reads at the settlement of a batch which still holds its section.
Reading(e) ==
    call[e].kind = "enqueueRead" /\ call[e].stage # "failed" /\ Inside(call[e].batch)

Reads ==
    \A e \in Calls : Reading(e) =>
        LET s == call[e].session IN
        /\ readBatch[s] = call[e].batch
        /\ life[s] = "open"
        /\ call[e].stage = "written" => output[s] = e
        /\ \A d \in Calls \ {e} :
              call[d].kind # "run" /\ call[d].session = s /\ OnChain(d) =>
                  /\ call[e].stage # "written"
                  /\ \A i, j \in 1..Len(chain[s]) :
                        chain[s][i] = d /\ chain[s][j] = e => i < j

\* TypeOK but for the counts: that of a batch follows from Leases, that of a
\* Session from Pending.
CallRecord == [stage : Stages, kind : Kinds, session : Sessions \cup {Nobody},
               batch : Batches \cup {Nobody}]
BatchRecord == [state : BatchStates, leases : Int, failed : BOOLEAN]

Types ==
    /\ call \in [Calls -> CallRecord]
    /\ chain \in [Sessions -> Seq(Calls \cup Sessions)]
    /\ readBatch \in [Sessions -> Batches \cup {Nobody}]
    /\ life \in [Sessions -> {"open", "closing", "disposed"}]
    /\ output \in [Sessions -> Calls \cup {Nobody}]
    /\ sections \in Seq(Calls \cup Batches)
    /\ scopes \in Seq(Calls \cup Batches)
    /\ batch \in [Batches -> BatchRecord]

IInv == Types /\ Shape /\ Lock /\ Stack /\ Leases /\ Chains /\ Reads
-------------------------------------------------------------------------------
(* Sequences without repetition. *)

\* What is left of a sequence without repetition does not hold its head.
LEMMA TailDistinct ==
    ASSUME NEW S, NEW q \in Seq(S), q # <<>>, Distinct(q)
    PROVE  /\ Tail(q) \in Seq(S) /\ Distinct(Tail(q)) /\ Len(Tail(q)) = Len(q) - 1
           /\ Len(q) \in Nat /\ 1 \in 1..Len(q) /\ Head(q) = q[1]
           /\ \A i \in 1..Len(Tail(q)) :
                 i + 1 \in 1..Len(q) /\ Tail(q)[i] = q[i + 1] /\ Tail(q)[i] # Head(q)
           /\ \A i \in 1..Len(q) :
                 q[i] # Head(q) => i - 1 \in 1..Len(Tail(q)) /\ Tail(q)[i - 1] = q[i]
<1>1. /\ Tail(q) \in Seq(S) /\ Len(Tail(q)) = Len(q) - 1 /\ Len(q) \in Nat /\ Len(q) # 0
      /\ Head(q) = q[1] /\ \A i \in 1..Len(Tail(q)) : Tail(q)[i] = q[i + 1]
    BY HeadTailProperties, EmptySeq, LenProperties
<1> QED BY <1>1 DEF Distinct

\* A new element at the end keeps a sequence without repetition.
LEMMA AppendDistinct ==
    ASSUME NEW S, NEW q \in Seq(S), NEW x \in S, Distinct(q),
           \A i \in 1..Len(q) : q[i] # x
    PROVE  /\ Append(q, x) \in Seq(S) /\ Distinct(Append(q, x)) /\ Append(q, x) # <<>>
           /\ Len(Append(q, x)) = Len(q) + 1 /\ Len(q) \in Nat
           /\ \A i \in 1..Len(q) : Append(q, x)[i] = q[i]
           /\ Append(q, x)[Len(q) + 1] = x
           /\ q # <<>> => Head(Append(q, x)) = Head(q)
           /\ q = <<>> => Head(Append(q, x)) = x
<1>1. /\ Append(q, x) \in Seq(S) /\ Append(q, x) # <<>>
      /\ Len(Append(q, x)) = Len(q) + 1 /\ Len(q) \in Nat
      /\ \A i \in 1..Len(q) : Append(q, x)[i] = q[i]
      /\ Append(q, x)[Len(q) + 1] = x
    BY AppendProperties, LenProperties
<1>2. Distinct(Append(q, x))
    BY <1>1 DEF Distinct
<1>3. Head(Append(q, x)) = Append(q, x)[1]
    BY <1>1, HeadTailProperties
<1>4. ASSUME q # <<>> PROVE Head(Append(q, x)) = Head(q)
    <2>1. Len(q) # 0 /\ Head(q) = q[1]
        BY <1>4, EmptySeq, HeadTailProperties
    <2> QED BY <2>1, <1>1, <1>3
<1>5. ASSUME q = <<>> PROVE Head(Append(q, x)) = x
    <2>1. Len(q) = 0
        BY <1>5, EmptySeq
    <2> QED BY <2>1, <1>1, <1>3
<1> QED BY <1>1, <1>2, <1>4, <1>5

-------------------------------------------------------------------------------
(* What a step leaves alone. *)

\* A call keeps its type when its stage moves.
LEMMA StageTyped ==
    ASSUME NEW r \in Calls, NEW st \in Stages, call \in [Calls -> CallRecord]
    PROVE  [call EXCEPT ![r].stage = st] \in [Calls -> CallRecord]
<1> DEFINE moved == [call[r] EXCEPT !.stage = st]
<1>1. moved \in CallRecord
    BY DEF CallRecord
<1> HIDE DEF moved
<1>2. [call EXCEPT ![r] = moved] \in [Calls -> CallRecord]
    BY <1>1
<1> QED BY <1>2 DEF moved

\* A run that moves on keeps everything but its stage.
LEMMA RunMoves ==
    ASSUME Types, Shape, SchedulingAssumption, NEW r \in Calls,
           call[r].kind = "run", call[r].stage # "idle",
           NEW st \in {"waiting", "encoding", "reading", "done"},
           call' = [call EXCEPT ![r].stage = st]
    PROVE  /\ call' \in [Calls -> CallRecord]
           /\ call'[r].stage = st /\ call'[r].kind = "run"
           /\ call'[r].session = call[r].session /\ call[r].session \in Sessions
           /\ call[r].batch \notin Batches /\ call'[r].batch = call[r].batch
           /\ \A e \in Calls \ {r} : call'[e] = call[e]
<1> USE DEF Types
<1>1. call' \in [Calls -> CallRecord]
    BY StageTyped DEF Stages
<1>2. call[r] \in CallRecord /\ call'[r] = [call[r] EXCEPT !.stage = st]
    OBVIOUS
<1>3. /\ call'[r].stage = st /\ call'[r].kind = call[r].kind
      /\ call'[r].session = call[r].session /\ call'[r].batch = call[r].batch
    BY <1>2 DEF CallRecord
<1>4. call[r].batch = Nobody /\ Nobody \notin Batches /\ call[r].session \in Sessions
    BY DEF Shape, SchedulingAssumption
<1> QED BY <1>1, <1>3, <1>4

\* The stages of the calls fit while one of them moves to a stage that fits it and
\* no batch leaves its calls behind.
LEMMA ShapeKept ==
    ASSUME Shape, NEW e \in Calls, \A d \in Calls \ {e} : call'[d] = call[d],
           \A b \in Batches : Inside(b) \/ batch[b].state = "ended"
                                => Inside(b)' \/ batch'[b].state = "ended",
           call'[e].stage = "idle" => call'[e].kind = "run" /\ call'[e].batch = Nobody,
           call'[e].stage # "idle" => call'[e].session \in Sessions,
           call'[e].kind = "run" =>
               call'[e].stage \notin {"written", "failed"} /\ call'[e].batch = Nobody,
           call'[e].kind # "run" =>
               /\ call'[e].stage \in {"queued", "encoding", "written", "failed"}
               /\ \E b \in Batches :
                     call'[e].batch = b /\ (Inside(b)' \/ batch'[b].state = "ended")
    PROVE  Shape'
<1>1. ASSUME NEW d \in Calls \ {e}, call[d].kind # "run"
      PROVE  /\ call[d].batch \in Batches
             /\ Inside(call[d].batch)' \/ batch'[call[d].batch].state = "ended"
    BY <1>1 DEF Shape
<1> QED BY <1>1 DEF Shape, Inside

\* A run moves between its stages and leaves the batches alone.
LEMMA RunShape ==
    ASSUME Shape, UNCHANGED batch, NEW r \in Calls,
           call[r].kind = "run", call[r].session \in Sessions,
           call'[r].stage \in {"waiting", "encoding", "reading", "done"},
           call'[r].kind = "run", call'[r].session = call[r].session,
           call'[r].batch = call[r].batch, \A e \in Calls \ {r} : call'[e] = call[e]
    PROVE  Shape'
<1>1. call[r].batch = Nobody
    BY DEF Shape
<1>2. \A b \in Batches : Inside(b) \/ batch[b].state = "ended"
                             => Inside(b)' \/ batch'[b].state = "ended"
    BY DEF Inside
<1> QED BY <1>1, <1>2, ShapeKept

\* A batch keeps its type when its state, its leases or its failure change.
LEMMA BatchTyped ==
    ASSUME NEW b \in Batches, batch \in [Batches -> BatchRecord],
           NEW st \in BatchStates, NEW n \in Int, NEW f \in BOOLEAN
    PROVE  /\ [batch EXCEPT ![b].state = st] \in [Batches -> BatchRecord]
           /\ [batch EXCEPT ![b].leases = n] \in [Batches -> BatchRecord]
           /\ [batch EXCEPT ![b] = [@ EXCEPT !.leases = n, !.failed = f]]
                 \in [Batches -> BatchRecord]
           /\ [batch EXCEPT ![b] = [@ EXCEPT !.state = st, !.failed = f]]
                 \in [Batches -> BatchRecord]
<1>1. ASSUME NEW x \in BatchRecord PROVE [batch EXCEPT ![b] = x] \in [Batches -> BatchRecord]
    OBVIOUS
<1>2. batch[b] \in BatchRecord
    OBVIOUS
<1>3. [batch[b] EXCEPT !.state = st] \in BatchRecord
    BY <1>2 DEF BatchRecord
<1>4. [batch[b] EXCEPT !.leases = n] \in BatchRecord
    BY <1>2 DEF BatchRecord
<1>5. [batch[b] EXCEPT !.leases = n, !.failed = f] \in BatchRecord
    BY <1>2 DEF BatchRecord
<1>6. [batch[b] EXCEPT !.state = st, !.failed = f] \in BatchRecord
    BY <1>2 DEF BatchRecord
<1> QED BY <1>1, <1>3, <1>4, <1>5, <1>6

\* A sequence keeps its type when it grows or shrinks.
LEMMA SequencesTyped ==
    ASSUME NEW S, NEW q \in Seq(S)
    PROVE  /\ \A x \in S : Append(q, x) \in Seq(S)
           /\ q # <<>> => Tail(q) \in Seq(S)
           /\ q # <<>> => SubSeq(q, 1, Len(q) - 1) \in Seq(S)
<1>1. ASSUME q # <<>> PROVE SubSeq(q, 1, Len(q) - 1) \in Seq(S)
    BY <1>1, SubSeqProperties, LenProperties, EmptySeq
<1> QED BY <1>1, AppendProperties, HeadTailProperties

\* The leases of the batches stand while no enqueue comes or goes.
LEMMA LeasesKept ==
    ASSUME Leases,
           \A e \in Calls : \/ call'[e] = call[e]
                            \/ /\ call[e].batch \notin Batches /\ call'[e].batch \notin Batches
                               /\ call'[e].stage # "failed"
                            \/ /\ call'[e].batch = call[e].batch
                               /\ call[e].stage = "queued" /\ call'[e].stage = "encoding",
           \A b \in Batches :
               /\ batch'[b].leases = batch[b].leases
               /\ Leased(b) # {} => batch'[b].state \in {"open", "finished"},
           \A e \in Calls : call[e].stage = "failed" => batch'[call[e].batch].failed
    PROVE  Leases'
<1>1. ASSUME NEW b \in Batches
      PROVE  Leased(b)' = Leased(b)
    BY DEF Leased
<1>2. ASSUME NEW b \in Batches
      PROVE  /\ IsFiniteSet(Leased(b)') /\ (batch[b].leases)' = Cardinality(Leased(b)')
             /\ Leased(b)' # {} => (batch[b].state)' \in {"open", "finished"}
    BY <1>1, <1>2 DEF Leases
<1>3. ASSUME NEW e \in Calls, (call[e].stage)' = "failed"
      PROVE  (batch[call[e].batch].failed)'
    BY <1>3
<1> QED BY <1>2, <1>3 DEF Leases

\* A batch without leases has no enqueue whose body is yet to leave it.
LEMMA NothingLeased ==
    ASSUME Leases, NEW b \in Batches, batch[b].leases = 0
    PROVE  Leased(b) = {}
BY FS_EmptySet DEF Leases

\* The chains stand while the calls on them stay on them.
LEMMA ChainsKept ==
    ASSUME Chains, UNCHANGED <<chain, life>>,
           \A e \in Calls :
               /\ OnChain(e)' <=> OnChain(e)
               /\ OnChain(e) => call'[e].session = call[e].session
               /\ call'[e].stage \in {"waiting", "encoding", "reading", "done"} =>
                     \/ call[e].stage \in {"waiting", "encoding", "reading", "done"}
                     \/ OnChain(e) /\ Heads(call[e].session, e)
    PROVE  Chains'
<1>1. ASSUME NEW s \in Sessions PROVE InOrder(s)'
    BY DEF Chains, InOrder, Distinct
<1>2. ASSUME NEW e \in Calls PROVE Placed(e)'
    BY DEF Chains, Placed, Heads, OnChain
<1> QED BY <1>1, <1>2 DEF Chains

\* What a call that does not move needs of the chains after a step.
LEMMA PlacedAt ==
    ASSUME NEW d \in Calls, call'[d].stage = call[d].stage, call'[d].session = call[d].session,
           OnChain(d) => \E i \in 1..Len(chain'[call[d].session]) :
                             chain'[call[d].session][i] = d,
           call[d].stage \in {"waiting", "encoding", "reading", "done"} =>
               chain'[call[d].session] # <<>> /\ Head(chain'[call[d].session]) = d
    PROVE  Placed(d)'
BY DEF Placed, OnChain, Heads

\* A call keeps its place on a chain that does not change.
LEMMA PlacedStays ==
    ASSUME NEW d \in Calls, Placed(d),
           call'[d].stage = call[d].stage, call'[d].session = call[d].session,
           call[d].stage # "idle" => chain'[call[d].session] = chain[call[d].session]
    PROVE  Placed(d)'
<1>1. OnChain(d) => call[d].stage # "idle"
    BY DEF OnChain
<1>2. OnChain(d) => \E i \in 1..Len(chain'[call[d].session]) :
                        chain'[call[d].session][i] = d
    BY <1>1 DEF Placed
<1>3. call[d].stage \in {"waiting", "encoding", "reading", "done"} =>
         chain'[call[d].session] # <<>> /\ Head(chain'[call[d].session]) = d
    BY DEF Placed, Heads
<1> QED BY <1>2, <1>3, PlacedAt

\* A call joins the chain of its Session.
LEMMA ChainGrows ==
    ASSUME Chains, Types, Shape, SchedulingAssumption, NEW e \in Calls, NEW s \in Sessions,
           call[e].stage = "idle", life[s] = "open", Join(s, e), UNCHANGED life,
           call'[e].stage = "queued", call'[e].session = s,
           \A d \in Calls \ {e} : call'[d] = call[d]
    PROVE  Chains'
<1> DEFINE old == chain[s]
<1>1. old \in Seq(Calls \cup Sessions) /\ Distinct(old)
    BY DEF Types, Chains, InOrder
<1>2. \A i \in 1..Len(old) : old[i] \in Calls /\ OnChain(old[i]) /\ call[old[i]].session = s
    BY DEF Chains, InOrder
<1>3. \A i \in 1..Len(old) : old[i] # e
    BY <1>2 DEF OnChain
<1> HIDE DEF old
<1>4. /\ Distinct(Append(old, e)) /\ Append(old, e) # <<>>
      /\ Len(Append(old, e)) = Len(old) + 1 /\ Len(old) \in Nat
      /\ \A i \in 1..Len(old) : Append(old, e)[i] = old[i]
      /\ Append(old, e)[Len(old) + 1] = e
      /\ old # <<>> => Head(Append(old, e)) = Head(old)
    BY <1>1, <1>3, AppendDistinct
<1>5. /\ chain'[s] = Append(old, e) /\ old = chain[s]
      /\ \A t \in Sessions \ {s} : chain'[t] = chain[t]
    BY DEF Join, Types, old
<1>6. /\ \A d \in Calls \ {e} :
            (OnChain(d)' <=> OnChain(d)) /\ call'[d].session = call[d].session
      /\ OnChain(e)' /\ ~OnChain(e)
    BY DEF OnChain
<1>7. ASSUME NEW t \in Sessions PROVE InOrder(t)'
  <2>1. CASE t = s
    <3>1. \A i \in 1..Len(Append(old, e)) : i = Len(old) + 1 \/ i \in 1..Len(old)
        BY <1>4
    <3>2. \A i \in 1..Len(Append(old, e)) :
             \/ Append(old, e)[i] = e
             \/ /\ Append(old, e)[i] \in Calls \ {e} /\ OnChain(Append(old, e)[i])
                /\ call[Append(old, e)[i]].session = s
        BY <3>1, <1>2, <1>3, <1>4, <1>5
    <3> QED BY <2>1, <3>2, <1>4, <1>5, <1>6 DEF InOrder
  <2>2. CASE t # s
    <3>1. \A i \in 1..Len(chain[t]) : chain[t][i] # e
        BY <1>6, SchedulingAssumption DEF Chains, InOrder, SchedulingAssumption
    <3> QED BY <2>2, <3>1, <1>5, <1>6 DEF Chains, InOrder, Distinct
  <2> QED BY <2>1, <2>2
<1>8. ASSUME NEW d \in Calls PROVE Placed(d)'
  <2>1. CASE d = e
      BY <2>1, <1>4, <1>5 DEF Placed, OnChain
  <2>2. CASE d # e /\ call[d].session = s
    <3>1. OnChain(d) => \E i \in 1..Len(old) : Append(old, e)[i] = d
        BY <2>2, <1>4, <1>5 DEF Chains, Placed
    <3>2. call[d].stage \in {"waiting", "encoding", "reading", "done"} =>
             old # <<>> /\ Head(old) = d
        BY <2>2, <1>5 DEF Chains, Placed, Heads
    <3>3. OnChain(d) => \E i \in 1..Len(chain'[s]) : chain'[s][i] = d
      <4>1. \A i \in 1..Len(old) : i \in 1..Len(Append(old, e))
          BY ONLY <1>4
      <4> QED BY ONLY <1>5, <3>1, <4>1
    <3>4. call[d].stage \in {"waiting", "encoding", "reading", "done"} =>
             chain'[s] # <<>> /\ Head(chain'[s]) = d
        BY ONLY <1>4, <1>5, <3>2
    <3>5. call'[d].stage = call[d].stage /\ call'[d].session = call[d].session
        BY <2>2
    <3> QED BY ONLY d \in Calls, <2>2, <3>3, <3>4, <3>5, PlacedAt
  <2>3. CASE d # e /\ call[d].session # s
    <3>1. call[d].stage # "idle" => call[d].session \in Sessions \ {s}
        BY <2>3 DEF Shape
    <3>2. Placed(d) /\ call'[d] = call[d]
        BY <2>3 DEF Chains
    <3> QED BY ONLY d \in Calls, <1>5, <3>1, <3>2, PlacedStays
  <2> QED BY <2>1, <2>2, <2>3
<1> QED BY <1>7, <1>8 DEF Chains

\* The call at the head of the chain of its Session leaves it.
LEMMA ChainShrinks ==
    ASSUME Chains, Types, Shape, SchedulingAssumption, NEW e \in Calls, NEW s \in Sessions,
           call[e].session = s, Heads(s, e), Leave(s), UNCHANGED life, ~OnChain(e)',
           \A d \in Calls \ {e} : call'[d] = call[d]
    PROVE  /\ Chains'
           /\ \A i \in 1..Len(chain'[s]) :
                 i + 1 \in 1..Len(chain[s]) /\ chain'[s][i] = chain[s][i + 1]
           /\ 1 \in 1..Len(chain[s]) /\ chain[s][1] = e /\ Distinct(chain[s])
<1> DEFINE old == chain[s]
<1>1. old \in Seq(Calls \cup Sessions) /\ Distinct(old) /\ old # <<>> /\ Head(old) = e
    BY DEF Types, Chains, InOrder, Heads
<1>2. \A i \in 1..Len(old) :
         \/ old[i] \in Calls /\ OnChain(old[i]) /\ call[old[i]].session = s
         \/ old[i] = s /\ i = Len(old) /\ life[s] = "closing"
    BY DEF Chains, InOrder
<1>3. life[s] = "closing" => old[Len(old)] = s
    BY DEF Chains, InOrder
<1>4. e # s
    BY SchedulingAssumption DEF SchedulingAssumption
<1> HIDE DEF old
<1>5. /\ Distinct(Tail(old)) /\ Len(Tail(old)) = Len(old) - 1
      /\ Len(old) \in Nat /\ 1 \in 1..Len(old) /\ e = old[1]
      /\ \A i \in 1..Len(Tail(old)) :
            i + 1 \in 1..Len(old) /\ Tail(old)[i] = old[i + 1] /\ Tail(old)[i] # e
      /\ \A i \in 1..Len(old) :
            old[i] # e => i - 1 \in 1..Len(Tail(old)) /\ Tail(old)[i - 1] = old[i]
    BY <1>1, TailDistinct
<1>6. /\ old = chain[s] /\ chain'[s] = Tail(old)
      /\ \A t \in Sessions \ {s} : chain'[t] = chain[t]
    BY DEF Leave, Types, old
<1>7. \A d \in Calls \ {e} :
         (OnChain(d)' <=> OnChain(d)) /\ call'[d].session = call[d].session
    BY DEF OnChain
<1>8. \A i \in 1..Len(Tail(old)) :
         \/ /\ Tail(old)[i] \in Calls \ {e} /\ OnChain(Tail(old)[i])
            /\ call[Tail(old)[i]].session = s
         \/ Tail(old)[i] = s /\ i = Len(Tail(old)) /\ life[s] = "closing"
    BY <1>2, <1>5
<1>9. life[s] = "closing" => Tail(old) # <<>> /\ Tail(old)[Len(Tail(old))] = s
  <2> SUFFICES ASSUME life[s] = "closing" PROVE Tail(old) # <<>> /\ Tail(old)[Len(Tail(old))] = s
      OBVIOUS
  <2>1. Len(old) - 1 \in 1..Len(Tail(old)) /\ Tail(old)[Len(old) - 1] = s
      BY <1>3, <1>4, <1>5
  <2>2. Len(Tail(old)) # 0 /\ Len(Tail(old)) = Len(old) - 1
      BY <2>1, <1>5
  <2>3. Tail(old) # <<>>
      BY <2>2, EmptySeq
  <2> QED BY <2>1, <2>2, <2>3
<1>10. life[s] # "disposed"
    BY <1>1, <1>6 DEF Chains, InOrder
<1>11. ASSUME NEW t \in Sessions PROVE InOrder(t)'
  <2>1. CASE t = s
      BY <2>1, <1>5, <1>6, <1>7, <1>8, <1>9, <1>10 DEF InOrder
  <2>2. CASE t # s
    <3>1. \A i \in 1..Len(chain[t]) : chain[t][i] # e
        BY <2>2, SchedulingAssumption DEF Chains, InOrder, SchedulingAssumption
    <3> QED BY <2>2, <3>1, <1>6, <1>7 DEF Chains, InOrder, Distinct
  <2> QED BY <2>1, <2>2
<1>12. ASSUME NEW d \in Calls PROVE Placed(d)'
  <2>1. CASE d = e
      BY <2>1 DEF Placed, OnChain
  <2>2. CASE d # e /\ call[d].session = s
    <3>1. call[d].stage \notin {"waiting", "encoding", "reading", "done"}
        BY <2>2, <1>1, <1>6 DEF Chains, Placed, Heads
    <3>2. OnChain(d) => \E i \in 1..Len(old) : old[i] = d
        BY <2>2, <1>6 DEF Chains, Placed
    <3>3. OnChain(d) => \E i \in 1..Len(Tail(old)) : Tail(old)[i] = d
        BY <2>2, <3>2, <1>5
    <3>4. call'[d].stage = call[d].stage /\ call'[d].session = call[d].session
        BY <2>2
    <3> QED BY ONLY d \in Calls, <1>6, <2>2, <3>1, <3>3, <3>4, PlacedAt
  <2>3. CASE d # e /\ call[d].session # s
    <3>1. call[d].stage # "idle" => call[d].session \in Sessions \ {s}
        BY <2>3 DEF Shape
    <3>2. Placed(d) /\ call'[d] = call[d]
        BY <2>3 DEF Chains
    <3> QED BY ONLY d \in Calls, <1>6, <3>1, <3>2, PlacedStays
  <2> QED BY <2>1, <2>2, <2>3
<1> QED BY <1>1, <1>5, <1>6, <1>11, <1>12 DEF Chains

\* What was promised to the reading calls stands while the chains, the outputs
\* and the reservations do.
LEMMA ReadsKept ==
    ASSUME Reads, UNCHANGED <<chain, readBatch, life, output>>,
           \A e \in Calls :
               /\ call'[e].kind = call[e].kind /\ call'[e].session = call[e].session
               /\ Reading(e)' => Reading(e) /\ call'[e].batch = call[e].batch
               /\ OnChain(e)' => OnChain(e)
               /\ call'[e].stage = "written" => call[e].stage = "written"
    PROVE  Reads'
<1> SUFFICES ASSUME NEW e \in Calls, Reading(e)'
             PROVE  LET s == call'[e].session IN
                    /\ readBatch'[s] = call'[e].batch
                    /\ life'[s] = "open"
                    /\ call'[e].stage = "written" => output'[s] = e
                    /\ \A d \in Calls \ {e} :
                          call'[d].kind # "run" /\ call'[d].session = s /\ OnChain(d)' =>
                              /\ call'[e].stage # "written"
                              /\ \A i, j \in 1..Len(chain'[s]) :
                                    chain'[s][i] = d /\ chain'[s][j] = e => i < j
    BY DEF Reads
<1>1. Reading(e) /\ call'[e].batch = call[e].batch /\ call'[e].session = call[e].session
    OBVIOUS
<1> QED BY <1>1 DEF Reads

\* What one Session does to its chain or its life concerns no call that reads in
\* another.
LEMMA ReadsElsewhere ==
    ASSUME Reads, NEW s \in Sessions, UNCHANGED <<call, readBatch>>,
           \A t \in Sessions \ {s} :
               chain'[t] = chain[t] /\ life'[t] = life[t] /\ output'[t] = output[t],
           \A e \in Calls : Reading(e)' => Reading(e) /\ call[e].session \in Sessions \ {s}
    PROVE  Reads'
<1> SUFFICES ASSUME NEW e \in Calls, Reading(e)'
             PROVE  LET t == call'[e].session IN
                    /\ readBatch'[t] = call'[e].batch
                    /\ life'[t] = "open"
                    /\ call'[e].stage = "written" => output'[t] = e
                    /\ \A d \in Calls \ {e} :
                          call'[d].kind # "run" /\ call'[d].session = t /\ OnChain(d)' =>
                              /\ call'[e].stage # "written"
                              /\ \A i, j \in 1..Len(chain'[t]) :
                                    chain'[t][i] = d /\ chain'[t][j] = e => i < j
    BY DEF Reads
<1>1. /\ Reading(e) /\ chain'[call[e].session] = chain[call[e].session]
      /\ life'[call[e].session] = life[call[e].session]
      /\ output'[call[e].session] = output[call[e].session]
    OBVIOUS
<1>2. \A d \in Calls : OnChain(d)' <=> OnChain(d)
    BY DEF OnChain
<1> QED BY <1>1, <1>2 DEF Reads

\* The lock has one holder: a run in its section, or a batch in its own.
LEMMA OneHolder ==
    ASSUME Lock, SchedulingAssumption
    PROVE  /\ \A d, e \in Calls : RunHolds(d) /\ RunHolds(e) => d = e
           /\ \A b, c \in Batches : Inside(b) /\ Inside(c) => b = c
           /\ \A e \in Calls, b \in Batches : ~(RunHolds(e) /\ Inside(b))
BY DEF Lock, HoldsLock, SchedulingAssumption

\* The line stands while nobody asks for the lock or returns it.
LEMMA LockKept ==
    ASSUME Lock, Types, UNCHANGED sections,
           \A x \in Calls \cup Batches : InLine(x) => InLine(x)',
           \A e \in Calls : RunHolds(e)' => HoldsLock(e),
           \A b \in Batches : Inside(b)' => HoldsLock(b)
    PROVE  Lock'
<1>1. \A i \in 1..Len(sections) : sections[i] \in Calls \cup Batches /\ InLine(sections[i])
    BY DEF Lock, Types
<1>2. \A i \in 1..Len(sections) : InLine(sections[i])'
    BY <1>1 DEF InLine, RunWaits, RunHolds, Inside
<1> QED BY <1>2 DEF Lock, Distinct, HoldsLock

\* Whoever asks for the lock stands at the end of the line.
LEMMA LockGrows ==
    ASSUME Lock, Types, NEW x \in Calls \cup Batches, AskLock(x), ~InLine(x), InLine(x)',
           \A y \in Calls \cup Batches : InLine(y) => InLine(y)',
           \A e \in Calls : RunHolds(e)' => RunHolds(e),
           \A b \in Batches : Inside(b)' => Inside(b)
    PROVE  Lock'
<1> DEFINE line == sections
<1>1. line \in Seq(Calls \cup Batches) /\ Distinct(line)
    BY DEF Lock, Types
<1>2. \A i \in 1..Len(line) : line[i] \in Calls \cup Batches /\ InLine(line[i]) /\ line[i] # x
    BY <1>1 DEF Lock
<1> HIDE DEF line
<1>3. /\ Distinct(Append(line, x)) /\ Append(line, x) # <<>>
      /\ Len(Append(line, x)) = Len(line) + 1 /\ Len(line) \in Nat
      /\ \A i \in 1..Len(line) : Append(line, x)[i] = line[i]
      /\ Append(line, x)[Len(line) + 1] = x
      /\ line # <<>> => Head(Append(line, x)) = Head(line)
    BY <1>1, <1>2, AppendDistinct
<1>4. sections' = Append(line, x) /\ line = sections
    BY DEF AskLock, line
<1>5. \A i \in 1..Len(Append(line, x)) :
         Append(line, x)[i] \in Calls \cup Batches /\ (i \in 1..Len(line) \/ i = Len(line) + 1)
    BY <1>2, <1>3
<1>6. \A i \in 1..Len(Append(line, x)) :
         \/ Append(line, x)[i] = x
         \/ Append(line, x)[i] \in Calls \cup Batches /\ InLine(Append(line, x)[i])
    BY <1>2, <1>3, <1>5
<1>7. \A i \in 1..Len(sections') : InLine(sections[i])'
    BY <1>4, <1>6 DEF InLine, RunWaits, RunHolds, Inside
<1>8. /\ \A e \in Calls : RunHolds(e)' => HoldsLock(e)'
      /\ \A b \in Batches : Inside(b)' => HoldsLock(b)'
    BY <1>3, <1>4 DEF Lock, HoldsLock
<1> QED BY <1>3, <1>4, <1>7, <1>8 DEF Lock

\* The holder returns the lock: nobody holds it until the next takes its turn.
LEMMA LockShrinks ==
    ASSUME Lock, Types, NEW x \in Calls \cup Batches, HoldsLock(x), ReturnLock,
           \A y \in (Calls \cup Batches) \ {x} : InLine(y) => InLine(y)',
           \A e \in Calls : RunHolds(e)' => RunHolds(e) /\ e # x,
           \A b \in Batches : Inside(b)' => Inside(b) /\ b # x
    PROVE  /\ Lock' /\ sections' \in Seq(Calls \cup Batches)
           /\ \A e \in Calls : ~RunHolds(e)'
           /\ \A b \in Batches : ~Inside(b)'
<1> DEFINE line == sections
<1>1. line \in Seq(Calls \cup Batches) /\ Distinct(line) /\ line # <<>> /\ Head(line) = x
    BY DEF Lock, Types, HoldsLock
<1>2. \A i \in 1..Len(line) : line[i] \in Calls \cup Batches /\ InLine(line[i])
    BY <1>1 DEF Lock
<1> HIDE DEF line
<1>3. /\ Tail(line) \in Seq(Calls \cup Batches) /\ Distinct(Tail(line))
      /\ \A i \in 1..Len(Tail(line)) :
            i + 1 \in 1..Len(line) /\ Tail(line)[i] = line[i + 1] /\ Tail(line)[i] # x
    BY <1>1, TailDistinct
<1>4. sections' = Tail(line) /\ line = sections
    BY DEF ReturnLock, line
<1>5. \A i \in 1..Len(Tail(line)) :
         Tail(line)[i] \in (Calls \cup Batches) \ {x} /\ InLine(Tail(line)[i])
    BY <1>2, <1>3
<1>6. \A i \in 1..Len(sections') : InLine(sections[i])'
    BY <1>4, <1>5 DEF InLine, RunWaits, RunHolds, Inside
<1>7. /\ \A e \in Calls : ~RunHolds(e)'
      /\ \A b \in Batches : ~Inside(b)'
    BY DEF Lock, HoldsLock
<1> QED BY <1>3, <1>4, <1>6, <1>7 DEF Lock

-------------------------------------------------------------------------------
(* Every step keeps the invariant. *)

\* A run is accepted.
LEMMA IssueRunStep ==
    ASSUME NEW r \in Calls, NEW s \in Sessions, IInv, IssueRun(r, s)
    PROVE  IInv'
<1> USE DEF IInv, Types
<1>1. Types'
    BY SequencesTyped DEF IssueRun, Join, CallRecord, Stages, Kinds
<1>2. Shape'
    BY DEF IssueRun, Shape, Inside
<1>3. Lock'
    BY LockKept DEF IssueRun, Lock, InLine, RunWaits, RunHolds, Inside
<1>4. Stack'
    BY DEF IssueRun, Stack, RunHolds, Inside
<1>5. Leases'
  <2>1. call[r].batch \notin Batches /\ call'[r].batch \notin Batches /\ call'[r].stage = "queued"
      BY SchedulingAssumption DEF SchedulingAssumption, IssueRun, Shape
  <2> QED BY <2>1, LeasesKept DEF IssueRun, Leases
<1>6. Chains'
    BY ChainGrows, SchedulingAssumption DEF IssueRun
<1>7. Reads'
    BY DEF IssueRun, Join, Chains, InOrder, Reads, Reading, Inside, OnChain, Distinct
<1> QED BY <1>1, <1>2, <1>3, <1>4, <1>5, <1>6, <1>7

\* A run leaves the head of its chain for the lock, or fails.
LEMMA StartRunStep ==
    ASSUME NEW r \in Calls, IInv, StartRun(r)
    PROVE  IInv'
<1> USE DEF IInv, Types
<1>a. PICK st \in {"waiting", "done"} :
         /\ call' = [call EXCEPT ![r].stage = st]
         /\ st = "waiting" => AskLock(r)
         /\ st = "done" => UNCHANGED sections
    BY DEF StartRun
<1>b. /\ call[r].kind = "run" /\ call[r].stage = "queued" /\ Heads(call[r].session, r)
      /\ UNCHANGED <<chain, readBatch, life, output, scopes, batch>>
    BY DEF StartRun
<1>c. /\ call'[r].stage = st /\ call'[r].kind = "run" /\ call'[r].session = call[r].session
      /\ call[r].batch \notin Batches /\ call'[r].batch = call[r].batch
      /\ \A e \in Calls \ {r} : call'[e] = call[e]
      /\ call' \in [Calls -> CallRecord]
    BY <1>a, <1>b, RunMoves, SchedulingAssumption
<1>1. Types'
  <2>1. sections' \in Seq(Calls \cup Batches)
    <3>1. CASE st = "waiting"
      <4>1. Append(sections, r) \in Seq(Calls \cup Batches)
          BY SequencesTyped
      <4> QED BY <1>a, <3>1, <4>1 DEF AskLock
    <3>2. CASE st = "done"
        BY <1>a, <3>2
    <3> QED BY <3>1, <3>2
  <2> QED BY <1>b, <1>c, <2>1
<1>2. Shape'
  <2>1. \A b \in Batches : Inside(b)' <=> Inside(b)
      BY <1>b DEF Inside
  <2>2. st \notin {"idle", "written", "failed"} /\ call[r].batch = Nobody
      BY <1>b DEF Shape
  <2>3. call[r].session \in Sessions
      BY <1>b DEF Shape
  <2> QED BY <1>b, <1>c, <2>1, <2>2, <2>3, ShapeKept
<1>3. Lock'
  <2>1. CASE st = "waiting"
      BY <2>1, <1>a, <1>b, <1>c, LockGrows, SchedulingAssumption
      DEF SchedulingAssumption, InLine, RunWaits, RunHolds, Inside
  <2>2. CASE st = "done"
      BY <2>2, <1>a, <1>b, <1>c, LockKept DEF Lock, InLine, RunWaits, RunHolds, Inside
  <2> QED BY <2>1, <2>2
<1>4. Stack'
  <2>1. \A e \in Calls : /\ RunHolds(e)' <=> RunHolds(e)
                         /\ RunHolds(e) => call'[e].stage = call[e].stage
      BY <1>b, <1>c DEF RunHolds
  <2> QED BY <1>b, <2>1 DEF Stack, Inside
<1>5. Leases'
    BY <1>b, <1>c, LeasesKept DEF Leases
<1>6. Chains'
    BY <1>b, <1>c, ChainsKept DEF OnChain
<1>7. Reads'
    BY <1>b, <1>c, ReadsKept DEF OnChain, Reading, Inside
<1> QED BY <1>1, <1>2, <1>3, <1>4, <1>5, <1>6, <1>7

\* A run gets the lock.
LEMMA EnterSectionStep ==
    ASSUME NEW r \in Calls, IInv, EnterSection(r)
    PROVE  IInv'
<1> USE DEF IInv, Types
<1>a. /\ call[r].kind = "run" /\ call[r].stage = "waiting" /\ call'[r].stage = "encoding"
      /\ call'[r].kind = "run" /\ call'[r].session = call[r].session
      /\ call[r].batch \notin Batches /\ call'[r].batch = call[r].batch
      /\ \A e \in Calls \ {r} : call'[e] = call[e]
      /\ call' \in [Calls -> CallRecord] /\ call[r].session \in Sessions
      /\ UNCHANGED <<chain, readBatch, life, output, sections, batch>>
    BY RunMoves, SchedulingAssumption DEF EnterSection
<1>1. Types'
    BY <1>a, SequencesTyped DEF EnterSection, PushScope
<1>2. Shape'
    BY ONLY r \in Calls, Shape, <1>a, RunShape
<1>3. Lock'
    BY <1>a, LockKept DEF EnterSection, Lock, InLine, RunWaits, RunHolds, Inside
<1>4. Stack'
  <2>1. /\ \A e \in Calls : ~RunHolds(e)
        /\ \A b \in Batches : ~Inside(b)
      BY <1>a, SchedulingAssumption
      DEF SchedulingAssumption, EnterSection, Lock, HoldsLock, RunHolds
  <2>2. scopes = <<>> /\ scopes' = Append(scopes, r)
      BY <2>1 DEF EnterSection, PushScope, Stack
  <2>3. scopes' = <<r>>
      BY <2>2
  <2> QED BY <1>a, <2>3 DEF Stack, RunHolds
<1>5. Leases'
    BY <1>a, LeasesKept DEF Leases
<1>6. Chains'
    BY <1>a, ChainsKept DEF OnChain
<1>7. Reads'
    BY <1>a, ReadsKept DEF OnChain, Reading, Inside
<1> QED BY <1>1, <1>2, <1>3, <1>4, <1>5, <1>6, <1>7

\* A run has submitted.
LEMMA PopRunScopesStep ==
    ASSUME NEW r \in Calls, IInv, PopRunScopes(r)
    PROVE  IInv'
<1> USE DEF IInv, Types
<1>a. /\ call[r].kind = "run" /\ call[r].stage = "encoding" /\ call'[r].stage = "reading"
      /\ call'[r].kind = "run" /\ call'[r].session = call[r].session
      /\ call[r].batch \notin Batches /\ call'[r].batch = call[r].batch
      /\ \A e \in Calls \ {r} : call'[e] = call[e]
      /\ call' \in [Calls -> CallRecord] /\ call[r].session \in Sessions
      /\ UNCHANGED <<chain, readBatch, life, sections, batch>>
    BY RunMoves, SchedulingAssumption DEF PopRunScopes
<1>b. /\ RunHolds(r) /\ scopes = <<r>> /\ \A b \in Batches : ~Inside(b)
      /\ \A e \in Calls \ {r} : ~RunHolds(e)
    BY <1>a, OneHolder, SchedulingAssumption DEF Stack, RunHolds
<1>1. Types'
  <2>1. output' \in [Sessions -> Calls \cup {Nobody}]
      BY <1>a DEF PopRunScopes
  <2> QED BY <1>a, <1>b, <2>1, SequencesTyped DEF PopRunScopes, PopScope
<1>2. Shape'
    BY ONLY r \in Calls, Shape, <1>a, RunShape
<1>3. Lock'
  <2>1. \A e \in Calls : (RunHolds(e)' <=> RunHolds(e)) /\ (RunWaits(e)' <=> RunWaits(e))
      BY <1>a DEF RunHolds, RunWaits
  <2>2. \A b \in Batches : Inside(b)' <=> Inside(b)
      BY <1>a DEF Inside
  <2>3. \A x \in Calls \cup Batches : InLine(x) => InLine(x)'
      BY <1>a, <2>1, <2>2 DEF InLine
  <2> QED BY <1>a, <2>1, <2>2, <2>3, LockKept DEF Lock
<1>4. Stack'
  <2>1. scopes' = <<>>
      BY <1>b DEF PopRunScopes, PopScope
  <2> QED BY <1>a, <1>b, <2>1 DEF Stack, RunHolds, Inside
<1>5. Leases'
    BY <1>a, LeasesKept DEF Leases
<1>6. Chains'
    BY <1>a, ChainsKept DEF OnChain
<1>7. Reads'
  <2>1. \A e \in Calls : ~Reading(e)'
      BY <1>a, <1>b DEF Reading, Inside, Shape
  <2> QED BY <2>1 DEF Reads
<1> QED BY <1>1, <1>2, <1>3, <1>4, <1>5, <1>6, <1>7

\* A run returns the lock.
LEMMA EndSectionStep ==
    ASSUME NEW r \in Calls, IInv, EndSection(r)
    PROVE  IInv'
<1> USE DEF IInv, Types
<1>a. /\ call[r].kind = "run" /\ call[r].stage = "reading" /\ call'[r].stage = "done"
      /\ call'[r].kind = "run" /\ call'[r].session = call[r].session
      /\ call[r].batch \notin Batches /\ call'[r].batch = call[r].batch
      /\ \A e \in Calls \ {r} : call'[e] = call[e]
      /\ call' \in [Calls -> CallRecord] /\ call[r].session \in Sessions
      /\ UNCHANGED <<chain, readBatch, life, output, scopes, batch>>
    BY RunMoves, SchedulingAssumption DEF EndSection
<1>b. /\ RunHolds(r) /\ HoldsLock(r) /\ scopes = <<>> /\ \A b \in Batches : ~Inside(b)
      /\ \A e \in Calls \ {r} : ~RunHolds(e)
    BY <1>a, OneHolder, SchedulingAssumption DEF Stack, Lock, RunHolds
<1>1. Types'
    BY <1>a, <1>b, SequencesTyped DEF EndSection, ReturnLock, HoldsLock
<1>2. Shape'
    BY ONLY r \in Calls, Shape, <1>a, RunShape
<1>3. Lock'
    BY <1>a, <1>b, LockShrinks DEF EndSection, InLine, RunWaits, RunHolds, Inside
<1>4. Stack'
    BY <1>a, <1>b DEF Stack, RunHolds, Inside
<1>5. Leases'
    BY <1>a, LeasesKept DEF Leases
<1>6. Chains'
    BY <1>a, ChainsKept DEF OnChain
<1>7. Reads'
    BY <1>a, ReadsKept DEF OnChain, Reading, Inside
<1> QED BY <1>1, <1>2, <1>3, <1>4, <1>5, <1>6, <1>7

\* A run settles.
LEMMA SettleRunStep ==
    ASSUME NEW r \in Calls, IInv, SettleRun(r)
    PROVE  IInv'
<1> USE DEF IInv, Types
<1>a. /\ call[r].session \in Sessions /\ Heads(call[r].session, r)
      /\ call'[r] = IdleCall /\ \A d \in Calls \ {r} : call'[d] = call[d]
    BY DEF SettleRun, Shape, Chains, Placed
<1>1. Types'
  <2>1. call' \in [Calls -> CallRecord]
      BY DEF SettleRun, IdleCall, CallRecord, Stages, Kinds
  <2> QED BY <2>1, <1>a, SequencesTyped DEF SettleRun, Leave, Heads
<1>2. Shape'
    BY <1>a DEF SettleRun, IdleCall, Shape, Inside
<1>3. Lock'
    BY <1>a, LockKept DEF SettleRun, IdleCall, Lock, InLine, RunWaits, RunHolds, Inside
<1>4. Stack'
    BY <1>a DEF SettleRun, IdleCall, Stack, RunHolds, Inside
<1>5. Leases'
  <2>1. call[r].batch \notin Batches /\ call'[r].batch \notin Batches /\ call'[r].stage = "idle"
      BY <1>a, SchedulingAssumption DEF SchedulingAssumption, SettleRun, Shape, IdleCall
  <2> QED BY <1>a, <2>1, LeasesKept DEF SettleRun, Leases
<1>6. Chains'
    BY <1>a, ChainShrinks, SchedulingAssumption DEF SettleRun, IdleCall, OnChain
<1>7. Reads'
  <2> DEFINE s == call[r].session
  <2>1. \A i \in 1..Len(chain'[s]) :
           i + 1 \in 1..Len(chain[s]) /\ chain'[s][i] = chain[s][i + 1]
      BY <1>a, ChainShrinks, SchedulingAssumption DEF SettleRun, IdleCall, OnChain
  <2>2. /\ UNCHANGED <<readBatch, life, output, batch>>
        /\ \A t \in Sessions \ {s} : chain'[t] = chain[t]
      BY <1>a DEF SettleRun, Leave
  <2>3. \A d \in Calls : call'[d].kind # "run" => call'[d] = call[d]
      BY ONLY <1>a DEF IdleCall
  <2>4. \A i \in 1..Len(chain[s]) : i \in Nat
      OBVIOUS
  <2> SUFFICES ASSUME NEW e \in Calls, Reading(e)'
               PROVE  LET t == call'[e].session IN
                      /\ readBatch'[t] = call'[e].batch
                      /\ life'[t] = "open"
                      /\ call'[e].stage = "written" => output'[t] = e
                      /\ \A d \in Calls \ {e} :
                            call'[d].kind # "run" /\ call'[d].session = t /\ OnChain(d)' =>
                                /\ call'[e].stage # "written"
                                /\ \A i, j \in 1..Len(chain'[t]) :
                                      chain'[t][i] = d /\ chain'[t][j] = e => i < j
      BY DEF Reads
  <2> HIDE DEF s
  <2>5. Reading(e) /\ call'[e] = call[e]
      BY ONLY e \in Calls, Reading(e)', <2>2, <2>3 DEF Reading, Inside
  <2>6. call[e].session \in Sessions
      BY ONLY e \in Calls, Shape, <2>5 DEF Shape, Reading, Inside
  <2>7. ASSUME NEW d \in Calls \ {e},
               call'[d].kind # "run", call'[d].session = call[e].session, OnChain(d)'
        PROVE  /\ call[e].stage # "written"
               /\ \A i, j \in 1..Len(chain[call[e].session]) :
                     chain[call[e].session][i] = d /\ chain[call[e].session][j] = e => i < j
      BY ONLY e \in Calls, d \in Calls \ {e}, Reads, <2>3, <2>5, <2>7 DEF Reads, OnChain
  <2>8. \A d \in Calls, i, j \in 1..Len(chain'[call[e].session]) :
           (\A m, n \in 1..Len(chain[call[e].session]) :
               chain[call[e].session][m] = d /\ chain[call[e].session][n] = e => m < n)
           /\ chain'[call[e].session][i] = d /\ chain'[call[e].session][j] = e => i < j
    <3>1. CASE call[e].session = s
        BY ONLY <2>1, <2>4, <3>1
    <3>2. CASE call[e].session # s
        BY ONLY <2>2, <2>6, <3>2
    <3> QED BY <3>1, <3>2
  <2>9. /\ readBatch[call[e].session] = call[e].batch /\ life[call[e].session] = "open"
        /\ call[e].stage = "written" => output[call[e].session] = e
      BY ONLY e \in Calls, Reads, <2>5 DEF Reads
  <2> QED BY ONLY <2>2, <2>5, <2>7, <2>8, <2>9
<1> QED BY <1>1, <1>2, <1>3, <1>4, <1>5, <1>6, <1>7

\* An enqueue is accepted.
LEMMA IssueEnqueueStep ==
    ASSUME NEW e \in Calls, NEW s \in Sessions, NEW b \in Batches,
           NEW kind \in {"enqueue", "enqueueRead"}, IInv, IssueEnqueue(e, s, b, kind)
    PROVE  IInv'
<1> USE DEF IInv, Types
<1>a. /\ call[e].stage = "idle" /\ life[s] = "open" /\ readBatch[s] # b
      /\ batch[b].state = "open"
      /\ call'[e] = [stage |-> "queued", kind |-> kind, session |-> s, batch |-> b]
      /\ \A d \in Calls \ {e} : call'[d] = call[d]
      /\ batch' = [batch EXCEPT ![b].leases = @ + 1]
      /\ Join(s, e) /\ UNCHANGED <<life, output, sections, scopes>>
      /\ readBatch' = [readBatch EXCEPT ![s] = IF kind = "enqueueRead" THEN b ELSE @]
    BY DEF IssueEnqueue, Admit
<1>b. /\ \A c \in Batches : /\ batch'[c].state = batch[c].state
                            /\ batch'[c].failed = batch[c].failed
                            /\ batch'[c].leases = IF c = b THEN batch[b].leases + 1
                                                 ELSE batch[c].leases
      /\ \A c \in Batches : Inside(c)' <=> Inside(c)
    BY <1>a DEF BatchRecord, Inside
<1>c. /\ call'[e].stage = "queued" /\ call'[e].kind = kind /\ kind # "run"
      /\ call'[e].session = s /\ call'[e].batch = b /\ Inside(b)
    BY <1>a DEF Inside
<1>d. \A d \in Calls : /\ RunHolds(d)' <=> RunHolds(d)
                       /\ RunWaits(d)' <=> RunWaits(d)
                       /\ RunHolds(d) => call'[d].stage = call[d].stage
    BY <1>a, <1>c DEF RunHolds, RunWaits
<1>1. Types'
  <2>1. call' \in [Calls -> CallRecord]
      BY DEF IssueEnqueue, Admit, CallRecord, Stages, Kinds
  <2>2. batch' \in [Batches -> BatchRecord]
    <3>1. batch[b].leases + 1 \in Int /\ batch[b].state \in BatchStates /\ batch[b].failed \in BOOLEAN
        BY DEF BatchRecord
    <3> QED BY <1>a, <3>1, BatchTyped
  <2>3. chain' \in [Sessions -> Seq(Calls \cup Sessions)]
      BY <1>a, SequencesTyped DEF Join
  <2> QED BY <1>a, <2>1, <2>2, <2>3
<1>2. Shape'
  <2>1. ASSUME NEW c \in Batches, batch[c].state = "ended" PROVE batch'[c].state = "ended"
      BY <1>b, <2>1
  <2> QED BY <1>a, <1>b, <1>c, <2>1, ShapeKept
<1>3. Lock'
  <2>1. \A x \in Calls \cup Batches : InLine(x) => InLine(x)'
      BY <1>b, <1>d DEF InLine
  <2> QED BY <1>a, <1>b, <1>d, <2>1, LockKept DEF Lock
<1>4. Stack'
    BY <1>a, <1>b, <1>d DEF Stack
<1>5. Leases'
  <2>1. Leased(b)' = Leased(b) \cup {e} /\ e \notin Leased(b)
      BY <1>a DEF Leased
  <2>2. \A c \in Batches \ {b} : Leased(c)' = Leased(c)
      BY <1>a, <1>c DEF Leased
  <2>3. IsFiniteSet(Leased(b)') /\ Cardinality(Leased(b)') = batch[b].leases + 1
    <3>1. IsFiniteSet(Leased(b)) /\ batch[b].leases = Cardinality(Leased(b))
        BY DEF Leases
    <3>2. /\ IsFiniteSet(Leased(b) \cup {e})
          /\ Cardinality(Leased(b) \cup {e}) = Cardinality(Leased(b)) + 1
        BY <2>1, <3>1, FS_AddElement
    <3> QED BY <2>1, <3>1, <3>2
  <2>4. ASSUME NEW c \in Batches
        PROVE  /\ IsFiniteSet(Leased(c)') /\ batch'[c].leases = Cardinality(Leased(c)')
               /\ Leased(c)' # {} => batch'[c].state \in {"open", "finished"}
      BY <1>a, <1>b, <2>2, <2>3 DEF Leases
  <2>5. \A d \in Calls : call'[d].stage = "failed" => batch'[call'[d].batch].failed
    <3>1. ASSUME NEW d \in Calls, call[d].stage = "failed"
          PROVE  call[d].batch \in Batches /\ batch[call[d].batch].failed
        BY <3>1 DEF Leases, Shape
    <3>2. ASSUME NEW d \in Calls \ {e}, call'[d].stage = "failed"
          PROVE  batch'[call'[d].batch].failed
        BY ONLY <1>a, <1>b, <3>1, <3>2
    <3>3. call'[e].stage # "failed"
        BY ONLY <1>c
    <3> QED BY ONLY <3>2, <3>3
  <2> QED BY <2>4, <2>5 DEF Leases
<1>6. Chains'
    BY <1>a, <1>c, ChainGrows, SchedulingAssumption
<1>7. Reads'
  <2>1. \A d \in Calls \ {e} : Reading(d) => call[d].session # s
    <3>1. \A d \in Calls : Reading(d) => call[d].batch = b
        BY <1>a, OneHolder, SchedulingAssumption DEF Reading, Inside, Shape
    <3> QED BY <1>a, <3>1 DEF Reads
  <2>2. \A i \in 1..Len(chain[s]) : chain[s][i] # e
      BY <1>a, SchedulingAssumption DEF SchedulingAssumption, Chains, InOrder, OnChain
  <2>3. /\ chain'[s] = Append(chain[s], e) /\ \A t \in Sessions \ {s} : chain'[t] = chain[t]
        /\ chain[s] \in Seq(Calls \cup Sessions)
      BY <1>a DEF Join
  <2> SUFFICES ASSUME NEW d \in Calls, Reading(d)'
               PROVE  LET t == call'[d].session IN
                      /\ readBatch'[t] = call'[d].batch
                      /\ life'[t] = "open"
                      /\ call'[d].stage = "written" => output'[t] = d
                      /\ \A f \in Calls \ {d} :
                            call'[f].kind # "run" /\ call'[f].session = t /\ OnChain(f)' =>
                                /\ call'[d].stage # "written"
                                /\ \A i, j \in 1..Len(chain'[t]) :
                                      chain'[t][i] = f /\ chain'[t][j] = d => i < j
      BY DEF Reads
  <2>4. CASE d = e
    <3>1. /\ call'[d].session = s /\ call'[d].batch = b /\ call'[d].stage = "queued"
          /\ readBatch'[s] = b
        BY <1>a, <2>4 DEF Reading
    <3>2. \A i, j \in 1..Len(chain'[s]) : chain'[s][j] = e /\ chain'[s][i] # e => i < j
        BY <2>2, <2>3, AppendProperties
    <3> QED BY <1>a, <2>4, <3>1, <3>2
  <2>5. CASE d # e
    <3>1. Reading(d) /\ call'[d] = call[d] /\ call[d].session \in Sessions \ {s}
        BY <1>a, <1>b, <2>1, <2>5 DEF Reading, Shape
    <3>2. \A f \in Calls : call'[f].session = call[d].session => f # e /\ call'[f] = call[f]
        BY <1>a, <3>1
    <3> QED BY <1>a, <2>3, <3>1, <3>2 DEF Reads, OnChain
  <2> QED BY <2>4, <2>5
<1> QED BY <1>1, <1>2, <1>3, <1>4, <1>5, <1>6, <1>7

\* The body of an enqueue starts.
LEMMA StartEnqueueStep ==
    ASSUME NEW e \in Calls, IInv, StartEnqueue(e)
    PROVE  IInv'
<1> USE DEF IInv, Types
<1>a. /\ call[e].kind # "run" /\ call[e].stage = "queued" /\ call'[e].stage = "encoding"
      /\ Heads(call[e].session, e)
      /\ call'[e].kind = call[e].kind /\ call'[e].session = call[e].session
      /\ call'[e].batch = call[e].batch
      /\ \A d \in Calls \ {e} : call'[d] = call[d]
      /\ UNCHANGED <<chain, readBatch, life, output, sections, scopes, batch>>
    BY DEF StartEnqueue, CallRecord
<1>1. Types'
    BY StageTyped DEF StartEnqueue, Stages
<1>2. Shape'
  <2>1. \A b \in Batches : Inside(b) \/ batch[b].state = "ended"
                               => Inside(b)' \/ batch'[b].state = "ended"
      BY ONLY <1>a DEF Inside
  <2>2. /\ call[e].session \in Sessions /\ call[e].batch \in Batches
        /\ Inside(call[e].batch) \/ batch[call[e].batch].state = "ended"
      BY ONLY e \in Calls, Shape, <1>a DEF Shape
  <2>3. \E b \in Batches :
           call'[e].batch = b /\ (Inside(b)' \/ batch'[b].state = "ended")
      BY ONLY <1>a, <2>1, <2>2 DEF Inside
  <2> QED BY ONLY e \in Calls, Shape, <1>a, <2>1, <2>2, <2>3, ShapeKept
<1>b. /\ \A d \in Calls : /\ RunHolds(d)' <=> RunHolds(d)
                          /\ RunWaits(d)' <=> RunWaits(d)
                          /\ RunHolds(d) => call'[d].stage = call[d].stage
      /\ \A b \in Batches : Inside(b)' <=> Inside(b)
    BY ONLY e \in Calls, <1>a DEF RunHolds, RunWaits, Inside
<1>3. Lock'
  <2>1. \A x \in Calls \cup Batches : InLine(x) => InLine(x)'
      BY ONLY <1>a, <1>b DEF InLine
  <2> QED BY <1>a, <1>b, <2>1, LockKept DEF Lock
<1>4. Stack'
    BY ONLY Stack, <1>a, <1>b DEF Stack
<1>5. Leases'
  <2>1. \A d \in Calls : \/ call'[d] = call[d]
                         \/ /\ call'[d].batch = call[d].batch
                            /\ call[d].stage = "queued" /\ call'[d].stage = "encoding"
      BY <1>a
  <2> QED BY <1>a, <2>1, LeasesKept DEF Leases
<1>6. Chains'
    BY <1>a, ChainsKept DEF OnChain
<1>7. Reads'
    BY <1>a, ReadsKept DEF OnChain, Reading, Inside
<1> QED BY <1>1, <1>2, <1>3, <1>4, <1>5, <1>6, <1>7

\* The body of an enqueue leaves its batch.
LEMMA EndEnqueueStep ==
    ASSUME NEW e \in Calls, IInv, EndEnqueue(e)
    PROVE  IInv'
<1> USE DEF IInv, Types
<1>o. call[e].kind # "run" /\ call[e].stage = "encoding"
    BY DEF EndEnqueue
<1>p. PICK s \in Sessions, b \in Batches : s = call[e].session /\ b = call[e].batch
    BY <1>o DEF Shape
<1>a. /\ call[e].kind # "run" /\ call[e].stage = "encoding"
      /\ Heads(s, e) /\ batch[b].state \in {"open", "finished"}
    BY <1>o, <1>p DEF Chains, Placed, Leases, Leased
<1>b. PICK ok \in BOOLEAN, failed \in BOOLEAN :
         /\ call' = [call EXCEPT ![e].stage = IF ok THEN "written" ELSE "failed"]
         /\ output' = [output EXCEPT ![s] = IF ok THEN e ELSE @]
         /\ batch' = [batch EXCEPT ![b] =
                       [@ EXCEPT !.leases = batch[b].leases - 1, !.failed = failed]]
         /\ batch[b].failed => failed
         /\ ~ok => failed
  <2>1. PICK ok \in BOOLEAN :
           /\ call' = [call EXCEPT ![e].stage = IF ok THEN "written" ELSE "failed"]
           /\ output' = [output EXCEPT ![call[e].session] = IF ok THEN e ELSE @]
           /\ batch' = [batch EXCEPT ![call[e].batch] =
                           [@ EXCEPT !.leases = batch[call[e].batch].leases - 1,
                                     !.failed = batch[call[e].batch].failed \/ ~ok]]
      BY DEF EndEnqueue
  <2> DEFINE failed == batch[call[e].batch].failed \/ ~ok
  <2>2. failed \in BOOLEAN /\ (batch[b].failed => failed) /\ (~ok => failed)
      BY <1>p
  <2>3. batch' = [batch EXCEPT ![call[e].batch] =
                    [@ EXCEPT !.leases = batch[call[e].batch].leases - 1, !.failed = failed]]
      BY <2>1
  <2> HIDE DEF failed
  <2>4. call' = [call EXCEPT ![e].stage = IF ok THEN "written" ELSE "failed"]
      BY <2>1
  <2>5. output' = [output EXCEPT ![s] = IF ok THEN e ELSE @]
      BY <1>p, <2>1
  <2>6. batch' = [batch EXCEPT ![b] =
                    [@ EXCEPT !.leases = batch[b].leases - 1, !.failed = failed]]
    <3> DEFINE Left(c) == [batch[c] EXCEPT !.leases = batch[c].leases - 1, !.failed = failed]
    <3>1. batch' = [batch EXCEPT ![call[e].batch] = Left(call[e].batch)]
        BY <2>3
    <3> HIDE DEF Left
    <3>2. batch' = [batch EXCEPT ![b] = Left(b)]
        BY <1>p, <3>1
    <3> QED BY <3>2 DEF Left
  <2> QED BY <2>2, <2>4, <2>5, <2>6
<1>c. /\ call'[e].stage = IF ok THEN "written" ELSE "failed"
      /\ call'[e].kind = call[e].kind /\ call'[e].session = s /\ call'[e].batch = b
      /\ \A d \in Calls \ {e} : call'[d] = call[d]
    BY <1>b, <1>p DEF CallRecord
<1>d. /\ \A c \in Batches \ {b} : batch'[c] = batch[c]
      /\ batch'[b].state = batch[b].state /\ batch'[b].leases = batch[b].leases - 1
      /\ batch'[b].failed = failed
      /\ \A c \in Batches : Inside(c)' <=> Inside(c)
  <2>1. batch[b] \in BatchRecord
      BY <1>a
  <2>2. /\ batch'[b] = [batch[b] EXCEPT !.leases = batch[b].leases - 1, !.failed = failed]
        /\ \A c \in Batches \ {b} : batch'[c] = batch[c]
      BY <1>a, <1>b
  <2>3. /\ batch'[b].state = batch[b].state /\ batch'[b].leases = batch[b].leases - 1
        /\ batch'[b].failed = failed
      BY <2>1, <2>2 DEF BatchRecord
  <2> QED BY <1>a, <2>2, <2>3 DEF Inside
<1>e. Leave(s) /\ UNCHANGED <<readBatch, life, sections, scopes>>
    BY <1>p DEF EndEnqueue
<1>f. \A d \in Calls : /\ RunHolds(d)' <=> RunHolds(d)
                       /\ RunWaits(d)' <=> RunWaits(d)
                       /\ RunHolds(d) => call'[d].stage = call[d].stage
    BY <1>a, <1>c DEF RunHolds, RunWaits
<1>1. Types'
  <2>1. call' \in [Calls -> CallRecord]
      BY <1>b, StageTyped DEF Stages
  <2>2. batch' \in [Batches -> BatchRecord]
    <3>1. batch[b].leases - 1 \in Int /\ batch[b].state \in BatchStates
        BY <1>a DEF BatchRecord
    <3> QED BY <1>a, <1>b, <3>1, BatchTyped
  <2>3. chain' \in [Sessions -> Seq(Calls \cup Sessions)]
      BY <1>a, <1>e, SequencesTyped DEF Leave, Heads
  <2> QED BY <1>a, <1>b, <1>e, <2>1, <2>2, <2>3
<1>2. Shape'
  <2>1. ASSUME NEW c \in Batches, batch[c].state = "ended" PROVE batch'[c].state = "ended"
      BY <1>d, <2>1
  <2>3. Inside(b)'
      BY <1>a, <1>d DEF Inside
  <2>4. ASSUME NEW c \in Batches, Inside(c) \/ batch[c].state = "ended"
        PROVE  Inside(c)' \/ batch'[c].state = "ended"
      BY <1>d, <2>1, <2>4
  <2>5. ok => call'[e].stage = "written"
      BY <1>c
  <2>6. ~ok => call'[e].stage = "failed"
      BY <1>c
  <2> QED BY <1>a, <1>c, <2>3, <2>4, <2>5, <2>6, ShapeKept
<1>3. Lock'
  <2>1. \A x \in Calls \cup Batches : InLine(x) => InLine(x)'
      BY <1>d, <1>f DEF InLine
  <2> QED BY <1>d, <1>e, <1>f, <2>1, LockKept DEF Lock
<1>4. Stack'
    BY <1>d, <1>e, <1>f DEF Stack
<1>5. Leases'
  <2>1. Leased(b)' = Leased(b) \ {e} /\ e \in Leased(b)
    <3>1. ASSUME NEW d \in Calls
          PROVE  /\ call'[d].batch = b /\ call'[d].stage \in {"queued", "encoding"}
                    <=> d # e /\ call[d].batch = b /\ call[d].stage \in {"queued", "encoding"}
        BY <1>c
    <3> QED BY <1>a, <1>p, <3>1 DEF Leased
  <2>2. \A c \in Batches \ {b} : Leased(c)' = Leased(c)
    <3>1. ASSUME NEW c \in Batches \ {b}, NEW d \in Calls
          PROVE  /\ call'[d].batch = c /\ call'[d].stage \in {"queued", "encoding"}
                    <=> call[d].batch = c /\ call[d].stage \in {"queued", "encoding"}
        BY <1>c, <1>p
    <3> QED BY <3>1 DEF Leased
  <2>3. IsFiniteSet(Leased(b)') /\ Cardinality(Leased(b)') = batch[b].leases - 1
    <3>1. IsFiniteSet(Leased(b)) /\ batch[b].leases = Cardinality(Leased(b))
        BY DEF Leases
    <3>2. /\ IsFiniteSet(Leased(b) \ {e})
          /\ Cardinality(Leased(b) \ {e}) = Cardinality(Leased(b)) - 1
        BY <2>1, <3>1, FS_RemoveElement
    <3> QED BY <2>1, <3>1, <3>2
  <2>4. ASSUME NEW c \in Batches
        PROVE  /\ IsFiniteSet(Leased(c)') /\ batch'[c].leases = Cardinality(Leased(c)')
               /\ Leased(c)' # {} => batch'[c].state \in {"open", "finished"}
    <3>1. CASE c = b
        BY <1>a, <1>d, <2>3, <3>1
    <3>2. CASE c # b
        BY <1>d, <2>2, <3>2 DEF Leases
    <3> QED BY <3>1, <3>2
  <2>5. \A d \in Calls : call'[d].stage = "failed" => batch'[call'[d].batch].failed
    <3>1. ASSUME NEW d \in Calls \ {e}, call[d].stage = "failed"
          PROVE  call[d].batch \in Batches /\ batch[call[d].batch].failed
        BY <3>1 DEF Leases, Shape
    <3>2. ASSUME NEW c \in Batches, batch[c].failed PROVE batch'[c].failed
        BY <3>2, <1>b, <1>d
    <3>3. ~ok => batch'[b].failed
        BY <1>b, <1>d
    <3> QED BY <1>c, <3>1, <3>2, <3>3
  <2> QED BY <2>4, <2>5 DEF Leases
<1>6. Chains'
    BY <1>a, <1>c, <1>e, <1>p, ChainShrinks, SchedulingAssumption DEF OnChain
<1>7. Reads'
  <2>1. /\ \A i \in 1..Len(chain'[s]) :
              i + 1 \in 1..Len(chain[s]) /\ chain'[s][i] = chain[s][i + 1]
        /\ 1 \in 1..Len(chain[s]) /\ chain[s][1] = e
    <3>1. ~OnChain(e)'
        BY <1>c DEF OnChain
    <3> QED BY <1>a, <1>c, <1>e, <1>p, <3>1, ChainShrinks, SchedulingAssumption
  <2>2. \A t \in Sessions \ {s} : chain'[t] = chain[t] /\ output'[t] = output[t]
      BY <1>a, <1>b, <1>e DEF Leave
  <2>3. Len(chain[s]) \in Nat /\ Len(chain'[s]) \in Nat
      BY <1>a, <1>1, LenProperties
  <2> SUFFICES ASSUME NEW d \in Calls, Reading(d)'
               PROVE  LET t == call'[d].session IN
                      /\ readBatch'[t] = call'[d].batch
                      /\ life'[t] = "open"
                      /\ call'[d].stage = "written" => output'[t] = d
                      /\ \A f \in Calls \ {d} :
                            call'[f].kind # "run" /\ call'[f].session = t /\ OnChain(f)' =>
                                /\ call'[d].stage # "written"
                                /\ \A i, j \in 1..Len(chain'[t]) :
                                      chain'[t][i] = f /\ chain'[t][j] = d => i < j
      BY DEF Reads
  <2>4. Reading(d) /\ call'[d].session = call[d].session /\ call'[d].batch = call[d].batch
    <3>1. call'[d].kind = call[d].kind /\ call'[d].batch = call[d].batch /\ call'[d].session = call[d].session
        BY <1>c, <1>p
    <3>2. call[d].kind # "run" /\ call[d].batch \in Batches
        BY <3>1 DEF Reading, Shape
    <3>3. PICK c \in Batches : c = call[d].batch
        BY <3>2
    <3>4. Inside(c)' /\ call'[d].stage # "failed"
        BY <3>1, <3>3 DEF Reading, Inside
    <3>5. call[d].stage # "failed"
        BY <1>a, <1>c, <3>4
    <3> QED BY <1>d, <3>1, <3>3, <3>4, <3>5 DEF Reading
  <2>5. \A f \in Calls : OnChain(f)' => /\ f # e /\ OnChain(f) /\ call'[f] = call[f]
      BY <1>c DEF OnChain
  <2>6. CASE d = e
    <3>1. \A f \in Calls \ {e} :
             call[f].kind # "run" /\ call[f].session = s => ~OnChain(f)
      <4> SUFFICES ASSUME NEW f \in Calls \ {e}, call[f].kind # "run", call[f].session = s,
                          OnChain(f)
                   PROVE  FALSE
          OBVIOUS
      <4>1. PICK i \in 1..Len(chain[s]) : chain[s][i] = f
          BY DEF Chains, Placed
      <4>2. Reading(e)
          BY ONLY <2>4, <2>6
      <4>3. i < 1
          BY ONLY <1>p, <2>1, <4>1, <4>2, Reads, OnChain(f), f \in Calls \ {e}, e \in Calls,
                  call[f].kind # "run", call[f].session = s DEF Reads
      <4> QED BY <2>3, <4>1, <4>3
    <3>2. output'[s] = e
        BY <1>a, <1>b, <1>c, <2>6 DEF Reading
    <3> QED BY <1>c, <1>e, <1>p, <2>4, <2>5, <2>6, <3>1, <3>2 DEF Reads
  <2>7. CASE d # e /\ call[d].session = s
    <3>1. call[d].stage # "written" /\ call'[d] = call[d]
        BY <1>a, <1>c, <1>p, <2>4, <2>7 DEF Reads, OnChain
    <3>2. ASSUME NEW f \in Calls \ {d}, call'[f].kind # "run", call'[f].session = s, OnChain(f)'
          PROVE  \A i, j \in 1..Len(chain'[s]) :
                    chain'[s][i] = f /\ chain'[s][j] = d => i < j
      <4>1. \A i, j \in 1..Len(chain[s]) : chain[s][i] = f /\ chain[s][j] = d => i < j
        <5>1. f \in Calls \ {d} /\ OnChain(f) /\ call[f].kind # "run" /\ call[f].session = s
            BY <3>2, <2>5
        <5>2. \A i, j \in 1..Len(chain[call[d].session]) :
                 chain[call[d].session][i] = f /\ chain[call[d].session][j] = d => i < j
            BY <2>4, <2>7, <5>1 DEF Reads
        <5> QED BY <2>7, <5>2
      <4> SUFFICES ASSUME NEW i \in 1..Len(chain'[s]), NEW j \in 1..Len(chain'[s]),
                          chain'[s][i] = f, chain'[s][j] = d
                   PROVE  i < j
          OBVIOUS
      <4>2. i + 1 \in 1..Len(chain[s]) /\ j + 1 \in 1..Len(chain[s]) /\ i \in Nat /\ j \in Nat
          BY <2>1, <2>3
      <4>3. i + 1 < j + 1
          BY <2>1, <4>1, <4>2
      <4> QED BY <4>2, <4>3
    <3>3. readBatch[s] = call[d].batch /\ life[s] = "open"
        BY ONLY <2>4, <2>7, Reads, d \in Calls DEF Reads
    <3> QED BY ONLY <1>e, <2>4, <2>7, <3>1, <3>2, <3>3
  <2>8. CASE d # e /\ call[d].session # s
    <3>1. call'[d] = call[d] /\ call[d].session \in Sessions \ {s}
        BY <1>c, <2>4, <2>8 DEF Shape, Reading
    <3>2. /\ chain'[call[d].session] = chain[call[d].session]
          /\ output'[call[d].session] = output[call[d].session]
        BY <2>2, <3>1
    <3>3. \A f \in Calls \ {d} :
             call'[f].kind # "run" /\ call'[f].session = call[d].session /\ OnChain(f)' =>
                 /\ call[d].stage # "written"
                 /\ \A i, j \in 1..Len(chain[call[d].session]) :
                       chain[call[d].session][i] = f /\ chain[call[d].session][j] = d => i < j
        BY <2>4, <2>5 DEF Reads
    <3> QED BY <1>e, <2>4, <2>8, <3>1, <3>2, <3>3 DEF Reads
  <2> QED BY <2>6, <2>7, <2>8
<1> QED BY <1>1, <1>2, <1>3, <1>4, <1>5, <1>6, <1>7

\* A batch asks for the lock.
LEMMA BeginBatchStep ==
    ASSUME NEW b \in Batches, IInv, BeginBatch(b)
    PROVE  IInv'
<1> USE DEF IInv, Types
<1>1. Types'
  <2>1. batch[b].leases \in Int /\ batch[b].failed \in BOOLEAN
      BY DEF BatchRecord
  <2> QED BY <2>1, BatchTyped, SequencesTyped DEF BeginBatch, AskLock, BatchStates
<1>2. Shape'
    BY DEF BeginBatch, BatchRecord, Shape, Inside
<1>3. Lock'
  <2>1. /\ batch[b].state = "none" /\ batch'[b].state = "waiting" /\ AskLock(b)
        /\ \A c \in Batches \ {b} : batch'[c] = batch[c]
        /\ UNCHANGED call
      BY DEF BeginBatch, BatchRecord
  <2>2. \A c \in Batches : Inside(c)' => Inside(c)
      BY <2>1 DEF Inside
  <2>3. \A y \in Calls \cup Batches : InLine(y) => InLine(y)'
      BY <2>1 DEF InLine, RunWaits, RunHolds, Inside
  <2>4. ~InLine(b) /\ InLine(b)'
      BY <2>1, SchedulingAssumption DEF SchedulingAssumption, InLine, Inside
  <2> QED BY <2>1, <2>2, <2>3, <2>4, LockGrows DEF RunHolds
<1>4. Stack'
    BY DEF BeginBatch, BatchRecord, Stack, RunHolds, Inside
<1>5. Leases'
    BY LeasesKept DEF BeginBatch, BatchRecord, Shape, Leases
<1>6. Chains'
    BY ChainsKept DEF BeginBatch, OnChain
<1>7. Reads'
    BY ReadsKept DEF BeginBatch, BatchRecord, Shape, OnChain, Reading, Inside
<1> QED BY <1>1, <1>2, <1>3, <1>4, <1>5, <1>6, <1>7

\* A batch gets the lock.
LEMMA EnterBatchStep ==
    ASSUME NEW b \in Batches, IInv, EnterBatch(b)
    PROVE  IInv'
<1> USE DEF IInv, Types
<1>a. /\ batch[b].state = "waiting" /\ HoldsLock(b)
      /\ \A c \in Batches \ {b} : batch'[c] = batch[c]
      /\ UNCHANGED <<call, chain, readBatch, life, output>>
    BY DEF EnterBatch
<1>b. \/ /\ batch'[b] = NoBatch /\ ReturnLock /\ UNCHANGED scopes
      \/ /\ batch'[b] = [batch[b] EXCEPT !.state = "open"] /\ PushScope(b)
         /\ UNCHANGED sections
    BY DEF EnterBatch
<1>c. /\ \A e \in Calls : ~RunHolds(e)
      /\ \A c \in Batches : ~Inside(c)
    BY <1>a, SchedulingAssumption DEF SchedulingAssumption, Lock, HoldsLock, Inside
<1>d. \A e \in Calls : call[e].kind # "run" => call[e].batch # b
    BY <1>a DEF Shape, Inside
<1>1. Types'
  <2>1. NoBatch \in BatchRecord /\ [batch[b] EXCEPT !.state = "open"] \in BatchRecord
    <3>1. batch[b] \in BatchRecord
        OBVIOUS
    <3>2. NoBatch \in BatchRecord
        BY DEF NoBatch, BatchRecord, BatchStates
    <3>3. [batch[b] EXCEPT !.state = "open"] \in BatchRecord
        BY <3>1 DEF BatchRecord, BatchStates
    <3> QED BY <3>2, <3>3
  <2>2. batch' \in [Batches -> BatchRecord]
      BY <2>1 DEF EnterBatch
  <2>3. sections' \in Seq(Calls \cup Batches) /\ scopes' \in Seq(Calls \cup Batches)
    <3>1. Tail(sections) \in Seq(Calls \cup Batches) /\ Append(scopes, b) \in Seq(Calls \cup Batches)
        BY <1>a, SequencesTyped DEF HoldsLock
    <3> QED BY <1>b, <3>1 DEF ReturnLock, PushScope
  <2> QED BY <1>a, <2>2, <2>3
<1>2. Shape'
    BY <1>a, <1>d DEF Shape, Inside
<1>3. Lock'
  <2>1. CASE batch'[b] = NoBatch /\ ReturnLock
    <3>1. ~Inside(b)' /\ \A c \in Batches : Inside(c)' => Inside(c)
      <4>1. batch'[b].state = "none"
          BY <2>1 DEF NoBatch
      <4> QED BY <1>a, <4>1 DEF Inside
    <3>2. \A y \in (Calls \cup Batches) \ {b} : InLine(y) => InLine(y)'
        BY <1>a DEF InLine, RunWaits, RunHolds, Inside
    <3>3. \A e \in Calls : ~RunHolds(e)'
        BY <1>a, <1>c DEF RunHolds
    <3> QED BY <1>a, <2>1, <3>1, <3>2, <3>3, LockShrinks
  <2>2. CASE batch'[b] = [batch[b] EXCEPT !.state = "open"] /\ UNCHANGED sections
    <3>1. batch'[b].state = "open"
        BY <2>2 DEF BatchRecord
    <3> QED BY <1>a, <1>c, <2>2, <3>1, LockKept, SchedulingAssumption
            DEF SchedulingAssumption, Lock, InLine, RunWaits, RunHolds, Inside
  <2> QED BY <1>b, <2>1, <2>2
<1>4. Stack'
  <2>1. scopes = <<>>
      BY <1>c DEF Stack
  <2>2. CASE batch'[b] = NoBatch /\ UNCHANGED scopes
    <3>1. \A e \in Calls : ~RunHolds(e)'
        BY ONLY <1>a, <1>c DEF RunHolds
    <3>2. \A c \in Batches : ~Inside(c)'
      <4>1. batch'[b].state = "none"
          BY ONLY <2>2 DEF NoBatch
      <4> QED BY ONLY <1>a, <1>c, <4>1 DEF Inside
    <3> QED BY ONLY <2>1, <2>2, <3>1, <3>2 DEF Stack
  <2>3. CASE batch'[b] = [batch[b] EXCEPT !.state = "open"] /\ PushScope(b)
    <3>1. Inside(b)'
        BY <2>3 DEF BatchRecord, Inside
    <3>2. scopes' = <<b>>
        BY <2>1, <2>3 DEF PushScope
    <3> QED BY <3>1, <3>2 DEF Stack
  <2> QED BY <1>b, <2>2, <2>3
<1>5. Leases'
  <2>1. Leased(b) = {} /\ batch[b].leases = 0
      BY <1>a, FS_EmptySet DEF Leases
  <2>2. batch'[b].leases = 0
      BY <1>b, <2>1 DEF NoBatch, BatchRecord
  <2>3. \A e \in Calls : call[e].stage = "failed" => call[e].batch # b /\ call[e].batch \in Batches
      BY <1>d DEF Shape
  <2> QED BY <1>a, <2>1, <2>2, <2>3, LeasesKept DEF Leases
<1>6. Chains'
    BY <1>a, ChainsKept DEF OnChain
<1>7. Reads'
    BY <1>a, <1>d, ReadsKept DEF Shape, OnChain, Reading, Inside
<1> QED BY <1>1, <1>2, <1>3, <1>4, <1>5, <1>6, <1>7

\* A batch moves inside its section.
LEMMA MoveBatchStep ==
    ASSUME NEW b \in Batches,
           NEW st \in {"open", "settling", "finished", "fencing"}, IInv, Inside(b),
           batch' = [batch EXCEPT ![b].state = st],
           st \notin {"open", "finished"} => batch[b].leases = 0,
           UNCHANGED <<call, chain, readBatch, life, output, sections, scopes>>
    PROVE  IInv'
<1> USE DEF IInv, Types
<1>a. /\ \A c \in Batches \ {b} : batch'[c] = batch[c]
      /\ batch'[b].state = st /\ batch'[b].leases = batch[b].leases
      /\ batch'[b].failed = batch[b].failed
    BY DEF BatchRecord
<1>b. \A c \in Batches : Inside(c)' <=> Inside(c)
    BY <1>a DEF Inside
<1>1. Types'
  <2>1. st \in BatchStates /\ batch[b].leases \in Int /\ batch[b].failed \in BOOLEAN
      BY DEF BatchStates, BatchRecord
  <2> QED BY <2>1, BatchTyped
<1>2. Shape'
  <2>1. ASSUME NEW c \in Batches, batch[c].state = "ended" PROVE batch'[c].state = "ended"
      BY <1>a, <2>1 DEF Inside
  <2> QED BY <1>b, <2>1 DEF Shape
<1>3. Lock'
    BY <1>a, <1>b, LockKept DEF Lock, InLine, RunWaits, RunHolds, Inside
<1>4. Stack'
    BY <1>b DEF Stack, RunHolds
<1>5. Leases'
  <2>1. Leased(b) # {} => st \in {"open", "finished"}
      BY NothingLeased
  <2>2. \A e \in Calls : call[e].stage = "failed" =>
           call[e].batch \in Batches /\ batch[call[e].batch].failed
      BY DEF Leases, Shape
  <2>3. \A c \in Batches :
           /\ batch'[c].leases = batch[c].leases
           /\ batch'[c].failed = batch[c].failed
           /\ Leased(c) # {} => batch'[c].state \in {"open", "finished"}
      BY <1>a, <2>1 DEF Leases
  <2> QED BY <2>2, <2>3, LeasesKept DEF Leases
<1>6. Chains'
    BY ChainsKept DEF OnChain
<1>7. Reads'
    BY <1>b, ReadsKept DEF Shape, OnChain, Reading
<1> QED BY <1>1, <1>2, <1>3, <1>4, <1>5, <1>6, <1>7

\* A batch returns the lock.
LEMMA EndFenceStep ==
    ASSUME NEW b \in Batches, IInv, EndFence(b)
    PROVE  IInv'
<1> USE DEF IInv, Types
<1>a. PICK failed \in BOOLEAN :
         /\ batch' = [batch EXCEPT ![b] = [@ EXCEPT !.state = "ended", !.failed = failed]]
         /\ batch[b].failed => failed
  <2>1. PICK ok \in BOOLEAN :
           batch' = [batch EXCEPT ![b] = [@ EXCEPT !.state = "ended",
                                                   !.failed = batch[b].failed \/ ~ok]]
      BY DEF EndFence
  <2> DEFINE failed == batch[b].failed \/ ~ok
  <2>2. failed \in BOOLEAN /\ (batch[b].failed => failed)
      OBVIOUS
  <2>3. batch' = [batch EXCEPT ![b] = [@ EXCEPT !.state = "ended", !.failed = failed]]
      BY <2>1
  <2> HIDE DEF failed
  <2> QED BY <2>2, <2>3
<1>b. /\ batch[b].state = "fencing" /\ Inside(b) /\ HoldsLock(b) /\ PopScope /\ ReturnLock
      /\ UNCHANGED <<call, chain, readBatch, life, output>>
    BY DEF EndFence, Inside, Lock
<1>c. /\ \A c \in Batches \ {b} : batch'[c] = batch[c]
      /\ batch'[b].state = "ended" /\ batch'[b].leases = batch[b].leases
      /\ batch'[b].failed = failed
    BY <1>a DEF BatchRecord
<1>d. /\ \A c \in Batches : ~Inside(c)'
      /\ \A e \in Calls : ~RunHolds(e)
      /\ scopes = <<b>>
    BY <1>b, <1>c, OneHolder, SchedulingAssumption DEF Inside, Stack
<1>1. Types'
  <2>1. batch' \in [Batches -> BatchRecord]
    <3>1. "ended" \in BatchStates /\ batch[b].leases \in Int
        BY DEF BatchStates, BatchRecord
    <3> QED BY <1>a, <3>1, BatchTyped
  <2> QED BY <1>b, <1>d, <2>1, SequencesTyped DEF HoldsLock, ReturnLock, PopScope
<1>2. Shape'
    BY <1>b, <1>c DEF Shape, Inside
<1>3. Lock'
    BY <1>b, <1>c, <1>d, LockShrinks, SchedulingAssumption
    DEF SchedulingAssumption, InLine, RunWaits, RunHolds, Inside
<1>4. Stack'
  <2>1. scopes' = <<>>
      BY <1>b, <1>d DEF PopScope
  <2> QED BY <1>b, <1>d, <2>1 DEF Stack, RunHolds
<1>5. Leases'
  <2>1. \A e \in Calls : call[e].stage = "failed" =>
           call[e].batch \in Batches /\ batch[call[e].batch].failed
      BY DEF Leases, Shape
  <2>2. ASSUME NEW c \in Batches, batch[c].failed PROVE batch'[c].failed
      BY <1>a, <1>c, <2>2
  <2>3. Leased(b) = {}
      BY <1>b DEF Leases
  <2>4. \A c \in Batches :
           /\ batch'[c].leases = batch[c].leases
           /\ Leased(c) # {} => batch'[c].state \in {"open", "finished"}
      BY <1>c, <2>3 DEF Leases
  <2> QED BY <1>b, <2>1, <2>2, <2>4, LeasesKept
<1>6. Chains'
    BY <1>b, ChainsKept DEF OnChain
<1>7. Reads'
    BY <1>b, <1>d, ReadsKept DEF Shape, OnChain, Reading
<1> QED BY <1>1, <1>2, <1>3, <1>4, <1>5, <1>6, <1>7

\* A batch settles its calls.
LEMMA ConcludeStep ==
    ASSUME NEW b \in Batches, IInv, Conclude(b)
    PROVE  IInv'
<1> USE DEF IInv, Types
<1>a. /\ batch[b].state = "ended" /\ batch'[b] = NoBatch
      /\ \A c \in Batches \ {b} : batch'[c] = batch[c]
      /\ \A e \in Calls : /\ call[e].batch = b => call'[e] = IdleCall
                          /\ call[e].batch # b => call'[e] = call[e]
      /\ UNCHANGED <<chain, life, output, sections, scopes>>
    BY DEF Conclude
<1>b. /\ IdleCall.stage = "idle" /\ IdleCall.kind = "run"
      /\ IdleCall.batch = Nobody /\ Nobody \notin Batches
      /\ NoBatch.state = "none" /\ NoBatch.leases = 0
    BY SchedulingAssumption DEF SchedulingAssumption, IdleCall, NoBatch
<1>c. Leased(b) = {}
    BY <1>a DEF Leases
<1>d. \A e \in Calls : call[e].batch = b =>
         call[e].stage \in {"written", "failed"} /\ call[e].kind # "run"
    BY <1>b, <1>c DEF Shape, Leased
<1>e. \A c \in Batches : Inside(c)' <=> Inside(c)
  <2>1. ~Inside(b) /\ ~Inside(b)'
      BY <1>a, <1>b DEF Inside
  <2>2. \A c \in Batches \ {b} : Inside(c)' <=> Inside(c)
      BY <1>a DEF Inside
  <2> QED BY <2>1, <2>2
<1>f. \A e \in Calls :
         /\ RunHolds(e)' <=> RunHolds(e)
         /\ RunWaits(e)' <=> RunWaits(e)
         /\ OnChain(e)' <=> OnChain(e)
         /\ RunHolds(e) \/ OnChain(e) \/ call'[e].stage # "idle" => call'[e] = call[e]
    BY <1>a, <1>b, <1>d DEF RunHolds, RunWaits, OnChain
<1>1. Types'
  <2>1. call' \in [Calls -> CallRecord]
      BY DEF Conclude, IdleCall, CallRecord, Stages, Kinds
  <2>2. batch' \in [Batches -> BatchRecord]
      BY DEF Conclude, NoBatch, BatchRecord, BatchStates
  <2> QED BY <1>a, <2>1, <2>2 DEF Conclude
<1>2. Shape'
  <2>1. ASSUME NEW e \in Calls
        PROVE  /\ call'[e].stage = "idle" => call'[e].kind = "run" /\ call'[e].batch = Nobody
               /\ call'[e].stage # "idle" => call'[e].session \in Sessions
               /\ call'[e].kind = "run" =>
                     /\ call'[e].stage \notin {"written", "failed"}
                     /\ call'[e].batch = Nobody
               /\ call'[e].kind # "run" =>
                     /\ call'[e].stage \in {"queued", "encoding", "written", "failed"}
                     /\ call'[e].batch \in Batches \ {b}
    <3>1. CASE call[e].batch = b
        BY <1>a, <1>b, <3>1
    <3>2. CASE call[e].batch # b
        BY <1>a, <3>2 DEF Shape
    <3> QED BY <3>1, <3>2
  <2>2. ASSUME NEW e \in Calls, call'[e].kind # "run"
        PROVE  \E c \in Batches :
                  call'[e].batch = c /\ (Inside(c)' \/ batch'[c].state = "ended")
    <3>1. call[e].batch \in Batches \ {b} /\ call[e].kind # "run" /\ call'[e] = call[e]
        BY <1>a, <1>b, <2>1, <2>2
    <3>2. PICK c \in Batches \ {b} : c = call[e].batch
        BY <3>1
    <3>3. Inside(c) \/ batch[c].state = "ended"
        BY <3>1, <3>2 DEF Shape
    <3>4. Inside(c)' \/ batch'[c].state = "ended"
        BY <1>a, <3>3 DEF Inside
    <3> QED BY <3>1, <3>2, <3>4
  <2>3. ASSUME NEW e \in Calls, call'[e].kind # "run"
        PROVE  (Inside(call[e].batch) \/ batch[call[e].batch].state = "ended")'
      BY <2>2, <2>3 DEF Inside
  <2> QED BY <2>1, <2>3 DEF Shape
<1>3. Lock'
  <2>1. \A x \in Calls \cup Batches : InLine(x) => InLine(x)'
    <3>1. \A c \in Batches : batch[c].state = "waiting" => batch'[c].state = "waiting"
        BY <1>a
    <3> QED BY <1>e, <1>f, <3>1 DEF InLine
  <2> QED BY <1>a, <1>e, <1>f, <2>1, LockKept DEF Lock
<1>4. Stack'
    BY <1>a, <1>e, <1>f DEF Stack
<1>5. Leases'
  <2>1. \A c \in Batches : Leased(c)' = Leased(c)
    <3>1. ASSUME NEW c \in Batches, NEW e \in Calls
          PROVE  /\ call'[e].batch = c /\ call'[e].stage \in {"queued", "encoding"}
                     <=> call[e].batch = c /\ call[e].stage \in {"queued", "encoding"}
        BY <1>a, <1>b, <1>d
    <3> QED BY <3>1 DEF Leased
  <2>2. ASSUME NEW c \in Batches
        PROVE  /\ IsFiniteSet(Leased(c)') /\ batch'[c].leases = Cardinality(Leased(c)')
               /\ Leased(c)' # {} => batch'[c].state \in {"open", "finished"}
    <3>1. CASE c = b
      <4>1. Leased(c)' = {}
          BY ONLY c \in Batches, <1>b, <1>c, <2>1, <3>1
      <4>2. batch'[c].leases = 0
          BY ONLY <1>a, <1>b, <1>c, <3>1
      <4> QED BY ONLY <4>1, <4>2, FS_EmptySet
    <3>2. CASE c # b
        BY <1>a, <2>1, <3>2 DEF Leases
    <3> QED BY <3>1, <3>2
  <2>3. ASSUME NEW e \in Calls, call'[e].stage = "failed"
        PROVE  batch'[call'[e].batch].failed
    <3>1. call'[e] = call[e] /\ call[e].batch \in Batches \ {b} /\ batch[call[e].batch].failed
        BY <1>a, <1>b, <2>3 DEF Leases, Shape
    <3> QED BY <1>a, <3>1
  <2> QED BY <2>2, <2>3 DEF Leases
<1>6. Chains'
  <2>1. \A e \in Calls : call'[e].stage \in {"waiting", "encoding", "reading", "done"} =>
           call[e].stage \in {"waiting", "encoding", "reading", "done"}
      BY <1>f
  <2> QED BY <1>a, <1>f, <2>1, ChainsKept
<1>7. Reads'
  <2> SUFFICES ASSUME NEW d \in Calls, Reading(d)'
               PROVE  LET t == call'[d].session IN
                      /\ readBatch'[t] = call'[d].batch
                      /\ life'[t] = "open"
                      /\ call'[d].stage = "written" => output'[t] = d
                      /\ \A f \in Calls \ {d} :
                            call'[f].kind # "run" /\ call'[f].session = t /\ OnChain(f)' =>
                                /\ call'[d].stage # "written"
                                /\ \A i, j \in 1..Len(chain'[t]) :
                                      chain'[t][i] = f /\ chain'[t][j] = d => i < j
      BY DEF Reads
  <2>1. call'[d] = call[d] /\ call[d].batch \in Batches \ {b} /\ call[d].session \in Sessions
      BY <1>a, <1>b DEF Reading, Shape
  <2>2. Reading(d)
      BY <1>e, <2>1 DEF Reading
  <2>3. readBatch'[call[d].session] = call[d].batch
      BY <2>1, <2>2 DEF Conclude, Reads
  <2>4. \A f \in Calls : OnChain(f)' => OnChain(f) /\ call'[f] = call[f]
      BY <1>f
  <2>5. /\ life[call[d].session] = "open"
        /\ call[d].stage = "written" => output[call[d].session] = d
        /\ \A f \in Calls \ {d} :
              call[f].kind # "run" /\ call[f].session = call[d].session /\ OnChain(f) =>
                  /\ call[d].stage # "written"
                  /\ \A i, j \in 1..Len(chain[call[d].session]) :
                        /\ chain[call[d].session][i] = f
                        /\ chain[call[d].session][j] = d
                        => i < j
      BY <2>2 DEF Reads
  <2>6. ASSUME NEW f \in Calls \ {d}, call'[f].kind # "run",
               call'[f].session = call[d].session, OnChain(f)'
        PROVE  call[f].kind # "run" /\ call[f].session = call[d].session /\ OnChain(f)
      BY <2>4, <2>6
  <2> QED BY <1>a, <2>1, <2>3, <2>5, <2>6
<1> QED BY <1>1, <1>2, <1>3, <1>4, <1>5, <1>6, <1>7

\* A Session is to be disposed.
LEMMA DisposeStep ==
    ASSUME NEW s \in Sessions, IInv, Dispose(s)
    PROVE  IInv'
<1> USE DEF IInv, Types
<1>a. /\ life[s] = "open" /\ readBatch[s] = Nobody
      /\ life'[s] = "closing" /\ \A t \in Sessions \ {s} : life'[t] = life[t]
      /\ chain'[s] = Append(chain[s], s) /\ \A t \in Sessions \ {s} : chain'[t] = chain[t]
      /\ UNCHANGED <<call, readBatch, output, sections, scopes, batch>>
    BY DEF Dispose, Join
<1> DEFINE old == chain[s]
<1>b. /\ old \in Seq(Calls \cup Sessions) /\ Distinct(old)
      /\ \A i \in 1..Len(old) :
            old[i] \in Calls /\ OnChain(old[i]) /\ call[old[i]].session = s
    BY <1>a DEF Chains, InOrder
<1>z. old = chain[s]
    OBVIOUS
<1> HIDE DEF old
<1>c. /\ Distinct(Append(old, s)) /\ Append(old, s) # <<>>
      /\ Len(Append(old, s)) = Len(old) + 1 /\ Len(old) \in Nat
      /\ \A i \in 1..Len(old) : Append(old, s)[i] = old[i]
      /\ Append(old, s)[Len(old) + 1] = s
      /\ old # <<>> => Head(Append(old, s)) = Head(old)
  <2>1. \A i \in 1..Len(old) : old[i] # s
      BY <1>b, SchedulingAssumption DEF SchedulingAssumption
  <2>2. s \in Calls \cup Sessions
      OBVIOUS
  <2> QED BY ONLY <1>b, <2>1, <2>2, AppendDistinct
<1>1. Types'
    BY SequencesTyped DEF Dispose, Join
<1>2. Shape'
    BY DEF Dispose, Shape, Inside
<1>3. Lock'
    BY LockKept DEF Dispose, Lock, InLine, RunWaits, RunHolds, Inside
<1>4. Stack'
    BY DEF Dispose, Stack, RunHolds, Inside
<1>5. Leases'
    BY LeasesKept DEF Dispose, Leases
<1>6. Chains'
  <2>1. ASSUME NEW t \in Sessions PROVE InOrder(t)'
    <3>1. CASE t = s
      <4>1. \A i \in 1..Len(Append(old, s)) : i \in 1..Len(old) \/ i = Len(old) + 1
          BY <1>c
      <4>2. \A i \in 1..Len(Append(old, s)) :
               \/ /\ Append(old, s)[i] \in Calls /\ OnChain(Append(old, s)[i])
                  /\ call[Append(old, s)[i]].session = s
               \/ Append(old, s)[i] = s /\ i = Len(Append(old, s))
          BY <1>b, <1>c, <4>1
      <4>3. call' = call /\ chain'[s] = Append(old, s) /\ life'[s] = "closing"
          BY ONLY <1>a, <1>z
      <4> QED BY ONLY <1>c, <3>1, <4>2, <4>3 DEF InOrder, OnChain
    <3>2. CASE t # s
        BY <1>a, <3>2 DEF Chains, InOrder, OnChain, Distinct
    <3> QED BY <3>1, <3>2
  <2>2. ASSUME NEW d \in Calls PROVE Placed(d)'
    <3>1. CASE call[d].session = s
      <4>1. OnChain(d) => \E i \in 1..Len(old) : Append(old, s)[i] = d
        <5>1. Placed(d)
            BY DEF Chains
        <5> QED BY ONLY <1>c, <1>z, <3>1, <5>1 DEF Placed
      <4>2. call[d].stage \in {"waiting", "encoding", "reading", "done"} =>
               old # <<>> /\ Head(old) = d
          BY <1>z, <3>1 DEF Chains, Placed, Heads
      <4>3. OnChain(d)' <=> OnChain(d)
          BY <1>a DEF OnChain
      <4>4. OnChain(d) => \E i \in 1..Len(chain'[s]) : chain'[s][i] = d
        <5>1. \A i \in 1..Len(old) : i \in 1..Len(Append(old, s))
            BY <1>c
        <5> QED BY <1>a, <1>z, <4>1, <5>1
      <4>5. call[d].stage \in {"waiting", "encoding", "reading", "done"} =>
               chain'[s] # <<>> /\ Head(chain'[s]) = d
          BY ONLY <1>a, <1>c, <1>z, <4>2
      <4> QED BY ONLY d \in Calls, <1>a, <3>1, <4>4, <4>5, PlacedAt
    <3>2. CASE call[d].session # s
      <4>1. call[d].stage # "idle" => call[d].session \in Sessions \ {s}
          BY <3>2 DEF Shape
      <4>2. Placed(d)
          BY DEF Chains
      <4> QED BY ONLY d \in Calls, <1>a, <4>1, <4>2, PlacedStays
    <3> QED BY <3>1, <3>2
  <2> QED BY <2>1, <2>2 DEF Chains
<1>7. Reads'
  <2>1. \A e \in Calls : Reading(e)' => Reading(e) /\ call[e].session \in Sessions \ {s}
      BY <1>a, SchedulingAssumption DEF SchedulingAssumption, Reading, Inside, Shape, Reads
  <2> QED BY <1>a, <2>1, ReadsElsewhere
<1> QED BY <1>1, <1>2, <1>3, <1>4, <1>5, <1>6, <1>7

\* A Session is disposed.
LEMMA DisposeBodyStep ==
    ASSUME NEW s \in Sessions, IInv, DisposeBody(s)
    PROVE  IInv'
<1> USE DEF IInv, Types
<1>a. /\ life[s] = "closing" /\ Heads(s, s)
      /\ life'[s] = "disposed" /\ \A t \in Sessions \ {s} : life'[t] = life[t]
      /\ chain'[s] = Tail(chain[s]) /\ \A t \in Sessions \ {s} : chain'[t] = chain[t]
      /\ UNCHANGED <<call, readBatch, sections, scopes, batch>>
    BY DEF DisposeBody, Leave
<1>b. /\ chain[s] \in Seq(Calls \cup Sessions) /\ chain[s] # <<>> /\ s \notin Calls
      /\ chain[s][1] = s /\ Len(chain[s]) \in Nat \ {0}
    BY <1>a, EmptySeq, LenProperties, HeadTailProperties, SchedulingAssumption
    DEF SchedulingAssumption, Heads
<1>c. Len(chain[s]) = 1
  <2>1. 1 \in 1..Len(chain[s])
      BY <1>b
  <2>2. chain[s][1] \in Calls \/ 1 = Len(chain[s])
      BY <2>1 DEF Chains, InOrder
  <2> QED BY <1>b, <2>2
<1>d. chain'[s] = <<>>
  <2>1. Tail(chain[s]) \in Seq(Calls \cup Sessions) /\ Len(Tail(chain[s])) = 0
      BY <1>b, <1>c, HeadTailProperties
  <2> QED BY <1>a, <2>1, EmptySeq
<1>e. \A e \in Calls : OnChain(e) => call[e].session # s
    BY <1>b, <1>c DEF Chains, Placed
<1>1. Types'
    BY SequencesTyped DEF DisposeBody, Leave, Heads
<1>2. Shape'
    BY DEF DisposeBody, Shape, Inside
<1>3. Lock'
    BY LockKept DEF DisposeBody, Lock, InLine, RunWaits, RunHolds, Inside
<1>4. Stack'
    BY DEF DisposeBody, Stack, RunHolds, Inside
<1>5. Leases'
    BY LeasesKept DEF DisposeBody, Leases
<1>6. Chains'
  <2>1. ASSUME NEW t \in Sessions PROVE InOrder(t)'
    <3>1. CASE t = s
        BY <1>a, <1>d, <3>1 DEF InOrder, Distinct
    <3>2. CASE t # s
      <4>1. chain'[t] = chain[t] /\ life'[t] = life[t] /\ InOrder(t)
          BY <1>a, <3>2 DEF Chains
      <4> QED BY <1>a, <4>1 DEF InOrder, OnChain, Distinct
    <3> QED BY <3>1, <3>2
  <2>2. ASSUME NEW d \in Calls PROVE Placed(d)'
    <3>1. OnChain(d) => call[d].session \in Sessions \ {s}
        BY ONLY d \in Calls, Shape, <1>e DEF Shape, OnChain
    <3>2. Placed(d) /\ call'[d] = call[d] /\ (OnChain(d)' <=> OnChain(d))
        BY ONLY d \in Calls, Chains, <1>a DEF Chains, OnChain
    <3>3. OnChain(d) => chain'[call[d].session] = chain[call[d].session]
        BY ONLY <1>a, <3>1
    <3>4. call[d].stage \in {"waiting", "encoding", "reading", "done"} => OnChain(d)
        BY DEF OnChain
    <3> QED BY ONLY <3>2, <3>3, <3>4 DEF Placed, Heads
  <2> QED BY <2>1, <2>2 DEF Chains
<1>7. Reads'
  <2>1. \A t \in Sessions \ {s} : output'[t] = output[t]
      BY DEF DisposeBody
  <2>2. \A e \in Calls : Reading(e)' => Reading(e)
      BY <1>a DEF Reading, Inside
  <2>3. \A e \in Calls : Reading(e) => call[e].session \in Sessions
      BY DEF Reading, Shape
  <2>4. \A e \in Calls : Reading(e) => life[call[e].session] = "open"
      BY DEF Reads
  <2>5. \A e \in Calls : Reading(e)' => Reading(e) /\ call[e].session \in Sessions \ {s}
      BY ONLY <1>a, <2>2, <2>3, <2>4
  <2> QED BY <1>a, <2>1, <2>5, ReadsElsewhere
<1> QED BY <1>1, <1>2, <1>3, <1>4, <1>5, <1>6, <1>7

\* The device is lost, which nothing of the invariant depends on, or nothing happens.
LEMMA NothingMoves ==
    ASSUME IInv,
           UNCHANGED <<call, chain, readBatch, life, output, sections, scopes, batch>>
    PROVE  IInv'
<1>1. Types' /\ Shape' /\ Lock' /\ Stack'
    BY DEF IInv, Types, Shape, Lock, InLine, RunWaits, RunHolds, Distinct, HoldsLock,
           Inside, Stack
<1>2. Leases'
    BY LeasesKept DEF IInv, Leases
<1>3. Chains'
    BY ChainsKept DEF IInv, OnChain
<1>4. Reads'
    BY ReadsKept DEF IInv, OnChain, Reading, Inside
<1> QED BY <1>1, <1>2, <1>3, <1>4 DEF IInv

\* Nothing is accepted and nothing is locked at the start.
LEMMA InitIInv == Init => IInv
<1> SUFFICES ASSUME Init PROVE IInv
    OBVIOUS
<1> USE DEF Init, IdleCall, NoBatch
<1>1. Types
    BY DEF Types, CallRecord, BatchRecord, Stages, Kinds, BatchStates
<1>2. Shape
    BY DEF Shape
<1>3. sections = <<>> /\ Len(sections) = 0
    OBVIOUS
<1>4. Lock /\ Stack
    BY <1>3 DEF Lock, Distinct, RunHolds, Inside, Stack
<1>5. Leases
  <2>1. \A b \in Batches : Leased(b) = {}
      BY DEF Leased
  <2> QED BY <2>1, FS_EmptySet DEF Leases
<1>6. Chains
    BY DEF Chains, InOrder, Placed, OnChain, Distinct
<1>7. Reads
    BY DEF Reads, Reading
<1> QED BY <1>1, <1>2, <1>4, <1>5, <1>6, <1>7 DEF IInv

\* Every step of the specification keeps the invariant.
LEMMA NextIInv == IInv /\ [Next]_vars => IInv'
<1> SUFFICES ASSUME IInv, [Next]_vars PROVE IInv'
    OBVIOUS
<1>1. CASE UNCHANGED vars
    BY <1>1, NothingMoves DEF vars
<1>2. ASSUME NEW e \in Calls, NEW s \in Sessions, IssueRun(e, s) PROVE IInv'
    BY <1>2, IssueRunStep
<1>3. ASSUME NEW e \in Calls, NEW s \in Sessions, NEW b \in Batches,
             NEW kind \in {"enqueue", "enqueueRead"}, IssueEnqueue(e, s, b, kind)
      PROVE  IInv'
    BY <1>3, IssueEnqueueStep
<1>4. ASSUME NEW e \in Calls, RunStep(e) PROVE IInv'
    BY <1>4, StartRunStep, EnterSectionStep, PopRunScopesStep, EndSectionStep, SettleRunStep
    DEF RunStep
<1>5. ASSUME NEW e \in Calls, EnqueueStep(e) PROVE IInv'
    BY <1>5, StartEnqueueStep, EndEnqueueStep DEF EnqueueStep
<1>6. ASSUME NEW b \in Batches, BeginBatch(b) PROVE IInv'
    BY <1>6, BeginBatchStep
<1>7. ASSUME NEW b \in Batches, StartSettle(b) PROVE IInv'
  <2>1. /\ Inside(b) /\ batch[b].leases = 0
        /\ batch' = [batch EXCEPT ![b].state = "settling"]
        /\ UNCHANGED <<call, chain, readBatch, life, output, sections, scopes>>
      BY <1>7 DEF StartSettle, Inside
  <2> QED BY <2>1, MoveBatchStep
<1>8. ASSUME NEW b \in Batches, FinishBatch(b) PROVE IInv'
  <2>1. /\ Inside(b) /\ batch' = [batch EXCEPT ![b].state = "finished"]
        /\ UNCHANGED <<call, chain, readBatch, life, output, sections, scopes>>
      BY <1>8 DEF FinishBatch, Inside
  <2> QED BY <2>1, MoveBatchStep
<1>9. ASSUME NEW b \in Batches, BatchStep(b) PROVE IInv'
  <2>1. CASE EnterBatch(b)
      BY <2>1, EnterBatchStep
  <2>2. CASE EndSettle(b)
    <3>1. /\ Inside(b) /\ batch' = [batch EXCEPT ![b].state = "open"]
          /\ UNCHANGED <<call, chain, readBatch, life, output, sections, scopes>>
        BY <2>2 DEF EndSettle, Inside
    <3> QED BY <3>1, MoveBatchStep
  <2>3. CASE StartFence(b)
    <3>1. /\ Inside(b) /\ batch[b].leases = 0
          /\ batch' = [batch EXCEPT ![b].state = "fencing"]
          /\ UNCHANGED <<call, chain, readBatch, life, output, sections, scopes>>
        BY <2>3 DEF StartFence, Inside
    <3> QED BY <3>1, MoveBatchStep
  <2>4. CASE EndFence(b)
      BY <2>4, EndFenceStep
  <2>5. CASE Conclude(b)
      BY <2>5, ConcludeStep
  <2> QED BY <1>9, <2>1, <2>2, <2>3, <2>4, <2>5 DEF BatchStep
<1>10. ASSUME NEW s \in Sessions, Dispose(s) \/ DisposeBody(s) PROVE IInv'
    BY <1>10, DisposeStep, DisposeBodyStep
<1>11. CASE DeviceLoss
    BY <1>11, NothingMoves DEF DeviceLoss
<1> QED BY <1>1, <1>2, <1>3, <1>4, <1>5, <1>6, <1>7, <1>8, <1>9, <1>10, <1>11 DEF Next

\* The invariant holds in every state.
LEMMA Invariance == Spec => []IInv
BY InitIInv, NextIInv, PTL DEF Spec

-------------------------------------------------------------------------------
(* The count of the unsettled runs, which the rest of the invariant needs not. *)

\* The runs a Session accepted and has not settled.
Unsettled(s) ==
    {e \in Calls : call[e].kind = "run" /\ call[e].stage # "idle" /\ call[e].session = s}

Pending ==
    /\ lost \in BOOLEAN /\ pendingRuns \in [Sessions -> Int]
    /\ \A s \in Sessions :
          IsFiniteSet(Unsettled(s)) /\ pendingRuns[s] = Cardinality(Unsettled(s))

\* The counts stand while no run is accepted and none settles.
LEMMA PendingKept ==
    ASSUME Pending, UNCHANGED pendingRuns, lost' \in BOOLEAN,
           \A e \in Calls : \/ call'[e] = call[e]
                            \/ call[e].kind # "run" /\ call'[e].kind # "run"
                            \/ /\ call'[e].kind = call[e].kind
                               /\ call'[e].session = call[e].session
                               /\ call[e].stage # "idle" /\ call'[e].stage # "idle"
                            \/ call[e].kind # "run" /\ call'[e].stage = "idle"
    PROVE  Pending'
<1>1. ASSUME NEW s \in Sessions PROVE Unsettled(s)' = Unsettled(s)
    BY DEF Unsettled
<1> QED BY <1>1 DEF Pending

\* An accepted run is counted until it settles.
LEMMA NextPending == IInv /\ Pending /\ [Next]_vars => Pending'
<1> SUFFICES ASSUME IInv, Pending, [Next]_vars PROVE Pending'
    OBVIOUS
<1> USE DEF IInv, Types
<1>1. ASSUME UNCHANGED <<call, pendingRuns>>, lost' \in BOOLEAN PROVE Pending'
    BY <1>1, PendingKept
<1>2. ASSUME NEW r \in Calls, NEW s \in Sessions, IssueRun(r, s) PROVE Pending'
  <2>1. /\ call[r].stage = "idle" /\ \A e \in Calls \ {r} : call'[e] = call[e]
        /\ call'[r] = [stage |-> "queued", kind |-> "run", session |-> s, batch |-> Nobody]
        /\ pendingRuns' = [pendingRuns EXCEPT ![s] = @ + 1] /\ UNCHANGED lost
      BY <1>2 DEF IssueRun
  <2>2. Unsettled(s)' = Unsettled(s) \cup {r} /\ r \notin Unsettled(s)
      BY <2>1 DEF Unsettled
  <2>3. \A t \in Sessions \ {s} : Unsettled(t)' = Unsettled(t)
    <3>1. ASSUME NEW t \in Sessions \ {s}, NEW e \in Calls
          PROVE  /\ call'[e].kind = "run" /\ call'[e].stage # "idle" /\ call'[e].session = t
                    <=> call[e].kind = "run" /\ call[e].stage # "idle" /\ call[e].session = t
      <4>1. CASE e = r
          BY <2>1, <4>1
      <4>2. CASE e # r
          BY <2>1, <4>2
      <4> QED BY <4>1, <4>2
    <3> QED BY <3>1 DEF Unsettled
  <2>4. IsFiniteSet(Unsettled(s)) /\ pendingRuns[s] = Cardinality(Unsettled(s))
      BY DEF Pending
  <2>5. /\ IsFiniteSet(Unsettled(s) \cup {r})
        /\ Cardinality(Unsettled(s) \cup {r}) = Cardinality(Unsettled(s)) + 1
      BY <2>2, <2>4, FS_AddElement
  <2>6. /\ pendingRuns' \in [Sessions -> Int] /\ pendingRuns'[s] = pendingRuns[s] + 1
        /\ \A t \in Sessions \ {s} : pendingRuns'[t] = pendingRuns[t]
      BY <2>1 DEF Pending
  <2>7. ASSUME NEW t \in Sessions
        PROVE  IsFiniteSet(Unsettled(t)') /\ pendingRuns'[t] = Cardinality(Unsettled(t)')
    <3>1. CASE t = s
        BY <2>2, <2>4, <2>5, <2>6, <3>1
    <3>2. CASE t # s
        BY <2>3, <2>6, <3>2 DEF Pending
    <3> QED BY <3>1, <3>2
  <2> QED BY <2>1, <2>6, <2>7 DEF Pending
<1>3. ASSUME NEW r \in Calls, SettleRun(r) PROVE Pending'
  <2>1. PICK s \in Sessions : s = call[r].session
      BY <1>3 DEF SettleRun, Shape
  <2>2. /\ call[r].kind = "run" /\ call[r].stage = "done" /\ UNCHANGED lost
        /\ call'[r] = IdleCall /\ \A e \in Calls \ {r} : call'[e] = call[e]
        /\ pendingRuns' = [pendingRuns EXCEPT ![s] = @ - 1]
      BY <1>3, <2>1 DEF SettleRun
  <2>3. Unsettled(s)' = Unsettled(s) \ {r} /\ r \in Unsettled(s)
      BY <2>1, <2>2 DEF Unsettled, IdleCall
  <2>4. \A t \in Sessions \ {s} : Unsettled(t)' = Unsettled(t)
    <3>1. ASSUME NEW t \in Sessions \ {s}, NEW e \in Calls
          PROVE  /\ call'[e].kind = "run" /\ call'[e].stage # "idle" /\ call'[e].session = t
                    <=> call[e].kind = "run" /\ call[e].stage # "idle" /\ call[e].session = t
      <4>1. CASE e = r
          BY <2>1, <2>2, <4>1 DEF IdleCall
      <4>2. CASE e # r
          BY <2>2, <4>2
      <4> QED BY <4>1, <4>2
    <3> QED BY <3>1 DEF Unsettled
  <2>5. IsFiniteSet(Unsettled(s)) /\ pendingRuns[s] = Cardinality(Unsettled(s))
      BY DEF Pending
  <2>6. /\ IsFiniteSet(Unsettled(s) \ {r})
        /\ Cardinality(Unsettled(s) \ {r}) = Cardinality(Unsettled(s)) - 1
      BY <2>3, <2>5, FS_RemoveElement
  <2>7. /\ pendingRuns' \in [Sessions -> Int] /\ pendingRuns'[s] = pendingRuns[s] - 1
        /\ \A t \in Sessions \ {s} : pendingRuns'[t] = pendingRuns[t]
      BY <2>2 DEF Pending
  <2>8. ASSUME NEW t \in Sessions
        PROVE  IsFiniteSet(Unsettled(t)') /\ pendingRuns'[t] = Cardinality(Unsettled(t)')
    <3>1. CASE t = s
        BY <2>3, <2>5, <2>6, <2>7, <3>1
    <3>2. CASE t # s
        BY <2>4, <2>7, <3>2 DEF Pending
    <3> QED BY <3>1, <3>2
  <2> QED BY <2>2, <2>7, <2>8 DEF Pending
<1>4. ASSUME NEW r \in Calls,
             StartRun(r) \/ EnterSection(r) \/ PopRunScopes(r) \/ EndSection(r)
      PROVE  Pending'
  <2>1. PICK st \in {"waiting", "encoding", "reading", "done"} :
           /\ call[r].kind = "run" /\ call[r].stage # "idle"
           /\ call' = [call EXCEPT ![r].stage = st]
           /\ UNCHANGED <<pendingRuns, lost>>
      BY <1>4 DEF StartRun, EnterSection, PopRunScopes, EndSection
  <2>2. /\ call'[r].stage = st /\ call'[r].kind = "run"
        /\ call'[r].session = call[r].session
        /\ \A e \in Calls \ {r} : call'[e] = call[e]
      BY <2>1, RunMoves, SchedulingAssumption
  <2> QED BY <2>1, <2>2, PendingKept DEF Pending
<1>5. ASSUME NEW e \in Calls, NEW s \in Sessions, NEW b \in Batches,
             NEW kind \in {"enqueue", "enqueueRead"}, IssueEnqueue(e, s, b, kind)
      PROVE  Pending'
  <2>1. /\ call[e].stage = "idle" /\ call'[e].kind = kind /\ UNCHANGED <<pendingRuns, lost>>
        /\ \A d \in Calls \ {e} : call'[d] = call[d]
      BY <1>5 DEF IssueEnqueue, Admit
  <2>2. ASSUME NEW t \in Sessions PROVE Unsettled(t)' = Unsettled(t)
      BY <2>1 DEF Unsettled
  <2> QED BY <2>1, <2>2 DEF Pending
<1>6. ASSUME NEW e \in Calls, EnqueueStep(e) PROVE Pending'
  <2>1. /\ call[e].kind # "run" /\ call'[e].kind = call[e].kind
        /\ \A d \in Calls \ {e} : call'[d] = call[d]
        /\ UNCHANGED <<pendingRuns, lost>>
    <3>1. PICK st \in Stages : call' = [call EXCEPT ![e].stage = st]
        BY <1>6 DEF EnqueueStep, StartEnqueue, EndEnqueue, Stages
    <3>2. call'[e].kind = call[e].kind /\ \A d \in Calls \ {e} : call'[d] = call[d]
        BY <3>1 DEF CallRecord
    <3> QED BY <1>6, <3>2 DEF EnqueueStep, StartEnqueue, EndEnqueue
  <2> QED BY <2>1, PendingKept DEF Pending
<1>7. ASSUME NEW b \in Batches, Conclude(b) PROVE Pending'
  <2>1. /\ UNCHANGED <<pendingRuns, lost>>
        /\ \A e \in Calls : /\ call[e].batch = b => call'[e] = IdleCall
                            /\ call[e].batch # b => call'[e] = call[e]
      BY <1>7 DEF Conclude
  <2>2. \A e \in Calls : call[e].batch = b => call[e].kind # "run"
      BY SchedulingAssumption DEF SchedulingAssumption, Shape
  <2>3. IdleCall.stage = "idle"
      BY DEF IdleCall
  <2> QED BY <2>1, <2>2, <2>3, PendingKept DEF Pending
<1>8. ASSUME NEW b \in Batches,
             \/ BeginBatch(b) \/ StartSettle(b) \/ FinishBatch(b)
             \/ EnterBatch(b) \/ EndSettle(b) \/ StartFence(b) \/ EndFence(b)
      PROVE  Pending'
  <2>1. UNCHANGED <<call, pendingRuns, lost>>
      BY <1>8 DEF BeginBatch, StartSettle, FinishBatch, EnterBatch, EndSettle, StartFence,
                  EndFence
  <2> QED BY <1>1, <2>1 DEF Pending
<1>9. CASE (\E s \in Sessions : Dispose(s) \/ DisposeBody(s)) \/ DeviceLoss \/ UNCHANGED vars
  <2>1. UNCHANGED <<call, pendingRuns>> /\ lost' \in BOOLEAN
      BY <1>9 DEF Dispose, DisposeBody, DeviceLoss, vars, Pending
  <2> QED BY <1>1, <2>1
<1> QED BY <1>2, <1>3, <1>4, <1>5, <1>6, <1>7, <1>8, <1>9 DEF Next, RunStep, BatchStep

\* The invariant and the counts hold in every state.
LEMMA Counted == Spec => [](IInv /\ Pending)
<1>1. Init => Pending
  <2> SUFFICES ASSUME Init PROVE Pending
      OBVIOUS
  <2>1. \A s \in Sessions : Unsettled(s) = {}
      BY DEF Init, IdleCall, Unsettled
  <2>2. \A s \in Sessions : pendingRuns[s] = 0
      BY DEF Init
  <2>3. ASSUME NEW s \in Sessions
        PROVE  IsFiniteSet(Unsettled(s)) /\ pendingRuns[s] = Cardinality(Unsettled(s))
      BY <2>1, <2>2, FS_EmptySet
  <2>4. lost \in BOOLEAN
      BY DEF Init
  <2>5. pendingRuns \in [Sessions -> Int]
      BY DEF Init
  <2> QED BY <2>3, <2>4, <2>5 DEF Pending
<1> QED BY <1>1, InitIInv, NextIInv, NextPending, PTL DEF Spec

-------------------------------------------------------------------------------
(* What the invariant says of the code. *)

\* Every count and every identity keeps its type: the leases of a batch and the
\* pending runs of a Session never fall below zero (BatchInternals.leave,
\* Session.#pendingRuns).
THEOREM TypeOKHolds == Spec => []TypeOK
<1>1. IInv /\ Pending => TypeOK
  <2> SUFFICES ASSUME IInv, Pending PROVE TypeOK
      OBVIOUS
  <2> USE DEF IInv, Types
  <2>1. \A s \in Sessions : pendingRuns[s] \in Nat
      BY FS_CardinalityType DEF Pending
  <2>2. pendingRuns \in [Sessions -> Nat]
      BY <2>1 DEF Pending
  <2>3. \A b \in Batches : batch[b].leases \in Nat
      BY FS_CardinalityType DEF Leases
  <2>4. ASSUME NEW b \in Batches
        PROVE  batch[b] \in [state : BatchStates, leases : Nat, failed : BOOLEAN]
      BY <2>3 DEF BatchRecord
  <2>5. batch \in [Batches -> [state : BatchStates, leases : Nat, failed : BOOLEAN]]
      BY <2>4
  <2> QED BY <2>2, <2>5 DEF TypeOK, CallRecord, Pending
<1> QED BY <1>1, Counted, PTL

\* Every body that encodes, of any number of Sessions and batches, finds the scope
\* of its own section alone on the device's errorScope stack (#withScopeLock).
THEOREM ErrorsReachTheirOwnerHolds == Spec => []ErrorsReachTheirOwner
<1>1. IInv => ErrorsReachTheirOwner
  <2> SUFFICES ASSUME IInv PROVE ErrorsReachTheirOwner
      OBVIOUS
  <2> USE DEF IInv
  <2>1. ASSUME NEW b \in Batches, Inside(b) PROVE scopes = <<b>>
      BY <2>1, OneHolder, SchedulingAssumption DEF Stack
  <2>2. ASSUME NEW e \in Calls, call[e].stage = "encoding", call[e].kind = "run"
        PROVE  scopes = <<e>>
      BY <2>2, OneHolder, SchedulingAssumption DEF Stack, RunHolds
  <2>3. ASSUME NEW e \in Calls, call[e].stage = "encoding", call[e].kind # "run"
        PROVE  scopes = <<call[e].batch>>
    <3>1. PICK b \in Batches : b = call[e].batch
        BY <2>3 DEF Shape
    <3>2. Leased(b) # {}
        BY <2>3, <3>1 DEF Leased
    <3>3. Inside(b)
        BY <3>2 DEF Leases, Inside
    <3> QED BY <2>1, <3>1, <3>3
  <2>4. ASSUME NEW e \in Calls, call[e].stage = "encoding"
        PROVE  scopes = <<IF call[e].kind = "run" THEN e ELSE call[e].batch>>
    <3>1. CASE call[e].kind = "run"
        BY <2>2, <2>4, <3>1
    <3>2. CASE call[e].kind # "run"
        BY <2>3, <2>4, <3>2
    <3> QED BY <3>1, <3>2
  <2> QED BY <2>1, <2>4 DEF ErrorsReachTheirOwner, Inside
<1> QED BY <1>1, Invariance, PTL

\* While a batch fences, none of its calls has a body left to run: the lease of
\* each is counted until its body left (BatchInternals.enter and leave).
THEOREM FenceCoversBatchHolds == Spec => []FenceCoversBatch
<1>1. IInv => FenceCoversBatch
  <2> SUFFICES ASSUME IInv, NEW b \in Batches, NEW e \in Calls, call[e].batch = b,
                      batch[b].state \in {"settling", "fencing", "ended"}
               PROVE  call[e].stage \in {"written", "failed"}
      BY DEF FenceCoversBatch
  <2> USE DEF IInv
  <2>1. Leased(b) = {}
      BY DEF Leases
  <2>2. call[e].stage \in {"queued", "encoding", "written", "failed"}
      BY SchedulingAssumption DEF SchedulingAssumption, Shape
  <2> QED BY <2>1, <2>2 DEF Leased
<1> QED BY <1>1, Invariance, PTL

\* A batch that ended without a failure submitted the work of every call it
\* accepted (BatchScope.finish).
THEOREM SuccessIsCompleteHolds == Spec => []SuccessIsComplete
<1>1. IInv => SuccessIsComplete
  <2> SUFFICES ASSUME IInv, NEW b \in Batches, NEW e \in Calls, call[e].batch = b,
                      batch[b].state = "ended", ~batch[b].failed
               PROVE  call[e].stage = "written"
      BY DEF SuccessIsComplete
  <2> USE DEF IInv
  <2>1. Leased(b) = {}
      BY DEF Leases
  <2>2. call[e].stage \in {"queued", "encoding", "written", "failed"}
      BY SchedulingAssumption DEF SchedulingAssumption, Shape
  <2>3. call[e].stage # "failed"
      BY DEF Leases
  <2> QED BY <2>1, <2>2, <2>3 DEF Leased
<1> QED BY <1>1, Invariance, PTL

\* What a batch reads back for an enqueueRead is that call's own output, with any
\* number of other calls of its Session around it (Session.#readBatch).
THEOREM ReadsReturnOwnOutputHolds == Spec => []ReadsReturnOwnOutput
<1>1. IInv => ReadsReturnOwnOutput
  <2> SUFFICES ASSUME IInv, NEW e \in Calls, call[e].kind = "enqueueRead",
                      call[e].stage = "written", Inside(call[e].batch)
               PROVE  output[call[e].session] = e
      BY DEF ReadsReturnOwnOutput, Inside
  <2> QED BY DEF IInv, Reads, Reading
<1> QED BY <1>1, Invariance, PTL

\* The disposal of a Session never overtakes a body it accepted before
\* (Session.dispose on Session.#chain).
THEOREM BodiesPrecedeDisposalHolds == Spec => []BodiesPrecedeDisposal
<1>1. IInv => BodiesPrecedeDisposal
  <2> SUFFICES ASSUME IInv, NEW e \in Calls, OnChain(e)
               PROVE  life[call[e].session] # "disposed"
      BY DEF BodiesPrecedeDisposal, OnChain
  <2> USE DEF IInv
  <2>1. PICK s \in Sessions : s = call[e].session
      BY DEF Shape, OnChain
  <2>2. PICK i \in 1..Len(chain[s]) : chain[s][i] = e
      BY <2>1 DEF Chains, Placed
  <2>3. ASSUME chain[s] = <<>> PROVE FALSE
      BY <2>2, <2>3, EmptySeq
  <2> QED BY <2>1, <2>3 DEF Chains, InOrder
<1> QED BY <1>1, Invariance, PTL
===============================================================================
