------------------------ MODULE GenerationSequenceProofs ------------------------
(*******************************************************************************)
(* Proofs about GenerationSequence, for any number of conversations and        *)
(* streams, any sampler, prompts, limits and sizes: no run passes the capacity,*)
(* used agrees with the token told last, the drafter continues the last row,   *)
(* and no rows are left to be committed; and whatever the decoding, a          *)
(* conversation is one that draws and tells one token after the other.         *)
(*                                                                             *)
(* All follow from one inductive invariant, IInv.  A stream that is past its   *)
(* admission has the first place of its conversation's chain (Chains), so no   *)
(* other stream of that conversation is; what it knows of the conversation     *)
(* (Turn) is therefore changed by its own steps only.                          *)
(*******************************************************************************)
EXTENDS SequenceConversation, SequenceTheorems, TLAPS

Conditions == {"absent", "copying", "live", "broken", "disposed"}
\* Of a conversation that nobody was handed yet.
Unborn == {"absent", "copying"}
Stages == {"idle", "issued", "queued", "prefill", "first", "decode", "deliver"}
Running == {"prefill", "first", "decode", "deliver"}
Drawables == Tokens \cup {NoToken}
Places == [position : Nat, id : Drawables]
Generations == [stage : Stages, on : Sequences, mode : {"plain", "ahead", "speculative"},
                prompt : Seq(Tokens), limit : Nat, drawn : Nat, hidden : Int,
                confirmed : Seq(Tokens), index : Nat, resting : BOOLEAN, told : Places]
Operations == [op : {"stream"}, id : Streams] \cup [op : {"fork", "dispose"}, id : Sequences]

Types ==
    /\ wiring \in {"speculative", "ahead"}
    /\ context \in [Sequences -> Conditions]
    /\ columns \in [Sequences -> Seq(Tokens)]
    /\ rows \in [Sequences -> Seq(Tokens)]
    /\ pendingToken \in [Sequences -> Drawables]
    /\ frontierRows \in [Sequences -> Nat]
    /\ disposal \in [Sequences -> BOOLEAN]
    /\ chain \in [Sequences -> Seq(Operations)]
    /\ streams \in [Streams -> Generations]

\* What the chain holds for a stream that was pulled, and for a branch asked for.
Place(s) == [op |-> "stream", id |-> s]
Copying(p) == [op |-> "fork", id |-> p]

Placed(s) == streams[s].stage \notin {"idle", "issued"}

\* Where a stream is on a chain it is on its own conversation's, once; there is
\* one from its first pull on, and it is first while the stream runs.
Chains ==
    /\ \A s \in Streams : \A q \in Sequences : \A i \in 1 .. Len(chain[q]) :
           chain[q][i] = Place(s) =>
               /\ streams[s].on = q /\ Placed(s)
               /\ \A j \in 1 .. Len(chain[q]) : chain[q][j] = Place(s) => j = i
    /\ \A s \in Streams :
           /\ Placed(s) => \E i \in 1 .. Len(chain[streams[s].on]) :
                               chain[streams[s].on][i] = Place(s)
           /\ streams[s].stage \in Running => Head(chain[streams[s].on]) = Place(s)

\* A branch that is being copied has one place on one chain, and none has a
\* place on its own.
Copies ==
    /\ \A p \in Sequences : \A q \in Sequences : \A i \in 1 .. Len(chain[q]) :
           chain[q][i] = Copying(p) =>
               /\ context[p] = "copying"
               /\ \A r \in Sequences : \A j \in 1 .. Len(chain[r]) :
                      chain[r][j] = Copying(p) => r = q /\ j = i
    /\ \A p \in Sequences : context[p] \in Unborn => chain[p] = <<>>

\* Logical positions there are.
Most == Lesser(Capacity, MaxPosition)

\* A stream that runs none of its steps between two awaits has drawn nothing.
Waiting(s) ==
    /\ streams[s].stage \notin Running => ~streams[s].resting /\ streams[s].drawn = 0
    /\ streams[s].stage \notin Running => streams[s].told = NothingTold
    /\ streams[s].stage # "idle" => context[streams[s].on] \notin Unborn

\* What a stream that takes its prompt may still write, and what it wrote last.
Prefilling(s) ==
    /\ streams[s].stage \in {"prefill", "first"} =>
           /\ streams[s].drawn = 0 /\ streams[s].limit >= 1
           /\ streams[s].told = NothingTold
    /\ streams[s].stage = "prefill" =>
           /\ streams[s].prompt # <<>>
           /\ pendingToken[streams[s].on] \in {NoToken, streams[s].prompt[1]}
           /\ Past(s) + Len(streams[s].prompt) + streams[s].limit <= Most + 1
    /\ streams[s].stage = "first" =>
           /\ Past(s) + streams[s].limit <= Most + 1 /\ streams[s].hidden = Past(s) - 1
           /\ pendingToken[streams[s].on] = NoToken

\* Between two tokens: the pending token is drawn and told.
Decoding(s) ==
    streams[s].stage = "decode" =>
        /\ streams[s].drawn \in 1 .. streams[s].limit
        /\ Past(s) + (streams[s].limit - streams[s].drawn) <= Most
        /\ pendingToken[streams[s].on] \in Tokens
        /\ streams[s].resting => streams[s].told.position = Past(s)
        /\ streams[s].mode = "speculative" => streams[s].hidden = Past(s) - 1

\* Handing out what one run or batch confirmed, over these rows: token i + 1 was
\* drawn after the first i + 1 rows; the rows whose tokens were handed out are
\* the frontier.
HandsOut(x, past, written, token, reached) ==
    LET n == Len(x.confirmed) IN
    /\ n \in 1 .. Len(written) /\ x.index \in 0 .. n
    /\ reached = x.index
    /\ x.drawn \in 1 .. x.limit /\ n - x.index <= x.limit - x.drawn
    /\ Len(past) + Len(written) <= Most
    /\ Len(past) + x.index + (x.limit - x.drawn) <= Most
    /\ token = IF x.index = 0 THEN written[1] ELSE x.confirmed[x.index]
    /\ \A i \in 1 .. x.index : x.confirmed[i] \notin Stops
    /\ \A i \in 1 .. (n - 1) : written[i + 1] = x.confirmed[i]
    /\ \A i \in 1 .. n : x.confirmed[i] \in Likely(past \o SubSeq(written, 1, i))
    /\ x.resting => x.told.position = Len(past) + x.index
    /\ x.mode = "speculative" => x.confirmed[n] \in Stops \/ x.hidden = Len(past) + n - 1

Delivering(s) ==
    LET q == streams[s].on IN
    streams[s].stage = "deliver" =>
        HandsOut(streams[s], columns[q], rows[q], pendingToken[q], frontierRows[q])

Turn(s) == Waiting(s) /\ Prefilling(s) /\ Decoding(s) /\ Delivering(s)

Delivers(q) == \E s \in Streams : streams[s].on = q /\ streams[s].stage = "deliver"

\* Rows await a commit only while they are handed out, in all within the slots.
Rows(q) ==
    /\ Live(q) => Len(columns[q]) + Len(rows[q]) <= Most
    /\ Live(q) /\ ~Delivers(q) => rows[q] = <<>> /\ frontierRows[q] = 0
    /\ context[q] \in Unborn => rows[q] = <<>> /\ frontierRows[q] = 0

IInv ==
    /\ Types /\ Chains /\ Copies
    /\ \A s \in Streams : Turn(s)
    /\ \A q \in Sequences : Rows(q)

-------------------------------------------------------------------------------
(* Sizes. *)

LEMMA MostIsLeast == Most \in Nat /\ Most <= Capacity /\ Most <= MaxPosition
BY SequenceAssumption DEF Most, Lesser

LEMMA Sizes ==
    ASSUME Types, NEW q \in Sequences
    PROVE  /\ columns[q] \in Seq(Tokens) /\ Len(columns[q]) \in Nat
           /\ rows[q] \in Seq(Tokens) /\ Len(rows[q]) \in Nat
           /\ rows[q] = <<>> <=> Len(rows[q]) = 0
           /\ chain[q] \in Seq(Operations) /\ Len(chain[q]) \in Nat
           /\ frontierRows[q] \in Nat /\ pendingToken[q] \in Drawables
<1>1. /\ columns[q] \in Seq(Tokens) /\ rows[q] \in Seq(Tokens) /\ chain[q] \in Seq(Operations)
      /\ frontierRows[q] \in Nat /\ pendingToken[q] \in Drawables
  BY DEF Types
<1> QED
  BY <1>1, LenProperties, EmptySeq

\* The front of a list: its length, its places, and one element more of it.
LEMMA Front ==
    ASSUME NEW S, NEW list \in Seq(S), NEW n \in 0 .. Len(list)
    PROVE  /\ SubSeq(list, 1, n) \in Seq(S) /\ Len(SubSeq(list, 1, n)) = n
           /\ \A i \in 1 .. n : SubSeq(list, 1, n)[i] = list[i]
<1>1. \A i \in 1 .. n : list[i] \in S
  BY LenProperties, ElementOfSeq
<1> QED
  BY <1>1, SubSeqProperties, LenProperties

LEMMA Joined ==
    ASSUME NEW S, NEW left \in Seq(S), NEW right \in Seq(S)
    PROVE  /\ left \o right \in Seq(S) /\ Len(left \o right) = Len(left) + Len(right)
           /\ Len(left) \in Nat /\ Len(right) \in Nat
           /\ \A i \in 1 .. Len(left) : (left \o right)[i] = left[i]
           /\ \A i \in 1 .. Len(right) : (left \o right)[Len(left) + i] = right[i]
<1>1. Len(left) \in Nat /\ Len(right) \in Nat
  BY LenProperties
<1>2. left \o right \in Seq(S) /\ Len(left \o right) = Len(left) + Len(right)
  BY ConcatProperties
<1>3. \A i \in 1 .. Len(left) + Len(right) :
          (left \o right)[i] = IF i <= Len(left) THEN left[i] ELSE right[i - Len(left)]
  BY ConcatProperties
<1> DEFINE l == Len(left)
           m == Len(right)
           w == left \o right
<1>4. /\ l \in Nat /\ m \in Nat
      /\ \A i \in 1 .. l + m : w[i] = IF i <= l THEN left[i] ELSE right[i - l]
  BY <1>1, <1>3
<1> HIDE DEF l, m, w
<1>5. /\ \A i \in 1 .. l : w[i] = left[i]
      /\ \A i \in 1 .. m : w[l + i] = right[i]
  <2>1. ASSUME NEW i \in 1 .. m PROVE w[l + i] = right[i]
    <3>1. l + i \in 1 .. l + m /\ ~(l + i <= l) /\ (l + i) - l = i
      BY <1>4
    <3>2. w[l + i] = right[(l + i) - l]
      BY <1>4, <3>1
    <3> QED
      BY <3>1, <3>2
  <2>2. ASSUME NEW i \in 1 .. l PROVE w[i] = left[i]
    BY <1>4
  <2> QED
    BY <2>1, <2>2
<1> QED
  BY <1>1, <1>2, <1>5 DEF l, m, w

-------------------------------------------------------------------------------
(* The chain. *)

LEMMA PlacesDiffer ==
    ASSUME NEW s, NEW r
    PROVE  /\ Place(s) = Place(r) => s = r
           /\ Copying(s) = Copying(r) => s = r
           /\ Place(s) # Copying(r)
           /\ Place(s).op = "stream" /\ Copying(s).op = "fork" /\ Copying(s).id = s
<1>1. /\ Place(s).id = s /\ Place(r).id = r /\ Copying(s).id = s /\ Copying(r).id = r
      /\ Place(s).op = "stream" /\ Copying(r).op = "fork" /\ Copying(s).op = "fork"
  BY DEF Place, Copying
<1> QED
  BY <1>1, Zenon

\* The stream has the first place of its chain.
Holds(s) == Placed(s) /\ Head(chain[streams[s].on]) = Place(s)

LEMMA ChainPlace ==
    ASSUME Types, Chains, NEW s \in Streams, Placed(s)
    PROVE  LET q == streams[s].on IN
           /\ q \in Sequences /\ chain[q] # <<>> /\ Len(chain[q]) \in Nat \ {0}
           /\ 1 \in 1 .. Len(chain[q]) /\ Head(chain[q]) = chain[q][1]
<1> DEFINE q == streams[s].on
<1>1. q \in Sequences /\ chain[q] \in Seq(Operations) /\ Len(chain[q]) \in Nat
  BY Sizes DEF Types, Generations
<1>2. \E i \in 1 .. Len(chain[q]) : TRUE
  BY DEF Chains
<1>3. Len(chain[q]) # 0 /\ chain[q] # <<>>
  BY <1>1, <1>2, EmptySeq
<1> HIDE DEF q
<1>4. Head(chain[q]) = chain[q][1]
  BY <1>1, <1>3
<1> QED
  BY <1>1, <1>3, <1>4 DEF q

\* Whoever runs a step is alone in it.
LEMMA Alone ==
    ASSUME Types, Chains, NEW s \in Streams, Holds(s),
           NEW r \in Streams \ {s}, streams[r].stage \in Running
    PROVE  streams[r].on # streams[s].on
<1>1. Head(chain[streams[r].on]) = Place(r)
  BY DEF Chains
<1> QED
  BY <1>1, PlacesDiffer DEF Holds

\* A place at the end.
LEMMA PushPlaces ==
    ASSUME Types, NEW q \in Sequences, NEW e \in Operations,
           chain' = [chain EXCEPT ![q] = Append(@, e)]
    PROVE  /\ chain' \in [Sequences -> Seq(Operations)]
           /\ \A r \in Sequences \ {q} : chain'[r] = chain[r]
           /\ Len(chain'[q]) = Len(chain[q]) + 1
           /\ \A i \in 1 .. Len(chain[q]) : chain'[q][i] = chain[q][i]
           /\ chain'[q][Len(chain[q]) + 1] = e
           /\ chain[q] # <<>> => Head(chain'[q]) = Head(chain[q])
<1>1. chain[q] \in Seq(Operations) /\ chain'[q] = Append(chain[q], e)
  BY DEF Types
<1>2. /\ Append(chain[q], e) \in Seq(Operations)
      /\ Len(Append(chain[q], e)) = Len(chain[q]) + 1
      /\ \A i \in 1 .. Len(chain[q]) : Append(chain[q], e)[i] = chain[q][i]
      /\ Append(chain[q], e)[Len(chain[q]) + 1] = e
  BY <1>1, AppendProperties
<1>3. chain[q] # <<>> => Head(Append(chain[q], e)) = Head(chain[q])
  BY <1>1, HeadTailAppend
<1> QED
  BY <1>1, <1>2, <1>3 DEF Types

\* The first place given up.
LEMMA PopPlaces ==
    ASSUME Types, NEW q \in Sequences, chain[q] # <<>>,
           chain' = [chain EXCEPT ![q] = Tail(@)]
    PROVE  /\ chain' \in [Sequences -> Seq(Operations)]
           /\ \A r \in Sequences \ {q} : chain'[r] = chain[r]
           /\ Len(chain'[q]) = Len(chain[q]) - 1 /\ Len(chain[q]) \in Nat \ {0}
           /\ \A i \in 1 .. Len(chain'[q]) :
                  i + 1 \in 1 .. Len(chain[q]) /\ chain'[q][i] = chain[q][i + 1]
           /\ \A i \in 1 .. Len(chain[q]) :
                  i # 1 => i - 1 \in 1 .. Len(chain'[q]) /\ chain'[q][i - 1] = chain[q][i]
           /\ Head(chain[q]) = chain[q][1]
<1>1. chain[q] \in Seq(Operations) /\ chain'[q] = Tail(chain[q]) /\ Len(chain[q]) \in Nat \ {0}
  BY EmptySeq DEF Types
<1>2. /\ Tail(chain[q]) \in Seq(Operations) /\ Len(Tail(chain[q])) = Len(chain[q]) - 1
      /\ \A i \in 1 .. Len(Tail(chain[q])) : Tail(chain[q])[i] = chain[q][i + 1]
  BY <1>1, HeadTailProperties
<1>3. /\ chain' \in [Sequences -> Seq(Operations)]
      /\ \A r \in Sequences \ {q} : chain'[r] = chain[r]
  BY <1>1, <1>2 DEF Types
<1> DEFINE l == Len(chain[q])
           t == Tail(chain[q])
<1>4. l \in Nat \ {0} /\ Len(t) = l - 1 /\ \A i \in 1 .. Len(t) : t[i] = chain[q][i + 1]
  BY <1>1, <1>2
<1> HIDE DEF l, t
<1>5. \A i \in 1 .. Len(t) : i + 1 \in 1 .. l /\ t[i] = chain[q][i + 1]
  BY <1>4
<1>6. \A i \in 1 .. l : i # 1 => i - 1 \in 1 .. Len(t) /\ t[i - 1] = chain[q][i]
  <2> TAKE i \in 1 .. l
  <2> HAVE i # 1
  <2>1. i - 1 \in 1 .. Len(t) /\ (i - 1) + 1 = i
    BY <1>4
  <2>2. t[i - 1] = chain[q][(i - 1) + 1]
    BY <1>4, <2>1
  <2> QED
    BY <2>1, <2>2
<1>7. Head(chain[q]) = chain[q][1]
  BY <1>1
<1> QED
  BY <1>1, <1>3, <1>4, <1>5, <1>6, <1>7 DEF l, t

\* No place is taken or given up.
LEMMA ChainsSame ==
    ASSUME Types, Chains, chain' = chain,
           \A r \in Streams :
               /\ Placed(r)' <=> Placed(r)
               /\ Placed(r) => streams'[r].on = streams[r].on
               /\ streams'[r].stage \in Running => Head(chain[streams[r].on]) = Place(r)
    PROVE  Chains'
<1>1. ASSUME NEW s \in Streams, NEW q \in Sequences, NEW i \in 1 .. Len(chain[q]),
             chain[q][i] = Place(s)
      PROVE  /\ streams'[s].on = q /\ Placed(s)'
             /\ \A j \in 1 .. Len(chain[q]) : chain[q][j] = Place(s) => j = i
  BY <1>1 DEF Chains
<1>2. ASSUME NEW s \in Streams, Placed(s)'
      PROVE  \E i \in 1 .. Len(chain[streams'[s].on]) : chain[streams'[s].on][i] = Place(s)
  BY <1>2 DEF Chains
<1>3. ASSUME NEW s \in Streams, streams'[s].stage \in Running
      PROVE  Head(chain[streams'[s].on]) = Place(s)
  BY <1>3 DEF Running, Placed
<1> QED
  BY <1>1, <1>2, <1>3 DEF Chains

\* The first place of a chain is given up: by the stream that had it, which is
\* issued no more, or by another operation.
LEMMA ChainsPop ==
    ASSUME Types, Chains, NEW q \in Sequences, chain[q] # <<>>,
           chain' = [chain EXCEPT ![q] = Tail(@)],
           \A r \in Streams : IF Head(chain[q]) = Place(r) THEN streams'[r].stage = "idle"
                                                           ELSE streams'[r] = streams[r]
    PROVE  Chains'
<1>1. /\ chain' \in [Sequences -> Seq(Operations)]
      /\ \A r \in Sequences \ {q} : chain'[r] = chain[r]
      /\ Len(chain'[q]) = Len(chain[q]) - 1 /\ Len(chain[q]) \in Nat \ {0}
      /\ \A i \in 1 .. Len(chain'[q]) :
             i + 1 \in 1 .. Len(chain[q]) /\ chain'[q][i] = chain[q][i + 1]
      /\ \A i \in 1 .. Len(chain[q]) :
             i # 1 => i - 1 \in 1 .. Len(chain'[q]) /\ chain'[q][i - 1] = chain[q][i]
      /\ Head(chain[q]) = chain[q][1]
  BY PopPlaces
<1>0. 1 \in 1 .. Len(chain[q])
  BY <1>1
<1>2. ASSUME NEW s \in Streams, NEW p \in Sequences, NEW i \in 1 .. Len(chain'[p]),
             chain'[p][i] = Place(s)
      PROVE  /\ streams'[s].on = p /\ Placed(s)'
             /\ \A j \in 1 .. Len(chain'[p]) : chain'[p][j] = Place(s) => j = i
  <2>1. ASSUME p = q
        PROVE  /\ i + 1 \in 1 .. Len(chain[q]) /\ chain[q][i + 1] = Place(s)
               /\ \A j \in 1 .. Len(chain[q]) : chain[q][j] = Place(s) => j = i + 1
               /\ streams[s].on = p /\ Placed(s) /\ Head(chain[q]) # Place(s)
    <3>1. i + 1 \in 1 .. Len(chain[q]) /\ chain[q][i + 1] = Place(s) /\ 1 # i + 1
      BY <1>1, <1>2, <2>1
    <3>2. \A j \in 1 .. Len(chain[q]) : chain[q][j] = Place(s) => j = i + 1
      BY <3>1 DEF Chains
    <3>3. streams[s].on = p /\ Placed(s)
      BY <3>1, <2>1 DEF Chains
    <3> QED
      BY <1>1, <3>1, <3>2, <3>3
  <2>2. ASSUME p # q
        PROVE  /\ \A j \in 1 .. Len(chain'[p]) : chain'[p][j] = Place(s) => j = i
               /\ streams[s].on = p /\ Placed(s) /\ Head(chain[q]) # Place(s)
    <3>1. chain'[p] = chain[p]
      BY <1>1, <2>2
    <3>2. streams[s].on = p /\ Placed(s)
      BY <1>2, <3>1 DEF Chains
    <3>3. \A j \in 1 .. Len(chain[p]) : chain[p][j] = Place(s) => j = i
      <4>1. i \in 1 .. Len(chain[p]) /\ chain[p][i] = Place(s)
        BY <1>2, <3>1
      <4> QED
        BY <4>1 DEF Chains
    <3>4. chain[q][1] = Place(s) => streams[s].on = q
      BY <1>0 DEF Chains
    <3> QED
      BY <1>1, <2>2, <3>1, <3>2, <3>3, <3>4
  <2>3. ASSUME p = q, NEW j \in 1 .. Len(chain'[p]), chain'[p][j] = Place(s) PROVE j = i
    <3>1. j + 1 \in 1 .. Len(chain[q]) /\ chain[q][j + 1] = Place(s)
      BY <1>1, <2>3
    <3>2. j + 1 = i + 1
      BY <2>1, <2>3, <3>1
    <3> QED
      BY <1>1, <2>3, <3>2
  <2>4. streams'[s] = streams[s]
    BY <2>1, <2>2
  <2> QED
    BY <2>1, <2>2, <2>3, <2>4 DEF Placed
<1>3. ASSUME NEW s \in Streams, Placed(s)'
      PROVE  /\ streams'[s] = streams[s] /\ streams[s].on \in Sequences /\ Placed(s)
             /\ Head(chain[q]) # Place(s)
             /\ \E i \in 1 .. Len(chain'[streams[s].on]) :
                    chain'[streams[s].on][i] = Place(s)
  <2>1. streams'[s] = streams[s] /\ chain[q][1] # Place(s) /\ Placed(s)
    BY <1>1, <1>3 DEF Placed
  <2>2. PICK i \in 1 .. Len(chain[streams[s].on]) : chain[streams[s].on][i] = Place(s)
    BY <2>1 DEF Chains
  <2>3. streams[s].on \in Sequences
    BY DEF Types, Generations
  <2>4. CASE streams[s].on = q
    <3>1. i \in 1 .. Len(chain[q]) /\ i # 1 /\ chain[q][i] = Place(s)
      BY <2>1, <2>2, <2>4
    <3>2. i - 1 \in 1 .. Len(chain'[q]) /\ chain'[q][i - 1] = Place(s)
      BY <1>1, <3>1
    <3> QED
      BY <1>1, <2>1, <2>3, <2>4, <3>2
  <2>5. CASE streams[s].on # q
    BY <1>1, <2>1, <2>2, <2>3, <2>5
  <2> QED
    BY <2>4, <2>5
<1>4. ASSUME NEW s \in Streams, streams'[s].stage \in Running
      PROVE  Head(chain'[streams'[s].on]) = Place(s)
  <2>1. /\ streams'[s] = streams[s] /\ Head(chain[q]) # Place(s)
        /\ streams[s].on \in Sequences
    BY <1>3, <1>4 DEF Running, Placed
  <2>2. Head(chain[streams[s].on]) = Place(s)
    BY <1>4, <2>1 DEF Chains
  <2> QED
    BY <1>1, <2>1, <2>2
<1>5. ASSUME NEW s \in Streams, Placed(s)'
      PROVE  \E i \in 1 .. Len(chain'[streams'[s].on]) : chain'[streams'[s].on][i] = Place(s)
  BY <1>3, <1>5
<1> QED
  BY <1>2, <1>4, <1>5 DEF Chains

\* A place is taken at the end: by a stream that had none, or by an operation
\* that is none.
LEMMA ChainsPush ==
    ASSUME Types, Chains, NEW q \in Sequences, NEW e \in Operations,
           chain' = [chain EXCEPT ![q] = Append(@, e)],
           \A r \in Streams :
               IF e = Place(r)
               THEN ~Placed(r) /\ streams'[r].stage = "queued" /\ streams'[r].on = q
               ELSE streams'[r] = streams[r]
    PROVE  Chains'
<1>1. /\ chain' \in [Sequences -> Seq(Operations)]
      /\ \A r \in Sequences \ {q} : chain'[r] = chain[r]
      /\ Len(chain'[q]) = Len(chain[q]) + 1
      /\ \A i \in 1 .. Len(chain[q]) : chain'[q][i] = chain[q][i]
      /\ chain'[q][Len(chain[q]) + 1] = e
      /\ chain[q] # <<>> => Head(chain'[q]) = Head(chain[q])
      /\ Len(chain[q]) \in Nat
  BY PushPlaces, Sizes
<1>2. ASSUME NEW s \in Streams, NEW p \in Sequences, NEW i \in 1 .. Len(chain'[p]),
             chain'[p][i] = Place(s)
      PROVE  /\ streams'[s].on = p /\ Placed(s)'
             /\ \A j \in 1 .. Len(chain'[p]) : chain'[p][j] = Place(s) => j = i
  <2>1. ASSUME e # Place(s)
        PROVE  /\ chain'[p] = chain[p] \/ p = q
               /\ \A j \in 1 .. Len(chain'[p]) :
                      chain'[p][j] = Place(s) =>
                          j \in 1 .. Len(chain[p]) /\ chain[p][j] = Place(s)
    BY <1>1, <2>1
  <2>2. CASE e # Place(s)
    <3>1. i \in 1 .. Len(chain[p]) /\ chain[p][i] = Place(s)
      BY <1>2, <2>1, <2>2
    <3>2. streams[s].on = p /\ Placed(s)
      BY <3>1 DEF Chains
    <3>3. \A j \in 1 .. Len(chain[p]) : chain[p][j] = Place(s) => j = i
      BY <3>1 DEF Chains
    <3>4. \A j \in 1 .. Len(chain'[p]) : chain'[p][j] = Place(s) => j = i
      BY <2>1, <2>2, <3>3
    <3> QED
      BY <2>2, <3>2, <3>4 DEF Placed
  <2>3. CASE e = Place(s)
    <3>1. /\ ~Placed(s) /\ streams'[s].stage = "queued" /\ streams'[s].on = q
      BY <2>3
    <3>2. \A r \in Sequences : \A j \in 1 .. Len(chain[r]) : chain[r][j] # Place(s)
      BY <3>1 DEF Chains
    <3>3. \A j \in 1 .. Len(chain'[q]) : chain'[q][j] = Place(s) => j = Len(chain[q]) + 1
      BY <1>1, <3>2
    <3>4. p = q
      BY <1>1, <1>2, <3>2
    <3> QED
      BY <1>2, <3>1, <3>3, <3>4 DEF Placed
  <2> QED
    BY <2>2, <2>3
<1>3. ASSUME NEW s \in Streams, Placed(s)'
      PROVE  \E i \in 1 .. Len(chain'[streams'[s].on]) : chain'[streams'[s].on][i] = Place(s)
  <2>1. CASE e = Place(s)
    <3>1. streams'[s].on = q /\ Len(chain[q]) + 1 \in 1 .. Len(chain'[q])
      BY <1>1, <2>1
    <3> QED
      BY <1>1, <2>1, <3>1
  <2>2. CASE e # Place(s)
    <3>1. streams'[s] = streams[s] /\ streams[s].on \in Sequences /\ Placed(s)
      BY <1>3, <2>2 DEF Types, Generations, Placed
    <3>2. PICK i \in 1 .. Len(chain[streams[s].on]) : chain[streams[s].on][i] = Place(s)
      BY <3>1 DEF Chains
    <3>3. streams[s].on = q => i \in 1 .. Len(chain'[q]) /\ chain'[q][i] = chain[q][i]
      BY <1>1
    <3> QED
      BY <1>1, <3>1, <3>2, <3>3
  <2> QED
    BY <2>1, <2>2
<1>4. ASSUME NEW s \in Streams, streams'[s].stage \in Running
      PROVE  Head(chain'[streams'[s].on]) = Place(s)
  <2>1. e # Place(s) /\ streams'[s] = streams[s]
    BY <1>4 DEF Running
  <2>2. /\ streams[s].on \in Sequences /\ chain[streams[s].on] # <<>>
        /\ Head(chain[streams[s].on]) = Place(s)
    BY <1>4, <2>1, ChainPlace DEF Chains, Running, Placed
  <2> QED
    BY <1>1, <2>1, <2>2
<1> QED
  BY <1>2, <1>3, <1>4 DEF Chains

\* Copies stay where they are.
LEMMA CopiesSame ==
    ASSUME Types, Copies, chain' = chain,
           \A p \in Sequences : /\ context[p] = "copying" => context'[p] = "copying"
                                /\ context'[p] \in Unborn => context[p] \in Unborn
    PROVE  Copies'
BY DEF Copies

\* A copy keeps its place, and is being copied, until its place is given up.
LEMMA CopiesPop ==
    ASSUME Types, Copies, NEW q \in Sequences, chain[q] # <<>>,
           chain' = [chain EXCEPT ![q] = Tail(@)],
           \A p \in Sequences :
               /\ context[p] = "copying" /\ Head(chain[q]) # Copying(p)
                      => context'[p] = "copying"
               /\ context'[p] \in Unborn => context[p] \in Unborn
    PROVE  Copies'
<1>1. /\ \A r \in Sequences \ {q} : chain'[r] = chain[r]
      /\ Len(chain'[q]) = Len(chain[q]) - 1 /\ Len(chain[q]) \in Nat \ {0}
      /\ \A i \in 1 .. Len(chain'[q]) :
             i + 1 \in 1 .. Len(chain[q]) /\ chain'[q][i] = chain[q][i + 1]
      /\ Head(chain[q]) = chain[q][1]
  BY PopPlaces
<1>2. 1 \in 1 .. Len(chain[q])
  BY <1>1
<1>0. ASSUME NEW p \in Sequences, context'[p] \in Unborn PROVE chain'[p] = <<>>
  BY <1>0, <1>1 DEF Copies
<1>3. SUFFICES ASSUME NEW p \in Sequences, NEW r \in Sequences,
                      NEW i \in 1 .. Len(chain'[r]), chain'[r][i] = Copying(p)
               PROVE  /\ context'[p] = "copying"
                      /\ \A u \in Sequences : \A j \in 1 .. Len(chain'[u]) :
                             chain'[u][j] = Copying(p) => u = r /\ j = i
  BY <1>0 DEF Copies
<1> DEFINE k == IF r = q THEN i + 1 ELSE i
<1>4. k \in 1 .. Len(chain[r]) /\ chain[r][k] = Copying(p)
  BY <1>1, <1>3
<1>5. context[p] = "copying" /\ \A u \in Sequences : \A j \in 1 .. Len(chain[u]) :
                                   chain[u][j] = Copying(p) => u = r /\ j = k
  <2> HIDE DEF k
  <2> QED
    BY <1>4 DEF Copies
<1>6. Head(chain[q]) # Copying(p)
  BY <1>1, <1>2, <1>5
<1>7. ASSUME NEW u \in Sequences, NEW j \in 1 .. Len(chain'[u]), chain'[u][j] = Copying(p)
      PROVE  u = r /\ j = i
  <2>1. CASE u = q
    <3>1. j + 1 \in 1 .. Len(chain[q]) /\ chain[q][j + 1] = Copying(p)
      BY <1>1, <1>7, <2>1
    <3>2. q = r /\ j + 1 = k
      BY <1>5, <3>1
    <3> QED
      BY <2>1, <3>2, <1>1, <1>7
  <2>2. CASE u # q
    <3>1. j \in 1 .. Len(chain[u]) /\ chain[u][j] = Copying(p)
      BY <1>1, <1>7, <2>2
    <3>2. u = r /\ j = k
      BY <1>5, <3>1
    <3> QED
      BY <2>2, <3>2
  <2> QED
    BY <2>1, <2>2
<1> QED
  BY <1>3, <1>5, <1>6, <1>7

\* A copy that is asked for was not being made.
LEMMA CopiesPush ==
    ASSUME Types, Copies, NEW q \in Sequences, NEW e \in Operations,
           chain' = [chain EXCEPT ![q] = Append(@, e)],
           \A p \in Sequences :
               /\ context[p] = "copying" => context'[p] = "copying"
               /\ e = Copying(p) => context[p] # "copying" /\ context'[p] = "copying"
               /\ context'[p] \in Unborn => context[p] \in Unborn,
           context[q] \notin Unborn
    PROVE  Copies'
<1>1. /\ \A r \in Sequences \ {q} : chain'[r] = chain[r]
      /\ Len(chain'[q]) = Len(chain[q]) + 1
      /\ \A i \in 1 .. Len(chain[q]) : chain'[q][i] = chain[q][i]
      /\ chain'[q][Len(chain[q]) + 1] = e
      /\ Len(chain[q]) \in Nat
  BY PushPlaces, Sizes
<1>0. ASSUME NEW p \in Sequences, context'[p] \in Unborn PROVE chain'[p] = <<>>
  <2>1. p # q /\ chain[p] = <<>>
    BY <1>0 DEF Copies
  <2> QED
    BY <1>1, <2>1
<1>2. SUFFICES ASSUME NEW p \in Sequences, NEW r \in Sequences,
                      NEW i \in 1 .. Len(chain'[r]), chain'[r][i] = Copying(p)
               PROVE  /\ context'[p] = "copying"
                      /\ \A u \in Sequences : \A j \in 1 .. Len(chain'[u]) :
                             chain'[u][j] = Copying(p) => u = r /\ j = i
  BY <1>0 DEF Copies
<1>3. CASE e = Copying(p)
  <2>1. \A u \in Sequences : \A j \in 1 .. Len(chain[u]) : chain[u][j] # Copying(p)
    BY <1>3 DEF Copies
  <2>2. \A u \in Sequences : \A j \in 1 .. Len(chain'[u]) :
            chain'[u][j] = Copying(p) => u = q /\ j = Len(chain[q]) + 1
    BY <1>1, <2>1
  <2> QED
    BY <1>2, <1>3, <2>2
<1>4. CASE e # Copying(p)
  <2>1. \A u \in Sequences : \A j \in 1 .. Len(chain'[u]) :
            chain'[u][j] = Copying(p) => j \in 1 .. Len(chain[u]) /\ chain[u][j] = Copying(p)
    BY <1>1, <1>4
  <2>2. i \in 1 .. Len(chain[r]) /\ chain[r][i] = Copying(p)
    BY <1>2, <2>1
  <2>3. context[p] = "copying" /\ \A u \in Sequences : \A j \in 1 .. Len(chain[u]) :
                                     chain[u][j] = Copying(p) => u = r /\ j = i
    BY <2>2 DEF Copies
  <2> QED
    BY <2>1, <2>3
<1> QED
  BY <1>3, <1>4

-------------------------------------------------------------------------------
(* What a step leaves alone. *)

\* A stream that did not move, and whose conversation is as it was wherever it
\* reads it, knows of it what it knew.
LEMMA OtherTurn ==
    ASSUME NEW r \in Streams, Turn(r), streams'[r] = streams[r],
           streams[r].stage # "idle" => context'[streams[r].on] \notin Unborn,
           streams[r].stage \in Running =>
               /\ columns'[streams[r].on] = columns[streams[r].on]
               /\ rows'[streams[r].on] = rows[streams[r].on]
               /\ pendingToken'[streams[r].on] = pendingToken[streams[r].on]
               /\ frontierRows'[streams[r].on] = frontierRows[streams[r].on]
    PROVE  Turn(r)'
<1>1. Waiting(r)'
  BY DEF Turn, Waiting
<1>2. CASE streams[r].stage \notin Running
  <2>1. Prefilling(r)' /\ Decoding(r)' /\ Delivering(r)'
    BY <1>2 DEF Running, Prefilling, Decoding, Delivering
  <2> QED
    BY <1>1, <2>1 DEF Turn
<1>3. CASE streams[r].stage \in Running
  <2>1. Prefilling(r)'
    BY <1>3 DEF Turn, Prefilling, Past
  <2>2. Decoding(r)'
    BY <1>3 DEF Turn, Decoding, Past
  <2>3. Delivering(r)'
    BY <1>3 DEF Turn, Delivering, Past
  <2> QED
    BY <1>1, <2>1, <2>2, <2>3 DEF Turn
<1> QED
  BY <1>2, <1>3

\* A step of stream s: other streams and other conversations are as they were.
Aside(s) ==
    /\ \A r \in Streams \ {s} : streams'[r] = streams[r]
    /\ \A p \in Sequences \ {streams[s].on} :
           /\ context'[p] = context[p] /\ columns'[p] = columns[p] /\ rows'[p] = rows[p]
           /\ pendingToken'[p] = pendingToken[p] /\ frontierRows'[p] = frontierRows[p]
    /\ context'[streams[s].on] \in {context[streams[s].on], "broken"}
    /\ streams'[s].stage = "deliver" => streams'[s].on = streams[s].on

LEMMA Frame ==
    ASSUME IInv, NEW s \in Streams, Holds(s), Aside(s)
    PROVE  /\ \A r \in Streams \ {s} : Turn(r)'
           /\ \A p \in Sequences \ {streams[s].on} : Rows(p)'
           /\ context'[streams[s].on] \notin Unborn
           /\ \A p \in Sequences : /\ context[p] = "copying" <=> context'[p] = "copying"
                                   /\ context'[p] \in Unborn => context[p] \in Unborn
<1> DEFINE q == streams[s].on
<1>1. q \in Sequences /\ context[q] \notin Unborn
  BY DEF IInv, Types, Generations, Turn, Waiting, Holds, Placed
<1>2. context'[q] \notin Unborn
  BY <1>1 DEF Aside, Unborn
<1>3. ASSUME NEW r \in Streams \ {s} PROVE Turn(r)'
  <2>1. streams[r].on \in Sequences /\ Turn(r) /\ streams'[r] = streams[r]
    BY DEF IInv, Types, Generations, Aside
  <2>2. streams[r].stage # "idle" => context'[streams[r].on] \notin Unborn
    BY <1>2, <2>1 DEF Turn, Waiting, Aside
  <2>3. streams[r].stage \in Running => streams[r].on # q
    BY Alone DEF IInv
  <2>4. streams[r].stage \in Running =>
            /\ columns'[streams[r].on] = columns[streams[r].on]
            /\ rows'[streams[r].on] = rows[streams[r].on]
            /\ pendingToken'[streams[r].on] = pendingToken[streams[r].on]
            /\ frontierRows'[streams[r].on] = frontierRows[streams[r].on]
    BY <2>1, <2>3 DEF Aside
  <2> QED
    BY <2>1, <2>2, <2>4, OtherTurn
<1>4. ASSUME NEW p \in Sequences \ {q} PROVE Rows(p)'
  <2>1. Delivers(p)' <=> Delivers(p)
    BY DEF Delivers, Aside
  <2>2. Rows(p) /\ context'[p] = context[p] /\ columns'[p] = columns[p] /\ rows'[p] = rows[p]
        /\ frontierRows'[p] = frontierRows[p]
    BY DEF IInv, Aside
  <2> QED
    BY <2>1, <2>2 DEF Rows, Live, Unborn
<1>5. \A p \in Sequences : /\ context[p] = "copying" <=> context'[p] = "copying"
                           /\ context'[p] \in Unborn => context[p] \in Unborn
  BY <1>1, <1>2 DEF Aside, Unborn
<1> QED
  BY <1>2, <1>3, <1>4, <1>5

\* Nobody else delivers.
LEMMA Undelivered ==
    ASSUME IInv, NEW s \in Streams, Holds(s), streams[s].stage # "deliver"
    PROVE  /\ ~Delivers(streams[s].on)
           /\ Live(streams[s].on) =>
                  rows[streams[s].on] = <<>> /\ frontierRows[streams[s].on] = 0
<1>1. ~Delivers(streams[s].on)
  BY Alone DEF IInv, Delivers, Running
<1> QED
  BY <1>1 DEF IInv, Types, Generations, Rows

-------------------------------------------------------------------------------
(* The three ways a step of a stream ends. *)

\* It keeps its place.
LEMMA Advance ==
    ASSUME IInv, NEW s \in Streams, Holds(s), Aside(s), chain' = chain,
           NEW q \in Sequences, streams[s].on = q,
           streams'[s].on = q, streams'[s].stage \in Running,
           Types', Turn(s)', Rows(q)'
    PROVE  IInv'
<1>1. /\ \A r \in Streams \ {s} : Turn(r)'
      /\ \A p \in Sequences \ {q} : Rows(p)'
      /\ \A p \in Sequences : /\ context[p] = "copying" <=> context'[p] = "copying"
                              /\ context'[p] \in Unborn => context[p] \in Unborn
  BY Frame
<1>2. Chains'
  <2>1. ASSUME NEW r \in Streams
        PROVE  /\ Placed(r)' <=> Placed(r)
               /\ Placed(r) => streams'[r].on = streams[r].on
               /\ streams'[r].stage \in Running => Head(chain[streams[r].on]) = Place(r)
    <3>1. CASE r = s
      BY <3>1 DEF Holds, Placed, Running
    <3>2. CASE r # s
      <4>1. streams'[r] = streams[r]
        BY <3>2 DEF Aside
      <4> QED
        BY <4>1 DEF IInv, Chains, Placed
    <3> QED
      BY <3>1, <3>2
  <2> QED
    BY <2>1, ChainsSame DEF IInv
<1>3. Copies'
  BY <1>1, CopiesSame DEF IInv
<1> QED
  BY <1>1, <1>2, <1>3 DEF IInv

\* It settles done and gives its place back.
LEMMA Leave ==
    ASSUME IInv, NEW s \in Streams, Holds(s), Aside(s),
           NEW q \in Sequences, streams[s].on = q,
           streams' = [streams EXCEPT ![s] = Unissued],
           chain' = [chain EXCEPT ![q] = Tail(@)],
           Types',
           Live(q)' => Len(columns'[q]) <= Most /\ rows'[q] = <<>> /\ frontierRows'[q] = 0
    PROVE  IInv'
<1>1. /\ \A r \in Streams \ {s} : Turn(r)'
      /\ \A p \in Sequences \ {q} : Rows(p)'
      /\ context'[q] \notin Unborn
      /\ \A p \in Sequences : /\ context[p] = "copying" <=> context'[p] = "copying"
                              /\ context'[p] \in Unborn => context[p] \in Unborn
  BY Frame
<1>2. chain[q] # <<>> /\ Head(chain[q]) = Place(s)
  BY ChainPlace DEF IInv, Holds
<1>3. streams'[s] = Unissued /\ streams'[s].stage = "idle"
  BY DEF IInv, Types, Unissued
<1>4. Chains'
  <2>1. \A r \in Streams : IF Head(chain[q]) = Place(r) THEN streams'[r].stage = "idle"
                                                       ELSE streams'[r] = streams[r]
    <3> SUFFICES ASSUME NEW r \in Streams
                 PROVE  IF Head(chain[q]) = Place(r) THEN streams'[r].stage = "idle"
                                                     ELSE streams'[r] = streams[r]
      OBVIOUS
    <3>1. CASE r = s
      BY <1>2, <1>3, <3>1
    <3>2. CASE r # s
      BY <1>2, <3>2, PlacesDiffer DEF Aside
    <3> QED
      BY <3>1, <3>2
  <2> QED
    BY <1>2, <2>1, ChainsPop DEF IInv
<1>5. Copies'
  BY <1>1, <1>2, CopiesPop DEF IInv
<1>6. Turn(s)'
  BY <1>3 DEF Turn, Waiting, Prefilling, Decoding, Delivering, Unissued
<1>7. Rows(q)'
  <2>1. ASSUME Live(q)' PROVE Len(columns'[q]) + Len(rows'[q]) <= Most
    <3>1. Len(columns'[q]) <= Most /\ rows'[q] = <<>>
      BY <2>1
    <3>2. Len(rows'[q]) = 0
      BY <3>1, EmptySeq
    <3>3. Len(columns'[q]) \in Nat /\ Most \in Nat
      BY MostIsLeast, LenProperties DEF Types
    <3> QED
      BY <3>1, <3>2, <3>3
  <2> QED
    BY <1>1, <2>1 DEF Rows, Unborn
<1> QED
  BY <1>1, <1>4, <1>5, <1>6, <1>7 DEF IInv

LEMMA UnissuedIsOne == Unissued \in Generations
<1>1. <<>> \in Seq(Tokens)
  BY EmptySeq
<1>2. NothingTold \in Places
  BY DEF NothingTold, Places, Drawables
<1>3. Main \in Sequences
  BY SequenceAssumption
<1> QED
  BY <1>1, <1>2, <1>3 DEF Unissued, Generations, Stages

LEMMA SettledTypes ==
    ASSUME Types, NEW s \in Streams, NEW q \in Sequences, chain[q] # <<>>,
           streams' = [streams EXCEPT ![s] = Unissued],
           chain' = [chain EXCEPT ![q] = Tail(@)]
    PROVE  /\ streams' \in [Streams -> Generations]
           /\ chain' \in [Sequences -> Seq(Operations)]
<1>1. chain' \in [Sequences -> Seq(Operations)]
  BY PopPlaces
<1> QED
  BY <1>1, UnissuedIsOne DEF Types

\* It ends after rows were handed out, which the commit accepts if it still can.
LEMMA FinishKeeps ==
    ASSUME IInv, NEW s \in Streams, Holds(s), NEW n \in Nat, NEW token \in Drawables,
           NEW outcome, Finish(s, outcome, n, token),
           NEW q \in Sequences, streams[s].on = q, Live(q) => n <= Len(rows[q])
    PROVE  IInv'
<1>1. chain[q] # <<>>
  BY ChainPlace DEF IInv, Holds
<1>2. /\ columns[q] \in Seq(Tokens) /\ Len(columns[q]) \in Nat
      /\ rows[q] \in Seq(Tokens) /\ Len(rows[q]) \in Nat
      /\ rows[q] = <<>> <=> Len(rows[q]) = 0
  BY <1>1, Sizes DEF IInv
<1>3. /\ Commit(q, n).columns \in Seq(Tokens) /\ Commit(q, n).rows \in Seq(Tokens)
      /\ Commit(q, n).frontier \in Nat
      /\ Live(q) => /\ Len(Commit(q, n).columns) <= Most
                    /\ Commit(q, n).rows = <<>> /\ Commit(q, n).frontier = 0
  <2>1. CASE Live(q) /\ rows[q] # <<>>
    <3> DEFINE taken == SubSeq(rows[q], 1, n)
               all == columns[q] \o taken
    <3>1. Commit(q, n).columns = all /\ Commit(q, n).rows = <<>> /\ Commit(q, n).frontier = 0
      BY <2>1 DEF Commit
    <3>2. taken \in Seq(Tokens) /\ Len(taken) = n
      BY <1>2, <2>1, Front
    <3>3. all \in Seq(Tokens) /\ Len(all) = Len(columns[q]) + n
      <4> HIDE DEF taken
      <4> QED
        BY <1>2, <3>2, Joined
    <3>4. Len(columns[q]) + Len(rows[q]) <= Most /\ n <= Len(rows[q])
      BY <1>1, <2>1 DEF IInv, Rows
    <3>5. <<>> \in Seq(Tokens)
      BY EmptySeq
    <3>6. Len(all) <= Most
      <4> DEFINE c == Len(columns[q])
                 r == Len(rows[q])
                 l == Len(all)
      <4>1. /\ c \in Nat /\ r \in Nat /\ Most \in Nat
            /\ l = c + n /\ c + r <= Most /\ n <= r
        BY <1>2, <3>3, <3>4, MostIsLeast
      <4> HIDE DEF c, r, l
      <4>2. l <= Most
        BY <4>1
      <4> QED
        BY <4>2 DEF l
    <3> HIDE DEF all
    <3> QED
      BY <2>1, <3>1, <3>3, <3>5, <3>6
  <2>2. CASE ~(Live(q) /\ rows[q] # <<>>)
    <3>1. /\ Commit(q, n).columns = columns[q] /\ Commit(q, n).rows = rows[q]
          /\ Commit(q, n).frontier = n
      BY <2>2 DEF Commit
    <3>2. ASSUME Live(q) PROVE Len(columns[q]) <= Most /\ rows[q] = <<>> /\ n = 0
      <4>1. Len(columns[q]) + Len(rows[q]) <= Most /\ n <= Len(rows[q]) /\ Len(rows[q]) = 0
        BY <1>2, <2>2, <3>2 DEF IInv, Rows
      <4> QED
        BY <1>2, <4>1, MostIsLeast
    <3> QED
      BY <1>2, <3>1, <3>2
  <2> QED
    BY <2>1, <2>2
<1>4. /\ columns' = [columns EXCEPT ![q] = Commit(q, n).columns]
      /\ rows' = [rows EXCEPT ![q] = Commit(q, n).rows]
      /\ frontierRows' = [frontierRows EXCEPT ![q] = Commit(q, n).frontier]
      /\ pendingToken' = [pendingToken EXCEPT ![q] = token]
      /\ streams' = [streams EXCEPT ![s] = Unissued]
      /\ chain' = [chain EXCEPT ![q] = Tail(@)]
      /\ UNCHANGED <<wiring, context, disposal>>
  BY DEF Finish, SettleCommit, Settle
<1>5. Types'
  <2>1. streams' \in [Streams -> Generations] /\ chain' \in [Sequences -> Seq(Operations)]
    BY <1>1, <1>4, SettledTypes DEF IInv
  <2>2. /\ columns' \in [Sequences -> Seq(Tokens)] /\ rows' \in [Sequences -> Seq(Tokens)]
        /\ frontierRows' \in [Sequences -> Nat] /\ pendingToken' \in [Sequences -> Drawables]
    BY <1>1, <1>3, <1>4 DEF IInv, Types
  <2> QED
    BY <1>4, <2>1, <2>2 DEF IInv, Types
<1>6. Aside(s)
  <2>1. streams'[s].stage # "deliver"
    BY <1>4 DEF IInv, Types, Unissued
  <2> QED
    BY <1>1, <1>4, <2>1 DEF IInv, Types, Aside
<1>7. Live(q)' => /\ Len(columns'[q]) <= Most
                  /\ rows'[q] = <<>> /\ frontierRows'[q] = 0
  BY <1>1, <1>3, <1>4 DEF IInv, Types, Live
<1> QED
  BY <1>4, <1>5, <1>6, <1>7, Leave

\* The frontier is within the rows.
LEMMA FrontierWithin ==
    ASSUME IInv, NEW s \in Streams, Holds(s), NEW q \in Sequences, streams[s].on = q, Live(q)
    PROVE  frontierRows[q] <= Len(rows[q])
<1>1. frontierRows[q] \in Nat /\ Len(rows[q]) \in Nat
  BY Sizes DEF IInv
<1>2. CASE streams[s].stage = "deliver"
  <2>1. Len(streams[s].confirmed) \in 1 .. Len(rows[q])
        /\ streams[s].index \in 0 .. Len(streams[s].confirmed)
        /\ frontierRows[q] = streams[s].index
    BY <1>2 DEF IInv, Turn, Delivering, HandsOut
  <2> QED
    BY <1>1, <2>1
<1>3. CASE streams[s].stage # "deliver"
  BY <1>1, <1>3, Undelivered
<1> QED
  BY <1>2, <1>3

\* It ends with what it had handed out.
LEMMA FinishAsIsKeeps ==
    ASSUME IInv, NEW s \in Streams, Holds(s), NEW outcome, FinishAsIs(s, outcome)
    PROVE  IInv'
<1>1. PICK q \in Sequences : streams[s].on = q
  BY ChainPlace DEF IInv, Holds
<1>2. /\ frontierRows[q] \in Nat /\ pendingToken[q] \in Drawables
      /\ rows[q] \in Seq(Tokens) /\ Len(rows[q]) \in Nat
  BY <1>1, Sizes DEF IInv
<1>3. Live(q) => frontierRows[q] <= Len(rows[q])
  BY <1>1, FrontierWithin
<1>4. Finish(s, outcome, frontierRows[q], pendingToken[q])
  BY <1>1 DEF FinishAsIs
<1> QED
  BY <1>1, <1>2, <1>3, <1>4, FinishKeeps

-------------------------------------------------------------------------------
(* Steps outside the body of a stream. *)

LEMMA RunsHolds ==
    ASSUME IInv, NEW s \in Streams, NEW stage, Runs(s, stage), stage \notin {"idle", "issued"}
    PROVE  Holds(s) /\ ~streams[s].resting /\ streams[s].stage = stage
BY DEF Runs, Holds, Placed, Place

LEMMA RestsHolds ==
    ASSUME IInv, NEW s \in Streams, streams[s].resting
    PROVE  Holds(s) /\ streams[s].stage \in Running
<1>1. streams[s].stage \in Running
  BY DEF IInv, Turn, Waiting
<1> QED
  BY <1>1 DEF IInv, Chains, Holds, Placed, Running

\* A stream without a place is issued or closed.
LEMMA UnplacedKeeps ==
    ASSUME IInv, NEW s \in Streams, ~Placed(s), Types', ~Placed(s)', Turn(s)',
           \A r \in Streams \ {s} : streams'[r] = streams[r],
           UNCHANGED <<wiring, context, held, disposal, chain>>
    PROVE  IInv'
<1>1. \A r \in Streams \ {s} : Turn(r)'
  <2> TAKE r \in Streams \ {s}
  <2>1. Turn(r) /\ streams[r].stage # "idle" => context[streams[r].on] \notin Unborn
    BY DEF IInv, Turn, Waiting
  <2>2. Turn(r)
    BY DEF IInv
  <2> QED
    BY <2>1, <2>2, OtherTurn DEF held
<1>2. Chains'
  <2>1. ASSUME NEW r \in Streams
        PROVE  /\ Placed(r)' <=> Placed(r)
               /\ Placed(r) => streams'[r].on = streams[r].on
               /\ streams'[r].stage \in Running => Head(chain[streams[r].on]) = Place(r)
    <3>1. CASE r = s
      BY <3>1 DEF Placed, Running
    <3>2. CASE r # s
      BY <3>2 DEF IInv, Chains, Placed
    <3> QED
      BY <3>1, <3>2
  <2> QED
    BY <2>1, ChainsSame DEF IInv
<1>3. Copies'
  BY CopiesSame DEF IInv, Unborn
<1>4. ASSUME NEW q \in Sequences PROVE Rows(q)'
  <2>1. Delivers(q)' <=> Delivers(q)
    BY DEF Delivers, Placed
  <2> QED
    BY <2>1 DEF IInv, Rows, Live, Unborn, held
<1> QED
  BY <1>1, <1>2, <1>3, <1>4 DEF IInv

LEMMA GenerateKeeps ==
    ASSUME IInv, NEW s \in Streams, Generate(s)
    PROVE  IInv'
<1>1. PICK q \in Sequences :
          /\ context[q] \notin Unborn
          /\ streams' = [streams EXCEPT ![s] = [Unissued EXCEPT !.stage = "issued", !.on = q]]
  BY DEF Generate, Unborn
<1> DEFINE x == [Unissued EXCEPT !.stage = "issued", !.on = q]
<1>2. /\ x \in Generations /\ x.stage = "issued" /\ x.on = q /\ ~x.resting /\ x.drawn = 0
      /\ x.told = NothingTold
  <2>1. Unissued \in Generations /\ "issued" \in Stages
    BY UnissuedIsOne DEF Stages
  <2> QED
    BY <2>1 DEF Generations, Unissued
<1> HIDE DEF x
<1>3. streams' \in [Streams -> Generations] /\ streams'[s] = x
      /\ \A r \in Streams \ {s} : streams'[r] = streams[r]
  BY <1>1, <1>2 DEF x, IInv, Types
<1>4. UNCHANGED <<wiring, context, held, disposal, chain>> /\ streams[s].stage = "idle"
  BY DEF Generate
<1>5. Types'
  BY <1>3, <1>4 DEF IInv, Types, held
<1>6. ~Placed(s) /\ ~Placed(s)'
  BY <1>2, <1>3, <1>4 DEF Placed
<1>7. Turn(s)'
  BY <1>1, <1>2, <1>3, <1>4 DEF Turn, Waiting, Prefilling, Decoding, Delivering, Running
<1> QED
  BY <1>3, <1>4, <1>5, <1>6, <1>7, UnplacedKeeps

LEMMA CloseUnstartedKeeps ==
    ASSUME IInv, NEW s \in Streams, CloseUnstarted(s)
    PROVE  IInv'
<1>1. /\ streams' \in [Streams -> Generations] /\ streams'[s] = Unissued
      /\ \A r \in Streams \ {s} : streams'[r] = streams[r]
  BY UnissuedIsOne DEF CloseUnstarted, IInv, Types
<1>2. UNCHANGED <<wiring, context, held, disposal, chain>> /\ streams[s].stage = "issued"
  BY DEF CloseUnstarted
<1>3. Types'
  BY <1>1, <1>2 DEF IInv, Types, held
<1>4. ~Placed(s) /\ ~Placed(s)'
  BY <1>1, <1>2 DEF Placed, Unissued
<1>5. Turn(s)'
  BY <1>1 DEF Turn, Waiting, Prefilling, Decoding, Delivering, Unissued
<1> QED
  BY <1>1, <1>2, <1>3, <1>4, <1>5, UnplacedKeeps

\* An operation is put on a chain, and nothing else known of a stream moves.
LEMMA StartKeeps ==
    ASSUME IInv, NEW s \in Streams, Start(s)
    PROVE  IInv'
<1> DEFINE x == [streams[s] EXCEPT !.stage = "queued"]
<1>1. PICK q \in Sequences : streams[s].on = q
  BY DEF IInv, Types, Generations
<1>2. /\ streams[s].stage = "issued" /\ streams[s] \in Generations
      /\ streams' = [streams EXCEPT ![s] = x]
      /\ chain' = [chain EXCEPT ![q] = Append(@, Place(s))]
      /\ UNCHANGED <<wiring, context, held, disposal>>
  BY <1>1 DEF Start, Place, IInv, Types
<1>3. x \in Generations /\ x.stage = "queued" /\ x.on = q /\ x.resting = streams[s].resting
      /\ x.drawn = streams[s].drawn /\ x.told = streams[s].told
  BY <1>1, <1>2 DEF Generations, Stages
<1> HIDE DEF x
<1>4. streams' \in [Streams -> Generations] /\ streams'[s] = x
      /\ \A r \in Streams \ {s} : streams'[r] = streams[r]
  BY <1>2, <1>3 DEF IInv, Types
<1>5. Place(s) \in Operations
  BY DEF Place, Operations
<1>6. chain' \in [Sequences -> Seq(Operations)]
  BY <1>2, <1>5, PushPlaces DEF IInv
<1>7. Types'
  BY <1>2, <1>4, <1>6 DEF IInv, Types, held
<1>8. Chains'
  <2>1. ~Placed(s)
    BY <1>2 DEF Placed
  <2>2. ASSUME NEW r \in Streams
        PROVE  IF Place(s) = Place(r)
               THEN ~Placed(r) /\ streams'[r].stage = "queued" /\ streams'[r].on = q
               ELSE streams'[r] = streams[r]
    <3>1. CASE r = s
      BY <1>3, <1>4, <2>1, <3>1
    <3>2. CASE r # s
      BY <1>4, <3>2, PlacesDiffer
    <3> QED
      BY <3>1, <3>2
  <2> QED
    BY <1>2, <1>5, <2>2, ChainsPush DEF IInv
<1>9. Copies'
  <2>1. \A p \in Sequences : Place(s) # Copying(p)
    BY PlacesDiffer
  <2>2. context[q] \notin Unborn
    BY <1>1, <1>2 DEF IInv, Turn, Waiting, Unborn
  <2> QED
    <3>1. \A p \in Sequences :
              /\ context[p] = "copying" => context'[p] = "copying"
              /\ Place(s) = Copying(p) => context[p] # "copying" /\ context'[p] = "copying"
              /\ context'[p] \in Unborn => context[p] \in Unborn
      BY <1>2, <2>1
    <3> QED
      BY <1>2, <1>5, <2>2, <3>1, CopiesPush DEF IInv
<1>10. ASSUME NEW r \in Streams PROVE Turn(r)'
  <2>1. Turn(r) /\ Turn(s) /\ Waiting(r) /\ Waiting(s)
    BY DEF IInv, Turn
  <2>2. CASE r = s
    BY <1>1, <1>2, <1>3, <1>4, <2>1, <2>2
    DEF Turn, Waiting, Prefilling, Decoding, Delivering, Running, held
  <2>3. CASE r # s
    BY <1>2, <1>4, <2>1, <2>3, OtherTurn DEF Waiting, held
  <2> QED
    BY <2>2, <2>3
<1>11. ASSUME NEW p \in Sequences PROVE Rows(p)'
  <2>1. Delivers(p)' <=> Delivers(p)
    BY <1>2, <1>3, <1>4 DEF Delivers
  <2> QED
    BY <1>2, <2>1 DEF IInv, Rows, Live, Unborn, held
<1> QED
  BY <1>7, <1>8, <1>9, <1>10, <1>11 DEF IInv

LEMMA ResumeKeeps ==
    ASSUME IInv, NEW s \in Streams, Resume(s)
    PROVE  IInv'
<1> DEFINE x == [streams[s] EXCEPT !.resting = FALSE]
<1>1. PICK q \in Sequences : streams[s].on = q
  BY DEF IInv, Types, Generations
<1>2. Holds(s) /\ streams[s].stage \in Running /\ streams[s] \in Generations
      /\ streams' = [streams EXCEPT ![s] = x]
      /\ UNCHANGED <<wiring, context, held, disposal, chain>>
  BY RestsHolds DEF Resume, IInv, Types
<1>3. /\ x \in Generations /\ x.stage = streams[s].stage /\ x.on = q /\ ~x.resting
      /\ x.mode = streams[s].mode /\ x.prompt = streams[s].prompt /\ x.limit = streams[s].limit
      /\ x.drawn = streams[s].drawn /\ x.hidden = streams[s].hidden
      /\ x.confirmed = streams[s].confirmed /\ x.index = streams[s].index
      /\ x.told = streams[s].told
  BY <1>1, <1>2 DEF Generations
<1> HIDE DEF x
<1>4. streams' \in [Streams -> Generations] /\ streams'[s] = x
      /\ \A r \in Streams \ {s} : streams'[r] = streams[r]
  BY <1>2, <1>3 DEF IInv, Types
<1>5. Types'
  BY <1>2, <1>4 DEF IInv, Types, held
<1>6. Aside(s)
  BY <1>1, <1>2, <1>3, <1>4 DEF Aside, held
<1>7. Turn(s)'
  <2>1. Waiting(s)'
    BY <1>1, <1>2, <1>3, <1>4 DEF IInv, Turn, Waiting
  <2>0. Prefilling(s) /\ Decoding(s) /\ columns' = columns /\ pendingToken' = pendingToken
    BY <1>2 DEF IInv, Turn, held
  <2>2. Prefilling(s)'
    BY <1>1, <1>3, <1>4, <2>0 DEF Prefilling, Past
  <2>3. Decoding(s)'
    BY <1>1, <1>3, <1>4, <2>0 DEF Decoding, Past
  <2>4. Delivering(s)'
    <3>1. Delivering(s)
      BY DEF IInv, Turn
    <3>2. columns' = columns /\ rows' = rows /\ frontierRows' = frontierRows
          /\ pendingToken' = pendingToken
      BY <1>2 DEF held
    <3> QED
      BY <1>1, <1>3, <1>4, <3>1, <3>2 DEF Delivering, HandsOut
  <2> QED
    BY <2>1, <2>2, <2>3, <2>4 DEF Turn
<1>8. Rows(q)'
  <2>1. Delivers(q)' <=> Delivers(q)
    BY <1>1, <1>3, <1>4 DEF Delivers
  <2> QED
    BY <1>2, <2>1 DEF IInv, Rows, Live, Unborn, held
<1> QED
  BY <1>1, <1>2, <1>3, <1>4, <1>5, <1>6, <1>7, <1>8, Advance

LEMMA CloseKeeps ==
    ASSUME IInv, NEW s \in Streams, Close(s)
    PROVE  IInv'
BY RestsHolds, FinishAsIsKeeps DEF Close

LEMMA InterruptKeeps ==
    ASSUME IInv, NEW s \in Streams, Interrupt(s)
    PROVE  IInv'
<1>1. Holds(s)
  BY RunsHolds DEF Interrupt, Interruptible
<1> QED
  BY <1>1, FinishAsIsKeeps DEF Interrupt

LEMMA ReachLimitKeeps ==
    ASSUME IInv, NEW s \in Streams, ReachLimit(s)
    PROVE  IInv'
BY RunsHolds, FinishAsIsKeeps DEF ReachLimit

\* The run failed: the context is poisoned, and what it holds is of no account.
LEMMA BreakRunKeeps ==
    ASSUME IInv, NEW s \in Streams, BreakRun(s)
    PROVE  IInv'
<1>1. Holds(s)
  BY RunsHolds DEF BreakRun
<1>2. PICK q \in Sequences : streams[s].on = q
  BY DEF IInv, Types, Generations
<1>3. /\ context' = [context EXCEPT ![q] = "broken"]
      /\ streams' = [streams EXCEPT ![s] = Unissued]
      /\ chain' = [chain EXCEPT ![q] = Tail(@)]
      /\ UNCHANGED <<wiring, held, disposal>>
  BY <1>2 DEF BreakRun, Settle
<1>4. chain[q] # <<>>
  BY <1>1, <1>2, ChainPlace DEF IInv, Holds
<1>5. Types'
  <2>1. streams' \in [Streams -> Generations] /\ chain' \in [Sequences -> Seq(Operations)]
    BY <1>3, <1>4, SettledTypes DEF IInv
  <2>2. context' \in [Sequences -> Conditions]
    BY <1>3 DEF IInv, Types, Conditions
  <2> QED
    BY <1>3, <2>1, <2>2 DEF IInv, Types, held
<1>6. Aside(s) /\ ~Live(q)'
  BY <1>2, <1>3 DEF IInv, Types, Aside, held, Live, Unissued
<1> QED
  BY <1>1, <1>2, <1>3, <1>5, <1>6, Leave

-------------------------------------------------------------------------------
(* Branching, disposal, loss of the device. *)

\* No stream moves, and no conversation in use changes what it holds.
LEMMA AroundKeeps ==
    ASSUME IInv, streams' = streams, Types', Chains', Copies',
           \A p \in Sequences : context[p] \notin Unborn =>
               /\ context'[p] \notin Unborn
               /\ columns'[p] = columns[p] /\ rows'[p] = rows[p]
               /\ pendingToken'[p] = pendingToken[p] /\ frontierRows'[p] = frontierRows[p],
           \A p \in Sequences : Rows(p)'
    PROVE  IInv'
<1>1. ASSUME NEW r \in Streams PROVE Turn(r)'
  <2>1. /\ Turn(r) /\ streams[r].on \in Sequences
        /\ streams[r].stage # "idle" => context[streams[r].on] \notin Unborn
    BY DEF IInv, Types, Generations, Turn, Waiting
  <2>2. streams[r].stage \in Running => streams[r].stage # "idle"
    BY DEF Running
  <2> QED
    BY <2>1, <2>2, OtherTurn
<1> QED
  BY <1>1 DEF IInv

\* The rows of a conversation that keeps what it holds, in use or not.
LEMMA RowsStay ==
    ASSUME IInv, streams' = streams, NEW p \in Sequences,
           columns'[p] = columns[p], rows'[p] = rows[p], frontierRows'[p] = frontierRows[p],
           Live(p)' => Live(p),
           context'[p] \in Unborn => context[p] \in Unborn
    PROVE  Rows(p)'
<1>1. Delivers(p)' <=> Delivers(p)
  BY DEF Delivers
<1> QED
  BY <1>1 DEF IInv, Rows, Live, Unborn

LEMMA ForkKeeps ==
    ASSUME IInv, NEW q \in Sequences, NEW p \in Sequences, Fork(q, p)
    PROVE  IInv'
<1>1. /\ context[q] \in {"live", "broken"} /\ context[p] = "absent"
      /\ context' = [context EXCEPT ![p] = "copying"]
      /\ chain' = [chain EXCEPT ![q] = Append(@, Copying(p))]
      /\ UNCHANGED <<wiring, held, disposal, streams>>
  BY DEF Fork, Copying
<1>2. Copying(p) \in Operations
  BY DEF Copying, Operations
<1>3. context' \in [Sequences -> Conditions] /\ context'[p] = "copying"
      /\ \A r \in Sequences \ {p} : context'[r] = context[r]
  BY <1>1 DEF IInv, Types, Conditions
<1>4. Types'
  BY <1>1, <1>2, <1>3, PushPlaces DEF IInv, Types, held
<1>5. Chains'
  <2>1. \A r \in Streams : Copying(p) # Place(r)
    BY PlacesDiffer
  <2>2. \A r \in Streams : streams'[r] = streams[r]
    BY <1>1
  <2>3. Types /\ Chains /\ chain' = [chain EXCEPT ![q] = Append(@, Copying(p))]
    BY <1>1 DEF IInv
  <2> QED
    BY <1>2, <2>1, <2>2, <2>3, ChainsPush
<1>6. Copies'
  <2>1. context[q] \notin Unborn /\ context[p] \in Unborn /\ chain[p] = <<>>
    BY <1>1 DEF Unborn, IInv, Copies
  <2>2. ASSUME NEW r \in Sequences
        PROVE  /\ context[r] = "copying" => context'[r] = "copying"
               /\ Copying(p) = Copying(r) => context[r] # "copying" /\ context'[r] = "copying"
               /\ context'[r] \in Unborn => context[r] \in Unborn
    <3>1. CASE r = p
      BY <1>1, <1>3, <2>1, <3>1 DEF Unborn
    <3>2. CASE r # p
      <4>1. Copying(p) # Copying(r)
        BY <3>2, PlacesDiffer
      <4> QED
        BY <1>3, <3>2, <4>1
    <3> QED
      BY <3>1, <3>2
  <2> QED
    BY <1>1, <1>2, <2>1, <2>2, CopiesPush DEF IInv
<1>7. ASSUME NEW r \in Sequences PROVE Rows(r)'
  BY <1>1, <1>3, RowsStay DEF Live, held, Unborn
<1> QED
  BY <1>1, <1>3, <1>4, <1>5, <1>6, <1>7, AroundKeeps DEF held, Unborn

\* The first place of the chain is that of an operation of this kind.
LEMMA Served ==
    ASSUME IInv, NEW q \in Sequences, chain[q] # <<>>, Head(chain[q]).op # "stream"
    PROVE  /\ Head(chain[q]) \in Operations /\ Head(chain[q]).id \in Sequences
           /\ \A r \in Streams : Head(chain[q]) # Place(r)
           /\ Head(chain[q]).op = "fork" => Head(chain[q]) = Copying(Head(chain[q]).id)
<1>1. Head(chain[q]) \in Operations
  BY Sizes, HeadTailProperties DEF IInv
<1>2. \A r \in Streams : Head(chain[q]) # Place(r)
  BY PlacesDiffer
<1> QED
  BY <1>1, <1>2 DEF Operations, Copying

LEMMA BranchKeeps ==
    ASSUME IInv, NEW q \in Sequences, Branch(q)
    PROVE  IInv'
<1>1. chain[q] # <<>> /\ Head(chain[q]).op = "fork"
  BY DEF Branch
<1>2. PICK p \in Sequences : Head(chain[q]).id = p /\ Head(chain[q]) = Copying(p)
  BY <1>1, Served
<1>3. context[p] = "copying" /\ p # q
  <2>1. Head(chain[q]) = chain[q][1] /\ 1 \in 1 .. Len(chain[q])
    BY <1>1, Sizes DEF IInv
  <2>2. context[q] \notin Unborn
    BY <1>1 DEF IInv, Copies
  <2>3. context[p] = "copying"
    BY <1>2, <2>1 DEF IInv, Copies
  <2> QED
    BY <2>2, <2>3 DEF Unborn
<1>4. /\ chain' = [chain EXCEPT ![q] = Tail(@)]
      /\ UNCHANGED <<wiring, rows, frontierRows, disposal, streams>>
      /\ \/ /\ Live(q) /\ rows[q] = <<>> /\ context' = [context EXCEPT ![p] = "live"]
            /\ columns' = [columns EXCEPT ![p] = columns[q]]
            /\ pendingToken' = [pendingToken EXCEPT ![p] = pendingToken[q]]
         \/ context' = [context EXCEPT ![p] = "absent"] /\ UNCHANGED <<columns, pendingToken>>
  BY <1>2 DEF Branch
<1>5. /\ context' \in [Sequences -> Conditions] /\ columns' \in [Sequences -> Seq(Tokens)]
      /\ pendingToken' \in [Sequences -> Drawables]
      /\ \A r \in Sequences \ {p} : /\ context'[r] = context[r] /\ columns'[r] = columns[r]
                                    /\ pendingToken'[r] = pendingToken[r]
  <2>1. /\ context \in [Sequences -> Conditions] /\ columns \in [Sequences -> Seq(Tokens)]
        /\ pendingToken \in [Sequences -> Drawables] /\ {"live", "absent"} \subseteq Conditions
    BY DEF IInv, Types, Conditions
  <2>2. /\ columns[q] \in Seq(Tokens) /\ pendingToken[q] \in Drawables
    BY <2>1
  <2>3. CASE /\ Live(q) /\ rows[q] = <<>> /\ context' = [context EXCEPT ![p] = "live"]
             /\ columns' = [columns EXCEPT ![p] = columns[q]]
             /\ pendingToken' = [pendingToken EXCEPT ![p] = pendingToken[q]]
    BY <2>1, <2>2, <2>3
  <2>4. CASE context' = [context EXCEPT ![p] = "absent"] /\ UNCHANGED <<columns, pendingToken>>
    BY <2>1, <2>4
  <2> QED
    BY <1>4, <2>3, <2>4
<1>6. chain' \in [Sequences -> Seq(Operations)]
  BY <1>1, <1>4, PopPlaces DEF IInv
<1>7. Types'
  BY <1>4, <1>5, <1>6 DEF IInv, Types
<1>8. Chains'
  BY <1>1, <1>4, Served, ChainsPop DEF IInv
<1>9. Copies'
  <2>1. \A r \in Sequences : /\ context[r] = "copying" /\ Head(chain[q]) # Copying(r)
                                   => context'[r] = "copying"
                             /\ context'[r] \in Unborn => context[r] \in Unborn
    BY <1>2, <1>3, <1>5 DEF Unborn
  <2> QED
    <3>1. Types /\ Copies /\ chain[q] # <<>> /\ chain' = [chain EXCEPT ![q] = Tail(@)]
      BY <1>1, <1>4 DEF IInv
    <3> QED
      BY <2>1, <3>1, CopiesPop
<1>10. ASSUME NEW r \in Sequences PROVE Rows(r)'
  <2>1. CASE r # p
    BY <1>4, <1>5, <2>1, RowsStay DEF Live
  <2>2. CASE r = p
    <3>1. rows'[p] = <<>> /\ frontierRows'[p] = 0
      BY <1>3, <1>4 DEF IInv, Rows, Unborn
    <3>2. ASSUME Live(p)' PROVE Len(columns'[p]) + Len(rows'[p]) <= Most
      <4>1. Live(q) /\ rows[q] = <<>> /\ columns'[p] = columns[q]
        BY <1>3, <1>4, <3>2 DEF IInv, Types, Live
      <4>2. Len(columns[q]) + Len(rows[q]) <= Most
        BY <4>1 DEF IInv, Rows
      <4> QED
        BY <3>1, <4>1, <4>2
    <3> QED
      BY <2>2, <3>1, <3>2 DEF Rows
  <2> QED
    BY <2>1, <2>2
<1> QED
  BY <1>3, <1>4, <1>5, <1>7, <1>8, <1>9, <1>10, AroundKeeps DEF Unborn

LEMMA DisposeKeeps ==
    ASSUME IInv, NEW q \in Sequences, Dispose(q)
    PROVE  IInv'
<1> DEFINE e == [op |-> "dispose", id |-> q]
<1>1. /\ disposal' = [disposal EXCEPT ![q] = TRUE]
      /\ chain' = [chain EXCEPT ![q] = Append(@, e)]
      /\ UNCHANGED <<wiring, context, held, streams>>
  BY DEF Dispose
<1>2. e \in Operations /\ e.op = "dispose"
  BY DEF Operations
<1> HIDE DEF e
<1>3. Types'
  BY <1>1, <1>2, PushPlaces DEF IInv, Types, held
<1>4. (\A r \in Streams : e # Place(r)) /\ \A p \in Sequences : e # Copying(p)
  BY <1>2, PlacesDiffer
<1>5. Chains'
  <2>1. ASSUME NEW r \in Streams
        PROVE  IF e = Place(r)
               THEN ~Placed(r) /\ streams'[r].stage = "queued" /\ streams'[r].on = q
               ELSE streams'[r] = streams[r]
    <3>1. e # Place(r) /\ streams'[r] = streams[r]
      BY <1>1, <1>4
    <3> QED
      BY <3>1
  <2>2. Types /\ Chains /\ chain' = [chain EXCEPT ![q] = Append(@, e)] /\ e \in Operations
    BY <1>1, <1>2 DEF IInv
  <2> QED
    BY <2>1, <2>2, ChainsPush
<1>6. Copies'
  <2>1. context[q] \notin Unborn /\ \A p \in Sequences : context'[p] = context[p]
    BY <1>1 DEF Dispose, Unborn
  <2> QED
    BY <1>1, <1>2, <1>4, <2>1, CopiesPush DEF IInv
<1>7. ASSUME NEW r \in Sequences PROVE Rows(r)'
  BY <1>1, RowsStay DEF Live, held
<1> QED
  BY <1>1, <1>3, <1>5, <1>6, <1>7, AroundKeeps DEF held

LEMMA CompleteDisposeKeeps ==
    ASSUME IInv, NEW q \in Sequences, CompleteDispose(q)
    PROVE  IInv'
<1>1. /\ chain[q] # <<>> /\ Head(chain[q]).op = "dispose"
      /\ context' = [context EXCEPT ![q] = "disposed"]
      /\ chain' = [chain EXCEPT ![q] = Tail(@)]
      /\ UNCHANGED <<wiring, held, disposal, streams>>
  BY DEF CompleteDispose
<1>2. context' \in [Sequences -> Conditions] /\ context'[q] = "disposed"
      /\ \A r \in Sequences \ {q} : context'[r] = context[r]
  BY <1>1 DEF IInv, Types, Conditions
<1>3. Types'
  BY <1>1, <1>2, PopPlaces DEF IInv, Types, held
<1>4. Chains'
  BY <1>1, Served, ChainsPop DEF IInv
<1>5. Copies'
  <2>1. context[q] \notin Unborn
    BY <1>1 DEF IInv, Copies
  <2>2. \A p \in Sequences : /\ context[p] = "copying" => context'[p] = "copying"
                             /\ context'[p] \in Unborn => context[p] \in Unborn
    BY <1>2, <2>1 DEF Unborn
  <2> QED
    BY <1>1, <2>2, CopiesPop DEF IInv
<1>6. ASSUME NEW r \in Sequences PROVE Rows(r)'
  BY <1>1, <1>2, RowsStay DEF Live, held, Unborn
<1> QED
  BY <1>1, <1>2, <1>3, <1>4, <1>5, <1>6, AroundKeeps DEF held, Unborn

LEMMA LoseDeviceKeeps ==
    ASSUME IInv, LoseDevice
    PROVE  IInv'
<1>1. /\ context' = [q \in Sequences |-> IF Live(q) THEN "broken" ELSE context[q]]
      /\ UNCHANGED <<wiring, held, disposal, chain, streams>>
  BY DEF LoseDevice
<1>2. /\ context' \in [Sequences -> Conditions]
      /\ \A p \in Sequences :
             /\ context[p] \notin Unborn <=> context'[p] \notin Unborn
             /\ context[p] = "copying" => context'[p] = "copying"
             /\ context'[p] # "live"
  BY <1>1 DEF IInv, Types, Conditions, Live, Unborn
<1>3. Types'
  BY <1>1, <1>2 DEF IInv, Types, held
<1>4. Chains'
  <2>1. \A r \in Streams : /\ Placed(r)' <=> Placed(r) /\ streams'[r] = streams[r]
                           /\ streams[r].stage \in Running =>
                                 Head(chain[streams[r].on]) = Place(r)
    BY <1>1 DEF IInv, Chains, Placed
  <2> QED
    BY <1>1, <2>1, ChainsSame DEF IInv, Placed
<1>5. Copies'
  BY <1>1, <1>2, CopiesSame DEF IInv, Unborn
<1>6. ASSUME NEW r \in Sequences PROVE Rows(r)'
  BY <1>1, <1>2, RowsStay DEF Live, held
<1> QED
  BY <1>1, <1>2, <1>3, <1>4, <1>5, <1>6, AroundKeeps DEF held

-------------------------------------------------------------------------------
(* The body of a stream. *)

\* A step that moves the stream to x and leaves its conversation with these
\* columns, rows, pending token and frontier rows.
Moves(s, q, x, past, written, token, reached) ==
    /\ streams' = [streams EXCEPT ![s] = x]
    /\ columns' = [columns EXCEPT ![q] = past]
    /\ rows' = [rows EXCEPT ![q] = written]
    /\ pendingToken' = [pendingToken EXCEPT ![q] = token]
    /\ frontierRows' = [frontierRows EXCEPT ![q] = reached]
    /\ UNCHANGED <<wiring, context, disposal, chain>>

\* What a step leaves alone it leaves as it was.
LEMMA AsItWas ==
    ASSUME Types, NEW q \in Sequences
    PROVE  /\ columns = [columns EXCEPT ![q] = columns[q]]
           /\ rows = [rows EXCEPT ![q] = rows[q]]
           /\ pendingToken = [pendingToken EXCEPT ![q] = pendingToken[q]]
           /\ frontierRows = [frontierRows EXCEPT ![q] = frontierRows[q]]
BY DEF Types

LEMMA MovesTo ==
    ASSUME Types, NEW s \in Streams, NEW q \in Sequences, NEW x \in Generations,
           NEW past, NEW written, NEW token, NEW reached,
           Moves(s, q, x, past, written, token, reached)
    PROVE  /\ streams'[s] = x /\ columns'[q] = past /\ rows'[q] = written
           /\ pendingToken'[q] = token /\ frontierRows'[q] = reached /\ context'[q] = context[q]
BY DEF Types, Moves

LEMMA MovesKeep ==
    ASSUME IInv, NEW s \in Streams, Holds(s), NEW q \in Sequences, streams[s].on = q,
           NEW x \in Generations, x.on = q, x.stage \in Running,
           NEW past \in Seq(Tokens), NEW written \in Seq(Tokens),
           NEW token \in Drawables, NEW reached \in Nat,
           Moves(s, q, x, past, written, token, reached),
           Len(past) + Len(written) <= Most,
           x.stage # "deliver" => written = <<>> /\ reached = 0,
           Prefilling(s)', Decoding(s)', Delivering(s)'
    PROVE  IInv'
<1>1. /\ streams'[s] = x /\ columns'[q] = past /\ rows'[q] = written
      /\ pendingToken'[q] = token /\ frontierRows'[q] = reached /\ context'[q] = context[q]
  BY MovesTo DEF IInv
<1>2. context[q] \notin Unborn
  BY DEF IInv, Turn, Waiting, Holds, Placed
<1>3. Types'
  BY DEF IInv, Types, Moves
<1>4. Aside(s)
  BY <1>1 DEF IInv, Types, Aside, Moves
<1>5. Waiting(s)'
  BY <1>1, <1>2 DEF Waiting
<1>6. Rows(q)'
  <2>1. Delivers(q)' <=> x.stage = "deliver"
    <3>1. ASSUME NEW r \in Streams \ {s}, streams'[r].on = q PROVE streams'[r].stage # "deliver"
      BY <1>4, <3>1, Alone DEF IInv, Aside, Running
    <3> QED
      BY <1>1, <3>1 DEF Delivers
  <2> QED
    BY <1>1, <1>2, <2>1 DEF Rows, Live
<1> QED
  BY <1>1, <1>3, <1>4, <1>5, <1>6, Advance DEF Turn, Moves

\* assertBudget: the rows of the prompt, and one for every token but the last,
\* fit.
LEMMA Budget ==
    ASSUME NEW past \in Nat, NEW prompt \in Nat, NEW limit \in Nat,
           AssertBudget(past, prompt, limit)
    PROVE  past + prompt + limit <= Most + 1
BY SequenceAssumption DEF AssertBudget, Most, Lesser

LEMMA LimitIsSome ==
    ASSUME NEW max \in Limits, NEW past \in Nat, NEW prompt \in Nat
    PROVE  TokenLimit(max, past, prompt) \in Nat \ {0}
BY SequenceAssumption DEF TokenLimit, Greater, Lesser

\* The rows of a run are the pending token and what is fed after it.
LEMMA Fed ==
    ASSUME NEW token \in Tokens, NEW tail \in Seq(Tokens)
    PROVE  /\ <<token>> \o tail \in Seq(Tokens)
           /\ Len(tail) \in Nat /\ Len(<<token>> \o tail) = Len(tail) + 1
           /\ (<<token>> \o tail)[1] = token
           /\ \A i \in 1 .. Len(tail) : (<<token>> \o tail)[i + 1] = tail[i]
<1> DEFINE one == <<token>>
<1>1. one \in Seq(Tokens) /\ Len(one) = 1 /\ one[1] = token
  OBVIOUS
<1> HIDE DEF one
<1>2. /\ one \o tail \in Seq(Tokens) /\ Len(one \o tail) = 1 + Len(tail) /\ Len(tail) \in Nat
      /\ \A i \in 1 .. 1 : (one \o tail)[i] = one[i]
      /\ \A i \in 1 .. Len(tail) : (one \o tail)[1 + i] = tail[i]
  BY <1>1, Joined
<1>3. (one \o tail)[1] = token
  BY <1>1, <1>2
<1>4. \A i \in 1 .. Len(tail) : 1 + i = i + 1
  BY <1>2
<1>5. /\ one \o tail \in Seq(Tokens) /\ Len(one \o tail) = Len(tail) + 1
      /\ \A i \in 1 .. Len(tail) : (one \o tail)[i + 1] = tail[i]
  BY <1>2, <1>4
<1> QED
  BY <1>2, <1>3, <1>5 DEF one

LEMMA AdmitKeeps ==
    ASSUME IInv, NEW s \in Streams, Admit(s)
    PROVE  IInv'
<1>1. Holds(s) /\ ~streams[s].resting /\ streams[s].stage = "queued"
  BY RunsHolds DEF Admit
<1>2. PICK q \in Sequences : streams[s].on = q
  BY DEF IInv, Types, Generations
<1>3. PICK prompt \in Prompts, max \in Limits, mode \in Modes :
          LET ids == Pending(q) \o prompt
              limit == TokenLimit(max, Len(columns[q]), Len(ids))
          IN IF Live(q) /\ ids # <<>> /\ AssertBudget(Len(columns[q]), Len(ids), limit)
             THEN /\ streams' = [streams EXCEPT ![s] = [@ EXCEPT
                         !.stage = "prefill", !.mode = mode, !.prompt = ids, !.limit = limit]]
                  /\ UNCHANGED <<wiring, context, held, disposal, chain>>
             ELSE FinishAsIs(s, "failed")
  BY <1>2 DEF Admit
<1> DEFINE ids == Pending(q) \o prompt
           limit == TokenLimit(max, Len(columns[q]), Len(ids))
<1>4. CASE ~(Live(q) /\ ids # <<>> /\ AssertBudget(Len(columns[q]), Len(ids), limit))
  <2>1. FinishAsIs(s, "failed")
    BY <1>3, <1>4
  <2> QED
    BY <1>1, <2>1, FinishAsIsKeeps
<1>5. CASE Live(q) /\ ids # <<>> /\ AssertBudget(Len(columns[q]), Len(ids), limit)
  <2> DEFINE x == [streams[s] EXCEPT !.stage = "prefill", !.mode = mode,
                                     !.prompt = ids, !.limit = limit]
  <2>1. /\ streams' = [streams EXCEPT ![s] = x]
        /\ UNCHANGED <<wiring, context, held, disposal, chain>>
    BY <1>3, <1>5
  <2>2. ids \in Seq(Tokens)
    <3>1. prompt \in Seq(Tokens)
      BY SequenceAssumption
    <3>2. Pending(q) \in Seq(Tokens)
      <4>1. CASE pendingToken[q] = NoToken
        BY <4>1, EmptySeq DEF Pending
      <4>2. CASE pendingToken[q] # NoToken
        <5>1. pendingToken[q] \in Tokens
          BY <4>2 DEF IInv, Types, Drawables
        <5> QED
          BY <4>2, <5>1 DEF Pending
      <4> QED
        BY <4>1, <4>2
    <3> HIDE DEF ids
    <3>3. Pending(q) \o prompt \in Seq(Tokens)
      BY <3>1, <3>2, Joined
    <3> QED
      BY <3>3 DEF ids
  <2> HIDE DEF ids
  <2>3. Len(columns[q]) \in Nat /\ Len(ids) \in Nat /\ columns[q] \in Seq(Tokens)
    BY <2>2, Sizes, LenProperties DEF IInv
  <2>4. limit \in Nat \ {0}
    BY <2>3, LimitIsSome
  <2>5. Len(columns[q]) + Len(ids) + limit <= Most + 1
    <3> HIDE DEF limit
    <3> QED
      BY <1>5, <2>3, <2>4, Budget
  <2> HIDE DEF limit
  <2>6. mode \in {"plain", "ahead", "speculative"}
    BY DEF Modes
  <2>7. /\ x \in Generations /\ x.on = q /\ x.stage = "prefill" /\ x.prompt = ids
        /\ x.limit = limit /\ x.drawn = streams[s].drawn /\ x.told = streams[s].told
    <3>1. streams[s] \in Generations /\ limit \in Nat /\ "prefill" \in Stages
      BY <2>4 DEF IInv, Types, Stages
    <3> QED
      BY <1>2, <2>2, <2>6, <3>1 DEF Generations
  <2> HIDE DEF x
  <2>8. streams[s].drawn = 0 /\ streams[s].told = NothingTold
    BY <1>1 DEF IInv, Turn, Waiting, Running
  <2>9. rows[q] = <<>> /\ frontierRows[q] = 0 /\ pendingToken[q] \in Drawables
    BY <1>1, <1>2, <1>5, Undelivered DEF IInv, Types
  <2>10. Moves(s, q, x, columns[q], rows[q], pendingToken[q], frontierRows[q])
    BY <2>1, AsItWas DEF IInv, Moves, held
  <2>11. streams'[s] = x /\ columns'[q] = columns[q] /\ pendingToken'[q] = pendingToken[q]
    BY <2>7, <2>10, MovesTo DEF IInv
  <2>12. Prefilling(s)' /\ Decoding(s)' /\ Delivering(s)'
    <3>1. Decoding(s)' /\ Delivering(s)'
      BY <2>7, <2>11 DEF Decoding, Delivering
    <3>2. /\ streams'[s].stage = "prefill" /\ streams'[s].drawn = 0 /\ streams'[s].on = q
          /\ streams'[s].limit = limit /\ streams'[s].prompt = ids
          /\ streams'[s].told = NothingTold /\ Past(s)' = Len(columns[q])
      BY <2>7, <2>8, <2>11 DEF Past
    <3>3. limit >= 1
      BY <2>4
    <3>4. pendingToken[q] \in {NoToken, ids[1]}
      <4>1. prompt \in Seq(Tokens)
        BY SequenceAssumption
      <4>2. CASE pendingToken[q] # NoToken
        <5>1. ids = <<pendingToken[q]>> \o prompt
          BY <4>2 DEF ids, Pending
        <5> QED
          BY <2>9, <4>1, <4>2, <5>1, Fed DEF Drawables
      <4> QED
        BY <4>2
    <3>5. Prefilling(s)'
      BY <1>5, <2>5, <2>11, <3>2, <3>3, <3>4 DEF Prefilling
    <3> QED
      BY <3>1, <3>5
  <2>13. Len(columns[q]) + Len(rows[q]) <= Most
    BY <1>5 DEF IInv, Rows
  <2> QED
    BY <1>1, <1>2, <2>3, <2>7, <2>9, <2>10, <2>12, <2>13, EmptySeq, MovesKeep DEF Running
<1> QED
  BY <1>4, <1>5

\* A run fed the conversation, and the stream ends.
LEMMA FedKeeps ==
    ASSUME IInv, NEW s \in Streams, Holds(s), NEW q \in Sequences, streams[s].on = q,
           rows[q] = <<>>, frontierRows[q] = 0,
           NEW past \in Seq(Tokens), Len(past) <= Most, NEW token \in Drawables, NEW outcome,
           columns' = [columns EXCEPT ![q] = past],
           pendingToken' = [pendingToken EXCEPT ![q] = token],
           Settle(s, outcome),
           UNCHANGED <<wiring, context, rows, frontierRows, disposal>>
    PROVE  IInv'
<1>1. /\ streams' = [streams EXCEPT ![s] = Unissued]
      /\ chain' = [chain EXCEPT ![q] = Tail(@)]
  BY DEF Settle
<1>2. chain[q] # <<>>
  BY ChainPlace DEF IInv, Holds
<1>3. Types'
  <2>1. streams' \in [Streams -> Generations] /\ chain' \in [Sequences -> Seq(Operations)]
    BY <1>1, <1>2, SettledTypes DEF IInv
  <2> QED
    BY <2>1 DEF IInv, Types
<1>4. Aside(s)
  BY <1>1 DEF IInv, Types, Aside, Unissued
<1>5. columns'[q] = past /\ rows'[q] = <<>> /\ frontierRows'[q] = 0
  BY DEF IInv, Types
<1> QED
  BY <1>1, <1>3, <1>4, <1>5, Leave

LEMMA PrefillKeeps ==
    ASSUME IInv, NEW s \in Streams, Prefill(s)
    PROVE  IInv'
<1>1. Holds(s) /\ streams[s].stage = "prefill"
  BY RunsHolds DEF Prefill
<1>2. PICK q \in Sequences : streams[s].on = q
  BY DEF IInv, Types, Generations
<1> DEFINE prompt == streams[s].prompt
           limit == streams[s].limit
           n == Lesser(ChunkLength, Len(prompt))
           rest == SubSeq(prompt, n + 1, Len(prompt))
           chunk == SubSeq(prompt, 1, n)
           past == columns[q] \o chunk
           x == [streams[s] EXCEPT !.stage = IF rest = <<>> THEN "first" ELSE "prefill",
                     !.prompt = rest, !.hidden = Past(s) + n - 1, !.resting = TRUE]
<1>3. /\ Live(q) /\ rows[q] = <<>>
      /\ columns' = [columns EXCEPT ![q] = past]
      /\ pendingToken' = [pendingToken EXCEPT ![q] = NoToken]
      /\ \/ streams' = [streams EXCEPT ![s] = x] /\ UNCHANGED chain
         \/ Settle(s, "failed")
      /\ UNCHANGED <<wiring, context, rows, frontierRows, disposal>>
  BY <1>2 DEF Prefill
<1>4. /\ prompt \in Seq(Tokens) /\ Len(prompt) \in Nat \ {0} /\ limit \in Nat \ {0}
      /\ streams[s] \in Generations /\ streams[s].drawn = 0 /\ streams[s].told = NothingTold
      /\ Len(columns[q]) + Len(prompt) + limit <= Most + 1
  <2>1. streams[s] \in Generations /\ prompt \in Seq(Tokens) /\ limit \in Nat
    BY DEF IInv, Types, Generations
  <2>2. /\ streams[s].drawn = 0 /\ streams[s].told = NothingTold /\ limit >= 1 /\ prompt # <<>>
        /\ Len(columns[q]) + Len(prompt) + limit <= Most + 1
    BY <1>1, <1>2 DEF IInv, Turn, Prefilling, Past
  <2>3. Len(prompt) \in Nat \ {0}
    BY <2>1, <2>2, EmptySeq
  <2> HIDE DEF limit, prompt
  <2>4. limit \in Nat \ {0}
    BY <2>1, <2>2
  <2> QED
    BY <2>1, <2>2, <2>3, <2>4
<1>5. columns[q] \in Seq(Tokens) /\ Len(columns[q]) \in Nat /\ Most \in Nat
  BY Sizes, MostIsLeast DEF IInv
<1>6. n \in 1 .. Len(prompt)
  BY <1>4, SequenceAssumption DEF Lesser
<1>7. chunk \in Seq(Tokens) /\ Len(chunk) = n
  <2> HIDE DEF n, prompt
  <2> QED
    BY <1>4, <1>6, Front
<1>8. past \in Seq(Tokens) /\ Len(past) = Len(columns[q]) + n
  <2> HIDE DEF n, prompt, chunk
  <2> QED
    BY <1>5, <1>7, Joined
<1>9. rest \in Seq(Tokens) /\ Len(rest) = Len(prompt) - n
  <2>1. /\ n + 1 \in Nat /\ Len(prompt) \in Nat
        /\ n + 1 <= Len(prompt) => n + 1 \in 1 .. Len(prompt)
    BY <1>4, <1>6
  <2> HIDE DEF n, prompt
  <2>2. /\ rest \in Seq(Tokens)
        /\ Len(rest) = IF n + 1 <= Len(prompt) THEN Len(prompt) - (n + 1) + 1 ELSE 0
    <3>1. \A i \in n + 1 .. Len(prompt) : prompt[i] \in Tokens
      BY <1>4, <1>6, <2>1, LenProperties, ElementOfSeq
    <3> QED
      BY <2>1, <3>1, SubSeqProperties
  <2> HIDE DEF rest
  <2> QED
    BY <1>4, <1>6, <2>2
<1> HIDE DEF n, past, rest
<1>10. Len(past) + limit <= Most + 1 /\ Len(past) + Len(rest) + limit <= Most + 1
       /\ Len(past) <= Most /\ Len(past) \in Nat
  <2> DEFINE l == Len(past)
             p == Len(prompt)
             c == Len(columns[q])
             r == Len(rest)
  <2>1. /\ c \in Nat /\ p \in Nat /\ limit \in Nat \ {0} /\ n \in 1 .. p /\ l = c + n
        /\ r = p - n /\ c + p + limit <= Most + 1 /\ Most \in Nat
    BY <1>4, <1>5, <1>6, <1>8, <1>9
  <2> HIDE DEF l, p, c, r, limit
  <2>2. l + limit <= Most + 1 /\ l + r + limit <= Most + 1 /\ l <= Most /\ l \in Nat
    BY <2>1
  <2> QED
    BY <2>2 DEF l, r
<1>11. Len(rows[q]) = 0 /\ frontierRows[q] = 0 /\ NoToken \in Drawables
  BY <1>1, <1>2, <1>3, Undelivered, EmptySeq DEF Drawables
<1>12. CASE streams' = [streams EXCEPT ![s] = x] /\ UNCHANGED chain
  <2>1. /\ x \in Generations /\ x.on = q /\ x.prompt = rest /\ x.limit = limit
        /\ x.stage = IF rest = <<>> THEN "first" ELSE "prefill"
        /\ x.drawn = 0 /\ x.hidden = Len(past) - 1 /\ x.told = NothingTold
    <3>1. Past(s) + n - 1 \in Int /\ Past(s) + n - 1 = Len(past) - 1
      BY <1>2, <1>4, <1>5, <1>6, <1>8 DEF Past
    <3> QED
      BY <1>2, <1>4, <1>9, <3>1 DEF Generations, Stages
  <2> HIDE DEF x
  <2>2. Moves(s, q, x, past, rows[q], NoToken, frontierRows[q])
    BY <1>3, <1>12, AsItWas DEF IInv, Moves
  <2>3. streams'[s] = x /\ columns'[q] = past /\ pendingToken'[q] = NoToken
    BY <2>1, <2>2, MovesTo DEF IInv
  <2>4. Past(s)' = Len(past)
    BY <2>1, <2>3 DEF Past
  <2>5. Decoding(s)' /\ Delivering(s)'
    BY <2>1, <2>3 DEF Decoding, Delivering
  <2>6. Prefilling(s)'
    <3>1. limit >= 1
      BY <1>4
    <3> HIDE DEF limit
    <3> QED
      BY <1>10, <2>1, <2>3, <2>4, <3>1 DEF Prefilling
  <2>7. x.stage \in Running /\ x.stage # "deliver"
    BY <2>1 DEF Running
  <2>8. Len(past) + Len(rows[q]) <= Most
    BY <1>10, <1>11
  <2>9. rows[q] \in Seq(Tokens)
    BY Sizes DEF IInv
  <2> QED
    BY <1>1, <1>2, <1>3, <1>8, <1>11, <2>1, <2>2, <2>5, <2>6, <2>7, <2>8, <2>9, MovesKeep
<1>13. CASE Settle(s, "failed")
  <2>1. rows[q] = <<>> /\ frontierRows[q] = 0
    BY <1>3, <1>11
  <2> QED
    BY <1>1, <1>2, <1>3, <1>8, <1>10, <1>11, <1>13, <2>1, FedKeeps
<1> QED
  BY <1>3, <1>12, <1>13

\* A drawn token, after the rows it was drawn from.
LEMMA TellKeeps ==
    ASSUME IInv, NEW s \in Streams, Holds(s), NEW q \in Sequences, streams[s].on = q,
           rows[q] = <<>>, frontierRows[q] = 0,
           NEW past \in Seq(Tokens), NEW t \in Tokens, Tell(s, past, t),
           Len(past) + (streams[s].limit - streams[s].drawn) <= Most + 1,
           streams[s].drawn < streams[s].limit,
           streams[s].mode = "speculative" => streams[s].hidden = Len(past) - 1
    PROVE  IInv'
<1> DEFINE x == [streams[s] EXCEPT !.stage = "decode", !.drawn = streams[s].drawn + 1,
                     !.resting = TRUE, !.told = [position |-> Len(past), id |-> t]]
<1>1. /\ columns' = [columns EXCEPT ![q] = past]
      /\ pendingToken' = [pendingToken EXCEPT ![q] = t]
      /\ IF t \in Stops THEN Settle(s, "eos")
         ELSE streams' = [streams EXCEPT ![s] = x] /\ UNCHANGED chain
      /\ UNCHANGED <<wiring, context, rows, frontierRows, disposal>>
  BY DEF Tell
<1>2. /\ streams[s] \in Generations /\ streams[s].drawn \in Nat /\ streams[s].limit \in Nat
      /\ Len(past) \in Nat /\ Most \in Nat /\ t \in Drawables /\ rows[q] \in Seq(Tokens)
      /\ Len(rows[q]) = 0
  BY MostIsLeast, LenProperties, EmptySeq DEF IInv, Types, Generations, Drawables
<1>3. Len(past) <= Most /\ Len(past) + Len(rows[q]) <= Most
  <2> DEFINE l == Len(past)
             d == streams[s].drawn
             m == streams[s].limit
  <2>1. /\ l \in Nat /\ d \in Nat /\ m \in Nat /\ Most \in Nat
        /\ l + (m - d) <= Most + 1 /\ d < m
    BY <1>2
  <2> HIDE DEF l, d, m
  <2>2. l <= Most /\ l + 0 <= Most
    BY <2>1
  <2> QED
    BY <1>2, <2>2 DEF l
<1>4. CASE t \in Stops
  BY <1>1, <1>2, <1>3, <1>4, FedKeeps
<1>5. CASE t \notin Stops
  <2>1. /\ x \in Generations /\ x.on = q /\ x.stage = "decode" /\ x.limit = streams[s].limit
        /\ x.drawn = streams[s].drawn + 1 /\ x.mode = streams[s].mode
        /\ x.hidden = streams[s].hidden /\ x.told.position = Len(past)
    <3> DEFINE place == [position |-> Len(past), id |-> t]
               d == streams[s].drawn + 1
    <3>1. place \in Places /\ place.position = Len(past) /\ d \in Nat
      BY <1>2 DEF Places
    <3> HIDE DEF place, d
    <3>2. /\ [streams[s] EXCEPT !.stage = "decode", !.drawn = d, !.resting = TRUE,
                                !.told = place] \in Generations
          /\ x = [streams[s] EXCEPT !.stage = "decode", !.drawn = d, !.resting = TRUE,
                                    !.told = place]
      BY <1>2, <3>1 DEF Generations, Stages, place, d
    <3> QED
      BY <1>2, <3>1, <3>2 DEF Generations, d
  <2> HIDE DEF x
  <2>2. Moves(s, q, x, past, rows[q], t, frontierRows[q])
    BY <1>1, <1>5, AsItWas DEF IInv, Moves
  <2>3. streams'[s] = x /\ columns'[q] = past /\ pendingToken'[q] = t
    BY <1>2, <2>1, <2>2, MovesTo DEF IInv
  <2>4. Past(s)' = Len(past)
    BY <2>1, <2>3 DEF Past
  <2>5. Prefilling(s)' /\ Delivering(s)'
    BY <2>1, <2>3 DEF Prefilling, Delivering
  <2>6. Decoding(s)'
    <3>1. /\ x.drawn \in 1 .. x.limit
          /\ Len(past) + (x.limit - x.drawn) <= Most
      <4> DEFINE l == Len(past)
                 d == streams[s].drawn
                 m == streams[s].limit
      <4>1. /\ l \in Nat /\ d \in Nat /\ m \in Nat /\ Most \in Nat
            /\ l + (m - d) <= Most + 1 /\ d < m
        BY <1>2
      <4> HIDE DEF l, d, m
      <4>2. d + 1 \in 1 .. m /\ l + (m - (d + 1)) <= Most
        BY <4>1
      <4> QED
        BY <2>1, <4>2 DEF l, d, m
    <3> QED
      BY <2>1, <2>3, <2>4, <3>1 DEF Decoding
  <2>7. x.stage \in Running /\ x.stage # "deliver"
    BY <2>1 DEF Running
  <2> QED
    BY <1>2, <1>3, <2>1, <2>2, <2>5, <2>6, <2>7, MovesKeep
<1> QED
  BY <1>4, <1>5

LEMMA FirstTokenKeeps ==
    ASSUME IInv, NEW s \in Streams, FirstToken(s)
    PROVE  IInv'
<1>1. Holds(s) /\ streams[s].stage = "first"
  BY RunsHolds DEF FirstToken
<1>2. PICK q \in Sequences : streams[s].on = q
  BY DEF IInv, Types, Generations
<1>3. Live(q) /\ \E t \in Draws(columns[q]) : Tell(s, columns[q], t)
  BY <1>2 DEF FirstToken
<1>4. PICK t \in Tokens : Tell(s, columns[q], t)
  BY <1>3 DEF Draws
<1>5. rows[q] = <<>> /\ frontierRows[q] = 0 /\ columns[q] \in Seq(Tokens)
  BY <1>1, <1>2, <1>3, Undelivered, Sizes DEF IInv
<1>6. /\ streams[s].drawn = 0 /\ streams[s].limit >= 1 /\ streams[s].limit \in Nat
      /\ Len(columns[q]) + streams[s].limit <= Most + 1
      /\ streams[s].hidden = Len(columns[q]) - 1
  BY <1>1, <1>2 DEF IInv, Turn, Prefilling, Past, Types, Generations
<1>7. /\ Len(columns[q]) + (streams[s].limit - streams[s].drawn) <= Most + 1
      /\ streams[s].drawn < streams[s].limit
  BY <1>6
<1> QED
  BY <1>1, <1>2, <1>4, <1>5, <1>6, <1>7, TellKeeps

\* What a stream between two tokens may still write, and what it writes next.
LEMMA Decodes ==
    ASSUME IInv, NEW s \in Streams, Runs(s, "decode"), Remaining(s) > 0,
           NEW q \in Sequences, streams[s].on = q, Live(q)
    PROVE  /\ Holds(s) /\ streams[s] \in Generations /\ ~streams[s].resting
           /\ columns[q] \in Seq(Tokens) /\ Len(columns[q]) \in Nat
           /\ pendingToken[q] \in Tokens /\ rows[q] = <<>> /\ frontierRows[q] = 0
           /\ streams[s].drawn \in 1 .. streams[s].limit /\ streams[s].limit \in Nat
           /\ Remaining(s) \in Nat \ {0} /\ Remaining(s) = streams[s].limit - streams[s].drawn
           /\ Len(columns[q]) + Remaining(s) <= Most /\ Most \in Nat
           /\ streams[s].mode = "speculative" => streams[s].hidden = Len(columns[q]) - 1
<1>1. Holds(s) /\ ~streams[s].resting /\ streams[s].stage = "decode"
  BY RunsHolds
<1>2. rows[q] = <<>> /\ frontierRows[q] = 0
  BY <1>1, Undelivered
<1>3. /\ streams[s].drawn \in 1 .. streams[s].limit /\ pendingToken[q] \in Tokens
      /\ Len(columns[q]) + Remaining(s) <= Most
      /\ streams[s].mode = "speculative" => streams[s].hidden = Len(columns[q]) - 1
  BY <1>1 DEF IInv, Turn, Decoding, Past, Remaining
<1>4. /\ streams[s] \in Generations /\ streams[s].limit \in Nat /\ streams[s].drawn \in Nat
      /\ columns[q] \in Seq(Tokens) /\ Len(columns[q]) \in Nat /\ Most \in Nat
  BY Sizes, MostIsLeast DEF IInv, Types, Generations
<1>5. Remaining(s) \in Nat \ {0} /\ Remaining(s) = streams[s].limit - streams[s].drawn
  BY <1>4 DEF Remaining
<1> QED
  BY <1>1, <1>2, <1>3, <1>4, <1>5

LEMMA PlainStepKeeps ==
    ASSUME IInv, NEW s \in Streams, PlainStep(s)
    PROVE  IInv'
<1>1. PICK q \in Sequences : streams[s].on = q
  BY DEF IInv, Types, Generations
<1> DEFINE past == Append(columns[q], pendingToken[q])
<1>2. /\ Runs(s, "decode") /\ streams[s].mode = "plain" /\ Remaining(s) > 0 /\ Live(q)
      /\ \/ \E t \in Draws(past) : Tell(s, past, t)
         \/ /\ columns' = [columns EXCEPT ![q] = past]
            /\ pendingToken' = [pendingToken EXCEPT ![q] = NoToken]
            /\ Settle(s, "failed")
            /\ UNCHANGED <<wiring, context, rows, frontierRows, disposal>>
  BY <1>1 DEF PlainStep
<1>3. /\ Holds(s) /\ columns[q] \in Seq(Tokens) /\ Len(columns[q]) \in Nat
      /\ pendingToken[q] \in Tokens /\ rows[q] = <<>> /\ frontierRows[q] = 0
      /\ streams[s].drawn \in 1 .. streams[s].limit /\ streams[s].limit \in Nat
      /\ Remaining(s) \in Nat \ {0} /\ Remaining(s) = streams[s].limit - streams[s].drawn
      /\ Len(columns[q]) + Remaining(s) <= Most /\ Most \in Nat
  BY <1>1, <1>2, Decodes
<1>4. past \in Seq(Tokens) /\ Len(past) = Len(columns[q]) + 1
  BY <1>3, AppendProperties
<1> HIDE DEF past
<1>5. /\ Len(past) <= Most
      /\ Len(past) + (streams[s].limit - streams[s].drawn) <= Most + 1
      /\ streams[s].drawn < streams[s].limit
  <2> DEFINE l == Len(past)
             c == Len(columns[q])
             d == streams[s].drawn
             m == streams[s].limit
             r == Remaining(s)
  <2>1. /\ c \in Nat /\ l = c + 1 /\ m \in Nat /\ d \in 1 .. m /\ r \in Nat \ {0}
        /\ r = m - d /\ c + r <= Most /\ Most \in Nat
    BY <1>3, <1>4
  <2> HIDE DEF l, c, d, m, r
  <2>2. l <= Most /\ l + (m - d) <= Most + 1 /\ d < m
    BY <2>1
  <2> QED
    BY <2>2 DEF l, d, m
<1>6. CASE \E t \in Draws(past) : Tell(s, past, t)
  <2>1. PICK t \in Tokens : Tell(s, past, t)
    BY <1>6 DEF Draws
  <2>2. streams[s].mode # "speculative"
    BY <1>2
  <2> QED
    BY <1>1, <1>3, <1>4, <1>5, <2>1, <2>2, TellKeeps
<1>7. CASE /\ columns' = [columns EXCEPT ![q] = past]
           /\ pendingToken' = [pendingToken EXCEPT ![q] = NoToken]
           /\ Settle(s, "failed")
           /\ UNCHANGED <<wiring, context, rows, frontierRows, disposal>>
  <2>1. NoToken \in Drawables
    BY DEF Drawables
  <2> QED
    BY <1>1, <1>3, <1>4, <1>5, <1>7, <2>1, FedKeeps
<1> QED
  BY <1>2, <1>6, <1>7

\* A function on the first numbers is a list.
LEMMA IsList ==
    ASSUME NEW S, NEW n \in Nat, NEW f \in [1 .. n -> S]
    PROVE  f \in Seq(S) /\ Len(f) = n
<1>1. f \in Seq(S)
  BY SeqDef
<1>2. Len(f) \in Nat /\ 1 .. Len(f) = 1 .. n
  BY <1>1, LenProperties
<1> QED
  BY <1>1, <1>2

\* The first rows of a run, after the past.
LEMMA FedFront ==
    ASSUME NEW past \in Seq(Tokens), NEW token \in Tokens, NEW tail \in Seq(Tokens),
           NEW i \in 1 .. Len(tail) + 1
    PROVE  past \o SubSeq(<<token>> \o tail, 1, i) = past \o <<token>> \o SubSeq(tail, 1, i - 1)
<1> DEFINE w == <<token>> \o tail
           a == SubSeq(w, 1, i)
           b == SubSeq(tail, 1, i - 1)
           c == <<token>> \o b
<1>1. /\ w \in Seq(Tokens) /\ Len(tail) \in Nat /\ Len(w) = Len(tail) + 1 /\ w[1] = token
      /\ \A j \in 1 .. Len(tail) : w[j + 1] = tail[j]
  BY Fed
<1>2. i \in 0 .. Len(w) /\ i - 1 \in 0 .. Len(tail) /\ i \in Nat
  BY <1>1
<1>3. a \in Seq(Tokens) /\ Len(a) = i /\ \A j \in 1 .. i : a[j] = w[j]
  <2> HIDE DEF w
  <2> QED
    BY <1>1, <1>2, Front
<1>4. b \in Seq(Tokens) /\ Len(b) = i - 1 /\ \A j \in 1 .. i - 1 : b[j] = tail[j]
  BY <1>2, Front
<1>5. c \in Seq(Tokens) /\ Len(c) = i /\ c[1] = token /\ \A j \in 1 .. i - 1 : c[j + 1] = b[j]
  <2> HIDE DEF b
  <2>1. /\ c \in Seq(Tokens) /\ Len(c) = Len(b) + 1 /\ c[1] = token
        /\ \A j \in 1 .. Len(b) : c[j + 1] = b[j]
    BY <1>4, Fed
  <2> HIDE DEF c
  <2> QED
    BY <1>2, <1>4, <2>1
<1> HIDE DEF w, a, b, c
<1>6. ASSUME NEW j \in 1 .. i PROVE a[j] = c[j]
  <2>1. CASE j = 1
    BY <1>1, <1>2, <1>3, <1>5, <2>1
  <2>2. CASE j # 1
    <3>1. j - 1 \in 1 .. i - 1 /\ (j - 1) + 1 = j /\ j - 1 \in 1 .. Len(tail)
      BY <1>1, <1>2, <2>2
    <3>2. w[(j - 1) + 1] = tail[j - 1] /\ c[(j - 1) + 1] = b[j - 1] /\ b[j - 1] = tail[j - 1]
      BY <1>1, <1>4, <1>5, <3>1
    <3> QED
      BY <1>3, <3>1, <3>2
  <2> QED
    BY <2>1, <2>2
<1>7. a = c
  BY <1>3, <1>5, <1>6, SeqEqual
<1>8. <<token>> \in Seq(Tokens)
  OBVIOUS
<1>9. past \o <<token>> \o b = past \o c
  BY <1>4, <1>8, ConcatAssociative DEF c
<1> QED
  BY <1>7, <1>9 DEF w, a, b

\* A run over the pending token and a tail, of which these tokens are confirmed.
LEMMA ConfirmKeeps ==
    ASSUME IInv, NEW s \in Streams, Runs(s, "decode"), Remaining(s) > 0,
           NEW q \in Sequences, streams[s].on = q, Live(q),
           NEW tail \in Seq(Tokens), NEW confirmed \in Seq(Tokens), NEW row \in Int,
           Len(confirmed) \in 1 .. Len(tail) + 1, Len(tail) + 1 <= Remaining(s),
           \A i \in 1 .. Len(confirmed) - 1 : confirmed[i] = tail[i],
           \A i \in 1 .. Len(confirmed) :
               confirmed[i] \in
                   Likely(columns[q] \o <<pendingToken[q]>> \o SubSeq(tail, 1, i - 1)),
           streams[s].mode = "speculative" =>
               confirmed[Len(confirmed)] \in Stops \/ row = Len(confirmed) - 1,
           Confirm(s, <<pendingToken[q]>> \o tail, confirmed, row)
    PROVE  IInv'
<1> DEFINE token == pendingToken[q]
           w == <<token>> \o tail
           n == Len(confirmed)
           x == [streams[s] EXCEPT !.stage = "deliver", !.confirmed = confirmed, !.index = 0,
                     !.hidden = Past(s) + row]
<1>1. /\ Holds(s) /\ streams[s] \in Generations /\ ~streams[s].resting
      /\ columns[q] \in Seq(Tokens) /\ Len(columns[q]) \in Nat
      /\ token \in Tokens /\ rows[q] = <<>> /\ frontierRows[q] = 0
      /\ streams[s].drawn \in 1 .. streams[s].limit /\ streams[s].limit \in Nat
      /\ Remaining(s) \in Nat \ {0} /\ Remaining(s) = streams[s].limit - streams[s].drawn
      /\ Len(columns[q]) + Remaining(s) <= Most /\ Most \in Nat
  BY Decodes
<1>2. /\ w \in Seq(Tokens) /\ Len(tail) \in Nat /\ Len(w) = Len(tail) + 1 /\ w[1] = token
      /\ \A i \in 1 .. Len(tail) : w[i + 1] = tail[i]
  BY <1>1, Fed
<1>3. \A i \in 1 .. n : confirmed[i] \in Likely(columns[q] \o SubSeq(w, 1, i))
  <2> TAKE i \in 1 .. n
  <2>1. i \in 1 .. Len(tail) + 1
    BY <1>2
  <2> QED
    <3>1. columns[q] \o SubSeq(w, 1, i) = columns[q] \o <<token>> \o SubSeq(tail, 1, i - 1)
      <4>1. columns[q] \in Seq(Tokens) /\ token \in Tokens
        BY <1>1
      <4> HIDE DEF token
      <4> QED
        BY <2>1, <4>1, FedFront, Zenon
    <3> QED
      BY <3>1, Zenon
<1>4. /\ streams' = [streams EXCEPT ![s] = x]
      /\ rows' = [rows EXCEPT ![q] = w] /\ frontierRows' = [frontierRows EXCEPT ![q] = 0]
      /\ UNCHANGED <<wiring, context, columns, pendingToken, disposal, chain>>
  BY DEF Confirm
<1> HIDE DEF w
<1>5. /\ x \in Generations /\ x.on = q /\ x.stage = "deliver" /\ x.confirmed = confirmed
      /\ x.index = 0 /\ x.hidden = Len(columns[q]) + row /\ x.mode = streams[s].mode
      /\ x.limit = streams[s].limit /\ x.drawn = streams[s].drawn /\ ~x.resting
  <2>1. Past(s) + row \in Int /\ Past(s) = Len(columns[q])
    BY <1>1 DEF Past
  <2> QED
    BY <1>1, <2>1 DEF Generations, Stages
<1> HIDE DEF x
<1>6. Moves(s, q, x, columns[q], w, token, 0)
  BY <1>4, AsItWas DEF IInv, Moves
<1>7. /\ streams'[s] = x /\ columns'[q] = columns[q] /\ rows'[q] = w
      /\ pendingToken'[q] = token /\ frontierRows'[q] = 0
  BY <1>5, <1>6, MovesTo DEF IInv
<1>9. Prefilling(s)' /\ Decoding(s)'
  BY <1>5, <1>7 DEF Prefilling, Decoding
<1>10. /\ n \in 1 .. Len(w) /\ 0 \in 0 .. n /\ n - 0 <= x.limit - x.drawn
       /\ x.drawn \in 1 .. x.limit
       /\ Len(columns[q]) + Len(w) <= Most
       /\ Len(columns[q]) + 0 + (x.limit - x.drawn) <= Most
  <2> DEFINE c == Len(columns[q])
             l == Len(w)
             t == Len(tail)
             r == Remaining(s)
             d == streams[s].drawn
             m == streams[s].limit
  <2>1. /\ c \in Nat /\ t \in Nat /\ l = t + 1 /\ r \in Nat \ {0} /\ m \in Nat /\ d \in 1 .. m
        /\ r = m - d /\ c + r <= Most /\ Most \in Nat /\ n \in 1 .. t + 1 /\ t + 1 <= r
    BY <1>1, <1>2
  <2> HIDE DEF c, l, t, r, d, m, n
  <2>2. /\ n \in 1 .. l /\ 0 \in 0 .. n /\ n - 0 <= m - d /\ d \in 1 .. m
        /\ c + l <= Most /\ c + 0 + (m - d) <= Most
    BY <2>1
  <2> QED
    BY <1>5, <2>2 DEF c, l, d, m, n
<1>11. \A i \in 1 .. (n - 1) : w[i + 1] = confirmed[i]
  <2> TAKE i \in 1 .. (n - 1)
  <2>1. i \in 1 .. Len(tail) /\ confirmed[i] = tail[i]
    BY <1>2
  <2> QED
    BY <1>2, <2>1
<1>12. x.mode = "speculative" =>
           confirmed[n] \in Stops \/ x.hidden = Len(columns[q]) + n - 1
  <2>1. row = n - 1 => Len(columns[q]) + row = Len(columns[q]) + n - 1
    BY <1>1, <1>2
  <2> QED
    BY <1>5, <2>1
<1>13. Delivering(s)'
  <2>1. HandsOut(x, columns[q], w, token, 0)
    <3>1. /\ Len(x.confirmed) \in 1 .. Len(w) /\ x.index \in 0 .. Len(x.confirmed)
          /\ 0 = x.index /\ x.drawn \in 1 .. x.limit
          /\ Len(x.confirmed) - x.index <= x.limit - x.drawn
          /\ Len(columns[q]) + Len(w) <= Most
          /\ Len(columns[q]) + x.index + (x.limit - x.drawn) <= Most
      BY <1>5, <1>10
    <3>2. token = IF x.index = 0 THEN w[1] ELSE x.confirmed[x.index]
      BY <1>2, <1>5
    <3>3. \A i \in 1 .. x.index : x.confirmed[i] \notin Stops
      BY <1>5
    <3>4. \A i \in 1 .. (Len(x.confirmed) - 1) : w[i + 1] = x.confirmed[i]
      BY <1>5, <1>11
    <3>5. \A i \in 1 .. Len(x.confirmed) :
              x.confirmed[i] \in Likely(columns[q] \o SubSeq(w, 1, i))
      BY <1>3, <1>5, Zenon
    <3>6. x.mode = "speculative" => \/ x.confirmed[Len(x.confirmed)] \in Stops
                                    \/ x.hidden = Len(columns[q]) + Len(x.confirmed) - 1
      BY <1>5, <1>12
    <3> QED
      BY <1>5, <3>1, <3>2, <3>3, <3>4, <3>5, <3>6 DEF HandsOut
  <2> QED
    BY <1>5, <1>7, <2>1 DEF Delivering
<1> QED
  BY <1>1, <1>2, <1>5, <1>6, <1>9, <1>10, <1>13, MovesKeep DEF Running, Drawables

LEMMA VerifyCycleKeeps ==
    ASSUME IInv, NEW s \in Streams, VerifyCycle(s)
    PROVE  IInv'
<1>1. PICK q \in Sequences : streams[s].on = q
  BY DEF IInv, Types, Generations
<1> DEFINE token == pendingToken[q]
<1>2. /\ Runs(s, "decode") /\ Remaining(s) > 0 /\ Live(q)
      /\ \E drafted \in {0, PlanDraftLength(s)} : \E drafts \in [1 .. drafted -> Tokens] :
             \E confirmed \in AcceptDrafts(columns[q], token, drafts) :
                 Confirm(s, <<token>> \o drafts, confirmed, Accepted(confirmed, drafts))
  BY <1>1 DEF VerifyCycle
<1>3. Remaining(s) \in Nat \ {0} /\ token \in Tokens
  BY <1>1, <1>2, Decodes
<1>4. PICK drafted \in {0, PlanDraftLength(s)} : \E drafts \in [1 .. drafted -> Tokens] :
          \E confirmed \in AcceptDrafts(columns[q], token, drafts) :
              Confirm(s, <<token>> \o drafts, confirmed, Accepted(confirmed, drafts))
  BY <1>2
<1>5. drafted \in Nat /\ drafted + 1 <= Remaining(s)
  <2>1. Drafts \in Nat
    BY SequenceAssumption
  <2> QED
    BY <1>3, <2>1 DEF PlanDraftLength, Lesser
<1>6. PICK drafts \in [1 .. drafted -> Tokens] :
          \E confirmed \in AcceptDrafts(columns[q], token, drafts) :
              Confirm(s, <<token>> \o drafts, confirmed, Accepted(confirmed, drafts))
  BY <1>4
<1>7. drafts \in Seq(Tokens) /\ Len(drafts) = drafted
  BY <1>5, IsList
<1>8. PICK confirmed \in AcceptDrafts(columns[q], token, drafts) :
          Confirm(s, <<token>> \o drafts, confirmed, Accepted(confirmed, drafts))
  BY <1>6
<1>9. PICK n \in 1 .. (Len(drafts) + 1) : confirmed \in [1 .. n -> Tokens]
  BY <1>8 DEF AcceptDrafts
<1>10. confirmed \in Seq(Tokens) /\ Len(confirmed) = n /\ n \in Nat \ {0}
  BY <1>5, <1>7, <1>9, IsList
<1>11. /\ \A i \in 1 .. n :
              confirmed[i] \in Likely(columns[q] \o <<token>> \o SubSeq(drafts, 1, i - 1))
       /\ \A i \in 1 .. (n - 1) : confirmed[i] = drafts[i] /\ confirmed[i] \notin Stops
       /\ n <= Len(drafts) /\ confirmed[n] = drafts[n] => confirmed[n] \in Stops
  BY <1>8, <1>10 DEF AcceptDrafts
<1>12. /\ Accepted(confirmed, drafts) \in Int
       /\ confirmed[n] \in Stops \/ Accepted(confirmed, drafts) = n - 1
  BY <1>10, <1>11 DEF Accepted
<1>13. Len(drafts) + 1 <= Remaining(s)
  BY <1>5, <1>7
<1> HIDE DEF token
<1>14. Confirm(s, <<pendingToken[q]>> \o drafts, confirmed, Accepted(confirmed, drafts))
  BY <1>8 DEF token
<1>15. /\ Len(confirmed) \in 1 .. Len(drafts) + 1
       /\ \A i \in 1 .. Len(confirmed) - 1 : confirmed[i] = drafts[i]
       /\ \A i \in 1 .. Len(confirmed) :
              confirmed[i] \in
                  Likely(columns[q] \o <<pendingToken[q]>> \o SubSeq(drafts, 1, i - 1))
       /\ confirmed[Len(confirmed)] \in Stops
             \/ Accepted(confirmed, drafts) = Len(confirmed) - 1
  BY <1>9, <1>10, <1>11, <1>12 DEF token
<1> QED
  BY <1>1, <1>2, <1>7, <1>10, <1>12, <1>13, <1>14, <1>15, ConfirmKeeps

LEMMA AheadBatchKeeps ==
    ASSUME IInv, NEW s \in Streams, AheadBatch(s)
    PROVE  IInv'
<1>1. PICK q \in Sequences : streams[s].on = q
  BY DEF IInv, Types, Generations
<1> DEFINE token == pendingToken[q]
           count == Lesser(Depth, Remaining(s))
<1>2. /\ Runs(s, "decode") /\ streams[s].mode = "ahead" /\ Remaining(s) > 0 /\ Live(q)
      /\ \E sel \in SelectAhead(columns[q], token, count) :
             Confirm(s, <<token>> \o SubSeq(sel, 1, count - 1), sel, 0)
  BY <1>1 DEF AheadBatch
<1>3. Remaining(s) \in Nat \ {0} /\ token \in Tokens
  BY <1>1, <1>2, Decodes
<1>4. count \in Nat \ {0} /\ count <= Remaining(s) /\ count - 1 \in Nat
  <2>1. Depth \in Nat \ {0}
    BY SequenceAssumption
  <2> QED
    BY <1>3, <2>1 DEF Lesser
<1> HIDE DEF count
<1>5. PICK sel \in SelectAhead(columns[q], token, count) :
          Confirm(s, <<token>> \o SubSeq(sel, 1, count - 1), sel, 0)
  BY <1>2
<1>6. /\ sel \in [1 .. count -> Tokens]
      /\ \A i \in 1 .. count :
             sel[i] \in Likely(columns[q] \o <<token>> \o SubSeq(sel, 1, i - 1))
  BY <1>5 DEF SelectAhead
<1>7. sel \in Seq(Tokens) /\ Len(sel) = count
  BY <1>4, <1>6, IsList
<1> DEFINE tail == SubSeq(sel, 1, count - 1)
<1>8. /\ tail \in Seq(Tokens) /\ Len(tail) = count - 1
      /\ \A i \in 1 .. count - 1 : tail[i] = sel[i]
  BY <1>4, <1>7, Front
<1>9. ASSUME NEW i \in 1 .. count
      PROVE  SubSeq(tail, 1, i - 1) = SubSeq(sel, 1, i - 1)
  <2> DEFINE a == SubSeq(tail, 1, i - 1)
             b == SubSeq(sel, 1, i - 1)
  <2>1. i - 1 \in 0 .. Len(tail) /\ i - 1 \in 0 .. Len(sel) /\ i - 1 \in Nat
        /\ \A j \in 1 .. i - 1 : j \in 1 .. count - 1
    BY <1>4, <1>7, <1>8
  <2>2. b \in Seq(Tokens) /\ Len(b) = i - 1 /\ \A j \in 1 .. i - 1 : b[j] = sel[j]
    BY <1>7, <2>1, Front
  <2> HIDE DEF tail
  <2>3. a \in Seq(Tokens) /\ Len(a) = i - 1 /\ \A j \in 1 .. i - 1 : a[j] = tail[j]
    BY <1>8, <2>1, Front
  <2> HIDE DEF a, b
  <2>4. \A j \in 1 .. i - 1 : a[j] = b[j]
    BY <1>8, <2>1, <2>2, <2>3
  <2>5. a = b
    BY <2>2, <2>3, <2>4, SeqEqual
  <2> QED
    BY <2>5 DEF a, b
<1> HIDE DEF tail, token
<1>10. Confirm(s, <<pendingToken[q]>> \o tail, sel, 0)
  BY <1>5 DEF token, tail
<1>11. /\ Len(sel) \in 1 .. Len(tail) + 1 /\ Len(tail) + 1 <= Remaining(s)
       /\ \A i \in 1 .. Len(sel) - 1 : sel[i] = tail[i]
  BY <1>3, <1>4, <1>7, <1>8
<1>12. \A i \in 1 .. Len(sel) :
           sel[i] \in Likely(columns[q] \o <<pendingToken[q]>> \o SubSeq(tail, 1, i - 1))
  BY <1>6, <1>7, <1>9 DEF token
<1>13. streams[s].mode # "speculative" /\ 0 \in Int
  BY <1>2
<1> QED
  BY <1>1, <1>2, <1>7, <1>8, <1>10, <1>11, <1>12, <1>13, ConfirmKeeps

\* What a stream that hands out tokens has at hand.
LEMMA DeliverHas ==
    ASSUME IInv, NEW s \in Streams, Runs(s, "deliver"), NEW q \in Sequences, streams[s].on = q
    PROVE  /\ Holds(s) /\ streams[s] \in Generations /\ ~streams[s].resting
           /\ streams[s].stage = "deliver"
           /\ columns[q] \in Seq(Tokens) /\ Len(columns[q]) \in Nat
           /\ rows[q] \in Seq(Tokens) /\ Len(rows[q]) \in Nat
           /\ streams[s].confirmed \in Seq(Tokens) /\ streams[s].index \in Nat
           /\ Len(streams[s].confirmed) \in 1 .. Len(rows[q])
           /\ streams[s].index \in 0 .. Len(streams[s].confirmed)
           /\ HandsOut(streams[s], columns[q], rows[q], pendingToken[q], frontierRows[q])
           /\ streams[s].limit \in Nat /\ streams[s].drawn \in Nat /\ Most \in Nat
<1>1. Holds(s) /\ ~streams[s].resting /\ streams[s].stage = "deliver"
  BY RunsHolds
<1>2. /\ streams[s] \in Generations /\ streams[s].confirmed \in Seq(Tokens)
      /\ streams[s].index \in Nat /\ streams[s].limit \in Nat /\ streams[s].drawn \in Nat
      /\ columns[q] \in Seq(Tokens) /\ Len(columns[q]) \in Nat /\ Most \in Nat
      /\ rows[q] \in Seq(Tokens) /\ Len(rows[q]) \in Nat
  BY Sizes, MostIsLeast DEF IInv, Types, Generations
<1>3. HandsOut(streams[s], columns[q], rows[q], pendingToken[q], frontierRows[q])
  BY <1>1 DEF IInv, Turn, Delivering
<1>4. /\ Len(streams[s].confirmed) \in 1 .. Len(rows[q])
      /\ streams[s].index \in 0 .. Len(streams[s].confirmed)
  BY <1>3 DEF HandsOut
<1> QED
  BY <1>1, <1>2, <1>3, <1>4

LEMMA RefuseSelectedKeeps ==
    ASSUME IInv, NEW s \in Streams, RefuseSelected(s)
    PROVE  IInv'
<1>1. PICK q \in Sequences : streams[s].on = q
  BY DEF IInv, Types, Generations
<1> DEFINE i == streams[s].index
<1>2. Runs(s, "deliver") /\ i < Len(streams[s].confirmed) /\ Finish(s, "failed", i + 1, NoToken)
  BY DEF RefuseSelected
<1>3. /\ Holds(s) /\ i \in Nat /\ Len(streams[s].confirmed) \in 1 .. Len(rows[q])
      /\ Len(rows[q]) \in Nat
  BY <1>1, <1>2, DeliverHas
<1>4. i + 1 \in Nat /\ i + 1 <= Len(rows[q]) /\ NoToken \in Drawables
  <2> HIDE DEF i
  <2> QED
    BY <1>2, <1>3 DEF Drawables
<1> QED
  BY <1>1, <1>2, <1>3, <1>4, FinishKeeps

LEMMA DeliverKeeps ==
    ASSUME IInv, NEW s \in Streams, Deliver(s)
    PROVE  IInv'
<1>1. PICK q \in Sequences : streams[s].on = q
  BY DEF IInv, Types, Generations
<1> DEFINE i == streams[s].index
           c == streams[s].confirmed
           t == c[i + 1]
           x == [streams[s] EXCEPT !.index = i + 1, !.drawn = streams[s].drawn + 1,
                     !.resting = TRUE,
                     !.told = [position |-> Len(columns[q]) + 1 + i, id |-> t]]
<1>2. /\ Runs(s, "deliver") /\ i < Len(c) /\ Live(q)
      /\ IF t \in Stops THEN Finish(s, "eos", i + 1, t)
         ELSE /\ pendingToken' = [pendingToken EXCEPT ![q] = t]
              /\ frontierRows' = [frontierRows EXCEPT ![q] = i + 1]
              /\ streams' = [streams EXCEPT ![s] = x]
              /\ UNCHANGED <<wiring, context, columns, rows, disposal, chain>>
  BY <1>1 DEF Deliver
<1>3. /\ Holds(s) /\ streams[s] \in Generations /\ streams[s].stage = "deliver"
      /\ columns[q] \in Seq(Tokens) /\ Len(columns[q]) \in Nat
      /\ rows[q] \in Seq(Tokens) /\ Len(rows[q]) \in Nat
      /\ c \in Seq(Tokens) /\ i \in Nat /\ Len(c) \in 1 .. Len(rows[q])
      /\ HandsOut(streams[s], columns[q], rows[q], pendingToken[q], frontierRows[q])
      /\ streams[s].limit \in Nat /\ streams[s].drawn \in Nat /\ Most \in Nat
  BY <1>1, <1>2, DeliverHas
<1>4. i + 1 \in 1 .. Len(c) /\ i + 1 \in Nat /\ i + 1 <= Len(rows[q])
  <2> HIDE DEF i, c
  <2> QED
    BY <1>2, <1>3
<1>5. t \in Tokens /\ t \in Drawables
  <2> HIDE DEF c, i
  <2> QED
    BY <1>3, <1>4, ElementOfSeq DEF Drawables
<1>6. CASE t \in Stops
  BY <1>1, <1>2, <1>3, <1>4, <1>5, <1>6, FinishKeeps
<1>7. CASE t \notin Stops
  <2> DEFINE place == [position |-> Len(columns[q]) + 1 + i, id |-> t]
             d == streams[s].drawn + 1
             k == i + 1
  <2>1. place \in Places /\ place.position = Len(columns[q]) + 1 + i /\ d \in Nat /\ k \in Nat
        /\ d = streams[s].drawn + 1 /\ k = i + 1
    <3> DEFINE l == Len(columns[q]) + 1 + i
    <3>1. l \in Nat /\ d \in Nat /\ k \in Nat
      BY <1>3, <1>4
    <3>2. place = [position |-> l, id |-> t]
      OBVIOUS
    <3> HIDE DEF place, l, t
    <3>3. place \in Places /\ place.position = l
      BY <1>5, <3>1, <3>2 DEF Places
    <3> QED
      BY <3>1, <3>3 DEF l
  <2>2. streams' = [streams EXCEPT ![s] = x] /\ t = c[k]
        /\ x = [streams[s] EXCEPT !.index = k, !.drawn = d, !.resting = TRUE, !.told = place]
    BY <1>2, <1>7
  <2> HIDE DEF place, d, k, t, x
  <2>3. /\ x \in Generations /\ x.on = q /\ x.stage = "deliver" /\ x.confirmed = c
        /\ x.index = k /\ x.drawn = d /\ x.limit = streams[s].limit /\ x.mode = streams[s].mode
        /\ x.hidden = streams[s].hidden /\ x.told = place
    BY <1>1, <1>3, <2>1, <2>2 DEF Generations
  <2>4. Moves(s, q, x, columns[q], rows[q], t, k)
    BY <1>2, <1>7, <2>1, <2>2, AsItWas DEF IInv, Moves, k
  <2>5. /\ streams'[s] = x /\ columns'[q] = columns[q] /\ rows'[q] = rows[q]
        /\ pendingToken'[q] = t /\ frontierRows'[q] = k
    BY <2>3, <2>4, MovesTo DEF IInv
  <2>6. Prefilling(s)' /\ Decoding(s)'
    BY <2>3, <2>5 DEF Prefilling, Decoding
  <2>7. HandsOut(x, columns[q], rows[q], t, k)
    <3>1. /\ Len(c) \in 1 .. Len(rows[q]) /\ i \in 0 .. Len(c)
          /\ streams[s].drawn \in 1 .. streams[s].limit
          /\ Len(c) - i <= streams[s].limit - streams[s].drawn
          /\ Len(columns[q]) + Len(rows[q]) <= Most
          /\ Len(columns[q]) + i + (streams[s].limit - streams[s].drawn) <= Most
      BY <1>3 DEF HandsOut
    <3>2. /\ \A j \in 1 .. i : c[j] \notin Stops
          /\ \A j \in 1 .. (Len(c) - 1) : rows[q][j + 1] = c[j]
          /\ \A j \in 1 .. Len(c) : c[j] \in Likely(columns[q] \o SubSeq(rows[q], 1, j))
          /\ streams[s].mode = "speculative" =>
                 c[Len(c)] \in Stops \/ streams[s].hidden = Len(columns[q]) + Len(c) - 1
      BY <1>3 DEF HandsOut
    <3>3. /\ k \in 1 .. Len(c) /\ k = i + 1 /\ k # 0 /\ d \in 1 .. streams[s].limit
          /\ Len(c) - k <= streams[s].limit - d
          /\ Len(columns[q]) + k + (streams[s].limit - d) <= Most
          /\ place.position = Len(columns[q]) + k
      <4> DEFINE l == Len(c)
                 p == Len(columns[q])
                 e == streams[s].drawn
                 m == streams[s].limit
      <4>1. /\ l \in Nat /\ p \in Nat /\ e \in Nat /\ m \in Nat /\ Most \in Nat /\ i \in Nat
            /\ k = i + 1 /\ d = e + 1 /\ i < l /\ l - i <= m - e /\ p + i + (m - e) <= Most
            /\ place.position = p + 1 + i
        <5> HIDE DEF i, c
        <5>1. l \in Nat
          BY <1>3, <3>1
        <5> QED
          BY <1>2, <1>3, <2>1, <3>1, <5>1
      <4> HIDE DEF l, p, e, m, i
      <4>2. /\ k \in 1 .. l /\ k = i + 1 /\ k # 0 /\ d \in 1 .. m
            /\ l - k <= m - d /\ p + k + (m - d) <= Most /\ place.position = p + k
        BY <4>1
      <4> QED
        BY <4>2 DEF l, p, m, i
    <3>4. \A j \in 1 .. k : c[j] \notin Stops
      <4> TAKE j \in 1 .. k
      <4> HIDE DEF i, c
      <4>1. j = k \/ j \in 1 .. i
        BY <1>3, <3>3
      <4> QED
        BY <1>7, <2>2, <3>2, <4>1
    <3>5. t = IF x.index = 0 THEN rows[q][1] ELSE x.confirmed[x.index]
      BY <2>2, <2>3, <3>3
    <3>6. /\ Len(x.confirmed) \in 1 .. Len(rows[q]) /\ x.index \in 0 .. Len(x.confirmed)
          /\ k = x.index /\ x.drawn \in 1 .. x.limit
          /\ Len(x.confirmed) - x.index <= x.limit - x.drawn
          /\ Len(columns[q]) + Len(rows[q]) <= Most
          /\ Len(columns[q]) + x.index + (x.limit - x.drawn) <= Most
          /\ x.told.position = Len(columns[q]) + x.index
      <4>1. i \in Nat /\ Len(c) \in Nat
        BY <1>3, <3>1
      <4> HIDE DEF c, i
      <4>2. k \in 0 .. Len(c)
        BY <3>3, <4>1
      <4> QED
        BY <2>3, <3>1, <3>3, <4>2
    <3>7. /\ \A j \in 1 .. x.index : x.confirmed[j] \notin Stops
          /\ \A j \in 1 .. (Len(x.confirmed) - 1) : rows[q][j + 1] = x.confirmed[j]
          /\ \A j \in 1 .. Len(x.confirmed) :
                 x.confirmed[j] \in Likely(columns[q] \o SubSeq(rows[q], 1, j))
          /\ x.mode = "speculative" =>
                 \/ x.confirmed[Len(x.confirmed)] \in Stops
                 \/ x.hidden = Len(columns[q]) + Len(x.confirmed) - 1
      BY <2>3, <3>2, <3>4
    <3> QED
      BY <3>5, <3>6, <3>7 DEF HandsOut
  <2>8. Delivering(s)'
    BY <2>3, <2>5, <2>7 DEF Delivering
  <2>9. Len(columns[q]) + Len(rows[q]) <= Most
    BY <1>2 DEF IInv, Rows
  <2>10. t \in Drawables /\ k \in Nat
    BY <1>5, <2>1 DEF t
  <2> QED
    BY <1>1, <1>3, <2>3, <2>4, <2>6, <2>8, <2>9, <2>10, MovesKeep DEF Running
<1> QED
  BY <1>6, <1>7

\* The rows whose tokens were handed out are accepted, all of them told.
LEMMA CloseCycleKeeps ==
    ASSUME IInv, NEW s \in Streams, CloseCycle(s)
    PROVE  IInv'
<1>1. PICK q \in Sequences : streams[s].on = q
  BY DEF IInv, Types, Generations
<1> DEFINE n == Len(streams[s].confirmed)
           taken == SubSeq(rows[q], 1, n)
           past == columns[q] \o taken
           x == [streams[s] EXCEPT !.stage = "decode", !.confirmed = <<>>, !.index = 0]
<1>2. /\ Runs(s, "deliver") /\ streams[s].index = n /\ Live(q)
      /\ SettleCommit(q, frontierRows[q], pendingToken[q])
      /\ streams' = [streams EXCEPT ![s] = x]
      /\ UNCHANGED <<wiring, context, disposal, chain>>
  BY <1>1 DEF CloseCycle
<1>3. /\ Holds(s) /\ streams[s] \in Generations /\ ~streams[s].resting
      /\ columns[q] \in Seq(Tokens) /\ Len(columns[q]) \in Nat
      /\ rows[q] \in Seq(Tokens) /\ Len(rows[q]) \in Nat
      /\ streams[s].confirmed \in Seq(Tokens) /\ n \in 1 .. Len(rows[q])
      /\ HandsOut(streams[s], columns[q], rows[q], pendingToken[q], frontierRows[q])
      /\ streams[s].limit \in Nat /\ streams[s].drawn \in Nat /\ Most \in Nat
  BY <1>1, <1>2, DeliverHas
<1>4. /\ frontierRows[q] = n
      /\ streams[s].drawn \in 1 .. streams[s].limit
      /\ Len(columns[q]) + Len(rows[q]) <= Most
      /\ Len(columns[q]) + n + (streams[s].limit - streams[s].drawn) <= Most
      /\ pendingToken[q] = streams[s].confirmed[n] /\ streams[s].confirmed[n] \notin Stops
      /\ streams[s].mode = "speculative" => streams[s].hidden = Len(columns[q]) + n - 1
  <2>1. n # 0 /\ n \in 1 .. n
    BY <1>3
  <2> QED
    BY <1>2, <1>3, <2>1 DEF HandsOut
<1>5. pendingToken[q] \in Tokens
  BY <1>3, <1>4, ElementOfSeq
<1>6. taken \in Seq(Tokens) /\ Len(taken) = n
  BY <1>3, Front
<1>7. past \in Seq(Tokens) /\ Len(past) = Len(columns[q]) + n
  <2>1. columns[q] \in Seq(Tokens)
    BY <1>3
  <2> HIDE DEF taken, n
  <2>2. /\ Len(columns[q] \o taken) = Len(columns[q]) + Len(taken)
        /\ columns[q] \o taken \in Seq(Tokens)
    BY <1>6, <2>1, Joined
  <2> QED
    BY <1>6, <2>2
<1>8. rows[q] # <<>>
  BY <1>3, EmptySeq
<1>9. /\ columns' = [columns EXCEPT ![q] = past] /\ rows' = [rows EXCEPT ![q] = <<>>]
      /\ frontierRows' = [frontierRows EXCEPT ![q] = 0]
      /\ pendingToken' = [pendingToken EXCEPT ![q] = pendingToken[q]]
  <2>1. Commit(q, frontierRows[q]) = [columns |-> past, rows |-> <<>>, frontier |-> 0]
    BY <1>2, <1>4, <1>8 DEF Commit
  <2> HIDE DEF past
  <2>2. /\ Commit(q, frontierRows[q]).columns = past /\ Commit(q, frontierRows[q]).rows = <<>>
        /\ Commit(q, frontierRows[q]).frontier = 0
    <3> DEFINE done == Commit(q, frontierRows[q])
    <3>1. done = [columns |-> past, rows |-> <<>>, frontier |-> 0]
      BY <2>1
    <3> HIDE DEF done
    <3>2. done.columns = past /\ done.rows = <<>> /\ done.frontier = 0
      BY <3>1
    <3> QED
      BY <3>2 DEF done
  <2> QED
    BY <1>2, <2>2 DEF SettleCommit
<1>10. /\ x \in Generations /\ x.on = q /\ x.stage = "decode" /\ x.limit = streams[s].limit
       /\ x.drawn = streams[s].drawn /\ ~x.resting /\ x.mode = streams[s].mode
       /\ x.hidden = streams[s].hidden
  <2>1. <<>> \in Seq(Tokens)
    BY EmptySeq
  <2> QED
    BY <1>1, <1>3, <2>1 DEF Generations, Stages
<1> HIDE DEF x, past
<1>11. Moves(s, q, x, past, <<>>, pendingToken[q], 0)
  BY <1>2, <1>9 DEF Moves
<1>12. streams'[s] = x /\ columns'[q] = past /\ pendingToken'[q] = pendingToken[q]
  BY <1>10, <1>11, MovesTo DEF IInv
<1>13. Past(s)' = Len(past)
  BY <1>10, <1>12 DEF Past
<1>14. Prefilling(s)' /\ Delivering(s)'
  BY <1>10, <1>12 DEF Prefilling, Delivering
<1>15. Len(past) <= Most /\ Len(past) + Len(<<>>) <= Most
       /\ Len(past) + (streams[s].limit - streams[s].drawn) <= Most
       /\ Len(past) - 1 = Len(columns[q]) + n - 1
  <2> DEFINE l == Len(past)
             p == Len(columns[q])
             r == Len(rows[q])
             e == streams[s].drawn
             m == streams[s].limit
  <2>1. /\ p \in Nat /\ r \in Nat /\ e \in Nat /\ m \in Nat /\ Most \in Nat /\ n \in 1 .. r
        /\ l = p + n /\ p + r <= Most /\ p + n + (m - e) <= Most
    BY <1>3, <1>4, <1>7
  <2>2. Len(<<>>) = 0
    BY EmptySeq
  <2> HIDE DEF l, p, r, e, m, n
  <2>3. l <= Most /\ l + 0 <= Most /\ l + (m - e) <= Most /\ l - 1 = p + n - 1
    BY <2>1
  <2> QED
    BY <2>2, <2>3 DEF l, p, r, e, m
<1>16. Decoding(s)'
  BY <1>4, <1>5, <1>10, <1>12, <1>13, <1>15 DEF Decoding
<1>17. pendingToken[q] \in Drawables /\ <<>> \in Seq(Tokens) /\ 0 \in Nat
  BY <1>5, EmptySeq DEF Drawables
<1> QED
  BY <1>1, <1>3, <1>7, <1>10, <1>11, <1>14, <1>15, <1>16, <1>17, MovesKeep DEF Running

-------------------------------------------------------------------------------
(* The theorems. *)

LEMMA IInvInit == Init => IInv
<1> SUFFICES ASSUME Init PROVE IInv
  OBVIOUS
<1>1. <<>> \in Seq(Tokens) /\ <<>> \in Seq(Operations) /\ Len(<<>>) = 0
  BY EmptySeq
<1>2. Types
  BY <1>1, UnissuedIsOne, SequenceAssumption DEF Init, Types, Conditions, Drawables
<1>3. \A s \in Streams : streams[s] = Unissued
  BY DEF Init
<1>4. Chains
  BY <1>1, <1>3 DEF Init, Chains, Placed, Running, Unissued
<1>5. Copies
  BY <1>1 DEF Init, Copies
<1>6. ASSUME NEW s \in Streams PROVE Turn(s)
  BY <1>3 DEF Turn, Waiting, Prefilling, Decoding, Delivering, Unissued
<1>7. ASSUME NEW q \in Sequences PROVE Rows(q)
  BY <1>1, MostIsLeast DEF Init, Rows
<1> QED
  BY <1>2, <1>4, <1>5, <1>6, <1>7 DEF IInv

LEMMA IInvStep == IInv /\ [Next]_vars => IInv'
<1> SUFFICES ASSUME IInv, [Next]_vars PROVE IInv'
  OBVIOUS
<1>1. ASSUME NEW s \in Streams, Generate(s) PROVE IInv'
  BY <1>1, GenerateKeeps
<1>2. ASSUME NEW s \in Streams, CloseUnstarted(s) PROVE IInv'
  BY <1>2, CloseUnstartedKeeps
<1>3. ASSUME NEW s \in Streams, Start(s) PROVE IInv'
  BY <1>3, StartKeeps
<1>4. ASSUME NEW s \in Streams, Body(s) PROVE IInv'
  BY <1>4, AdmitKeeps, InterruptKeeps, BreakRunKeeps, PrefillKeeps, FirstTokenKeeps,
     ReachLimitKeeps, PlainStepKeeps, VerifyCycleKeeps, AheadBatchKeeps, DeliverKeeps,
     RefuseSelectedKeeps, CloseCycleKeeps DEF Body
<1>5. ASSUME NEW s \in Streams, Consume(s) PROVE IInv'
  BY <1>5, ResumeKeeps, CloseKeeps DEF Consume
<1>6. ASSUME NEW q \in Sequences, NEW p \in Sequences, Fork(q, p) PROVE IInv'
  BY <1>6, ForkKeeps
<1>7. ASSUME NEW q \in Sequences, Branch(q) \/ Dispose(q) \/ CompleteDispose(q) PROVE IInv'
  BY <1>7, BranchKeeps, DisposeKeeps, CompleteDisposeKeeps
<1>8. CASE LoseDevice
  BY <1>8, LoseDeviceKeeps
<1>9. CASE UNCHANGED vars
  <2>1. UNCHANGED <<wiring, context, columns, rows, pendingToken, frontierRows, disposal,
                    chain, streams>>
    BY <1>9 DEF vars, held
  <2>2. Types' /\ Chains' /\ Copies'
    BY <2>1 DEF IInv, Types, Chains, Copies, Placed
  <2>3. ASSUME NEW q \in Sequences PROVE Rows(q)'
    BY <2>1, RowsStay DEF Live
  <2> QED
    BY <2>1, <2>2, <2>3, AroundKeeps
<1> QED
  BY <1>1, <1>2, <1>3, <1>4, <1>5, <1>6, <1>7, <1>8, <1>9 DEF Next

\* Every reachable state has the invariant: a stream past its admission holds the
\* chain, and what it knows of its conversation is so.
THEOREM IInvHolds == Spec => []IInv
<1>1. Init => IInv
  BY IInvInit
<1>2. IInv /\ [Next]_vars => IInv'
  BY IInvStep
<1> QED
  BY <1>1, <1>2, PTL DEF Spec

\* assertBudget and planDraftLength: no run of any turn passes the capacity.
THEOREM RowsFit == Spec => []RowsFitCapacity
<1>1. IInv => RowsFitCapacity
  BY DEF IInv, Rows, RowsFitCapacity, Most
<1> QED
  BY <1>1, IInvHolds, PTL

\* A stream that rests after a token: the chain keeps every other step of the
\* conversation away, so used agrees with the token it told.
THEOREM UsedAgrees == Spec => []UsedFollowsToken
<1>1. ASSUME IInv, NEW s \in Streams,
             streams[s].resting, streams[s].drawn > 0, Live(streams[s].on)
      PROVE  Used(streams[s].on) = streams[s].told.position + 1
  <2>1. PICK q \in Sequences : streams[s].on = q
    BY <1>1 DEF IInv, Types, Generations
  <2>2. /\ Holds(s) /\ streams[s].stage \in Running
        /\ streams[s].stage \notin {"prefill", "first"}
    BY <1>1, RestsHolds DEF IInv, Turn, Prefilling
  <2>3. columns[q] \in Seq(Tokens) /\ Len(columns[q]) \in Nat
    BY <1>1, Sizes DEF IInv
  <2>4. pendingToken[q] \in Tokens => Len(Pending(q)) = 1
    <3>1. ASSUME pendingToken[q] \in Tokens PROVE Pending(q) = <<pendingToken[q]>>
      BY <3>1, SequenceAssumption DEF Pending
    <3> QED
      BY <3>1
  <2>5. CASE streams[s].stage = "decode"
    <3>1. pendingToken[q] \in Tokens /\ streams[s].told.position = Len(columns[q])
      BY <1>1, <2>1, <2>5 DEF IInv, Turn, Decoding, Past
    <3>2. frontierRows[q] = 0
      BY <1>1, <2>1, <2>2, <2>5, Undelivered
    <3> QED
      <4>1. Used(q) = Len(columns[q]) + 0 + 1
        BY <2>4, <3>1, <3>2 DEF Used
      <4> QED
        BY <2>1, <2>3, <3>1, <4>1
  <2>6. CASE streams[s].stage = "deliver"
    <3> DEFINE i == streams[s].index
               c == streams[s].confirmed
               n == Len(c)
    <3>1. HandsOut(streams[s], columns[q], rows[q], pendingToken[q], frontierRows[q])
      BY <1>1, <2>1, <2>6 DEF IInv, Turn, Delivering
    <3>2. /\ n \in 1 .. Len(rows[q]) /\ i \in 0 .. n /\ frontierRows[q] = i
          /\ streams[s].told.position = Len(columns[q]) + i
          /\ pendingToken[q] = IF i = 0 THEN rows[q][1] ELSE c[i]
      BY <1>1, <3>1 DEF HandsOut
    <3>3. rows[q] \in Seq(Tokens) /\ c \in Seq(Tokens) /\ Len(rows[q]) \in Nat
      BY <1>1, Sizes DEF IInv, Types, Generations
    <3>4. (i # 0 => i \in 1 .. n) /\ 1 \in 1 .. Len(rows[q]) /\ i \in Nat
      BY <3>2, <3>3
    <3> HIDE DEF i, c, n
    <3>5. pendingToken[q] \in Tokens
      <4>1. CASE i = 0
        BY <3>2, <3>3, <3>4, <4>1, ElementOfSeq
      <4>2. CASE i # 0
        BY <3>2, <3>3, <3>4, <4>2, ElementOfSeq DEF n
      <4> QED
        BY <4>1, <4>2
    <3> QED
      BY <2>1, <2>3, <2>4, <3>2, <3>4, <3>5 DEF Used
  <2> QED
    BY <2>2, <2>5, <2>6 DEF Running
<1>2. IInv => UsedFollowsToken
  BY <1>1 DEF UsedFollowsToken
<1> QED
  BY <1>2, IInvHolds, PTL

\* The hidden row kept for the drafter is that of the last committed column,
\* whichever prefill, draw or accepted run wrote it.
THEOREM DraftsContinue == Spec => []DraftsFromLastRow
<1>1. ASSUME IInv, NEW s \in Streams, Runs(s, "decode"), streams[s].mode = "speculative"
      PROVE  streams[s].hidden = Past(s) - 1
  BY <1>1 DEF IInv, Turn, Decoding, Runs
<1>2. IInv => DraftsFromLastRow
  BY <1>1 DEF DraftsFromLastRow
<1> QED
  BY <1>2, IInvHolds, PTL

\* Every way out of a delivery passes settleCommit.
THEOREM NothingLeft == Spec => []NothingLeftUncommitted
<1>1. IInv => NothingLeftUncommitted
  BY DEF IInv, Rows, Delivers, NothingLeftUncommitted
<1> QED
  BY <1>1, IInvHolds, PTL

-------------------------------------------------------------------------------
(* GenerationSequence implements Conversation: what a step shows of a
   conversation is its status, its transcript and whose turn is on.            *)

SameTalk(q) ==
    /\ Status(q)' = Status(q)
    /\ Transcript(q)' = Transcript(q)
    /\ TurnOf(q)' = TurnOf(q)

\* What is shown of the stream that has the turn.
Record(s) == [stream |-> s, limit |-> streams[s].limit, drawn |-> streams[s].drawn,
              told |-> streams[s].told]

Speaks(s, q) == streams[s].on = q /\ streams[s].stage \in Running

Listed(token) == IF token = NoToken THEN <<>> ELSE <<token>>

\* The transcript there is with these columns, rows, frontier and pending token.
Said(past, written, reached, token) == past \o SubSeq(written, 1, reached) \o Listed(token)

\* Who speaks has the turn, and where nobody speaks there is none.
TurnsTaken ==
    \A q \in Sequences :
        /\ \A s \in Streams : Speaks(s, q) /\ Live(q) =>
               TurnOf(q) = Record(s) /\ Record(s) # NoTurn
        /\ ~Live(q) \/ (\A s \in Streams : ~Speaks(s, q)) => TurnOf(q) = NoTurn

\* One stream speaks at a time.
LEMMA TurnsAreTaken == IInv => TurnsTaken
<1> SUFFICES ASSUME IInv, NEW q \in Sequences
             PROVE  /\ \A s \in Streams : Speaks(s, q) /\ Live(q) =>
                           TurnOf(q) = Record(s) /\ Record(s) # NoTurn
                    /\ ~Live(q) \/ (\A s \in Streams : ~Speaks(s, q)) => TurnOf(q) = NoTurn
  BY DEF TurnsTaken
<1>1. InTurn(q) = {s \in Streams : Speaks(s, q)}
  BY DEF InTurn, Speaks, Running
<1>2. ASSUME NEW s \in Streams, Speaks(s, q), Live(q)
      PROVE  TurnOf(q) = Record(s) /\ Record(s) # NoTurn
  <2>1. Holds(s)
    BY <1>2 DEF Speaks, Holds, Placed, Running, IInv, Chains
  <2>2. \A r \in Streams \ {s} : ~Speaks(r, q)
    BY <1>2, <2>1, Alone DEF IInv, Speaks
  <2>3. InTurn(q) = {s}
    BY <1>1, <1>2, <2>2
  <2>4. \A r \in {s} : r = s
    OBVIOUS
  <2>5. (CHOOSE r \in InTurn(q) : TRUE) = s
    BY <2>3
  <2>6. TurnOf(q) = Record(s)
    BY <1>2, <2>3, <2>5 DEF TurnOf, Record
  <2>7. Record(s) # NoTurn
    BY TurnAssumption DEF Record, IInv, Types, Generations, Places, Drawables
  <2> QED
    BY <2>6, <2>7
<1>3. ~Live(q) \/ (\A s \in Streams : ~Speaks(s, q)) => TurnOf(q) = NoTurn
  BY <1>1 DEF TurnOf
<1> QED
  BY <1>2, <1>3

\* The same after a step.
LEMMA TurnsStayTaken == IInv' => TurnsTaken'
BY TurnsAreTaken, PTL

\* A conversation none of whose speakers changed, and whose tokens are the same.
LEMMA SpeakersStay ==
    ASSUME IInv, IInv', NEW q \in Sequences,
           Status(q)' = Status(q), Transcript(q)' = Transcript(q),
           \A s \in Streams : /\ Speaks(s, q)' <=> Speaks(s, q)
                              /\ Speaks(s, q) => Record(s)' = Record(s)
    PROVE  SameTalk(q)
<1>1. TurnsTaken /\ TurnsTaken'
  BY TurnsAreTaken, TurnsStayTaken
<1>2. Live(q)' <=> Live(q)
  BY DEF Status
<1>3. CASE ~Live(q) \/ (\A s \in Streams : ~Speaks(s, q))
  BY <1>1, <1>2, <1>3 DEF TurnsTaken, SameTalk
<1>4. CASE Live(q) /\ \E s \in Streams : Speaks(s, q)
  <2>1. PICK s \in Streams : Speaks(s, q)
    BY <1>4
  <2>2. TurnOf(q) = Record(s) /\ TurnOf(q)' = Record(s)'
    BY <1>1, <1>2, <1>4, <2>1 DEF TurnsTaken
  <2> QED
    BY <2>1, <2>2 DEF SameTalk
<1> QED
  BY <1>3, <1>4

\* What the chain's holder has of the turn.
LEMMA TurnHeld ==
    ASSUME IInv, NEW s \in Streams, Holds(s), NEW q \in Sequences, streams[s].on = q, Live(q)
    PROVE  /\ Status(q) = "live"
           /\ streams[s].stage \in Running => TurnOf(q) = Record(s) /\ TurnOf(q) # NoTurn
           /\ streams[s].stage \notin Running => TurnOf(q) = NoTurn
<1>1. \A r \in Streams \ {s} : ~Speaks(r, q)
  BY Alone DEF IInv, Speaks
<1>2. TurnsTaken
  BY TurnsAreTaken
<1> QED
  BY <1>1, <1>2 DEF TurnsTaken, Speaks, Status

\* A step of the chain's holder, whether it keeps its place or gives it back.
Apart(s, q) ==
    /\ \A r \in Streams \ {s} : streams'[r] = streams[r]
    /\ \A p \in Sequences \ {q} :
           /\ columns'[p] = columns[p] /\ rows'[p] = rows[p]
           /\ pendingToken'[p] = pendingToken[p] /\ frontierRows'[p] = frontierRows[p]
    /\ context' = context

\* It changes what is shown of its own conversation only.
LEMMA StepTalks ==
    ASSUME IInv, IInv', NEW s \in Streams, Holds(s), NEW q \in Sequences, streams[s].on = q,
           Apart(s, q), streams'[s].stage \in Running => streams'[s].on = q
    PROVE  /\ \A p \in Sequences \ {q} : SameTalk(p)
           /\ Status(q)' = Status(q)
           /\ ~Live(q) => SameTalk(q)
           /\ Live(q) =>
                /\ Transcript(q)' =
                       Said(columns'[q], rows'[q], frontierRows'[q], pendingToken'[q])
                /\ streams'[s].stage \in Running => TurnOf(q)' = Record(s)'
                /\ streams'[s].stage \notin Running => TurnOf(q)' = NoTurn
<1>1. \A p \in Sequences : Status(p)' = Status(p) /\ (Live(p)' <=> Live(p))
  BY DEF Apart, Status, Live
<1>2. ASSUME NEW p \in Sequences \ {q} PROVE SameTalk(p)
  <2>1. Transcript(p)' = Transcript(p)
    BY <1>1 DEF Apart, Transcript, Pending
  <2>2. \A r \in Streams : /\ Speaks(r, p)' <=> Speaks(r, p)
                           /\ Speaks(r, p) => Record(r)' = Record(r)
    BY DEF Apart, Speaks, Record
  <2> QED
    BY <1>1, <2>1, <2>2, SpeakersStay
<1>3. TurnsTaken /\ TurnsTaken'
  BY TurnsAreTaken, TurnsStayTaken
<1>4. ASSUME ~Live(q) PROVE SameTalk(q)
  BY <1>1, <1>3, <1>4 DEF SameTalk, TurnsTaken, Transcript
<1>5. ASSUME Live(q)
      PROVE  /\ Transcript(q)' =
                    Said(columns'[q], rows'[q], frontierRows'[q], pendingToken'[q])
             /\ streams'[s].stage \in Running => TurnOf(q)' = Record(s)'
             /\ streams'[s].stage \notin Running => TurnOf(q)' = NoTurn
  <2>1. Transcript(q)' = Said(columns'[q], rows'[q], frontierRows'[q], pendingToken'[q])
    <3>1. Transcript(q)' = columns'[q] \o SubSeq(rows'[q], 1, frontierRows'[q]) \o Pending(q)'
      BY <1>1, <1>5 DEF Transcript
    <3>2. Pending(q)' = Listed(pendingToken'[q])
      BY DEF Pending, Listed
    <3> QED
      BY <3>1, <3>2 DEF Said
  <2>2. \A r \in Streams \ {s} : ~Speaks(r, q)'
    BY Alone DEF Apart, IInv, Speaks
  <2>3. Speaks(s, q)' <=> streams'[s].stage \in Running
    BY DEF Speaks
  <2> QED
    BY <1>1, <1>3, <1>5, <2>1, <2>2, <2>3 DEF TurnsTaken
<1> QED
  BY <1>1, <1>2, <1>4, <1>5

\* Nothing is shown.
LEMMA NothingTalks ==
    ASSUME \A q \in Sequences : SameTalk(q)
    PROVE  [Talk!Next]_(Talk!vars)
<1>1. /\ [q \in Sequences |-> Status(q)]' = [q \in Sequences |-> Status(q)]
      /\ [q \in Sequences |-> Transcript(q)]' = [q \in Sequences |-> Transcript(q)]
      /\ [q \in Sequences |-> TurnOf(q)]' = [q \in Sequences |-> TurnOf(q)]
  BY DEF SameTalk
<1> QED
  BY <1>1 DEF Talk!vars

\* A turn begins.
LEMMA TurnBegins ==
    ASSUME NEW q \in Sequences, \A p \in Sequences \ {q} : SameTalk(p),
           Status(q) = "live", Status(q)' = "live", Transcript(q)' = Transcript(q),
           TurnOf(q) = NoTurn, NEW s \in Streams, NEW limit \in 1 .. Capacity + 1,
           TurnOf(q)' = [stream |-> s, limit |-> limit, drawn |-> 0, told |-> NothingTold]
    PROVE  [Talk!Next]_(Talk!vars)
<1>1. /\ [p \in Sequences |-> Status(p)]' = [p \in Sequences |-> Status(p)]
      /\ [p \in Sequences |-> Transcript(p)]' = [p \in Sequences |-> Transcript(p)]
      /\ [p \in Sequences |-> TurnOf(p)]' =
             [[p \in Sequences |-> TurnOf(p)] EXCEPT ![q] =
                 [stream |-> s, limit |-> limit, drawn |-> 0, told |-> NothingTold]]
  BY DEF SameTalk
<1>2. Talk!NothingTold = NothingTold
  BY DEF Talk!NothingTold, NothingTold
<1>3. Talk!Begin(q)
  BY <1>1, <1>2 DEF Talk!Begin
<1> QED
  BY <1>3 DEF Talk!Next

\* A turn takes some of its prompt, and may fail on it.
LEMMA TurnFeeds ==
    ASSUME NEW q \in Sequences, \A p \in Sequences \ {q} : SameTalk(p),
           Status(q) = "live", Status(q)' = "live",
           TurnOf(q) # NoTurn, TurnOf(q).drawn = 0, TurnOf(q)' \in {TurnOf(q), NoTurn},
           NEW prompt \in Seq(Tokens), Len(prompt) \in 1 .. ChunkLength,
           Transcript(q)' = Transcript(q) \o prompt
    PROVE  [Talk!Next]_(Talk!vars)
<1>1. /\ [p \in Sequences |-> Status(p)]' = [p \in Sequences |-> Status(p)]
      /\ [p \in Sequences |-> Transcript(p)]' =
             [[p \in Sequences |-> Transcript(p)] EXCEPT ![q] = Transcript(q) \o prompt]
      /\ \/ [p \in Sequences |-> TurnOf(p)]' = [p \in Sequences |-> TurnOf(p)]
         \/ [p \in Sequences |-> TurnOf(p)]' =
                [[p \in Sequences |-> TurnOf(p)] EXCEPT ![q] = NoTurn]
  BY DEF SameTalk
<1>2. prompt \in [1 .. Len(prompt) -> Tokens]
  BY LenProperties
<1>3. Talk!Feed(q)
  BY <1>1, <1>2 DEF Talk!Feed
<1> QED
  BY <1>3 DEF Talk!Next

\* A token is drawn, from what the model says of the tokens before it.
LEMMA TurnDraws ==
    ASSUME NEW q \in Sequences, \A p \in Sequences \ {q} : SameTalk(p),
           Status(q) = "live", Status(q)' = "live",
           TurnOf(q) # NoTurn, TurnOf(q).drawn < TurnOf(q).limit,
           NEW t \in Likely(Transcript(q)), Transcript(q)' = Append(Transcript(q), t),
           TurnOf(q)' =
               IF t \in Stops THEN NoTurn
               ELSE [stream |-> TurnOf(q).stream, limit |-> TurnOf(q).limit,
                     drawn |-> TurnOf(q).drawn + 1,
                     told |-> [position |-> Len(Transcript(q)), id |-> t]]
    PROVE  [Talk!Next]_(Talk!vars)
<1> DEFINE told == IF t \in Stops THEN NoTurn
                   ELSE [stream |-> TurnOf(q).stream, limit |-> TurnOf(q).limit,
                         drawn |-> TurnOf(q).drawn + 1,
                         told |-> [position |-> Len(Transcript(q)), id |-> t]]
<1>1. /\ [p \in Sequences |-> Status(p)]' = [p \in Sequences |-> Status(p)]
      /\ [p \in Sequences |-> Transcript(p)]' =
             [[p \in Sequences |-> Transcript(p)] EXCEPT ![q] = Append(Transcript(q), t)]
      /\ [p \in Sequences |-> TurnOf(p)]' = [[p \in Sequences |-> TurnOf(p)] EXCEPT ![q] = told]
  <2> HIDE DEF told
  <2>1. TurnOf(q)' = told
    BY DEF told
  <2> QED
    BY <2>1 DEF SameTalk
<1>2. Talk!Draw(q)
  BY <1>1 DEF Talk!Draw
<1> QED
  BY <1>2 DEF Talk!Next

\* A turn ends.
LEMMA TurnEnds ==
    ASSUME NEW q \in Sequences, \A p \in Sequences \ {q} : SameTalk(p),
           Status(q)' = Status(q), Transcript(q)' = Transcript(q), TurnOf(q)' = NoTurn
    PROVE  [Talk!Next]_(Talk!vars)
<1>1. CASE TurnOf(q) = NoTurn
  BY <1>1, NothingTalks DEF SameTalk
<1>2. CASE TurnOf(q) # NoTurn
  <2>1. /\ [p \in Sequences |-> Status(p)]' = [p \in Sequences |-> Status(p)]
        /\ [p \in Sequences |-> Transcript(p)]' = [p \in Sequences |-> Transcript(p)]
        /\ [p \in Sequences |-> TurnOf(p)]' = [[p \in Sequences |-> TurnOf(p)] EXCEPT ![q] = NoTurn]
    BY DEF SameTalk
  <2>2. Talk!End(q)
    BY <1>2, <2>1 DEF Talk!End
  <2> QED
    BY <2>2 DEF Talk!Next
<1> QED
  BY <1>1, <1>2

\* A branch starts.
LEMMA BranchTalks ==
    ASSUME NEW q \in Sequences, NEW p \in Sequences, \A r \in Sequences \ {p} : SameTalk(r),
           Status(q) = "live", TurnOf(q) = NoTurn, Status(p) = "absent", Status(p)' = "live",
           Transcript(p)' = Transcript(q), TurnOf(p)' = TurnOf(p)
    PROVE  [Talk!Next]_(Talk!vars)
<1>1. /\ [r \in Sequences |-> Status(r)]' =
             [[r \in Sequences |-> Status(r)] EXCEPT ![p] = "live"]
      /\ [r \in Sequences |-> Transcript(r)]' =
             [[r \in Sequences |-> Transcript(r)] EXCEPT ![p] = Transcript(q)]
      /\ [r \in Sequences |-> TurnOf(r)]' = [r \in Sequences |-> TurnOf(r)]
  BY DEF SameTalk
<1>2. Talk!Branch(q, p)
  BY <1>1 DEF Talk!Branch
<1> QED
  BY <1>2 DEF Talk!Next

\* Conversations that answer nothing any more.
Leaves(q) ==
    /\ Status(q) = "live" /\ Status(q)' = "gone"
    /\ Transcript(q)' = <<>> /\ TurnOf(q)' = NoTurn

LEMMA SomeLeave ==
    ASSUME \A q \in Sequences : SameTalk(q) \/ Leaves(q)
    PROVE  [Talk!Next]_(Talk!vars)
<1> DEFINE S == {q \in Sequences : Leaves(q)}
<1>1. \A q \in Sequences :
          /\ Status(q)' = IF q \in S THEN "gone" ELSE Status(q)
          /\ Transcript(q)' = IF q \in S THEN <<>> ELSE Transcript(q)
          /\ TurnOf(q)' = IF q \in S THEN NoTurn ELSE TurnOf(q)
          /\ q \in S => Status(q) = "live"
  BY DEF SameTalk, Leaves
<1>2. S \in SUBSET Sequences
  OBVIOUS
<1> HIDE DEF S
<1>3. Talk!Leave(S)
  BY <1>1, <1>2 DEF Talk!Leave
<1> QED
  BY <1>2, <1>3 DEF Talk!Next

\* Nothing of a list stays nothing, in front of another or behind it.
LEMMA NoneAhead ==
    ASSUME NEW past \in Seq(Tokens), NEW written
    PROVE  /\ past \o SubSeq(written, 1, 0) = past
           /\ past \o SubSeq(written, 1, 0) \o <<>> = past
<1>1. SubSeq(written, 1, 0) = <<>>
  BY SubSeqEmpty
<1>2. past \o <<>> = past
  BY ConcatEmptySeq
<1> QED
  BY <1>1, <1>2

\* One row more is what the next token of a list adds.
LEMMA FrontGrows ==
    ASSUME NEW past \in Seq(Tokens), NEW list \in Seq(Tokens), NEW n \in 0 .. Len(list) - 1
    PROVE  past \o SubSeq(list, 1, n) \o <<list[n + 1]>> = past \o SubSeq(list, 1, n + 1)
<1>1. n + 1 \in 1 .. Len(list) /\ n \in Nat /\ n \in 0 .. Len(list) /\ n + 1 \in 1 .. n + 1
      /\ (n + 1) - 1 = n /\ 1 \in 1 .. Len(list)
  BY LenProperties
<1>2. list[n + 1] \in Tokens /\ SubSeq(list, 1, n) \in Seq(Tokens)
  BY <1>1, ElementOfSeq, Front
<1>3. SubSeq(list, 1, n + 1) = SubSeq(list, 1, n) \o <<list[n + 1]>>
  <2> DEFINE m == n + 1
  <2>1. m \in 1 .. Len(list) /\ m - 1 = n
    BY <1>1
  <2> HIDE DEF m
  <2>2. SubSeq(list, 1, m) = SubSeq(list, 1, m - 1) \o <<list[m]>>
    BY <1>1, <2>1, SubSeqRecursiveSecond
  <2> QED
    BY <2>1, <2>2 DEF m
<1>4. <<list[n + 1]>> \in Seq(Tokens)
  BY <1>2
<1> DEFINE front == SubSeq(list, 1, n)
           more == <<list[n + 1]>>
<1>5. front \in Seq(Tokens) /\ more \in Seq(Tokens)
  BY <1>2, <1>4
<1> HIDE DEF front, more
<1>6. (past \o front) \o more = past \o (front \o more)
  BY <1>5, ConcatAssociative, SMTT(30)
<1> QED
  BY <1>3, <1>6 DEF front, more

\* A stream that settles leaves the tokens it reached, whether or not they were
\* still to be committed.
LEMMA FinishTalks ==
    ASSUME IInv, NEW s \in Streams, Holds(s), NEW n \in Nat, NEW token \in Drawables,
           NEW outcome, Finish(s, outcome, n, token),
           NEW q \in Sequences, streams[s].on = q, Live(q) => n <= Len(rows[q])
    PROVE  /\ \A p \in Sequences \ {q} : SameTalk(p)
           /\ Status(q)' = Status(q)
           /\ ~Live(q) => SameTalk(q)
           /\ Live(q) => /\ Transcript(q)' = Said(columns[q], rows[q], n, token)
                         /\ TurnOf(q)' = NoTurn
<1>1. IInv'
  BY FinishKeeps
<1> DEFINE past == Commit(q, n).columns
           written == Commit(q, n).rows
           reached == Commit(q, n).frontier
<1>2. /\ streams' = [streams EXCEPT ![s] = Unissued]
      /\ columns' = [columns EXCEPT ![q] = past] /\ rows' = [rows EXCEPT ![q] = written]
      /\ frontierRows' = [frontierRows EXCEPT ![q] = reached]
      /\ pendingToken' = [pendingToken EXCEPT ![q] = token] /\ context' = context
  BY DEF Finish, SettleCommit, Settle
<1>3. ASSUME Live(q)
      PROVE  past \o SubSeq(written, 1, reached) = columns[q] \o SubSeq(rows[q], 1, n)
  <2>1. columns[q] \in Seq(Tokens) /\ rows[q] \in Seq(Tokens) /\ Len(rows[q]) \in Nat
    BY Sizes DEF IInv
  <2>2. CASE rows[q] # <<>>
    <3> DEFINE taken == SubSeq(rows[q], 1, n)
               all == columns[q] \o taken
    <3>1. past = all /\ written = <<>> /\ reached = 0
      BY <1>3, <2>2 DEF Commit
    <3>2. n \in 0 .. Len(rows[q])
      BY <1>3, <2>1
    <3>3. taken \in Seq(Tokens)
      BY <2>1, <3>2, Front
    <3> HIDE DEF taken
    <3>4. all \in Seq(Tokens)
      BY <2>1, <3>3, Joined
    <3> HIDE DEF all, past, written, reached
    <3>5. past \o SubSeq(written, 1, reached) = all
      BY <3>1, <3>4, NoneAhead
    <3> QED
      BY <3>5 DEF all, taken
  <2>3. CASE rows[q] = <<>>
    BY <2>3 DEF Commit
  <2> QED
    BY <2>2, <2>3
<1> HIDE DEF past, written, reached
<1>4. /\ streams'[s] = Unissued /\ columns'[q] = past /\ rows'[q] = written
      /\ frontierRows'[q] = reached /\ pendingToken'[q] = token /\ Apart(s, q)
  BY <1>2 DEF IInv, Types, Apart
<1>5. streams'[s].stage \notin Running
  BY <1>4 DEF Unissued, Running
<1>6. /\ \A p \in Sequences \ {q} : SameTalk(p)
      /\ Status(q)' = Status(q)
      /\ ~Live(q) => SameTalk(q)
      /\ Live(q) => /\ Transcript(q)' = Said(past, written, reached, token)
                    /\ TurnOf(q)' = NoTurn
  BY <1>1, <1>4, <1>5, StepTalks
<1> QED
  BY <1>3, <1>6 DEF Said

\* What a conversation shows while nothing awaits a commit.
LEMMA TranscriptIs ==
    ASSUME IInv, NEW q \in Sequences, Live(q)
    PROVE  /\ Transcript(q) = Said(columns[q], rows[q], frontierRows[q], pendingToken[q])
           /\ frontierRows[q] = 0 => Transcript(q) = columns[q] \o Listed(pendingToken[q])
           /\ frontierRows[q] = 0 /\ pendingToken[q] = NoToken => Transcript(q) = columns[q]
           /\ frontierRows[q] = 0 /\ pendingToken[q] \in Tokens =>
                  Transcript(q) = Append(columns[q], pendingToken[q])
<1>1. /\ columns[q] \in Seq(Tokens) /\ rows[q] \in Seq(Tokens) /\ Len(rows[q]) \in Nat
      /\ frontierRows[q] \in Nat /\ pendingToken[q] \in Drawables
  BY Sizes DEF IInv, Types
<1>2. Transcript(q) = Said(columns[q], rows[q], frontierRows[q], pendingToken[q])
  BY DEF Transcript, Pending, Listed, Said
<1>3. frontierRows[q] = 0 => Transcript(q) = columns[q] \o Listed(pendingToken[q])
  BY <1>1, <1>2, NoneAhead DEF Said
<1>4. frontierRows[q] = 0 /\ pendingToken[q] = NoToken => Transcript(q) = columns[q]
  BY <1>1, <1>3, ConcatEmptySeq DEF Listed
<1>5. frontierRows[q] = 0 /\ pendingToken[q] \in Tokens =>
          Transcript(q) = Append(columns[q], pendingToken[q])
  BY <1>1, <1>3, AppendIsConcat, SequenceAssumption DEF Listed
<1> QED
  BY <1>2, <1>3, <1>4, <1>5

\* A stream that ends as it is ends its turn, if it had one.
LEMMA FinishAsIsTalks ==
    ASSUME IInv, NEW s \in Streams, Holds(s), NEW outcome, FinishAsIs(s, outcome)
    PROVE  [Talk!Next]_(Talk!vars)
<1>1. PICK q \in Sequences : streams[s].on = q
  BY ChainPlace DEF IInv, Holds
<1>2. /\ frontierRows[q] \in Nat /\ pendingToken[q] \in Drawables
      /\ Finish(s, outcome, frontierRows[q], pendingToken[q])
      /\ Live(q) => frontierRows[q] <= Len(rows[q])
  BY <1>1, FrontierWithin DEF IInv, Types, FinishAsIs
<1>3. /\ \A p \in Sequences \ {q} : SameTalk(p)
      /\ Status(q)' = Status(q)
      /\ ~Live(q) => SameTalk(q)
      /\ Live(q) => /\ Transcript(q)' =
                           Said(columns[q], rows[q], frontierRows[q], pendingToken[q])
                    /\ TurnOf(q)' = NoTurn
  BY <1>1, <1>2, FinishTalks
<1>4. CASE Live(q)
  BY <1>3, <1>4, TranscriptIs, TurnEnds
<1>5. CASE ~Live(q)
  BY <1>3, <1>5, NothingTalks
<1> QED
  BY <1>4, <1>5

\* A token that is drawn after all others and told with its place.
LEMMA DrawTalks ==
    ASSUME IInv, NEW s \in Streams, Holds(s), streams[s].stage \in Running,
           NEW q \in Sequences, streams[s].on = q, Live(q),
           \A p \in Sequences \ {q} : SameTalk(p), Status(q)' = Status(q),
           Remaining(s) > 0, Transcript(q) \in Seq(Tokens),
           NEW t \in Tokens, t \in Likely(Transcript(q)),
           Transcript(q)' = Transcript(q) \o <<t>>,
           t \in Stops => TurnOf(q)' = NoTurn,
           t \notin Stops =>
               TurnOf(q)' = [stream |-> s, limit |-> streams[s].limit,
                             drawn |-> streams[s].drawn + 1,
                             told |-> [position |-> Len(Transcript(q)), id |-> t]]
    PROVE  [Talk!Next]_(Talk!vars)
<1>1. TurnOf(q) = Record(s) /\ TurnOf(q) # NoTurn /\ Status(q) = "live"
  BY TurnHeld
<1>2. TurnOf(q).drawn < TurnOf(q).limit
  <2>1. streams[s].drawn \in Nat /\ streams[s].limit \in Nat
    BY DEF IInv, Types, Generations
  <2> QED
    BY <1>1, <2>1 DEF Record, Remaining
<1>3. Transcript(q)' = Append(Transcript(q), t)
  <2> DEFINE list == Transcript(q)
  <2>1. list \in Seq(Tokens)
    OBVIOUS
  <2> HIDE DEF list
  <2>2. Append(list, t) = list \o <<t>>
    BY <2>1, AppendIsConcat
  <2> QED
    BY <2>2 DEF list
<1>4. TurnOf(q)' = IF t \in Stops THEN NoTurn
                   ELSE [stream |-> TurnOf(q).stream, limit |-> TurnOf(q).limit,
                         drawn |-> TurnOf(q).drawn + 1,
                         told |-> [position |-> Len(Transcript(q)), id |-> t]]
  <2>1. /\ TurnOf(q).stream = s /\ TurnOf(q).limit = streams[s].limit
        /\ TurnOf(q).drawn = streams[s].drawn
    BY <1>1 DEF Record
  <2> QED
    BY <2>1
<1> QED
  BY <1>1, <1>2, <1>3, <1>4, TurnDraws

\* A step that changes nothing a conversation shows of itself or of its speakers.
LEMMA QuietTalks ==
    ASSUME IInv, IInv', NEW s \in Streams,
           \/ Generate(s) \/ CloseUnstarted(s) \/ Start(s) \/ Resume(s)
    PROVE  [Talk!Next]_(Talk!vars)
<1>1. /\ UNCHANGED <<context, held>> /\ streams[s] \in Generations
      /\ \A r \in Streams \ {s} : streams'[r] = streams[r]
      /\ \/ streams[s].stage \notin Running /\ streams'[s].stage \notin Running
         \/ /\ streams'[s].stage = streams[s].stage /\ streams'[s].on = streams[s].on
            /\ streams'[s].limit = streams[s].limit /\ streams'[s].drawn = streams[s].drawn
            /\ streams'[s].told = streams[s].told
  <2>1. streams \in [Streams -> Generations] /\ streams[s] \in Generations
    BY DEF IInv, Types
  <2>2. CASE Generate(s)
    BY <2>1, <2>2 DEF Generate, Unissued, Running
  <2>3. CASE CloseUnstarted(s)
    BY <2>1, <2>3 DEF CloseUnstarted, Unissued, Running
  <2>4. CASE Start(s)
    <3>1. streams' = [streams EXCEPT ![s] = [streams[s] EXCEPT !.stage = "queued"]]
      BY <2>4 DEF Start
    <3>2. streams'[s].stage = "queued"
      BY <2>1, <3>1 DEF Generations
    <3> QED
      BY <2>1, <2>4, <3>1, <3>2 DEF Start, Running
  <2>5. CASE Resume(s)
    <3>1. streams' = [streams EXCEPT ![s] = [streams[s] EXCEPT !.resting = FALSE]]
      BY <2>5 DEF Resume
    <3>2. streams'[s] = [streams[s] EXCEPT !.resting = FALSE]
      BY <2>1, <3>1
    <3> QED
      BY <2>1, <2>5, <3>1, <3>2 DEF Resume, Generations
  <2> QED
    BY <2>2, <2>3, <2>4, <2>5
<1>2. ASSUME NEW q \in Sequences PROVE SameTalk(q)
  <2>1. Status(q)' = Status(q) /\ Transcript(q)' = Transcript(q)
    BY <1>1 DEF Status, Transcript, Live, Pending, held
  <2>2. \A r \in Streams : /\ Speaks(r, q)' <=> Speaks(r, q)
                           /\ Speaks(r, q) => Record(r)' = Record(r)
    BY <1>1 DEF Speaks, Record
  <2> QED
    BY <2>1, <2>2, SpeakersStay
<1> QED
  BY <1>2, NothingTalks

\* Limits fit what the model may draw.
LEMMA AdmitTalks ==
    ASSUME IInv, IInv', NEW s \in Streams, Admit(s)
    PROVE  [Talk!Next]_(Talk!vars)
<1>1. Holds(s) /\ ~streams[s].resting /\ streams[s].stage = "queued"
  BY RunsHolds DEF Admit
<1>2. PICK q \in Sequences : streams[s].on = q
  BY DEF IInv, Types, Generations
<1>3. PICK prompt \in Prompts, max \in Limits, mode \in Modes :
          LET ids == Pending(q) \o prompt
              limit == TokenLimit(max, Len(columns[q]), Len(ids))
          IN IF Live(q) /\ ids # <<>> /\ AssertBudget(Len(columns[q]), Len(ids), limit)
             THEN /\ streams' = [streams EXCEPT ![s] = [@ EXCEPT
                         !.stage = "prefill", !.mode = mode, !.prompt = ids, !.limit = limit]]
                  /\ UNCHANGED <<wiring, context, held, disposal, chain>>
             ELSE FinishAsIs(s, "failed")
  BY <1>2 DEF Admit
<1> DEFINE ids == Pending(q) \o prompt
           limit == TokenLimit(max, Len(columns[q]), Len(ids))
<1>4. CASE ~(Live(q) /\ ids # <<>> /\ AssertBudget(Len(columns[q]), Len(ids), limit))
  <2>1. FinishAsIs(s, "failed")
    BY <1>3, <1>4
  <2> QED
    BY <1>1, <2>1, FinishAsIsTalks
<1>5. CASE Live(q) /\ ids # <<>> /\ AssertBudget(Len(columns[q]), Len(ids), limit)
  <2>1. /\ streams' = [streams EXCEPT ![s] = [streams[s] EXCEPT
               !.stage = "prefill", !.mode = mode, !.prompt = ids, !.limit = limit]]
        /\ UNCHANGED <<wiring, context, held, disposal, chain>>
    BY <1>3, <1>5
  <2>2. Len(columns[q]) \in Nat /\ Len(ids) \in Nat
    <3>1. prompt \in Seq(Tokens) /\ columns[q] \in Seq(Tokens) /\ Len(columns[q]) \in Nat
      BY Sizes, SequenceAssumption DEF IInv
    <3>2. Pending(q) \in Seq(Tokens)
      <4>1. pendingToken[q] \in Drawables /\ <<>> \in Seq(Tokens)
        BY EmptySeq DEF IInv, Types
      <4> QED
        BY <4>1 DEF Pending, Drawables
    <3> QED
      BY <3>1, <3>2, ConcatProperties, LenProperties
  <2> HIDE DEF ids
  <2>3. limit \in Nat \ {0}
    BY <2>2, LimitIsSome
  <2>4. limit \in 1 .. Capacity + 1
    <3> HIDE DEF limit
    <3>1. Len(columns[q]) + Len(ids) + limit <= Most + 1
      BY <1>5, <2>2, <2>3, Budget
    <3> DEFINE c == Len(columns[q])
               l == Len(ids)
    <3> HIDE DEF c, l
    <3>2. c + l + limit <= Most + 1 /\ c \in Nat /\ l \in Nat
      BY <2>2, <3>1 DEF c, l
    <3> QED
      BY <2>3, <3>2, MostIsLeast, SequenceAssumption
  <2> HIDE DEF limit
  <2>5. /\ streams[s] \in Generations /\ streams[s].drawn = 0 /\ streams[s].told = NothingTold
        /\ frontierRows[q] \in Nat
    BY <1>1 DEF IInv, Types, Turn, Waiting, Running
  <2>6. streams'[s] = [streams[s] EXCEPT !.stage = "prefill", !.mode = mode, !.prompt = ids,
                                         !.limit = limit]
    BY <2>1, <2>5 DEF IInv, Types
  <2>7. /\ streams'[s].stage = "prefill" /\ streams'[s].on = q /\ streams'[s].limit = limit
        /\ streams'[s].drawn = 0 /\ streams'[s].told = NothingTold
    BY <1>2, <2>5, <2>6 DEF Generations
  <2>8. Apart(s, q)
    BY <2>1 DEF Apart, held, IInv, Types
  <2>9. columns' = columns /\ rows' = rows /\ frontierRows' = frontierRows
        /\ pendingToken' = pendingToken
    BY <2>1 DEF held
  <2>10. /\ \A p \in Sequences \ {q} : SameTalk(p)
         /\ Status(q)' = Status(q)
         /\ Transcript(q)' = Said(columns[q], rows[q], frontierRows[q], pendingToken[q])
         /\ TurnOf(q)' = Record(s)'
    BY <1>1, <1>2, <1>5, <2>7, <2>8, <2>9, StepTalks DEF Running
  <2>11. Status(q) = "live" /\ TurnOf(q) = NoTurn
    BY <1>1, <1>2, <1>5, TurnHeld DEF Running
  <2>12. Transcript(q)' = Transcript(q)
    BY <1>5, <2>10, TranscriptIs
  <2>13. Record(s)' = [stream |-> s, limit |-> limit, drawn |-> 0, told |-> NothingTold]
    BY <2>7 DEF Record
  <2> QED
    BY <2>4, <2>10, <2>11, <2>12, <2>13, TurnBegins
<1> QED
  BY <1>4, <1>5

\* A stream leaves its body between two steps.
LEMMA EndTalks ==
    ASSUME IInv, NEW s \in Streams, Interrupt(s) \/ Close(s) \/ ReachLimit(s)
    PROVE  [Talk!Next]_(Talk!vars)
<1>1. Holds(s)
  BY RunsHolds, RestsHolds DEF Interrupt, Interruptible, Close, ReachLimit
<1>2. \E outcome \in {"aborted", "failed", "closed", "limit"} : FinishAsIs(s, outcome)
  BY DEF Interrupt, Close, ReachLimit
<1> QED
  BY <1>1, <1>2, FinishAsIsTalks

\* What was broken answers nothing any more.
LEMMA GoneTalks ==
    ASSUME IInv, IInv', NEW q \in Sequences, context[q] \notin Unborn, ~Live(q)',
           context'[q] \notin Unborn
    PROVE  SameTalk(q) \/ Leaves(q)
<1>1. TurnsTaken /\ TurnsTaken'
  BY TurnsAreTaken, TurnsStayTaken
<1>2. Status(q)' = "gone" /\ Transcript(q)' = <<>> /\ TurnOf(q)' = NoTurn
  BY <1>1 DEF TurnsTaken, Status, Transcript, Unborn
<1>3. CASE Live(q)
  BY <1>2, <1>3 DEF Leaves, Status
<1>4. CASE ~Live(q)
  <2>1. Status(q) = "gone" /\ Transcript(q) = <<>> /\ TurnOf(q) = NoTurn
    BY <1>1, <1>4 DEF TurnsTaken, Status, Transcript, Unborn
  <2> QED
    BY <1>2, <2>1 DEF SameTalk
<1> QED
  BY <1>3, <1>4

\* A conversation nobody touched.
LEMMA UntouchedTalks ==
    ASSUME IInv, IInv', NEW q \in Sequences, context'[q] = context[q],
           columns'[q] = columns[q], rows'[q] = rows[q], pendingToken'[q] = pendingToken[q],
           frontierRows'[q] = frontierRows[q],
           \A r \in Streams : streams[r].on = q => streams'[r] = streams[r],
           \A r \in Streams : streams[r].on # q => ~Speaks(r, q)'
    PROVE  SameTalk(q)
<1>1. Status(q)' = Status(q) /\ Transcript(q)' = Transcript(q)
  BY DEF Status, Transcript, Live, Pending
<1>2. \A r \in Streams : /\ Speaks(r, q)' <=> Speaks(r, q)
                         /\ Speaks(r, q) => Record(r)' = Record(r)
  BY DEF Speaks, Record
<1> QED
  BY <1>1, <1>2, SpeakersStay

\* A failed run takes its conversation away.
LEMMA BreakRunTalks ==
    ASSUME IInv, IInv', NEW s \in Streams, BreakRun(s)
    PROVE  [Talk!Next]_(Talk!vars)
<1>1. PICK q \in Sequences : streams[s].on = q
  BY DEF IInv, Types, Generations
<1>2. /\ context' = [context EXCEPT ![q] = "broken"] /\ Live(q)
      /\ streams' = [streams EXCEPT ![s] = Unissued] /\ UNCHANGED held
  BY <1>1 DEF BreakRun, Settle
<1>3. context[q] = "live" /\ context'[q] = "broken"
      /\ \A p \in Sequences \ {q} : context'[p] = context[p]
  BY <1>2 DEF Live, IInv, Types
<1>4. SameTalk(q) \/ Leaves(q)
  BY <1>3, GoneTalks DEF Live, Unborn
<1>5. ASSUME NEW p \in Sequences \ {q} PROVE SameTalk(p)
  <2>1. streams'[s] = Unissued /\ \A r \in Streams \ {s} : streams'[r] = streams[r]
    BY <1>2 DEF IInv, Types
  <2>2. \A r \in Streams : streams[r].on = p => streams'[r] = streams[r]
    BY <1>1, <2>1
  <2>3. \A r \in Streams : streams[r].on # p => ~Speaks(r, p)'
    BY <2>1 DEF Speaks, Unissued, Running
  <2> QED
    BY <1>2, <1>3, <2>2, <2>3, UntouchedTalks DEF held
<1> QED
  BY <1>4, <1>5, SomeLeave

\* A chunk starts with the token that was told and not fed, if there is one.
LEMMA PrefillTalks ==
    ASSUME IInv, IInv', NEW s \in Streams, Prefill(s)
    PROVE  [Talk!Next]_(Talk!vars)
<1>1. Holds(s) /\ streams[s].stage = "prefill"
  BY RunsHolds DEF Prefill
<1>2. PICK q \in Sequences : streams[s].on = q
  BY DEF IInv, Types, Generations
<1> DEFINE prompt == streams[s].prompt
           n == Lesser(ChunkLength, Len(prompt))
           rest == SubSeq(prompt, n + 1, Len(prompt))
           chunk == SubSeq(prompt, 1, n)
           past == columns[q] \o chunk
           x == [streams[s] EXCEPT !.stage = IF rest = <<>> THEN "first" ELSE "prefill",
                     !.prompt = rest, !.hidden = Past(s) + n - 1, !.resting = TRUE]
<1>3. /\ Live(q) /\ rows[q] = <<>>
      /\ columns' = [columns EXCEPT ![q] = past]
      /\ pendingToken' = [pendingToken EXCEPT ![q] = NoToken]
      /\ streams' = [streams EXCEPT ![s] = x] \/ streams' = [streams EXCEPT ![s] = Unissued]
      /\ UNCHANGED <<context, rows, frontierRows>>
  BY <1>2 DEF Prefill, Settle
<1>4. /\ prompt \in Seq(Tokens) /\ Len(prompt) \in Nat \ {0} /\ streams[s] \in Generations
      /\ streams[s].drawn = 0 /\ pendingToken[q] \in {NoToken, prompt[1]}
      /\ columns[q] \in Seq(Tokens) /\ frontierRows[q] = 0
  <2>1. streams[s] \in Generations /\ prompt \in Seq(Tokens) /\ columns[q] \in Seq(Tokens)
    BY DEF IInv, Types, Generations
  <2>2. /\ streams[s].drawn = 0 /\ prompt # <<>> /\ pendingToken[q] \in {NoToken, prompt[1]}
    BY <1>1, <1>2 DEF IInv, Turn, Prefilling
  <2>3. Len(prompt) \in Nat \ {0}
    BY <2>1, <2>2, EmptySeq
  <2> QED
    BY <1>1, <1>2, <1>3, <2>1, <2>2, <2>3, Undelivered
<1>5. n \in 1 .. Len(prompt) /\ n \in 1 .. ChunkLength
  BY <1>4, SequenceAssumption DEF Lesser
<1>6. chunk \in Seq(Tokens) /\ Len(chunk) = n
  <2> HIDE DEF n, prompt
  <2> QED
    BY <1>4, <1>5, Front
<1>7. past \in Seq(Tokens)
  <2> HIDE DEF chunk
  <2> QED
    BY <1>4, <1>6, ConcatProperties
<1>8. streams'[s] = x \/ streams'[s] = Unissued
  BY <1>3 DEF IInv, Types
<1> HIDE DEF past, rest
<1>9. /\ columns'[q] = past /\ rows'[q] = rows[q] /\ pendingToken'[q] = NoToken
      /\ frontierRows'[q] = 0 /\ Apart(s, q)
  BY <1>3, <1>4 DEF Apart, IInv, Types
<1>10. \/ /\ streams'[s].stage \in Running /\ streams'[s].on = q /\ Record(s)' = Record(s)
       \/ streams'[s].stage \notin Running
  <2>1. CASE streams'[s] = x
    <3> DEFINE h == Past(s) + n - 1
               e == IF rest = <<>> THEN "first" ELSE "prefill"
    <3>1. x = [streams[s] EXCEPT !.stage = e, !.prompt = rest, !.hidden = h, !.resting = TRUE]
          /\ e \in Running
      BY DEF Running
    <3> HIDE DEF h, e, x
    <3>2. /\ x.stage = e /\ x.on = q /\ x.limit = streams[s].limit
          /\ x.drawn = streams[s].drawn /\ x.told = streams[s].told
      BY <1>2, <1>4, <3>1 DEF Generations
    <3> QED
      BY <2>1, <3>1, <3>2 DEF Record
  <2>2. CASE streams'[s] = Unissued
    BY <2>2 DEF Unissued, Running
  <2> QED
    BY <1>8, <2>1, <2>2
<1> HIDE DEF x
<1>11. /\ \A p \in Sequences \ {q} : SameTalk(p)
       /\ Status(q)' = Status(q)
       /\ Transcript(q)' = Said(past, rows[q], 0, NoToken)
       /\ \/ TurnOf(q)' = Record(s)' /\ Record(s)' = Record(s)
          \/ TurnOf(q)' = NoTurn
  BY <1>1, <1>2, <1>3, <1>9, <1>10, StepTalks
<1>12. /\ Status(q) = "live" /\ TurnOf(q) = Record(s) /\ TurnOf(q) # NoTurn
  BY <1>1, <1>2, <1>3, TurnHeld DEF Running
<1>13. TurnOf(q).drawn = 0 /\ TurnOf(q)' \in {TurnOf(q), NoTurn}
  BY <1>4, <1>11, <1>12 DEF Record
<1>14. Transcript(q)' = past
  BY <1>7, <1>11, NoneAhead DEF Said, Listed
<1>15. CASE pendingToken[q] = NoToken
  <2>1. Transcript(q) = columns[q]
    BY <1>3, <1>4, <1>15, TranscriptIs
  <2>2. Transcript(q)' = Transcript(q) \o chunk /\ Len(chunk) \in 1 .. ChunkLength
    BY <1>5, <1>6, <1>14, <2>1 DEF past
  <2> HIDE DEF chunk
  <2> QED
    BY <1>6, <1>11, <1>12, <1>13, <2>2, TurnFeeds
<1>16. CASE pendingToken[q] # NoToken
  <2> DEFINE tail == SubSeq(prompt, 2, n)
             told == <<prompt[1]>>
  <2>1. /\ pendingToken[q] = prompt[1] /\ prompt[1] \in Tokens /\ told \in Seq(Tokens)
    <3>1. 1 \in 1 .. Len(prompt)
      BY <1>4
    <3>2. prompt[1] \in Tokens
      BY <1>4, <3>1, ElementOfSeq
    <3> QED
      BY <1>4, <1>16, <3>2
  <2>2. Transcript(q) = columns[q] \o told
    BY <1>3, <1>4, <1>16, <2>1, TranscriptIs DEF Listed
  <2>3. /\ tail \in Seq(Tokens) /\ Len(tail) = n - 1
        /\ chunk = told \o tail
    <3>1. n \in Nat \ {0} /\ 1 \in 1 .. Len(prompt) /\ n \in 1 .. Len(prompt)
      BY <1>4, <1>5
    <3> HIDE DEF n, prompt
    <3>2. \A i \in 2 .. n : prompt[i] \in Tokens
      BY <1>4, <3>1, ElementOfSeq
    <3>3. tail \in Seq(Tokens) /\ Len(tail) = IF 2 <= n THEN n - 2 + 1 ELSE 0
      BY <3>1, <3>2, SubSeqProperties
    <3>4. chunk = told \o tail
      BY <1>4, <3>1, SubSeqRecursiveFirst
    <3> HIDE DEF tail
    <3> QED
      BY <3>1, <3>3, <3>4
  <2> HIDE DEF tail, told, chunk, n, prompt
  <2>4. Transcript(q)' = Transcript(q) \o tail
    <3> DEFINE fed == columns[q]
    <3>1. fed \in Seq(Tokens)
      BY <1>4
    <3> HIDE DEF fed
    <3>2. (fed \o told) \o tail = fed \o (told \o tail)
      BY <2>1, <2>3, <3>1, ConcatAssociative, SMTT(30)
    <3> QED
      BY <1>14, <2>2, <2>3, <3>2 DEF past, fed
  <2>5. CASE n = 1
    <3>1. tail = <<>>
      BY <2>3, <2>5, EmptySeq
    <3>2. Transcript(q) \in Seq(Tokens)
      BY <1>4, <2>1, <2>2, ConcatProperties
    <3>3. Transcript(q)' = Transcript(q)
      BY <2>4, <3>1, <3>2, ConcatEmptySeq
    <3>4. CASE TurnOf(q)' = TurnOf(q)
      BY <1>11, <3>3, <3>4, NothingTalks DEF SameTalk
    <3>5. CASE TurnOf(q)' = NoTurn
      BY <1>11, <3>3, <3>5, TurnEnds
    <3> QED
      BY <1>13, <3>4, <3>5
  <2>6. CASE n # 1
    <3>1. Len(tail) \in 1 .. ChunkLength
      BY <1>5, <2>3, <2>6, SequenceAssumption
    <3> QED
      BY <1>11, <1>12, <1>13, <2>3, <2>4, <3>1, TurnFeeds
  <2> QED
    BY <2>5, <2>6
<1> QED
  BY <1>15, <1>16

\* A draw on the host, after rows that were all written.
LEMMA TellTalks ==
    ASSUME IInv, IInv', NEW s \in Streams, Holds(s), streams[s].stage \in Running,
           NEW q \in Sequences, streams[s].on = q, Live(q), frontierRows[q] = 0,
           Remaining(s) > 0, NEW past \in Seq(Tokens), Transcript(q) = past,
           NEW t \in Draws(past), Tell(s, past, t)
    PROVE  [Talk!Next]_(Talk!vars)
<1> DEFINE place == [position |-> Len(past), id |-> t]
<1>1. /\ columns' = [columns EXCEPT ![q] = past]
      /\ pendingToken' = [pendingToken EXCEPT ![q] = t]
      /\ IF t \in Stops THEN streams' = [streams EXCEPT ![s] = Unissued]
         ELSE streams' = [streams EXCEPT ![s] = [streams[s] EXCEPT
                  !.stage = "decode", !.drawn = streams[s].drawn + 1, !.resting = TRUE,
                  !.told = place]]
      /\ UNCHANGED <<context, rows, frontierRows>>
  BY DEF Tell, Settle
<1>2. t \in Tokens /\ t \in Likely(past) /\ streams[s] \in Generations /\ t # NoToken
  BY SequenceAssumption DEF Draws, IInv, Types
<1>3. /\ columns'[q] = past /\ rows'[q] = rows[q] /\ frontierRows'[q] = 0
      /\ pendingToken'[q] = t /\ Apart(s, q)
  BY <1>1 DEF Apart, IInv, Types
<1>4. t \in Stops => streams'[s].stage \notin Running
  BY <1>1 DEF IInv, Types, Unissued, Running
<1>5. t \notin Stops =>
          /\ streams'[s].stage \in Running /\ streams'[s].on = q
          /\ Record(s)' = [stream |-> s, limit |-> streams[s].limit,
                           drawn |-> streams[s].drawn + 1, told |-> place]
  <2> DEFINE d == streams[s].drawn + 1
  <2>1. t \notin Stops =>
            streams'[s] = [streams[s] EXCEPT !.stage = "decode", !.drawn = d,
                                             !.resting = TRUE, !.told = place]
    BY <1>1 DEF IInv, Types
  <2> HIDE DEF d, place
  <2>2. t \notin Stops =>
            /\ streams'[s].stage = "decode" /\ streams'[s].on = q
            /\ streams'[s].limit = streams[s].limit /\ streams'[s].drawn = d
            /\ streams'[s].told = place
    BY <1>2, <2>1 DEF Generations
  <2> QED
    BY <2>2 DEF Record, Running, d
<1> HIDE DEF place
<1>6. /\ \A p \in Sequences \ {q} : SameTalk(p)
      /\ Status(q)' = Status(q)
      /\ Transcript(q)' = Said(past, rows[q], 0, t)
      /\ t \in Stops => TurnOf(q)' = NoTurn
      /\ t \notin Stops => TurnOf(q)' = Record(s)'
  BY <1>3, <1>4, <1>5, StepTalks
<1>7. Transcript(q)' = past \o <<t>>
  BY <1>2, <1>6, NoneAhead DEF Said, Listed
<1>8. t \notin Stops =>
          TurnOf(q)' = [stream |-> s, limit |-> streams[s].limit,
                        drawn |-> streams[s].drawn + 1,
                        told |-> [position |-> Len(Transcript(q)), id |-> t]]
  BY <1>5, <1>6 DEF place
<1> QED
  BY <1>2, <1>6, <1>7, <1>8, DrawTalks

\* The first token follows the prompt.
LEMMA FirstTokenTalks ==
    ASSUME IInv, IInv', NEW s \in Streams, FirstToken(s)
    PROVE  [Talk!Next]_(Talk!vars)
<1>1. Holds(s) /\ streams[s].stage = "first"
  BY RunsHolds DEF FirstToken
<1>2. PICK q \in Sequences : streams[s].on = q
  BY DEF IInv, Types, Generations
<1>3. PICK t \in Draws(columns[q]) : Tell(s, columns[q], t)
  BY <1>2 DEF FirstToken
<1>4. Live(q) /\ frontierRows[q] = 0 /\ columns[q] \in Seq(Tokens)
  BY <1>1, <1>2, Undelivered, Sizes DEF FirstToken, IInv
<1>5. pendingToken[q] = NoToken /\ Remaining(s) > 0
  <2>1. /\ pendingToken[q] = NoToken
        /\ streams[s].drawn = 0 /\ streams[s].limit >= 1
    BY <1>1, <1>2 DEF IInv, Turn, Prefilling
  <2>2. streams[s].limit \in Nat
    BY DEF IInv, Types, Generations
  <2> QED
    BY <2>1, <2>2 DEF Remaining
<1>6. Transcript(q) = columns[q]
  BY <1>4, <1>5, TranscriptIs
<1> QED
  BY <1>1, <1>2, <1>3, <1>4, <1>5, <1>6, TellTalks DEF Running

\* One row of the pending token, and the draw after it.
LEMMA PlainStepTalks ==
    ASSUME IInv, IInv', NEW s \in Streams, PlainStep(s)
    PROVE  [Talk!Next]_(Talk!vars)
<1>1. PICK q \in Sequences : streams[s].on = q
  BY DEF IInv, Types, Generations
<1> DEFINE past == Append(columns[q], pendingToken[q])
<1>2. /\ Runs(s, "decode") /\ Remaining(s) > 0 /\ Live(q)
      /\ \/ \E t \in Draws(past) : Tell(s, past, t)
         \/ /\ columns' = [columns EXCEPT ![q] = past]
            /\ pendingToken' = [pendingToken EXCEPT ![q] = NoToken]
            /\ Settle(s, "failed")
            /\ UNCHANGED <<wiring, context, rows, frontierRows, disposal>>
  BY <1>1 DEF PlainStep
<1>3. /\ Holds(s) /\ columns[q] \in Seq(Tokens) /\ pendingToken[q] \in Tokens
      /\ frontierRows[q] = 0 /\ streams[s].stage \in Running
  BY <1>1, <1>2, Decodes DEF Runs, Running
<1>4. past \in Seq(Tokens) /\ Transcript(q) = past
  BY <1>2, <1>3, AppendProperties, TranscriptIs
<1> HIDE DEF past
<1>5. CASE \E t \in Draws(past) : Tell(s, past, t)
  <2>1. PICK t \in Draws(past) : Tell(s, past, t)
    BY <1>5
  <2> QED
    BY <1>1, <1>2, <1>3, <1>4, <2>1, TellTalks
<1>6. CASE /\ columns' = [columns EXCEPT ![q] = past]
           /\ pendingToken' = [pendingToken EXCEPT ![q] = NoToken]
           /\ Settle(s, "failed")
           /\ UNCHANGED <<wiring, context, rows, frontierRows, disposal>>
  <2>1. /\ columns'[q] = past /\ rows'[q] = rows[q] /\ frontierRows'[q] = 0
        /\ pendingToken'[q] = NoToken /\ streams'[s] = Unissued /\ Apart(s, q)
    BY <1>1, <1>3, <1>6 DEF Settle, Apart, IInv, Types
  <2>2. streams'[s].stage \notin Running
    BY <2>1 DEF Unissued, Running
  <2>3. /\ \A p \in Sequences \ {q} : SameTalk(p)
        /\ Status(q)' = Status(q)
        /\ Transcript(q)' = Said(past, rows[q], 0, NoToken)
        /\ TurnOf(q)' = NoTurn
    BY <1>1, <1>2, <1>3, <2>1, <2>2, StepTalks
  <2>4. Transcript(q)' = Transcript(q)
    BY <1>4, <2>3, NoneAhead DEF Said, Listed
  <2> QED
    BY <2>3, <2>4, TurnEnds
<1> QED
  BY <1>2, <1>5, <1>6

\* Rows that are written and not committed are not of the conversation yet.
LEMMA ConfirmTalks ==
    ASSUME IInv, IInv', NEW s \in Streams, Runs(s, "decode"), Remaining(s) > 0,
           NEW q \in Sequences, streams[s].on = q, Live(q),
           NEW written, NEW confirmed, NEW row, Confirm(s, written, confirmed, row)
    PROVE  [Talk!Next]_(Talk!vars)
<1> DEFINE h == Past(s) + row
<1>1. /\ rows' = [rows EXCEPT ![q] = written]
      /\ frontierRows' = [frontierRows EXCEPT ![q] = 0]
      /\ streams' = [streams EXCEPT ![s] = [streams[s] EXCEPT !.stage = "deliver",
                                            !.confirmed = confirmed, !.index = 0, !.hidden = h]]
      /\ UNCHANGED <<context, columns, pendingToken>>
  BY DEF Confirm
<1> HIDE DEF h
<1>2. /\ Holds(s) /\ streams[s] \in Generations /\ frontierRows[q] = 0
      /\ columns[q] \in Seq(Tokens) /\ streams[s].stage = "decode"
  BY Decodes DEF Runs
<1>3. /\ streams'[s].stage = "deliver" /\ streams'[s].on = q /\ Record(s)' = Record(s)
  <2>1. streams'[s] = [streams[s] EXCEPT !.stage = "deliver",
                           !.confirmed = confirmed, !.index = 0, !.hidden = h]
    BY <1>1 DEF IInv, Types
  <2>2. /\ streams'[s].stage = "deliver" /\ streams'[s].on = q
        /\ streams'[s].limit = streams[s].limit /\ streams'[s].drawn = streams[s].drawn
        /\ streams'[s].told = streams[s].told
    BY <1>2, <2>1 DEF Generations
  <2> QED
    BY <2>2 DEF Record
<1>4. /\ columns'[q] = columns[q] /\ rows'[q] = written /\ frontierRows'[q] = 0
      /\ pendingToken'[q] = pendingToken[q] /\ Apart(s, q)
  BY <1>1 DEF Apart, IInv, Types
<1>5. /\ \A p \in Sequences \ {q} : SameTalk(p)
      /\ Status(q)' = Status(q)
      /\ Transcript(q)' = Said(columns[q], written, 0, pendingToken[q])
      /\ TurnOf(q)' = Record(s)'
  BY <1>2, <1>3, <1>4, StepTalks DEF Running
<1>6. TurnOf(q) = Record(s)
  BY <1>2, TurnHeld DEF Running
<1>7. Transcript(q)' = columns[q] \o Listed(pendingToken[q])
  <2>1. columns[q] \o SubSeq(written, 1, 0) = columns[q]
    BY <1>2, NoneAhead
  <2> QED
    BY <1>5, <2>1, Zenon DEF Said
<1>8. SameTalk(q)
  BY <1>2, <1>3, <1>5, <1>6, <1>7, TranscriptIs DEF SameTalk
<1> QED
  BY <1>5, <1>8, NothingTalks

\* A cycle of verify, or a batch, shows nothing before its tokens are handed out.
LEMMA CycleTalks ==
    ASSUME IInv, IInv', NEW s \in Streams, VerifyCycle(s) \/ AheadBatch(s)
    PROVE  [Talk!Next]_(Talk!vars)
<1>1. PICK q \in Sequences : streams[s].on = q
  BY DEF IInv, Types, Generations
<1>2. Runs(s, "decode") /\ Remaining(s) > 0 /\ Live(q)
  BY <1>1 DEF VerifyCycle, AheadBatch
<1>3. \E written, confirmed, row : Confirm(s, written, confirmed, row)
  BY DEF VerifyCycle, AheadBatch
<1>4. PICK written, confirmed, row : Confirm(s, written, confirmed, row)
  BY <1>3
<1> QED
  BY <1>1, <1>2, <1>4, ConfirmTalks

\* The token that waits to be fed while tokens are handed out is that of the
\* next row: what is shown is the conversation up to and with that row.
LEMMA ReachedRow ==
    ASSUME IInv, NEW s \in Streams, Runs(s, "deliver"), NEW q \in Sequences, streams[s].on = q,
           Live(q), NEW i, i = streams[s].index, i < Len(streams[s].confirmed)
    PROVE  /\ i \in 0 .. Len(rows[q]) - 1
           /\ Transcript(q) = columns[q] \o SubSeq(rows[q], 1, i + 1)
           /\ Transcript(q) \in Seq(Tokens)
           /\ Len(Transcript(q)) = Len(columns[q]) + 1 + i
<1> DEFINE x == streams[s]
           n == Len(x.confirmed)
           m == Len(rows[q])
<1>1. /\ columns[q] \in Seq(Tokens) /\ Len(columns[q]) \in Nat
      /\ rows[q] \in Seq(Tokens) /\ m \in Nat /\ n \in 1 .. m /\ i \in 0 .. n
      /\ HandsOut(x, columns[q], rows[q], pendingToken[q], frontierRows[q])
  BY DeliverHas
<1>2. /\ frontierRows[q] = i
      /\ pendingToken[q] = IF i = 0 THEN rows[q][1] ELSE x.confirmed[i]
      /\ \A j \in 1 .. (n - 1) : rows[q][j + 1] = x.confirmed[j]
  BY <1>1 DEF HandsOut
<1>3. i < n
  OBVIOUS
<1> HIDE DEF n, m
<1>4. i \in 0 .. m - 1 /\ i \in Nat /\ i + 1 \in 1 .. m /\ i + 1 \in 0 .. m
      /\ (i # 0 => i \in 1 .. (n - 1)) /\ (i = 0 => i + 1 = 1)
  BY <1>1, <1>3
<1> HIDE DEF x
<1>5. pendingToken[q] = rows[q][i + 1]
  BY <1>2, <1>4
<1>6. rows[q][i + 1] \in Tokens
  <2>1. \A j \in 1 .. Len(rows[q]) : rows[q][j] \in Tokens
    BY <1>1, ElementOfSeq
  <2> QED
    BY <1>4, <2>1 DEF m
<1>7. Listed(pendingToken[q]) = <<rows[q][i + 1]>>
  BY <1>5, <1>6, SequenceAssumption DEF Listed
<1>8. Transcript(q) = columns[q] \o SubSeq(rows[q], 1, i) \o <<rows[q][i + 1]>>
  BY <1>2, <1>7, TranscriptIs DEF Said
<1>9. columns[q] \o SubSeq(rows[q], 1, i) \o <<rows[q][i + 1]>>
          = columns[q] \o SubSeq(rows[q], 1, i + 1)
  BY <1>1, <1>4, FrontGrows DEF m
<1> DEFINE front == SubSeq(rows[q], 1, i + 1)
<1>10. front \in Seq(Tokens) /\ Len(front) = i + 1
  BY <1>1, <1>4, Front DEF m
<1>11. Transcript(q) = columns[q] \o front
  BY <1>8, <1>9
<1> HIDE DEF front
<1>12. /\ columns[q] \o front \in Seq(Tokens)
       /\ Len(columns[q] \o front) = Len(columns[q]) + Len(front)
  BY <1>1, <1>10, Joined
<1>13. Len(Transcript(q)) = Len(columns[q]) + 1 + i
  <2>1. Len(Transcript(q)) = Len(columns[q]) + (i + 1)
    BY <1>10, <1>11, <1>12, Zenon
  <2> DEFINE l == Len(columns[q])
  <2>2. l \in Nat /\ i \in Nat
    BY <1>1, <1>4
  <2> HIDE DEF l
  <2>3. l + (i + 1) = l + 1 + i
    BY <2>2
  <2> QED
    BY <2>1, <2>3 DEF l
<1> QED
  BY <1>4, <1>11, <1>12, <1>13 DEF front, m

\* A token handed out was drawn after everything up to its row.
LEMMA DeliverTalks ==
    ASSUME IInv, IInv', NEW s \in Streams, Deliver(s)
    PROVE  [Talk!Next]_(Talk!vars)
<1>1. PICK q \in Sequences : streams[s].on = q
  BY DEF IInv, Types, Generations
<1> DEFINE x == streams[s]
           i == x.index
           t == x.confirmed[i + 1]
           past == columns[q] \o SubSeq(rows[q], 1, i + 1)
           place == [position |-> Len(columns[q]) + 1 + i, id |-> t]
<1>2. /\ Runs(s, "deliver") /\ i < Len(x.confirmed) /\ Live(q)
      /\ IF t \in Stops THEN Finish(s, "eos", i + 1, t)
         ELSE /\ pendingToken' = [pendingToken EXCEPT ![q] = t]
              /\ frontierRows' = [frontierRows EXCEPT ![q] = i + 1]
              /\ streams' = [streams EXCEPT ![s] = [streams[s] EXCEPT
                     !.index = i + 1, !.drawn = streams[s].drawn + 1, !.resting = TRUE,
                     !.told = place]]
              /\ UNCHANGED <<context, columns, rows>>
  BY <1>1 DEF Deliver
<1>3. /\ Holds(s) /\ x \in Generations /\ x.stage = "deliver"
      /\ columns[q] \in Seq(Tokens) /\ rows[q] \in Seq(Tokens) /\ Len(rows[q]) \in Nat
      /\ x.confirmed \in Seq(Tokens) /\ i \in Nat /\ Len(x.confirmed) \in 1 .. Len(rows[q])
      /\ HandsOut(x, columns[q], rows[q], pendingToken[q], frontierRows[q])
      /\ x.limit \in Nat /\ x.drawn \in Nat
  BY <1>1, <1>2, DeliverHas
<1>4. i + 1 \in 1 .. Len(x.confirmed) /\ i + 1 \in Nat /\ i + 1 <= Len(rows[q])
  <2> DEFINE n == Len(x.confirmed)
             m == Len(rows[q])
  <2>1. i \in Nat /\ m \in Nat /\ n \in 1 .. m /\ i < n
    BY <1>2, <1>3
  <2> HIDE DEF i, n, m
  <2>2. i + 1 \in 1 .. n /\ i + 1 \in Nat /\ i + 1 <= m
    BY <2>1
  <2> QED
    BY <2>2 DEF n, m
<1>5. t \in Tokens /\ t \in Likely(past)
  <2>1. t \in Tokens
    BY <1>3, <1>4, ElementOfSeq
  <2>2. \A j \in 1 .. Len(x.confirmed) :
            x.confirmed[j] \in Likely(columns[q] \o SubSeq(rows[q], 1, j))
    BY <1>3 DEF HandsOut
  <2> QED
    BY <1>4, <2>1, <2>2
<1>6. Remaining(s) > 0
  <2>1. Len(x.confirmed) - i <= x.limit - x.drawn
    BY <1>3 DEF HandsOut
  <2> QED
    <3> DEFINE n == Len(x.confirmed)
               room == x.limit - x.drawn
    <3>1. n \in Nat /\ i \in Nat /\ i < n /\ room \in Int /\ n - i <= room
      BY <1>2, <1>3, <2>1
    <3> HIDE DEF n, room, i
    <3>2. room > 0
      BY <3>1
    <3> QED
      BY <3>2 DEF room, Remaining
<1>7. /\ Transcript(q) = past /\ Transcript(q) \in Seq(Tokens)
      /\ Len(Transcript(q)) = Len(columns[q]) + 1 + i
  BY <1>1, <1>2, ReachedRow
<1>8. x.stage \in Running /\ Listed(t) = <<t>>
  BY <1>3, <1>5, SequenceAssumption DEF Running, Listed
<1>9. place = [position |-> Len(Transcript(q)), id |-> t]
  BY <1>7
<1> DEFINE r == i + 1
           d == x.drawn + 1
<1> HIDE DEF t, past, place, d
<1>10. CASE t \in Stops
  <2>1. Finish(s, "eos", i + 1, t) /\ t \in Drawables
    BY <1>2, <1>5, <1>10 DEF Drawables
  <2>2. /\ \A p \in Sequences \ {q} : SameTalk(p)
        /\ Status(q)' = Status(q)
        /\ Transcript(q)' = Said(columns[q], rows[q], i + 1, t)
        /\ TurnOf(q)' = NoTurn
    BY <1>1, <1>2, <1>3, <1>4, <2>1, FinishTalks
  <2>3. Transcript(q)' = Transcript(q) \o <<t>>
    BY <1>7, <1>8, <2>2 DEF Said, past
  <2> QED
    BY <1>1, <1>2, <1>3, <1>5, <1>6, <1>7, <1>8, <1>10, <2>2, <2>3, DrawTalks
<1>11. CASE t \notin Stops
  <2> HIDE DEF r, i
  <2>1. /\ pendingToken' = [pendingToken EXCEPT ![q] = t]
        /\ frontierRows' = [frontierRows EXCEPT ![q] = r]
        /\ streams' = [streams EXCEPT ![s] = [streams[s] EXCEPT
               !.index = r, !.drawn = d, !.resting = TRUE, !.told = place]]
        /\ UNCHANGED <<context, columns, rows>>
    BY <1>2, <1>11 DEF r, d
  <2>2. /\ columns'[q] = columns[q] /\ rows'[q] = rows[q] /\ frontierRows'[q] = r
        /\ pendingToken'[q] = t /\ Apart(s, q)
    BY <2>1 DEF Apart, IInv, Types
  <2>3. /\ streams'[s].stage = "deliver" /\ streams'[s].on = q
        /\ Record(s)' = [stream |-> s, limit |-> streams[s].limit, drawn |-> d, told |-> place]
    <3>1. streams'[s] = [streams[s] EXCEPT
               !.index = r, !.drawn = d, !.resting = TRUE, !.told = place]
      BY <2>1 DEF IInv, Types
    <3>2. /\ streams'[s].stage = "deliver" /\ streams'[s].on = q
          /\ streams'[s].limit = streams[s].limit /\ streams'[s].drawn = d
          /\ streams'[s].told = place
      BY <1>1, <1>3, <3>1 DEF Generations
    <3> QED
      BY <3>2 DEF Record
  <2>4. /\ \A p \in Sequences \ {q} : SameTalk(p)
        /\ Status(q)' = Status(q)
        /\ Transcript(q)' = Said(columns[q], rows[q], r, t)
        /\ TurnOf(q)' = Record(s)'
    BY <1>1, <1>2, <1>3, <2>2, <2>3, StepTalks DEF Running
  <2>5. Transcript(q)' = Transcript(q) \o <<t>>
    BY <1>7, <1>8, <2>4 DEF Said, past, r
  <2>6. TurnOf(q)' = [stream |-> s, limit |-> streams[s].limit,
                      drawn |-> streams[s].drawn + 1,
                      told |-> [position |-> Len(Transcript(q)), id |-> t]]
    BY <1>9, <2>3, <2>4 DEF d
  <2> QED
    BY <1>1, <1>2, <1>3, <1>5, <1>6, <1>7, <1>8, <1>11, <2>4, <2>5, <2>6, DrawTalks DEF past
<1> QED
  BY <1>10, <1>11

\* A refused value ends the turn where the last token told left it.
LEMMA RefuseTalks ==
    ASSUME IInv, NEW s \in Streams, RefuseSelected(s)
    PROVE  [Talk!Next]_(Talk!vars)
<1>1. PICK q \in Sequences : streams[s].on = q
  BY DEF IInv, Types, Generations
<1> DEFINE i == streams[s].index
<1>2. /\ Runs(s, "deliver") /\ i < Len(streams[s].confirmed)
      /\ Finish(s, "failed", i + 1, NoToken)
  BY DEF RefuseSelected
<1>3. /\ Holds(s) /\ Len(rows[q]) \in Nat /\ i \in Nat
      /\ Len(streams[s].confirmed) \in 1 .. Len(rows[q]) /\ columns[q] \in Seq(Tokens)
      /\ rows[q] \in Seq(Tokens)
  BY <1>1, <1>2, DeliverHas
<1>4. i + 1 \in Nat /\ i + 1 <= Len(rows[q]) /\ i + 1 \in 0 .. Len(rows[q])
      /\ NoToken \in Drawables
  BY <1>2, <1>3 DEF Drawables
<1>5. /\ \A p \in Sequences \ {q} : SameTalk(p)
      /\ Status(q)' = Status(q)
      /\ ~Live(q) => SameTalk(q)
      /\ Live(q) => /\ Transcript(q)' = Said(columns[q], rows[q], i + 1, NoToken)
                    /\ TurnOf(q)' = NoTurn
  BY <1>1, <1>2, <1>3, <1>4, FinishTalks
<1>6. CASE Live(q)
  <2> DEFINE past == columns[q] \o SubSeq(rows[q], 1, i + 1)
  <2>1. Transcript(q) = past /\ Transcript(q) \in Seq(Tokens)
    BY <1>1, <1>2, <1>6, ReachedRow
  <2>2. Transcript(q)' = past \o <<>>
    BY <1>5, <1>6 DEF Said, Listed
  <2> HIDE DEF past
  <2>3. past \in Seq(Tokens)
    BY <2>1
  <2>4. past \o <<>> = past
    BY <2>3, ConcatEmptySeq
  <2> QED
    BY <1>5, <1>6, <2>1, <2>2, <2>4, TurnEnds
<1>7. CASE ~Live(q)
  BY <1>5, <1>7, NothingTalks
<1> QED
  BY <1>6, <1>7

\* A commit moves rows to where they already counted.
LEMMA CloseCycleTalks ==
    ASSUME IInv, IInv', NEW s \in Streams, CloseCycle(s)
    PROVE  [Talk!Next]_(Talk!vars)
<1>1. PICK q \in Sequences : streams[s].on = q
  BY DEF IInv, Types, Generations
<1> DEFINE n == frontierRows[q]
           past == columns[q] \o SubSeq(rows[q], 1, n)
<1>2. /\ Runs(s, "deliver") /\ Live(q)
      /\ SettleCommit(q, n, pendingToken[q])
      /\ streams' = [streams EXCEPT ![s] = [streams[s] EXCEPT
             !.stage = "decode", !.confirmed = <<>>, !.index = 0]]
      /\ context' = context
  BY <1>1 DEF CloseCycle
<1>3. /\ Holds(s) /\ streams[s] \in Generations /\ streams[s].stage = "deliver"
      /\ columns[q] \in Seq(Tokens) /\ rows[q] \in Seq(Tokens) /\ Len(rows[q]) \in Nat \ {0}
      /\ n \in 0 .. Len(rows[q]) /\ rows[q] # <<>>
  <2>1. /\ Holds(s) /\ streams[s] \in Generations /\ streams[s].stage = "deliver"
        /\ columns[q] \in Seq(Tokens) /\ rows[q] \in Seq(Tokens) /\ Len(rows[q]) \in Nat
        /\ Len(streams[s].confirmed) \in 1 .. Len(rows[q])
        /\ streams[s].index \in 0 .. Len(streams[s].confirmed)
        /\ HandsOut(streams[s], columns[q], rows[q], pendingToken[q], frontierRows[q])
    BY <1>1, <1>2, DeliverHas
  <2>2. n = streams[s].index
    BY <2>1 DEF HandsOut
  <2>3. rows[q] # <<>> <=> Len(rows[q]) # 0
    BY Sizes DEF IInv
  <2> QED
    BY <2>1, <2>2, <2>3
<1>4. past \in Seq(Tokens)
  <2> DEFINE front == SubSeq(rows[q], 1, n)
  <2>1. front \in Seq(Tokens)
    BY <1>3, Front
  <2> HIDE DEF front
  <2>2. columns[q] \o front \in Seq(Tokens)
    BY <1>3, <2>1, Joined
  <2> QED
    BY <2>2 DEF front
<1>5. /\ columns' = [columns EXCEPT ![q] = past] /\ rows' = [rows EXCEPT ![q] = <<>>]
      /\ frontierRows' = [frontierRows EXCEPT ![q] = 0]
      /\ pendingToken' = [pendingToken EXCEPT ![q] = pendingToken[q]]
  BY <1>2, <1>3 DEF SettleCommit, Commit
<1>6. Transcript(q) = past \o Listed(pendingToken[q])
  BY <1>2, TranscriptIs DEF Said
<1> HIDE DEF past
<1>7. /\ columns'[q] = past /\ rows'[q] = <<>> /\ frontierRows'[q] = 0
      /\ pendingToken'[q] = pendingToken[q] /\ Apart(s, q)
  BY <1>2, <1>5 DEF Apart, IInv, Types
<1>8. /\ streams'[s].stage = "decode" /\ streams'[s].on = q /\ Record(s)' = Record(s)
  <2>1. streams'[s] = [streams[s] EXCEPT !.stage = "decode", !.confirmed = <<>>, !.index = 0]
    BY <1>2 DEF IInv, Types
  <2>2. /\ streams'[s].stage = "decode" /\ streams'[s].on = q
        /\ streams'[s].limit = streams[s].limit /\ streams'[s].drawn = streams[s].drawn
        /\ streams'[s].told = streams[s].told
    BY <1>1, <1>3, <2>1 DEF Generations
  <2> QED
    BY <2>2 DEF Record
<1>9. /\ \A p \in Sequences \ {q} : SameTalk(p)
      /\ Status(q)' = Status(q)
      /\ Transcript(q)' = Said(past, <<>>, 0, pendingToken[q])
      /\ TurnOf(q)' = Record(s)'
  BY <1>1, <1>2, <1>3, <1>7, <1>8, StepTalks DEF Running
<1>10. TurnOf(q) = Record(s)
  BY <1>1, <1>2, <1>3, TurnHeld DEF Running
<1>11. Transcript(q)' = past \o Listed(pendingToken[q])
  BY <1>4, <1>9, NoneAhead DEF Said
<1>12. SameTalk(q)
  BY <1>6, <1>8, <1>9, <1>10, <1>11 DEF SameTalk
<1> QED
  BY <1>9, <1>12, NothingTalks

\* Asking for a branch, a disposal: the conversations show nothing of it yet.
LEMMA AskTalks ==
    ASSUME IInv, IInv', NEW q \in Sequences,
           Dispose(q) \/ \E p \in Sequences : Fork(q, p)
    PROVE  [Talk!Next]_(Talk!vars)
<1>1. streams' = streams /\ UNCHANGED held
  BY DEF Dispose, Fork
<1>2. ASSUME NEW r \in Sequences PROVE Status(r)' = Status(r) /\ (Live(r)' <=> Live(r))
  <2>1. CASE Dispose(q)
    BY <2>1 DEF Dispose, Status, Live
  <2>2. ASSUME NEW p \in Sequences, Fork(q, p) PROVE Status(r)' = Status(r) /\ (Live(r)' <=> Live(r))
    <3>1. /\ context[p] = "absent" /\ context' = [context EXCEPT ![p] = "copying"]
          /\ context \in [Sequences -> Conditions]
      BY <2>2 DEF Fork, IInv, Types
    <3>2. context'[r] = IF r = p THEN "copying" ELSE context[r]
      BY <3>1
    <3> QED
      BY <3>1, <3>2 DEF Status, Live
  <2> QED
    BY <2>1, <2>2
<1>3. ASSUME NEW r \in Sequences PROVE SameTalk(r)
  <2>1. Transcript(r)' = Transcript(r)
    BY <1>1, <1>2 DEF Transcript, Pending, held
  <2>2. \A s \in Streams : /\ Speaks(s, r)' <=> Speaks(s, r)
                           /\ Speaks(s, r) => Record(s)' = Record(s)
    BY <1>1 DEF Speaks, Record
  <2> QED
    BY <1>2, <2>1, <2>2, SpeakersStay
<1> QED
  BY <1>3, NothingTalks

\* On a conversation whose chain does something else nobody has the turn.
LEMMA NobodyTalks ==
    ASSUME IInv, NEW q \in Sequences, \A s \in Streams : ~Speaks(s, q)
    PROVE  TurnOf(q) = NoTurn
BY TurnsAreTaken DEF TurnsTaken

\* A branch starts with what its origin shows between two turns.
LEMMA BranchStepTalks ==
    ASSUME IInv, IInv', NEW q \in Sequences, Branch(q)
    PROVE  [Talk!Next]_(Talk!vars)
<1>1. chain[q] # <<>> /\ Head(chain[q]).op = "fork"
  BY DEF Branch
<1> PICK p \in Sequences : p = Head(chain[q]).id
  BY <1>1, Served
<1>2. /\ p \in Sequences /\ Head(chain[q]) = Copying(p)
      /\ \A s \in Streams : Head(chain[q]) # Place(s)
  BY <1>1, Served
<1>3. context[p] = "copying"
  <2>1. chain[q] \in Seq(Operations) /\ Len(chain[q]) \in Nat
    BY Sizes DEF IInv
  <2>2. 1 \in 1 .. Len(chain[q]) /\ Head(chain[q]) = chain[q][1]
    BY <1>1, <2>1, EmptySeq
  <2> QED
    BY <1>2, <2>2 DEF IInv, Copies
<1>4. /\ UNCHANGED <<rows, frontierRows, streams>>
      /\ \/ /\ Live(q) /\ rows[q] = <<>>
            /\ context' = [context EXCEPT ![p] = "live"]
            /\ columns' = [columns EXCEPT ![p] = columns[q]]
            /\ pendingToken' = [pendingToken EXCEPT ![p] = pendingToken[q]]
         \/ /\ context' = [context EXCEPT ![p] = "absent"]
            /\ UNCHANGED <<columns, pendingToken>>
  BY DEF Branch
<1>5. \A s \in Streams : ~Speaks(s, q) /\ ~Speaks(s, p)
  <2>1. \A s \in Streams : ~Speaks(s, q)
    BY <1>2 DEF Speaks, IInv, Chains
  <2>2. \A s \in Streams : ~Speaks(s, p)
    BY <1>3 DEF Speaks, Running, IInv, Turn, Waiting, Unborn
  <2> QED
    BY <2>1, <2>2
<1>6. TurnOf(q) = NoTurn /\ TurnOf(p) = NoTurn
  BY <1>2, <1>5, NobodyTalks
<1>7. \A s \in Streams : ~Speaks(s, p)'
  BY <1>4, <1>5 DEF Speaks
<1>8. TurnOf(p)' = NoTurn
  BY <1>2, <1>7, TurnsStayTaken DEF TurnsTaken
<1>9. ASSUME NEW r \in Sequences \ {p} PROVE SameTalk(r)
  <2>1. /\ context'[r] = context[r] /\ columns'[r] = columns[r]
        /\ pendingToken'[r] = pendingToken[r]
    BY <1>4 DEF IInv, Types
  <2>2. Status(r)' = Status(r) /\ Transcript(r)' = Transcript(r)
    BY <1>4, <2>1 DEF Status, Transcript, Live, Pending
  <2>3. \A s \in Streams : /\ Speaks(s, r)' <=> Speaks(s, r)
                           /\ Speaks(s, r) => Record(s)' = Record(s)
    BY <1>4 DEF Speaks, Record
  <2> QED
    BY <2>2, <2>3, SpeakersStay
<1>10. CASE /\ Live(q) /\ rows[q] = <<>>
            /\ context' = [context EXCEPT ![p] = "live"]
            /\ columns' = [columns EXCEPT ![p] = columns[q]]
            /\ pendingToken' = [pendingToken EXCEPT ![p] = pendingToken[q]]
  <2>1. /\ context'[p] = "live" /\ columns'[p] = columns[q]
        /\ pendingToken'[p] = pendingToken[q]
    BY <1>2, <1>10 DEF IInv, Types
  <2>2. rows[p] = <<>> /\ frontierRows[p] = 0
    BY <1>2, <1>3 DEF IInv, Rows, Unborn
  <2>3. frontierRows[q] = 0
    <3>1. ~Delivers(q)
      BY <1>5 DEF Delivers, Speaks, Running
    <3> QED
      BY <1>10, <3>1 DEF IInv, Rows
  <2>4. Transcript(p)' = Said(columns[q], <<>>, 0, pendingToken[q])
    BY <1>4, <2>1, <2>2 DEF Transcript, Live, Pending, Said, Listed
  <2>5. Transcript(q) = Said(columns[q], <<>>, 0, pendingToken[q])
    BY <1>10, <2>3, TranscriptIs
  <2>6. Status(q) = "live" /\ Status(p) = "absent" /\ Status(p)' = "live"
    BY <1>3, <1>10, <2>1 DEF Status, Live
  <2> QED
    BY <1>2, <1>6, <1>8, <1>9, <2>4, <2>5, <2>6, BranchTalks
<1>11. CASE /\ context' = [context EXCEPT ![p] = "absent"]
            /\ UNCHANGED <<columns, pendingToken>>
  <2>1. context'[p] = "absent"
    BY <1>2, <1>11 DEF IInv, Types
  <2>2. /\ Status(p)' = "absent" /\ Status(p) = "absent"
        /\ Transcript(p)' = <<>> /\ Transcript(p) = <<>>
    BY <1>3, <2>1 DEF Status, Transcript, Live
  <2>3. SameTalk(p)
    BY <1>6, <1>8, <2>2 DEF SameTalk
  <2> QED
    BY <1>9, <2>3, NothingTalks
<1> QED
  BY <1>4, <1>10, <1>11

LEMMA CompleteDisposeTalks ==
    ASSUME IInv, IInv', NEW q \in Sequences, CompleteDispose(q)
    PROVE  [Talk!Next]_(Talk!vars)
<1>1. /\ chain[q] # <<>> /\ context' = [context EXCEPT ![q] = "disposed"]
      /\ UNCHANGED held /\ streams' = streams
  BY DEF CompleteDispose
<1>2. context'[q] = "disposed" /\ \A p \in Sequences \ {q} : context'[p] = context[p]
  BY <1>1 DEF IInv, Types
<1>3. context[q] \notin Unborn
  BY <1>1 DEF IInv, Copies
<1>4. SameTalk(q) \/ Leaves(q)
  BY <1>2, <1>3, GoneTalks DEF Live, Unborn
<1>5. ASSUME NEW p \in Sequences \ {q} PROVE SameTalk(p)
  <2>1. \A r \in Streams : streams[r].on # p => ~Speaks(r, p)'
    BY <1>1 DEF Speaks
  <2> QED
    BY <1>1, <1>2, <2>1, UntouchedTalks DEF held
<1> QED
  BY <1>4, <1>5, SomeLeave

\* With the device every conversation goes that there is.
LEMMA LoseDeviceTalks ==
    ASSUME IInv, IInv', LoseDevice
    PROVE  [Talk!Next]_(Talk!vars)
<1>1. /\ \A q \in Sequences : context'[q] = IF Live(q) THEN "broken" ELSE context[q]
      /\ UNCHANGED held /\ streams' = streams
  BY DEF LoseDevice
<1>2. ASSUME NEW q \in Sequences PROVE SameTalk(q) \/ Leaves(q)
  <2>1. CASE Live(q)
    <3>1. context[q] = "live" /\ context'[q] = "broken"
      BY <1>1, <2>1 DEF Live
    <3> QED
      BY <3>1, GoneTalks DEF Live, Unborn
  <2>2. CASE ~Live(q)
    <3>1. \A r \in Streams : streams[r].on # q => ~Speaks(r, q)'
      BY <1>1 DEF Speaks
    <3> QED
      BY <1>1, <2>2, <3>1, UntouchedTalks DEF held
  <2> QED
    BY <2>1, <2>2
<1> QED
  BY <1>2, SomeLeave

LEMMA StutterTalks ==
    ASSUME UNCHANGED vars
    PROVE  [Talk!Next]_(Talk!vars)
<1>1. /\ context' = context /\ columns' = columns /\ rows' = rows /\ streams' = streams
      /\ pendingToken' = pendingToken /\ frontierRows' = frontierRows
  BY DEF vars, held
<1>2. ASSUME NEW q \in Sequences PROVE SameTalk(q)
  BY <1>1 DEF SameTalk, Status, Transcript, TurnOf, InTurn, Live, Pending
<1> QED
  BY <1>2, NothingTalks

LEMMA InitTalks == Init => Talk!Init
<1> SUFFICES ASSUME Init PROVE Talk!Init
  OBVIOUS
<1>1. ASSUME NEW q \in Sequences
      PROVE  /\ Status(q) = IF q = Main THEN "live" ELSE "absent"
             /\ Transcript(q) = <<>>
             /\ TurnOf(q) = NoTurn
  <2>1. Status(q) = IF q = Main THEN "live" ELSE "absent"
    BY DEF Init, Status, Live
  <2>2. InTurn(q) = {}
    BY DEF Init, InTurn, Unissued
  <2>3. TurnOf(q) = NoTurn
    BY <2>2 DEF TurnOf
  <2>4. /\ columns[q] = <<>> /\ rows[q] = <<>> /\ frontierRows[q] = 0
        /\ Pending(q) = <<>>
    BY DEF Init, Pending
  <2>5. <<>> \in Seq(Tokens) /\ <<>> \o SubSeq(rows[q], 1, 0) \o <<>> = <<>>
    BY NoneAhead
  <2>6. Transcript(q) = <<>>
    BY <2>4, <2>5 DEF Transcript
  <2> QED
    BY <2>1, <2>3, <2>6
<1>2. /\ [q \in Sequences |-> Status(q)] =
             [q \in Sequences |-> IF q = Main THEN "live" ELSE "absent"]
      /\ [q \in Sequences |-> Transcript(q)] = [q \in Sequences |-> <<>>]
      /\ [q \in Sequences |-> TurnOf(q)] = [q \in Sequences |-> NoTurn]
  BY <1>1
<1> QED
  BY <1>2 DEF Talk!Init

LEMMA StepIsTalk == IInv /\ IInv' /\ [Next]_vars => [Talk!Next]_(Talk!vars)
<1> SUFFICES ASSUME IInv, IInv', [Next]_vars PROVE [Talk!Next]_(Talk!vars)
  OBVIOUS
<1>1. ASSUME NEW s \in Streams, Generate(s) \/ CloseUnstarted(s) \/ Start(s) \/ Resume(s)
      PROVE  [Talk!Next]_(Talk!vars)
  BY <1>1, QuietTalks
<1>2. ASSUME NEW s \in Streams, Interrupt(s) \/ Close(s) \/ ReachLimit(s)
      PROVE  [Talk!Next]_(Talk!vars)
  BY <1>2, EndTalks
<1>3. ASSUME NEW s \in Streams, Body(s) PROVE [Talk!Next]_(Talk!vars)
  <2>1. CASE Admit(s)
    BY <2>1, AdmitTalks
  <2>2. CASE BreakRun(s)
    BY <2>2, BreakRunTalks
  <2>3. CASE Prefill(s)
    BY <2>3, PrefillTalks
  <2>4. CASE FirstToken(s)
    BY <2>4, FirstTokenTalks
  <2>5. CASE PlainStep(s)
    BY <2>5, PlainStepTalks
  <2>6. CASE VerifyCycle(s) \/ AheadBatch(s)
    BY <2>6, CycleTalks
  <2>7. CASE Deliver(s)
    BY <2>7, DeliverTalks
  <2>8. CASE RefuseSelected(s)
    BY <2>8, RefuseTalks
  <2>9. CASE CloseCycle(s)
    BY <2>9, CloseCycleTalks
  <2> QED
    BY <1>2, <1>3, <2>1, <2>2, <2>3, <2>4, <2>5, <2>6, <2>7, <2>8, <2>9 DEF Body
<1>4. ASSUME NEW q \in Sequences, Dispose(q) \/ \E p \in Sequences : Fork(q, p)
      PROVE  [Talk!Next]_(Talk!vars)
  BY <1>4, AskTalks
<1>5. ASSUME NEW q \in Sequences, Branch(q) PROVE [Talk!Next]_(Talk!vars)
  BY <1>5, BranchStepTalks
<1>6. ASSUME NEW q \in Sequences, CompleteDispose(q) PROVE [Talk!Next]_(Talk!vars)
  BY <1>6, CompleteDisposeTalks
<1>7. CASE LoseDevice
  BY <1>7, LoseDeviceTalks
<1>8. CASE UNCHANGED vars
  BY <1>8, StutterTalks
<1> QED
  BY <1>1, <1>2, <1>3, <1>4, <1>5, <1>6, <1>7, <1>8 DEF Next, Consume

\* Whatever decoding a conversation is wired for, however many conversations,
\* streams, drafts and steps ahead there are, what its callers see of it is one
\* list of tokens that grows at its end, a turn at a time, each token drawn from
\* exactly the tokens before it and told with its place.
THEOREM TalksPlainly == Spec => ConversesPlainly
<1>1. Init => Talk!Init
  BY InitTalks
<1>2. IInv /\ IInv' /\ [Next]_vars => [Talk!Next]_(Talk!vars)
  BY StepIsTalk
<1>3. Spec => []IInv
  BY IInvHolds
<1> QED
  BY <1>1, <1>2, <1>3, PTL DEF Spec, ConversesPlainly, Talk!Spec
===============================================================================
