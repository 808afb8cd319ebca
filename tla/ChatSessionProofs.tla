--------------------------- MODULE ChatSessionProofs ---------------------------
(******************************************************************************)
(* Proofs about ChatSession, for any number of sessions and sequences, any    *)
(* Room, and an overflow policy that puts whatever it likes in front of what  *)
(* is asked: the KV a session continues from is that of its history, what the *)
(* session was sent is answered between turns, every open sequence has one    *)
(* holder, and the states the code calls inconsistent are not reached.        *)
(*                                                                            *)
(* All four follow from one inductive invariant, IInv.  What it says of one   *)
(* session is SessionInv; a step changes the state of one session, and of     *)
(* sequences the others neither hold nor read (Frame).                        *)
(******************************************************************************)
EXTENDS ChatSession, SequenceTheorems, FiniteSetTheorems, TLAPS

Stages == {"idle", "issued", "preparing", "creating", "prepared", "shrinking", "shrunk",
           "generating", "finishing", "closing"}
Pieces == Roles \cup {"part"}
Turns == [stage : Stages, pending : Seq(Roles), prompt : Seq(Roles), asked : Seq(Roles),
          attempts : Nat, on : Kvs \cup {NoKv}, ending : Endings \cup {"none"}]
KvStates == [state : {"none", "open", "disposing"}, fed : Seq(Pieces)]

Types ==
    /\ life \in [Sessions -> {"absent", "forking", "live"}]
    /\ turns \in [Sessions -> Seq(Roles)]
    /\ sequence \in [Sessions -> Kvs \cup {NoKv}]
    /\ committed \in [Sessions -> Nat]
    /\ busy \in [Sessions -> BOOLEAN]
    /\ disposal \in [Sessions -> BOOLEAN]
    /\ turn \in [Sessions -> Turns]
    /\ kv \in [Kvs -> KvStates]
    /\ given \in [Sessions -> Nat]

\* What a session that does not exist yet, or not any more, does not have.
Living(c) ==
    /\ life[c] # "live" => At(c, "idle") /\ sequence[c] = NoKv /\ ~disposal[c]
    /\ life[c] = "live" /\ sequence[c] = NoKv => committed[c] = 0
    /\ disposal[c] => sequence[c] = NoKv
    /\ busy[c] <=> ~At(c, "idle")

\* Between turns, and once a turn is closing, the history waits for nothing.
Settled(c) ==
    At(c, "idle") \/ At(c, "closing") =>
        /\ committed[c] \in {0, Len(turns[c])}
        /\ given[c] \in 0 .. Len(turns[c])
        /\ Replied(turns[c], given[c] + 1, Len(turns[c]))

\* Where what was asked starts in the history.
Base(c) == Len(turns[c]) - Len(turn[c].pending)

\* During a turn the history ends with what was asked, a message or the results
\* of a call, behind a settled history that the sequence holds whole or not at all.
\* A policy may replace that history, never what was asked.
Asking(c) ==
    ~At(c, "idle") /\ ~At(c, "closing") =>
        /\ Len(turn[c].pending) \in 1 .. Len(turns[c])
        /\ \A i \in 1 .. Len(turn[c].pending) : turns[c][Base(c) + i] = turn[c].pending[i]
        /\ committed[c] \in {0, Base(c)}
        /\ given[c] \in 0 .. Base(c) /\ Replied(turns[c], given[c] + 1, Base(c))
        /\ \/ /\ Len(turn[c].pending) = 1 /\ turn[c].pending[1] = "user"
              /\ committed[c] # 0 => turns[c][Base(c)] # "call"
           \/ \A i \in 1 .. Len(turn[c].pending) : turn[c].pending[i] = "tool"

\* A list ends with another, told by places.
Tails(list, tail) ==
    /\ Len(tail) <= Len(list)
    /\ \A j \in 1 .. Len(tail) : list[Len(list) - Len(tail) + j] = tail[j]

\* The attempts left cover the turns that could still be taken away, and what the
\* policy is to keep ends with what was asked.
Attempts(c) ==
    /\ At(c, "preparing") \/ At(c, "shrunk") => turn[c].attempts >= Len(turns[c])
    /\ At(c, "shrinking") =>
           turn[c].attempts + 1 >= Len(turns[c]) /\ Tails(turn[c].asked, turn[c].pending)

Held(c) == SubSeq(turns[c], 1, committed[c])

\* A sequence that is held is open, and holds the history up to the last turn
\* that was answered; once the stream ended well, the whole of it with the answer.
Feeding(c) ==
    sequence[c] # NoKv =>
        /\ kv[sequence[c]].state = "open"
        /\ ~At(c, "finishing") => kv[sequence[c]].fed = Held(c)
        /\ At(c, "finishing") /\ turn[c].ending \in {"assistant", "call"} =>
               kv[sequence[c]].fed = Append(turns[c], turn[c].ending)

\* The sequence a turn writes to is the one its session holds, until the session
\* is disposed; then it is no session's, and stays while the stream runs.
Writing(c) ==
    /\ At(c, "creating") => sequence[c] = NoKv
    /\ At(c, "prepared") \/ At(c, "generating") =>
           /\ turn[c].on \in Kvs
           /\ ~disposal[c] => sequence[c] = turn[c].on
           /\ disposal[c] => kv[turn[c].on].state # "open"
    /\ At(c, "generating") => kv[turn[c].on].state # "none"
    /\ (At(c, "creating") \/ At(c, "prepared") \/ At(c, "generating")) /\ ~disposal[c] =>
           turn[c].prompt = Prompt(c)
    /\ At(c, "finishing") =>
           /\ turn[c].ending \in Endings
           /\ turn[c].ending \in {"assistant", "call"} /\ ~disposal[c] => sequence[c] # NoKv

\* A fork finds at its source what it copied of the history.
Branching(c) ==
    life[c] = "forking" =>
        /\ turn[c].on \in Kvs
        /\ kv[turn[c].on].state # "none" /\ kv[turn[c].on].fed = Held(c)

SessionInv(c) ==
    /\ Living(c) /\ Settled(c) /\ Asking(c) /\ Attempts(c)
    /\ Feeding(c) /\ Writing(c) /\ Branching(c)

\* Every open sequence has a holder, no sequence has two, and one that is not
\* there holds nothing.
Owned ==
    /\ \A k \in Kvs : kv[k].state = "none" => kv[k].fed = <<>>
    /\ \A k \in Kvs : kv[k].state = "open" => \E c \in Sessions : sequence[c] = k
    /\ \A c, d \in Sessions : sequence[c] = sequence[d] /\ sequence[c] # NoKv => c = d

IInv == Types /\ (\A c \in Sessions : SessionInv(c)) /\ Owned

-------------------------------------------------------------------------------
(* Lists. *)

LEMMA PrefixOf ==
    ASSUME NEW S, NEW s \in Seq(S), NEW n \in 0 .. Len(s)
    PROVE  /\ SubSeq(s, 1, n) \in Seq(S)
           /\ Len(SubSeq(s, 1, n)) = n
           /\ \A i \in 1 .. n : SubSeq(s, 1, n)[i] = s[i]
<1>1. \A i \in 1 .. n : s[i] \in S
  BY LenProperties, ElementOfSeq
<1> QED
  BY <1>1, SubSeqProperties, LenProperties

LEMMA SuffixOf ==
    ASSUME NEW S, NEW s \in Seq(S), NEW n \in 1 .. Len(s) + 1
    PROVE  /\ From(s, n) \in Seq(S)
           /\ Len(From(s, n)) = Len(s) - n + 1
           /\ \A i \in 1 .. Len(s) - n + 1 : From(s, n)[i] = s[n + i - 1]
<1>1. \A i \in n .. Len(s) : s[i] \in S
  BY LenProperties, ElementOfSeq
<1>2. Len(s) \in Nat
  BY LenProperties
<1> QED
  BY <1>1, <1>2, SubSeqProperties DEF From

LEMMA PrefixOfConcat ==
    ASSUME NEW S, NEW s \in Seq(S), NEW t \in Seq(S), NEW n \in 0 .. Len(s)
    PROVE  SubSeq(s \o t, 1, n) = SubSeq(s, 1, n)
<1>1. s \o t \in Seq(S) /\ n \in 0 .. Len(s \o t)
  BY ConcatProperties, LenProperties
<1>2. \A i \in 1 .. n : SubSeq(s \o t, 1, n)[i] = SubSeq(s, 1, n)[i]
  <2> TAKE i \in 1 .. n
  <2>1. SubSeq(s \o t, 1, n)[i] = (s \o t)[i] /\ SubSeq(s, 1, n)[i] = s[i]
    BY <1>1, PrefixOf
  <2>2. (s \o t)[i] = s[i]
    BY ConcatProperties, LenProperties
  <2> QED
    BY <2>1, <2>2
<1>3. /\ SubSeq(s \o t, 1, n) \in Seq(S) /\ SubSeq(s, 1, n) \in Seq(S)
      /\ Len(SubSeq(s \o t, 1, n)) = n /\ Len(SubSeq(s, 1, n)) = n
  BY <1>1, PrefixOf
<1> QED
  BY <1>2, <1>3, SeqEqual

LEMMA PrefixOfPrefix ==
    ASSUME NEW S, NEW s \in Seq(S), NEW n \in 0 .. Len(s), NEW m \in 0 .. n
    PROVE  SubSeq(SubSeq(s, 1, n), 1, m) = SubSeq(s, 1, m)
<1>1. m \in 0 .. Len(s) /\ SubSeq(s, 1, n) \in Seq(S) /\ m \in 0 .. Len(SubSeq(s, 1, n))
  BY PrefixOf, LenProperties
<1>2. \A i \in 1 .. m : SubSeq(SubSeq(s, 1, n), 1, m)[i] = SubSeq(s, 1, m)[i]
  <2> TAKE i \in 1 .. m
  <2>1. SubSeq(SubSeq(s, 1, n), 1, m)[i] = SubSeq(s, 1, n)[i] /\ SubSeq(s, 1, m)[i] = s[i]
    BY <1>1, PrefixOf
  <2>2. i \in 1 .. n
    OBVIOUS
  <2> QED
    BY <2>1, <2>2, PrefixOf
<1>3. /\ SubSeq(SubSeq(s, 1, n), 1, m) \in Seq(S) /\ SubSeq(s, 1, m) \in Seq(S)
      /\ Len(SubSeq(SubSeq(s, 1, n), 1, m)) = m /\ Len(SubSeq(s, 1, m)) = m
  BY <1>1, PrefixOf
<1> QED
  BY <1>2, <1>3, SeqEqual

LEMMA PrefixAndRest ==
    ASSUME NEW S, NEW s \in Seq(S), NEW n \in 0 .. Len(s)
    PROVE  SubSeq(s, 1, n) \o From(s, n + 1) = s
<1>1. Len(s) \in Nat
  BY LenProperties
<1>2. 1 \in 1 .. Len(s) + 1 /\ n \in 1 - 1 .. Len(s) /\ Len(s) \in n .. Len(s)
  BY <1>1
<1>3. SubSeq(s, 1, n) \o SubSeq(s, n + 1, Len(s)) = SubSeq(s, 1, Len(s))
  BY <1>2, ConcatAdjacentSubSeq
<1> QED
  BY <1>3, SubSeqFull DEF From

LEMMA Remainder ==
    ASSUME NEW m \in Nat, NEW n \in 1 .. m
    PROVE  m - n \in 0 .. m
OBVIOUS

LEMMA Whole ==
    ASSUME NEW a \in Nat, NEW m \in 0 .. a
    PROVE  0 \in 0 .. m /\ m \in 0 .. m /\ (m # 0 => m \in 1 .. m)
OBVIOUS

\* From where its tail begins on, or from before it, a list ends with its tail.
LEMMA SuffixTails ==
    ASSUME NEW S, NEW s \in Seq(S), NEW p \in Seq(S), Len(p) \in 1 .. Len(s),
           \A j \in 1 .. Len(p) : s[Len(s) - Len(p) + j] = p[j],
           NEW i \in 1 .. Len(s) - Len(p) + 1
    PROVE  From(s, i) \in Seq(S) /\ Tails(From(s, i), p)
<1> DEFINE l == Len(s)
           n == Len(p)
           t == From(s, i)
<1>1. l \in Nat /\ n \in 1 .. l /\ i \in 1 .. l - n + 1
  BY LenProperties
<1> HIDE DEF l, n
<1>2. i \in 1 .. l + 1
  BY <1>1
<1>3. t \in Seq(S) /\ Len(t) = l - i + 1 /\ \A j \in 1 .. l - i + 1 : t[j] = s[i + j - 1]
  BY <1>2, SuffixOf DEF l
<1>4. n <= l - i + 1
  BY <1>1
<1> HIDE DEF t
<1>5. ASSUME NEW j \in 1 .. n PROVE t[Len(t) - n + j] = p[j]
  <2>1. /\ Len(t) - n + j \in 1 .. l - i + 1
        /\ i + (Len(t) - n + j) - 1 = l - n + j
    BY <1>1, <1>3, <1>4
  <2>2. s[l - n + j] = p[j]
    BY DEF l, n
  <2> QED
    BY <1>3, <2>1, <2>2
<1> QED
  BY <1>3, <1>4, <1>5 DEF t, n, Tails

\* Whatever is put in front of a list, it ends with the same tail.
LEMMA ConcatTails ==
    ASSUME NEW S, NEW s \in Seq(S), NEW front \in Seq(S), NEW p \in Seq(S), Tails(s, p)
    PROVE  front \o s \in Seq(S) /\ Tails(front \o s, p)
<1> DEFINE t == front \o s
           f == Len(front)
           l == Len(s)
           n == Len(p)
<1>1. /\ t \in Seq(S) /\ Len(t) = f + l /\ f \in Nat /\ l \in Nat /\ n \in Nat
      /\ \A i \in 1 .. f + l : t[i] = IF i <= f THEN front[i] ELSE s[i - f]
  BY ConcatProperties, LenProperties
<1>2. n <= l /\ \A j \in 1 .. n : s[l - n + j] = p[j]
  BY DEF Tails
<1> HIDE DEF t, f, l, n
<1>3. n <= Len(t)
  BY <1>1, <1>2
<1>4. ASSUME NEW j \in 1 .. n PROVE t[Len(t) - n + j] = p[j]
  <2> DEFINE i == Len(t) - n + j
  <2>1. i \in 1 .. f + l /\ ~(i <= f) /\ i - f = l - n + j
    BY <1>1, <1>2
  <2> HIDE DEF i
  <2>2. t[i] = s[l - n + j]
    BY <1>1, <2>1
  <2>3. s[l - n + j] = p[j]
    BY <1>2
  <2> QED
    BY <2>2, <2>3 DEF i
<1> QED
  BY <1>1, <1>3, <1>4 DEF t, n, Tails

\* A reply is told by the places up to the last one.
LEMMA RepliedSame ==
    ASSUME NEW s, NEW t, NEW n \in Nat, NEW g \in Nat, \A i \in 1 .. n : t[i] = s[i],
           Replied(s, g + 1, n)
    PROVE  Replied(t, g + 1, n)
<1> SUFFICES ASSUME NEW i \in (g + 1) .. n, t[i] \in {"user", "tool"}
             PROVE  i < n /\ t[i + 1] \in Replies(t[i])
  BY DEF Replied
<1>1. i \in 1 .. n /\ t[i] = s[i]
  OBVIOUS
<1>2. i < n /\ s[i + 1] \in Replies(s[i])
  BY <1>1 DEF Replied
<1>3. i + 1 \in 1 .. n
  BY <1>1, <1>2
<1> QED
  BY <1>1, <1>2, <1>3

\* Behind a list without open questions, one message or the results of a call, and
\* then the answer: no question is open.
LEMMA AnswerReplies ==
    ASSUME NEW t, NEW l \in Nat, NEW b \in Nat, b < l, NEW g \in 0 .. b,
           Replied(t, g + 1, b), t[l + 1] \in {"assistant", "call"},
           b + 1 = l \/ \A i \in (b + 1) .. l : t[i] = "tool"
    PROVE  Replied(t, g + 1, l + 1)
<1> SUFFICES ASSUME NEW i \in (g + 1) .. (l + 1), t[i] \in {"user", "tool"}
             PROVE  i < l + 1 /\ t[i + 1] \in Replies(t[i])
  BY DEF Replied
<1>1. i # l + 1
  OBVIOUS
<1>2. CASE i <= b
  <2>1. i \in (g + 1) .. b
    BY <1>2
  <2>2. i < b /\ t[i + 1] \in Replies(t[i])
    BY <2>1 DEF Replied
  <2> QED
    BY <2>2
<1>3. CASE i = l
  BY <1>3 DEF Replies
<1>4. CASE b < i /\ i < l
  <2>1. i \in (b + 1) .. l /\ i + 1 \in (b + 1) .. l /\ b + 1 # l
    BY <1>4
  <2>2. t[i] = "tool" /\ t[i + 1] = "tool"
    BY <2>1
  <2> QED
    BY <1>4, <2>2 DEF Replies
<1> QED
  BY <1>1, <1>2, <1>3, <1>4

\* The last element, told by its place.
LEMMA LastPlace ==
    ASSUME NEW S, NEW s \in Seq(S)
    PROVE  /\ Len(s) \in Nat
           /\ Last(s) = IF Len(s) = 0 THEN "none" ELSE s[Len(s)]
           /\ s = <<>> <=> Len(s) = 0
BY LenProperties, EmptySeq DEF Last

-------------------------------------------------------------------------------
(* The frame of a step. *)

\* What a session that takes no part keeps, if the sequences it knows keep what
\* it relies on.
LEMMA Frame ==
    ASSUME NEW d \in Sessions, SessionInv(d),
           life'[d] = life[d], turns'[d] = turns[d], sequence'[d] = sequence[d],
           committed'[d] = committed[d], busy'[d] = busy[d], disposal'[d] = disposal[d],
           turn'[d] = turn[d], given'[d] = given[d],
           sequence[d] # NoKv => kv'[sequence[d]] = kv[sequence[d]],
           At(d, "prepared") \/ At(d, "generating") =>
               (kv'[turn[d].on].state = "open" => kv[turn[d].on].state = "open"),
           At(d, "generating") => kv'[turn[d].on].state # "none",
           life[d] = "forking" =>
               kv'[turn[d].on].state # "none" /\ kv'[turn[d].on].fed = kv[turn[d].on].fed
    PROVE  SessionInv(d)'
<1> USE DEF SessionInv
<1>1. Living(d)' /\ Settled(d)' /\ Attempts(d)'
  BY DEF Living, Settled, Attempts, At
<1>5. Asking(d)'
  BY DEF Asking, Base, At
<1>2. Feeding(d)'
  BY DEF Feeding, At, Held
<1>3. Writing(d)'
  BY DEF Writing, At, Prompt
<1>4. Branching(d)'
  BY DEF Branching, Held
<1> QED
  BY <1>1, <1>2, <1>3, <1>4, <1>5

\* A step that leaves the history and what was asked leaves their relation.
LEMMA AskingSame ==
    ASSUME NEW c \in Sessions, Asking(c), ~At(c, "idle"), ~At(c, "closing"),
           turns'[c] = turns[c], committed'[c] = committed[c],
           given'[c] = given[c], turn'[c].pending = turn[c].pending
    PROVE  Asking(c)'
BY DEF Asking, Base

\* What a step leaves of a session that takes no part.
Kept(d) ==
    /\ life'[d] = life[d] /\ turns'[d] = turns[d] /\ sequence'[d] = sequence[d]
    /\ committed'[d] = committed[d] /\ busy'[d] = busy[d] /\ disposal'[d] = disposal[d]
    /\ turn'[d] = turn[d] /\ given'[d] = given[d]

\* No sequence changes.
LEMMA FrameSame ==
    ASSUME IInv, NEW d \in Sessions, Kept(d), kv' = kv
    PROVE  SessionInv(d)'
<1>1. SessionInv(d)
  BY DEF IInv
<1>2. /\ At(d, "generating") => kv'[turn[d].on].state # "none"
      /\ life[d] = "forking" => kv'[turn[d].on].state # "none"
  BY <1>1 DEF SessionInv, Writing, Branching
<1> QED
  BY <1>1, <1>2, Frame DEF Kept

\* A sequence no one knows comes to be.
LEMMA FrameFresh ==
    ASSUME IInv, NEW d \in Sessions, Kept(d), NEW k \in Kvs, Fresh(k),
           \A j \in Kvs \ {k} : kv'[j] = kv[j]
    PROVE  SessionInv(d)'
<1>1. SessionInv(d) /\ sequence[d] \in Kvs \cup {NoKv}
  BY DEF IInv, Types
<1>2. kv[k].state = "none" /\ turn[d].on # k
  BY DEF Fresh
<1>3. sequence[d] # NoKv => sequence[d] \in Kvs \ {k}
  BY <1>1, <1>2 DEF SessionInv, Feeding
<1>4. At(d, "prepared") \/ At(d, "generating") \/ life[d] = "forking" =>
        kv'[turn[d].on] = kv[turn[d].on]
  BY <1>1, <1>2 DEF SessionInv, Writing, Branching
<1>5. /\ At(d, "generating") => kv[turn[d].on].state # "none"
      /\ life[d] = "forking" => kv[turn[d].on].state # "none"
  BY <1>1 DEF SessionInv, Writing, Branching
<1> QED
  BY <1>1, <1>3, <1>4, <1>5, Frame DEF Kept

\* A session gives up the sequence it holds.
LEMMA FrameDisposing ==
    ASSUME IInv, NEW c \in Sessions, NEW d \in Sessions \ {c}, Kept(d),
           kv' = Disposing(sequence[c])
    PROVE  SessionInv(d)'
<1>1. SessionInv(d) /\ Types /\ Owned
  BY DEF IInv
<1>2. CASE sequence[c] = NoKv
  BY <1>2, FrameSame DEF Disposing
<1>3. CASE sequence[c] # NoKv
  <2> DEFINE k == sequence[c]
  <2>1. k \in Kvs /\ k # NoKv
    BY <1>1, <1>3 DEF Types
  <2>2. /\ \A j \in Kvs \ {k} : kv'[j] = kv[j]
        /\ kv'[k].state = "disposing" /\ kv'[k].fed = kv[k].fed
    BY <1>1, <2>1 DEF Disposing, Types, KvStates
  <2>3. sequence[d] # NoKv => sequence[d] \in Kvs \ {k}
    BY <1>1, <2>1 DEF Types, Owned
  <2>4. /\ At(d, "prepared") \/ At(d, "generating") \/ life[d] = "forking" => turn[d].on \in Kvs
        /\ At(d, "generating") => kv[turn[d].on].state # "none"
        /\ life[d] = "forking" => kv[turn[d].on].state # "none"
    BY <1>1 DEF SessionInv, Writing, Branching
  <2> HIDE DEF k
  <2> QED
    BY <1>1, <2>2, <2>3, <2>4, Frame DEF Kept
<1> QED
  BY <1>2, <1>3

\* A step that changes no sequence keeps who holds which.
LEMMA OwnedSame ==
    ASSUME IInv, kv' = kv, sequence' = sequence
    PROVE  Owned'
BY DEF IInv, Owned

\* A session gives up the sequence it holds.
LEMMA OwnedDisposing ==
    ASSUME IInv, NEW c \in Sessions, kv' = Disposing(sequence[c]),
           sequence' = [sequence EXCEPT ![c] = NoKv]
    PROVE  Owned'
<1>1. Types /\ Owned
  BY DEF IInv
<1>2. ASSUME NEW k \in Kvs, kv'[k].state = "open"
      PROVE  \E d \in Sessions : sequence'[d] = k
  <2>1. kv[k].state = "open" /\ k # sequence[c]
    BY <1>1, <1>2, SessionAssumption DEF Types, Disposing, KvStates
  <2>2. PICK d \in Sessions : sequence[d] = k
    BY <1>1, <2>1 DEF Owned
  <2> QED
    BY <1>1, <2>1, <2>2 DEF Types
<1>3. ASSUME NEW d \in Sessions, NEW e \in Sessions,
             sequence'[d] = sequence'[e], sequence'[d] # NoKv
      PROVE  d = e
  BY <1>1, <1>3 DEF Types, Owned
<1>4. \A k \in Kvs : kv'[k].state = "none" => kv'[k].fed = <<>>
  BY <1>1 DEF Types, Disposing, KvStates, Owned
<1> QED
  BY <1>2, <1>3, <1>4 DEF Owned

\* A session takes a sequence no one knows.
LEMMA OwnedFresh ==
    ASSUME IInv, NEW c \in Sessions, sequence[c] = NoKv, NEW k \in Kvs, Fresh(k),
           kv'[k].state # "none", \A j \in Kvs \ {k} : kv'[j] = kv[j],
           sequence' = [sequence EXCEPT ![c] = k]
    PROVE  Owned'
<1>1. Types /\ Owned
  BY DEF IInv
<1>2. \A d \in Sessions : sequence[d] # k
  <2> TAKE d \in Sessions
  <2>1. Feeding(d)
    BY DEF IInv, SessionInv
  <2> QED
    BY <2>1, SessionAssumption DEF Feeding, Fresh
<1>3. ASSUME NEW j \in Kvs, kv'[j].state = "open"
      PROVE  \E d \in Sessions : sequence'[d] = j
  <2>1. CASE j = k
    BY <1>1, <2>1 DEF Types
  <2>2. CASE j # k
    <3>1. PICK d \in Sessions : sequence[d] = j
      BY <1>1, <1>3, <2>2 DEF Owned
    <3> QED
      BY <1>1, <3>1, SessionAssumption DEF Types
  <2> QED
    BY <2>1, <2>2
<1>4. ASSUME NEW d \in Sessions, NEW e \in Sessions,
             sequence'[d] = sequence'[e], sequence'[d] # NoKv
      PROVE  d = e
  BY <1>1, <1>2, <1>4 DEF Types, Owned
<1>5. \A j \in Kvs : kv'[j].state = "none" => kv'[j].fed = <<>>
  BY <1>1 DEF Owned
<1> QED
  BY <1>3, <1>4, <1>5 DEF Owned

-------------------------------------------------------------------------------
(* Issuing a turn. *)

LEMMA IssueStep ==
    ASSUME IInv, NEW c \in Sessions, NEW pending \in Seq(Roles), Idle(c), Issue(c, pending),
           Len(pending) # 0,
           \/ Len(pending) = 1 /\ pending[1] = "user" /\ Last(turns[c]) # "call"
           \/ \A i \in 1 .. Len(pending) : pending[i] = "tool"
    PROVE  IInv'
<1>1. Types /\ SessionInv(c) /\ Owned
  BY DEF IInv
<1>2. /\ turn[c] \in Turns /\ turn[c].stage = "idle"
      /\ life[c] = "live" /\ ~busy[c] /\ ~disposal[c]
      /\ turns[c] \in Seq(Roles) /\ committed[c] \in Nat
  BY <1>1 DEF Types, Idle, SessionInv, Living, At
<1>3. /\ turn' = [turn EXCEPT ![c] = [turn[c] EXCEPT !.stage = "issued", !.pending = pending]]
      /\ turns' = [turns EXCEPT ![c] = turns[c] \o pending]
      /\ busy' = [busy EXCEPT ![c] = TRUE]
      /\ UNCHANGED <<life, sequence, committed, disposal, kv, given>>
  BY DEF Issue
<1>4. /\ turns[c] \o pending \in Seq(Roles)
      /\ Len(turns[c] \o pending) = Len(turns[c]) + Len(pending)
      /\ Len(turns[c]) \in Nat /\ Len(pending) \in Nat
      /\ \A i \in 1 .. Len(turns[c]) + Len(pending) : (turns[c] \o pending)[i] =
             IF i <= Len(turns[c]) THEN turns[c][i] ELSE pending[i - Len(turns[c])]
  BY <1>2, ConcatProperties, LenProperties
<1>5. [turn[c] EXCEPT !.stage = "issued", !.pending = pending] \in Turns
  BY <1>2 DEF Turns, Stages
<1>6. Types'
  BY <1>1, <1>3, <1>4, <1>5 DEF Types
<1>7. ASSUME NEW d \in Sessions, d # c PROVE SessionInv(d)'
  <2>1. Kept(d)
    BY <1>1, <1>3, <1>7 DEF Types, Kept
  <2> QED
    BY <1>3, <2>1, FrameSame
<1>8. SessionInv(c)'
  <2> DEFINE s == turns[c]
             t == turns[c] \o pending
             n == Len(pending)
             m == Len(turns[c])
  <2>1. /\ turn'[c].stage = "issued" /\ turn'[c].pending = pending /\ turns'[c] = t /\ busy'[c]
        /\ life'[c] = life[c] /\ sequence'[c] = sequence[c] /\ committed'[c] = committed[c]
        /\ disposal'[c] = disposal[c] /\ kv' = kv /\ given'[c] = given[c]
    BY <1>1, <1>2, <1>3 DEF Types, Turns
  <2>2. committed[c] \in {0, m} /\ given[c] \in 0 .. m /\ Replied(s, given[c] + 1, m)
    BY <1>1, <1>2 DEF SessionInv, Settled, At
  <2>3. Last(s) = (IF m = 0 THEN "none" ELSE s[m])
    BY <1>2, LastPlace
  <2>4. Living(c)' /\ Settled(c)' /\ Attempts(c)' /\ Branching(c)'
    BY <1>1, <1>2, <2>1 DEF SessionInv, Living, Settled, Attempts, Branching, At
  <2>5. Base(c)' = m
    BY <1>4, <2>1 DEF Base
  <2>6. Asking(c)'
    <3>1. n \in 1 .. Len(t) /\ \A i \in 1 .. n : t[m + i] = pending[i]
      BY <1>4
    <3>2. (\A i \in 1 .. m : t[i] = s[i]) /\ m \in Nat /\ given[c] \in Nat
      BY <1>4, <2>2
    <3> HIDE DEF t, n, m, s
    <3>5. Replied(t, given[c] + 1, m)
      BY <2>2, <3>2, RepliedSame
    <3>3. n \in 1 .. Len(t) /\ (\A i \in 1 .. n : t[m + i] = pending[i])
          /\ committed[c] \in {0, m} /\ given[c] \in 0 .. m
      BY <2>2, <3>1
    <3>4. \/ n = 1 /\ pending[1] = "user" /\ (committed[c] # 0 => t[m] # "call")
          \/ \A i \in 1 .. n : pending[i] = "tool"
      BY <2>2, <2>3, <3>2 DEF n, s
    <3> QED
      BY <2>1, <2>5, <3>3, <3>4, <3>5 DEF Asking, n
  <2>7. Feeding(c)'
    <3>1. SubSeq(t, 1, committed[c]) = SubSeq(s, 1, committed[c])
      BY <1>2, <1>4, <2>2, PrefixOfConcat
    <3> QED
      BY <1>1, <1>2, <2>1, <3>1 DEF SessionInv, Feeding, Held, At
  <2>8. Writing(c)'
    BY <2>1 DEF Writing, At
  <2> QED
    BY <2>4, <2>6, <2>7, <2>8 DEF SessionInv
<1>9. Owned'
  BY <1>3, OwnedSame
<1> QED
  BY <1>6, <1>7, <1>8, <1>9 DEF IInv

LEMMA SendStep ==
    ASSUME IInv, NEW c \in Sessions, Send(c) \/ SendToolResults(c)
    PROVE  IInv'
<1>1. CASE Send(c)
  <2> DEFINE list == <<"user">>
  <2>1. list \in Seq(Roles) /\ Len(list) = 1 /\ list[1] = "user"
    BY DEF Roles
  <2>2. Idle(c) /\ Issue(c, list) /\ Last(turns[c]) # "call"
    BY <1>1 DEF Send
  <2> HIDE DEF list
  <2>3. Len(list) # 0
    BY <2>1
  <2> QED
    BY <2>1, <2>2, <2>3, IssueStep
<1>2. CASE SendToolResults(c)
  <2>1. PICK n \in 1 .. 2 : Issue(c, [i \in 1 .. n |-> "tool"])
    BY <1>2 DEF SendToolResults
  <2> DEFINE list == [i \in 1 .. n |-> "tool"]
  <2>2. list \in Seq(Roles) /\ Len(list) = n /\ \A i \in 1 .. n : list[i] = "tool"
    BY DEF Roles
  <2> HIDE DEF list
  <2>3. Len(list) # 0 /\ \A i \in 1 .. Len(list) : list[i] = "tool"
    BY <2>2
  <2> QED
    BY <1>2, <2>1, <2>2, <2>3, IssueStep DEF SendToolResults, list
<1> QED
  BY <1>1, <1>2

LEMMA CloseUnstartedStep ==
    ASSUME IInv, NEW c \in Sessions, CloseUnstarted(c)
    PROVE  IInv'
<1>1. Types /\ SessionInv(c) /\ Owned
  BY DEF IInv
<1> DEFINE s == turns[c]
           n == Len(turn[c].pending)
           m == Len(turns[c]) - Len(turn[c].pending)
<1>2. /\ turn[c] \in Turns /\ turn[c].stage = "issued"
      /\ s \in Seq(Roles) /\ committed[c] \in Nat /\ Len(s) \in Nat /\ n \in 1 .. Len(s)
      /\ committed[c] \in {0, m} /\ given[c] \in 0 .. m /\ Replied(s, given[c] + 1, m)
      /\ life[c] = "live"
  BY <1>1, LenProperties DEF CloseUnstarted, Types, Turns, At, SessionInv, Asking, Base, Living
<1>3. /\ turn' = [turn EXCEPT ![c] = NoTurn]
      /\ turns' = [turns EXCEPT ![c] = SubSeq(s, 1, m)]
      /\ busy' = [busy EXCEPT ![c] = FALSE]
      /\ UNCHANGED <<life, sequence, committed, disposal, kv, given>>
  BY DEF CloseUnstarted, WithoutTail
<1>4. /\ m \in 0 .. Len(s)
      /\ SubSeq(s, 1, m) \in Seq(Roles) /\ Len(SubSeq(s, 1, m)) = m
      /\ \A i \in 1 .. m : SubSeq(s, 1, m)[i] = s[i]
  <2>1. m \in 0 .. Len(s)
    BY <1>2, Remainder
  <2>2. s \in Seq(Roles)
    BY <1>2
  <2> HIDE DEF s, m
  <2> QED
    BY <2>1, <2>2, PrefixOf, Whole, LenProperties
<1>5. NoTurn \in Turns
  BY DEF NoTurn, Turns, Stages
<1>6. Types'
  BY <1>1, <1>3, <1>4, <1>5 DEF Types
<1>7. ASSUME NEW d \in Sessions, d # c PROVE SessionInv(d)'
  <2>1. Kept(d)
    BY <1>1, <1>3, <1>7 DEF Types, Kept
  <2> QED
    BY <1>3, <2>1, FrameSame
<1>8. SessionInv(c)'
  <2>1. /\ turn'[c] = NoTurn /\ turns'[c] = SubSeq(s, 1, m) /\ ~busy'[c]
        /\ life'[c] = life[c] /\ sequence'[c] = sequence[c] /\ committed'[c] = committed[c]
        /\ disposal'[c] = disposal[c] /\ kv' = kv /\ given'[c] = given[c]
    BY <1>1, <1>2, <1>3 DEF Types
  <2>2. turn'[c].stage = "idle"
    BY <2>1 DEF NoTurn
  <2>3. Living(c)' /\ Asking(c)' /\ Attempts(c)' /\ Writing(c)' /\ Branching(c)'
    BY <1>1, <1>2, <2>1, <2>2 DEF SessionInv, Living, Asking, Attempts, Writing, Branching, At
  <2>4. Settled(c)'
    <3>1. m \in Nat /\ given[c] \in Nat
      BY <1>2, <1>4
    <3> DEFINE t == SubSeq(s, 1, m)
    <3>2. Len(t) = m /\ \A i \in 1 .. m : t[i] = s[i]
      BY <1>4
    <3>3. committed[c] \in {0, m} /\ given[c] \in 0 .. m /\ Replied(s, given[c] + 1, m)
      BY <1>2
    <3>4. turns'[c] = t /\ committed'[c] = committed[c] /\ given'[c] = given[c]
      BY <2>1
    <3> HIDE DEF t, m, s
    <3>5. Replied(t, given[c] + 1, m)
      BY <3>1, <3>2, <3>3, RepliedSame
    <3> QED
      BY <3>2, <3>3, <3>4, <3>5 DEF Settled
  <2>5. Feeding(c)'
    <3>1. committed[c] \in 0 .. m
      BY <1>2, <1>4, Whole
    <3>2. SubSeq(SubSeq(s, 1, m), 1, committed[c]) = SubSeq(s, 1, committed[c])
      BY <1>2, <1>4, <3>1, PrefixOfPrefix
    <3> QED
      BY <1>1, <1>2, <2>1, <2>2, <3>2 DEF SessionInv, Feeding, Held, At
  <2> QED
    BY <2>3, <2>4, <2>5 DEF SessionInv
<1>9. Owned'
  BY <1>3, OwnedSame
<1> QED
  BY <1>6, <1>7, <1>8, <1>9 DEF IInv

LEMMA StartStep ==
    ASSUME IInv, NEW c \in Sessions, Start(c)
    PROVE  IInv'
<1>1. Types /\ SessionInv(c) /\ Owned
  BY DEF IInv
<1> DEFINE v == [turn[c] EXCEPT !.stage = "preparing", !.attempts = Len(turns[c])]
<1>2. /\ turn' = [turn EXCEPT ![c] = v]
      /\ UNCHANGED <<life, turns, sequence, committed, busy, disposal, kv, given>>
      /\ turn[c] \in Turns /\ turn[c].stage = "issued" /\ Len(turns[c]) \in Nat
  BY <1>1, LenProperties DEF Start, Types, At
<1>3. v \in Turns /\ v.stage = "preparing" /\ v.pending = turn[c].pending
      /\ v.attempts = Len(turns[c])
  BY <1>2 DEF Turns, Stages
<1> HIDE DEF v
<1>4. Types'
  BY <1>1, <1>2, <1>3 DEF Types
<1>5. ASSUME NEW d \in Sessions, d # c PROVE SessionInv(d)'
  <2>1. Kept(d)
    BY <1>1, <1>2, <1>5 DEF Types, Kept
  <2> QED
    BY <1>2, <2>1, FrameSame
<1>6. SessionInv(c)'
  <2>1. turn'[c] = v
    BY <1>1, <1>2 DEF Types
  <2>2. Living(c)' /\ Settled(c)' /\ Attempts(c)' /\ Branching(c)'
    BY <1>1, <1>2, <1>3, <2>1 DEF SessionInv, Living, Settled, Attempts, Branching, At
  <2>3. Asking(c)'
    BY <1>1, <1>2, <1>3, <2>1, AskingSame DEF SessionInv, At
  <2>4. Feeding(c)' /\ Writing(c)'
    BY <1>1, <1>2, <1>3, <2>1 DEF SessionInv, Feeding, Held, Writing, At
  <2> QED
    BY <2>2, <2>3, <2>4 DEF SessionInv
<1>7. Owned'
  BY <1>2, OwnedSame
<1> QED
  BY <1>4, <1>5, <1>6, <1>7 DEF IInv

-------------------------------------------------------------------------------
(* Preparing it. *)

\* A turn that fails before its stream: what it leaves of its session.
LEMMA FailsSession ==
    ASSUME IInv, NEW c \in Sessions, Fails(c),
           At(c, "preparing") \/ At(c, "creating") \/ At(c, "prepared") \/ At(c, "shrinking"),
           UNCHANGED <<life, turns, sequence, committed, busy, disposal, given>>,
           sequence[c] # NoKv => kv'[sequence[c]] = kv[sequence[c]]
    PROVE  /\ turn' \in [Sessions -> Turns]
           /\ \A d \in Sessions : d # c => Kept(d)
           /\ SessionInv(c)'
<1>1. Types /\ SessionInv(c)
  BY DEF IInv
<1> DEFINE v == [NoTurn EXCEPT !.stage = "finishing", !.ending = "failed",
                               !.pending = turn[c].pending]
<1>2. turn' = [turn EXCEPT ![c] = v] /\ turn[c] \in Turns
  BY <1>1 DEF Fails, Ended, Types
<1>3. v \in Turns /\ v.stage = "finishing" /\ v.pending = turn[c].pending /\ v.ending = "failed"
  <2>1. NoTurn \in Turns
    BY DEF NoTurn, Turns, Stages
  <2>2. turn[c].pending \in Seq(Roles)
    BY <1>2 DEF Turns
  <2> QED
    BY <2>1, <2>2 DEF Turns, Stages, Endings
<1> HIDE DEF v
<1>4. turn' \in [Sessions -> Turns] /\ turn'[c] = v /\ \A d \in Sessions : d # c => Kept(d)
  BY <1>1, <1>2, <1>3 DEF Types, Kept
<1>5. ~At(c, "idle") /\ ~At(c, "closing") /\ ~At(c, "finishing") /\ life[c] = "live"
  BY <1>1 DEF At, SessionInv, Living
<1>6. Living(c)' /\ Settled(c)' /\ Attempts(c)' /\ Branching(c)'
  BY <1>1, <1>3, <1>4, <1>5 DEF SessionInv, Living, Settled, Attempts, Branching, At
<1>7. Asking(c)'
  BY <1>1, <1>3, <1>4, <1>5, AskingSame DEF SessionInv, At
<1>8. Feeding(c)' /\ Writing(c)'
  BY <1>1, <1>3, <1>4, <1>5 DEF SessionInv, Feeding, Writing, Endings, At
<1> QED
  BY <1>4, <1>6, <1>7, <1>8 DEF SessionInv

LEMMA FailsStep ==
    ASSUME IInv, NEW c \in Sessions, Fails(c),
           At(c, "preparing") \/ At(c, "creating") \/ At(c, "prepared") \/ At(c, "shrinking"),
           UNCHANGED <<life, turns, sequence, committed, busy, disposal, kv, given>>
    PROVE  IInv'
<1>1. /\ turn' \in [Sessions -> Turns]
      /\ \A d \in Sessions : d # c => Kept(d)
      /\ SessionInv(c)'
  BY FailsSession
<1>2. Types'
  BY <1>1 DEF IInv, Types
<1>3. \A d \in Sessions : SessionInv(d)'
  BY <1>1, FrameSame
<1> QED
  BY <1>2, <1>3, OwnedSame DEF IInv

\* During a turn: where the committed turns end, and where what was asked starts.
LEMMA Places ==
    ASSUME IInv, NEW c \in Sessions, ~At(c, "idle"), ~At(c, "closing")
    PROVE  /\ turns[c] \in Seq(Roles) /\ turn[c] \in Turns /\ Len(turns[c]) \in Nat
           /\ Len(turn[c].pending) \in 1 .. Len(turns[c])
           /\ Base(c) \in 0 .. Len(turns[c]) /\ Base(c) < Len(turns[c])
           /\ committed[c] \in 0 .. Len(turns[c]) /\ committed[c] \in {0, Base(c)}
           /\ Prompt(c) \in Seq(Roles) /\ Prompt(c) # <<>>
           /\ Len(Prompt(c)) = Len(turns[c]) - committed[c]
<1>1. Types /\ SessionInv(c)
  BY DEF IInv
<1>2. /\ turns[c] \in Seq(Roles) /\ turn[c] \in Turns /\ Len(turns[c]) \in Nat
      /\ committed[c] \in {0, Base(c)} /\ Len(turn[c].pending) \in 1 .. Len(turns[c])
  BY <1>1, LenProperties DEF Types, SessionInv, Asking
<1>3. Base(c) \in 0 .. Len(turns[c]) /\ Base(c) < Len(turns[c])
  <2> DEFINE l == Len(turns[c])
             n == Len(turn[c].pending)
  <2>1. l \in Nat /\ n \in 1 .. l
    BY <1>2
  <2> HIDE DEF l, n
  <2>2. l - n \in 0 .. l /\ l - n < l
    BY <2>1
  <2> QED
    BY <2>2 DEF Base, l, n
<1>4. committed[c] \in 0 .. Len(turns[c]) /\ committed[c] < Len(turns[c])
  BY <1>2, <1>3
<1>5. committed[c] + 1 \in 1 .. Len(turns[c]) + 1
  BY <1>2, <1>4
<1>6. Prompt(c) \in Seq(Roles) /\ Len(Prompt(c)) = Len(turns[c]) - (committed[c] + 1) + 1
  BY <1>2, <1>5, SuffixOf DEF Prompt
<1>7. Len(Prompt(c)) = Len(turns[c]) - committed[c] /\ Len(Prompt(c)) # 0
  BY <1>2, <1>4, <1>6
<1> QED
  BY <1>2, <1>3, <1>4, <1>6, <1>7, EmptySeq

\* What is asked now ends with what was asked of this turn.
LEMMA AskedEnds ==
    ASSUME IInv, NEW c \in Sessions, At(c, "preparing")
    PROVE  Asked(c) \in Seq(Roles) /\ Tails(Asked(c), turn[c].pending)
<1> DEFINE s == turns[c]
           p == turn[c].pending
           n == Len(p)
           l == Len(s)
           results == Results(s)
<1>1. SessionInv(c) /\ ~At(c, "idle") /\ ~At(c, "closing")
  BY DEF IInv, At
<1>2. /\ s \in Seq(Roles) /\ l \in Nat /\ n \in 1 .. l /\ Base(c) = l - n
      /\ p \in Seq(Roles) /\ committed[c] \in {0, l - n}
      /\ \A i \in 1 .. n : s[l - n + i] = p[i]
      /\ (n = 1 /\ p[1] = "user") \/ \A i \in 1 .. n : p[i] = "tool"
  BY <1>1, Places DEF SessionInv, Asking, Base, Turns
<1> HIDE DEF s, p, n, l
<1>3. ASSUME NEW i \in 1 .. l - n + 1
      PROVE  From(s, i) \in Seq(Roles) /\ Tails(From(s, i), p)
  BY <1>2, SuffixTails DEF n, l
<1>4. CASE committed[c] # 0
  <2>1. Asked(c) = From(s, l - n + 1) /\ l - n + 1 \in 1 .. l - n + 1
    BY <1>2, <1>4 DEF Asked, Prompt, s
  <2> QED
    BY <1>3, <2>1 DEF p
<1>5. CASE committed[c] = 0
  <2>1. Asked(c) = From(s, l + 1 - (IF results = {} THEN 1 ELSE Cardinality(results)))
    BY <1>5 DEF Asked, s, l
  <2>2. CASE n = 1 /\ p[1] = "user"
    <3>1. s[l] = "user"
      BY <1>2, <2>2
    <3>2. results = {}
      BY <1>2, <3>1 DEF Results, l
    <3>3. l + 1 - 1 \in 1 .. l - n + 1
      BY <1>2, <2>2
    <3> QED
      BY <1>3, <2>1, <3>2, <3>3 DEF p
  <2>3. CASE \A i \in 1 .. n : p[i] = "tool"
    <3>1. ASSUME NEW j \in (l - n + 1) .. l PROVE s[j] = "tool"
      <4>1. j - (l - n) \in 1 .. n /\ l - n + (j - (l - n)) = j
        BY <1>2
      <4> QED
        BY <1>2, <2>3, <4>1
    <3>2. ((l - n + 1) .. l) \subseteq results
      <4> SUFFICES ASSUME NEW i \in (l - n + 1) .. l PROVE i \in results
        OBVIOUS
      <4>1. i \in 1 .. l /\ \A j \in i .. l : j \in (l - n + 1) .. l
        BY <1>2
      <4> QED
        BY <3>1, <4>1 DEF Results, l
    <3>3. results \subseteq 1 .. l
      BY DEF Results, l
    <3>4. /\ IsFiniteSet(1 .. l) /\ Cardinality(1 .. l) = l
          /\ Cardinality((l - n + 1) .. l) = n
      <4>1. l \in Int /\ l - n + 1 \in Int /\ 1 <= l /\ l - n + 1 <= l
        BY <1>2
      <4>2. IsFiniteSet(1 .. l) /\ Cardinality(1 .. l) = l - 1 + 1
        BY <4>1, FS_Interval
      <4>3. Cardinality((l - n + 1) .. l) = l - (l - n + 1) + 1
        BY <4>1, FS_Interval
      <4> QED
        BY <1>2, <4>2, <4>3
    <3>5. /\ IsFiniteSet(results) /\ Cardinality(results) <= l /\ Cardinality(results) \in Nat
          /\ n <= Cardinality(results)
      <4> HIDE DEF results
      <4>1. IsFiniteSet(results) /\ Cardinality(results) <= l
        BY <3>3, <3>4, FS_Subset
      <4> DEFINE asked == (l - n + 1) .. l
      <4>2. asked \subseteq results /\ Cardinality(asked) = n
        BY <3>2, <3>4
      <4> HIDE DEF asked
      <4>3. Cardinality(asked) <= Cardinality(results)
        BY <4>1, <4>2, FS_Subset
      <4> QED
        BY <4>1, <4>2, <4>3, FS_CardinalityType
    <3>6. results # {}
      <4>1. l \in (l - n + 1) .. l
        BY <1>2
      <4> QED
        BY <3>2, <4>1
    <3>7. l + 1 - Cardinality(results) \in 1 .. l - n + 1
      BY <1>2, <3>5
    <3> QED
      BY <1>3, <2>1, <3>6, <3>7 DEF p
  <2> QED
    BY <1>2, <2>2, <2>3
<1> QED
  BY <1>4, <1>5

LEMMA PrepareStep ==
    ASSUME IInv, NEW c \in Sessions, Prepare(c)
    PROVE  IInv'
<1>1. Types /\ SessionInv(c) /\ Owned /\ turn[c] \in Turns
  BY DEF IInv, Types
<1>2. /\ At(c, "preparing") /\ turn[c].stage = "preparing"
      /\ UNCHANGED <<life, turns, sequence, committed, busy, disposal, kv, given>>
      /\ life[c] = "live"
  BY <1>1 DEF Prepare, At, SessionInv, Living
<1>3. ~At(c, "idle") /\ ~At(c, "closing") /\ ~At(c, "finishing")
  BY <1>2 DEF At
<1>4. CASE Fails(c)
  BY <1>2, <1>4, FailsStep
<1>5. ASSUME NEW v \in Turns, turn' = [turn EXCEPT ![c] = v], ~disposal[c],
             v.pending = turn[c].pending,
             \/ /\ v.stage = "shrinking" /\ v.attempts + 1 >= Len(turns[c])
                /\ Tails(v.asked, turn[c].pending)
             \/ /\ v.stage = IF sequence[c] = NoKv THEN "creating" ELSE "prepared"
                /\ v.prompt = Prompt(c) /\ v.on = sequence[c]
      PROVE  IInv'
  <2>1. turn'[c] = v /\ turn' \in [Sessions -> Turns]
    BY <1>1, <1>5 DEF Types
  <2>2. ASSUME NEW d \in Sessions, d # c PROVE SessionInv(d)'
    <3>1. Kept(d)
      BY <1>1, <1>2, <1>5, <2>2 DEF Types, Kept
    <3> QED
      BY <1>2, <3>1, FrameSame
  <2>3. Living(c)' /\ Settled(c)' /\ Attempts(c)' /\ Branching(c)'
    BY <1>1, <1>2, <1>3, <1>5, <2>1 DEF SessionInv, Living, Settled, Attempts, Branching, At
  <2>4. Asking(c)'
    BY <1>1, <1>2, <1>3, <1>5, <2>1, AskingSame DEF SessionInv, At
  <2>5. Feeding(c)'
    BY <1>1, <1>2, <1>3, <1>5, <2>1 DEF SessionInv, Feeding, Held, At
  <2>6. Writing(c)'
    BY <1>1, <1>2, <1>5, <2>1 DEF Writing, Prompt, At, Types
  <2> QED
    BY <1>1, <1>2, <2>1, <2>2, <2>3, <2>4, <2>5, <2>6, OwnedSame DEF IInv, Types, SessionInv
<1>6. CASE /\ ~Refused(c) /\ Overflows(c)
           /\ turn' = [turn EXCEPT ![c] = [turn[c] EXCEPT !.stage = "shrinking",
                           !.asked = Asked(c), !.attempts = turn[c].attempts - 1]]
  <2> DEFINE v == [turn[c] EXCEPT !.stage = "shrinking", !.asked = Asked(c),
                                  !.attempts = turn[c].attempts - 1]
  <2>1. turn[c].attempts \in Nat /\ turn[c].attempts # 0 /\ turn[c].attempts >= Len(turns[c])
    BY <1>1, <1>2, <1>6 DEF Turns, Refused, Inconsistent, SessionInv, Attempts
  <2>2. turn[c].attempts - 1 \in Nat /\ turn[c].attempts - 1 + 1 >= Len(turns[c])
    BY <2>1
  <2>3. Asked(c) \in Seq(Roles) /\ Tails(Asked(c), turn[c].pending)
    BY <1>2, AskedEnds
  <2>4. v \in Turns
    BY <1>1, <2>2, <2>3 DEF Turns, Stages
  <2>5. /\ v.stage = "shrinking" /\ v.pending = turn[c].pending
        /\ v.attempts = turn[c].attempts - 1 /\ v.asked = Asked(c)
    BY <1>1 DEF Turns
  <2>6. turn' = [turn EXCEPT ![c] = v]
    BY <1>6
  <2> HIDE DEF v
  <2> QED
    BY <1>5, <1>6, <2>2, <2>3, <2>4, <2>5, <2>6 DEF Refused
<1>7. CASE /\ ~Refused(c) /\ ~Overflows(c)
           /\ turn' = [turn EXCEPT ![c] = [turn[c] EXCEPT
                  !.stage = IF sequence[c] = NoKv THEN "creating" ELSE "prepared",
                  !.attempts = 0, !.prompt = Prompt(c), !.on = sequence[c]]]
  <2> DEFINE v == [turn[c] EXCEPT
                      !.stage = IF sequence[c] = NoKv THEN "creating" ELSE "prepared",
                      !.attempts = 0, !.prompt = Prompt(c), !.on = sequence[c]]
  <2>1. Prompt(c) \in Seq(Roles) /\ sequence[c] \in Kvs \cup {NoKv}
    BY <1>1, <1>3, Places DEF Types
  <2>2. v \in Turns
    BY <1>1, <2>1 DEF Turns, Stages
  <2>3. /\ v.stage = IF sequence[c] = NoKv THEN "creating" ELSE "prepared"
        /\ v.pending = turn[c].pending /\ v.prompt = Prompt(c) /\ v.on = sequence[c]
    BY <1>1 DEF Turns
  <2>4. turn' = [turn EXCEPT ![c] = v]
    BY <1>7
  <2> HIDE DEF v
  <2> QED
    BY <1>5, <1>7, <2>2, <2>3, <2>4 DEF Refused
<1> QED
  BY <1>4, <1>6, <1>7 DEF Prepare

LEMMA CreateStep ==
    ASSUME IInv, NEW c \in Sessions, Create(c)
    PROVE  IInv'
<1>1. Types /\ SessionInv(c) /\ Owned /\ turn[c] \in Turns
  BY DEF IInv, Types
<1>2. /\ At(c, "creating") /\ turn[c].stage = "creating" /\ sequence[c] = NoKv
      /\ UNCHANGED <<life, turns, busy, disposal, given>> /\ life[c] = "live" /\ committed[c] = 0
  BY <1>1 DEF Create, At, SessionInv, Living, Writing
<1>3. CASE Fails(c) /\ UNCHANGED <<sequence, committed, kv>>
  BY <1>2, <1>3, FailsStep
<1>4. ASSUME NEW k \in Kvs, Fresh(k), disposal[c],
             kv' = [kv EXCEPT ![k].state = "disposing"],
             Fails(c), UNCHANGED <<sequence, committed>>
      PROVE  IInv'
  <2>1. /\ turn' \in [Sessions -> Turns]
        /\ \A d \in Sessions : d # c => Kept(d)
        /\ SessionInv(c)'
    BY <1>2, <1>4, FailsSession
  <2>2. kv' \in [Kvs -> KvStates] /\ kv'[k].state = "disposing"
        /\ \A j \in Kvs \ {k} : kv'[j] = kv[j]
    BY <1>1, <1>4 DEF Types, KvStates
  <2>3. \A d \in Sessions : d # c => SessionInv(d)'
    BY <1>4, <2>1, <2>2, FrameFresh
  <2>4. Owned'
    BY <1>1, <1>4, <2>2 DEF Owned
  <2> QED
    BY <1>1, <1>2, <1>4, <2>1, <2>2, <2>3, <2>4 DEF IInv, Types
<1>5. ASSUME NEW k \in Kvs, Fresh(k), ~disposal[c],
             kv' = [kv EXCEPT ![k].state = "open"],
             sequence' = [sequence EXCEPT ![c] = k],
             committed' = [committed EXCEPT ![c] = 0],
             turn' = [turn EXCEPT ![c] = [turn[c] EXCEPT !.stage = "prepared", !.on = k]]
      PROVE  IInv'
  <2> DEFINE v == [turn[c] EXCEPT !.stage = "prepared", !.on = k]
  <2>1. v \in Turns /\ v.stage = "prepared" /\ v.on = k /\ v.pending = turn[c].pending
        /\ v.prompt = turn[c].prompt
    BY <1>1 DEF Turns, Stages
  <2>2. turn' = [turn EXCEPT ![c] = v]
    BY <1>5
  <2> HIDE DEF v
  <2>3. kv' \in [Kvs -> KvStates] /\ kv'[k].state = "open" /\ kv'[k].fed = kv[k].fed
        /\ \A j \in Kvs \ {k} : kv'[j] = kv[j]
    BY <1>1, <1>5 DEF Types, KvStates
  <2>4. Types' /\ turn'[c] = v /\ sequence'[c] = k /\ committed'[c] = 0
    BY <1>1, <1>2, <1>5, <2>1, <2>2, <2>3 DEF Types
  <2>5. ASSUME NEW d \in Sessions, d # c PROVE SessionInv(d)'
    <3>1. Kept(d)
      BY <1>1, <1>2, <1>5, <2>2, <2>5 DEF Types, Kept
    <3> QED
      BY <1>5, <2>3, <3>1, FrameFresh
  <2>6. k # NoKv
    BY SessionAssumption
  <2>7. Living(c)' /\ Settled(c)' /\ Attempts(c)' /\ Branching(c)'
    BY <1>1, <1>2, <1>5, <2>1, <2>4, <2>6
       DEF SessionInv, Living, Settled, Attempts, Branching, At
  <2>8. Asking(c)'
    BY <1>1, <1>2, <2>1, <2>4, AskingSame DEF SessionInv, At
  <2>9. Feeding(c)'
    <3>1. kv[k].fed = <<>>
      BY <1>1, <1>5 DEF Fresh, Owned
    <3>2. SubSeq(turns'[c], 1, 0) = <<>>
      BY SubSeqEmpty
    <3> QED
      BY <2>1, <2>3, <2>4, <3>1, <3>2 DEF Feeding, Held, At
  <2>10. Writing(c)'
    BY <1>1, <1>2, <1>5, <2>1, <2>3, <2>4 DEF SessionInv, Writing, Prompt, At
  <2>11. Owned'
    BY <1>2, <1>5, <2>3, OwnedFresh
  <2> QED
    BY <2>4, <2>5, <2>7, <2>8, <2>9, <2>10, <2>11 DEF IInv, SessionInv
<1> QED
  BY <1>3, <1>4, <1>5 DEF Create

LEMMA ShrinkStep ==
    ASSUME IInv, NEW c \in Sessions, Shrink(c)
    PROVE  IInv'
<1>1. Types /\ SessionInv(c) /\ Owned /\ turn[c] \in Turns
  BY DEF IInv, Types
<1>2. /\ At(c, "shrinking") /\ turn[c].stage = "shrinking"
      /\ UNCHANGED <<life, busy, disposal>> /\ life[c] = "live"
  BY <1>1 DEF Shrink, At, SessionInv, Living
<1>3. CASE Fails(c) /\ UNCHANGED <<turns, kv, given, sequence, committed>>
  BY <1>2, <1>3, FailsStep
<1>4. ASSUME NEW next \in Shrunk(c), EndsWith(next, turn[c].asked), Len(next) < Len(turns[c]),
             turns' = [turns EXCEPT ![c] = next],
             given' = [given EXCEPT ![c] = Len(next) - Len(turn[c].pending)],
             kv' = Disposing(sequence[c]),
             turn' = [turn EXCEPT ![c] = [turn[c] EXCEPT !.stage = "shrunk",
                                                         !.on = sequence[c], !.asked = <<>>]],
             Detached(c)
      PROVE  IInv'
  <2> DEFINE s == turns[c]
             p == turn[c].pending
             v == [turn[c] EXCEPT !.stage = "shrunk", !.on = sequence[c], !.asked = <<>>]
  <2>1. s \in Seq(Roles) /\ p \in Seq(Roles) /\ turn[c].asked \in Seq(Roles)
        /\ Len(s) \in Nat /\ sequence[c] \in Kvs \cup {NoKv}
    BY <1>1, LenProperties DEF Types, Turns
  <2>2. /\ Len(p) \in 1 .. Len(s) /\ Tails(turn[c].asked, p)
        /\ \/ Len(p) = 1 /\ p[1] = "user"
           \/ \A j \in 1 .. Len(p) : p[j] = "tool"
    BY <1>1, <1>2 DEF SessionInv, Asking, Attempts, At
  <2>3. PICK front \in Fronts : next = front \o turn[c].asked
    <3>1. next # s
      BY <1>4, <2>1
    <3>2. next # <<>>
      <4>1. Len(turn[c].asked) \in Nat /\ Len(turn[c].asked) # 0
        BY <2>1, <2>2, LenProperties DEF Tails
      <4> QED
        BY <1>4, <4>1, EmptySeq DEF EndsWith
    <3> QED
      BY <1>4, <3>1, <3>2 DEF Shrunk
  <2>4. next \in Seq(Roles) /\ Tails(next, p)
    <3>1. front \in Seq(Roles)
      BY SessionAssumption
    <3> HIDE DEF s, p
    <3> QED
      BY <2>1, <2>2, <2>3, <3>1, ConcatTails
  <2>5. v \in Turns /\ v.stage = "shrunk" /\ v.pending = p /\ v.attempts = turn[c].attempts
    <3>1. <<>> \in Seq(Roles)
      BY EmptySeq
    <3> QED
      BY <1>1, <2>1, <3>1 DEF Turns, Stages
  <2>6. turn' = [turn EXCEPT ![c] = v]
    BY <1>4
  <2> HIDE DEF v
  <2>7. kv' \in [Kvs -> KvStates]
    BY <1>1, <1>4 DEF Disposing, Types, KvStates
  <2> DEFINE g == Len(next) - Len(p)
  <2>14. /\ Len(next) \in Nat /\ Len(p) \in 1 .. Len(next) /\ g \in 0 .. g /\ g \in Nat
         /\ Replied(next, g + 1, g)
    <3>1. Len(next) \in Nat /\ Len(p) \in Nat /\ Len(p) # 0 /\ Len(p) <= Len(next)
      BY <2>1, <2>2, <2>4, LenProperties DEF Tails
    <3> HIDE DEF p
    <3>2. Len(p) \in 1 .. Len(next) /\ g \in Nat
      BY <3>1
    <3> HIDE DEF g
    <3>3. g \in 0 .. g /\ (g + 1) .. g = {}
      BY <3>2
    <3> QED
      BY <3>1, <3>2, <3>3 DEF Replied
  <2>8. /\ Types' /\ turn'[c] = v /\ turns'[c] = next /\ sequence'[c] = NoKv
        /\ committed'[c] = 0 /\ given'[c] = g
    BY <1>1, <1>2, <1>4, <2>4, <2>5, <2>6, <2>7, <2>14 DEF Types, Detached
  <2>9. ASSUME NEW d \in Sessions, d # c PROVE SessionInv(d)'
    <3>1. Kept(d)
      BY <1>1, <1>2, <1>4, <2>6, <2>9 DEF Types, Kept, Detached
    <3> QED
      BY <1>4, <2>9, <3>1, FrameDisposing
  <2>10. Living(c)' /\ Settled(c)' /\ Branching(c)' /\ Feeding(c)' /\ Writing(c)'
    BY <1>1, <1>2, <2>5, <2>8
       DEF SessionInv, Living, Settled, Branching, Feeding, Writing, At
  <2>11. Attempts(c)'
    <3>1. turn[c].attempts \in Nat /\ turn[c].attempts + 1 >= Len(s) /\ Len(next) \in Nat
      BY <1>1, <1>2, <2>4, LenProperties DEF SessionInv, Attempts, Turns
    <3>2. turn[c].attempts >= Len(next)
      BY <1>4, <2>1, <3>1
    <3> QED
      BY <2>5, <2>8, <3>2 DEF Attempts, At
  <2>12. Asking(c)'
    BY <2>2, <2>4, <2>5, <2>8, <2>14 DEF Asking, Base, At, Tails
  <2>13. Owned'
    BY <1>4, OwnedDisposing DEF Detached
  <2> QED
    BY <2>8, <2>9, <2>10, <2>11, <2>12, <2>13 DEF IInv, SessionInv
<1> QED
  BY <1>3, <1>4 DEF Shrink

LEMMA PrepareAgainStep ==
    ASSUME IInv, NEW c \in Sessions, PrepareAgain(c)
    PROVE  IInv'
<1>1. Types /\ SessionInv(c) /\ Owned
  BY DEF IInv
<1> DEFINE v == [turn[c] EXCEPT !.stage = "preparing", !.on = NoKv]
<1>2. /\ turn' = [turn EXCEPT ![c] = v]
      /\ UNCHANGED <<life, turns, sequence, committed, busy, disposal, kv, given>>
      /\ turn[c] \in Turns /\ turn[c].stage = "shrunk"
  BY <1>1 DEF PrepareAgain, Types, At
<1>3. v \in Turns /\ v.stage = "preparing" /\ v.pending = turn[c].pending
      /\ v.attempts = turn[c].attempts
  BY <1>2 DEF Turns, Stages
<1> HIDE DEF v
<1>4. Types' /\ turn'[c] = v
  BY <1>1, <1>2, <1>3 DEF Types
<1>5. ASSUME NEW d \in Sessions, d # c PROVE SessionInv(d)'
  <2>1. Kept(d)
    BY <1>1, <1>2, <1>5 DEF Types, Kept
  <2> QED
    BY <1>2, <2>1, FrameSame
<1>6. Living(c)' /\ Settled(c)' /\ Attempts(c)' /\ Branching(c)'
  BY <1>1, <1>2, <1>3, <1>4 DEF SessionInv, Living, Settled, Attempts, Branching, At
<1>7. Asking(c)'
  BY <1>1, <1>2, <1>3, <1>4, AskingSame DEF SessionInv, At
<1>8. Feeding(c)' /\ Writing(c)'
  BY <1>1, <1>2, <1>3, <1>4 DEF SessionInv, Feeding, Held, Writing, At
<1> QED
  BY <1>2, <1>4, <1>5, <1>6, <1>7, <1>8, OwnedSame DEF IInv, SessionInv

-------------------------------------------------------------------------------
(* Generating and closing it. *)

LEMMA GenerateStep ==
    ASSUME IInv, NEW c \in Sessions, Generate(c)
    PROVE  IInv'
<1>1. Types /\ SessionInv(c) /\ Owned
  BY DEF IInv
<1>2. /\ At(c, "prepared") /\ turn[c] \in Turns /\ turn[c].stage = "prepared"
      /\ UNCHANGED <<life, turns, sequence, committed, busy, disposal, kv, given>>
  BY <1>1 DEF Generate, Types, At
<1>3. CASE Fails(c)
  BY <1>2, <1>3, FailsStep
<1>4. ASSUME kv[turn[c].on].state = "open", turn' = [turn EXCEPT ![c].stage = "generating"]
      PROVE  IInv'
  <2> DEFINE v == [turn[c] EXCEPT !.stage = "generating"]
  <2>1. v \in Turns /\ v.stage = "generating" /\ v.pending = turn[c].pending
        /\ v.prompt = turn[c].prompt /\ v.on = turn[c].on
    BY <1>2 DEF Turns, Stages
  <2>2. turn' = [turn EXCEPT ![c] = v]
    BY <1>1, <1>2, <1>4 DEF Types
  <2> HIDE DEF v
  <2>3. Types' /\ turn'[c] = v
    BY <1>1, <1>2, <2>1, <2>2 DEF Types
  <2>4. ASSUME NEW d \in Sessions, d # c PROVE SessionInv(d)'
    <3>1. Kept(d)
      BY <1>1, <1>2, <2>2, <2>4 DEF Types, Kept
    <3> QED
      BY <1>2, <3>1, FrameSame
  <2>5. Living(c)' /\ Settled(c)' /\ Attempts(c)' /\ Branching(c)'
    BY <1>1, <1>2, <2>1, <2>3 DEF SessionInv, Living, Settled, Attempts, Branching, At
  <2>6. Asking(c)'
    BY <1>1, <1>2, <2>1, <2>3, AskingSame DEF SessionInv, At
  <2>7. Feeding(c)'
    BY <1>1, <1>2, <2>1, <2>3 DEF SessionInv, Feeding, Held, At
  <2>8. Writing(c)'
    BY <1>1, <1>2, <1>4, <2>1, <2>3 DEF SessionInv, Writing, Prompt, At
  <2> QED
    BY <1>2, <2>3, <2>4, <2>5, <2>6, <2>7, <2>8, OwnedSame DEF IInv, SessionInv
<1> QED
  BY <1>3, <1>4 DEF Generate

LEMMA StreamEndsStep ==
    ASSUME IInv, NEW c \in Sessions, StreamEnds(c)
    PROVE  IInv'
<1> DEFINE k == turn[c].on
           s == turns[c]
<1>1. Types /\ SessionInv(c) /\ Owned
  BY DEF IInv
<1>2. /\ turn[c] \in Turns /\ turn[c].stage = "generating" /\ k \in Kvs
      /\ UNCHANGED <<life, turns, sequence, committed, busy, disposal, given>>
      /\ ~Forking(k) /\ kv[k].state # "none"
      /\ (~disposal[c] => sequence[c] = k) /\ (disposal[c] => kv[k].state # "open")
  BY <1>1 DEF StreamEnds, Types, At, SessionInv, Writing
<1>3. PICK ending \in Endings :
        /\ Ended(c, ending)
        /\ kv' = [kv EXCEPT ![k].fed =
                     @ \o turn[c].prompt \o <<IF ending \in Roles THEN ending ELSE "part">>]
  BY DEF StreamEnds
<1> DEFINE v == [NoTurn EXCEPT !.stage = "finishing", !.ending = ending,
                               !.pending = turn[c].pending]
           piece == IF ending \in Roles THEN ending ELSE "part"
           fed == kv[k].fed \o turn[c].prompt \o <<piece>>
<1>4. v \in Turns /\ v.stage = "finishing" /\ v.ending = ending /\ v.pending = turn[c].pending
  <2>1. NoTurn \in Turns
    BY DEF NoTurn, Turns, Stages
  <2>2. turn[c].pending \in Seq(Roles)
    BY <1>2 DEF Turns
  <2> QED
    BY <2>1, <2>2 DEF Turns, Stages
<1>5. turn' = [turn EXCEPT ![c] = v]
  BY <1>3 DEF Ended
<1> HIDE DEF v
<1>6. fed \in Seq(Pieces)
  <2>1. turn[c].prompt \in Seq(Pieces) /\ kv[k].fed \in Seq(Pieces)
    BY <1>1, <1>2, SeqMonotonic DEF Types, Turns, KvStates, Pieces
  <2>2. <<piece>> \in Seq(Pieces)
    BY DEF Pieces
  <2> HIDE DEF piece
  <2> QED
    BY <2>1, <2>2, ConcatProperties
<1> HIDE DEF fed
<1>7. /\ kv' \in [Kvs -> KvStates] /\ kv'[k].state = kv[k].state /\ kv'[k].fed = fed
      /\ \A j \in Kvs \ {k} : kv'[j] = kv[j]
  <2>1. kv' = [kv EXCEPT ![k].fed = fed]
    BY <1>1, <1>2, <1>3 DEF fed, Types
  <2> QED
    BY <1>1, <1>2, <1>6, <2>1 DEF Types, KvStates
<1>8. Types' /\ turn'[c] = v
  BY <1>1, <1>2, <1>4, <1>5, <1>7 DEF Types
<1>9. ASSUME NEW d \in Sessions, d # c PROVE SessionInv(d)'
  <2>1. Kept(d) /\ SessionInv(d) /\ sequence[d] \in Kvs \cup {NoKv}
    BY <1>1, <1>2, <1>5, <1>9 DEF IInv, Types, Kept
  <2>2. sequence[d] # NoKv => sequence[d] \in Kvs \ {k}
    BY <1>1, <1>2, <1>9, <2>1, SessionAssumption DEF Owned, SessionInv, Feeding
  <2>3. life[d] = "forking" => turn[d].on \in Kvs \ {k}
    BY <1>2, <2>1 DEF Forking, SessionInv, Branching
  <2>4. /\ At(d, "prepared") \/ At(d, "generating") => turn[d].on \in Kvs
        /\ At(d, "generating") => kv[turn[d].on].state # "none"
        /\ life[d] = "forking" => kv[turn[d].on].state # "none"
    BY <2>1 DEF SessionInv, Writing, Branching
  <2>5. \A j \in Kvs : kv'[j].state = kv[j].state
    BY <1>7
  <2> HIDE DEF k
  <2> QED
    BY <1>7, <2>1, <2>2, <2>3, <2>4, <2>5, Frame DEF Kept
<1>10. Living(c)' /\ Settled(c)' /\ Attempts(c)' /\ Branching(c)'
  BY <1>1, <1>2, <1>4, <1>8 DEF SessionInv, Living, Settled, Attempts, Branching, At
<1>11. Asking(c)'
  BY <1>1, <1>2, <1>4, <1>8, AskingSame DEF SessionInv, At
<1>12. Feeding(c)'
  <2> SUFFICES ASSUME sequence[c] # NoKv PROVE Feeding(c)'
    BY <1>2 DEF Feeding
  <2>1. ~disposal[c] /\ sequence[c] = k /\ kv'[k].state = "open"
    BY <1>1, <1>2, <1>7 DEF SessionInv, Living, Feeding
  <2>2. ASSUME ending \in {"assistant", "call"} PROVE fed = Append(s, ending)
    <3>1. /\ s \in Seq(Roles) /\ committed[c] \in 0 .. Len(s)
      BY <1>2, Places DEF At
    <3>2. kv[k].fed = SubSeq(s, 1, committed[c]) /\ turn[c].prompt = From(s, committed[c] + 1)
      BY <1>1, <1>2, <2>1 DEF SessionInv, Feeding, Writing, Prompt, Held, At
    <3>3. kv[k].fed \o turn[c].prompt = s
      BY <3>1, <3>2, PrefixAndRest
    <3>4. piece = ending /\ ending \in Roles
      BY <2>2 DEF Roles
    <3> QED
      BY <3>1, <3>3, <3>4, AppendIsConcat DEF fed
  <2> QED
    BY <1>2, <1>4, <1>7, <1>8, <2>1, <2>2 DEF Feeding, At
<1>13. Writing(c)'
  BY <1>1, <1>2, <1>4, <1>8, SessionAssumption DEF SessionInv, Writing, At
<1>14. Owned'
  BY <1>1, <1>2, <1>7 DEF Owned
<1> QED
  BY <1>8, <1>9, <1>10, <1>11, <1>12, <1>13, <1>14 DEF IInv, SessionInv

\* An answer settles what was asked.
LEMMA AnswerSettles ==
    ASSUME IInv, NEW c \in Sessions, ~At(c, "idle"), ~At(c, "closing"),
           NEW e \in {"assistant", "call"}
    PROVE  /\ given[c] \in 0 .. Len(turns[c]) + 1
           /\ Replied(Append(turns[c], e), given[c] + 1, Len(turns[c]) + 1)
<1> DEFINE s == turns[c]
           p == turn[c].pending
           n == Len(p)
           l == Len(s)
           t == Append(s, e)
<1>1. /\ s \in Seq(Roles) /\ l \in Nat /\ n \in 1 .. l /\ Base(c) = l - n
      /\ \A i \in 1 .. n : s[l - n + i] = p[i]
      /\ n = 1 \/ \A i \in 1 .. n : p[i] = "tool"
      /\ given[c] \in 0 .. l - n /\ Replied(s, given[c] + 1, l - n)
  BY Places DEF IInv, SessionInv, Asking, Base
<1>2. (\A i \in 1 .. l : t[i] = s[i]) /\ t[l + 1] = e
  <2>1. e \in Roles
    BY DEF Roles
  <2> QED
    BY <1>1, <2>1, AppendProperties
<1> HIDE DEF s, p, n, l, t
<1>3. PICK b \in Nat : b = l - n /\ b < l
  BY <1>1
<1>4. given[c] \in 0 .. b /\ given[c] \in Nat /\ Replied(s, given[c] + 1, b)
  BY <1>1, <1>3
<1>5. \A i \in 1 .. b : t[i] = s[i]
  BY <1>1, <1>2, <1>3
<1>6. Replied(t, given[c] + 1, b)
  BY <1>4, <1>5, RepliedSame
<1>7. b + 1 = l \/ \A i \in (b + 1) .. l : t[i] = "tool"
  <2> SUFFICES ASSUME n # 1, NEW i \in (b + 1) .. l PROVE t[i] = "tool"
    BY <1>1, <1>3
  <2>1. i - b \in 1 .. n /\ l - n + (i - b) = i /\ i \in 1 .. l
    BY <1>1, <1>3
  <2>2. s[i] = p[i - b] /\ p[i - b] = "tool"
    BY <1>1, <2>1
  <2> QED
    BY <1>2, <2>1, <2>2
<1>8. Replied(t, given[c] + 1, l + 1)
  BY <1>1, <1>2, <1>3, <1>4, <1>6, <1>7, AnswerReplies
<1>9. given[c] \in 0 .. l + 1
  BY <1>1
<1> QED
  BY <1>8, <1>9 DEF l, s, t

LEMMA FinishAnsweredStep ==
    ASSUME IInv, NEW c \in Sessions, FinishAnswered(c)
    PROVE  IInv'
<1> DEFINE s == turns[c]
           e == turn[c].ending
<1>1. Types /\ SessionInv(c) /\ Owned
  BY DEF IInv
<1>2. /\ turn[c].stage = "finishing" /\ e \in {"assistant", "call"} /\ ~disposal[c]
      /\ life[c] = "live" /\ s \in Seq(Roles) /\ Len(s) \in Nat
      /\ sequence[c] # NoKv /\ kv[sequence[c]].state = "open"
      /\ kv[sequence[c]].fed = Append(s, e)
  BY <1>1, LenProperties
     DEF FinishAnswered, Answered, At, SessionInv, Living, Writing, Feeding, Types
<1>3. e \in Roles
  BY <1>2 DEF Roles
<1>4. /\ turns' = [turns EXCEPT ![c] = Append(s, e)]
      /\ committed' = [committed EXCEPT ![c] = Len(s) + 1]
      /\ busy' = [busy EXCEPT ![c] = FALSE]
      /\ turn' = [turn EXCEPT ![c] = NoTurn]
      /\ UNCHANGED <<life, sequence, disposal, kv, given>>
  BY <1>1, <1>3 DEF FinishAnswered, Types
<1>5. /\ Append(s, e) \in Seq(Roles) /\ Len(Append(s, e)) = Len(s) + 1
      /\ Append(s, e)[Len(s) + 1] = e
  BY <1>2, <1>3, AppendProperties
<1>6. NoTurn \in Turns /\ NoTurn.stage = "idle"
  BY DEF NoTurn, Turns, Stages
<1>7. Types' /\ turn'[c] = NoTurn /\ turns'[c] = Append(s, e) /\ committed'[c] = Len(s) + 1
      /\ ~busy'[c]
  BY <1>1, <1>2, <1>4, <1>5, <1>6 DEF Types
<1>8. ASSUME NEW d \in Sessions, d # c PROVE SessionInv(d)'
  <2>1. Kept(d)
    BY <1>1, <1>4, <1>8 DEF Types, Kept
  <2> QED
    BY <1>4, <2>1, FrameSame
<1>9. Living(c)' /\ Asking(c)' /\ Attempts(c)' /\ Writing(c)' /\ Branching(c)'
  BY <1>1, <1>2, <1>4, <1>6, <1>7
     DEF SessionInv, Living, Asking, Attempts, Writing, Branching, At
<1>10. Settled(c)'
  <2>1. given[c] \in 0 .. Len(s) + 1 /\ Replied(Append(s, e), given[c] + 1, Len(s) + 1)
    BY <1>2, AnswerSettles DEF At
  <2> QED
    BY <1>4, <1>5, <1>7, <2>1 DEF Settled
<1>11. Feeding(c)'
  <2>1. SubSeq(Append(s, e), 1, Len(s) + 1) = Append(s, e)
    BY <1>5, SubSeqFull
  <2> QED
    BY <1>2, <1>4, <1>6, <1>7, <2>1 DEF Feeding, Held, At
<1> QED
  BY <1>4, <1>7, <1>8, <1>9, <1>10, <1>11, OwnedSame DEF IInv, SessionInv

\* What was asked can always be taken back.
LEMMA EndsWithAsked ==
    ASSUME IInv, NEW c \in Sessions, ~At(c, "idle"), ~At(c, "closing")
    PROVE  EndsWith(turns[c], turn[c].pending)
<1> DEFINE s == turns[c]
           p == turn[c].pending
           b == Len(s) - Len(p)
<1>1. s \in Seq(Roles) /\ p \in Seq(Roles) /\ Len(s) \in Nat /\ Len(p) \in 1 .. Len(s)
      /\ b \in 0 .. Len(s)
  BY Places DEF Turns, Base
<1>2. \A j \in 1 .. Len(p) : s[b + j] = p[j]
  BY DEF IInv, SessionInv, Asking, Base
<1> HIDE DEF s, p
<1>3. b + 1 \in 1 .. Len(s) + 1 /\ Len(s) - (b + 1) + 1 = Len(p)
  BY <1>1
<1>4. /\ From(s, b + 1) \in Seq(Roles) /\ Len(From(s, b + 1)) = Len(p)
      /\ \A j \in 1 .. Len(p) : From(s, b + 1)[j] = s[b + 1 + j - 1]
  BY <1>1, <1>3, SuffixOf
<1>5. \A j \in 1 .. Len(p) : b + 1 + j - 1 = b + j
  BY <1>1
<1>6. From(s, b + 1) = p
  BY <1>1, <1>2, <1>4, <1>5, SeqEqual
<1>7. Len(s) >= Len(p)
  BY <1>1
<1>8. EndsWith(s, p)
  BY <1>6, <1>7 DEF EndsWith
<1> QED
  BY <1>8 DEF s, p

LEMMA FinishUnansweredStep ==
    ASSUME IInv, NEW c \in Sessions, FinishUnanswered(c)
    PROVE  IInv'
<1> DEFINE s == turns[c]
           v == [NoTurn EXCEPT !.stage = "closing", !.on = sequence[c]]
           kept == Append(s, "assistant")
           back == SubSeq(s, 1, Base(c))
<1>1. Types /\ SessionInv(c) /\ Owned /\ turn[c] \in Turns /\ sequence[c] \in Kvs \cup {NoKv}
  BY DEF IInv, Types
<1>2. /\ turn[c].stage = "finishing" /\ ~At(c, "idle") /\ ~At(c, "closing")
      /\ life[c] = "live" /\ UNCHANGED <<life, busy, disposal, given>>
      /\ kv' = Disposing(sequence[c]) /\ turn' = [turn EXCEPT ![c] = v]
      /\ sequence' = [sequence EXCEPT ![c] = NoKv] /\ committed' = [committed EXCEPT ![c] = 0]
  BY <1>1 DEF FinishUnanswered, Detached, At, SessionInv, Living
<1>3. PICK next \in {kept, back} : turns' = [turns EXCEPT ![c] = next]
  <2>1. EndsWith(s, turn[c].pending)
    BY <1>2, EndsWithAsked
  <2> QED
    BY <1>1, <2>1 DEF FinishUnanswered, Types, WithoutTail, Base
<1>4. /\ s \in Seq(Roles) /\ Len(s) \in Nat /\ Base(c) \in 0 .. Len(s) /\ Base(c) \in Nat
      /\ given[c] \in 0 .. Base(c) /\ given[c] \in Nat /\ Replied(s, given[c] + 1, Base(c))
  BY <1>1, <1>2, Places DEF SessionInv, Asking
<1>5. /\ next \in Seq(Roles) /\ given[c] \in 0 .. Len(next)
      /\ Replied(next, given[c] + 1, Len(next))
  <2>1. kept \in Seq(Roles) /\ Len(kept) = Len(s) + 1
    BY <1>4, AppendProperties DEF Roles
  <2>2. given[c] \in 0 .. Len(s) + 1 /\ Replied(kept, given[c] + 1, Len(s) + 1)
    BY <1>2, AnswerSettles
  <2>3. /\ back \in Seq(Roles) /\ Len(back) = Base(c)
        /\ \A i \in 1 .. Base(c) : back[i] = s[i]
    BY <1>4, PrefixOf
  <2> HIDE DEF kept, back
  <2>4. Replied(back, given[c] + 1, Base(c))
    BY <1>4, <2>3, RepliedSame
  <2> QED
    BY <1>3, <1>4, <2>1, <2>2, <2>3, <2>4
<1>6. v \in Turns /\ v.stage = "closing"
  <2>1. NoTurn \in Turns
    BY DEF NoTurn, Turns, Stages
  <2> QED
    BY <1>1, <2>1 DEF Turns, Stages
<1>7. kv' \in [Kvs -> KvStates]
  BY <1>1, <1>2 DEF Disposing, Types, KvStates
<1> HIDE DEF v, kept, back
<1>8. /\ Types' /\ turn'[c] = v /\ turns'[c] = next /\ sequence'[c] = NoKv /\ committed'[c] = 0
  BY <1>1, <1>2, <1>3, <1>5, <1>6, <1>7 DEF Types
<1>9. ASSUME NEW d \in Sessions, d # c PROVE SessionInv(d)'
  <2>1. Kept(d)
    BY <1>1, <1>2, <1>3, <1>9 DEF Types, Kept
  <2> QED
    BY <1>2, <1>9, <2>1, FrameDisposing
<1>10. SessionInv(c)'
  BY <1>1, <1>2, <1>5, <1>6, <1>8
     DEF SessionInv, Living, Settled, Asking, Attempts, Feeding, Writing, Branching, At
<1>11. Owned'
  BY <1>2, OwnedDisposing
<1> QED
  BY <1>8, <1>9, <1>10, <1>11 DEF IInv

LEMMA CloseTurnStep ==
    ASSUME IInv, NEW c \in Sessions, CloseTurn(c)
    PROVE  IInv'
<1>1. Types /\ SessionInv(c) /\ Owned
  BY DEF IInv
<1>2. /\ turn[c].stage = "closing" /\ life[c] = "live"
      /\ turn' = [turn EXCEPT ![c] = NoTurn] /\ busy' = [busy EXCEPT ![c] = FALSE]
      /\ UNCHANGED <<life, turns, sequence, committed, disposal, kv, given>>
  BY <1>1 DEF CloseTurn, At, SessionInv, Living
<1>3. NoTurn \in Turns /\ NoTurn.stage = "idle"
  BY DEF NoTurn, Turns, Stages
<1>4. Types' /\ turn'[c] = NoTurn /\ ~busy'[c]
  BY <1>1, <1>2, <1>3 DEF Types
<1>5. ASSUME NEW d \in Sessions, d # c PROVE SessionInv(d)'
  <2>1. Kept(d)
    BY <1>1, <1>2, <1>5 DEF Types, Kept
  <2> QED
    BY <1>2, <2>1, FrameSame
<1>6. Living(c)' /\ Settled(c)' /\ Asking(c)' /\ Attempts(c)' /\ Writing(c)' /\ Branching(c)'
  BY <1>1, <1>2, <1>3, <1>4
     DEF SessionInv, Living, Settled, Asking, Attempts, Writing, Branching, At
<1>7. Feeding(c)'
  BY <1>1, <1>2, <1>3, <1>4 DEF SessionInv, Feeding, Held, At
<1> QED
  BY <1>2, <1>4, <1>5, <1>6, <1>7, OwnedSame DEF IInv, SessionInv

-------------------------------------------------------------------------------
(* Forking and disposing. *)

LEMMA ForkStep ==
    ASSUME IInv, NEW c \in Sessions, NEW d \in Sessions, Fork(c, d)
    PROVE  IInv'
<1>1. Types /\ SessionInv(c) /\ SessionInv(d) /\ Owned /\ turn[d] \in Turns
  BY DEF IInv, Types
<1>2. /\ life[c] = "live" /\ ~busy[c] /\ life[d] = "absent" /\ ~busy[d] /\ c # d
      /\ turn[c].stage = "idle" /\ turn[d].stage = "idle"
      /\ sequence[d] = NoKv /\ sequence[c] \in Kvs \cup {NoKv}
  BY <1>1 DEF Fork, Idle, SessionInv, Living, At, Types
<1>3. /\ turns' = [turns EXCEPT ![d] = turns[c]]
      /\ committed' = [committed EXCEPT ![d] = committed[c]]
      /\ given' = [given EXCEPT ![d] = given[c]]
      /\ life' = [life EXCEPT ![d] = IF sequence[c] = NoKv THEN "live" ELSE "forking"]
      /\ UNCHANGED <<sequence, busy, disposal, kv>>
  BY DEF Fork
<1> DEFINE v == [turn[d] EXCEPT !.on = sequence[c]]
<1>4. v \in Turns /\ v.stage = "idle" /\ v.on = sequence[c]
  BY <1>1, <1>2 DEF Turns
<1>5. turn' = [turn EXCEPT ![d] = v]
  BY <1>1 DEF Fork, Types
<1> HIDE DEF v
<1>6. /\ Types' /\ turn'[d] = v /\ turns'[d] = turns[c] /\ committed'[d] = committed[c]
      /\ given'[d] = given[c]
      /\ life'[d] = IF sequence[c] = NoKv THEN "live" ELSE "forking"
  BY <1>1, <1>3, <1>4, <1>5 DEF Types
<1>7. ASSUME NEW e \in Sessions, e # d PROVE SessionInv(e)'
  <2>1. Kept(e)
    BY <1>1, <1>3, <1>5, <1>7 DEF Types, Kept
  <2> QED
    BY <1>3, <2>1, FrameSame
<1>8. Living(d)' /\ Settled(d)' /\ Asking(d)' /\ Attempts(d)' /\ Writing(d)' /\ Feeding(d)'
  BY <1>1, <1>2, <1>3, <1>4, <1>6
     DEF SessionInv, Living, Settled, Asking, Attempts, Writing, Feeding, At
<1>9. Branching(d)'
  BY <1>1, <1>2, <1>3, <1>4, <1>6 DEF SessionInv, Feeding, Branching, Held, At
<1> QED
  BY <1>3, <1>6, <1>7, <1>8, <1>9, OwnedSame DEF IInv, SessionInv

LEMMA ForkEndsStep ==
    ASSUME IInv, NEW d \in Sessions, ForkEnds(d)
    PROVE  IInv'
<1>1. Types /\ SessionInv(d) /\ Owned
  BY DEF IInv
<1>2. /\ life[d] = "forking" /\ turn[d].stage = "idle" /\ sequence[d] = NoKv /\ ~busy[d]
      /\ ~disposal[d]
      /\ turn[d].on \in Kvs /\ kv[turn[d].on].state # "none" /\ kv[turn[d].on].fed = Held(d)
      /\ turn' = [turn EXCEPT ![d] = NoTurn] /\ UNCHANGED <<busy, disposal>>
  BY <1>1 DEF ForkEnds, SessionInv, Living, Branching, At
<1>3. NoTurn \in Turns /\ NoTurn.stage = "idle" /\ <<>> \in Seq(Roles)
  BY EmptySeq DEF NoTurn, Turns, Stages
<1>4. ASSUME NEW k \in Kvs, Fresh(k),
             kv' = [kv EXCEPT ![k] = [state |-> "open", fed |-> kv[turn[d].on].fed]],
             sequence' = [sequence EXCEPT ![d] = k],
             life' = [life EXCEPT ![d] = "live"],
             UNCHANGED <<turns, committed, given>>
      PROVE  IInv'
  <2>1. /\ kv' \in [Kvs -> KvStates] /\ kv'[k].state = "open" /\ kv'[k].fed = Held(d)
        /\ \A j \in Kvs \ {k} : kv'[j] = kv[j]
    BY <1>1, <1>2, <1>4 DEF Types, KvStates
  <2>2. Types' /\ turn'[d] = NoTurn /\ sequence'[d] = k /\ life'[d] = "live" /\ k # NoKv
    BY <1>1, <1>2, <1>3, <1>4, <2>1, SessionAssumption DEF Types
  <2>3. ASSUME NEW e \in Sessions, e # d PROVE SessionInv(e)'
    <3>1. Kept(e)
      BY <1>1, <1>2, <1>4, <2>3 DEF Types, Kept
    <3> QED
      BY <1>4, <2>1, <3>1, FrameFresh
  <2>4. Living(d)' /\ Settled(d)' /\ Asking(d)' /\ Attempts(d)' /\ Writing(d)' /\ Branching(d)'
    BY <1>1, <1>2, <1>3, <1>4, <2>2
       DEF SessionInv, Living, Settled, Asking, Attempts, Writing, Branching, At
  <2>5. Feeding(d)'
    BY <1>3, <1>4, <2>1, <2>2 DEF Feeding, Held, At
  <2>6. Owned'
    BY <1>2, <1>4, <2>1, OwnedFresh
  <2> QED
    BY <2>2, <2>3, <2>4, <2>5, <2>6 DEF IInv, SessionInv
<1>5. ASSUME life' = [life EXCEPT ![d] = "absent"],
             turns' = [turns EXCEPT ![d] = <<>>],
             committed' = [committed EXCEPT ![d] = 0],
             given' = [given EXCEPT ![d] = 0],
             UNCHANGED <<sequence, kv>>
      PROVE  IInv'
  <2>1. /\ Types' /\ turn'[d] = NoTurn /\ turns'[d] = <<>>
        /\ life'[d] = "absent" /\ committed'[d] = 0 /\ given'[d] = 0
    BY <1>1, <1>2, <1>3, <1>5 DEF Types
  <2>2. ASSUME NEW e \in Sessions, e # d PROVE SessionInv(e)'
    <3>1. Kept(e)
      BY <1>1, <1>2, <1>5, <2>2 DEF Types, Kept
    <3> QED
      BY <1>5, <3>1, FrameSame
  <2>3. Len(turns'[d]) = 0 /\ Replied(turns'[d], 1, 0)
    BY <2>1 DEF Replied
  <2>4. SessionInv(d)'
    BY <1>2, <1>3, <1>5, <2>1, <2>3
       DEF SessionInv, Living, Settled, Asking, Attempts, Feeding, Writing, Branching, At
  <2> QED
    BY <1>5, <2>1, <2>2, <2>4, OwnedSame DEF IInv
<1> QED
  BY <1>4, <1>5 DEF ForkEnds

LEMMA DisposeStep ==
    ASSUME IInv, NEW c \in Sessions, Dispose(c)
    PROVE  IInv'
<1>1. Types /\ SessionInv(c) /\ Owned /\ sequence[c] \in Kvs \cup {NoKv}
  BY DEF IInv, Types
<1>2. /\ life[c] = "live" /\ ~disposal[c] /\ disposal' = [disposal EXCEPT ![c] = TRUE]
      /\ kv' = Disposing(sequence[c]) /\ UNCHANGED <<life, turns, busy, turn, given>>
      /\ sequence' = [sequence EXCEPT ![c] = NoKv] /\ committed' = [committed EXCEPT ![c] = 0]
  BY DEF Dispose, Detached
<1>3. kv' \in [Kvs -> KvStates]
  BY <1>1, <1>2 DEF Disposing, Types, KvStates
<1>4. Types' /\ sequence'[c] = NoKv /\ committed'[c] = 0 /\ disposal'[c]
  BY <1>1, <1>2, <1>3 DEF Types
<1>5. ASSUME NEW d \in Sessions, d # c PROVE SessionInv(d)'
  <2>1. Kept(d)
    BY <1>1, <1>2, <1>5 DEF Types, Kept
  <2> QED
    BY <1>2, <1>5, <2>1, FrameDisposing
<1>6. Living(c)' /\ Settled(c)' /\ Attempts(c)' /\ Feeding(c)' /\ Branching(c)'
  BY <1>1, <1>2, <1>4 DEF SessionInv, Living, Settled, Attempts, Feeding, Branching, At
<1>7. Asking(c)'
  BY <1>1, <1>2, <1>4 DEF SessionInv, Asking, Base, At
<1>8. Writing(c)'
  <2>1. At(c, "prepared") \/ At(c, "generating") => kv'[turn[c].on].state = "disposing"
    BY <1>1, <1>2, SessionAssumption DEF SessionInv, Writing, Disposing, Types, KvStates
  <2> QED
    BY <1>1, <1>2, <1>4, <2>1 DEF SessionInv, Writing, At
<1>9. Owned'
  BY <1>2, OwnedDisposing
<1> QED
  BY <1>4, <1>5, <1>6, <1>7, <1>8, <1>9 DEF IInv, SessionInv

LEMMA DisposeKvStep ==
    ASSUME IInv, NEW k \in Kvs, DisposeKv(k)
    PROVE  IInv'
<1>1. Types /\ Owned
  BY DEF IInv
<1>2. /\ kv[k].state = "disposing" /\ ~Generating(k) /\ ~Forking(k)
      /\ kv' = [kv EXCEPT ![k] = NoSequence]
      /\ UNCHANGED <<life, turns, sequence, committed, busy, disposal, turn, given>>
  BY DEF DisposeKv
<1>3. NoSequence \in KvStates /\ NoSequence.state = "none" /\ NoSequence.fed = <<>>
  BY EmptySeq DEF NoSequence, KvStates
<1>4. Types' /\ kv'[k] = NoSequence /\ \A j \in Kvs \ {k} : kv'[j] = kv[j]
  BY <1>1, <1>2, <1>3 DEF Types
<1>5. ASSUME NEW d \in Sessions PROVE SessionInv(d)'
  <2>1. SessionInv(d) /\ sequence[d] \in Kvs \cup {NoKv}
    BY <1>1 DEF IInv, Types
  <2>2. sequence[d] # NoKv => kv'[sequence[d]] = kv[sequence[d]]
    BY <1>2, <1>4, <2>1 DEF SessionInv, Feeding
  <2>3. At(d, "prepared") \/ At(d, "generating") =>
            (kv'[turn[d].on].state = "open" => kv[turn[d].on].state = "open")
    BY <1>3, <1>4, <2>1 DEF SessionInv, Writing
  <2>4. At(d, "generating") => kv'[turn[d].on].state # "none"
    BY <1>2, <1>4, <2>1 DEF SessionInv, Writing, Generating
  <2>5. life[d] = "forking" =>
            kv'[turn[d].on].state # "none" /\ kv'[turn[d].on].fed = kv[turn[d].on].fed
    BY <1>2, <1>4, <2>1 DEF SessionInv, Branching, Forking
  <2> QED
    BY <1>2, <2>1, <2>2, <2>3, <2>4, <2>5, Frame
<1>6. Owned'
  BY <1>1, <1>2, <1>3, <1>4 DEF Owned
<1> QED
  BY <1>4, <1>5, <1>6 DEF IInv

-------------------------------------------------------------------------------
(* Together. *)

LEMMA IInvInit == Init => IInv
<1> SUFFICES ASSUME Init PROVE IInv
  OBVIOUS
<1>1. /\ NoTurn \in Turns /\ NoTurn.stage = "idle" /\ NoSequence \in KvStates
      /\ NoSequence.state = "none" /\ NoSequence.fed = <<>> /\ <<>> \in Seq(Roles)
      /\ Len(<<>>) = 0
  BY EmptySeq DEF NoTurn, Turns, Stages, NoSequence, KvStates
<1>2. Types
  BY <1>1 DEF Init, Types
<1>3. ASSUME NEW c \in Sessions PROVE SessionInv(c)
  <2>1. /\ turn[c] = NoTurn /\ turns[c] = <<>> /\ sequence[c] = NoKv /\ committed[c] = 0
        /\ ~busy[c] /\ ~disposal[c] /\ life[c] # "forking" /\ given[c] = 0
        /\ Len(turns[c]) = 0 /\ Replied(turns[c], 1, 0)
    BY DEF Init, Replied
  <2> QED
    BY <1>1, <2>1
       DEF SessionInv, Living, Settled, Asking, Attempts, Feeding, Writing, Branching, At
<1>4. Owned
  BY <1>1 DEF Init, Owned
<1> QED
  BY <1>2, <1>3, <1>4 DEF IInv

LEMMA IInvStep == IInv /\ [Next]_vars => IInv'
<1> SUFFICES ASSUME IInv, [Next]_vars PROVE IInv'
  OBVIOUS
<1>1. ASSUME NEW c \in Sessions, Proceed(c) PROVE IInv'
  BY <1>1, PrepareStep, CreateStep, ShrinkStep, PrepareAgainStep, GenerateStep, StreamEndsStep,
     FinishAnsweredStep, FinishUnansweredStep, CloseTurnStep DEF Proceed
<1>2. ASSUME NEW c \in Sessions,
             \/ Send(c) \/ SendToolResults(c) \/ CloseUnstarted(c) \/ Start(c)
             \/ Dispose(c) \/ ForkEnds(c)
      PROVE  IInv'
  BY <1>2, SendStep, CloseUnstartedStep, StartStep, DisposeStep, ForkEndsStep
<1>3. ASSUME NEW c \in Sessions, NEW d \in Sessions, Fork(c, d) PROVE IInv'
  BY <1>3, ForkStep
<1>4. ASSUME NEW k \in Kvs, DisposeKv(k) PROVE IInv'
  BY <1>4, DisposeKvStep
<1>5. CASE UNCHANGED vars
  <2>1. \A d \in Sessions : SessionInv(d)'
    BY <1>5, FrameSame DEF vars, Kept
  <2> QED
    BY <1>5, <2>1 DEF vars, IInv, Types, Owned
<1> QED
  BY <1>1, <1>2, <1>3, <1>4, <1>5 DEF Next

\* Every reachable state has the invariant: whatever turns, forks and disposals are
\* under way, each handle knows which prefix of its history its sequence holds.
THEOREM IInvHolds == Spec => []IInv
BY IInvInit, IInvStep, PTL DEF Spec

\* KvHoldsHistory: whatever came between, a session continues from the KV of its
\* own history (gemma/chat-session.ts, #prepare and #finish).
THEOREM KvIsHistory == Spec => []KvHoldsHistory
<1>1. IInv => KvHoldsHistory
  <2> SUFFICES ASSUME IInv, NEW c \in Sessions, life[c] = "live", sequence[c] # NoKv,
                      ~At(c, "finishing")
               PROVE  kv[sequence[c]] = [state |-> "open", fed |-> Held(c)]
    BY DEF KvHoldsHistory, Held
  <2>1. kv[sequence[c]] \in KvStates
    BY SessionAssumption DEF IInv, Types
  <2> QED
    BY <2>1 DEF IInv, SessionInv, Feeding, KvStates
<1> QED
  BY <1>1, IInvHolds, PTL

\* HistoryIsSettled: between turns no message and no result the session was sent is
\* left without an answer (#finish), whatever an overflow policy put in their front
\* (any set Fronts of lists of roles), and the KV holds all of the history or nothing.
THEOREM HistorySettles == Spec => []HistoryIsSettled
<1>1. IInv => HistoryIsSettled
  BY DEF IInv, SessionInv, Living, Settled, HistoryIsSettled, At
<1> QED
  BY <1>1, IInvHolds, PTL

\* SequencesAreHeld: an open sequence has one session, not disposed, that holds it.
THEOREM OneHolder == Spec => []SequencesAreHeld
<1>1. IInv => SequencesAreHeld
  <2> SUFFICES ASSUME IInv, NEW k \in Kvs, kv[k].state = "open"
               PROVE  Cardinality({c \in Sessions : sequence[c] = k /\ ~disposal[c]}) = 1
    BY DEF SequencesAreHeld
  <2>1. PICK c \in Sessions : sequence[c] = k
    BY DEF IInv, Owned
  <2>2. \A d \in Sessions : sequence[d] = k => d = c /\ ~disposal[d]
    BY <2>1, SessionAssumption DEF IInv, Owned, SessionInv, Living
  <2>3. {d \in Sessions : sequence[d] = k /\ ~disposal[d]} = {c}
    BY <2>1, <2>2
  <2> QED
    BY <2>3, FS_Singleton
<1> QED
  BY <1>1, IInvHolds, PTL

\* NeverInconsistent: neither the checks of #prepare nor that of #finish that throw
\* an internal inconsistency ever do, whatever an overflow policy puts in front of
\* what is asked (any set Fronts of lists of roles).
THEOREM AlwaysConsistent == Spec => []NeverInconsistent
<1>1. IInv => NeverInconsistent
  <2> SUFFICES ASSUME IInv, NEW c \in Sessions
               PROVE  /\ At(c, "preparing") /\ ~disposal[c] => ~Inconsistent(c)
                      /\ At(c, "finishing") /\ Answered(c) => sequence[c] # NoKv
    BY DEF NeverInconsistent
  <2>1. SessionInv(c) /\ Types
    BY DEF IInv
  <2>2. At(c, "finishing") /\ Answered(c) => sequence[c] # NoKv
    BY <2>1 DEF SessionInv, Writing, Answered
  <2>3. ASSUME At(c, "preparing") PROVE ~Inconsistent(c)
    <3>1. /\ turns[c] \in Seq(Roles) /\ Len(turns[c]) \in Nat
          /\ Len(turn[c].pending) \in 1 .. Len(turns[c])
          /\ Base(c) < Len(turns[c])
          /\ committed[c] \in 0 .. Len(turns[c]) /\ committed[c] \in {0, Base(c)}
          /\ turn[c] \in Turns
      BY <2>3, Places DEF At
    <3>2. life[c] = "live" /\ ~At(c, "idle") /\ ~At(c, "closing") /\ ~At(c, "finishing")
      BY <2>1, <2>3 DEF SessionInv, Living, At
    <3>3. ~(committed[c] # 0 /\ sequence[c] = NoKv)
      BY <2>1, <3>2 DEF SessionInv, Living
    <3>4. ~(committed[c] = 0 /\ HeldUsed(c) # 0)
      <4>1. Len(SubSeq(turns[c], 1, 0)) = 0
        BY <3>1, PrefixOf
      <4> QED
        BY <2>1, <3>2, <4>1 DEF SessionInv, Feeding, HeldUsed, Held
    <3>5. ~(committed[c] # 0 /\ ~IsDelta(c))
      <4> SUFFICES ASSUME committed[c] # 0 PROVE IsDelta(c)
        OBVIOUS
      <4> DEFINE delta == From(turns[c], committed[c] + 1)
                 n == Len(turn[c].pending)
                 b == Base(c)
      <4>1. /\ committed[c] = b /\ b \in Nat /\ b + 1 \in 1 .. Len(turns[c]) + 1
            /\ Len(turns[c]) - (b + 1) + 1 = n
            /\ n \in Nat /\ n # 0
        <5>1. b = Len(turns[c]) - n /\ n \in 1 .. Len(turns[c])
          BY <3>1 DEF Base
        <5>2. committed[c] = b /\ b \in 0 .. Len(turns[c])
          BY <3>1
        <5> HIDE DEF b, n
        <5> QED
          BY <3>1, <5>1, <5>2
      <4>2. /\ delta \in Seq(Roles) /\ Len(delta) = n
            /\ \A i \in 1 .. n : delta[i] = turns[c][b + 1 + i - 1]
        <5>1. b + 1 \in 1 .. Len(turns[c]) + 1 /\ committed[c] = b
          BY <4>1
        <5> HIDE DEF b, n
        <5>2. /\ From(turns[c], b + 1) \in Seq(Roles)
              /\ Len(From(turns[c], b + 1)) = Len(turns[c]) - (b + 1) + 1
              /\ \A i \in 1 .. Len(turns[c]) - (b + 1) + 1 :
                     From(turns[c], b + 1)[i] = turns[c][b + 1 + i - 1]
          BY <3>1, <5>1, SuffixOf
        <5> QED
          BY <4>1, <5>1, <5>2
      <4>3. \A i \in 1 .. n : b + 1 + i - 1 = b + i
        BY <4>1
      <4>4. \A i \in 1 .. n : turns[c][b + i] = turn[c].pending[i]
        BY <2>1, <3>2 DEF SessionInv, Asking
      <4>5. \A i \in 1 .. n : delta[i] = turn[c].pending[i]
        BY <4>2, <4>3, <4>4
      <4>6. \/ n = 1 /\ turns[c][b] # "call"
            \/ \A i \in 1 .. n : turn[c].pending[i] = "tool"
        BY <2>1, <3>2 DEF SessionInv, Asking
      <4>7. delta # <<>>
        BY <4>1, <4>2, EmptySeq
      <4> QED
        BY <4>1, <4>2, <4>5, <4>6, <4>7 DEF IsDelta
    <3>6. turn[c].attempts # 0
      BY <2>1, <2>3, <3>1 DEF SessionInv, Attempts, Turns
    <3> QED
      BY <3>3, <3>4, <3>5, <3>6 DEF Inconsistent
  <2> QED
    BY <2>2, <2>3
<1> QED
  BY <1>1, IInvHolds, PTL

===============================================================================
