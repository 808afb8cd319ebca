------------------------- MODULE ContextHistoryProofs -------------------------
(* GenerationContext implements RetainedHistory, step by step.

   A step shows in the history only by what it does to the view of a context: its
   status, its length and the rows that can be read at that length.  RingInv says
   what the rows of a slot hold; Tagged adds that what was accepted are contents of
   runs, in every context that is not poisoned: no other is read.
   From the two, every step keeps the view of every context (a stutter), or extends,
   cuts or copies that of one of them, or breaks what became uncertain.            *)
EXTENDS ContextHistory, GenerationContextProofs

\* What stands for accepted rows are contents that runs computed.
Tagged ==
    /\ \A r \in Runs : Unsettled(r) =>
          /\ runs[r].query \in QueryLengths
          /\ ~IsBorrowing(runs[r].ctx) => runs[r].tag \in Tags
    /\ \A c \in Contexts : ~IsBorrowing(c) /\ ~poisoned[c] =>
          \A col \in Columns : col < UncommittedEnd(c) => history[c][col] \in Tags

------------------------------------------------------------------------------
(* Sequences of the last rows. *)

\* How many rows can be read at length n.
Count(n) == Lesser(n, Depth)

\* The observed depth is a natural number.
LEMMA DepthIsNatural == Depth \in Nat
BY ObservedAssumption, SlotsAssumption DEF Depth

\* As many columns are shown as the length has, up to the depth.
LEMMA CountIsNatural ==
    ASSUME NEW n \in Nat
    PROVE  Count(n) \in Nat /\ Count(n) <= n /\ Count(n) <= Depth
BY DepthIsNatural DEF Count, Lesser

\* The rows of V from the last that can be read at length n.
LastOf(V, n) == [i \in 1 .. Count(n) |-> V[n - Count(n) + i - 1]]

\* The last columns of a view below a length, as a sequence.
LEMMA LastOfIsSequence ==
    ASSUME NEW n \in Nat, NEW V, NEW T, \A col \in Nat : V[col] \in T
    PROVE  /\ LastOf(V, n) \in Seq(T) /\ Len(LastOf(V, n)) = Count(n)
           /\ \A i \in 1 .. Count(n) : LastOf(V, n)[i] = V[n - Count(n) + i - 1]
<1>1. Count(n) \in Nat /\ Count(n) <= n
    BY CountIsNatural
<1>2. \A i \in 1 .. Count(n) : V[n - Count(n) + i - 1] \in T
    BY <1>1
<1> QED BY <1>1, <1>2 DEF LastOf

\* The rows of V that still show at length p are those of W.
Retains(V, W, n, p) == \A col \in Nat : col < n /\ p <= col + Depth => W[col] = V[col]

\* Sequence b has a row for each column from n to p, those that show at p from W.
Lists(b, W, n, p) ==
    \A col \in Nat, i \in 1 .. Len(b) : col + 1 = n + i /\ p <= col + Depth => b[i] = W[col]

\* Sequence c ends like a \o b.
Ends(a, b, c) ==
    \A i \in 1 .. Len(c), j \in Nat : j = Len(a) + Len(b) - Len(c) + i =>
        /\ j <= Len(a) => c[i] = a[j]
        /\ j > Len(a) => c[i] = b[j - Len(a)]

\* Sequences are equal when their elements are.
LEMMA LastOfSequences ==
    ASSUME NEW T, NEW a \in Seq(T), NEW b \in Seq(T), NEW c \in Seq(T),
           Len(c) = IF Len(a) + Len(b) <= Depth THEN Len(a) + Len(b) ELSE Depth,
           Ends(a, b, c)
    PROVE  History!LastRows(a \o b) = c
<1> DEFINE off == Len(a) + Len(b) - Len(c)
<1>1. Len(a) \in Nat /\ Len(b) \in Nat /\ Len(c) \in Nat /\ Depth \in Nat
    BY LenProperties, DepthIsNatural
<1>2. off \in Nat /\ off + Len(c) = Len(a) + Len(b)
    BY <1>1
<1> HIDE DEF off
<1>3. /\ a \o b \in Seq(T) /\ Len(a \o b) = Len(a) + Len(b)
      /\ \A i \in 1 .. Len(a) + Len(b) : (a \o b)[i] =
             IF i <= Len(a) THEN a[i] ELSE b[i - Len(a)]
    BY ConcatProperties
<1>4. PICK d \in Seq(T) : d = a \o b
    BY <1>3
<1>5. Len(d) = Len(a) + Len(b) /\ Len(d) \in Nat
    BY <1>1, <1>3, <1>4
<1>6. \A i \in 1 .. Len(c) : c[i] = d[off + i]
  <2> SUFFICES ASSUME NEW i \in 1 .. Len(c) PROVE c[i] = d[off + i]
      OBVIOUS
  <2>1. PICK j \in 1 .. Len(a) + Len(b) : j = off + i
      BY <1>1, <1>2
  <2>2. j = Len(a) + Len(b) - Len(c) + i /\ j \in Nat
    <3>1. j \in Nat
        BY <1>1, <2>1
    <3>2. Len(a) + Len(b) - Len(c) = off
        BY <1>1, <1>2
    <3> QED BY <2>1, <3>1, <3>2
  <2>3. d[j] = IF j <= Len(a) THEN a[j] ELSE b[j - Len(a)]
      BY <1>3, <1>4
  <2>4. /\ j <= Len(a) => c[i] = a[j]
        /\ j > Len(a) => c[i] = b[j - Len(a)]
      BY <2>2 DEF Ends
  <2>5. j <= Len(a) \/ j > Len(a)
      BY <1>1
  <2> QED BY <2>1, <2>3, <2>4, <2>5
<1>7. CASE Len(a) + Len(b) <= Depth
  <2>1. History!LastRows(d) = d
      BY <1>5, <1>7 DEF History!LastRows
  <2>2. Len(d) = Len(c) /\ off = 0
      BY <1>1, <1>2, <1>5, <1>7
  <2>3. \A i \in 1 .. Len(d) : d[i] = c[i]
      BY <1>1, <1>6, <2>2
  <2>4. d = c
      BY <2>2, <2>3, SeqEqual
  <2> QED BY <1>4, <2>1, <2>4
<1>8. CASE Len(a) + Len(b) > Depth
  <2>1. PICK f \in Int : f = Len(d) - Depth + 1
    <3>1. Len(d) - Depth + 1 \in Int
        BY <1>1, <1>5
    <3> QED BY <3>1
  <2>2. PICK g \in Int : g = Len(d)
      BY <1>5
  <2>3. PICK e : e = SubSeq(d, f, g)
      OBVIOUS
  <2>4. History!LastRows(d) = e
      BY <1>1, <1>5, <1>8, <2>1, <2>2, <2>3 DEF History!LastRows
  <2>5. f = off + 1 /\ Len(c) = Depth /\ g - f + 1 = Len(c)
    <3>1. Len(c) = Depth
        BY <1>1, <1>8
    <3>2. g = off + Depth
        BY <1>2, <1>5, <2>2, <3>1
    <3> QED BY <1>1, <1>2, <2>1, <2>2, <3>1, <3>2
  <2>6. \A i \in f .. g : d[i] \in T
    <3> SUFFICES ASSUME NEW i \in f .. g PROVE d[i] \in T
        OBVIOUS
    <3>1. i \in 1 .. Len(d)
        BY <1>2, <2>2, <2>5
    <3> QED BY <3>1, ElementOfSeq
  <2>7. /\ e \in Seq(T) /\ Len(e) = IF f <= g THEN g - f + 1 ELSE 0
        /\ \A i \in 1 .. g - f + 1 : e[i] = d[f + i - 1]
      BY <2>3, <2>6, SubSeqProperties
  <2>8. Len(e) = Len(c)
      BY <1>1, <2>5, <2>7
  <2>9. \A i \in 1 .. Len(e) : e[i] = c[i]
    <3> SUFFICES ASSUME NEW i \in 1 .. Len(c) PROVE e[i] = c[i]
        BY <2>8
    <3>1. i \in 1 .. g - f + 1
        BY <2>5
    <3>3. f + i - 1 = off + i
        BY <1>1, <1>2, <2>5
    <3>2. e[i] = d[f + i - 1]
        BY <2>7, <3>1
    <3> QED BY <1>6, <3>2, <3>3
  <2>10. e = c
      BY <2>7, <2>8, <2>9, SeqEqual
  <2> QED BY <1>4, <2>4, <2>10
<1> QED BY <1>1, <1>7, <1>8

\* The last rows of what could be read followed by new rows are the rows that can
\* be read at the longer length, when the old rows that stay are the same.
LEMMA LastRowsExtend ==
    ASSUME NEW S, NEW n \in Nat, NEW b \in Seq(S), NEW p \in Nat, p = n + Len(b), NEW V, NEW W,
           Retains(V, W, n, p), Lists(b, W, n, p)
    PROVE  History!LastRows(LastOf(V, n) \o b) = LastOf(W, p)
<1>1. PICK D \in Nat, x \in Nat, y \in Nat : D = Depth /\ x = Count(n) /\ y = Count(p)
    BY DepthIsNatural, CountIsNatural
<1>2. PICK m \in Nat : m = Len(b)
    BY LenProperties
<1>3. /\ n <= D => x = n
      /\ n > D => x = D
      /\ p <= D => y = p
      /\ p > D => y = D
      /\ p = n + m
    BY <1>1, <1>2 DEF Count, Lesser
<1>4. PICK T : (\A col \in Nat : V[col] \in T /\ W[col] \in T) /\ S \subseteq T
  <2> WITNESS {V[col] : col \in Nat} \cup {W[col] : col \in Nat} \cup S
  <2> QED OBVIOUS
<1>5. PICK a \in Seq(T) : /\ a = LastOf(V, n) /\ Len(a) = x
                          /\ \A i \in 1 .. x : a[i] = V[n - x + i - 1]
  <2>1. \A col \in Nat : V[col] \in T
      BY <1>4
  <2>2. /\ LastOf(V, n) \in Seq(T) /\ Len(LastOf(V, n)) = Count(n)
        /\ \A i \in 1 .. Count(n) : LastOf(V, n)[i] = V[n - Count(n) + i - 1]
      BY <2>1, LastOfIsSequence
  <2> QED BY <1>1, <2>2
<1>6. PICK c \in Seq(T) : /\ c = LastOf(W, p) /\ Len(c) = y
                          /\ \A i \in 1 .. y : c[i] = W[p - y + i - 1]
  <2>1. \A col \in Nat : W[col] \in T
      BY <1>4
  <2>2. /\ LastOf(W, p) \in Seq(T) /\ Len(LastOf(W, p)) = Count(p)
        /\ \A i \in 1 .. Count(p) : LastOf(W, p)[i] = W[p - Count(p) + i - 1]
      BY <2>1, LastOfIsSequence
  <2> QED BY <1>1, <2>2
<1>7. PICK e \in Seq(T) : e = b
  <2>1. ASSUME NEW i \in 1 .. m PROVE b[i] \in T
    <3>1. b[i] \in S
        BY <1>2, ElementOfSeq
    <3> QED BY <1>4, <3>1
  <2>2. b \in [1 .. m -> T]
      BY <1>2, <2>1, LenProperties
  <2> QED BY <2>2
<1>8. PICK off \in Nat : off + y = x + m
  <2>1. x + m - y \in Nat
      BY <1>3
  <2>2. PICK off \in Nat : off = x + m - y
      BY <2>1
  <2>3. off + y = x + m
      BY <2>2
  <2> QED BY <2>3
<1>9. Len(a) = x /\ Len(e) = m /\ Len(c) = y
    BY <1>2, <1>5, <1>6, <1>7
<1>10. ASSUME NEW i \in 1 .. y, NEW j \in Nat, j = x + m - y + i
      PROVE  /\ j <= x => c[i] = a[j]
             /\ j > x => c[i] = e[j - x]
  <2>1. j = off + i /\ j >= 1
      BY <1>8, <1>10
  <2>2. PICK col \in Nat : col = p - y + i - 1
    <3>1. p - y + i - 1 \in Nat
        BY <1>3
    <3> QED BY <3>1
  <2>3. c[i] = W[col]
      BY <1>6, <2>2
  <2>4. col = n - x + j - 1
      BY <1>3, <1>10, <2>2
  <2>5. ASSUME j <= x PROVE c[i] = a[j]
    <3>1. j \in 1 .. x
        BY <2>1, <2>5
    <3>2. a[j] = V[col]
        BY <1>5, <2>4, <3>1
    <3>3. col < n
        BY <2>4, <2>5
    <3>4. p <= col + D
        BY <1>3, <2>2
    <3> QED BY <1>1, <2>3, <3>2, <3>3, <3>4 DEF Retains
  <2>6. ASSUME j > x PROVE c[i] = e[j - x]
    <3>1. PICK k \in Nat : k + x = j /\ k >= 1
      <4>1. j - x \in Nat /\ j - x >= 1 /\ (j - x) + x = j
          BY <2>6
      <4> QED BY <4>1
    <3>2. k <= m
        BY <1>10, <3>1
    <3>3. col + 1 = n + k /\ p <= col + D
        BY <1>3, <2>2, <2>4, <3>1
    <3>4. k \in 1 .. Len(b)
        BY <1>2, <3>1, <3>2
    <3>5. e[k] = W[col]
        BY <1>1, <1>7, <3>3, <3>4 DEF Lists
    <3>6. j - x = k
        BY <3>1
    <3> QED BY <2>3, <3>5, <3>6
  <2> QED BY <2>5, <2>6
<1>11. Ends(a, e, c)
  <2> SUFFICES ASSUME NEW i \in 1 .. Len(c), NEW j \in Nat, j = Len(a) + Len(e) - Len(c) + i
               PROVE  /\ j <= Len(a) => c[i] = a[j]
                      /\ j > Len(a) => c[i] = e[j - Len(a)]
      BY DEF Ends
  <2>1. i \in 1 .. y /\ j = x + m - y + i
      BY <1>9
  <2> QED BY <1>9, <1>10, <2>1
<1>12. Len(c) = IF Len(a) + Len(e) <= Depth THEN Len(a) + Len(e) ELSE Depth
  <2>1. y = IF x + m <= D THEN x + m ELSE D
      BY <1>3
  <2> QED BY <1>1, <1>9, <2>1
<1>13. History!LastRows(a \o e) = c
    BY <1>11, <1>12, LastOfSequences
<1> QED BY <1>5, <1>6, <1>7, <1>13

\* While no row was dropped, the first rows are the rows that can be read at the
\* shorter length.
LEMMA FirstRowsCut ==
    ASSUME NEW n \in Nat, NEW m \in Nat, m <= n, Count(n) = n, NEW V
    PROVE  Len(LastOf(V, n)) = n /\ SubSeq(LastOf(V, n), 1, m) = LastOf(V, m)
<1>1. Count(m) = m
    BY DepthIsNatural DEF Count, Lesser
<1>2. PICK T : \A col \in Nat : V[col] \in T
  <2> WITNESS {V[col] : col \in Nat}
  <2> QED OBVIOUS
<1>3. PICK a \in Seq(T) : /\ a = LastOf(V, n) /\ Len(a) = Count(n)
                          /\ \A i \in 1 .. Count(n) : a[i] = V[n - Count(n) + i - 1]
  <2>1. \A col \in Nat : V[col] \in T
      BY <1>2
  <2>2. /\ LastOf(V, n) \in Seq(T) /\ Len(LastOf(V, n)) = Count(n)
        /\ \A i \in 1 .. Count(n) : LastOf(V, n)[i] = V[n - Count(n) + i - 1]
      BY <2>1, LastOfIsSequence
  <2> QED BY <2>2
<1>4. PICK c \in Seq(T) : /\ c = LastOf(V, m) /\ Len(c) = Count(m)
                          /\ \A i \in 1 .. Count(m) : c[i] = V[m - Count(m) + i - 1]
  <2>1. \A col \in Nat : V[col] \in T
      BY <1>2
  <2>2. /\ LastOf(V, m) \in Seq(T) /\ Len(LastOf(V, m)) = Count(m)
        /\ \A i \in 1 .. Count(m) : LastOf(V, m)[i] = V[m - Count(m) + i - 1]
      BY <2>1, LastOfIsSequence
  <2> QED BY <2>2
<1>5. \A i \in 1 .. m : a[i] = c[i] /\ a[i] \in T
  <2> SUFFICES ASSUME NEW i \in 1 .. m PROVE a[i] = c[i] /\ a[i] \in T
      OBVIOUS
  <2>1. a[i] = V[n - n + i - 1] /\ c[i] = V[m - m + i - 1]
      BY <1>1, <1>3, <1>4
  <2>2. n - n + i - 1 = i - 1 /\ m - m + i - 1 = i - 1 /\ i - 1 \in Nat
      OBVIOUS
  <2> QED BY <1>2, <2>1, <2>2
<1>6. PICK e : e = SubSeq(a, 1, m)
    OBVIOUS
<1>7. /\ e \in Seq(T) /\ Len(e) = (IF 1 <= m THEN m - 1 + 1 ELSE 0)
      /\ \A i \in 1 .. m - 1 + 1 : e[i] = a[1 + i - 1]
    BY <1>5, <1>6, SubSeqProperties
<1>8. Len(e) = Len(c) /\ \A i \in 1 .. Len(e) : e[i] = c[i]
  <2>1. Len(e) = m /\ Len(c) = m
      BY <1>1, <1>4, <1>7
  <2>2. ASSUME NEW i \in 1 .. m PROVE e[i] = c[i]
    <3>1. i \in 1 .. m - 1 + 1 /\ 1 + i - 1 = i
        OBVIOUS
    <3>2. e[i] = a[i]
        BY <1>7, <3>1
    <3> QED BY <1>5, <3>2
  <2> QED BY <2>1, <2>2
<1>9. e = c
    BY <1>7, <1>8, SeqEqual
<1> QED BY <1>3, <1>4, <1>6, <1>9

------------------------------------------------------------------------------
(* What shows of a step. *)

\* The contents that are found for each column.
At(c) == [col \in Nat |-> Fetched(c, col)]

\* What can be read, as a function of those.
LEMMA ReadsLast ==
    ASSUME NEW c \in Contexts, Length(c) \in Nat
    PROVE  Readable(c) = LastOf(At(c), Length(c))
<1>1. PICK n \in Nat : n = Length(c)
    OBVIOUS
<1>2. Count(n) \in Nat /\ Count(n) <= n
    BY CountIsNatural
<1>3. \A i \in 1 .. Count(n) : n - Count(n) + i - 1 \in Nat
    BY <1>2
<1>4. \A i \in 1 .. Count(n) : Fetched(c, n - Count(n) + i - 1) = At(c)[n - Count(n) + i - 1]
    BY <1>3 DEF At
<1>5. Readable(c) = [i \in 1 .. Count(n) |-> Fetched(c, n - Count(n) + i - 1)]
    BY <1>1 DEF Readable, Count
<1> QED BY <1>1, <1>4, <1>5 DEF LastOf

\* The same reading of the rows after a step.
LEMMA ReadsLastNext ==
    ASSUME NEW c \in Contexts, Length(c)' \in Nat
    PROVE  Readable(c)' = LastOf(At(c)', Length(c)')
<1>1. PICK n \in Nat : n = Length(c)'
    OBVIOUS
<1>2. Count(n) \in Nat /\ Count(n) <= n
    BY CountIsNatural
<1>3. \A i \in 1 .. Count(n) : n - Count(n) + i - 1 \in Nat
    BY <1>2
<1>4. \A i \in 1 .. Count(n) : Fetched(c, n - Count(n) + i - 1)' = At(c)'[n - Count(n) + i - 1]
    BY <1>3 DEF At
<1>5. Readable(c)' = [i \in 1 .. Count(n) |-> Fetched(c, n - Count(n) + i - 1)']
    BY <1>1 DEF Readable, Count
<1> QED BY <1>1, <1>4, <1>5 DEF LastOf

\* Nothing of c shows.
Same(c) == Status(c)' = Status(c) /\ Length(c)' = Length(c) /\ Readable(c)' = Readable(c)

\* Context c is uncertain from this step on.
Breaks(c) == Status(c) # "gone" /\ Status(c)' = "gone"

\* A step that shows in no context.
LEMMA NothingShows ==
    ASSUME \A c \in Contexts : Same(c)
    PROVE  UNCHANGED History!vars
<1>1. /\ [c \in Contexts |-> Status(c)]' = [c \in Contexts |-> Status(c)]
      /\ [c \in Contexts |-> Length(c)]' = [c \in Contexts |-> Length(c)]
      /\ [c \in Contexts |-> Readable(c)]' = [c \in Contexts |-> Readable(c)]
    BY DEF Same
<1> QED BY <1>1 DEF History!vars

\* Nothing can be read of a context that is not live.
LEMMA NotLive ==
    ASSUME NEW c \in Contexts
    PROVE  /\ Status(c) # "live" => Length(c) = 0 /\ Readable(c) = <<>>
           /\ Status(c)' # "live" => Length(c)' = 0 /\ Readable(c)' = <<>>
<1>1. Count(0) = 0
    BY DepthIsNatural DEF Count, Lesser
<1>2. \A V : LastOf(V, 0) = <<>>
    BY <1>1 DEF LastOf
<1>3. Status(c) # "live" => Length(c) = 0
    BY DEF Length
<1>4. Status(c)' # "live" => Length(c)' = 0
    BY DEF Length
<1> QED BY <1>2, <1>3, <1>4, ReadsLast, ReadsLastNext

\* A step after which some contexts are uncertain.
LEMMA SomeBreak ==
    ASSUME \A c \in Contexts : Same(c) \/ Breaks(c)
    PROVE  [History!Next]_(History!vars)
<1> DEFINE S == {c \in Contexts : Breaks(c)}
<1>1. \A c \in Contexts : Breaks(c) =>
          /\ Status(c) # "gone" /\ Status(c)' = "gone"
          /\ Length(c)' = 0 /\ Readable(c)' = <<>>
    BY NotLive DEF Breaks
<1>2. \A c \in Contexts : ~Breaks(c) =>
          Status(c)' = Status(c) /\ Length(c)' = Length(c) /\ Readable(c)' = Readable(c)
    BY DEF Same
<1>3. History!Break(S)
  <2>1. \A c \in S : [x \in Contexts |-> Status(x)][c] # "gone"
      BY <1>1
  <2>2. [c \in Contexts |-> Status(c)]' =
            [c \in Contexts |-> IF c \in S THEN "gone" ELSE [x \in Contexts |-> Status(x)][c]]
      BY <1>1, <1>2
  <2>3. [c \in Contexts |-> Length(c)]' =
            [c \in Contexts |-> IF c \in S THEN 0 ELSE [x \in Contexts |-> Length(x)][c]]
      BY <1>1, <1>2
  <2>4. [c \in Contexts |-> Readable(c)]' =
            [c \in Contexts |-> IF c \in S THEN <<>> ELSE [x \in Contexts |-> Readable(x)][c]]
      BY <1>1, <1>2
  <2> QED BY <2>1, <2>2, <2>3, <2>4 DEF History!Break
<1>4. S \in SUBSET Contexts
    OBVIOUS
<1> QED BY <1>3, <1>4 DEF History!Next

\* The rows that a step adds to c and that show are rows of runs.
Accepts(c) ==
    \A col \in Nat : Length(c) <= col /\ col < Length(c)' /\ Length(c)' <= col + Depth
                         => At(c)'[col] \in Tags

\* A step that adds rows to one context.
LEMMA OneExtends ==
    ASSUME NEW e \in Contexts, \A c \in Contexts \ {e} : Same(c),
           Status(e) = "live", Status(e)' = "live",
           Length(e) \in Nat, NEW n \in 1 .. ChunkLength, Length(e)' = Length(e) + n,
           Retains(At(e), At(e)', Length(e), Length(e)'), Accepts(e)
    PROVE  [History!Next]_(History!vars)
<1>1. PICK q \in Nat : q = Length(e)
    OBVIOUS
<1>2. n \in Nat /\ ChunkLength \in Nat
    BY ContextAssumption
<1>3. PICK p \in Nat : p = q + n
    BY <1>2
<1>11. PICK V, W : V = At(e) /\ W = At(e)'
    OBVIOUS
<1>4. /\ Retains(V, W, q, p)
      /\ \A col \in Nat : q <= col /\ col < p /\ p <= col + Depth => W[col] \in Tags
    BY <1>1, <1>3, <1>11 DEF Accepts
\* A row is added, so there is some tag for the rows that do not show.
<1>12. PICK t \in Tags : TRUE
  <2>1. PICK D \in Nat : D = Depth /\ D >= 1
      BY ObservedAssumption, SlotsAssumption DEF Depth, IsSliding
  <2>2. PICK col \in Nat : p = col + 1
      BY <1>2, <1>3
  <2> QED BY <1>2, <1>3, <1>4, <2>1, <2>2
<1>5. PICK rows \in Seq(Tags) : /\ Len(rows) = n /\ rows \in [1 .. n -> Tags]
                                /\ \A i \in 1 .. n : W[q + i - 1] \in Tags => rows[i] = W[q + i - 1]
  <2>2. PICK f : f = [i \in 1 .. n |-> IF W[q + i - 1] \in Tags THEN W[q + i - 1] ELSE t]
      OBVIOUS
  <2>3. /\ f \in [1 .. n -> Tags]
        /\ \A i \in 1 .. n : W[q + i - 1] \in Tags => f[i] = W[q + i - 1]
      BY <1>12, <2>2
  <2>4. f \in Seq(Tags) /\ Len(f) = n
      BY <1>2, <2>3
  <2> QED BY <2>3, <2>4
<1>6. p = q + Len(rows)
    BY <1>3, <1>5
<1>7. History!LastRows(LastOf(V, q) \o rows) = LastOf(W, p)
  <2>2. ASSUME NEW col \in Nat, NEW i \in 1 .. Len(rows), col + 1 = q + i, p <= col + Depth
        PROVE  rows[i] = W[col]
    <3>1. col = q + i - 1 /\ q <= col /\ col < p
        BY <1>2, <1>3, <1>5, <2>2
    <3>2. W[col] \in Tags
        BY <1>4, <2>2, <3>1
    <3> QED BY <1>5, <3>1, <3>2
  <2>3. Lists(rows, W, q, p)
      BY <2>2 DEF Lists
  <2> QED BY <1>4, <1>6, <2>3, LastRowsExtend
<1>8. Readable(e)' = History!LastRows(Readable(e) \o rows)
  <2>1. Length(e)' = p /\ Length(e)' \in Nat
      BY <1>1, <1>3
  <2> QED BY <1>1, <1>7, <1>11, <2>1, ReadsLast, ReadsLastNext
<1>9. \A c \in Contexts \ {e} :
          Status(c)' = Status(c) /\ Length(c)' = Length(c) /\ Readable(c)' = Readable(c)
    BY DEF Same
<1>10. History!Extend(e)
  <2>1. [c \in Contexts |-> Status(c)][e] = "live"
      OBVIOUS
  <2>2. [c \in Contexts |-> Length(c)]' = [[c \in Contexts |-> Length(c)] EXCEPT ![e] = @ + n]
      BY <1>9
  <2>3. [c \in Contexts |-> Readable(c)]' =
            [[c \in Contexts |-> Readable(c)] EXCEPT ![e] = History!LastRows(@ \o rows)]
      BY <1>8, <1>9
  <2>4. [c \in Contexts |-> Status(c)]' = [c \in Contexts |-> Status(c)]
      BY <1>9
  <2> QED BY <1>5, <2>1, <2>2, <2>3, <2>4 DEF History!Extend
<1> QED BY <1>10 DEF History!Next

\* A step that drops rows from the end of one context.
LEMMA OneCut ==
    ASSUME NEW e \in Contexts, \A c \in Contexts \ {e} : Same(c),
           Status(e) = "live", Status(e)' = "live",
           Length(e) \in Nat, Length(e) <= Depth, Length(e)' \in 0 .. Length(e),
           \A col \in Nat : Fetched(e, col)' = Fetched(e, col)
    PROVE  [History!Next]_(History!vars)
<1>1. PICK m \in Nat : m = Length(e)' /\ m <= Length(e)
    OBVIOUS
<1>2. At(e)' = At(e)
    BY DEF At
<1>3. Count(Length(e)) = Length(e)
    BY DepthIsNatural DEF Count, Lesser
<1>4. Len(Readable(e)) = Length(e) /\ Readable(e)' = SubSeq(Readable(e), 1, m)
    BY <1>1, <1>2, <1>3, ReadsLast, ReadsLastNext, FirstRowsCut
<1>5. \A c \in Contexts \ {e} :
          Status(c)' = Status(c) /\ Length(c)' = Length(c) /\ Readable(c)' = Readable(c)
    BY DEF Same
<1>6. History!Cut(e)
  <2>1. /\ [c \in Contexts |-> Status(c)][e] = "live"
        /\ Len([c \in Contexts |-> Readable(c)][e]) = [c \in Contexts |-> Length(c)][e]
        /\ m \in 0 .. [c \in Contexts |-> Length(c)][e]
      BY <1>1, <1>4
  <2>2. [c \in Contexts |-> Length(c)]' = [[c \in Contexts |-> Length(c)] EXCEPT ![e] = m]
      BY <1>1, <1>5
  <2>3. [c \in Contexts |-> Readable(c)]' =
            [[c \in Contexts |-> Readable(c)] EXCEPT ![e] = SubSeq(@, 1, m)]
      BY <1>4, <1>5
  <2>4. [c \in Contexts |-> Status(c)]' = [c \in Contexts |-> Status(c)]
      BY <1>5
  <2> QED BY <2>1, <2>2, <2>3, <2>4 DEF History!Cut
<1> QED BY <1>6 DEF History!Next

\* A step that makes a copy.
LEMMA OneCopies ==
    ASSUME NEW e \in Contexts, NEW d \in Contexts, \A c \in Contexts \ {d} : Same(c),
           Status(e) = "live", Status(d) = "absent", Status(d)' = "live",
           Length(d)' = Length(e), Readable(d)' = Readable(e)
    PROVE  [History!Next]_(History!vars)
<1>1. \A c \in Contexts \ {d} :
          Status(c)' = Status(c) /\ Length(c)' = Length(c) /\ Readable(c)' = Readable(c)
    BY DEF Same
<1>2. /\ [c \in Contexts |-> Status(c)][e] = "live"
      /\ [c \in Contexts |-> Status(c)][d] = "absent"
    OBVIOUS
<1>3. [c \in Contexts |-> Status(c)]' = [[c \in Contexts |-> Status(c)] EXCEPT ![d] = "live"]
    BY <1>1
<1>4. [c \in Contexts |-> Length(c)]' =
          [[c \in Contexts |-> Length(c)] EXCEPT ![d] = [c \in Contexts |-> Length(c)][e]]
    BY <1>1
<1>5. [c \in Contexts |-> Readable(c)]' =
          [[c \in Contexts |-> Readable(c)] EXCEPT ![d] = [c \in Contexts |-> Readable(c)][e]]
    BY <1>1
<1>6. History!Copy(e, d)
    BY <1>2, <1>3, <1>4, <1>5 DEF History!Copy
<1> QED BY <1>6 DEF History!Next

------------------------------------------------------------------------------
(* What was accepted are contents of runs. *)

\* A run of the step is the run before it, but for its progress, or a new one.
SameTag(r) ==
    Unsettled(r)' => \/ /\ Unsettled(r) /\ runs'[r].ctx = runs[r].ctx
                        /\ runs'[r].tag = runs[r].tag /\ runs'[r].query = runs[r].query
                     \/ /\ runs'[r].query \in QueryLengths
                        /\ ~IsBorrowing(runs[r].ctx)' => runs'[r].tag \in Tags

\* Accepted rows of c are those from before the step.
SameAccepted(c) ==
    ~IsBorrowing(c)' =>
        /\ ~IsBorrowing(c) /\ UncommittedEnd(c)' <= UncommittedEnd(c)
        /\ \A col \in Columns : col < UncommittedEnd(c)' => history'[c][col] = history[c][col]

\* Steps that issue no run keep the runs' contents.
LEMMA TagsKept ==
    ASSUME IInv, NEW r \in Runs, RunStep(r) \/ SettleBatch
    PROVE  \A x \in Runs : Unsettled(x)' =>
              /\ Unsettled(x) /\ runs'[x].ctx = runs[x].ctx
              /\ runs'[x].tag = runs[x].tag /\ runs'[x].query = runs[x].query
<1>1. RunTypes
    BY DEF IInv, TypeOK
<1>2. ASSUME NEW ok \in BOOLEAN, NEW wrote \in BOOLEAN, EndBody(r, ok, wrote), Unsettled(r),
             NEW x \in Runs
      PROVE  /\ Unsettled(x)' => Unsettled(x) /\ runs'[x].ctx = runs[x].ctx
             /\ runs'[x].tag = runs[x].tag /\ runs'[x].query = runs[x].query
    BY <1>2, BodyEnds DEF Unsettled
<1>3. CASE StartBody(r) /\ runs' = [runs EXCEPT ![r] =
                    [@ EXCEPT !.stage = "started",
                              !.start = IF runs[r].mode = "chained" THEN runs[r].start
                                        ELSE pastLength[Owner(runs[r].ctx)]]]
  <2>1. /\ runs'[r].ctx = runs[r].ctx /\ runs'[r].tag = runs[r].tag
        /\ runs'[r].query = runs[r].query /\ \A x \in Runs \ {r} : runs'[x] = runs[x]
      BY <1>1, <1>3 DEF RunTypes, Run
  <2> QED BY <1>3, <2>1 DEF StartBody, Unsettled
<1>4. CASE SettleRun(r)
  <2>1. runs' = [runs EXCEPT ![r].stage = "settled"] /\ Unsettled(r)
      BY <1>4 DEF SettleRun, Unsettled
  <2>2. /\ runs'[r].ctx = runs[r].ctx /\ runs'[r].tag = runs[r].tag
        /\ runs'[r].query = runs[r].query /\ \A x \in Runs \ {r} : runs'[x] = runs[x]
      BY <1>1, <2>1 DEF RunTypes, Run
  <2> QED BY <2>1, <2>2 DEF Unsettled
<1>5. CASE ReleaseRun(r)
  <2>1. runs' = [runs EXCEPT ![r] = IdleRun]
      BY <1>5 DEF ReleaseRun
  <2> QED BY <1>1, <2>1 DEF RunTypes, IdleRun, Unsettled
<1>6. CASE SettleBatch
  <2>1. runs' = [x \in Runs |-> IF x \in BatchRuns THEN IdleRun ELSE runs[x]]
      BY <1>6 DEF SettleBatch
  <2> QED BY <2>1 DEF IdleRun, Unsettled
<1>7. CASE WriteBody(r)
  <2>1. PICK wrote \in BOOLEAN : wrote = (~IsBorrowing(runs[r].ctx))
      OBVIOUS
  <2> QED BY <1>2, <1>7, <2>1 DEF WriteBody, Unsettled
<1>8. CASE DropBody(r) \/ BreakBody(r) \/ (StartBody(r) /\ EndBody(r, FALSE, FALSE))
    BY <1>2, <1>8 DEF DropBody, BreakBody, StartBody, Unsettled
<1> QED BY <1>3, <1>4, <1>5, <1>6, <1>7, <1>8 DEF RunStep, StartBody

\* A conclusion accepts the rows of its runs.
LEMMA ConclusionKeepsTagged ==
    ASSUME RingInv, Tagged, NEW c \in Contexts, ~IsBorrowing(c), ~poisoned[c],
           Settles(c, RunsOf(c)),
           NEW col \in Columns, col < UncommittedEnd(c)'
    PROVE  history'[c][col] \in Tags
<1> DEFINE R == RunsOf(c)
           x0 == CHOOSE x \in R : runs[x].start <= col /\ col < RunEnd(x)
<1>1. IInv /\ CapturedLengthHolds /\ Tiling /\ Slack /\ Coverage
    BY DEF RingInv, Basis, Positions
<1>2. /\ pastLength[c] \in Nat /\ UncommittedEnd(c) \in Nat /\ col \in Nat
      /\ \A r \in R : /\ r \in Runs /\ runs[r].ctx = c /\ runs[r].stage = "written"
                      /\ runs[r].start \in Nat /\ RunEnd(r) \in Nat /\ runs[r].tag \in Tags
    BY <1>1, Shapes DEF RunsOf, Settles, Tagged, Unsettled, Columns
<1>3. history'[c][col] = IF \E x \in R : runs[x].start <= col /\ col < RunEnd(x)
                         THEN runs[x0].tag ELSE history[c][col]
  <2>1. Advances(c, R) \/ Defers(c, R)
      BY <1>2 DEF Advances, Defers, Settles
  <2> QED BY <2>1 DEF Settles, NextHistory, Recorded
<1>4. CASE \E x \in R : runs[x].start <= col /\ col < RunEnd(x)
  <2>1. x0 \in R
      BY <1>4
  <2> HIDE DEF R, x0
  <2> QED BY <1>2, <1>3, <1>4, <2>1
<1>5. CASE ~ \E x \in R : runs[x].start <= col /\ col < RunEnd(x)
  <2>1. PICK r \in R : /\ UncommittedEnd(c)' = RunEnd(r)
                       /\ (Advanced(c, R) /\ R = {r}) \/ Deferred(c, R)
      BY <1>1, EndsMoved
  <2>2. col < RunEnd(r) /\ col < runs[r].start
      BY <1>2, <1>5, <2>1
  <2>3. col < UncommittedEnd(c)
    <3> SUFFICES ASSUME UncommittedEnd(c) <= col PROVE FALSE
        BY <1>2
    <3>1. CASE Advanced(c, R) /\ R = {r}
      <4>1. runs[r].start = pastLength[c] /\ ~AwaitsCommit(c)
          BY <3>1 DEF Advanced
      <4> QED BY <1>2, <2>2, <4>1 DEF UncommittedEnd
    <3>2. CASE Deferred(c, R)
      <4>1. runs[r].mode # "immediate"
          BY <3>2 DEF Deferred
      <4>2. CASE runs[r].mode = "deferred"
        <5>1. runs[r].start = UncommittedEnd(c)
            BY <1>1, <1>2, <4>2, Placed
        <5> QED BY <1>2, <2>2, <5>1
      <4>3. CASE runs[r].mode = "chained"
        <5>1. r \in Members(c) /\ chain[c] # NoChain
            BY <1>1, <1>2, <4>3, ChainedMember DEF Unsettled
        <5>2. RunEnd(r) <= chain[c].end /\ chain[c].end \in Nat
            BY <1>1, <5>1, Shapes DEF Tiling, Tiled
        <5>3. col \in UncommittedEnd(c) .. (chain[c].end - 1)
            BY <1>2, <2>2, <5>2
        <5>4. PICK x \in chain[c].runs : Covers(x, col)
            BY <1>1, <5>1, <5>3 DEF Coverage, Covered
        <5>5. x \in R
            BY <1>1, <5>4, Shapes DEF RunsOf, IInv, Lease, LeasePoints, Unsettled
        <5> QED BY <1>5, <5>4, <5>5 DEF Covers
      <4> QED BY <1>1, <1>2, <4>1, <4>2, <4>3, Shapes
    <3> QED BY <2>1, <3>1, <3>2
  <2> QED BY <1>3, <1>5, <2>3 DEF Tagged
<1> QED BY <1>4, <1>5

\* Every step that is no settlement accepts nothing.
LEMMA AcceptedKept ==
    ASSUME RingInv, [Next]_vars, ~SettleBatch, \A r \in Runs : ~SettleRun(r),
           NEW c \in Contexts, ~ \E d \in Contexts : Fork(d, c)
    PROVE  SameAccepted(c)
<1>1. LengthTypes /\ ContextTypes /\ Slack /\ UncommittedEnd(c) \in Nat
    BY Shapes DEF RingInv, Basis, Positions, IInv, TypeOK
<1>2. ASSUME UNCHANGED <<pastLength[c], pending[c], history[c], lender[c]>>
      PROVE  SameAccepted(c)
  <2>1. UncommittedEnd(c)' = UncommittedEnd(c) /\ (IsBorrowing(c)' <=> IsBorrowing(c))
      BY <1>2 DEF UncommittedEnd, AwaitsCommit, IsBorrowing
  <2> QED BY <1>1, <1>2, <2>1 DEF SameAccepted
<1>3. ASSUME IsBorrowing(c)' PROVE SameAccepted(c)
    BY <1>3 DEF SameAccepted
<1>4. ASSUME NEW r \in Runs, StartBody(r) PROVE SameAccepted(c)
  <2>1. lender' = lender /\ pending' = pending /\ history' = history
      BY <1>4 DEF StartBody
  <2>2. IsBorrowing(c)' \/ pastLength'[c] = pastLength[c]
      BY <1>1, <1>4 DEF StartBody, IsBorrowing, Owner, LengthTypes
  <2> QED BY <1>2, <1>3, <2>1, <2>2
<1>5. ASSUME NEW r \in Runs, Issue(r) \/ WriteBody(r) \/ DropBody(r) \/ BreakBody(r) \/ ReleaseRun(r)
      PROVE  SameAccepted(c)
  <2>1. CASE Issue(r)
    <3>1. UNCHANGED <<pastLength, pending, history, lender>>
        BY <2>1 DEF Issue, IssuePlain, IssueChained, RefuseChained, Accept
    <3> QED BY <1>2, <3>1
  <2>2. CASE WriteBody(r) \/ DropBody(r) \/ BreakBody(r) \/ ReleaseRun(r)
      BY <1>2, <2>2 DEF WriteBody, DropBody, BreakBody, ReleaseRun
  <2> QED BY <1>5, <2>1, <2>2
<1>6. ASSUME ~IsBorrowing(c), NEW end \in Nat, end <= UncommittedEnd(c), UncommittedEnd(c)' = end,
             history'[c] = Forgotten(c, end)
      PROVE  SameAccepted(c)
    BY <1>6 DEF SameAccepted, Forgotten
<1>7. ASSUME NEW e \in Contexts, NEW rows \in 0 .. ChunkLength, Commit(e, rows)
      PROVE  SameAccepted(c)
  <2>1. CASE e # c
      BY <1>1, <1>2, <1>7, <2>1 DEF Commit, LengthTypes
  <2>2. CASE e = c
    <3>1. PICK end \in Nat : end = pending[c].pastLength + rows
        BY <1>1 DEF LengthTypes
    <3>2. /\ ~IsBorrowing(c) /\ AwaitsCommit(c) /\ rows <= pending[c].queryLength
          /\ pastLength'[c] = end /\ pending'[c] = NoPending
          /\ history'[c] = Forgotten(c, end)
        BY <1>1, <1>7, <2>2, <3>1 DEF Commit, LengthTypes
    <3>3. end <= UncommittedEnd(c) /\ UncommittedEnd(c)' = end
        BY <1>1, <3>1, <3>2 DEF UncommittedEnd, AwaitsCommit, LengthTypes
    <3> QED BY <1>6, <3>2, <3>3
  <2> QED BY <2>1, <2>2
<1>8. ASSUME NEW e \in Contexts, NEW position \in 0 .. MaxLogicalLength, Rewind(e, position)
      PROVE  SameAccepted(c)
  <2>1. CASE e # c
      BY <1>1, <1>2, <1>8, <2>1 DEF Rewind, LengthTypes
  <2>2. CASE e = c
    <3>1. PICK end \in Nat : end = position
        BY ContextAssumption
    <3>2. /\ ~IsBorrowing(c) /\ ~AwaitsCommit(c) /\ end <= pastLength[c]
          /\ pastLength'[c] = end /\ pending'[c] = pending[c]
          /\ history'[c] = Forgotten(c, end)
        BY <1>1, <1>8, <2>2, <3>1, ContextAssumption DEF Rewind, Quiescent, LengthTypes
    <3>3. end <= UncommittedEnd(c) /\ UncommittedEnd(c)' = end
        BY <3>2 DEF UncommittedEnd, AwaitsCommit
    <3> QED BY <1>6, <3>2, <3>3
  <2> QED BY <2>1, <2>2
<1>9. ASSUME NEW e \in Contexts, NEW d \in Contexts, Borrow(e, d)
      PROVE  SameAccepted(c)
  <2>1. CASE c = d
    <3>1. lender'[d] = e
        BY <1>1, <1>9 DEF Borrow, ContextTypes
    <3>2. IsBorrowing(c)'
        BY <2>1, <3>1, ContextAssumption DEF IsBorrowing
    <3> QED BY <1>3, <3>2
  <2>2. CASE c # d
      BY <1>1, <1>2, <1>9, <2>2 DEF Borrow, ContextTypes
  <2> QED BY <2>1, <2>2
<1>10. ASSUME NEW e \in Contexts, NEW d \in Contexts, d # c, Fork(e, d)
       PROVE  SameAccepted(c)
    BY <1>1, <1>2, <1>10 DEF Fork, LengthTypes
<1>11. ASSUME NEW e \in Contexts, RegisterBorrower(e) \/ AdoptFork(e) \/ Dispose(e) \/ StartDisposal(e)
       PROVE  SameAccepted(c)
    BY <1>2, <1>11 DEF RegisterBorrower, AdoptFork, Dispose, StartDisposal
<1>12. ASSUME NEW e \in Contexts, FinishDisposal(e) PROVE SameAccepted(c)
  <2>1. lender' = lender /\ pastLength' = pastLength /\ history' = history
        /\ pending' = [pending EXCEPT ![e] = NoPending]
      BY <1>12 DEF FinishDisposal
  <2>2. CASE e # c
      BY <1>1, <1>2, <2>1, <2>2 DEF LengthTypes
  <2>3. CASE e = c /\ ~IsBorrowing(c)
    <3>1. pending'[c] = NoPending /\ UncommittedEnd(c)' = pastLength[c]
        BY <1>1, <2>1, <2>3 DEF LengthTypes, UncommittedEnd, AwaitsCommit
    <3>2. pastLength[c] <= UncommittedEnd(c)
        BY <1>1, <2>3 DEF Slack, Room, UncommittedEnd, LengthTypes
    <3> QED BY <2>1, <2>3, <3>1, <3>2 DEF SameAccepted
  <2>4. CASE IsBorrowing(c)
      BY <1>3, <2>1, <2>4 DEF IsBorrowing
  <2> QED BY <2>2, <2>3, <2>4
<1>13. CASE BeginBatch \/ FinishBatch \/ DeviceLoss \/ UNCHANGED vars
    BY <1>2, <1>13 DEF BeginBatch, FinishBatch, DeviceLoss, contextVars, vars
<1>14. ASSUME NEW e \in Contexts, ContextStep(e) PROVE SameAccepted(c)
    BY <1>7, <1>8, <1>9, <1>10, <1>11, <1>12, <1>14 DEF ContextStep
<1>15. ASSUME NEW r \in Runs, RunStep(r) PROVE SameAccepted(c)
    BY <1>4, <1>5, <1>15 DEF RunStep
<1> QED BY <1>5, <1>13, <1>14, <1>15 DEF Next

\* A context that exists keeps its lender.
LEMMA LenderKept ==
    ASSUME IInv, [Next]_vars, NEW c \in Contexts, phase[c] # "absent"
    PROVE  lender'[c] = lender[c]
<1>1. ContextTypes
    BY DEF IInv, TypeOK
<1>2. ASSUME NEW r \in Runs, Issue(r) \/ RunStep(r) PROVE lender'[c] = lender[c]
    BY <1>2, RunsLeaveLives
<1>3. ASSUME NEW e \in Contexts, ContextStep(e) PROVE lender'[c] = lender[c]
    BY <1>1, <1>3 DEF ContextStep, Commit, Rewind, Borrow, Fork, RegisterBorrower, AdoptFork,
           Dispose, StartDisposal, FinishDisposal, ContextTypes
<1>4. CASE BeginBatch \/ FinishBatch \/ SettleBatch \/ DeviceLoss \/ UNCHANGED vars
    BY <1>4 DEF BeginBatch, FinishBatch, SettleBatch, DeviceLoss, contextVars, vars
<1> QED BY <1>2, <1>3, <1>4 DEF Next

\* A poisoned context stays poisoned.
LEMMA PoisonStays ==
    ASSUME IInv, [Next]_vars, NEW c \in Contexts, poisoned[c]
    PROVE  poisoned'[c]
<1>1. LengthTypes
    BY DEF IInv, TypeOK
<1>2. ASSUME NEW r \in Runs, NEW ok \in BOOLEAN, NEW wrote \in BOOLEAN, EndBody(r, ok, wrote)
      PROVE  poisoned'[c]
    BY <1>1, <1>2, BodyEnds DEF LengthTypes
<1>3. ASSUME NEW r \in Runs, RunStep(r) PROVE poisoned'[c]
  <2>1. CASE WriteBody(r)
    <3>1. PICK wrote \in BOOLEAN : wrote = (~IsBorrowing(runs[r].ctx))
        OBVIOUS
    <3> QED BY <1>2, <2>1, <3>1 DEF WriteBody
  <2>2. CASE StartBody(r) \/ DropBody(r) \/ BreakBody(r)
      BY <1>2, <2>2 DEF StartBody, DropBody, BreakBody
  <2>3. CASE SettleRun(r) \/ ReleaseRun(r)
      BY <1>1, <2>3 DEF SettleRun, ReleaseRun, LengthTypes
  <2> QED BY <1>3, <2>1, <2>2, <2>3 DEF RunStep
<1>4. ASSUME NEW r \in Runs, Issue(r) PROVE poisoned'[c]
    BY <1>4 DEF Issue, IssuePlain, IssueChained, RefuseChained, Accept
<1>5. ASSUME NEW e \in Contexts, ContextStep(e) PROVE poisoned'[c]
    BY <1>5 DEF ContextStep, Commit, Rewind, Borrow, Fork, RegisterBorrower, AdoptFork,
           Dispose, StartDisposal, FinishDisposal
<1>6. CASE SettleBatch
    BY <1>6 DEF SettleBatch
<1>7. CASE BeginBatch \/ FinishBatch \/ DeviceLoss \/ UNCHANGED vars
    BY <1>7 DEF BeginBatch, FinishBatch, DeviceLoss, contextVars, vars
<1> QED BY <1>3, <1>4, <1>5, <1>6, <1>7 DEF Next

\* A fork accepts what its source did.
LEMMA ForkKeepsTagged ==
    ASSUME RingInv, Tagged, NEW e \in Contexts, NEW c \in Contexts, Fork(e, c),
           NEW col \in Columns, col < UncommittedEnd(c)'
    PROVE  history'[c][col] \in Tags
<1>1. /\ ~IsBorrowing(e) /\ Quiescent(e) /\ phase[c] = "absent"
      /\ pastLength'[c] = pastLength[e] /\ history'[c] = history[e] /\ pending' = pending
    BY DEF Fork, RingInv, Basis, IInv, TypeOK, LengthTypes
<1>2. ~IsBorrowing(c)
    BY <1>1 DEF RingInv, Basis, IInv, Borrowing
<1>3. ~AwaitsCommit(c)
    BY <1>1, <1>2 DEF RingInv, Positions, Slack, Room
<1>4. UncommittedEnd(c)' = UncommittedEnd(e)
    BY <1>1, <1>3 DEF UncommittedEnd, AwaitsCommit, Quiescent
<1> QED BY <1>1, <1>4 DEF Tagged, Quiescent, Usable, IsLive

\* Tagged, of the runs.
LEMMA RunTagsKept ==
    ASSUME RingInv, Tagged, [Next]_vars, NEW r \in Runs, Unsettled(r)'
    PROVE  /\ runs'[r].query \in QueryLengths
           /\ ~IsBorrowing(runs[r].ctx)' => runs'[r].tag \in Tags
<1>1. IInv /\ RunTypes
    BY DEF RingInv, Basis, IInv, TypeOK
<1>2. ASSUME Unsettled(r), runs'[r].ctx = runs[r].ctx,
             runs'[r].tag = runs[r].tag, runs'[r].query = runs[r].query
      PROVE  /\ runs'[r].query \in QueryLengths
             /\ ~IsBorrowing(runs[r].ctx)' => runs'[r].tag \in Tags
  <2>1. runs[r].ctx \in Contexts /\ phase[runs[r].ctx] # "absent"
      BY <1>1, <1>2, Shapes DEF IInv, Lease, RunsExist
  <2>2. lender'[runs[r].ctx] = lender[runs[r].ctx]
      BY <1>1, <2>1, LenderKept
  <2> QED BY <1>2, <2>2 DEF Tagged, IsBorrowing
<1>3. ASSUME NEW x \in Runs, RunStep(x) \/ SettleBatch
      PROVE  /\ runs'[r].query \in QueryLengths
             /\ ~IsBorrowing(runs[r].ctx)' => runs'[r].tag \in Tags
    BY <1>1, <1>2, <1>3, TagsKept
<1>4. ASSUME UNCHANGED runs
      PROVE  /\ runs'[r].query \in QueryLengths
             /\ ~IsBorrowing(runs[r].ctx)' => runs'[r].tag \in Tags
    BY <1>2, <1>4 DEF Unsettled
<1>5. ASSUME NEW x \in Runs, NEW c \in Contexts, NEW query \in QueryLengths, NEW mode,
             NEW scope, NEW start, NEW tag, Accept(x, c, query, mode, scope, start, tag),
             ~IsBorrowing(c) => tag \in Tags
      PROVE  /\ runs'[r].query \in QueryLengths
             /\ ~IsBorrowing(runs[r].ctx)' => runs'[r].tag \in Tags
  <2>1. /\ lender' = lender
        /\ runs' = [runs EXCEPT ![x] =
                  [stage |-> "queued", ctx |-> c, kind |-> scope, mode |-> mode,
                   query |-> query, start |-> start, tag |-> tag, wrote |-> FALSE]]
      BY <1>5 DEF Accept
  <2>2. CASE r # x
    <3>1. runs'[r] = runs[r]
        BY <1>1, <2>1, <2>2 DEF RunTypes
    <3> QED BY <1>2, <3>1 DEF Unsettled
  <2>3. CASE r = x
    <3>1. runs'[r].ctx = c /\ runs'[r].query = query /\ runs'[r].tag = tag
        BY <1>1, <2>1, <2>3 DEF RunTypes
    <3> QED BY <1>5, <2>1, <3>1 DEF IsBorrowing
  <2> QED BY <2>2, <2>3
<1>6. ASSUME NEW x \in Runs, Issue(x)
      PROVE  /\ runs'[r].query \in QueryLengths
             /\ ~IsBorrowing(runs[r].ctx)' => runs'[r].tag \in Tags
  <2>1. PICK c \in Contexts, query \in QueryLengths, scope \in Scopes, tag \in Tags \cup {NoTag} :
          \/ \E mode \in {"immediate", "deferred"} : IssuePlain(x, c, query, mode, scope, tag)
          \/ IssueChained(x, c, query, scope, tag)
          \/ RefuseChained(x, c, query)
      BY <1>6 DEF Issue
  <2>2. ASSUME NEW mode, IssuePlain(x, c, query, mode, scope, tag)
        PROVE  Accept(x, c, query, mode, scope, 0, tag) /\ (~IsBorrowing(c) => tag \in Tags)
      BY <2>2 DEF IssuePlain
  <2>3. ASSUME IssueChained(x, c, query, scope, tag)
        PROVE  Accept(x, c, query, "chained", scope, ChainStart(c), tag) /\ tag \in Tags
      BY <2>3 DEF IssueChained
  <2>4. ASSUME RefuseChained(x, c, query) PROVE UNCHANGED runs
      BY <2>4 DEF RefuseChained
  <2> QED BY <1>4, <1>5, <2>1, <2>2, <2>3, <2>4
<1>7. CASE BeginBatch \/ FinishBatch \/ DeviceLoss \/ UNCHANGED vars
    BY <1>4, <1>7 DEF BeginBatch, FinishBatch, DeviceLoss, vars
<1>8. ASSUME NEW e \in Contexts, ContextStep(e) PROVE UNCHANGED runs
    BY <1>8 DEF ContextStep, Commit, Rewind, Borrow, Fork, RegisterBorrower, AdoptFork,
           Dispose, StartDisposal, FinishDisposal
<1> QED BY <1>3, <1>4, <1>6, <1>7, <1>8 DEF Next

\* Every step keeps it.
LEMMA TaggedStep == ASSUME RingInv, RingInv', Tagged, [Next]_vars PROVE Tagged'
<1>1. IInv
    BY DEF RingInv, Basis
<1>2. ASSUME NEW r \in Runs, Unsettled(r)'
      PROVE  /\ runs'[r].query \in QueryLengths
             /\ ~IsBorrowing(runs[r].ctx)' => runs'[r].tag \in Tags
    BY <1>2, RunTagsKept
<1>3. ASSUME NEW c \in Contexts, ~IsBorrowing(c)', ~poisoned'[c],
             NEW col \in Columns, col < UncommittedEnd(c)'
      PROVE  history'[c][col] \in Tags
  <2>0. ~poisoned[c]
      BY <1>1, <1>3, PoisonStays
  <2>1. CASE SettleBatch \/ \E r \in Runs : SettleRun(r)
    <3>1. lender' = lender
        BY <2>1 DEF SettleBatch, SettleRun
    <3>2. ~IsBorrowing(c)
        BY <1>3, <3>1 DEF IsBorrowing
    <3>3. CASE Concluding(c)
      <4>1. Settles(c, RunsOf(c))
          BY <1>3, <3>2, <3>3, AllConclude DEF RingInv, Rings
      <4> QED BY <1>3, <2>0, <3>2, <4>1, ConclusionKeepsTagged
    <3>4. CASE UNCHANGED <<pastLength[c], pending[c], history[c]>>
      <4>1. UncommittedEnd(c)' = UncommittedEnd(c)
          BY <3>4 DEF UncommittedEnd, AwaitsCommit
      <4> QED BY <1>3, <2>0, <3>2, <3>4, <4>1 DEF Tagged
    <3> QED BY <1>1, <2>1, <3>3, <3>4, SettleKinds
  <2>2. CASE \E e \in Contexts : Fork(e, c)
      BY <1>3, <2>2, ForkKeepsTagged
  <2>3. CASE ~SettleBatch /\ (\A r \in Runs : ~SettleRun(r)) /\ ~ \E e \in Contexts : Fork(e, c)
    <3>1. SameAccepted(c)
        BY <2>3, AcceptedKept
    <3>2. UncommittedEnd(c) \in Nat /\ UncommittedEnd(c)' \in Nat /\ col \in Nat
        BY <1>1, Shapes DEF RingInv, Basis, Columns, IInv, TypeOK, LengthTypes, UncommittedEnd
    <3>3. col < UncommittedEnd(c)
        BY <1>3, <3>1, <3>2 DEF SameAccepted
    <3> QED BY <1>3, <2>0, <3>1, <3>3 DEF SameAccepted, Tagged
  <2> QED BY <2>1, <2>2, <2>3
<1> QED BY <1>2, <1>3 DEF Tagged

\* Initially nothing is accepted.
LEMMA InitTagged == Init => Tagged
<1> SUFFICES ASSUME Init PROVE Tagged
    OBVIOUS
<1>1. \A r \in Runs : ~Unsettled(r)
    BY DEF Init, Unsettled, IdleRun
<1>2. \A c \in Contexts : UncommittedEnd(c) = 0
    BY DEF Init, UncommittedEnd, AwaitsCommit
<1>3. \A col \in Columns : ~(col < 0)
    BY DEF Columns
<1> QED BY <1>1, <1>2, <1>3 DEF Tagged

------------------------------------------------------------------------------
(* What a context shows. *)

\* The phases in which a context has its slots.
LivePhase(c) == phase[c] \in {"allocating", "open", "closing", "disposed"}

\* When a context is shown as live, absent or broken.
LEMMA StatusOf ==
    ASSUME NEW c \in Contexts
    PROVE  /\ Status(c) = "live" <=> ~IsBorrowing(c) /\ LivePhase(c) /\ IsLive(c) /\ ~Doomed(c)
           /\ Status(c) = "absent" <=> IsBorrowing(c) \/ phase[c] = "absent"
           /\ Status(c) \in {"absent", "live", "gone"}
           /\ Status(c)' = "live" <=>
                  ~IsBorrowing(c)' /\ LivePhase(c)' /\ IsLive(c)' /\ ~Doomed(c)'
           /\ Status(c)' = "absent" <=> IsBorrowing(c)' \/ phase'[c] = "absent"
           /\ Status(c)' \in {"absent", "live", "gone"}
BY DEF Status, LivePhase

\* The length is that of the logical length, or the end of the immediate run that
\* has written.
Lengths ==
    \A c \in Contexts :
        /\ Length(c) \in Nat
        /\ Status(c) = "live" /\ WrittenImmediate(c) = {} => Length(c) = pastLength[c]
        /\ \A r \in WrittenImmediate(c) : Status(c) = "live" => Length(c) = RunEnd(r)

\* The lengths named above follow from the invariant.
LEMMA LengthsAre == IInv => Lengths
<1> SUFFICES ASSUME IInv, NEW c \in Contexts
             PROVE  /\ Length(c) \in Nat
                    /\ Status(c) = "live" /\ WrittenImmediate(c) = {} => Length(c) = pastLength[c]
                    /\ \A r \in WrittenImmediate(c) : Status(c) = "live" => Length(c) = RunEnd(r)
    BY DEF Lengths
<1>1. pastLength[c] \in Nat /\ \A r \in Runs : RunEnd(r) \in Nat
    BY Shapes
<1>2. \A r \in WrittenImmediate(c) : /\ r \in Runs /\ Unsettled(r) /\ runs[r].ctx = c
                                     /\ runs[r].mode = "immediate"
    BY DEF WrittenImmediate, RunsOf, Unsettled
<1>3. \A r, x \in WrittenImmediate(c) : x = r
    BY <1>2, AloneOf
<1>4. ASSUME NEW r \in WrittenImmediate(c), Status(c) = "live"
      PROVE  Length(c) = RunEnd(r) /\ RunEnd(r) \in Nat
  <2>1. (CHOOSE x \in WrittenImmediate(c) : TRUE) = r
      BY <1>3
  <2> QED BY <1>1, <1>2, <1>4, <2>1 DEF Length
<1>5. ASSUME WrittenImmediate(c) = {}, Status(c) = "live" PROVE Length(c) = pastLength[c]
    BY <1>5 DEF Length
<1>6. ASSUME Status(c) # "live" PROVE Length(c) = 0
    BY <1>6 DEF Length
<1> QED BY <1>1, <1>4, <1>5, <1>6

\* The same, of the state after a step.
LEMMA LengthsNext == IInv' => Lengths'
BY LengthsAre, PTL

\* Rows that stay are the rows that can be read.
LEMMA SameRows ==
    ASSUME NEW n \in Nat, NEW V, NEW W, Retains(V, W, n, n)
    PROVE  LastOf(V, n) = LastOf(W, n)
<1>1. Count(n) \in Nat /\ Count(n) <= n /\ Count(n) <= Depth /\ Depth \in Nat
    BY CountIsNatural, DepthIsNatural
<1>2. ASSUME NEW i \in 1 .. Count(n) PROVE V[n - Count(n) + i - 1] = W[n - Count(n) + i - 1]
  <2>1. PICK col \in Nat : col = n - Count(n) + i - 1
    <3>1. n - Count(n) + i - 1 \in Nat
        BY <1>1
    <3> QED BY <3>1
  <2>2. col < n /\ n <= col + Depth
      BY <1>1, <2>1
  <2> QED BY <2>1, <2>2 DEF Retains
<1> QED BY <1>2 DEF LastOf

\* A context shows the same while its length does not change and its rows stay.
LEMMA Shows ==
    ASSUME IInv, IInv', NEW c \in Contexts, Status(c)' = Status(c),
           Status(c) = "live" =>
               Length(c)' = Length(c) /\ Retains(At(c), At(c)', Length(c), Length(c))
    PROVE  Same(c)
<1>1. PICK n \in Nat : n = Length(c)
    BY LengthsAre DEF Lengths
<1>2. CASE Status(c) = "live"
  <2>1. Length(c)' = n
      BY <1>1, <1>2
  <2>2. PICK V, W : V = At(c) /\ W = At(c)'
      OBVIOUS
  <2>3. LastOf(V, n) = LastOf(W, n)
      BY <1>1, <1>2, <2>2, SameRows
  <2> QED BY <1>1, <2>1, <2>2, <2>3, ReadsLast, ReadsLastNext DEF Same
<1>3. CASE Status(c) # "live"
    BY <1>3, NotLive DEF Same
<1> QED BY <1>2, <1>3

\* A run that shows: it counts for the length, or it dooms its context.
Shown(r) == Replaces(r) \/ Spoils(r)

\* What the runs of c show stays.
SameShown(c) ==
    \A r \in Runs : \/ runs'[r] = runs[r]
                    \/ /\ runs[r].ctx = c => ~Shown(r)
                       /\ runs'[r].ctx = c => ~Shown(r)'

\* A step that keeps the shown runs of a context keeps what is read off them.
LEMMA ShownKept ==
    ASSUME NEW c \in Contexts, SameShown(c)
    PROVE  /\ Doomed(c)' <=> Doomed(c)
           /\ WrittenImmediate(c)' = WrittenImmediate(c)
           /\ \A r \in WrittenImmediate(c) : RunEnd(r)' = RunEnd(r)
<1>1. Doomed(c) <=> \E r \in Runs : runs[r].ctx = c /\ Spoils(r)
    BY DEF Doomed, RunsOf, Spoils
<1>2. Doomed(c)' <=> \E r \in Runs : runs'[r].ctx = c /\ Spoils(r)'
    BY DEF Doomed, RunsOf, Spoils
<1>3. WrittenImmediate(c) = {r \in Runs : runs[r].ctx = c /\ Replaces(r)}
    BY DEF WrittenImmediate, RunsOf, Replaces
<1>4. WrittenImmediate(c)' = {r \in Runs : runs'[r].ctx = c /\ Replaces(r)'}
    BY DEF WrittenImmediate, RunsOf, Replaces
<1>5. ASSUME NEW r \in Runs
      PROVE  /\ runs'[r].ctx = c /\ Spoils(r)' <=> runs[r].ctx = c /\ Spoils(r)
             /\ runs'[r].ctx = c /\ Replaces(r)' <=> runs[r].ctx = c /\ Replaces(r)
             /\ runs[r].ctx = c /\ Replaces(r) => runs'[r] = runs[r]
  <2>1. CASE runs'[r] = runs[r]
      BY <2>1 DEF Spoils, Replaces
  <2>2. CASE /\ runs[r].ctx = c => ~Shown(r)
             /\ runs'[r].ctx = c => ~Shown(r)'
      BY <2>2 DEF Shown
  <2> QED BY <2>1, <2>2 DEF SameShown
<1>6. Doomed(c)' <=> Doomed(c)
    BY <1>1, <1>2, <1>5
<1>7. WrittenImmediate(c)' = WrittenImmediate(c)
    BY <1>3, <1>4, <1>5
<1>8. \A r \in WrittenImmediate(c) : runs'[r] = runs[r]
    BY <1>3, <1>5
<1> QED BY <1>6, <1>7, <1>8 DEF RunEnd

\* What the view of c depends on.
SameView(c) ==
    /\ lender'[c] = lender[c] /\ poisoned'[c] = poisoned[c] /\ lost' = lost
    /\ phase'[c] = phase[c] \/ (LivePhase(c) /\ LivePhase(c)')
    /\ ~IsBorrowing(c) => pastLength'[c] = pastLength[c] /\ slots'[c] = slots[c]
    /\ SameShown(c)

\* A step that keeps the state and the length of a context keeps its view.
LEMMA ViewKept ==
    ASSUME IInv, IInv', NEW c \in Contexts, SameView(c)
    PROVE  Same(c)
<1>1. /\ IsBorrowing(c)' <=> IsBorrowing(c)
      /\ IsLive(c)' <=> IsLive(c)
      /\ LivePhase(c)' <=> LivePhase(c)
      /\ phase'[c] = "absent" <=> phase[c] = "absent"
      /\ Doomed(c)' <=> Doomed(c)
    BY ShownKept DEF SameView, IsBorrowing, IsLive, LivePhase
<1>2. Status(c)' = Status(c)
    BY <1>1, StatusOf
<1>3. ASSUME Status(c) = "live"
      PROVE  Length(c)' = Length(c) /\ Retains(At(c), At(c)', Length(c), Length(c))
  <2>1. pastLength'[c] = pastLength[c] /\ slots'[c] = slots[c]
      BY <1>3, StatusOf DEF SameView
  <2>2. At(c)' = At(c)
      BY <2>1 DEF At, Fetched
  <2>3. Length(c)' = Length(c)
    <3>1. CASE WrittenImmediate(c) = {}
      <4>1. WrittenImmediate(c)' = {}
          BY <3>1, ShownKept DEF SameView
      <4> QED BY <1>2, <1>3, <2>1, <3>1, <4>1, LengthsAre, LengthsNext DEF Lengths
    <3>2. ASSUME NEW r \in WrittenImmediate(c) PROVE Length(c)' = Length(c)
      <4>1. r \in WrittenImmediate(c)' /\ RunEnd(r)' = RunEnd(r)
          BY ShownKept DEF SameView
      <4> QED BY <1>2, <1>3, <4>1, LengthsAre, LengthsNext DEF Lengths
    <3> QED BY <3>1, <3>2
  <2> QED BY <2>2, <2>3 DEF Retains
<1> QED BY <1>2, <1>3, Shows

\* What borrows, and what is absent and stays so, shows nothing.
LEMMA AbsentShows ==
    ASSUME NEW c \in Contexts, IsBorrowing(c) \/ phase[c] = "absent",
           IsBorrowing(c)' \/ phase'[c] = "absent"
    PROVE  Same(c)
<1>1. Status(c) = "absent" /\ Status(c)' = "absent"
    BY StatusOf
<1> QED BY <1>1, NotLive DEF Same

------------------------------------------------------------------------------
(* Steps that show nothing, or only that a context became uncertain. *)

\* Issuing a run shows nothing.
LEMMA IssueShows ==
    ASSUME IInv, IInv', NEW r \in Runs, Issue(r), NEW c \in Contexts
    PROVE  Same(c)
<1>1. RunTypes /\ RunTypes'
    BY DEF IInv, TypeOK
<1>2. /\ UNCHANGED <<phase, lender, poisoned, lost, pastLength, slots>>
      /\ runs' = runs \/ \E run : runs' = [runs EXCEPT ![r] = run] /\ run.stage = "queued"
      /\ runs[r].stage = "idle"
  <2>1. PICK d \in Contexts, query \in QueryLengths, scope \in Scopes, tag \in Tags \cup {NoTag} :
          \/ \E mode \in {"immediate", "deferred"} : IssuePlain(r, d, query, mode, scope, tag)
          \/ IssueChained(r, d, query, scope, tag)
          \/ RefuseChained(r, d, query)
      BY DEF Issue
  <2>2. ASSUME NEW mode, NEW start, Accept(r, d, query, mode, scope, start, tag)
        PROVE  /\ UNCHANGED <<phase, lender, poisoned, lost, pastLength, slots>>
               /\ \E run : runs' = [runs EXCEPT ![r] = run] /\ run.stage = "queued"
    <3>1. PICK run : run = [stage |-> "queued", ctx |-> d, kind |-> scope, mode |-> mode,
                            query |-> query, start |-> start, tag |-> tag, wrote |-> FALSE]
        OBVIOUS
    <3>2. run.stage = "queued" /\ runs' = [runs EXCEPT ![r] = run]
        BY <2>2, <3>1 DEF Accept
    <3> QED BY <2>2, <3>2 DEF Accept
  <2>3. ASSUME NEW mode, IssuePlain(r, d, query, mode, scope, tag)
        PROVE  Accept(r, d, query, mode, scope, 0, tag) /\ runs[r].stage = "idle"
      BY <2>3 DEF IssuePlain
  <2>4. ASSUME IssueChained(r, d, query, scope, tag)
        PROVE  Accept(r, d, query, "chained", scope, ChainStart(d), tag) /\ runs[r].stage = "idle"
      BY <2>4 DEF IssueChained
  <2>5. ASSUME RefuseChained(r, d, query)
        PROVE  /\ UNCHANGED <<phase, lender, poisoned, lost, pastLength, slots, runs>>
               /\ runs[r].stage = "idle"
      BY <2>5 DEF RefuseChained
  <2> QED BY <2>1, <2>2, <2>3, <2>4, <2>5
<1>3. \A x \in Runs : runs'[x] = runs[x] \/ (~Shown(x) /\ ~Shown(x)')
  <2>1. CASE runs' = runs
      BY <2>1
  <2>2. CASE \E run : runs' = [runs EXCEPT ![r] = run] /\ run.stage = "queued"
    <3>1. runs'[r].stage = "queued" /\ \A x \in Runs \ {r} : runs'[x] = runs[x]
        BY <1>1, <2>2 DEF RunTypes
    <3> QED BY <1>2, <3>1 DEF Shown, Replaces, Spoils
  <2> QED BY <1>2, <2>1, <2>2
<1>4. SameView(c)
    BY <1>2, <1>3 DEF SameView, SameShown
<1> QED BY <1>4, ViewKept

\* Neither do its start, a failure before its first submit and its release.
LEMMA QuietShows ==
    ASSUME IInv, IInv', NEW r \in Runs, StartBody(r) \/ DropBody(r) \/ ReleaseRun(r),
           NEW c \in Contexts
    PROVE  Same(c)
<1>1. RunTypes /\ LengthTypes /\ runs[r].ctx \in Contexts
    BY Shapes DEF IInv, TypeOK
<1>2. UNCHANGED <<phase, lender, lost, slots>>
    BY DEF StartBody, DropBody, ReleaseRun
<1>3. ~IsBorrowing(c) => pastLength'[c] = pastLength[c]
    BY <1>1 DEF StartBody, DropBody, ReleaseRun, LengthTypes, Owner
<1>4. /\ \A x \in Runs \ {r} : runs'[x] = runs[x]
      /\ ~Shown(r) /\ ~Shown(r)' /\ poisoned'[c] = poisoned[c]
  <2>1. ASSUME EndBody(r, FALSE, FALSE), runs[r].stage \in {"queued", "started"}
        PROVE  /\ \A x \in Runs \ {r} : runs'[x] = runs[x]
               /\ ~Shown(r) /\ ~Shown(r)' /\ poisoned'[c] = poisoned[c]
    <3>1. poisoned' = IF runs[r].kind = "run" THEN poisoned
                      ELSE [poisoned EXCEPT ![runs[r].ctx] = @ \/ (~FALSE /\ FALSE)]
        BY <2>1, BodyEnds
    <3>2. poisoned'[c] = poisoned[c]
        BY <1>1, <3>1 DEF LengthTypes
    <3>3. /\ \A x \in Runs \ {r} : runs'[x] = runs[x]
          /\ runs'[r].stage = "failed" /\ ~runs'[r].wrote
        BY <2>1, BodyEnds
    <3> QED BY <2>1, <3>2, <3>3 DEF Shown, Replaces, Spoils
  <2>2. CASE DropBody(r)
      BY <2>1, <2>2 DEF DropBody
  <2>3. CASE StartBody(r)
    <3>1. CASE UNCHANGED poisoned /\ runs' = [runs EXCEPT ![r] =
                    [@ EXCEPT !.stage = "started",
                              !.start = IF runs[r].mode = "chained" THEN runs[r].start
                                        ELSE pastLength[Owner(runs[r].ctx)]]]
      <4>1. /\ runs'[r].stage = "started"
            /\ \A x \in Runs \ {r} : runs'[x] = runs[x]
          BY <1>1, <3>1 DEF RunTypes, Run
      <4> QED BY <2>3, <3>1, <4>1 DEF StartBody, Shown, Replaces, Spoils
    <3> QED BY <2>1, <2>3, <3>1 DEF StartBody
  <2>4. CASE ReleaseRun(r)
    <3>1. runs[r].stage = "settled" /\ runs' = [runs EXCEPT ![r] = IdleRun] /\ UNCHANGED poisoned
        BY <2>4 DEF ReleaseRun
    <3> QED BY <1>1, <3>1 DEF RunTypes, IdleRun, Shown, Replaces, Spoils
  <2> QED BY <2>2, <2>3, <2>4
<1>5. SameView(c)
    BY <1>2, <1>3, <1>4 DEF SameView, SameShown
<1> QED BY <1>5, ViewKept

\* What is not live does not become live while its phase and its lender stay.
LEMMA NotRevived ==
    ASSUME NEW c \in Contexts, phase'[c] = phase[c], lender'[c] = lender[c],
           IsLive(c)' => IsLive(c), Doomed(c) => Doomed(c)' \/ ~IsLive(c)', Status(c)' # "live"
    PROVE  Same(c) \/ Breaks(c)
<1>1. Status(c)' = "absent" <=> Status(c) = "absent"
    BY StatusOf DEF IsBorrowing
<1>2. CASE Status(c) = "live"
    BY <1>1, <1>2, StatusOf DEF Breaks
<1>3. CASE Status(c) # "live"
  <2>1. Status(c)' = Status(c)
      BY <1>1, <1>3, StatusOf
  <2> QED BY <1>3, <2>1, NotLive DEF Same
<1> QED BY <1>2, <1>3

\* A settlement shows nothing, or poisons what it leaves uncertain.
LEMMA SettleShows ==
    ASSUME RingInv, IInv', SettleBatch \/ \E r \in Runs : SettleRun(r), NEW c \in Contexts
    PROVE  Same(c) \/ Breaks(c)
<1>1. /\ IInv /\ CapturedLengthHolds /\ Tiling /\ Slack /\ Coverage /\ Writers
      /\ RunTypes /\ LengthTypes /\ UNCHANGED <<phase, lender, slots, lost>>
    BY DEF RingInv, Basis, Positions, Rings, IInv, TypeOK, SettleRun, SettleBatch
<1>2. \A x \in Runs : runs'[x] = runs[x] \/ runs'[x].stage \in {"settled", "idle"}
  <2>1. ASSUME NEW r \in Runs, SettleRun(r)
        PROVE  \A x \in Runs : runs'[x] = runs[x] \/ runs'[x].stage \in {"settled", "idle"}
    <3>1. runs' = [runs EXCEPT ![r].stage = "settled"]
        BY <2>1 DEF SettleRun
    <3> QED BY <1>1, <3>1 DEF RunTypes, Run
  <2>2. CASE SettleBatch
      BY <2>2 DEF SettleBatch, IdleRun
  <2> QED BY <2>1, <2>2
<1>3. poisoned[c] => poisoned'[c]
    BY <1>1 DEF SettleRun, SettleBatch, LengthTypes
<1>4. IsLive(c)' => IsLive(c)
    BY <1>1, <1>3 DEF IsLive
<1>5. \A x \in Runs : runs'[x] # runs[x] => ~Shown(x)'
    BY <1>2 DEF Shown, Replaces, Spoils
<1>6. \/ Concluding(c)
      \/ UNCHANGED <<pastLength[c], pending[c], history[c]>> /\ Fails(c)
    BY <1>1, SettleKinds
<1>7. Doomed(c) => Doomed(c)' \/ ~IsLive(c)'
  <2> SUFFICES ASSUME NEW x \in RunsOf(c), runs[x].stage = "failed" /\ runs[x].wrote, ~poisoned'[c]
               PROVE  Doomed(c)'
      BY DEF Doomed, IsLive
  <2>1. runs'[x] = runs[x]
      BY <1>6 DEF Concluding, Settles, Fails
  <2>2. x \in RunsOf(c)'
      BY <2>1 DEF RunsOf
  <2> QED BY <2>1, <2>2 DEF Doomed
<1>8. CASE Status(c)' # "live"
    BY <1>1, <1>4, <1>7, <1>8, NotRevived
<1>9. CASE Status(c)' = "live"
  <2>1. /\ ~IsBorrowing(c) /\ LivePhase(c) /\ ~poisoned'[c] /\ poisoned'[c] = poisoned[c]
        /\ Status(c) = "live"
    <3>1. ~IsBorrowing(c)' /\ LivePhase(c)' /\ IsLive(c)' /\ ~Doomed(c)'
        BY <1>9, StatusOf
    <3>2. ~IsBorrowing(c) /\ LivePhase(c) /\ IsLive(c) /\ ~Doomed(c)
        BY <1>1, <1>4, <1>7, <3>1 DEF IsBorrowing, LivePhase
    <3>3. ~poisoned'[c] /\ ~poisoned[c] /\ poisoned[c] \in BOOLEAN /\ poisoned'[c] \in BOOLEAN
        BY <1>1, <3>1, <3>2 DEF IsLive, IInv, TypeOK, LengthTypes
    <3> QED BY <3>2, <3>3, StatusOf
  <2>2. ASSUME pastLength'[c] = pastLength[c],
               \A x \in RunsOf(c) : runs'[x] # runs[x] => ~Shown(x)
        PROVE  Same(c)
    <3>1. \A x \in Runs : runs[x].ctx = c /\ Shown(x) => x \in RunsOf(c)
        BY DEF RunsOf, Shown, Replaces, Spoils
    <3>2. SameShown(c)
        BY <1>5, <2>2, <3>1 DEF SameShown
    <3>3. SameView(c)
        BY <1>1, <2>1, <2>2, <3>2 DEF SameView
    <3> QED BY <1>1, <3>3, ViewKept
  <2>3. CASE UNCHANGED <<pastLength[c], pending[c], history[c]>> /\ Fails(c)
    <3>1. ASSUME NEW x \in RunsOf(c), runs'[x] # runs[x] PROVE ~Shown(x)
      <4>1. ~runs[x].wrote
          BY <2>1, <2>3, <3>1 DEF Fails
      <4>2. x \in Runs /\ runs[x].ctx = c
          BY DEF RunsOf
      <4> QED BY <1>1, <2>1, <4>1, <4>2 DEF Shown, Replaces, Spoils, Writers
    <3> QED BY <2>2, <2>3, <3>1
  <2>4. CASE Concluding(c)
    <3>0. Settles(c, RunsOf(c)) /\ \A r \in RunsOf(c) : runs'[r].stage \in {"settled", "idle"}
        BY <1>1, <2>1, <2>4, AllConclude DEF Concluding
    <3>1. CASE Deferred(c, RunsOf(c)) /\ pastLength'[c] = pastLength[c]
      <4>1. \A x \in RunsOf(c) : ~Shown(x)
          BY <3>0, <3>1 DEF Deferred, Settles, Shown, Replaces, Spoils
      <4> QED BY <2>2, <3>1, <4>1
    <3>2. ASSUME Advanced(c, RunsOf(c)), NEW r \in RunsOf(c), RunsOf(c) = {r},
                 pastLength'[c] = RunEnd(r)
          PROVE  Same(c)
      <4>1. r \in WrittenImmediate(c)
          BY <3>0, <3>2 DEF Advanced, Settles, WrittenImmediate
      <4>2. WrittenImmediate(c)' = {}
        <5> SUFFICES ASSUME NEW x \in WrittenImmediate(c)' PROVE FALSE
            OBVIOUS
        <5>1. x \in Runs /\ runs'[x].stage = "written" /\ runs'[x].ctx = c
            BY DEF WrittenImmediate, RunsOf
        <5>2. runs'[x] = runs[x]
            BY <1>2, <5>1
        <5>3. x \in RunsOf(c)
            BY <5>1, <5>2 DEF RunsOf
        <5> QED BY <3>0, <5>1, <5>3
      <4>3. Length(c) = RunEnd(r) /\ Length(c)' = RunEnd(r)
          BY <1>1, <1>9, <2>1, <3>2, <4>1, <4>2, LengthsAre, LengthsNext DEF Lengths
      <4>4. At(c)' = At(c)
          BY <1>1 DEF At, Fetched
      <4> QED BY <1>1, <1>9, <2>1, <4>3, <4>4, Shows DEF Retains
    <3>3. \/ Deferred(c, RunsOf(c)) /\ pastLength'[c] = pastLength[c]
          \/ Advanced(c, RunsOf(c)) /\ \E r \in RunsOf(c) :
                RunsOf(c) = {r} /\ pastLength'[c] = RunEnd(r)
        BY <1>1, <2>1, <3>0, EndsMoved
    <3> QED BY <3>1, <3>2, <3>3
  <2> QED BY <1>6, <2>3, <2>4
<1> QED BY <1>8, <1>9

------------------------------------------------------------------------------
(* Bodies that write. *)

\* A row that is kept is found.
LEMMA KeptIsFound ==
    ASSUME NEW c \in Contexts, NEW col, NEW tag
    PROVE  /\ slots[c][Observed][SlotRow(Observed, col)] = <<col, tag>> => Fetched(c, col) = tag
           /\ slots'[c][Observed][SlotRow(Observed, col)] = <<col, tag>> => Fetched(c, col)' = tag
<1>1. <<col, tag>> # <<>> /\ <<col, tag>>[1] = col /\ <<col, tag>>[2] = tag
    OBVIOUS
<1>2. ASSUME slots[c][Observed][SlotRow(Observed, col)] = <<col, tag>> PROVE Fetched(c, col) = tag
  <2>1. Fetched(c, col) = IF <<col, tag>> # <<>> /\ <<col, tag>>[1] = col
                          THEN <<col, tag>>[2] ELSE NoTag
      BY <1>2 DEF Fetched, Unwritten
  <2> QED BY <1>1, <2>1
<1>3. ASSUME slots'[c][Observed][SlotRow(Observed, col)] = <<col, tag>> PROVE Fetched(c, col)' = tag
  <2>1. Fetched(c, col)' = IF <<col, tag>> # <<>> /\ <<col, tag>>[1] = col
                           THEN <<col, tag>>[2] ELSE NoTag
      BY <1>3 DEF Fetched, Unwritten
  <2> QED BY <1>1, <2>1
<1> QED BY <1>2, <1>3

\* The columns that can be read at position n are those of the window behind it.
LEMMA WindowIsReadable ==
    ASSUME NEW n \in Nat, NEW col \in Nat, n <= col + Depth
    PROVE  ReadonlyColumnBase(Observed, n) <= col
BY ObservedAssumption, SlotsAssumption DEF ReadonlyColumnBase, Depth, Lesser

\* A run that replaces the window extends the history of its context.
LEMMA ReplacingShows ==
    ASSUME RingInv, RingInv', Tagged, NEW r \in Runs, WriteBody(r), NEW e \in Contexts,
           runs[r].ctx = e, runs[r].mode = "immediate", Status(e) = "live", Status(e)' = "live",
           \A c \in Contexts \ {e} : Same(c)
    PROVE  [History!Next]_(History!vars)
<1>1. /\ IInv /\ IInv' /\ Slack /\ Rings /\ Rings' /\ Observed \in Slots
      /\ runs[r].stage = "started" /\ ~IsBorrowing(e)
      /\ LivePhase(e)' /\ IsLive(e)' /\ ~IsBorrowing(e)' /\ IsLive(e) /\ LivePhase(e)
    BY StatusOf, ObservedAssumption DEF RingInv, Basis, Positions, WriteBody
<1>2. /\ phase[e] \in {"open", "closing"} /\ phase' = phase
      /\ runs[r].start = pastLength[e] /\ runs[r].query <= ChunkLength
      /\ EndBody(r, TRUE, TRUE) /\ UNCHANGED <<pastLength, history>>
  <2>1. PassesLimits(r) /\ EndBody(r, TRUE, TRUE)
      BY <1>1 DEF WriteBody
  <2> QED BY <1>1, <2>1 DEF WriteBody, PassesLimits, InternalUsable, ChunkRows
<1>3. /\ pastLength[e] \in Nat /\ RunEnd(r) \in Nat /\ runs[r].query \in QueryLengths
      /\ RunEnd(r) = pastLength[e] + runs[r].query
    BY <1>1, <1>2, Shapes DEF RunEnd, Tagged, Unsettled
<1>4. runs[r].query \in 1 .. ChunkLength
  <2>1. runs[r].query \in Nat \ {0} /\ ChunkLength \in Nat
      BY <1>3, ContextAssumption
  <2> QED BY <1>2, <2>1
<1>5. /\ runs'[r].stage = "written" /\ runs'[r].ctx = e /\ runs'[r].mode = "immediate"
      /\ runs'[r].start = pastLength[e] /\ runs'[r].tag = runs[r].tag /\ RunEnd(r)' = RunEnd(r)
    BY <1>1, <1>2, BodyEnds
<1>6. \A x \in Runs : Unsettled(x) /\ runs[x].ctx = e => x = r
    BY <1>1, AloneOf DEF Unsettled
<1>7. Length(e) = pastLength[e]
  <2>1. WrittenImmediate(e) = {}
      BY <1>1, <1>6 DEF WrittenImmediate, RunsOf, Unsettled
  <2> QED BY <1>1, <2>1, LengthsAre DEF Lengths
<1>8. Length(e)' = RunEnd(r)
  <2>1. r \in WrittenImmediate(e)'
      BY <1>5 DEF WrittenImmediate, RunsOf
  <2> QED BY <1>1, <1>5, <2>1, LengthsNext DEF Lengths
<1>9. Intact(e)
  <2>1. Serves(e)
      BY <1>1, <1>2 DEF Serves
  <2>2. \A x \in Runs : runs[x].ctx = e => ~Replaces(x) /\ ~Spoils(x)
      BY <1>1, <1>6 DEF Replaces, Spoils, Unsettled
  <2> QED BY <1>1, <2>1, <2>2 DEF Rings, Ring
<1>10. Replaced(e, r)'
  <2>1. Serves(e)'
      BY <1>1, <1>2 DEF Serves
  <2>2. Ring(e)'
      BY <1>1, <2>1 DEF Rings
  <2> QED BY <1>5, <2>2 DEF Ring, Replaces
<1>11. ASSUME NEW col \in Nat, col < RunEnd(r), RunEnd(r) <= col + Depth
       PROVE  At(e)'[col] = IF col < pastLength[e] THEN history[e][col] ELSE runs[r].tag
  <2>1. col \in ReadonlyColumnBase(Observed, RunEnd(r)) .. (RunEnd(r) - 1)
    <3>1. ReadonlyColumnBase(Observed, RunEnd(r)) <= col
        BY <1>3, <1>11, WindowIsReadable
    <3>2. ReadonlyColumnBase(Observed, RunEnd(r)) \in Nat
        BY <1>1, <1>3, BaseMoves
    <3> QED BY <1>3, <1>11, <3>1, <3>2
  <2>2. slots'[e][Observed][SlotRow(Observed, col)] =
            <<col, IF col < pastLength[e] THEN history[e][col] ELSE runs[r].tag>>
      BY <1>1, <1>2, <1>5, <1>10, <2>1 DEF Replaced, Keeps
  <2>3. Fetched(e, col)' = IF col < pastLength[e] THEN history[e][col] ELSE runs[r].tag
      BY <2>2, KeptIsFound
  <2> QED BY <2>3 DEF At
<1>12. Retains(At(e), At(e)', Length(e), Length(e)')
  <2> SUFFICES ASSUME NEW col \in Nat, col < pastLength[e], RunEnd(r) <= col + Depth
               PROVE  At(e)'[col] = At(e)[col]
      BY <1>7, <1>8 DEF Retains
  <2>1. col < RunEnd(r) /\ pastLength[e] <= col + Depth
      BY <1>3, <1>4, DepthIsNatural
  <2>2. At(e)'[col] = history[e][col]
      BY <1>11, <2>1
  <2>3. col \in ReadonlyColumnBase(Observed, pastLength[e]) .. (UncommittedEnd(e) - 1)
    <3>1. ReadonlyColumnBase(Observed, pastLength[e]) <= col
        BY <1>3, <2>1, WindowIsReadable
    <3>2. /\ ReadonlyColumnBase(Observed, pastLength[e]) \in Nat
          /\ UncommittedEnd(e) \in Nat /\ pastLength[e] <= UncommittedEnd(e)
      <4>1. ~AwaitsCommit(Owner(runs[r].ctx))
          BY <1>1 DEF Slack, Free, Plain, Unsettled
      <4> QED BY <1>1, <1>3, <4>1, BaseMoves DEF Owner, UncommittedEnd
    <3> QED BY <1>3, <3>1, <3>2
  <2>4. slots[e][Observed][SlotRow(Observed, col)] = <<col, history[e][col]>>
      BY <1>1, <1>9, <2>3 DEF Intact, Keeps
  <2>5. At(e)[col] = history[e][col]
      BY <2>4, KeptIsFound DEF At
  <2> QED BY <2>2, <2>5
<1>13. Accepts(e)
  <2> SUFFICES ASSUME NEW col \in Nat, pastLength[e] <= col, col < RunEnd(r), RunEnd(r) <= col + Depth
               PROVE  At(e)'[col] \in Tags
      BY <1>7, <1>8 DEF Accepts
  <2>1. At(e)'[col] = runs[r].tag
      BY <1>3, <1>11
  <2> QED BY <1>1, <2>1 DEF Tagged, Unsettled
<1> QED BY <1>3, <1>4, <1>7, <1>8, <1>12, <1>13, OneExtends

\* A run that keeps the window shows nothing until it is committed.
LEMMA ExtendingShows ==
    ASSUME RingInv, RingInv', NEW r \in Runs, WriteBody(r), NEW e \in Contexts,
           runs[r].ctx = e, ~IsBorrowing(e), runs[r].mode # "immediate", Status(e)' = Status(e)
    PROVE  Same(e)
<1>1. /\ IInv /\ IInv' /\ Slack /\ Rings /\ Rings' /\ Observed \in Slots
      /\ runs[r].stage = "started" /\ UNCHANGED <<phase, lender, pastLength, pending, history, lost>>
      /\ EndBody(r, TRUE, TRUE) /\ phase[e] \in {"open", "closing"}
    BY ObservedAssumption DEF RingInv, Basis, Positions, WriteBody, PassesLimits, InternalUsable
<1>2. /\ runs'[r].stage = "written" /\ runs'[r].mode # "immediate" /\ runs'[r].ctx = e
      /\ \A x \in Runs \ {r} : runs'[x] = runs[x]
    BY <1>1, BodyEnds
<1>3. ASSUME NEW x \in Runs, runs[x].ctx = e PROVE ~Replaces(x) /\ ~Replaces(x)'
  <2>1. ~Replaces(x)
      BY <1>1, <1>3 DEF Replaces, Unsettled, IInv, Lease, RunsExclude
  <2> QED BY <1>2, <2>1 DEF Replaces
<1>4. WrittenImmediate(e) = {} /\ WrittenImmediate(e)' = {}
  <2>1. \A x \in Runs : runs'[x].ctx = e => runs[x].ctx = e
      BY <1>2
  <2> QED BY <1>3, <2>1 DEF WrittenImmediate, RunsOf, Replaces
<1>5. ASSUME Status(e) = "live"
      PROVE  Length(e)' = Length(e) /\ Retains(At(e), At(e)', Length(e), Length(e))
  <2>1. Length(e) = pastLength[e] /\ Length(e)' = pastLength[e]
      BY <1>1, <1>4, <1>5, LengthsAre, LengthsNext DEF Lengths
  <2>2. Serves(e) /\ Serves(e)' /\ ~Doomed(e) /\ ~Doomed(e)'
    <3>1. IsLive(e) /\ IsLive(e)' /\ ~Doomed(e) /\ ~Doomed(e)'
        BY <1>5, StatusOf
    <3> QED BY <1>1, <3>1 DEF Serves, IsBorrowing
  <2>3. Intact(e) /\ Intact(e)'
    <3>1. \A x \in Runs : runs[x].ctx = e => ~Spoils(x)
        BY <2>2 DEF Doomed, RunsOf, Spoils
    <3>2. \A x \in Runs : runs'[x].ctx = e => ~Spoils(x)' /\ ~Replaces(x)'
        BY <1>2, <1>3, <2>2 DEF Doomed, RunsOf, Spoils
    <3> QED BY <1>1, <1>3, <2>2, <3>1, <3>2 DEF Rings, Ring
  <2>4. /\ pastLength[e] \in Nat /\ UncommittedEnd(e) \in Nat /\ pastLength[e] <= UncommittedEnd(e)
        /\ UncommittedEnd(e)' = UncommittedEnd(e)
    <3>1. /\ pastLength[e] \in Nat /\ UncommittedEnd(e) \in Nat
          /\ pending[e] \in [pastLength : Nat, queryLength : Nat]
        BY <1>1, Shapes
    <3>2. pastLength[e] <= UncommittedEnd(e)
        BY <1>1, <3>1 DEF Slack, Room, UncommittedEnd
    <3> QED BY <1>1, <3>1, <3>2 DEF UncommittedEnd, AwaitsCommit
  <2>5. ASSUME NEW col \in Nat, col < pastLength[e], pastLength[e] <= col + Depth
        PROVE  At(e)'[col] = At(e)[col]
    <3>1. col \in ReadonlyColumnBase(Observed, pastLength[e]) .. (UncommittedEnd(e) - 1)
      <4>1. ReadonlyColumnBase(Observed, pastLength[e]) <= col
          BY <2>4, <2>5, WindowIsReadable
      <4>2. ReadonlyColumnBase(Observed, pastLength[e]) \in Nat
          BY <1>1, <2>4, BaseMoves
      <4> QED BY <2>4, <2>5, <4>1, <4>2
    <3>2. slots[e][Observed][SlotRow(Observed, col)] = <<col, history[e][col]>>
        BY <1>1, <2>3, <3>1 DEF Intact, Keeps
    <3>3. slots'[e][Observed][SlotRow(Observed, col)] = <<col, history[e][col]>>
        BY <1>1, <2>3, <2>4, <3>1 DEF Intact, Keeps
    <3> QED BY <3>2, <3>3, KeptIsFound DEF At
  <2> QED BY <2>1, <2>5 DEF Retains
<1> QED BY <1>1, <1>5, Shows

\* What a body that ends does to the contexts that are not its own.
LEMMA OthersShow ==
    ASSUME IInv, IInv', NEW r \in Runs, WriteBody(r) \/ BreakBody(r), NEW c \in Contexts,
           c # runs[r].ctx \/ IsBorrowing(c)
    PROVE  Same(c)
<1>1. LengthTypes /\ SlotTypes /\ UNCHANGED <<phase, lender, pastLength, lost>>
    BY DEF IInv, TypeOK, WriteBody, BreakBody
<1>2. CASE IsBorrowing(c)
    BY <1>1, <1>2, AbsentShows DEF IsBorrowing
<1>3. CASE c # runs[r].ctx
  <2>1. \E ok, wrote \in BOOLEAN : EndBody(r, ok, wrote)
    <3>1. PICK w \in BOOLEAN : w = (~IsBorrowing(runs[r].ctx))
        OBVIOUS
    <3> QED BY <3>1 DEF WriteBody, BreakBody
  <2>2. /\ \A x \in Runs \ {r} : runs'[x] = runs[x]
        /\ runs'[r].ctx = runs[r].ctx /\ poisoned'[c] = poisoned[c]
      BY <1>1, <1>3, <2>1, BodyEnds DEF LengthTypes
  <2>3. slots'[c] = slots[c]
      BY <1>1, <1>3 DEF WriteBody, BreakBody, WriteSlots, SlotTypes
  <2>4. SameView(c)
      BY <1>1, <1>3, <2>2, <2>3 DEF SameView, SameShown
  <2> QED BY <2>4, ViewKept
<1> QED BY <1>2, <1>3

\* A body that succeeds extends a history, or shows nothing yet.
LEMMA WriteShows ==
    ASSUME RingInv, RingInv', Tagged, NEW r \in Runs, WriteBody(r)
    PROVE  [History!Next]_(History!vars)
<1>1. IInv /\ IInv' /\ LengthTypes /\ runs[r].ctx \in Contexts
    BY Shapes DEF RingInv, Basis, IInv, TypeOK
<1>2. PICK e \in Contexts : e = runs[r].ctx
    BY <1>1
<1>3. \A c \in Contexts \ {e} : Same(c)
    BY <1>1, <1>2, OthersShow
<1>4. CASE IsBorrowing(e)
  <2>1. Same(e)
      BY <1>1, <1>4, OthersShow
  <2> QED BY <1>3, <2>1, NothingShows
<1>5. CASE ~IsBorrowing(e)
  <2>1. Status(e)' = Status(e)
    <3>1. EndBody(r, TRUE, TRUE) /\ UNCHANGED <<phase, lender, lost>> /\ runs[r].stage = "started"
        BY <1>2, <1>5 DEF WriteBody
    <3>2. /\ \A x \in Runs \ {r} : runs'[x] = runs[x]
          /\ runs'[r].stage = "written" /\ runs'[r].ctx = runs[r].ctx
          /\ poisoned' = IF runs[r].kind = "run" THEN poisoned
                         ELSE [poisoned EXCEPT ![runs[r].ctx] = @ \/ (~TRUE /\ TRUE)]
        BY <1>1, <3>1, BodyEnds
    <3>4. poisoned'[e] = poisoned[e]
        BY <1>1, <3>2 DEF LengthTypes
    <3>3. Doomed(e)' <=> Doomed(e)
        BY <3>1, <3>2 DEF Doomed, RunsOf
    <3> QED BY <3>1, <3>3, <3>4 DEF Status, IsBorrowing, IsLive
  <2>2. CASE runs[r].mode = "immediate" /\ Status(e) = "live"
      BY <1>2, <1>3, <2>1, <2>2, ReplacingShows
  <2>3. CASE Status(e) # "live"
    <3>1. Same(e)
        BY <2>1, <2>3, NotLive DEF Same
    <3> QED BY <1>3, <3>1, NothingShows
  <2>4. CASE runs[r].mode # "immediate"
    <3>1. Same(e)
        BY <1>2, <1>5, <2>1, <2>4, ExtendingShows
    <3> QED BY <1>3, <3>1, NothingShows
  <2> QED BY <2>2, <2>3, <2>4
<1> QED BY <1>4, <1>5

\* A body that fails after a submit breaks its context.
LEMMA BreakShows ==
    ASSUME IInv, IInv', NEW r \in Runs, BreakBody(r), NEW c \in Contexts
    PROVE  Same(c) \/ Breaks(c)
<1>1. LengthTypes /\ EndBody(r, FALSE, TRUE) /\ runs[r].stage = "started"
      /\ UNCHANGED <<phase, lender, lost>>
    BY DEF IInv, TypeOK, BreakBody
<1>2. /\ \A x \in Runs \ {r} : runs'[x] = runs[x]
      /\ runs'[r].stage = "failed" /\ runs'[r].ctx = runs[r].ctx /\ runs'[r].wrote
      /\ poisoned' = IF runs[r].kind = "run" THEN poisoned
                     ELSE [poisoned EXCEPT ![runs[r].ctx] = @ \/ (~FALSE /\ TRUE)]
    BY <1>1, BodyEnds
<1>3. CASE c = runs[r].ctx
  <2>1. r \in RunsOf(c)' /\ Doomed(c)'
      BY <1>2, <1>3 DEF Doomed, RunsOf
  <2>2. poisoned[c] => poisoned'[c]
      BY <1>1, <1>2 DEF LengthTypes
  <2>3. Status(c)' # "live"
      BY <2>1, StatusOf
  <2> QED BY <1>1, <2>1, <2>2, <2>3, NotRevived DEF IsLive
<1>4. CASE c # runs[r].ctx
    BY <1>4, OthersShow
<1> QED BY <1>3, <1>4

------------------------------------------------------------------------------
(* The operations on contexts. *)

\* A context whose phase, lender, length and slots stay shows nothing.
LEMMA LifeShowsNothing ==
    ASSUME IInv, IInv', NEW c \in Contexts, lender'[c] = lender[c], poisoned' = poisoned,
           lost' = lost, runs' = runs, phase'[c] = phase[c] \/ (LivePhase(c) /\ LivePhase(c)'),
           pastLength'[c] = pastLength[c], slots'[c] = slots[c]
    PROVE  Same(c)
BY ViewKept DEF SameView, SameShown

\* A context that closes is uncertain from then on.
LEMMA ClosedBreaks ==
    ASSUME NEW c \in Contexts, ~IsBorrowing(c), phase[c] # "absent",
           lender'[c] = lender[c], phase'[c] = "closed"
    PROVE  Same(c) \/ Breaks(c)
<1>1. Status(c) \in {"live", "gone"}
    BY StatusOf
<1>2. Status(c)' = "gone"
    BY StatusOf DEF IsBorrowing, LivePhase
<1> QED BY <1>1, <1>2, NotLive DEF Same, Breaks

\* Borrowing shows nothing; adoption and disposal break at most their context.
LEMMA LifeShows ==
    ASSUME IInv, IInv', NEW e \in Contexts,
           \/ \E d \in Contexts : Borrow(e, d)
           \/ RegisterBorrower(e) \/ AdoptFork(e) \/ Dispose(e) \/ StartDisposal(e)
           \/ FinishDisposal(e),
           NEW c \in Contexts
    PROVE  Same(c) \/ Breaks(c)
<1>1. ContextTypes /\ SlotTypes /\ UNCHANGED <<pastLength, poisoned, lost, runs>>
    BY DEF IInv, TypeOK, Borrow, RegisterBorrower, AdoptFork, Dispose, StartDisposal, FinishDisposal
<1>2. ASSUME NEW d \in Contexts, Borrow(e, d) PROVE Same(c)
  <2>1. CASE c = d
    <3>1. phase[c] = "absent" /\ lender'[c] = e
        BY <1>1, <1>2, <2>1 DEF Borrow, ContextTypes
    <3> QED BY <3>1, ContextAssumption, AbsentShows DEF IsBorrowing
  <2>2. CASE c # d
    <3>1. phase'[c] = phase[c] /\ lender'[c] = lender[c] /\ slots' = slots
        BY <1>1, <1>2, <2>2 DEF Borrow, ContextTypes
    <3> QED BY <1>1, <3>1, LifeShowsNothing
  <2> QED BY <2>1, <2>2
<1>3. ASSUME RegisterBorrower(e) PROVE Same(c)
  <2>1. lender' = lender /\ slots' = slots /\ IsBorrowing(e)
      BY <1>3 DEF RegisterBorrower
  <2>2. CASE c = e
      BY <2>1, <2>2, AbsentShows DEF IsBorrowing
  <2>3. CASE c # e
    <3>1. phase'[c] = phase[c]
        BY <1>1, <1>3, <2>3 DEF RegisterBorrower, ContextTypes
    <3> QED BY <1>1, <2>1, <3>1, LifeShowsNothing
  <2> QED BY <2>2, <2>3
<1>4. ASSUME AdoptFork(e) PROVE Same(c) \/ Breaks(c)
  <2>1. lender' = lender /\ slots' = slots /\ ~IsBorrowing(e) /\ phase[e] = "allocating"
      BY <1>4 DEF AdoptFork
  <2>2. PICK outcome \in {"open", "closed"} : phase' = [phase EXCEPT ![e] = outcome]
      BY <1>4 DEF AdoptFork
  <2>3. phase'[e] = outcome /\ (c # e => phase'[c] = phase[c])
      BY <1>1, <2>2 DEF ContextTypes
  <2>4. CASE c # e \/ outcome = "open"
      BY <1>1, <2>1, <2>3, <2>4, LifeShowsNothing DEF LivePhase
  <2>5. CASE c = e /\ outcome = "closed"
      BY <2>1, <2>3, <2>5, ClosedBreaks
  <2> QED BY <2>4, <2>5
<1>5. ASSUME Dispose(e) \/ StartDisposal(e) PROVE Same(c)
  <2>1. /\ lender' = lender /\ slots' = slots
        /\ phase'[c] = phase[c] \/ (LivePhase(c) /\ LivePhase(c)')
      BY <1>1, <1>5 DEF Dispose, StartDisposal, ContextTypes, LivePhase
  <2> QED BY <1>1, <2>1, LifeShowsNothing
<1>6. ASSUME FinishDisposal(e) PROVE Same(c) \/ Breaks(c)
  <2>1. /\ lender' = lender /\ phase[e] = "disposed" /\ phase'[e] = "closed"
        /\ c # e => phase'[c] = phase[c] /\ slots'[c] = slots[c]
      BY <1>1, <1>6 DEF FinishDisposal, ContextTypes, SlotTypes
  <2>2. CASE c # e
      BY <1>1, <2>1, <2>2, LifeShowsNothing
  <2>3. CASE c = e /\ IsBorrowing(e)
      BY <2>1, <2>3, AbsentShows DEF IsBorrowing
  <2>4. CASE c = e /\ ~IsBorrowing(e)
      BY <2>1, <2>4, ClosedBreaks
  <2> QED BY <2>2, <2>3, <2>4
<1> QED BY <1>2, <1>3, <1>4, <1>5, <1>6

\* The losses and the batches.
LEMMA DeviceShows ==
    ASSUME IInv, IInv', BeginBatch \/ FinishBatch \/ DeviceLoss \/ UNCHANGED vars, NEW c \in Contexts
    PROVE  Same(c) \/ Breaks(c)
<1>1. UNCHANGED <<phase, lender, poisoned, runs, pastLength, slots>>
    BY DEF BeginBatch, FinishBatch, DeviceLoss, contextVars, vars
<1>2. CASE lost' = lost
    BY <1>1, <1>2, LifeShowsNothing
<1>3. CASE lost'
  <2>1. Status(c)' # "live" /\ ~IsLive(c)'
      BY <1>3, StatusOf DEF IsLive
  <2> QED BY <1>1, <2>1, NotRevived
<1> QED BY <1>2, <1>3 DEF BeginBatch, FinishBatch, DeviceLoss, vars

\* A context that nothing holds shows its logical length, and has its window and
\* the rows that await a commit.
LEMMA RestShows ==
    ASSUME RingInv, RingInv', NEW c \in Contexts, Usable(c), ~IsBorrowing(c), runKind[c] = "none",
           runs' = runs, UNCHANGED <<phase, lender, poisoned, lost>>
    PROVE  /\ Status(c) = "live" /\ Status(c)' = "live"
           /\ Length(c) = pastLength[c] /\ Length(c)' = pastLength'[c]
           /\ pastLength[c] \in Nat /\ UncommittedEnd(c) \in Nat
           /\ \A col \in Nat : col < UncommittedEnd(c) /\ pastLength[c] <= col + Depth =>
                 Keeps(c, Observed, col, history[c][col])
<1>1. IInv /\ IInv' /\ Rings
    BY DEF RingInv, Basis
<1>2. \A x \in Runs : Unsettled(x) => runs[x].ctx # c
    BY <1>1 DEF IInv, Lease, LeasePoints, HoldsLease
<1>3. ~Doomed(c) /\ ~Doomed(c)' /\ WrittenImmediate(c) = {} /\ WrittenImmediate(c)' = {}
    BY <1>2 DEF Doomed, RunsOf, WrittenImmediate, Unsettled
<1>4. Status(c) = "live" /\ Status(c)' = "live"
    BY <1>3, StatusOf DEF Usable, IsLive, LivePhase, IsBorrowing
<1>5. Length(c) = pastLength[c] /\ Length(c)' = pastLength'[c]
    BY <1>1, <1>3, <1>4, LengthsAre, LengthsNext DEF Lengths
<1>6. Intact(c)
    BY <1>1, <1>2, RingOfRest DEF Rings, Serves, Usable
<1>7. pastLength[c] \in Nat /\ UncommittedEnd(c) \in Nat
    BY <1>1, Shapes
<1>8. ASSUME NEW col \in Nat, col < UncommittedEnd(c), pastLength[c] <= col + Depth
      PROVE  Keeps(c, Observed, col, history[c][col])
  <2>1. ReadonlyColumnBase(Observed, pastLength[c]) <= col
      BY <1>7, <1>8, WindowIsReadable
  <2>2. ReadonlyColumnBase(Observed, pastLength[c]) \in Nat
      BY <1>7, ObservedAssumption, BaseMoves
  <2>3. col \in ReadonlyColumnBase(Observed, pastLength[c]) .. (UncommittedEnd(c) - 1)
      BY <1>7, <1>8, <2>1, <2>2
  <2> QED BY <1>6, <2>3, ObservedAssumption DEF Intact
<1> QED BY <1>4, <1>5, <1>7, <1>8

\* A commit extends the history by the rows it accepts.
LEMMA CommitShows ==
    ASSUME RingInv, RingInv', Tagged, NEW e \in Contexts, NEW rows \in 0 .. ChunkLength,
           Commit(e, rows)
    PROVE  [History!Next]_(History!vars)
<1>1. /\ IInv /\ IInv' /\ LengthTypes /\ Slack
      /\ UNCHANGED <<phase, lender, poisoned, lost, runs, slots>>
    BY DEF RingInv, Basis, Positions, IInv, TypeOK, Commit
<1>2. \A c \in Contexts \ {e} : Same(c)
  <2> SUFFICES ASSUME NEW c \in Contexts \ {e} PROVE Same(c)
      OBVIOUS
  <2>1. pastLength'[c] = pastLength[c]
      BY <1>1 DEF Commit, LengthTypes
  <2> QED BY <1>1, <2>1, LifeShowsNothing
<1>3. /\ Usable(e) /\ ~IsBorrowing(e) /\ runKind[e] = "none" /\ AwaitsCommit(e)
      /\ rows <= pending[e].queryLength /\ pending[e].pastLength = pastLength[e]
      /\ pastLength'[e] = pastLength[e] + rows
    BY <1>1 DEF Commit, LengthTypes
<1>4. /\ Status(e) = "live" /\ Status(e)' = "live"
      /\ Length(e) = pastLength[e] /\ Length(e)' = pastLength[e] + rows
      /\ pastLength[e] \in Nat
      /\ \A col \in Nat : col < UncommittedEnd(e) /\ pastLength[e] <= col + Depth =>
            Keeps(e, Observed, col, history[e][col])
    BY <1>1, <1>3, RestShows
<1>5. At(e)' = At(e)
    BY <1>1 DEF At, Fetched
<1>6. rows \in Nat /\ ChunkLength \in Nat
    BY ContextAssumption
<1>7. CASE rows = 0
  <2>1. Length(e)' = Length(e)
      BY <1>4, <1>7
  <2>2. Same(e)
      BY <1>1, <1>4, <1>5, <2>1, Shows DEF Retains
  <2> QED BY <1>2, <2>2, NothingShows
<1>8. CASE rows # 0
  <2>1. rows \in 1 .. ChunkLength
      BY <1>6, <1>8
  <2>2. Retains(At(e), At(e)', Length(e), Length(e)')
      BY <1>5 DEF Retains
  <2>3. Accepts(e)
    <3> SUFFICES ASSUME NEW col \in Nat, pastLength[e] <= col, col < pastLength[e] + rows
                 PROVE  At(e)'[col] \in Tags
        BY <1>4 DEF Accepts
    <3>1. col < UncommittedEnd(e)
      <4>1. /\ UncommittedEnd(e) = pastLength[e] + pending[e].queryLength
            /\ pending[e].queryLength \in Nat
          BY <1>1, <1>3 DEF UncommittedEnd, LengthTypes
      <4> QED BY <1>3, <1>4, <1>6, <4>1
    <3>2. pastLength[e] <= col + Depth
        BY <1>4, DepthIsNatural
    <3>3. slots[e][Observed][SlotRow(Observed, col)] = <<col, history[e][col]>>
        BY <1>4, <3>1, <3>2 DEF Keeps
    <3>4. At(e)[col] = history[e][col]
        BY <3>3, KeptIsFound DEF At
    <3>5. col \in Columns
      <4>1. col < MaxLogicalLength
        <5>1. pastLength[e] + rows <= MaxLogicalLength /\ MaxLogicalLength \in Nat
            BY <1>3, ContextAssumption DEF Commit
        <5> QED BY <1>4, <1>6, <5>1
      <4> QED BY <1>6, <4>1, ContextAssumption DEF Columns
    <3> QED BY <1>3, <1>5, <3>1, <3>4, <3>5 DEF Tagged, Usable, IsLive
  <2> QED BY <1>2, <1>4, <2>1, <2>2, <2>3, OneExtends
<1> QED BY <1>7, <1>8

\* A rewind cuts the history, of which no row was dropped.
LEMMA RewindShows ==
    ASSUME RingInv, RingInv', NEW e \in Contexts, NEW position \in 0 .. MaxLogicalLength,
           Rewind(e, position)
    PROVE  [History!Next]_(History!vars)
<1>1. /\ IInv /\ IInv' /\ LengthTypes /\ UNCHANGED <<phase, lender, poisoned, lost, runs, slots>>
    BY DEF RingInv, Basis, IInv, TypeOK, Rewind
<1>2. \A c \in Contexts \ {e} : Same(c)
  <2> SUFFICES ASSUME NEW c \in Contexts \ {e} PROVE Same(c)
      OBVIOUS
  <2>1. pastLength'[c] = pastLength[c]
      BY <1>1 DEF Rewind, LengthTypes
  <2> QED BY <1>1, <2>1, LifeShowsNothing
<1>3. /\ Usable(e) /\ ~IsBorrowing(e) /\ runKind[e] = "none" /\ ~AwaitsCommit(e)
      /\ SlidingSlots = {} /\ position <= pastLength[e] /\ pastLength'[e] = position
    BY <1>1 DEF Rewind, Quiescent, LengthTypes
<1>4. /\ Status(e) = "live" /\ Status(e)' = "live"
      /\ Length(e) = pastLength[e] /\ Length(e)' = position
      /\ pastLength[e] \in Nat
      /\ \A col \in Nat : col < UncommittedEnd(e) /\ pastLength[e] <= col + Depth =>
            Keeps(e, Observed, col, history[e][col])
    BY <1>1, <1>3, RestShows
<1>5. \A col \in Nat : Fetched(e, col)' = Fetched(e, col)
    BY <1>1 DEF Fetched
<1>6. pastLength[e] <= Depth
  <2>1. Depth = Capacity[Observed] /\ Depth \in Nat /\ ~IsSliding(Observed)
      BY <1>3, ObservedAssumption, DepthIsNatural DEF SlidingSlots, Depth
  <2> SUFFICES ASSUME pastLength[e] > Depth PROVE FALSE
      BY <1>4, <2>1
  <2>2. PICK col \in Nat : col + 1 = pastLength[e]
    <3>1. pastLength[e] - 1 \in Nat /\ (pastLength[e] - 1) + 1 = pastLength[e]
        BY <1>4, <2>1
    <3> QED BY <3>1
  <2>3. col < UncommittedEnd(e) /\ pastLength[e] <= col + Depth
    <3>1. UncommittedEnd(e) = pastLength[e] /\ Depth > 0
        BY <1>3, <2>1, SlotsAssumption, ObservedAssumption DEF UncommittedEnd
    <3> QED BY <2>1, <2>2, <3>1
  <2>4. SlotRow(Observed, col) \in Rows(Observed)
      BY <1>4, <2>3 DEF Keeps
  <2>5. col \in 0 .. (Depth - 1)
      BY <2>1, <2>4 DEF SlotRow, Rows
  <2> QED BY <1>4, <2>1, <2>2, <2>5
<1>7. position \in 0 .. pastLength[e]
    BY <1>3, <1>4, ContextAssumption
<1> QED BY <1>2, <1>4, <1>5, <1>6, <1>7, OneCut

\* A fork copies a history.
LEMMA ForkShows ==
    ASSUME RingInv, RingInv', NEW e \in Contexts, NEW d \in Contexts, Fork(e, d)
    PROVE  [History!Next]_(History!vars)
<1>1. /\ IInv /\ IInv' /\ LengthTypes /\ ContextTypes /\ SlotTypes
      /\ UNCHANGED <<lender, poisoned, lost, runs>>
    BY DEF RingInv, Basis, IInv, TypeOK, Fork
<1>2. /\ phase[d] = "absent" /\ Usable(e) /\ ~IsBorrowing(e) /\ runKind[e] = "none"
      /\ e # d /\ phase'[d] = "allocating"
      /\ pastLength'[d] = pastLength[e] /\ slots'[d] = slots[e]
    BY <1>1 DEF Fork, Quiescent, Usable, ContextTypes, LengthTypes, SlotTypes
<1>3. \A c \in Contexts \ {d} : Same(c)
  <2> SUFFICES ASSUME NEW c \in Contexts \ {d} PROVE Same(c)
      OBVIOUS
  <2>1. phase'[c] = phase[c] /\ pastLength'[c] = pastLength[c] /\ slots'[c] = slots[c]
      BY <1>1 DEF Fork, ContextTypes, LengthTypes, SlotTypes
  <2> QED BY <1>1, <2>1, LifeShowsNothing
<1>4. \A x \in Runs : Unsettled(x) => runs[x].ctx # d /\ runs[x].ctx # e
    BY <1>1, <1>2 DEF IInv, Lease, RunsExist, LeasePoints, HoldsLease
<1>5. /\ ~Doomed(e) /\ ~Doomed(d)' /\ WrittenImmediate(e) = {} /\ WrittenImmediate(d)' = {}
    BY <1>1, <1>4 DEF Doomed, RunsOf, WrittenImmediate, Unsettled
<1>6. Status(e) = "live" /\ Status(d) = "absent"
    BY <1>2, <1>5, StatusOf DEF Usable, LivePhase
<1>7. Status(d)' # "absent"
    BY <1>1, <1>2, StatusOf DEF IInv, Borrowing, IsBorrowing
<1>8. CASE Status(d)' # "live"
  <2>1. Breaks(d)
      BY <1>6, <1>7, <1>8, StatusOf DEF Breaks
  <2> QED BY <1>3, <2>1, SomeBreak
<1>9. CASE Status(d)' = "live"
  <2>1. Length(e) = pastLength[e] /\ Length(d)' = pastLength[e] /\ Length(e) \in Nat
      BY <1>1, <1>2, <1>5, <1>6, <1>9, LengthsAre, LengthsNext DEF Lengths
  <2>2. At(d)' = At(e)
    <3>1. \A col \in Nat : Fetched(d, col)' = Fetched(e, col)
        BY <1>2 DEF Fetched
    <3> QED BY <3>1 DEF At
  <2>3. Readable(d)' = Readable(e)
      BY <2>1, <2>2, ReadsLast, ReadsLastNext
  <2> QED BY <1>3, <1>6, <1>9, <2>1, <2>3, OneCopies
<1> QED BY <1>8, <1>9

------------------------------------------------------------------------------
(* The refinement. *)

\* Initially the main context is live and nothing is accepted.
LEMMA InitShows == Init => History!Init
<1> SUFFICES ASSUME Init PROVE History!Init
    OBVIOUS
<1>1. \A r \in Runs : ~Unsettled(r)
    BY DEF Init, Unsettled, IdleRun
<1>2. \A c \in Contexts : ~Doomed(c) /\ WrittenImmediate(c) = {}
    BY <1>1 DEF Doomed, WrittenImmediate, RunsOf, Unsettled
<1>3. \A c \in Contexts : Status(c) = IF c = Main THEN "live" ELSE "absent"
    BY <1>2, StatusOf, ContextAssumption DEF Init, IsBorrowing, LivePhase, IsLive
<1>4. \A c \in Contexts : Length(c) = 0
    BY <1>2 DEF Length, Init
<1>5. \A c \in Contexts : Readable(c) = <<>>
  <2> SUFFICES ASSUME NEW c \in Contexts PROVE Readable(c) = <<>>
      OBVIOUS
  <2>1. Count(0) = 0
      BY DepthIsNatural DEF Count, Lesser
  <2>2. LastOf(At(c), 0) = <<>>
      BY <2>1 DEF LastOf
  <2> QED BY <1>4, <2>2, ReadsLast
<1> QED BY <1>3, <1>4, <1>5 DEF History!Init

\* Every step of the contexts is a step of their histories, or shows nothing.
LEMMA StepShows ==
    ASSUME RingInv, RingInv', Tagged, [Next]_vars
    PROVE  [History!Next]_(History!vars)
<1>1. IInv /\ IInv'
    BY DEF RingInv, Basis
<1>2. ASSUME NEW r \in Runs, Issue(r) PROVE [History!Next]_(History!vars)
  <2>1. \A c \in Contexts : Same(c)
      BY <1>1, <1>2, IssueShows
  <2> QED BY <2>1, SomeBreak
<1>3. ASSUME NEW r \in Runs, RunStep(r) PROVE [History!Next]_(History!vars)
  <2>1. CASE WriteBody(r)
      BY <2>1, WriteShows
  <2>2. CASE ~WriteBody(r)
    <3>1. \A c \in Contexts : Same(c) \/ Breaks(c)
        BY <1>1, <1>3, <2>2, QuietShows, SettleShows, BreakShows DEF RunStep
    <3> QED BY <3>1, SomeBreak
  <2> QED BY <2>1, <2>2
<1>4. ASSUME NEW e \in Contexts, ContextStep(e) PROVE [History!Next]_(History!vars)
  <2>1. CASE \E rows \in 0 .. ChunkLength : Commit(e, rows)
      BY <2>1, CommitShows
  <2>2. CASE \E position \in 0 .. MaxLogicalLength : Rewind(e, position)
      BY <2>2, RewindShows
  <2>3. CASE \E d \in Contexts : Fork(e, d)
      BY <2>3, ForkShows
  <2>4. CASE \/ \E d \in Contexts : Borrow(e, d)
             \/ RegisterBorrower(e) \/ AdoptFork(e) \/ Dispose(e) \/ StartDisposal(e)
             \/ FinishDisposal(e)
    <3>1. \A c \in Contexts : Same(c) \/ Breaks(c)
        BY <1>1, <2>4, LifeShows
    <3> QED BY <3>1, SomeBreak
  <2> QED BY <1>4, <2>1, <2>2, <2>3, <2>4 DEF ContextStep
<1>5. CASE SettleBatch
  <2>1. \A c \in Contexts : Same(c) \/ Breaks(c)
      BY <1>1, <1>5, SettleShows
  <2> QED BY <2>1, SomeBreak
<1>6. CASE BeginBatch \/ FinishBatch \/ DeviceLoss \/ UNCHANGED vars
  <2>1. \A c \in Contexts : Same(c) \/ Breaks(c)
      BY <1>1, <1>6, DeviceShows
  <2> QED BY <2>1, SomeBreak
<1> QED BY <1>2, <1>3, <1>4, <1>5, <1>6 DEF Next

\* What a context answers with is what a container of accepted rows would:
\* whatever its callers, two Sessions, batches, failures and disposals do
\* (GenerationContext, the single owner of one generation's state).
THEOREM HistoryRetained == Spec => RetainsHistory
<1>1. Init => RingInv /\ Tagged
    BY InitRingInv, InitTagged
<1>2. RingInv /\ Tagged /\ [Next]_vars => (RingInv /\ Tagged)'
    BY RingInvStep, TaggedStep
<1>3. RingInv /\ RingInv' /\ Tagged /\ [Next]_vars => [History!Next]_(History!vars)
    BY StepShows
<1> QED BY <1>1, <1>2, <1>3, InitShows, PTL DEF Spec, RetainsHistory, History!Spec
===============================================================================
