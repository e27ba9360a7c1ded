--------------------------- MODULE ProducerProofs ---------------------------
(***************************************************************************)
(* Proofs of the safety of the producer's side: TaskSink, Outbox and       *)
(* WaitForCompletion, each for any values of its constants.                *)
(*                                                                         *)
(* TaskSink.  The inductive invariant follows every accepted task from the *)
(* buffer through the batch of a flush into the table.  No place holds a   *)
(* task twice or before one that must precede it, and neither do two       *)
(* places one after the other (InOrder); no two flushes carry tasks of the *)
(* same sink, and a usable sink has tasks in the flush it waits for only   *)
(* (OneFlush); the phases of a flush say where its batch is (FlushInv);    *)
(* and what a usable sink accepted is buffered, carried or written (Kept). *)
(*                                                                         *)
(* Outbox.  A statement that has inserted every row so far has got the     *)
(* first rows of its batch (StatementInv), the rows of a transaction are   *)
(* those its caller was told of, and the business row it wrote is found    *)
(* nowhere else (TransactionInv).  For the keys a conflict names, no key   *)
(* is stored or held twice, and a statement has every key it has passed    *)
(* stored or in its own hands (KeyInv).                                    *)
(*                                                                         *)
(* WaitForCompletion.  An absence on record was preceded by a poll that    *)
(* missed the id, and is not older than it (AbsenceInv); the items name no *)
(* id twice and none that is still waited for (YieldInv); the streak is    *)
(* the number of polls that failed since one succeeded (StreakInv).        *)
(***************************************************************************)
EXTENDS TaskSink, Outbox, WaitForCompletion, FiniteSetTheorems, SequenceTheorems, TLAPS

-----------------------------------------------------------------------------
\* The order of tasks.

\* x is offered before y by the same caller.
Precedes(x, y) ==
  \E s \in Sink : \E i, j \in DOMAIN Offer[s] : i < j /\ Offer[s][i] = x /\ Offer[s][j] = y

MayFollow(x, y) == x # y /\ ~Precedes(y, x)

Chain(q) == \A i, j \in DOMAIN q : i < j => MayFollow(q[i], q[j])

\* All of q may follow all of p.
Behind(p, q) == \A x \in Range(p), y \in Range(q) : MayFollow(x, y)

\* The tasks a flush may still write.
Cargo(f) == IF closure[f] = "writing" THEN batch[f]
            ELSE IF slot[f] = None THEN <<>> ELSE slot[f]

Of(s) == Range(Offer[s])

Offered(s) == {Offer[s][i] : i \in 1 .. next[s]}

InOrder ==
  /\ Chain(table)
  /\ \A f \in Flush : Chain(Cargo(f)) /\ Behind(table, Cargo(f))
  /\ \A s \in Sink : Chain(buffer[s]) /\ Behind(table, buffer[s])
  /\ \A s \in Sink, f \in Flush : Behind(Cargo(f), buffer[s])

\* Every task around was offered and is valid.
Known ==
  /\ \A s \in Sink : next[s] <= Len(Offer[s]) /\ Range(buffer[s]) \subseteq Offered(s) \ Invalid
  /\ \A s \in Sink : Range(table) \intersect Of(s) \subseteq Offered(s)
  /\ \A s \in Sink, f \in Flush : Range(Cargo(f)) \intersect Of(s) \subseteq Offered(s) \ Invalid

OneFlush ==
  /\ \A f, g \in Flush, s \in Sink :
       f # g => Range(Cargo(f)) \intersect Of(s) = {} \/ Range(Cargo(g)) \intersect Of(s) = {}
  /\ \A s \in Sink, f \in Flush :
       state[s] # "dropped" /\ ~failed[s] /\ f # future[s] => Range(Cargo(f)) \intersect Of(s) = {}
  /\ \A s \in Sink, f \in Flush :
       state[s] = "live" /\ f = future[s] => Range(Cargo(f)) \subseteq Of(s)

FlushInv ==
  /\ \A f \in Flush :
       /\ slot[f] # None => closure[f] \in {"queued", "connected", "notStarted"}
       /\ closure[f] \in {"queued", "connected", "notStarted"} => batch[f] = <<>>
       /\ closure[f] = "ok" => Range(batch[f]) \subseteq Range(table)
       /\ closure[f] # "rejected"
  /\ \A s \in Sink : state[s] = "live" /\ future[s] # None =>
       /\ closure[future[s]] \in {"queued", "connected", "notStarted"} => slot[future[s]] # None
       /\ closure[future[s]] \notin {"free", "panicked"}
  /\ \A s, u \in Sink : state[s] = "live" /\ state[u] = "live" /\ future[s] = future[u] =>
       s = u \/ future[s] = None

\* The room the buffer needs when the flush in flight hands its batch back.
Load(s) == Len(buffer[s]) +
           (IF future[s] = None \/ slot[future[s]] = None THEN 0 ELSE Len(slot[future[s]]))

SinkOk(s) ==
  /\ state[s] = "none" => /\ buffer[s] = <<>> /\ future[s] = None /\ ~failed[s] /\ ~granted[s]
                          /\ accepted[s] = <<>>
  /\ state[s] = "live" => /\ Load(s) <= Capacity
                          /\ granted[s] => Load(s) < Capacity
  /\ failed[s] => s \in told /\ future[s] = None

Kept ==
  \A s \in Sink : (state[s] = "live" /\ ~failed[s]) =>
    Range(accepted[s]) \subseteq OnTheWay(s) \union Range(table)

AcceptedInOrder ==
  \A s \in Sink :
    /\ Range(accepted[s]) \subseteq Offered(s)
    /\ \A k, l \in DOMAIN accepted[s] : k < l => Precedes(accepted[s][k], accepted[s][l])

SinkInv ==
  /\ TypeOK
  /\ InOrder /\ Known /\ OneFlush /\ FlushInv
  /\ \A s \in Sink : SinkOk(s)
  /\ Kept /\ AcceptedInOrder /\ PromiseKept

-----------------------------------------------------------------------------
\* Sequences.

LEMMA RangeOf ==
  ASSUME NEW S, NEW q \in Seq(S)
  PROVE  /\ Range(q) = {q[i] : i \in 1 .. Len(q)} /\ DOMAIN q = 1 .. Len(q) /\ Len(q) \in Nat
         /\ Range(q) \subseteq S
         /\ q = <<>> => Range(q) = {}
BY DEF Range

LEMMA EmptyChain == Range(<<>>) = {} /\ Chain(<<>>) /\ Len(<<>>) = 0
BY DEF Range, Chain

LEMMA ConcatOf ==
  ASSUME NEW S, NEW p \in Seq(S), NEW q \in Seq(S)
  PROVE  /\ p \o q \in Seq(S) /\ Len(p \o q) = Len(p) + Len(q)
         /\ Range(p \o q) = Range(p) \union Range(q)
         /\ Chain(p) /\ Chain(q) /\ Behind(p, q) => Chain(p \o q)
<1> DEFINE m == Len(p)
           n == Len(q)
           r == p \o q
<1>1. /\ m \in Nat /\ n \in Nat /\ r \in Seq(S) /\ Len(r) = m + n
      /\ \A i \in 1 .. m : r[i] = p[i]
      /\ \A i \in (m + 1) .. (m + n) : r[i] = q[i - m]
  BY ConcatProperties, LenProperties
<1>2. /\ DOMAIN p = 1 .. m /\ DOMAIN q = 1 .. n /\ DOMAIN r = 1 .. (m + n)
      /\ \A i \in 1 .. m : p[i] \in Range(p)
      /\ \A i \in 1 .. n : q[i] \in Range(q)
  BY <1>1, RangeOf
<1> HIDE DEF m, n, r
<1>3. \A i \in 1 .. n : r[m + i] = q[i]
  <2> TAKE i \in 1 .. n
  <2>1. m + i \in (m + 1) .. (m + n) /\ (m + i) - m = i
    BY <1>1
  <2> QED BY <1>1, <2>1
<1>4. Range(r) = Range(p) \union Range(q)
  <2>1. Range(p) = {p[i] : i \in 1 .. m} /\ Range(q) = {q[i] : i \in 1 .. n}
        /\ Range(r) = {r[i] : i \in 1 .. (m + n)}
    BY <1>2 DEF Range
  <2>2. \A i \in 1 .. (m + n) : r[i] \in Range(p) \union Range(q)
    <3> TAKE i \in 1 .. (m + n)
    <3>1. CASE i \in 1 .. m
      BY <1>1, <1>2, <3>1
    <3>2. CASE i \notin 1 .. m
      <4>1. i \in (m + 1) .. (m + n) /\ i - m \in 1 .. n
        BY <1>1, <3>2
      <4> QED BY <1>1, <1>2, <4>1
    <3> QED BY <3>1, <3>2
  <2>3. \A i \in 1 .. m : p[i] \in Range(r)
    <3> TAKE i \in 1 .. m
    <3>1. i \in 1 .. (m + n) /\ r[i] = p[i]
      BY <1>1
    <3> QED BY <2>1, <3>1
  <2>4. \A i \in 1 .. n : q[i] \in Range(r)
    <3> TAKE i \in 1 .. n
    <3>1. m + i \in 1 .. (m + n) /\ r[m + i] = q[i]
      BY <1>1, <1>3
    <3> QED BY <2>1, <3>1
  <2> QED BY <2>1, <2>2, <2>3, <2>4
<1>5. ASSUME Chain(p), Chain(q), Behind(p, q) PROVE Chain(r)
  <2> SUFFICES ASSUME NEW i \in 1 .. (m + n), NEW j \in 1 .. (m + n), i < j
               PROVE  MayFollow(r[i], r[j])
    BY <1>2 DEF Chain
  <2>1. CASE j \in 1 .. m
    <3>1. i \in 1 .. m
      <4>1. m \in Nat /\ i \in Nat /\ j \in Nat /\ 1 <= i /\ i < j /\ j <= m
        BY <1>1, <2>1
      <4> QED BY ONLY <4>1
    <3>2. r[i] = p[i] /\ r[j] = p[j]
      BY <1>1, <2>1, <3>1
    <3> QED BY <1>2, <1>5, <2>1, <3>1, <3>2 DEF Chain
  <2>2. CASE j \notin 1 .. m /\ i \in 1 .. m
    <3>1. j \in (m + 1) .. (m + n) /\ j - m \in 1 .. n
      BY <1>1, <2>2
    <3>2. r[i] \in Range(p) /\ r[j] \in Range(q)
      BY <1>1, <1>2, <2>2, <3>1
    <3> QED BY <1>5, <3>2 DEF Behind
  <2>3. CASE i \notin 1 .. m
    <3>1. /\ j \in (m + 1) .. (m + n) /\ j - m \in 1 .. n
          /\ i \in (m + 1) .. (m + n) /\ i - m \in 1 .. n
          /\ i - m < j - m
      BY <1>1, <2>3
    <3> QED BY <1>1, <1>2, <1>5, <3>1 DEF Chain
  <2> QED BY <2>1, <2>2, <2>3
<1> QED BY <1>1, <1>4, <1>5 DEF r, m, n

LEMMA AppendOf ==
  ASSUME NEW S, NEW q \in Seq(S), NEW t \in S
  PROVE  /\ Append(q, t) \in Seq(S) /\ Len(Append(q, t)) = Len(q) + 1
         /\ Range(Append(q, t)) = Range(q) \union {t}
         /\ Chain(q) /\ (\A x \in Range(q) : MayFollow(x, t)) => Chain(Append(q, t))
<1>1. <<t>> \in Seq(S) /\ Append(q, t) = q \o <<t>> /\ Len(<<t>>) = 1
  BY AppendIsConcat
<1>2. DOMAIN <<t>> = 1 .. 1 /\ <<t>>[1] = t
  OBVIOUS
<1>3. Range(<<t>>) = {t} /\ Chain(<<t>>)
  BY <1>2 DEF Range, Chain
<1>4. (\A x \in Range(q) : MayFollow(x, t)) => Behind(q, <<t>>)
  BY <1>3 DEF Behind
<1> DEFINE w == <<t>>
<1> HIDE DEF w
<1>5. /\ w \in Seq(S) /\ Append(q, t) = q \o w /\ Len(w) = 1 /\ Range(w) = {t} /\ Chain(w)
      /\ (\A x \in Range(q) : MayFollow(x, t)) => Behind(q, w)
  BY <1>1, <1>3, <1>4 DEF w
<1> QED BY <1>5, ConcatOf

-----------------------------------------------------------------------------
\* The order of tasks.

\* Tasks of different sinks may come in any order.
LEMMA Unrelated ==
  ASSUME SinkAssumption, NEW x \in Task, NEW y, \A s \in Sink : ~(x \in Of(s) /\ y \in Of(s))
  PROVE  MayFollow(x, y)
<1>1. PICK s \in Sink : x \in Range(Offer[s])
  BY DEF Task
<1>2. x # y
  BY <1>1 DEF Of
<1>3. ~Precedes(y, x)
  BY DEF Precedes, Of, Range
<1> QED BY <1>2, <1>3 DEF MayFollow

\* A task belongs to one sink.
LEMMA OneSink ==
  ASSUME SinkAssumption, NEW s \in Sink, NEW u \in Sink, NEW x \in Of(s), x \in Of(u)
  PROVE  s = u
BY DEF SinkAssumption, Of

\* The task offered next may follow every task that is around.
LEMMA NextFollows ==
  ASSUME SinkAssumption, NEW s \in Sink, next[s] \in Nat, next[s] < Len(Offer[s]),
         NEW x \in Task, x \in Of(s) => x \in Offered(s)
  PROVE  MayFollow(x, Offer[s][next[s] + 1])
<1> DEFINE k == next[s] + 1
           t == Offer[s][k]
<1>1. Offer[s] \in Seq(Task) /\ IsInjective(Offer[s])
  BY DEF SinkAssumption
<1>2. DOMAIN Offer[s] = 1 .. Len(Offer[s]) /\ Len(Offer[s]) \in Nat /\ k \in 1 .. Len(Offer[s])
  BY <1>1, RangeOf
<1>3. t \in Of(s)
  BY <1>2 DEF Of, Range
<1>4. CASE x \notin Of(s)
  <2>1. \A u \in Sink : ~(x \in Of(u) /\ t \in Of(u))
    BY <1>3, <1>4, OneSink
  <2> QED BY <2>1, Unrelated
<1>5. CASE x \in Of(s)
  <2>1. PICK i \in 1 .. next[s] : x = Offer[s][i]
    BY <1>5 DEF Offered
  <2>2. i \in DOMAIN Offer[s] /\ i < k
    BY <1>2, <2>1
  <2>3. x # t
    BY <1>1, <1>2, <2>1, <2>2 DEF IsInjective
  <2>4. ASSUME Precedes(t, x) PROVE FALSE
    <3>0. PICK u \in Sink : \E a, b \in DOMAIN Offer[u] :
            a < b /\ Offer[u][a] = t /\ Offer[u][b] = x
      BY <2>4 DEF Precedes
    <3>1. PICK a, b \in DOMAIN Offer[u] : a < b /\ Offer[u][a] = t /\ Offer[u][b] = x
      BY <3>0
    <3>2. u = s
      BY <1>3, <3>1, OneSink DEF Of, Range
    <3>3. a = k /\ b = i
      BY <1>1, <1>2, <2>1, <2>2, <3>1, <3>2 DEF IsInjective
    <3> QED BY <1>2, <2>1, <2>2, <3>1, <3>3
  <2> QED BY <2>3, <2>4 DEF MayFollow
<1> QED BY <1>4, <1>5

-----------------------------------------------------------------------------
\* The way of the tasks, step by step.

Pipe == InOrder /\ Known /\ OneFlush

LEMMA CargoType ==
  ASSUME TypeOK, NEW f \in Flush
  PROVE  Cargo(f) \in Seq(Task)
BY DEF TypeOK, Cargo

\* A step that leaves the sinks' flushes in place and gives no flush a task more
\* keeps one flush for a sink's tasks.
LEMMA OneFlushSame ==
  ASSUME OneFlush, UNCHANGED <<state, failed, future>>,
         \A f \in Flush : Range(Cargo(f)') \subseteq Range(Cargo(f))
  PROVE  OneFlush'
<1>1. ASSUME NEW f \in Flush, NEW s \in Sink, Range(Cargo(f)) \intersect Of(s) = {}
      PROVE  Range(Cargo(f)') \intersect Of(s) = {}
  BY <1>1
<1>2. ASSUME NEW f \in Flush, NEW g \in Flush, NEW s \in Sink, f # g
      PROVE  Range(Cargo(f)') \intersect Of(s) = {} \/ Range(Cargo(g)') \intersect Of(s) = {}
  BY <1>1, <1>2 DEF OneFlush
<1>3. ASSUME NEW s \in Sink, NEW f \in Flush, state[s] # "dropped", ~failed[s], f # future[s]
      PROVE  Range(Cargo(f)') \intersect Of(s) = {}
  BY <1>1, <1>3 DEF OneFlush
<1>4. ASSUME NEW s \in Sink, NEW f \in Flush, state[s] = "live", f = future[s]
      PROVE  Range(Cargo(f)') \subseteq Of(s)
  <2>1. Range(Cargo(f)) \subseteq Of(s)
    BY <1>4 DEF OneFlush
  <2> QED BY <2>1
<1> QED BY <1>2, <1>3, <1>4 DEF OneFlush

\* Where the tasks are does not change; a flush nobody waits for any more has
\* nothing left to write.
LEMMA PipeSame ==
  ASSUME Pipe, UNCHANGED <<buffer, table, next>>,
         \A f \in Flush : Cargo(f)' = Cargo(f),
         \A s \in Sink, f \in Flush :
           state'[s] # "dropped" /\ ~failed'[s] /\ f # future'[s] =>
             \/ state[s] # "dropped" /\ ~failed[s] /\ f # future[s]
             \/ Cargo(f) = <<>>,
         \A s \in Sink, f \in Flush : state'[s] = "live" /\ f = future'[s] =>
           state[s] = "live" /\ f = future[s]
  PROVE  Pipe'
<1>1. InOrder'
  BY DEF Pipe, InOrder
<1>2. Known'
  BY DEF Pipe, Known, Offered
<1>3. OneFlush'
  BY EmptyChain DEF Pipe, OneFlush
<1> QED BY <1>1, <1>2, <1>3 DEF Pipe

\* start_send puts the next task at the end of the buffer.
LEMMA PipeSend ==
  ASSUME SinkAssumption, TypeOK, Pipe, NEW s \in Sink, StartSend(s)
  PROVE  Pipe'
<1> DEFINE t == Offer[s][next[s] + 1]
<1>0. /\ next \in [Sink -> Nat] /\ buffer \in [Sink -> Seq(Task)] /\ table \in Seq(Task)
      /\ Offer[s] \in Seq(Task) /\ next[s] < Len(Offer[s])
      /\ next' = [next EXCEPT ![s] = next[s] + 1]
      /\ UNCHANGED <<state, failed, future, closure, slot, batch, table>>
  BY DEF TypeOK, SinkAssumption, StartSend, flushVars
<1>1. t \in Task /\ t \in Offered(s)' /\ t \in Of(s) /\ next'[s] <= Len(Offer[s])
  <2>1. Len(Offer[s]) \in Nat /\ next[s] + 1 \in DOMAIN Offer[s] /\ DOMAIN Offer[s] = 1 .. Len(Offer[s])
    BY <1>0, RangeOf
  <2>2. next'[s] = next[s] + 1 /\ next[s] + 1 \in 1 .. next'[s]
    BY <1>0
  <2> QED BY <1>0, <2>1, <2>2 DEF Offered, Of, Range
<1>2. \A u \in Sink : /\ Offered(u) \subseteq Offered(u)'
                      /\ u # s => next'[u] = next[u]
                      /\ next'[u] <= Len(Offer[u])
  <2> TAKE u \in Sink
  <2>1. next'[u] \in Nat /\ next[u] \in Nat /\ next[u] <= next'[u] /\ (u # s => next'[u] = next[u])
    BY <1>0
  <2>2. 1 .. next[u] \subseteq 1 .. next'[u]
    BY <2>1
  <2>3. next'[u] <= Len(Offer[u])
    BY <1>1, <2>1 DEF Pipe, Known
  <2> QED BY <2>1, <2>2, <2>3 DEF Offered
<1>3. \A f \in Flush : Cargo(f)' = Cargo(f) /\ Range(Cargo(f)) \subseteq Task
  BY <1>0, CargoType, RangeOf DEF Cargo
<1>4. ASSUME NEW x \in Task, x \in Of(s) => x \in Offered(s) PROVE MayFollow(x, t)
  BY <1>0, <1>4, NextFollows
<1>5. /\ \A x \in Range(table) : MayFollow(x, t)
      /\ \A f \in Flush : \A x \in Range(Cargo(f)) : MayFollow(x, t)
      /\ \A x \in Range(buffer[s]) : MayFollow(x, t)
  <2>1. Range(table) \subseteq Task /\ Range(buffer[s]) \subseteq Task
    BY <1>0, RangeOf
  <2> HIDE DEF t
  <2> QED BY <1>3, <1>4, <2>1 DEF Pipe, Known
<1>6. CASE buffer' = buffer
  <2>1. InOrder'
    BY <1>0, <1>3, <1>6 DEF Pipe, InOrder
  <2>2. Known'
    BY <1>0, <1>2, <1>3, <1>6 DEF Pipe, Known
  <2>3. OneFlush'
    BY <1>0, <1>3, OneFlushSame DEF Pipe
  <2> QED BY <2>1, <2>2, <2>3 DEF Pipe
<1>7. CASE buffer' = [buffer EXCEPT ![s] = Append(buffer[s], t)] /\ t \notin Invalid
  <2> HIDE DEF t
  <2>1. /\ buffer'[s] = Append(buffer[s], t)
        /\ \A u \in Sink : u # s => buffer'[u] = buffer[u]
        /\ Range(buffer'[s]) = Range(buffer[s]) \union {t}
        /\ Chain(buffer'[s])
    BY <1>0, <1>1, <1>5, <1>7, AppendOf DEF Pipe, InOrder
  <2>2. InOrder'
    <3>1. \A u \in Sink : Chain(buffer'[u]) /\ Behind(table, buffer'[u])
                          /\ \A f \in Flush : Behind(Cargo(f), buffer'[u])
      BY <1>5, <2>1 DEF Pipe, InOrder, Behind
    <3> QED BY <1>0, <1>3, <3>1 DEF Pipe, InOrder
  <2>3. Known'
    <3>1. \A u \in Sink : Range(buffer'[u]) \subseteq Offered(u)' \ Invalid
      BY <1>1, <1>2, <1>7, <2>1 DEF Pipe, Known
    <3> QED BY <1>0, <1>2, <1>3, <3>1 DEF Pipe, Known
  <2>4. OneFlush'
    BY <1>0, <1>3, OneFlushSame DEF Pipe
  <2> QED BY <2>2, <2>3, <2>4 DEF Pipe
<1> QED BY <1>6, <1>7 DEF StartSend, Validated

\* A flush that has nothing left to write takes the buffer.
LEMMA PipeSubmit ==
  ASSUME SinkAssumption, TypeOK, Pipe, NEW s \in Sink, NEW f \in Flush, Submit(s, f),
         state[s] = "live", ~failed[s],
         \A g \in Flush : g = future[s] => Cargo(g) = <<>>,
         UNCHANGED <<state, failed, table, next>>
  PROVE  Pipe'
<1>0. /\ buffer \in [Sink -> Seq(Task)] /\ future \in [Sink -> Flush \union {None}]
      /\ closure \in [Flush -> ClosurePC] /\ slot \in [Flush -> Seq(Task) \union {None}]
      /\ None \notin Seq(Task) /\ table \in Seq(Task)
  BY DEF TypeOK, SinkAssumption
<1>1. /\ Cargo(f)' = buffer[s]
      /\ \A g \in Flush : g # f => Cargo(g)' = Cargo(g)
  BY <1>0 DEF Submit, Cargo
<1>2. /\ buffer'[s] = <<>> /\ \A u \in Sink : u # s => buffer'[u] = buffer[u]
      /\ future'[s] = f /\ \A u \in Sink : u # s => future'[u] = future[u]
  BY <1>0 DEF Submit
<1>3. /\ Range(buffer[s]) \subseteq Offered(s) \ Invalid /\ Offered(s) \subseteq Of(s)
      /\ \A u \in Sink : u # s => Range(buffer[s]) \intersect Of(u) = {}
      /\ \A u \in Sink : Range(buffer[u]) \subseteq Of(u) /\ Range(buffer[u]) \subseteq Task
  <2>1. \A u \in Sink : Offered(u) \subseteq Of(u)
    <3> TAKE u \in Sink
    <3>1. DOMAIN Offer[u] = 1 .. Len(Offer[u]) /\ Len(Offer[u]) \in Nat
      BY RangeOf DEF SinkAssumption
    <3>2. next[u] \in Nat /\ next[u] <= Len(Offer[u])
      BY DEF TypeOK, Pipe, Known
    <3>3. 1 .. next[u] \subseteq DOMAIN Offer[u]
      BY <3>1, <3>2
    <3> QED BY <3>3 DEF Offered, Of, Range
  <2>2. \A u \in Sink : Range(buffer[u]) \subseteq Offered(u) \ Invalid
    BY DEF Pipe, Known
  <2> QED BY <1>0, <2>1, <2>2, OneSink, RangeOf
<1>4. \A g \in Flush : Range(Cargo(g)) \intersect Of(s) = {}
  <2> TAKE g \in Flush
  <2>1. CASE g = future[s]
    BY <2>1, EmptyChain
  <2> QED BY <2>1 DEF Pipe, OneFlush
<1>5. \A u \in Sink : u # s => Behind(buffer[s], buffer[u])
  <2> SUFFICES ASSUME NEW u \in Sink, u # s, NEW x \in Range(buffer[s]), NEW y \in Range(buffer[u])
               PROVE  MayFollow(x, y)
    BY DEF Behind
  <2> QED BY <1>3, Unrelated, OneSink
<1>6. InOrder'
  <2>1. Chain(table) /\ \A g \in Flush : Chain(Cargo(g)') /\ Behind(table, Cargo(g)')
    BY <1>1 DEF Pipe, InOrder
  <2>2. \A u \in Sink : Chain(buffer'[u]) /\ Behind(table, buffer'[u])
    BY <1>2, EmptyChain DEF Pipe, InOrder, Behind
  <2>3. \A u \in Sink, g \in Flush : Behind(Cargo(g)', buffer'[u])
    BY <1>1, <1>2, <1>5, EmptyChain DEF Pipe, InOrder, Behind
  <2> QED BY <2>1, <2>2, <2>3 DEF InOrder
<1>7. Known'
  <2>1. \A u \in Sink : Offered(u)' = Offered(u)
    BY DEF Offered
  <2>2. \A u \in Sink, g \in Flush : Range(Cargo(g)') \intersect Of(u) \subseteq Offered(u) \ Invalid
    BY <1>1, <1>3 DEF Pipe, Known
  <2> QED BY <1>2, <2>1, <2>2, EmptyChain DEF Pipe, Known
<1>8. OneFlush'
  <2>1. \A g, h \in Flush, u \in Sink :
          g # h => Range(Cargo(g)') \intersect Of(u) = {} \/ Range(Cargo(h)') \intersect Of(u) = {}
    BY <1>1, <1>3, <1>4 DEF Pipe, OneFlush
  <2>2. \A u \in Sink, g \in Flush :
          state[u] # "dropped" /\ ~failed[u] /\ g # future'[u] => Range(Cargo(g)') \intersect Of(u) = {}
    BY <1>1, <1>2, <1>3, <1>4 DEF Pipe, OneFlush
  <2>3. \A u \in Sink, g \in Flush :
          state[u] = "live" /\ g = future'[u] => Range(Cargo(g)') \subseteq Of(u)
    BY <1>0, <1>1, <1>2, <1>3 DEF Pipe, OneFlush, Submit, Reusable, SinkAssumption
  <2> QED BY <2>1, <2>2, <2>3 DEF OneFlush
<1> QED BY <1>6, <1>7, <1>8 DEF Pipe

\* The batch of a flush that was not started is still in its slot.
LEMMA BatchInSlot ==
  ASSUME TypeOK, FlushInv, NEW s \in Sink, FlushNotStarted(s)
  PROVE  future[s] \in Flush /\ slot[future[s]] \in Seq(Task) /\ slot[future[s]] # None
BY DEF TypeOK, FlushNotStarted, FlushInv

\* The batch of a flush that was not started goes back before the tasks
\* accepted meanwhile.
LEMMA PipeHandBack ==
  ASSUME SinkAssumption, TypeOK, Pipe, FlushInv, NEW s \in Sink, FlushNotStarted(s),
         NEW f \in Flush, f = future[s], NEW q \in Seq(Task), q = slot[f]
  PROVE  Pipe'
<1>0. /\ buffer \in [Sink -> Seq(Task)] /\ future \in [Sink -> Flush \union {None}]
      /\ slot \in [Flush -> Seq(Task) \union {None}]
      /\ table \in Seq(Task) /\ state[s] = "live"
      /\ UNCHANGED <<state, failed, closure, batch, table, next>>
      /\ slot' = [slot EXCEPT ![f] = None] /\ future' = [future EXCEPT ![s] = None]
      /\ buffer' = [buffer EXCEPT ![s] = q \o buffer[s]]
  BY DEF TypeOK, FlushNotStarted, HandBack
<1>1. q # None /\ None \notin Flush
  BY DEF SinkAssumption
<1>2. Cargo(f) = q
  BY <1>1 DEF FlushInv, Cargo
<1>3. Cargo(f)' = <<>> /\ \A g \in Flush : g # f => Cargo(g)' = Cargo(g)
  BY <1>0, <1>1 DEF FlushInv, Cargo
<1>4. /\ buffer'[s] = q \o buffer[s] /\ \A u \in Sink : u # s => buffer'[u] = buffer[u]
      /\ future'[s] = None /\ \A u \in Sink : u # s => future'[u] = future[u]
  BY <1>0
<1>5. /\ Chain(q) /\ Chain(buffer[s]) /\ Behind(q, buffer[s]) /\ Behind(table, q)
      /\ \A u \in Sink : Range(q) \intersect Of(u) \subseteq Offered(u) \ Invalid
  BY <1>1, <1>2 DEF Pipe, InOrder, Known
<1>6. Range(buffer'[s]) = Range(q) \union Range(buffer[s]) /\ Chain(buffer'[s])
  BY <1>0, <1>1, <1>4, <1>5, ConcatOf
<1>7. \A g \in Flush : g # f => Behind(Cargo(g), q)
  <2> SUFFICES ASSUME NEW g \in Flush, g # f, NEW x \in Range(Cargo(g)), NEW y \in Range(q)
               PROVE  MayFollow(x, y)
    BY DEF Behind
  <2>1. \A u \in Sink : ~(x \in Of(u) /\ y \in Of(u))
    BY <1>1, <1>2 DEF Pipe, OneFlush
  <2>2. x \in Task
    BY CargoType, RangeOf
  <2> QED BY <2>1, <2>2, Unrelated
<1>8. InOrder'
  <2>1. Chain(table) /\ \A g \in Flush : Chain(Cargo(g)') /\ Behind(table, Cargo(g)')
    BY <1>3, EmptyChain DEF Pipe, InOrder, Behind
  <2>2. \A u \in Sink : Chain(buffer'[u]) /\ Behind(table, buffer'[u])
    BY <1>4, <1>5, <1>6 DEF Pipe, InOrder, Behind
  <2>3. \A u \in Sink, g \in Flush : Behind(Cargo(g)', buffer'[u])
    BY <1>3, <1>4, <1>6, <1>7, EmptyChain DEF Pipe, InOrder, Behind
  <2> QED BY <1>0, <2>1, <2>2, <2>3 DEF InOrder
<1>9. Known'
  <2>1. \A u \in Sink : Offered(u)' = Offered(u)
    BY <1>0 DEF Offered
  <2>2. Range(q) \subseteq Of(s)
    BY <1>0, <1>1, <1>2 DEF Pipe, OneFlush
  <2>3. \A u \in Sink : Range(buffer'[u]) \subseteq Offered(u) \ Invalid
    BY <1>4, <1>5, <1>6, <2>2 DEF Pipe, Known
  <2>4. \A u \in Sink, g \in Flush : Range(Cargo(g)') \intersect Of(u) \subseteq Offered(u) \ Invalid
    BY <1>3, EmptyChain DEF Pipe, Known
  <2>5. \A u \in Sink : next[u] <= Len(Offer[u]) /\ Range(table) \intersect Of(u) \subseteq Offered(u)
    BY DEF Pipe, Known
  <2>6. table' = table /\ next' = next
    BY <1>0
  <2> QED BY <2>1, <2>3, <2>4, <2>5, <2>6 DEF Known
<1>10. OneFlush'
  <2>1. \A g, h \in Flush, u \in Sink :
          g # h => Range(Cargo(g)') \intersect Of(u) = {} \/ Range(Cargo(h)') \intersect Of(u) = {}
    BY <1>3, EmptyChain DEF Pipe, OneFlush
  <2>2. \A u \in Sink, g \in Flush :
          state[u] # "dropped" /\ ~failed[u] /\ g # future'[u] => Range(Cargo(g)') \intersect Of(u) = {}
    BY <1>3, <1>4, EmptyChain DEF Pipe, OneFlush
  <2>3. \A u \in Sink, g \in Flush :
          state[u] = "live" /\ g = future'[u] => Range(Cargo(g)') \subseteq Of(u)
    BY <1>0, <1>1, <1>3, <1>4, EmptyChain DEF Pipe, OneFlush, SinkAssumption
  <2> QED BY <1>0, <2>1, <2>2, <2>3 DEF OneFlush
<1> QED BY <1>0, <1>1, <1>8, <1>9, <1>10 DEF Pipe

\* A commit moves a batch to the end of the table; a statement that failed
\* loses it.
LEMMA PipeWrite ==
  ASSUME SinkAssumption, TypeOK, Pipe, FlushInv, NEW f \in Flush, Write(f)
  PROVE  Pipe'
<1>0. /\ closure \in [Flush -> ClosurePC] /\ table \in Seq(Task) /\ batch \in [Flush -> Seq(Task)]
      /\ closure[f] = "writing" /\ closure'[f] \in {"ok", "uncertain"}
      /\ \A g \in Flush : g # f => closure'[g] = closure[g]
      /\ table' = table \o batch[f] \/ table' = table
      /\ UNCHANGED <<state, next, buffer, future, failed, slot, batch>>
  BY DEF TypeOK, Write, sinkVars
<1>1. slot[f] = None /\ Cargo(f) = batch[f]
  BY <1>0 DEF FlushInv, Cargo
<1>2. Cargo(f)' = <<>> /\ \A g \in Flush : g # f => Cargo(g)' = Cargo(g)
  BY <1>0, <1>1 DEF Cargo
<1> DEFINE q == batch[f]
<1> HIDE DEF q
<1>3. /\ q \in Seq(Task) /\ Chain(q) /\ Behind(table, q) /\ Cargo(f) = q
      /\ \A u \in Sink : Behind(q, buffer[u]) /\ Range(q) \intersect Of(u) \subseteq Offered(u)
      /\ table' = table \o q \/ table' = table
  BY <1>0, <1>1 DEF Pipe, InOrder, Known, q
<1>4. Chain(table') /\ Range(table') \subseteq Range(table) \union Range(q)
  <2>1. table \in Seq(Task) /\ Chain(table)
    BY <1>0 DEF Pipe, InOrder
  <2>2. CASE table' = table \o q
    BY <1>3, <2>1, <2>2, ConcatOf
  <2>3. CASE table' = table
    BY <2>1, <2>3
  <2> QED BY <1>3, <2>2, <2>3
<1>5. \A g \in Flush : g # f => Behind(q, Cargo(g))
  <2> SUFFICES ASSUME NEW g \in Flush, g # f, NEW x \in Range(q), NEW y \in Range(Cargo(g))
               PROVE  MayFollow(x, y)
    BY DEF Behind
  <2>1. \A u \in Sink : ~(x \in Of(u) /\ y \in Of(u))
    BY <1>3 DEF Pipe, OneFlush
  <2>2. x \in Task
    BY <1>3, RangeOf
  <2> QED BY <2>1, <2>2, Unrelated
<1>6. InOrder'
  <2>1. \A g \in Flush : Chain(Cargo(g)') /\ Behind(table', Cargo(g)')
    BY <1>2, <1>4, <1>5, EmptyChain DEF Pipe, InOrder, Behind
  <2>2. \A u \in Sink : Chain(buffer[u]) /\ Behind(table', buffer[u])
    BY <1>3, <1>4 DEF Pipe, InOrder, Behind
  <2>3. \A u \in Sink, g \in Flush : Behind(Cargo(g)', buffer[u])
    BY <1>2, EmptyChain DEF Pipe, InOrder, Behind
  <2> QED BY <1>0, <1>4, <2>1, <2>2, <2>3 DEF InOrder
<1>7. Known'
  <2>1. \A u \in Sink : Offered(u)' = Offered(u)
    BY <1>0 DEF Offered
  <2>2. \A u \in Sink : Range(table') \intersect Of(u) \subseteq Offered(u)
    BY <1>3, <1>4 DEF Pipe, Known
  <2> QED BY <1>0, <1>2, <2>1, <2>2, EmptyChain DEF Pipe, Known
<1>8. OneFlush'
  <2>1. \A g \in Flush : Range(Cargo(g)') \subseteq Range(Cargo(g))
    BY <1>2, EmptyChain
  <2> QED BY <1>0, <2>1, OneFlushSame DEF Pipe
<1> QED BY <1>6, <1>7, <1>8 DEF Pipe

-----------------------------------------------------------------------------
\* Histories that a step leaves alone.

LEMMA AcceptedSame ==
  ASSUME AcceptedInOrder, UNCHANGED <<accepted, next>>
  PROVE  AcceptedInOrder'
BY DEF AcceptedInOrder, Offered

\* The rest of the invariant.
Rest == TypeOK /\ FlushInv /\ (\A s \in Sink : SinkOk(s)) /\ Kept /\ PromiseKept

\* The load in numbers.
Waiting(s) == IF future[s] = None \/ slot[future[s]] = None THEN 0 ELSE Len(slot[future[s]])

LEMMA LoadType ==
  ASSUME TypeOK, NEW s \in Sink
  PROVE  /\ Len(buffer[s]) \in Nat /\ Waiting(s) \in Nat /\ Load(s) \in Nat
         /\ Load(s) = Len(buffer[s]) + Waiting(s)
<1>1. Len(buffer[s]) \in Nat
  BY DEF TypeOK
<1>2. future[s] # None /\ slot[future[s]] # None => Len(slot[future[s]]) \in Nat
  BY DEF TypeOK
<1>3. Waiting(s) \in Nat
  BY <1>2 DEF Waiting
<1>4. Load(s) = Len(buffer[s]) + Waiting(s)
  BY DEF Load, Waiting
<1> QED BY <1>1, <1>3, <1>4

\* Steps that move no task.
LEMMA RestSame ==
  ASSUME SinkAssumption, Rest, NEW s \in Sink,
         PollReady(s) \/ Drop(s) \/ \E u \in Sink : Clone(u, s)
  PROVE  Rest' /\ buffer' = buffer
<1> USE DEF Rest
<1>0. Capacity \in Nat
  BY DEF SinkAssumption, Capacity
<1>1. CASE PollReady(s)
  <2>1. /\ state[s] = "live" /\ future[s] = None /\ Len(buffer[s]) < Capacity
        /\ granted' = [granted EXCEPT ![s] = TRUE]
        /\ UNCHANGED <<state, next, buffer, future, failed, flushVars, table, accepted, promised, told>>
    BY <1>0, <1>1 DEF PollReady, NeedsFlushBeforeReady, TypeOK
  <2>2. TypeOK'
    BY <2>1 DEF TypeOK, flushVars
  <2>3. FlushInv' /\ Kept' /\ PromiseKept'
    BY <2>1 DEF FlushInv, Kept, OnTheWay, PromiseKept, flushVars
  <2>4. \A u \in Sink : SinkOk(u)'
    <3> TAKE u \in Sink
    <3>1. Load(u)' = Load(u)
      BY <2>1 DEF Load, flushVars
    <3>2. u # s => granted'[u] = granted[u]
      BY <2>1 DEF TypeOK
    <3>3. Load(s) < Capacity
      BY <2>1 DEF Load, TypeOK
    <3> QED BY <2>1, <3>1, <3>2, <3>3 DEF SinkOk
  <2> QED BY <2>1, <2>2, <2>3, <2>4
<1>2. CASE Drop(s)
  <2>1. /\ state' = [state EXCEPT ![s] = "dropped"] /\ state \in [Sink -> {"none", "live", "dropped"}]
        /\ UNCHANGED <<next, granted, buffer, future, failed, flushVars, table, accepted, promised, told>>
    BY <1>2 DEF Drop, TypeOK
  <2>2. TypeOK'
    BY <2>1 DEF TypeOK, flushVars
  <2>3. FlushInv' /\ Kept' /\ PromiseKept'
    BY <2>1 DEF FlushInv, Kept, OnTheWay, PromiseKept, flushVars
  <2>4. \A u \in Sink : SinkOk(u)'
    BY <2>1 DEF SinkOk, Load, flushVars
  <2> QED BY <2>1, <2>2, <2>3, <2>4
<1>3. ASSUME NEW u \in Sink, Clone(u, s) PROVE Rest' /\ buffer' = buffer
  <2>1. /\ state' = [state EXCEPT ![s] = "live"] /\ state \in [Sink -> {"none", "live", "dropped"}]
        /\ state[s] = "none" /\ buffer' = [buffer EXCEPT ![s] = <<>>]
        /\ buffer \in [Sink -> Seq(Task)]
        /\ UNCHANGED <<next, granted, future, failed, flushVars, table, accepted, promised, told>>
    BY <1>3 DEF Clone, TypeOK, BufferOfClone
  <2>2. buffer[s] = <<>> /\ future[s] = None /\ ~failed[s] /\ ~granted[s] /\ accepted[s] = <<>>
    BY <2>1 DEF SinkOk
  <2>3. buffer' = buffer
    BY <2>1, <2>2
  <2>4. TypeOK'
    BY <2>1, <2>3 DEF TypeOK, flushVars
  <2>5. FlushInv' /\ Kept' /\ PromiseKept'
    BY <2>1, <2>2, <2>3, EmptyChain DEF FlushInv, Kept, OnTheWay, PromiseKept, flushVars
  <2>6. \A v \in Sink : SinkOk(v)'
    <3> TAKE v \in Sink
    <3>1. Load(v)' = Load(v)
      BY <2>1, <2>3 DEF Load, flushVars
    <3>2. Load(s) = 0
      BY <2>2, EmptyChain DEF Load
    <3> QED BY <1>0, <2>1, <2>2, <2>3, <3>1, <3>2 DEF SinkOk
  <2> QED BY <2>3, <2>4, <2>5, <2>6
<1> QED BY <1>1, <1>2, <1>3

LEMMA RestSend ==
  ASSUME SinkAssumption, Rest, AcceptedInOrder, Known, NEW s \in Sink, StartSend(s)
  PROVE  Rest' /\ AcceptedInOrder'
<1> USE DEF Rest
<1> DEFINE t == Offer[s][next[s] + 1]
<1>0. /\ Capacity \in Nat
      /\ buffer \in [Sink -> Seq(Task)] /\ accepted \in [Sink -> Seq(Task)] /\ next \in [Sink -> Nat]
      /\ granted \in [Sink -> BOOLEAN] /\ Offer[s] \in Seq(Task) /\ IsInjective(Offer[s])
      /\ state[s] = "live" /\ granted[s] /\ next[s] < Len(Offer[s])
      /\ granted' = [granted EXCEPT ![s] = FALSE] /\ next' = [next EXCEPT ![s] = next[s] + 1]
      /\ UNCHANGED <<state, future, failed, flushVars, table, promised, told>>
      /\ \/ /\ buffer' = [buffer EXCEPT ![s] = Append(buffer[s], t)]
            /\ accepted' = [accepted EXCEPT ![s] = Append(accepted[s], t)]
         \/ UNCHANGED <<buffer, accepted>>
  BY DEF SinkAssumption, Capacity, TypeOK, StartSend
<1>1. /\ t \in Task /\ Len(Offer[s]) \in Nat /\ DOMAIN Offer[s] = 1 .. Len(Offer[s])
      /\ next[s] + 1 \in DOMAIN Offer[s]
  BY <1>0, RangeOf
<1>2. Load(s) < Capacity /\ Load(s) \in Nat /\ Len(buffer[s]) \in Nat /\ Len(buffer[s]) <= Load(s)
  <2>1. Load(s) < Capacity
    BY <1>0 DEF SinkOk
  <2>2. /\ Len(buffer[s]) \in Nat /\ Waiting(s) \in Nat /\ Load(s) \in Nat
        /\ Load(s) = Len(buffer[s]) + Waiting(s)
    BY LoadType
  <2> QED BY <2>1, <2>2
<1> HIDE DEF t
<1>3. /\ Append(buffer[s], t) \in Seq(Task) /\ Len(Append(buffer[s], t)) = Len(buffer[s]) + 1
      /\ Range(Append(buffer[s], t)) = Range(buffer[s]) \union {t}
      /\ Append(accepted[s], t) \in Seq(Task) /\ Len(Append(accepted[s], t)) = Len(accepted[s]) + 1
      /\ Range(Append(accepted[s], t)) = Range(accepted[s]) \union {t}
  BY <1>0, <1>1, AppendOf
<1>4. TypeOK'
  <2> DEFINE n == Len(buffer[s])
             p == Append(buffer[s], t)
  <2>0. n \in Nat /\ n < Capacity /\ n + 1 <= Capacity /\ p \in Seq(Task) /\ Len(p) = n + 1
        /\ \A u \in Sink : Len(buffer[u]) <= Capacity
    <3> HIDE DEF p
    <3>1. n \in Nat /\ n <= Load(s) /\ Load(s) \in Nat /\ Load(s) < Capacity
      BY <1>2
    <3>2. p \in Seq(Task) /\ Len(p) = n + 1
      BY <1>3 DEF p
    <3> HIDE DEF n
    <3>3. n < Capacity /\ n + 1 <= Capacity
      BY <1>0, <3>1
    <3> QED BY <3>1, <3>2, <3>3 DEF TypeOK
  <2>1. granted' \in [Sink -> BOOLEAN] /\ next' \in [Sink -> Nat]
    BY <1>0
  <2>2. buffer' \in [Sink -> Seq(Task)] /\ accepted' \in [Sink -> Seq(Task)]
        /\ \A u \in Sink : Len(buffer'[u]) <= Capacity
    <3>1. CASE UNCHANGED <<buffer, accepted>>
      BY <1>0, <2>0, <3>1
    <3>2. CASE /\ buffer' = [buffer EXCEPT ![s] = p]
               /\ accepted' = [accepted EXCEPT ![s] = Append(accepted[s], t)]
      <4> HIDE DEF p, n
      <4> QED BY <1>0, <1>3, <2>0, <3>2
    <3> QED BY <1>0, <3>1, <3>2
  <2> QED BY <1>0, <2>1, <2>2 DEF TypeOK, flushVars
<1>5. FlushInv' /\ PromiseKept'
  BY <1>0 DEF FlushInv, PromiseKept, flushVars
<1>6. \A u \in Sink : SinkOk(u)'
  <2> TAKE u \in Sink
  <2>1. CASE u # s
    <3>1. buffer'[u] = buffer[u] /\ granted'[u] = granted[u] /\ accepted'[u] = accepted[u]
      BY <1>0, <2>1
    <3> QED BY <1>0, <3>1 DEF SinkOk, Load, flushVars
  <2>2. CASE u = s
    <3>1. /\ Load(s) = Len(buffer[s]) + Waiting(s) /\ Load(s)' = Len(buffer'[s]) + Waiting(s)'
          /\ Len(buffer'[s]) \in Nat /\ Waiting(s) \in Nat /\ Load(s)' \in Nat
      <4>1. Load(s) = Len(buffer[s]) + Waiting(s) /\ Waiting(s) \in Nat
        BY LoadType
      <4>2. Load(s)' = Len(buffer'[s]) + Waiting(s)'
        BY DEF Load, Waiting
      <4>3. Len(buffer'[s]) \in Nat
        BY <1>4 DEF TypeOK
      <4>4. Waiting(s)' = Waiting(s)
        BY <1>0 DEF Waiting, flushVars
      <4> QED BY <4>1, <4>2, <4>3, <4>4
    <3>2. Waiting(s)' = Waiting(s)
      BY <1>0 DEF Waiting, flushVars
    <3>3. Len(buffer'[s]) = Len(buffer[s]) + 1 \/ Len(buffer'[s]) = Len(buffer[s])
      BY <1>0, <1>3
    <3>4. Load(s)' <= Load(s) + 1
      <4> DEFINE m == Len(buffer[s])
                 n == Len(buffer'[s])
      <4> HIDE DEF m, n
      <4>1. /\ m \in Nat /\ n \in Nat /\ n <= m + 1 /\ Load(s) = m + Waiting(s)
            /\ Load(s)' = n + Waiting(s)
        BY <1>2, <3>1, <3>2, <3>3 DEF m, n
      <4> QED BY <3>1, <4>1
    <3>5. Load(s)' <= Capacity
      BY <1>0, <1>2, <3>1, <3>4
    <3>6. ~granted'[s]
      BY <1>0
    <3> QED BY <1>0, <2>2, <3>5, <3>6 DEF SinkOk
  <2> QED BY <2>1, <2>2
<1>7. Kept'
  <2> SUFFICES ASSUME NEW u \in Sink, state[u] = "live", ~failed[u]
               PROVE  Range(accepted'[u]) \subseteq OnTheWay(u)' \union Range(table)
    BY <1>0 DEF Kept
  <2>1. Range(accepted[u]) \subseteq OnTheWay(u) \union Range(table)
    BY DEF Kept
  <2>2. CASE buffer'[u] = buffer[u] /\ accepted'[u] = accepted[u]
    BY <1>0, <2>1, <2>2 DEF OnTheWay, flushVars
  <2>3. CASE Range(buffer'[u]) = Range(buffer[u]) \union {t}
             /\ Range(accepted'[u]) = Range(accepted[u]) \union {t}
    BY <1>0, <2>1, <2>3 DEF OnTheWay, flushVars
  <2> QED BY <1>0, <1>3, <2>2, <2>3
<1>8. AcceptedInOrder'
  <2>1. \A u \in Sink : next[u] \in Nat /\ next'[u] \in Nat /\ next[u] <= next'[u]
    BY <1>0
  <2>2. \A u \in Sink : Offered(u) \subseteq Offered(u)'
    <3> TAKE u \in Sink
    <3>1. 1 .. next[u] \subseteq 1 .. next'[u]
      BY <2>1
    <3> QED BY <3>1 DEF Offered
  <2>3. t \in Offered(s)'
    <3>1. next[s] + 1 \in 1 .. next'[s]
      BY <1>0
    <3> QED BY <3>1 DEF Offered, t
  <2> SUFFICES ASSUME NEW u \in Sink
               PROVE  /\ Range(accepted'[u]) \subseteq Offered(u)'
                      /\ \A k, l \in DOMAIN accepted'[u] :
                           k < l => Precedes(accepted'[u][k], accepted'[u][l])
    BY DEF AcceptedInOrder
  <2>4. CASE accepted'[u] = accepted[u]
    BY <2>2, <2>4 DEF AcceptedInOrder
  <2>5. CASE u = s /\ accepted'[s] = Append(accepted[s], t)
    <3> DEFINE q == accepted[s]
               n == Len(q)
    <3>1. n \in Nat /\ DOMAIN q = 1 .. n
      BY <1>0
    <3>2. /\ DOMAIN accepted'[s] = 1 .. (n + 1)
          /\ \A k \in 1 .. n : accepted'[s][k] = q[k]
          /\ accepted'[s][n + 1] = t
      BY <1>0, <1>1, <2>5, AppendProperties
    <3> HIDE DEF n, q
    <3>3. \A k \in 1 .. n : Precedes(q[k], t)
      <4> TAKE k \in 1 .. n
      <4>1. q[k] \in Offered(s)
        BY <3>1 DEF AcceptedInOrder, q, Range
      <4>2. PICK i \in 1 .. next[s] : q[k] = Offer[s][i]
        BY <4>1 DEF Offered
      <4>3. i \in DOMAIN Offer[s] /\ i < next[s] + 1
        BY <1>0, <1>1, <4>2
      <4> QED BY <1>1, <4>2, <4>3 DEF Precedes, t
    <3>4. ASSUME NEW k \in 1 .. (n + 1), NEW l \in 1 .. (n + 1), k < l
          PROVE  Precedes(accepted'[s][k], accepted'[s][l])
      <4>1. k \in 1 .. n
        BY <3>1, <3>4
      <4>2. CASE l = n + 1
        BY <3>2, <3>3, <4>1, <4>2
      <4>3. CASE l # n + 1
        <5>1. l \in 1 .. n
          BY <3>1, <4>3
        <5> QED BY <3>1, <3>2, <3>4, <4>1, <5>1 DEF AcceptedInOrder, q
      <4> QED BY <4>2, <4>3
    <3>5. Range(accepted'[s]) \subseteq Offered(s)'
      BY <1>3, <2>2, <2>3, <2>5 DEF AcceptedInOrder
    <3> QED BY <2>5, <3>2, <3>4, <3>5
  <2> QED BY <1>0, <2>4, <2>5
<1> QED BY <1>4, <1>5, <1>6, <1>7, <1>8

\* A flush is started, after none or after one that wrote its batch.
LEMMA RestSubmit ==
  ASSUME SinkAssumption, Rest, NEW s \in Sink, NEW f \in Flush, Submit(s, f),
         state[s] = "live", ~failed[s],
         future[s] = None \/ closure[future[s]] = "ok",
         UNCHANGED <<state, next, granted, failed, table, accepted, promised, told>>
  PROVE  Rest'
<1> USE DEF Rest
<1>0. /\ buffer \in [Sink -> Seq(Task)] /\ future \in [Sink -> Flush \union {None}]
      /\ closure \in [Flush -> ClosurePC] /\ slot \in [Flush -> Seq(Task) \union {None}]
      /\ batch \in [Flush -> Seq(Task)] /\ executor \in [Flush -> BOOLEAN]
      /\ None \notin Seq(Task) /\ None \notin Flush /\ Capacity \in Nat
      /\ closure' = [closure EXCEPT ![f] = "queued"] /\ slot' = [slot EXCEPT ![f] = buffer[s]]
      /\ batch' = [batch EXCEPT ![f] = <<>>] /\ executor' = [executor EXCEPT ![f] = FALSE]
      /\ buffer' = [buffer EXCEPT ![s] = <<>>] /\ future' = [future EXCEPT ![s] = f]
      /\ \A u \in Sink : u # s /\ state[u] = "live" => future[u] # f
  BY DEF TypeOK, SinkAssumption, Capacity, Submit, Reusable
<1>1. TypeOK'
  <2>1. <<>> \in Seq(Task) /\ Len(<<>>) = 0 /\ buffer[s] \in Seq(Task)
    BY <1>0
  <2>2. buffer' \in [Sink -> Seq(Task)] /\ \A u \in Sink : Len(buffer'[u]) <= Capacity
    BY <1>0, <2>1 DEF TypeOK
  <2>3. /\ future' \in [Sink -> Flush \union {None}] /\ closure' \in [Flush -> ClosurePC]
        /\ slot' \in [Flush -> Seq(Task) \union {None}] /\ batch' \in [Flush -> Seq(Task)]
        /\ executor' \in [Flush -> BOOLEAN]
    BY <1>0, <2>1 DEF ClosurePC
  <2> QED BY <2>2, <2>3 DEF TypeOK
<1>2. FlushInv'
  <2>1. \A g \in Flush :
          /\ slot'[g] # None => closure'[g] \in {"queued", "connected", "notStarted"}
          /\ closure'[g] \in {"queued", "connected", "notStarted"} => batch'[g] = <<>>
          /\ closure'[g] = "ok" => Range(batch'[g]) \subseteq Range(table)
          /\ closure'[g] # "rejected"
    <3> TAKE g \in Flush
    <3>1. CASE g = f
      BY <1>0, <3>1
    <3>2. CASE g # f
      <4>1. closure'[g] = closure[g] /\ slot'[g] = slot[g] /\ batch'[g] = batch[g]
        BY <1>0, <3>2
      <4> QED BY <4>1 DEF FlushInv
    <3> QED BY <3>1, <3>2
  <2>2. ASSUME NEW u \in Sink, state[u] = "live", future'[u] # None
        PROVE  /\ closure'[future'[u]] \in {"queued", "connected", "notStarted"} =>
                    slot'[future'[u]] # None
               /\ closure'[future'[u]] \notin {"free", "panicked"}
    <3>1. CASE u = s
      <4>1. future'[u] = f /\ slot'[f] = buffer[s] /\ buffer[s] # None /\ closure'[f] = "queued"
        BY <1>0, <3>1
      <4> QED BY <4>1
    <3>2. CASE u # s
      <4>1. future'[u] = future[u] /\ future[u] # f /\ future[u] \in Flush
        BY <1>0, <2>2, <3>2
      <4>2. closure'[future[u]] = closure[future[u]] /\ slot'[future[u]] = slot[future[u]]
        BY <1>0, <4>1
      <4>3. /\ closure[future[u]] \in {"queued", "connected", "notStarted"} => slot[future[u]] # None
            /\ closure[future[u]] \notin {"free", "panicked"}
        BY <2>2, <4>1 DEF FlushInv
      <4> QED BY <4>1, <4>2, <4>3
    <3> QED BY <3>1, <3>2
  <2>3. \A u, v \in Sink : state[u] = "live" /\ state[v] = "live" /\ future'[u] = future'[v] =>
          u = v \/ future'[u] = None
    BY <1>0 DEF FlushInv
  <2> QED BY <2>1, <2>2, <2>3 DEF FlushInv
<1>3. \A u \in Sink : SinkOk(u)'
  <2> TAKE u \in Sink
  <2>1. CASE u # s
    <3>1. buffer'[u] = buffer[u] /\ future'[u] = future[u]
      BY <1>0, <2>1
    <3>2. state[u] = "live" /\ future[u] # None => slot'[future[u]] = slot[future[u]]
      BY <1>0, <2>1
    <3>3. state[u] = "live" => Load(u)' = Load(u)
      BY <3>1, <3>2 DEF Load
    <3> QED BY <3>1, <3>3 DEF SinkOk
  <2>2. CASE u = s
    <3>1. buffer'[s] = <<>> /\ future'[s] = f /\ slot'[f] = buffer[s] /\ f # None /\ buffer[s] # None
      BY <1>0
    <3>2. Len(buffer[s]) \in Nat /\ Waiting(s) \in Nat /\ Load(s) = Len(buffer[s]) + Waiting(s)
          /\ Load(s) \in Nat
      BY LoadType
    <3>3. Load(s)' = Len(buffer[s])
      BY <3>1, <3>2, EmptyChain DEF Load
    <3>4. Len(buffer[s]) <= Load(s)
      BY <3>2
    <3>5. /\ Load(s) <= Capacity /\ (granted[s] => Load(s) < Capacity)
      BY DEF SinkOk
    <3>6. Load(s)' <= Capacity /\ (granted[s] => Load(s)' < Capacity)
      BY <1>0, <3>2, <3>3, <3>4, <3>5
    <3> QED BY <2>2, <3>6 DEF SinkOk
  <2> QED BY <2>1, <2>2
<1>4. Kept'
  <2> SUFFICES ASSUME NEW u \in Sink, state[u] = "live", ~failed[u]
               PROVE  Range(accepted[u]) \subseteq OnTheWay(u)' \union Range(table)
    BY DEF Kept
  <2>1. Range(accepted[u]) \subseteq OnTheWay(u) \union Range(table)
    BY DEF Kept
  <2>2. CASE u # s
    <3>1. buffer'[u] = buffer[u] /\ future'[u] = future[u]
      BY <1>0, <2>2
    <3>2. future[u] # None => /\ slot'[future[u]] = slot[future[u]]
                              /\ batch'[future[u]] = batch[future[u]]
      BY <1>0, <2>2
    <3>3. OnTheWay(u)' = OnTheWay(u)
      BY <3>1, <3>2 DEF OnTheWay
    <3> QED BY <2>1, <3>3
  <2>3. CASE u = s
    <3>1. OnTheWay(s) \subseteq Range(buffer[s]) \union Range(table)
      <4>1. CASE future[s] = None
        BY <4>1 DEF OnTheWay
      <4>2. CASE closure[future[s]] = "ok" /\ future[s] \in Flush
        <5>1. Range(batch[future[s]]) \subseteq Range(table) /\ slot[future[s]] = None
          BY <4>2 DEF FlushInv
        <5> QED BY <4>2, <5>1 DEF OnTheWay
      <4> QED BY <1>0, <4>1, <4>2
    <3>2. future'[s] = f /\ f # None /\ slot'[f] = buffer[s] /\ buffer[s] # None
      BY <1>0
    <3>3. Range(buffer[s]) \subseteq OnTheWay(s)'
      BY <3>2 DEF OnTheWay
    <3> QED BY <2>1, <2>3, <3>1, <3>3
  <2> QED BY <2>2, <2>3
<1>5. PromiseKept'
  BY DEF PromiseKept
<1> QED BY <1>1, <1>2, <1>3, <1>4, <1>5

\* A flush that is over is forgotten: it wrote its batch, or failed the sink.
LEMMA RestForget ==
  ASSUME SinkAssumption, Rest, NEW s \in Sink, state[s] = "live", future[s] \in Flush,
         future' = [future EXCEPT ![s] = None],
         UNCHANGED <<state, next, granted, buffer, flushVars, table, accepted>>,
         \/ /\ closure[future[s]] = "ok" /\ buffer[s] = <<>>
            /\ promised' = promised \union Range(accepted[s])
            /\ ~failed[s] /\ UNCHANGED <<failed, told>>
         \/ /\ failed' = [failed EXCEPT ![s] = TRUE] /\ told' = told \union {s}
            /\ UNCHANGED promised
  PROVE  Rest'
<1> USE DEF Rest
<1>0. /\ failed \in [Sink -> BOOLEAN] /\ future \in [Sink -> Flush \union {None}]
      /\ promised \subseteq Task /\ told \subseteq Sink /\ accepted[s] \in Seq(Task)
      /\ slot \in [Flush -> Seq(Task) \union {None}] /\ Capacity \in Nat
  BY DEF TypeOK, SinkAssumption, Capacity
<1>1. TypeOK'
  <2>1. future' \in [Sink -> Flush \union {None}] /\ failed' \in [Sink -> BOOLEAN]
        /\ told' \subseteq Sink
    BY <1>0
  <2>2. promised' \subseteq Task
    BY <1>0, RangeOf
  <2> QED BY <2>1, <2>2 DEF TypeOK, flushVars
<1>2. FlushInv'
  BY <1>0 DEF FlushInv, flushVars
<1>3. \A u \in Sink : SinkOk(u)'
  <2> TAKE u \in Sink
  <2>1. CASE u # s
    <3>1. future'[u] = future[u] /\ failed'[u] = failed[u]
      BY <1>0, <2>1
    <3>2. /\ buffer'[u] = buffer[u] /\ slot'[future'[u]] = slot[future[u]]
          /\ Len(buffer'[u]) = Len(buffer[u]) /\ Len(slot'[future'[u]]) = Len(slot[future[u]])
      BY <3>1 DEF flushVars
    <3>3. Load(u)' = Load(u)
      <4>1. CASE future[u] = None \/ slot[future[u]] = None
        BY <3>1, <3>2, <4>1 DEF Load
      <4>2. CASE future[u] # None /\ slot[future[u]] # None
        BY <3>1, <3>2, <4>2 DEF Load
      <4> QED BY <4>1, <4>2
    <3> QED BY <3>1, <3>2, <3>3 DEF SinkOk
  <2>2. CASE u = s
    <3>1. future'[s] = None /\ (failed'[s] => s \in told')
      BY <1>0
    <3>2. Len(buffer[s]) \in Nat /\ Waiting(s) \in Nat /\ Load(s) = Len(buffer[s]) + Waiting(s)
      BY LoadType
    <3>3. Load(s)' = Len(buffer[s])
      BY <3>1, <3>2 DEF Load
    <3>4. Load(s)' <= Load(s) /\ Load(s)' \in Nat /\ Load(s) \in Nat
      BY <3>2, <3>3
    <3>5. Load(s)' <= Capacity /\ (granted[s] => Load(s)' < Capacity)
      BY <1>0, <3>4 DEF SinkOk
    <3> QED BY <2>2, <3>1, <3>5 DEF SinkOk
  <2> QED BY <2>1, <2>2
<1>4. ASSUME closure[future[s]] = "ok", buffer[s] = <<>>, ~failed[s]
      PROVE  Range(accepted[s]) \subseteq Range(table)
  <2>1. Range(batch[future[s]]) \subseteq Range(table) /\ slot[future[s]] = None
    BY <1>4 DEF FlushInv
  <2>2. OnTheWay(s) \subseteq Range(table)
    BY <1>4, <2>1, EmptyChain DEF OnTheWay
  <2> QED BY <1>4, <2>2 DEF Kept
<1>5. Kept'
  <2> SUFFICES ASSUME NEW u \in Sink, state[u] = "live", ~failed'[u]
               PROVE  Range(accepted[u]) \subseteq OnTheWay(u)' \union Range(table)
    BY DEF Kept
  <2>1. CASE u # s
    <3>1. future'[u] = future[u] /\ failed'[u] = failed[u]
      BY <1>0, <2>1
    <3>2. OnTheWay(u)' = OnTheWay(u)
      BY <3>1 DEF OnTheWay, flushVars
    <3> QED BY <3>1, <3>2 DEF Kept
  <2>2. CASE u = s
    BY <1>0, <1>4, <2>2
  <2> QED BY <2>1, <2>2
<1>6. PromiseKept'
  BY <1>4 DEF PromiseKept
<1> QED BY <1>1, <1>2, <1>3, <1>5, <1>6

\* The batch of a flush that was not started is handed back.
LEMMA RestHandBack ==
  ASSUME SinkAssumption, Rest, NEW s \in Sink, FlushNotStarted(s),
         NEW f \in Flush, f = future[s], NEW q \in Seq(Task), q = slot[f]
  PROVE  Rest'
<1> USE DEF Rest
<1>0. /\ buffer \in [Sink -> Seq(Task)] /\ future \in [Sink -> Flush \union {None}]
      /\ slot \in [Flush -> Seq(Task) \union {None}] /\ Capacity \in Nat
      /\ None \notin Flush /\ q # None /\ state[s] = "live"
      /\ slot' = [slot EXCEPT ![f] = None] /\ future' = [future EXCEPT ![s] = None]
      /\ buffer' = [buffer EXCEPT ![s] = q \o buffer[s]]
      /\ UNCHANGED <<state, next, granted, failed, closure, batch, executor, table, accepted,
                     promised, told>>
  BY DEF TypeOK, SinkAssumption, Capacity, FlushNotStarted, HandBack
<1>1. /\ q \o buffer[s] \in Seq(Task) /\ Len(q \o buffer[s]) = Len(q) + Len(buffer[s])
      /\ Range(q \o buffer[s]) = Range(q) \union Range(buffer[s])
      /\ Len(q) \in Nat /\ Len(buffer[s]) \in Nat
  BY <1>0, ConcatOf
<1>2. Len(q \o buffer[s]) = Load(s) /\ Load(s) <= Capacity
  <2>1. Load(s) = Len(buffer[s]) + Len(q)
    BY <1>0 DEF Load
  <2> QED BY <1>0, <1>1, <2>1 DEF SinkOk
<1> DEFINE r == q \o buffer[s]
<1> HIDE DEF r
<1>3. /\ r \in Seq(Task) /\ Len(r) = Load(s) /\ Load(s) <= Capacity
      /\ Range(r) = Range(q) \union Range(buffer[s]) /\ buffer' = [buffer EXCEPT ![s] = r]
  BY <1>0, <1>1, <1>2 DEF r
<1>4. TypeOK'
  <2>1. buffer' \in [Sink -> Seq(Task)] /\ \A u \in Sink : Len(buffer'[u]) <= Capacity
    BY <1>0, <1>3 DEF TypeOK
  <2>2. slot' \in [Flush -> Seq(Task) \union {None}] /\ future' \in [Sink -> Flush \union {None}]
    BY <1>0
  <2> QED BY <1>0, <2>1, <2>2 DEF TypeOK
<1>5. \A u \in Sink : u # s /\ state[u] = "live" => future[u] # f
  BY <1>0 DEF FlushInv
<1>6. FlushInv'
  <2>1. \A g \in Flush :
          /\ slot'[g] # None => closure[g] \in {"queued", "connected", "notStarted"}
          /\ closure[g] \in {"queued", "connected", "notStarted"} => batch[g] = <<>>
          /\ closure[g] = "ok" => Range(batch[g]) \subseteq Range(table)
          /\ closure[g] # "rejected"
    BY <1>0 DEF FlushInv
  <2>2. ASSUME NEW u \in Sink, state[u] = "live", future'[u] # None
        PROVE  /\ closure[future'[u]] \in {"queued", "connected", "notStarted"} =>
                    slot'[future'[u]] # None
               /\ closure[future'[u]] \notin {"free", "panicked"}
    <3>1. u # s /\ future'[u] = future[u] /\ future[u] # f /\ future[u] \in Flush
      BY <1>0, <1>5, <2>2
    <3>2. slot'[future[u]] = slot[future[u]]
      BY <1>0, <3>1
    <3>3. /\ closure[future[u]] \in {"queued", "connected", "notStarted"} => slot[future[u]] # None
          /\ closure[future[u]] \notin {"free", "panicked"}
      BY <1>0, <2>2, <3>1 DEF FlushInv
    <3> QED BY <3>1, <3>2, <3>3
  <2>3. \A u, v \in Sink : state[u] = "live" /\ state[v] = "live" /\ future'[u] = future'[v] =>
          u = v \/ future'[u] = None
    BY <1>0 DEF FlushInv
  <2> QED BY <1>0, <2>1, <2>2, <2>3 DEF FlushInv
<1>7. \A u \in Sink : SinkOk(u)'
  <2> TAKE u \in Sink
  <2>1. CASE u # s
    <3>1. buffer'[u] = buffer[u] /\ future'[u] = future[u]
      BY <1>0, <2>1
    <3>2. state[u] = "live" /\ future[u] # None => slot'[future[u]] = slot[future[u]]
      BY <1>0, <1>5, <2>1
    <3>3. state[u] = "live" => Load(u)' = Load(u)
      BY <3>1, <3>2 DEF Load
    <3> QED BY <1>0, <3>1, <3>3 DEF SinkOk
  <2>2. CASE u = s
    <3>1. buffer'[s] = r /\ future'[s] = None
      BY <1>0, <1>3
    <3>2. Load(s) \in Nat
      BY LoadType
    <3>3. Load(s)' = Len(r) + 0
      BY <3>1 DEF Load
    <3>4. Load(s)' = Load(s)
      BY <1>3, <3>2, <3>3
    <3> QED BY <1>0, <2>2, <3>1, <3>4 DEF SinkOk
  <2> QED BY <2>1, <2>2
<1>8. Kept'
  <2> SUFFICES ASSUME NEW u \in Sink, state[u] = "live", ~failed[u]
               PROVE  Range(accepted[u]) \subseteq OnTheWay(u)' \union Range(table)
    BY <1>0 DEF Kept
  <2>1. Range(accepted[u]) \subseteq OnTheWay(u) \union Range(table)
    BY DEF Kept
  <2>2. CASE u # s
    <3>1. buffer'[u] = buffer[u] /\ future'[u] = future[u]
      BY <1>0, <2>2
    <3>2. future[u] # None => slot'[future[u]] = slot[future[u]]
      BY <1>0, <1>5, <2>2
    <3>3. OnTheWay(u)' = OnTheWay(u)
      BY <1>0, <3>1, <3>2 DEF OnTheWay
    <3> QED BY <2>1, <3>3
  <2>3. CASE u = s
    <3>1. buffer'[s] = r /\ future'[s] = None
      BY <1>0, <1>3
    <3>2. batch[f] = <<>>
      BY <1>0 DEF FlushInv
    <3>3. OnTheWay(s) = Range(buffer[s]) \union Range(q)
      BY <1>0, <3>2, EmptyChain DEF OnTheWay
    <3>4. OnTheWay(s)' = Range(r)
      BY <3>1 DEF OnTheWay
    <3> QED BY <1>3, <2>1, <2>3, <3>3, <3>4
  <2> QED BY <2>2, <2>3
<1>9. PromiseKept'
  BY <1>0 DEF PromiseKept
<1> QED BY <1>4, <1>6, <1>7, <1>8, <1>9

\* The closure of a flush: it keeps what it carries until it writes.
LEMMA RestClosure ==
  ASSUME SinkAssumption, Rest, Known, NEW f \in Flush,
         GetConnection(f) \/ TakeBatch(f) \/ ExecutorFails(f)
  PROVE  Rest' /\ \A g \in Flush : Cargo(g)' = Cargo(g)
<1> USE DEF Rest
<1>0. /\ closure \in [Flush -> ClosurePC] /\ slot \in [Flush -> Seq(Task) \union {None}]
      /\ batch \in [Flush -> Seq(Task)] /\ executor \in [Flush -> BOOLEAN]
      /\ None \notin Seq(Task) /\ None \notin Flush /\ Capacity \in Nat
      /\ future \in [Sink -> Flush \union {None}] /\ table \in Seq(Task)
      /\ UNCHANGED <<state, next, granted, buffer, future, failed, table, accepted, promised, told>>
  BY DEF TypeOK, SinkAssumption, Capacity, GetConnection, TakeBatch, ExecutorFails, sinkVars
<1>1. CASE GetConnection(f) \/ ExecutorFails(f)
  <2>1. /\ slot' = slot /\ batch' = batch /\ executor' \in [Flush -> BOOLEAN]
        /\ closure' \in [Flush -> ClosurePC]
        /\ \A g \in Flush : \/ closure'[g] = closure[g]
                            \/ closure[g] = "queued" /\ closure'[g] \in {"connected", "notStarted"}
    BY <1>0, <1>1 DEF GetConnection, ExecutorFails, ClosurePC
  <2>2. TypeOK'
    BY <1>0, <2>1 DEF TypeOK
  <2>3. FlushInv'
    <3>1. \A g \in Flush :
            /\ slot[g] # None => closure'[g] \in {"queued", "connected", "notStarted"}
            /\ closure'[g] \in {"queued", "connected", "notStarted"} => batch[g] = <<>>
            /\ closure'[g] = "ok" => Range(batch[g]) \subseteq Range(table)
            /\ closure'[g] # "rejected"
      BY <2>1 DEF FlushInv
    <3>2. \A u \in Sink : state[u] = "live" /\ future[u] # None =>
            /\ closure'[future[u]] \in {"queued", "connected", "notStarted"} => slot[future[u]] # None
            /\ closure'[future[u]] \notin {"free", "panicked"}
      <4> TAKE u \in Sink
      <4>1. future[u] # None => future[u] \in Flush
        BY <1>0
      <4> QED BY <2>1, <4>1 DEF FlushInv
    <3>3. \A u, v \in Sink : state[u] = "live" /\ state[v] = "live" /\ future[u] = future[v] =>
            u = v \/ future[u] = None
      BY DEF FlushInv
    <3> QED BY <1>0, <2>1, <3>1, <3>2, <3>3 DEF FlushInv
  <2>4. Kept' /\ PromiseKept' /\ \A u \in Sink : SinkOk(u)'
    BY <1>0, <2>1 DEF Kept, OnTheWay, PromiseKept, SinkOk, Load
  <2>5. \A g \in Flush : Cargo(g)' = Cargo(g)
    BY <2>1 DEF Cargo
  <2> QED BY <2>2, <2>3, <2>4, <2>5
<1>2. CASE TakeBatch(f) /\ slot[f] = None
  <2>1. /\ closure' = [closure EXCEPT ![f] = "panicked"] /\ closure[f] = "connected"
        /\ slot' = slot /\ batch' = batch /\ executor' = executor
    BY <1>0, <1>2 DEF TakeBatch
  <2>2. TypeOK'
    BY <1>0, <2>1 DEF TypeOK, ClosurePC
  <2>3. FlushInv'
    <3>1. \A g \in Flush :
            /\ slot[g] # None => closure'[g] \in {"queued", "connected", "notStarted"}
            /\ closure'[g] \in {"queued", "connected", "notStarted"} => batch[g] = <<>>
            /\ closure'[g] = "ok" => Range(batch[g]) \subseteq Range(table)
            /\ closure'[g] # "rejected"
      BY <1>0, <1>2, <2>1 DEF FlushInv
    <3>2. \A u \in Sink : state[u] = "live" /\ future[u] # None =>
            /\ closure'[future[u]] \in {"queued", "connected", "notStarted"} => slot[future[u]] # None
            /\ closure'[future[u]] \notin {"free", "panicked"}
      <4> TAKE u \in Sink
      <4>1. state[u] = "live" /\ future[u] # None => future[u] \in Flush /\ future[u] # f
        BY <1>0, <1>2, <2>1 DEF FlushInv
      <4>2. state[u] = "live" /\ future[u] # None => closure'[future[u]] = closure[future[u]]
        BY <1>0, <2>1, <4>1
      <4> QED BY <4>1, <4>2 DEF FlushInv
    <3>3. \A u, v \in Sink : state[u] = "live" /\ state[v] = "live" /\ future[u] = future[v] =>
            u = v \/ future[u] = None
      BY DEF FlushInv
    <3> QED BY <1>0, <2>1, <3>1, <3>2, <3>3 DEF FlushInv
  <2>4. Kept' /\ PromiseKept' /\ \A u \in Sink : SinkOk(u)'
    BY <1>0, <2>1 DEF Kept, OnTheWay, PromiseKept, SinkOk, Load
  <2>5. \A g \in Flush : Cargo(g)' = Cargo(g)
    BY <1>0, <1>2, <2>1 DEF Cargo
  <2> QED BY <2>2, <2>3, <2>4, <2>5
<1>3. CASE TakeBatch(f) /\ slot[f] # None
  <2>0. slot[f] \in Seq(Task) /\ batch[f] = <<>> /\ closure[f] = "connected"
    BY <1>0, <1>3 DEF TakeBatch, FlushInv
  <2>1. Range(slot[f]) \intersect Invalid = {}
    <3>1. Cargo(f) = slot[f]
      BY <1>3, <2>0 DEF Cargo
    <3>2. Range(slot[f]) \subseteq Task
      BY <2>0, RangeOf
    <3> QED BY <3>1, <3>2 DEF Known, Task, Of
  <2>2. /\ closure' = [closure EXCEPT ![f] = "writing"] /\ slot' = [slot EXCEPT ![f] = None]
        /\ batch' = [batch EXCEPT ![f] = slot[f]] /\ executor' = executor
    BY <1>3, <2>1 DEF TakeBatch
  <2>3. /\ closure'[f] = "writing" /\ slot'[f] = None /\ batch'[f] = slot[f]
        /\ \A g \in Flush : g # f => /\ closure'[g] = closure[g] /\ slot'[g] = slot[g]
                                     /\ batch'[g] = batch[g]
    BY <1>0, <2>2
  <2>4. TypeOK'
    <3>1. /\ closure' \in [Flush -> ClosurePC] /\ slot' \in [Flush -> Seq(Task) \union {None}]
          /\ batch' \in [Flush -> Seq(Task)]
      BY <1>0, <2>0, <2>2 DEF ClosurePC
    <3> QED BY <1>0, <2>2, <3>1 DEF TypeOK
  <2>5. FlushInv'
    <3>1. \A g \in Flush :
            /\ slot'[g] # None => closure'[g] \in {"queued", "connected", "notStarted"}
            /\ closure'[g] \in {"queued", "connected", "notStarted"} => batch'[g] = <<>>
            /\ closure'[g] = "ok" => Range(batch'[g]) \subseteq Range(table)
            /\ closure'[g] # "rejected"
      BY <2>3 DEF FlushInv
    <3>2. \A u \in Sink : state[u] = "live" /\ future[u] # None =>
            /\ closure'[future[u]] \in {"queued", "connected", "notStarted"} => slot'[future[u]] # None
            /\ closure'[future[u]] \notin {"free", "panicked"}
      <4> TAKE u \in Sink
      <4>1. future[u] # None => future[u] \in Flush
        BY <1>0
      <4> QED BY <2>3, <4>1 DEF FlushInv
    <3>3. \A u, v \in Sink : state[u] = "live" /\ state[v] = "live" /\ future[u] = future[v] =>
            u = v \/ future[u] = None
      BY DEF FlushInv
    <3> QED BY <1>0, <3>1, <3>2, <3>3 DEF FlushInv
  <2>6. \A u \in Sink : SinkOk(u)'
    <3> TAKE u \in Sink
    <3>1. /\ Len(buffer[u]) \in Nat /\ Waiting(u) \in Nat
          /\ Load(u) = Len(buffer[u]) + Waiting(u) /\ Load(u) \in Nat
      BY LoadType
    <3>2. Waiting(u)' = Waiting(u) \/ Waiting(u)' = 0
      <4>1. CASE future[u] \in Flush /\ future[u] # f
        BY <1>0, <2>3, <4>1 DEF Waiting
      <4>2. CASE future[u] = f
        BY <1>0, <2>3, <4>2 DEF Waiting
      <4>3. CASE future[u] = None
        BY <1>0, <4>3 DEF Waiting
      <4> QED BY <1>0, <4>1, <4>2, <4>3
    <3>3. Load(u)' = Len(buffer[u]) + Waiting(u)'
      BY <1>0 DEF Load, Waiting
    <3>4. Load(u)' <= Load(u) /\ Load(u)' \in Nat
      BY <3>1, <3>2, <3>3
    <3> HIDE DEF Load
    <3>5. state[u] = "live" => Load(u)' <= Capacity /\ (granted[u] => Load(u)' < Capacity)
      BY <1>0, <3>1, <3>4 DEF SinkOk
    <3> QED BY <1>0, <3>5 DEF SinkOk
  <2>7. Kept'
    <3> SUFFICES ASSUME NEW u \in Sink PROVE OnTheWay(u)' = OnTheWay(u)
      BY <1>0 DEF Kept
    <3>1. CASE future[u] \in Flush /\ future[u] # f
      BY <1>0, <2>3, <3>1 DEF OnTheWay
    <3>2. CASE future[u] = f
      BY <1>0, <1>3, <2>0, <2>3, <3>2, EmptyChain DEF OnTheWay
    <3>3. CASE future[u] = None
      BY <1>0, <3>3 DEF OnTheWay
    <3> QED BY <1>0, <3>1, <3>2, <3>3
  <2>8. \A g \in Flush : Cargo(g)' = Cargo(g)
    BY <1>3, <2>0, <2>3 DEF Cargo
  <2>9. PromiseKept'
    BY <1>0 DEF PromiseKept
  <2> QED BY <2>4, <2>5, <2>6, <2>7, <2>8, <2>9
<1> QED BY <1>1, <1>2, <1>3

LEMMA RestWrite ==
  ASSUME SinkAssumption, Rest, NEW f \in Flush, Write(f)
  PROVE  Rest'
<1> USE DEF Rest
<1>0. /\ closure \in [Flush -> ClosurePC] /\ batch \in [Flush -> Seq(Task)] /\ table \in Seq(Task)
      /\ future \in [Sink -> Flush \union {None}] /\ None \notin Flush
      /\ closure[f] = "writing" /\ closure'[f] \in {"ok", "uncertain"}
      /\ closure' \in [Flush -> ClosurePC]
      /\ \A g \in Flush : g # f => closure'[g] = closure[g]
      /\ table' = table \o batch[f] \/ (table' = table /\ closure'[f] = "uncertain")
      /\ UNCHANGED <<state, next, granted, buffer, future, failed, slot, batch, executor, accepted,
                     promised, told>>
  BY DEF TypeOK, SinkAssumption, Write, sinkVars, ClosurePC
<1>1. /\ table' \in Seq(Task) /\ Range(table) \subseteq Range(table')
      /\ closure'[f] = "ok" => Range(batch[f]) \subseteq Range(table')
  <2> DEFINE q == batch[f]
  <2>1. q \in Seq(Task)
    BY <1>0
  <2> HIDE DEF q
  <2>2. table \o q \in Seq(Task) /\ Range(table \o q) = Range(table) \union Range(q)
    BY <1>0, <2>1, ConcatOf
  <2> QED BY <1>0, <2>2 DEF q
<1>2. TypeOK'
  BY <1>0, <1>1 DEF TypeOK
<1>3. FlushInv'
  <2>1. \A g \in Flush :
          /\ slot[g] # None => closure'[g] \in {"queued", "connected", "notStarted"}
          /\ closure'[g] \in {"queued", "connected", "notStarted"} => batch[g] = <<>>
          /\ closure'[g] = "ok" => Range(batch[g]) \subseteq Range(table')
          /\ closure'[g] # "rejected"
    BY <1>0, <1>1 DEF FlushInv
  <2>2. \A u \in Sink : state[u] = "live" /\ future[u] # None =>
          /\ closure'[future[u]] \in {"queued", "connected", "notStarted"} => slot[future[u]] # None
          /\ closure'[future[u]] \notin {"free", "panicked"}
    <3> TAKE u \in Sink
    <3>1. future[u] # None => future[u] \in Flush
      BY <1>0
    <3> QED BY <1>0, <3>1 DEF FlushInv
  <2>3. \A u, v \in Sink : state[u] = "live" /\ state[v] = "live" /\ future[u] = future[v] =>
          u = v \/ future[u] = None
    BY DEF FlushInv
  <2> QED BY <1>0, <2>1, <2>2, <2>3 DEF FlushInv
<1>4. Kept' /\ PromiseKept' /\ \A u \in Sink : SinkOk(u)'
  BY <1>0, <1>1 DEF Kept, OnTheWay, PromiseKept, SinkOk, Load
<1> QED BY <1>2, <1>3, <1>4

-----------------------------------------------------------------------------
\* The invariant.

LEMMA SinkParts == SinkInv <=> Pipe /\ Rest /\ AcceptedInOrder
BY DEF SinkInv, Pipe, Rest

LEMMA SinkInit ==
  ASSUME SinkAssumption, Init
  PROVE  SinkInv
<1>0. /\ \A s \in Sink : /\ state[s] \in {"none", "live"} /\ next[s] = 0 /\ ~granted[s]
                         /\ buffer[s] = <<>> /\ future[s] = None /\ ~failed[s] /\ accepted[s] = <<>>
      /\ \A f \in Flush : closure[f] = "free" /\ slot[f] = None /\ batch[f] = <<>>
      /\ table = <<>> /\ promised = {} /\ told = {}
  BY DEF Init
<1>1. \A f \in Flush : Cargo(f) = <<>>
  BY <1>0 DEF Cargo
<1>2. Capacity \in Nat /\ Len(<<>>) = 0 /\ Capacity > 0
  BY DEF SinkAssumption, Capacity
<1>3. TypeOK
  <2>1. buffer \in [Sink -> Seq(Task)] /\ accepted \in [Sink -> Seq(Task)]
        /\ batch \in [Flush -> Seq(Task)] /\ table \in Seq(Task)
    BY DEF Init
  <2>2. \A s \in Sink : Len(buffer[s]) <= Capacity
    BY <1>0, <1>2
  <2>3. /\ state \in [Sink -> {"none", "live", "dropped"}] /\ next \in [Sink -> Nat]
        /\ granted \in [Sink -> BOOLEAN] /\ failed \in [Sink -> BOOLEAN]
        /\ future \in [Sink -> Flush \union {None}] /\ closure \in [Flush -> ClosurePC]
        /\ slot \in [Flush -> Seq(Task) \union {None}] /\ executor \in [Flush -> BOOLEAN]
        /\ promised \subseteq Task /\ told \subseteq Sink
    BY DEF Init, ClosurePC
  <2> QED BY <2>1, <2>2, <2>3 DEF TypeOK
<1>4. InOrder /\ OneFlush
  BY <1>0, <1>1, EmptyChain DEF InOrder, OneFlush, Behind
<1>5. Known
  <2>1. \A s \in Sink : Len(Offer[s]) \in Nat
    BY DEF SinkAssumption
  <2>2. \A s \in Sink : next[s] <= Len(Offer[s])
    BY <1>0, <2>1
  <2> QED BY <1>0, <1>1, <2>2, EmptyChain DEF Known
<1>6. FlushInv
  <2>1. \A f \in Flush :
          /\ slot[f] = None
          /\ closure[f] \notin {"queued", "connected", "notStarted", "ok", "rejected"}
    BY <1>0
  <2>2. \A s \in Sink : future[s] = None
    BY <1>0
  <2> QED BY <2>1, <2>2 DEF FlushInv
<1>7. \A s \in Sink : SinkOk(s)
  <2>1. ASSUME NEW s \in Sink PROVE Load(s) = 0
    <3>1. Len(buffer[s]) = 0 /\ future[s] = None
      BY <1>0, <1>2
    <3> QED BY <3>1 DEF Load
  <2> QED BY <1>0, <1>2, <2>1 DEF SinkOk
<1>8. Kept /\ AcceptedInOrder /\ PromiseKept
  <2>1. DOMAIN <<>> = {}
    OBVIOUS
  <2> QED BY <1>0, <2>1, EmptyChain DEF Kept, AcceptedInOrder, PromiseKept
<1> QED BY <1>3, <1>4, <1>5, <1>6, <1>7, <1>8 DEF SinkInv

LEMMA SinkStep ==
  ASSUME SinkAssumption, SinkInv, Next
  PROVE  SinkInv'
<1>0. /\ Pipe /\ Rest /\ AcceptedInOrder /\ TypeOK /\ FlushInv /\ Known
      /\ None \notin Flush /\ future \in [Sink -> Flush \union {None}]
      /\ state \in [Sink -> {"none", "live", "dropped"}] /\ failed \in [Sink -> BOOLEAN]
      /\ \A s \in Sink : SinkOk(s)
  BY SinkParts DEF Pipe, Rest, TypeOK, SinkAssumption
<1>1. ASSUME NEW s \in Sink, PollReady(s) \/ Drop(s) \/ \E u \in Sink : Clone(u, s)
      PROVE  SinkInv'
  <2>1. Rest' /\ buffer' = buffer
    BY <1>0, <1>1, RestSame
  <2>2. UNCHANGED <<next, future, failed, closure, slot, batch, table, accepted>>
    BY <1>1 DEF PollReady, Drop, Clone, flushVars
  <2>3. \A u \in Sink : state'[u] # "dropped" => state[u] # "dropped"
    BY <1>0, <1>1 DEF PollReady, Drop, Clone
  <2>4. \A u \in Sink : state'[u] = "live" => state[u] = "live" \/ future[u] = None
    BY <1>0, <1>1 DEF PollReady, Drop, Clone, SinkOk
  <2>5. \A f \in Flush : Cargo(f)' = Cargo(f)
    BY <2>2 DEF Cargo
  <2>6. Pipe'
    BY <1>0, <2>1, <2>2, <2>3, <2>4, <2>5, PipeSame
  <2>7. AcceptedInOrder'
    BY <1>0, <2>2, AcceptedSame
  <2> QED BY <2>1, <2>6, <2>7, SinkParts DEF SinkInv, Pipe, Rest
<1>2. ASSUME NEW s \in Sink, StartSend(s) PROVE SinkInv'
  <2>1. Pipe' /\ Rest' /\ AcceptedInOrder'
    BY <1>0, <1>2, PipeSend, RestSend
  <2> QED BY <2>1 DEF SinkInv, Pipe, Rest
<1>3. ASSUME NEW s \in Sink, NEW f \in Flush, Submit(s, f), state[s] = "live", ~failed[s],
             future[s] = None \/ closure[future[s]] = "ok",
             UNCHANGED <<state, next, granted, failed, table, accepted, promised, told>>
      PROVE  SinkInv'
  <2>1. \A g \in Flush : g = future[s] => Cargo(g) = <<>>
    BY <1>0, <1>3 DEF Cargo, FlushInv
  <2>2. Pipe' /\ Rest' /\ AcceptedInOrder'
    BY <1>0, <1>3, <2>1, PipeSubmit, RestSubmit, AcceptedSame
  <2> QED BY <2>2 DEF SinkInv, Pipe, Rest
<1>4. ASSUME NEW s \in Sink, \E f \in Flush : StartFlush(s, f) PROVE SinkInv'
  BY <1>3, <1>4 DEF StartFlush
<1>5. ASSUME NEW s \in Sink, NEW h \in Flush, h = future[s], state[s] = "live",
             closure[h] \notin {"queued", "connected", "notStarted", "writing"} \/ failed'[s],
             slot[h] = None,
             future' = [future EXCEPT ![s] = None],
             UNCHANGED <<state, next, granted, buffer, flushVars, table, accepted>>,
             \/ /\ closure[h] = "ok" /\ buffer[s] = <<>>
                /\ promised' = promised \union Range(accepted[s])
                /\ ~failed[s] /\ UNCHANGED <<failed, told>>
             \/ /\ failed' = [failed EXCEPT ![s] = TRUE] /\ told' = told \union {s}
                /\ UNCHANGED promised
      PROVE  SinkInv'
  <2>1. Rest' /\ AcceptedInOrder'
    BY <1>0, <1>5, RestForget, AcceptedSame
  <2>2. \A f \in Flush : Cargo(f)' = Cargo(f)
    BY <1>5 DEF Cargo, flushVars
  <2>3. closure[h] = "writing" \/ Cargo(h) = <<>>
    BY <1>5 DEF Cargo
  <2>4. \A u \in Sink : u # s => future'[u] = future[u] /\ failed'[u] = failed[u]
    BY <1>0, <1>5
  <2>5. future'[s] = None /\ (failed'[s] \/ Cargo(h) = <<>>) /\ (failed[s] => failed'[s])
    BY <1>0, <1>5, <2>3
  <2>6. Pipe'
    BY <1>0, <1>5, <2>2, <2>4, <2>5, PipeSame
  <2> QED BY <2>1, <2>6 DEF SinkInv, Pipe, Rest
<1>6. ASSUME NEW s \in Sink, FlushOk(s) PROVE SinkInv'
  <2>0. /\ state[s] = "live" /\ future[s] \in Flush /\ closure[future[s]] = "ok"
        /\ ~failed[s] /\ slot[future[s]] = None
    BY <1>0, <1>6 DEF FlushOk, SinkOk, FlushInv
  <2>1. CASE buffer[s] = <<>>
    BY <1>5, <1>6, <2>0, <2>1 DEF FlushOk, MayPromise
  <2>2. CASE buffer[s] # <<>>
    BY <1>3, <1>6, <2>0, <2>2 DEF FlushOk, MayPromise
  <2> QED BY <2>1, <2>2
<1>7. ASSUME NEW s \in Sink, FlushNotStarted(s) PROVE SinkInv'
  <2>1. future[s] \in Flush /\ slot[future[s]] \in Seq(Task) /\ slot[future[s]] # None
    BY <1>0, <1>7, BatchInSlot
  <2>2. Pipe' /\ Rest'
    BY <1>0, <1>7, <2>1, PipeHandBack, RestHandBack
  <2>3. AcceptedInOrder'
    BY <1>0, <1>7, AcceptedSame DEF FlushNotStarted
  <2> QED BY <2>2, <2>3 DEF SinkInv, Pipe, Rest
<1>8. ASSUME NEW s \in Sink, FlushFailed(s) PROVE SinkInv'
  <2>0. /\ state[s] = "live" /\ future[s] \in Flush /\ closure[future[s]] # "rejected"
        /\ slot[future[s]] = None
    BY <1>0, <1>8 DEF FlushFailed, FlushInv
  <2>1. /\ failed' = [failed EXCEPT ![s] = TRUE] /\ told' = told \union {s}
        /\ future' = [future EXCEPT ![s] = None]
        /\ UNCHANGED <<state, next, granted, buffer, flushVars, table, accepted, promised>>
    BY <1>8, <2>0 DEF FlushFailed, Uncertain
  <2>2. failed'[s]
    BY <1>0, <2>1
  <2> QED BY <1>5, <2>0, <2>1, <2>2
<1>9. ASSUME NEW f \in Flush, GetConnection(f) \/ TakeBatch(f) \/ ExecutorFails(f) PROVE SinkInv'
  <2>1. Rest' /\ \A g \in Flush : Cargo(g)' = Cargo(g)
    BY <1>0, <1>9, RestClosure
  <2>2. UNCHANGED <<state, next, buffer, future, failed, table, accepted>>
    BY <1>9 DEF GetConnection, TakeBatch, ExecutorFails, sinkVars
  <2>3. Pipe' /\ AcceptedInOrder'
    BY <1>0, <2>1, <2>2, PipeSame, AcceptedSame
  <2> QED BY <2>1, <2>3 DEF SinkInv, Pipe, Rest
<1>10. ASSUME NEW f \in Flush, Write(f) PROVE SinkInv'
  <2>1. Pipe' /\ Rest'
    BY <1>0, <1>10, PipeWrite, RestWrite
  <2>2. AcceptedInOrder'
    BY <1>0, <1>10, AcceptedSame DEF Write, sinkVars
  <2> QED BY <2>1, <2>2 DEF SinkInv, Pipe, Rest
<1> QED BY <1>1, <1>2, <1>4, <1>6, <1>7, <1>8, <1>9, <1>10 DEF Next, PollFlush, ClosureStep

LEMMA SinkStutter ==
  ASSUME SinkInv, UNCHANGED vars
  PROVE  SinkInv'
<1>1. UNCHANGED <<state, next, granted, buffer, future, failed, closure, slot, batch, executor, table,
                  accepted, promised, told>>
  BY DEF vars, sinkVars, flushVars
<1>2. TypeOK' /\ FlushInv' /\ PromiseKept'
  BY <1>1 DEF SinkInv, TypeOK, FlushInv, PromiseKept
<1>3. \A f \in Flush : Cargo(f)' = Cargo(f)
  BY <1>1 DEF Cargo
<1>4. Pipe' /\ AcceptedInOrder'
  BY <1>1, <1>3, PipeSame, AcceptedSame DEF SinkInv, Pipe
<1>5. Kept' /\ \A s \in Sink : SinkOk(s)'
  BY <1>1 DEF SinkInv, Kept, OnTheWay, SinkOk, Load
<1> QED BY <1>2, <1>4, <1>5 DEF SinkInv, Pipe

\* The sink's invariant, for any offers in which no task comes twice.
THEOREM SinkSafe ==
  ASSUME SinkAssumption
  PROVE  Spec => []SinkInv
<1>1. Init => SinkInv
  BY SinkInit
<1>2. SinkInv /\ [Next]_vars => SinkInv'
  BY SinkStep, SinkStutter
<1> QED BY <1>1, <1>2, PTL DEF Spec

\* Whatever fails around a flush: tasks that PgSink accepted are neither lost
\* nor written twice nor reordered, its buffer never overflows, and an Ok of
\* poll_flush covers everything accepted before it.
THEOREM PushesExact ==
  ASSUME SinkAssumption
  PROVE  Spec => []PushExact
<1>1. ASSUME SinkInv PROVE NothingLost
  BY <1>1 DEF SinkInv, Kept, NothingLost, SinkOk
<1>2. ASSUME SinkInv PROVE NeverTwice
  <2>1. DOMAIN table \subseteq Nat /\ Chain(table)
    BY <1>2, RangeOf DEF SinkInv, TypeOK, InOrder
  <2> SUFFICES ASSUME NEW i \in DOMAIN table, NEW j \in DOMAIN table, table[i] = table[j], i # j
               PROVE  FALSE
    BY DEF NeverTwice, IsInjective
  <2>2. i < j \/ j < i
    BY <2>1
  <2> QED BY <2>1, <2>2 DEF Chain, MayFollow
<1>3. ASSUME SinkInv PROVE OrderKept
  <2> SUFFICES ASSUME NEW s \in Sink, NEW i \in DOMAIN table, NEW j \in DOMAIN table,
                      NEW k \in DOMAIN accepted[s], NEW l \in DOMAIN accepted[s],
                      i < j, table[i] = accepted[s][k], table[j] = accepted[s][l], ~(k < l)
               PROVE  FALSE
    BY DEF OrderKept
  <2>1. MayFollow(table[i], table[j])
    BY <1>3 DEF SinkInv, InOrder, Chain
  <2>2. k # l /\ k \in Nat /\ l \in Nat
    BY <1>3, <2>1, RangeOf DEF MayFollow, SinkInv, TypeOK
  <2>3. l < k
    BY <2>2
  <2>4. Precedes(accepted[s][l], accepted[s][k])
    BY <1>3, <2>3 DEF SinkInv, AcceptedInOrder
  <2> QED BY <2>1, <2>4 DEF MayFollow
<1>4. SinkInv => PushExact
  BY <1>1, <1>2, <1>3 DEF SinkInv, PushExact
<1> QED BY <1>4, SinkSafe, PTL

-----------------------------------------------------------------------------
\* Subsequences.

\* A finite set of numbers has an increasing enumeration, which is Ascending.
LEMMA AscendingOf ==
  ASSUME NEW S \in SUBSET Nat, IsFiniteSet(S)
  PROVE  LET n == Cardinality(S)
             f == Ascending(S)
         IN  /\ n \in Nat /\ f \in [1 .. n -> S]
             /\ \A i, j \in 1 .. n : i < j => f[i] < f[j]
             /\ \A x \in S : \E i \in 1 .. n : f[i] = x
<1> DEFINE n == Cardinality(S)
           below(x) == {y \in S : y <= x}
           r == [x \in S |-> Cardinality(below(x))]
           Rises(f) == \A i, j \in 1 .. n : i < j => f[i] < f[j]
<1>1. n \in Nat /\ IsFiniteSet(1 .. n) /\ Cardinality(1 .. n) = n
  <2>1. n \in Nat
    BY FS_CardinalityType
  <2> HIDE DEF n
  <2>2. 1 \in Int /\ n \in Int
    BY <2>1
  <2>3. IsFiniteSet(1 .. n) /\ Cardinality(1 .. n) = IF 1 > n THEN 0 ELSE n - 1 + 1
    BY ONLY <2>2, FS_Interval
  <2> QED BY <2>1, <2>3
<1>2. ASSUME NEW x \in S
      PROVE  IsFiniteSet(below(x)) /\ below(x) \in SUBSET S /\ r[x] \in 1 .. n
  <2>1. below(x) \in SUBSET S /\ x \in below(x)
    OBVIOUS
  <2>2. IsFiniteSet(below(x)) /\ Cardinality(below(x)) <= n
    BY <2>1, FS_Subset
  <2>3. Cardinality(below(x)) \in Nat /\ Cardinality(below(x)) # 0
    BY <2>1, <2>2, FS_CardinalityType, FS_EmptySet
  <2> QED BY <1>1, <2>1, <2>2, <2>3
<1>3. ASSUME NEW x \in S, NEW y \in S, x < y
      PROVE  r[x] < r[y]
  <2>0. x \in Nat /\ y \in Nat /\ \A z \in S : z \in Nat
    OBVIOUS
  <2>1. below(x) \in SUBSET below(y) /\ y \in below(y) /\ y \notin below(x)
    <3>1. ASSUME NEW z \in below(x) PROVE z \in below(y)
      <4>1. z \in S /\ z \in Nat /\ z <= x
        BY <2>0
      <4> QED BY <1>3, <2>0, <4>1
    <3>2. y \in below(y) /\ y \notin below(x)
      BY <1>3, <2>0
    <3> QED BY <3>1, <3>2
  <2>2. Cardinality(below(x)) <= Cardinality(below(y)) /\ Cardinality(below(y)) # Cardinality(below(x))
    <3> HIDE DEF below
    <3> QED BY <1>2, <2>1, FS_Subset
  <2>3. r[x] \in Nat /\ r[y] \in Nat /\ r[x] = Cardinality(below(x)) /\ r[y] = Cardinality(below(y))
    BY <1>2
  <2> QED BY <2>2, <2>3
<1> HIDE DEF r, n
<1>4. r \in [S -> 1 .. n]
  BY <1>2 DEF r
<1>5. \A x, y \in S : r[x] = r[y] => x = y
  <2> SUFFICES ASSUME NEW x \in S, NEW y \in S, x # y PROVE r[x] # r[y]
    OBVIOUS
  <2>0. x \in Nat /\ y \in Nat
    OBVIOUS
  <2>1. x < y \/ y < x
    BY <2>0
  <2>2. r[x] \in Nat /\ r[y] \in Nat
    BY <1>1, <1>4
  <2> QED BY <1>3, <2>1, <2>2
<1>6. r \in Surjection(S, 1 .. n)
  <2>1. r \in Injection(S, 1 .. n)
    BY <1>4, <1>5 DEF Injection, IsInjective
  <2> QED BY <1>1, <2>1, FS_Injection DEF n
<1>7. PICK g \in [1 .. n -> S] : \A k \in 1 .. n : r[g[k]] = k
  <2>1. \A k \in 1 .. n : \E x \in S : r[x] = k
    BY <1>6 DEF Surjection
  <2> DEFINE g == [k \in 1 .. n |-> CHOOSE x \in S : r[x] = k]
  <2>2. ASSUME NEW k \in 1 .. n PROVE g[k] \in S /\ r[g[k]] = k
    BY <2>1
  <2>3. g \in [1 .. n -> S]
    BY <2>2
  <2> QED BY <2>2, <2>3
<1>8. Rises(g)
  <2> SUFFICES ASSUME NEW i \in 1 .. n, NEW j \in 1 .. n, i < j, ~(g[i] < g[j]) PROVE FALSE
    OBVIOUS
  <2>1. g[i] \in Nat /\ g[j] \in Nat /\ g[i] \in S /\ g[j] \in S
    OBVIOUS
  <2>2. g[j] < g[i] \/ g[j] = g[i]
    BY <2>1
  <2>3. r[g[i]] = i /\ r[g[j]] = j
    BY <1>7
  <2>4. i \in Nat /\ j \in Nat
    OBVIOUS
  <2> QED BY <1>3, <2>1, <2>2, <2>3, <2>4
<1> DEFINE f == Ascending(S)
<1>9. f \in [1 .. n -> S] /\ Rises(f)
  <2>1. f = CHOOSE h \in [1 .. n -> S] : Rises(h)
    BY DEF Ascending, n
  <2> HIDE DEF f, Rises
  <2> QED BY <1>8, <2>1
<1> HIDE DEF f
<1>10. f \in Surjection(1 .. n, S)
  <2>1. ASSUME NEW i \in 1 .. n, NEW j \in 1 .. n, i # j PROVE f[i] # f[j]
    <3>1. i < j \/ j < i
      BY <2>1
    <3>2. f[i] \in Nat /\ f[j] \in Nat
      BY <1>9
    <3> QED BY <1>9, <3>1, <3>2
  <2>2. f \in Injection(1 .. n, S)
    BY <1>9, <2>1 DEF Injection, IsInjective
  <2>3. Cardinality(1 .. n) = Cardinality(S)
    BY <1>1 DEF n
  <2> QED BY <2>2, <2>3, FS_Injection
<1>11. \A x \in S : \E i \in 1 .. n : f[i] = x
  BY <1>10 DEF Surjection
<1> QED BY <1>1, <1>9, <1>11 DEF n, f

\* The subsequence of s at the positions S: its length and its elements, which
\* keep their order.
LEMMA AtOf ==
  ASSUME NEW T, NEW s \in Seq(T), NEW S \in SUBSET (1 .. Len(s))
  PROVE  /\ At(s, S) \in Seq(T) /\ Len(At(s, S)) = Cardinality(S) /\ Cardinality(S) \in Nat
         /\ DOMAIN At(s, S) = 1 .. Cardinality(S)
         /\ \A x : x \in Range(At(s, S)) <=> \E i \in S : x = s[i]
         /\ \A i, j \in DOMAIN At(s, S) : i < j =>
              \E a, b \in S : a < b /\ At(s, S)[i] = s[a] /\ At(s, S)[j] = s[b]
<1> DEFINE n == Cardinality(S)
           f == Ascending(S)
           t == At(s, S)
<1>1. Len(s) \in Nat /\ S \in SUBSET Nat /\ \A i \in S : s[i] \in T
  BY LenProperties, ElementOfSeq
<1>2. IsFiniteSet(S)
  <2>1. IsFiniteSet(1 .. Len(s))
    BY <1>1, FS_Interval
  <2> QED BY <2>1, FS_Subset
<1>3. /\ n \in Nat /\ f \in [1 .. n -> S]
      /\ \A i, j \in 1 .. n : i < j => f[i] < f[j]
      /\ \A x \in S : \E i \in 1 .. n : f[i] = x
  BY <1>1, <1>2, AscendingOf
<1>4. t = [k \in 1 .. n |-> s[f[k]]]
  BY DEF At
<1> HIDE DEF n, f, t
<1>5. t \in [1 .. n -> T]
  BY <1>1, <1>3, <1>4
<1>6. t \in Seq(T) /\ Len(t) = n /\ DOMAIN t = 1 .. n
  BY <1>3, <1>5
<1>7. \A x : x \in Range(t) <=> \E i \in S : x = s[i]
  <2>1. Range(t) = {t[k] : k \in 1 .. n}
    BY <1>6 DEF Range
  <2>2. ASSUME NEW k \in 1 .. n PROVE t[k] \in {s[i] : i \in S}
    BY <1>3, <1>4
  <2>3. ASSUME NEW i \in S PROVE s[i] \in {t[k] : k \in 1 .. n}
    BY <1>3, <1>4
  <2> QED BY <2>1, <2>2, <2>3
<1>8. \A i, j \in 1 .. n : i < j => \E a, b \in S : a < b /\ t[i] = s[a] /\ t[j] = s[b]
  <2> SUFFICES ASSUME NEW i \in 1 .. n, NEW j \in 1 .. n, i < j
               PROVE  \E a, b \in S : a < b /\ t[i] = s[a] /\ t[j] = s[b]
    OBVIOUS
  <2>1. f[i] \in S /\ f[j] \in S /\ f[i] < f[j] /\ t[i] = s[f[i]] /\ t[j] = s[f[j]]
    BY <1>3, <1>4
  <2> QED BY <2>1
<1>9. /\ t \in Seq(T) /\ Len(t) = n /\ n \in Nat
      /\ DOMAIN t = 1 .. n
      /\ \A x : x \in Range(t) <=> \E i \in S : x = s[i]
      /\ \A i, j \in DOMAIN t : i < j => \E a, b \in S : a < b /\ t[i] = s[a] /\ t[j] = s[b]
  <2>1. \A i, j \in DOMAIN t : i < j => \E a, b \in S : a < b /\ t[i] = s[a] /\ t[j] = s[b]
    <3> SUFFICES ASSUME NEW i \in DOMAIN t, NEW j \in DOMAIN t, i < j
                 PROVE  \E a, b \in S : a < b /\ t[i] = s[a] /\ t[j] = s[b]
      OBVIOUS
    <3>1. i \in 1 .. n /\ j \in 1 .. n
      BY <1>6
    <3> QED BY <1>8, <3>1
  <2> QED BY ONLY <1>3, <1>6, <1>7, <2>1
<1> QED BY ONLY <1>9 DEF n, t

-----------------------------------------------------------------------------
\* The outbox: its invariant.

\* The statement under way on a connection has taken at - 1 rows of its tasks.
\* When all of them were inserted, and they are when none has a key, the rows
\* it has got are the first rows of the tasks.
StatementInv(c) ==
  push[c] # NoPush =>
    /\ push[c] \in [batch : Batches, at : Nat, got : Batches]
    /\ push[c].at \in 1 .. (Len(push[c].batch) + 1)
    /\ Len(push[c].got) <= push[c].at - 1
    /\ Len(push[c].got) = push[c].at - 1 =>
         \A i \in 1 .. Len(push[c].got) : push[c].got[i] = push[c].batch[i]
    /\ ~AnyKey(push[c].batch) => Len(push[c].got) = push[c].at - 1

\* The rows of an open transaction are those its caller was told of, and
\* belong to the business task it has written, if any.  That task is new.
TransactionInv(c) ==
  /\ assured[c] = rows[c]
  /\ c \notin open => rows[c] = {} /\ order[c] = NoOrder
  /\ \A r \in rows[c] : r.of \in {order[c], NoOrder}
  /\ order[c] # NoOrder =>
       /\ order[c] \notin orders
       /\ \A r \in committed \cup kept \cup unsure : r.of # order[c]
       /\ \A d \in Conns \ {c} : order[d] # order[c]

\* The types of the variables.
OutboxTypes ==
  /\ committed \in SUBSET Rows /\ kept \in SUBSET Rows /\ unsure \in SUBSET Rows
  /\ orders \in SUBSET Orders
  /\ open \in SUBSET Conns
  /\ pushes \in 0 .. MaxPushes
  /\ rows \in [Conns -> SUBSET Rows] /\ assured \in [Conns -> SUBSET Rows]
  /\ order \in [Conns -> Orders \cup {NoOrder}]
  /\ answer \in [Conns -> Answers]
  /\ push \in [Conns -> [batch : Batches, at : Nat, got : Batches] \cup {NoPush}]

\* The inductive invariant of the outbox.
OutboxInv ==
  /\ OutboxTypes
  /\ \A c \in Conns : StatementInv(c)
  /\ \A c \in Conns : TransactionInv(c)
  /\ TableExact
  /\ OrderAndTasks

\* A batch is a sequence of tasks of a bounded length.
LEMMA BatchesAre ==
  /\ <<>> \in Batches
  /\ \A s \in Batches : s \in Seq(Tasks) /\ Len(s) \in 0 .. MaxBatch /\ DOMAIN s = 1 .. Len(s)
  /\ \A s : s \in Seq(Tasks) /\ Len(s) <= MaxBatch => s \in Batches
<1>0. MaxBatch \in Nat
  BY OutboxAssumption
<1>1. <<>> \in Batches
  <2>1. <<>> \in [1 .. 0 -> Tasks] /\ 0 \in 0 .. MaxBatch
    BY <1>0
  <2> QED BY <2>1 DEF Batches
<1>2. ASSUME NEW s \in Batches
      PROVE  s \in Seq(Tasks) /\ Len(s) \in 0 .. MaxBatch /\ DOMAIN s = 1 .. Len(s)
  <2>1. PICK n \in 0 .. MaxBatch : s \in [1 .. n -> Tasks]
    BY DEF Batches
  <2>2. n \in Nat
    BY <1>0
  <2> QED BY <2>1, <2>2
<1>3. ASSUME NEW s, s \in Seq(Tasks), Len(s) <= MaxBatch
      PROVE  s \in Batches
  <2>1. Len(s) \in Nat /\ s \in [1 .. Len(s) -> Tasks]
    BY <1>3, LenProperties, ElementOfSeq
  <2>2. Len(s) \in 0 .. MaxBatch
    BY <1>0, <1>3, <2>1
  <2> QED BY <2>1, <2>2 DEF Batches
<1> QED BY <1>1, <1>2, <1>3

\* What a connection stores of a batch.
LEMMA RowsOfAre ==
  ASSUME NEW c \in Conns, order[c] \in Orders \cup {NoOrder}, NEW s \in Batches
  PROVE  RowsOf(c, s) \in SUBSET Rows /\ \A r \in RowsOf(c, s) : r.of = order[c]
<1>1. ASSUME NEW t \in Range(s) PROVE t \in Tasks
  <2>1. s \in Seq(Tasks)
    BY BatchesAre
  <2> QED BY <2>1, ElementOfSeq DEF Range
<1> QED BY <1>1 DEF RowsOf, Rows, Tasks

\* The submitted keys of a tasks are keys.
LEMMA SubmittedAre ==
  ASSUME NEW tasks \in Batches
  PROVE  SubmittedKeys(tasks) \in Seq(Keys)
<1> DEFINE S == {i \in DOMAIN tasks : tasks[i].key # NoKey}
           keyed == At(tasks, S)
<1>1. tasks \in Seq(Tasks) /\ DOMAIN tasks = 1 .. Len(tasks)
  BY BatchesAre
<1>2. S \in SUBSET (1 .. Len(tasks))
  BY <1>1
<1>3. /\ keyed \in Seq(Tasks) /\ Len(keyed) = Cardinality(S) /\ Cardinality(S) \in Nat
      /\ DOMAIN keyed = 1 .. Cardinality(S)
      /\ \A x : x \in Range(keyed) <=> \E i \in S : x = tasks[i]
  <2> HIDE DEF S
  <2>1. keyed \in Seq(Tasks) /\ Len(keyed) = Cardinality(S) /\ Cardinality(S) \in Nat
    BY <1>1, <1>2, AtOf
  <2>2. DOMAIN keyed = 1 .. Cardinality(S)
    BY <1>1, <1>2, AtOf
  <2>3. \A x : x \in Range(keyed) <=> \E i \in S : x = tasks[i]
    BY <1>1, <1>2, AtOf
  <2> QED BY <2>1, <2>2, <2>3
<1>4. ASSUME NEW n \in DOMAIN keyed PROVE keyed[n].key \in Keys
  <2>1. keyed[n] \in Range(keyed)
    BY DEF Range
  <2>2. PICK i \in S : keyed[n] = tasks[i]
    BY <1>3, <2>1
  <2>3. tasks[i] \in Tasks /\ tasks[i].key # NoKey
    BY <1>1, <2>2, ElementOfSeq
  <2> QED BY <2>2, <2>3 DEF Tasks
<1>5. SubmittedKeys(tasks) = [n \in DOMAIN keyed |-> keyed[n].key]
  BY DEF SubmittedKeys
<1> HIDE DEF keyed, S
<1>6. SubmittedKeys(tasks) \in [1 .. Cardinality(S) -> Keys]
  BY <1>3, <1>4, <1>5
<1> QED BY <1>3, <1>6

\* What a conflict names is a sequence of keys.
LEMMA ConflictingAre ==
  ASSUME NEW tasks \in Batches, NEW got
  PROVE  ConflictingKeys(tasks, got) \in Seq(Keys)
<1> DEFINE keys == SubmittedKeys(tasks)
           S == {i \in DOMAIN keys : Submissions(keys, i) = Inserted(got, keys[i]) + 1}
<1>1. keys \in Seq(Keys)
  BY SubmittedAre
<1>2. S \in SUBSET (1 .. Len(keys))
  <2> HIDE DEF keys
  <2> QED BY <1>1, LenProperties
<1>3. ConflictingKeys(tasks, got) = At(keys, S)
  BY DEF ConflictingKeys
<1> HIDE DEF keys, S
<1> QED BY <1>1, <1>2, <1>3, AtOf

-----------------------------------------------------------------------------
\* The outbox: its steps.

\* The invariant holds of the empty tables.
LEMMA OutboxInitial == OutboxInit => OutboxInv
<1> SUFFICES ASSUME OutboxInit PROVE OutboxInv
  OBVIOUS
<1>1. NoAnswer \in Answers
  BY EmptySeq DEF NoAnswer, Answers
<1>2. OutboxTypes
  BY <1>1, OutboxAssumption DEF OutboxInit, OutboxTypes
<1>3. ASSUME NEW c \in Conns PROVE StatementInv(c) /\ TransactionInv(c)
  BY DEF OutboxInit, StatementInv, TransactionInv
<1>4. TableExact /\ OrderAndTasks
  BY DEF OutboxInit, TableExact, OrderAndTasks
<1> QED BY <1>2, <1>3, <1>4 DEF OutboxInv

\* The invariant implies type correctness.
LEMMA OutboxInvTypes ==
  OutboxInv => OutboxTypeOK
<1> SUFFICES ASSUME OutboxInv PROVE OutboxTypeOK
  OBVIOUS
<1>1. /\ committed \subseteq Rows /\ kept \subseteq Rows /\ unsure \subseteq Rows
      /\ orders \subseteq Orders
      /\ open \subseteq Conns
      /\ pushes \in 0..MaxPushes
  BY DEF OutboxInv, OutboxTypes
<1>2. ASSUME NEW c \in Conns
      PROVE  /\ rows[c] \subseteq Rows /\ assured[c] \subseteq Rows
             /\ order[c] \in Orders \cup {NoOrder}
             /\ c \notin open => rows[c] = {} /\ assured[c] = {} /\ order[c] = NoOrder
             /\ answer[c] \in Answers
             /\ push[c] = NoPush \/ /\ push[c].batch \in Batches
                                    /\ push[c].at \in 1..(Len(push[c].batch) + 1)
                                    /\ push[c].got \in Batches
  <2>1. StatementInv(c) /\ TransactionInv(c)
    BY DEF OutboxInv
  <2>2. rows[c] \subseteq Rows /\ assured[c] \subseteq Rows /\ order[c] \in Orders \cup {NoOrder}
        /\ answer[c] \in Answers
    BY DEF OutboxInv, OutboxTypes
  <2>3. c \notin open => rows[c] = {} /\ assured[c] = {} /\ order[c] = NoOrder
    BY <2>1 DEF TransactionInv
  <2>4. push[c] = NoPush \/ /\ push[c].batch \in Batches
                            /\ push[c].at \in 1..(Len(push[c].batch) + 1)
                            /\ push[c].got \in Batches
    BY <2>1 DEF StatementInv
  <2> QED BY <2>2, <2>3, <2>4
<1> QED BY <1>1, <1>2 DEF OutboxTypeOK

\* A step that leaves the transactions and the tables alone.
LEMMA SameTransactions ==
  ASSUME OutboxInv,
         UNCHANGED <<committed, orders, open, rows, order, assured, kept, unsure>>
  PROVE  /\ \A c \in Conns : TransactionInv(c)'
         /\ TableExact' /\ OrderAndTasks'
  BY DEF OutboxInv, TransactionInv, TableExact, OrderAndTasks

\* A step that leaves the statement of a connection alone.
LEMMA SameStatement ==
  ASSUME NEW c \in Conns, StatementInv(c), push'[c] = push[c]
  PROVE  StatementInv(c)'
  BY DEF StatementInv

\* A step after which a connection has no statement.
LEMMA NoStatement ==
  ASSUME NEW c \in Conns, push'[c] = NoPush
  PROVE  StatementInv(c)'
  BY DEF StatementInv

\* The caller opens a transaction.
LEMMA BeginKeeps ==
  ASSUME OutboxInv, NEW c \in Conns, Begin(c)
  PROVE  OutboxInv'
<1>0. NoAnswer \in Answers
  BY EmptySeq DEF NoAnswer, Answers
<1>1. OutboxTypes'
  BY <1>0 DEF OutboxInv, OutboxTypes, Begin
<1>2. ASSUME NEW d \in Conns PROVE StatementInv(d)'
  BY SameStatement DEF OutboxInv, Begin
<1>3. ASSUME NEW d \in Conns PROVE TransactionInv(d)'
  BY DEF OutboxInv, TransactionInv, Begin
<1>4. TableExact' /\ OrderAndTasks'
  BY DEF OutboxInv, TableExact, OrderAndTasks, Begin
<1> QED BY <1>1, <1>2, <1>3, <1>4 DEF OutboxInv

\* The business write: its id is found nowhere else.
LEMMA InsertOrderKeeps ==
  ASSUME OutboxInv, NEW c \in Conns, NEW o \in Orders, InsertOrder(c, o)
  PROVE  OutboxInv'
<1>1. OutboxTypes'
  BY DEF OutboxInv, OutboxTypes, InsertOrder
<1>2. ASSUME NEW d \in Conns PROVE StatementInv(d)'
  BY SameStatement DEF OutboxInv, InsertOrder
<1>3. order' = [order EXCEPT ![c] = o] /\ order \in [Conns -> Orders \cup {NoOrder}]
      /\ o # NoOrder /\ order[c] = NoOrder /\ c \in open
  BY OutboxAssumption DEF OutboxInv, OutboxTypes, InsertOrder
<1>4. o \notin orders /\ \A d \in Conns : order[d] # o
  BY DEF InsertOrder
<1>5. \A r \in committed \cup kept \cup unsure : r.of # o
  <2>1. \A r \in unsure : r.of # o
    BY DEF InsertOrder
  <2>2. \A r \in committed : r.of = o => r.of \in orders
    BY <1>3 DEF OutboxInv, OrderAndTasks
  <2>3. kept \subseteq committed
    BY DEF OutboxInv, TableExact
  <2> QED BY <1>4, <2>1, <2>2, <2>3
<1>6. UNCHANGED <<committed, orders, open, rows, assured, kept, unsure>>
  BY DEF InsertOrder
<1>7. ASSUME NEW d \in Conns PROVE TransactionInv(d)'
  <2>1. TransactionInv(d)
    BY DEF OutboxInv
  <2>2. CASE d = c
    <3>1. order'[c] = o /\ \A e \in Conns \ {c} : order'[e] = order[e]
      BY <1>3
    <3>2. \A r \in rows[c] : r.of = NoOrder
      BY <1>3, <2>1, <2>2 DEF TransactionInv
    <3> QED BY <1>3, <1>4, <1>5, <1>6, <2>1, <2>2, <3>1, <3>2 DEF TransactionInv
  <2>3. CASE d # c
    <3>1. order'[d] = order[d] /\ order'[c] = o /\ \A e \in Conns \ {c} : order'[e] = order[e]
      BY <1>3, <2>3
    <3>2. \A e \in Conns \ {d} : order[d] # NoOrder => order'[e] # order[d]
      BY <1>4, <2>1, <3>1 DEF TransactionInv
    <3> QED BY <1>6, <2>1, <3>1, <3>2 DEF TransactionInv
  <2> QED BY <2>2, <2>3
<1>8. TableExact' /\ OrderAndTasks'
  BY <1>6 DEF OutboxInv, TableExact, OrderAndTasks
<1> QED BY <1>1, <1>2, <1>7, <1>8 DEF OutboxInv

\* What the end of connection c's transaction leaves of the connections.
LEMMA EndedLeaves ==
  ASSUME OutboxInv, NEW c \in Conns, Ended(c)
  PROVE  /\ open' \in SUBSET Conns /\ c \notin open'
         /\ rows' \in [Conns -> SUBSET Rows] /\ assured' \in [Conns -> SUBSET Rows]
         /\ order' \in [Conns -> Orders \cup {NoOrder}]
         /\ push' \in [Conns -> [batch : Batches, at : Nat, got : Batches] \cup {NoPush}]
         /\ rows'[c] = {} /\ assured'[c] = {} /\ order'[c] = NoOrder
         /\ \A d \in Conns \ {c} :
              /\ rows'[d] = rows[d] /\ assured'[d] = assured[d] /\ order'[d] = order[d]
              /\ d \in open' <=> d \in open
         /\ \A d \in Conns : StatementInv(d)'
<1>1. /\ open' \in SUBSET Conns /\ c \notin open'
      /\ rows' \in [Conns -> SUBSET Rows] /\ assured' \in [Conns -> SUBSET Rows]
      /\ order' \in [Conns -> Orders \cup {NoOrder}]
      /\ push' \in [Conns -> [batch : Batches, at : Nat, got : Batches] \cup {NoPush}]
  BY DEF OutboxInv, OutboxTypes, Ended
<1>2. /\ rows'[c] = {} /\ assured'[c] = {} /\ order'[c] = NoOrder
      /\ \A d \in Conns \ {c} :
           /\ rows'[d] = rows[d] /\ assured'[d] = assured[d] /\ order'[d] = order[d]
           /\ d \in open' <=> d \in open
  BY DEF OutboxInv, OutboxTypes, Ended
<1>3. push'[c] = NoPush /\ \A d \in Conns \ {c} : push'[d] = push[d]
  BY DEF OutboxInv, OutboxTypes, Ended
<1>4. ASSUME NEW d \in Conns PROVE StatementInv(d)'
  <2>1. CASE d = c
    BY <1>3, <2>1, NoStatement
  <2>2. CASE d # c
    BY <1>3, <2>2, SameStatement DEF OutboxInv
  <2> QED BY <2>1, <2>2
<1> QED BY <1>1, <1>2, <1>4

\* The transaction of c ends: its rows R and its business task are stored or
\* lost together.
LEMMA TransactionEnds ==
  ASSUME OutboxInv, NEW c \in Conns, Ended(c), pushes' = pushes, answer' \in [Conns -> Answers],
         Stored(c) \/ UNCHANGED <<committed, orders>>,
         \/ kept' = kept \cup rows[c] /\ Stored(c) /\ unsure' = unsure
         \/ unsure' = unsure \cup rows[c] /\ kept' = kept
         \/ UNCHANGED <<committed, orders, kept, unsure>>
  PROVE  OutboxInv'
<1> DEFINE all == committed \cup kept \cup unsure
           more == all \cup rows[c]
<1>1. /\ rows[c] \in SUBSET Rows /\ order[c] \in Orders \cup {NoOrder}
      /\ \A r \in rows[c] : r.of \in {order[c], NoOrder}
      /\ order[c] # NoOrder => order[c] \notin orders /\ \A r \in all : r.of # order[c]
      /\ \A d \in Conns \ {c} : order[c] # NoOrder => order[d] # order[c]
  <2>1. TransactionInv(c)
    BY DEF OutboxInv
  <2> QED BY <2>1 DEF OutboxInv, OutboxTypes, TransactionInv
<1>2. /\ committed \in SUBSET Rows /\ kept \in SUBSET Rows /\ unsure \in SUBSET Rows
      /\ orders \in SUBSET Orders /\ NoOrder \notin Orders
  BY OutboxAssumption DEF OutboxInv, OutboxTypes
<1>3. \/ committed' = committed \cup rows[c] /\ orders' = orders \cup ({order[c]} \ {NoOrder})
      \/ committed' = committed /\ orders' = orders
  BY DEF Stored
<1>4. committed' \cup kept' \cup unsure' \subseteq more
  BY <1>3
<1>5. OutboxTypes'
  <2>1. committed' \in SUBSET Rows /\ kept' \in SUBSET Rows /\ unsure' \in SUBSET Rows
    BY <1>1, <1>2, <1>4
  <2>2. orders' \in SUBSET Orders
    BY <1>1, <1>2, <1>3
  <2>3. pushes' \in 0 .. MaxPushes /\ answer' \in [Conns -> Answers]
    BY DEF OutboxInv, OutboxTypes
  <2> QED BY <2>1, <2>2, <2>3, EndedLeaves DEF OutboxTypes
<1>6. \A d \in Conns : StatementInv(d)'
  BY EndedLeaves
<1>7. ASSUME NEW d \in Conns PROVE TransactionInv(d)'
  <2>1. CASE d = c
    <3>1. rows'[d] = {} /\ assured'[d] = {} /\ order'[d] = NoOrder
      BY <2>1, EndedLeaves
    <3> QED BY <3>1 DEF TransactionInv
  <2>2. CASE d # c
    <3>1. TransactionInv(d)
      BY DEF OutboxInv
    <3>2. /\ rows'[d] = rows[d] /\ assured'[d] = assured[d] /\ order'[d] = order[d]
          /\ d \in open' <=> d \in open
      BY <2>2, EndedLeaves
    <3>3. ASSUME order[d] # NoOrder
          PROVE  /\ order[d] \notin orders'
                 /\ \A r \in committed' \cup kept' \cup unsure' : r.of # order[d]
                 /\ \A e \in Conns \ {d} : order'[e] # order[d]
      <4>1. /\ order[d] \notin orders /\ \A r \in all : r.of # order[d]
            /\ \A e \in Conns \ {d} : order[e] # order[d]
        BY <3>1, <3>3 DEF TransactionInv
      <4>2. order[d] # order[c]
        BY <2>2, <4>1
      <4>3. \A r \in more : r.of # order[d]
        BY <1>1, <3>3, <4>1, <4>2
      <4>4. order[d] \notin orders'
        BY <1>3, <4>1, <4>2
      <4>5. \A e \in Conns \ {d} : order'[e] # order[d]
        <5>1. order'[c] = NoOrder /\ \A e \in Conns \ {c} : order'[e] = order[e]
          BY EndedLeaves
        <5> QED BY <3>3, <4>1, <5>1
      <4> QED BY <1>4, <4>3, <4>4, <4>5
    <3> QED BY <3>1, <3>2, <3>3 DEF TransactionInv
  <2> QED BY <2>1, <2>2
<1>8. kept \subseteq committed /\ committed \subseteq kept \cup unsure
  BY DEF OutboxInv, TableExact
<1>9. TableExact'
  <2>1. kept' \subseteq committed' /\ committed' \subseteq kept' \cup unsure'
    BY <1>3, <1>8 DEF Stored
  <2> QED BY <2>1 DEF TableExact
<1>10. OrderAndTasks'
  <2> SUFFICES ASSUME NEW r \in committed' \cup kept' \cup unsure', r.of # NoOrder
               PROVE  r \in committed' <=> r.of \in orders'
    BY DEF OrderAndTasks
  <2>1. r \in all => (r \in committed <=> r.of \in orders)
    BY DEF OutboxInv, OrderAndTasks
  <2>2. r \in more
    BY <1>4
  <2>3. CASE r \in rows[c]
    <3>1. r.of = order[c] /\ order[c] # NoOrder
      BY <1>1, <2>3
    <3>2. r \notin all /\ order[c] \notin orders
      BY <1>1, <3>1
    <3> QED BY <1>3, <2>3, <3>1, <3>2
  <2>4. CASE r \notin rows[c]
    <3>1. r \in all
      BY <2>2, <2>4
    <3>2. r.of # order[c]
      BY <1>1, <3>1
    <3>3. r.of \in orders' <=> r.of \in orders
      BY <1>3, <3>2
    <3>4. r \in committed' <=> r \in committed
      BY <1>3, <2>4
    <3> QED BY <2>1, <3>1, <3>3, <3>4
  <2> QED BY <2>3, <2>4
<1> QED BY <1>5, <1>6, <1>7, <1>9, <1>10 DEF OutboxInv

\* COMMIT, answered or not.
LEMMA CommitKeeps ==
  ASSUME OutboxInv, NEW c \in Conns, Commit(c) \/ CommitUnanswered(c)
  PROVE  OutboxInv'
<1>1. assured[c] = rows[c]
  BY DEF OutboxInv, TransactionInv
<1>2. pushes' = pushes /\ answer' \in [Conns -> Answers] /\ Ended(c)
  BY DEF OutboxInv, OutboxTypes, Commit, CommitUnanswered
<1>3. CASE Commit(c)
  <2>1. Stored(c) /\ kept' = kept \cup rows[c] /\ unsure' = unsure
    BY <1>1, <1>3 DEF Commit
  <2> QED BY <1>2, <2>1, TransactionEnds
<1>4. CASE CommitUnanswered(c)
  <2>1. (Stored(c) \/ UNCHANGED <<committed, orders>>) /\ unsure' = unsure \cup rows[c]
        /\ kept' = kept
    BY <1>1, <1>4 DEF CommitUnanswered
  <2> QED BY <1>2, <2>1, TransactionEnds
<1> QED BY <1>3, <1>4

\* The answers of a push without keys.
LEMMA AnswersAre ==
  /\ \A k \in {"none", "ok", "refused", "error", "conflict"} : [kind |-> k, keys |-> <<>>] \in Answers
  /\ NoAnswer \in Answers
  BY EmptySeq DEF Answers, NoAnswer

\* ROLLBACK, or a connection lost before COMMIT was sent.
LEMMA RollbackKeeps ==
  ASSUME OutboxInv, NEW c \in Conns, Rollback(c)
  PROVE  OutboxInv'
<1>1. answer' \in [Conns -> Answers]
  <2>1. [kind |-> "error", keys |-> <<>>] \in Answers /\ answer \in [Conns -> Answers]
    BY AnswersAre DEF OutboxInv, OutboxTypes
  <2> QED BY <2>1 DEF Rollback
<1>2. pushes' = pushes /\ Ended(c) /\ UNCHANGED <<committed, orders, kept, unsure>>
  BY DEF Rollback
<1> QED BY <1>1, <1>2, TransactionEnds

\* A push begins, or is answered at once.
LEMMA PushTasksKeeps ==
  ASSUME OutboxInv, NEW c \in Conns, NEW tasks \in Batches, PushTasks(c, tasks)
  PROVE  OutboxInv'
<1> DEFINE started == [batch |-> tasks, at |-> 1, got |-> <<>>]
<1>1. UNCHANGED <<committed, orders, open, rows, order, assured, kept, unsure>>
  BY DEF PushTasks
<1>2. answer' \in [Conns -> Answers]
  <2>1. PICK a \in Answers : answer' = [answer EXCEPT ![c] = a]
    <3>1. /\ [kind |-> "ok", keys |-> <<>>] \in Answers
          /\ [kind |-> "refused", keys |-> <<>>] \in Answers
          /\ NoAnswer \in Answers
      BY AnswersAre
    <3> QED BY <3>1 DEF PushTasks
  <2> QED BY <2>1 DEF OutboxInv, OutboxTypes
<1>3. push' = push \/ push' = [push EXCEPT ![c] = started]
  BY DEF PushTasks
<1>4. started \in [batch : Batches, at : Nat, got : Batches]
  BY BatchesAre
<1>5. push \in [Conns -> [batch : Batches, at : Nat, got : Batches] \cup {NoPush}]
  BY DEF OutboxInv, OutboxTypes
<1>6. pushes' \in 0 .. MaxPushes
  <2>1. pushes \in 0 .. MaxPushes /\ MaxPushes \in Nat /\ pushes < MaxPushes /\ pushes' = pushes + 1
    BY OutboxAssumption DEF OutboxInv, OutboxTypes, PushTasks
  <2> QED BY <2>1
<1>7. OutboxTypes'
  <2>1. push' \in [Conns -> [batch : Batches, at : Nat, got : Batches] \cup {NoPush}]
    BY <1>3, <1>4, <1>5
  <2> QED BY <1>1, <1>2, <1>6, <2>1 DEF OutboxInv, OutboxTypes
<1>8. ASSUME NEW d \in Conns PROVE StatementInv(d)'
  <2>1. StatementInv(d)
    BY DEF OutboxInv
  <2>2. CASE push'[d] = push[d]
    BY <2>1, <2>2, SameStatement
  <2>3. CASE push'[d] = started
    <3>1. push'[d].batch = tasks /\ push'[d].at = 1 /\ push'[d].got = <<>> /\ Len(<<>>) = 0
      BY <2>3
    <3>2. Len(tasks) \in Nat
      BY BatchesAre
    <3>3. push'[d] \in [batch : Batches, at : Nat, got : Batches]
      BY <1>4, <2>3
    <3>4. push'[d].at \in 1 .. (Len(push'[d].batch) + 1)
      BY <3>1, <3>2
    <3>5. Len(push'[d].got) = push'[d].at - 1 /\ Len(push'[d].got) = 0
      BY <3>1
    <3> HIDE DEF started
    <3> QED BY <3>3, <3>4, <3>5 DEF StatementInv
  <2> QED BY <1>3, <1>5, <2>2, <2>3
<1> QED BY <1>1, <1>7, <1>8, SameTransactions DEF OutboxInv

\* One task of a statement: taken into the rows it has got, or skipped, which
\* only a task with a key can be.
LEMMA InsertRowKeeps ==
  ASSUME OutboxInv, NEW c \in Conns, InsertRow(c)
  PROVE  OutboxInv'
<1> DEFINE p == push[c]
           b == p.batch
           g == p.got
           task == b[p.at]
           g2 == IF KeyConflict(c) THEN g ELSE Append(g, task)
           q == [batch |-> b, at |-> p.at + 1, got |-> g2]
<1>1. /\ p # NoPush /\ p \in [batch : Batches, at : Nat, got : Batches]
      /\ StatementInv(c) /\ p.at <= Len(b)
  BY DEF OutboxInv, OutboxTypes, InsertRow, InStatement
<1>2. /\ b \in Batches /\ g \in Batches /\ p.at \in Nat
      /\ p = [batch |-> b, at |-> p.at, got |-> g]
  BY <1>1
<1>3. UNCHANGED <<committed, orders, open, rows, order, answer, assured, kept, unsure, pushes>>
  BY DEF InsertRow
<1>4. push \in [Conns -> [batch : Batches, at : Nat, got : Batches] \cup {NoPush}]
  BY DEF OutboxInv, OutboxTypes
<1>5. /\ push'[c] = q /\ push' = [d \in Conns |-> push'[d]]
      /\ \A d \in Conns \ {c} : push'[d] = push[d]
  <2>1. CASE KeyConflict(c)
    BY <1>1, <1>2, <1>4, <2>1 DEF InsertRow, Current
  <2>2. CASE ~KeyConflict(c)
    BY <1>1, <1>2, <1>4, <2>2 DEF InsertRow, Current
  <2> QED BY <2>1, <2>2
<1>6. /\ p.at \in 1 .. (Len(b) + 1) /\ Len(g) <= p.at - 1
      /\ Len(g) = p.at - 1 => \A i \in 1 .. Len(g) : g[i] = b[i]
      /\ ~AnyKey(b) => Len(g) = p.at - 1
  BY <1>1 DEF StatementInv
<1>7. /\ b \in Seq(Tasks) /\ Len(b) \in Nat /\ Len(b) <= MaxBatch /\ MaxBatch \in Nat
      /\ g \in Seq(Tasks) /\ Len(g) \in Nat /\ DOMAIN b = 1 .. Len(b)
  BY <1>2, BatchesAre, OutboxAssumption
<1>8. p.at \in 1 .. Len(b) /\ task \in Tasks
  <2>1. p.at \in 1 .. Len(b)
    BY <1>1, <1>6, <1>7
  <2> QED BY <1>7, <2>1, ElementOfSeq
<1>9. ~AnyKey(b) => ~KeyConflict(c)
  BY <1>7, <1>8 DEF AnyKey, KeyConflict, KeysOf, Current
<1> HIDE DEF p, b, g, task
<1>10. /\ Append(g, task) \in Seq(Tasks) /\ Len(Append(g, task)) = Len(g) + 1
       /\ \A i \in 1 .. Len(g) : Append(g, task)[i] = g[i]
       /\ Append(g, task)[Len(g) + 1] = task
  BY <1>7, <1>8, AppendProperties
<1>11. /\ g2 \in Seq(Tasks) /\ Len(g2) <= p.at
       /\ Len(g2) = p.at => \A i \in 1 .. Len(g2) : g2[i] = b[i]
       /\ ~AnyKey(b) => Len(g2) = p.at
  <2>1. CASE KeyConflict(c)
    <3>1. g2 = g
      BY <2>1
    <3> HIDE DEF g2
    <3>2. Len(g2) < p.at
      BY <1>2, <1>6, <1>7, <3>1
    <3> QED BY <1>2, <1>7, <1>9, <2>1, <3>1, <3>2
  <2>2. CASE ~KeyConflict(c)
    <3>1. g2 = Append(g, task)
      BY <2>2
    <3> HIDE DEF g2
    <3>2. g2 \in Seq(Tasks) /\ Len(g2) = Len(g) + 1 /\ Len(g2) <= p.at
      BY <1>2, <1>6, <1>7, <1>10, <3>1
    <3>3. ASSUME Len(g2) = p.at, NEW i \in 1 .. Len(g2) PROVE g2[i] = b[i]
      <4>1. Len(g) = p.at - 1 /\ i \in Nat
        BY <1>2, <1>7, <3>2, <3>3
      <4>2. CASE i = Len(g) + 1
        BY <1>10, <3>1, <3>2, <3>3, <4>2 DEF task
      <4>3. CASE i # Len(g) + 1
        <5>1. i \in 1 .. Len(g)
          BY <1>7, <3>2, <4>3
        <5> QED BY <1>6, <1>10, <3>1, <4>1, <5>1
      <4> QED BY <4>2, <4>3
    <3>4. ~AnyKey(b) => Len(g2) = p.at
      BY <1>2, <1>6, <1>7, <3>2
    <3> QED BY <3>2, <3>3, <3>4
  <2> QED BY <2>1, <2>2
<1> HIDE DEF g2
<1>12. g2 \in Batches /\ Len(g2) \in Nat
  <2>1. Len(g2) \in Nat
    BY <1>11, LenProperties
  <2>2. Len(g2) <= MaxBatch
    BY <1>2, <1>7, <1>8, <1>11, <2>1
  <2> QED BY <1>11, <2>1, <2>2, BatchesAre
<1>13. push'[c] \in [batch : Batches, at : Nat, got : Batches]
       /\ push'[c].batch = b /\ push'[c].at = p.at + 1 /\ push'[c].got = g2
  BY <1>2, <1>5, <1>12
<1>14. StatementInv(c)'
  <2>1. push'[c].at \in 1 .. (Len(push'[c].batch) + 1)
    BY <1>2, <1>7, <1>8, <1>13
  <2>2. push'[c].at - 1 = p.at
    BY <1>2, <1>13
  <2> QED BY <1>11, <1>13, <2>1, <2>2 DEF StatementInv
<1>15. ASSUME NEW d \in Conns PROVE StatementInv(d)'
  <2>1. CASE d = c
    BY <1>14, <2>1
  <2>2. CASE d # c
    BY <1>5, <2>2, SameStatement DEF OutboxInv
  <2> QED BY <2>1, <2>2
<1>16. OutboxTypes'
  <2>1. push' \in [Conns -> [batch : Batches, at : Nat, got : Batches] \cup {NoPush}]
    <3>1. q \in [batch : Batches, at : Nat, got : Batches]
      BY <1>2, <1>12
    <3> HIDE DEF q
    <3> QED BY <1>4, <1>5, <3>1
  <2> QED BY <1>3, <2>1 DEF OutboxInv, OutboxTypes
<1> QED BY <1>3, <1>15, <1>16, SameTransactions DEF OutboxInv

\* A push that fails takes its rows back and leaves everything else alone.
LEMMA SavepointKeeps ==
  ASSUME OutboxInv, NEW c \in Conns, NEW a \in Answers, RolledBackToSavepoint(c, a)
  PROVE  OutboxInv'
<1>1. OutboxTypes'
  BY DEF OutboxInv, OutboxTypes, RolledBackToSavepoint
<1>2. ASSUME NEW d \in Conns PROVE StatementInv(d)'
  <2>1. /\ push' = [push EXCEPT ![c] = NoPush]
        /\ push \in [Conns -> [batch : Batches, at : Nat, got : Batches] \cup {NoPush}]
    BY DEF OutboxInv, OutboxTypes, RolledBackToSavepoint
  <2>2. CASE d = c
    BY <2>1, <2>2, NoStatement
  <2>3. CASE d # c
    BY <2>1, <2>3, SameStatement DEF OutboxInv
  <2> QED BY <2>2, <2>3
<1>3. UNCHANGED <<committed, orders, open, rows, order, assured, kept, unsure>>
  BY DEF RolledBackToSavepoint
<1> QED BY <1>1, <1>2, <1>3, SameTransactions DEF OutboxInv

\* A duplicate id, a deadlock and a reported conflict.
LEMMA FailedPushKeeps ==
  ASSUME OutboxInv, NEW c \in Conns, DuplicateId(c) \/ Deadlock(c) \/ ReportConflict(c)
  PROVE  OutboxInv'
<1>1. PICK a \in Answers : RolledBackToSavepoint(c, a)
  <2>1. CASE DuplicateId(c) \/ Deadlock(c)
    <3>1. [kind |-> "error", keys |-> <<>>] \in Answers
      BY AnswersAre
    <3> QED BY <2>1, <3>1 DEF DuplicateId, Deadlock
  <2>2. CASE ReportConflict(c)
    <3> DEFINE k == ConflictingKeys(push[c].batch, push[c].got)
    <3>1. push[c].batch \in Batches
      BY <2>2 DEF OutboxInv, StatementInv, ReportConflict, StatementDone
    <3>2. k \in Seq(Keys)
      BY <3>1, ConflictingAre
    <3>3. RolledBackToSavepoint(c, [kind |-> "conflict", keys |-> k])
      BY <2>2 DEF ReportConflict
    <3> HIDE DEF k
    <3>4. [kind |-> "conflict", keys |-> k] \in Answers
      BY <3>2 DEF Answers
    <3> QED BY <3>3, <3>4
  <2> QED BY <2>1, <2>2
<1> QED BY <1>1, SavepointKeeps

\* A statement that is done and reports no conflict has inserted its tasks.
LEMMA DoneIsAll ==
  ASSUME OutboxInv, NEW c \in Conns, StatementDone(c), ~Conflicted(c)
  PROVE  /\ push[c].got = push[c].batch /\ push[c].batch \in Batches
         /\ RowsOf(c, push[c].got) = RowsOf(c, push[c].batch)
<1> DEFINE p == push[c]
           b == p.batch
           g == p.got
<1>1. /\ b \in Batches /\ g \in Batches /\ p.at \in Nat
      /\ p.at \in 1 .. (Len(b) + 1) /\ Len(g) <= p.at - 1
      /\ Len(g) = p.at - 1 => \A i \in 1 .. Len(g) : g[i] = b[i]
      /\ ~AnyKey(b) => Len(g) = p.at - 1
  BY DEF OutboxInv, StatementInv, StatementDone
<1>2. p.at > Len(b) /\ (AnyKey(b) => ~(Len(g) < Len(b)))
  BY DEF StatementDone, Conflicted
<1>3. /\ b \in Seq(Tasks) /\ Len(b) \in Nat /\ g \in Seq(Tasks) /\ Len(g) \in Nat
  BY <1>1, BatchesAre
<1> HIDE DEF p, b, g
<1>4. p.at = Len(b) + 1
  BY <1>1, <1>2, <1>3
<1>5. Len(g) = Len(b) /\ Len(g) = p.at - 1
  BY <1>1, <1>2, <1>3, <1>4
<1>6. g = b
  BY <1>1, <1>3, <1>5, SeqEqual
<1> QED BY <1>1, <1>6 DEF p, b, g

\* A push inside of the caller's transaction succeeds.
LEMMA ReleaseKeeps ==
  ASSUME OutboxInv, NEW c \in Conns, Release(c)
  PROVE  OutboxInv'
<1> DEFINE R == RowsOf(c, push[c].got)
<1>1. /\ c \in open /\ push' = [push EXCEPT ![c] = NoPush]
      /\ answer' = [answer EXCEPT ![c] = [kind |-> "ok", keys |-> <<>>]]
      /\ UNCHANGED <<committed, orders, open, order, kept, unsure, pushes>>
  BY DEF Release
<1>2. R = RowsOf(c, push[c].batch) /\ push[c].got \in Batches
  BY DoneIsAll DEF Release
<1>3. rows' = [rows EXCEPT ![c] = @ \cup R] /\ assured' = [assured EXCEPT ![c] = @ \cup R]
  BY <1>2 DEF Release
<1>4. R \in SUBSET Rows /\ \A r \in R : r.of = order[c]
  BY <1>2, RowsOfAre DEF OutboxInv, OutboxTypes
<1> HIDE DEF R
<1>5. OutboxTypes'
  <2>1. [kind |-> "ok", keys |-> <<>>] \in Answers
    BY AnswersAre
  <2> QED BY <1>1, <1>3, <1>4, <2>1 DEF OutboxInv, OutboxTypes
<1>6. ASSUME NEW d \in Conns PROVE StatementInv(d)'
  <2>1. push \in [Conns -> [batch : Batches, at : Nat, got : Batches] \cup {NoPush}]
    BY DEF OutboxInv, OutboxTypes
  <2>2. CASE d = c
    BY <1>1, <2>1, <2>2, NoStatement
  <2>3. CASE d # c
    BY <1>1, <2>1, <2>3, SameStatement DEF OutboxInv
  <2> QED BY <2>2, <2>3
<1>7. ASSUME NEW d \in Conns PROVE TransactionInv(d)'
  <2>1. TransactionInv(d)
    BY DEF OutboxInv
  <2>2. rows \in [Conns -> SUBSET Rows] /\ assured \in [Conns -> SUBSET Rows]
    BY DEF OutboxInv, OutboxTypes
  <2>3. CASE d = c
    <3>1. rows'[c] = rows[c] \cup R /\ assured'[c] = assured[c] \cup R
      BY <1>3, <2>2
    <3> QED BY <1>1, <1>4, <2>1, <2>3, <3>1 DEF TransactionInv
  <2>4. CASE d # c
    <3>1. rows'[d] = rows[d] /\ assured'[d] = assured[d]
      BY <1>3, <2>2, <2>4
    <3> QED BY <1>1, <2>1, <3>1 DEF TransactionInv
  <2> QED BY <2>3, <2>4
<1>8. TableExact' /\ OrderAndTasks'
  BY <1>1 DEF OutboxInv, TableExact, OrderAndTasks
<1> QED BY <1>5, <1>6, <1>7, <1>8 DEF OutboxInv

\* A push outside of any transaction succeeds.
LEMMA AutoCommitKeeps ==
  ASSUME OutboxInv, NEW c \in Conns, AutoCommit(c)
  PROVE  OutboxInv'
<1> DEFINE R == RowsOf(c, push[c].got)
<1>1. /\ c \notin open /\ push' = [push EXCEPT ![c] = NoPush]
      /\ committed' = committed \cup R
      /\ UNCHANGED <<orders, open, rows, order, assured, pushes>>
  BY DEF AutoCommit
<1>2. R = RowsOf(c, push[c].batch) /\ push[c].got \in Batches
  BY DoneIsAll DEF AutoCommit
<1>3. (kept' = kept \cup R /\ unsure' = unsure) \/ (kept' = kept /\ unsure' = unsure \cup R)
  BY <1>2 DEF AutoCommit
<1>4. R \in SUBSET Rows /\ \A r \in R : r.of = NoOrder
  <2>1. order[c] = NoOrder
    BY <1>1 DEF OutboxInv, TransactionInv
  <2> QED BY <1>2, <2>1, RowsOfAre DEF OutboxInv, OutboxTypes
<1>5. answer' \in [Conns -> Answers]
  <2>1. PICK a \in Answers : answer' = [answer EXCEPT ![c] = a]
    <3>1. [kind |-> "ok", keys |-> <<>>] \in Answers /\ [kind |-> "error", keys |-> <<>>] \in Answers
      BY AnswersAre
    <3> QED BY <3>1 DEF AutoCommit
  <2> QED BY <2>1 DEF OutboxInv, OutboxTypes
<1> HIDE DEF R
<1>6. OutboxTypes'
  BY <1>1, <1>3, <1>4, <1>5 DEF OutboxInv, OutboxTypes
<1>7. ASSUME NEW d \in Conns PROVE StatementInv(d)'
  <2>1. push \in [Conns -> [batch : Batches, at : Nat, got : Batches] \cup {NoPush}]
    BY DEF OutboxInv, OutboxTypes
  <2>2. CASE d = c
    BY <1>1, <2>1, <2>2, NoStatement
  <2>3. CASE d # c
    BY <1>1, <2>1, <2>3, SameStatement DEF OutboxInv
  <2> QED BY <2>2, <2>3
<1>8. \A r \in committed' \cup kept' \cup unsure' : r \in committed \cup kept \cup unsure \/ r \in R
  BY <1>1, <1>3
<1>9. ASSUME NEW d \in Conns PROVE TransactionInv(d)'
  <2>1. TransactionInv(d)
    BY DEF OutboxInv
  <2>2. order[d] # NoOrder => \A r \in committed' \cup kept' \cup unsure' : r.of # order[d]
    BY <1>4, <1>8, <2>1 DEF TransactionInv
  <2> QED BY <1>1, <2>1, <2>2 DEF TransactionInv
<1>10. TableExact'
  BY <1>1, <1>3 DEF OutboxInv, TableExact
<1>11. OrderAndTasks'
  <2> SUFFICES ASSUME NEW r \in committed' \cup kept' \cup unsure', r.of # NoOrder
               PROVE  r \in committed' <=> r.of \in orders'
    BY DEF OrderAndTasks
  <2>1. r \notin R /\ r \in committed \cup kept \cup unsure
    BY <1>4, <1>8
  <2>2. r \in committed <=> r.of \in orders
    BY <2>1 DEF OutboxInv, OrderAndTasks
  <2> QED BY <1>1, <2>1, <2>2
<1> QED BY <1>6, <1>7, <1>9, <1>10, <1>11 DEF OutboxInv

\* Every step keeps the invariant.
LEMMA OutboxKeeps ==
  OutboxInv /\ [OutboxNext]_outboxVars => OutboxInv'
<1> SUFFICES ASSUME OutboxInv, [OutboxNext]_outboxVars PROVE OutboxInv'
  OBVIOUS
<1>1. CASE UNCHANGED outboxVars
  BY <1>1 DEF OutboxInv, OutboxTypes, StatementInv, TransactionInv, TableExact, OrderAndTasks,
             outboxVars
<1>2. CASE OutboxNext
  <2>1. PICK c \in Conns :
          \/ Begin(c)
          \/ \E o \in Orders : InsertOrder(c, o)
          \/ Commit(c) \/ CommitUnanswered(c)
          \/ Rollback(c)
          \/ \E tasks \in Batches : PushTasks(c, tasks)
          \/ InsertRow(c)
          \/ DuplicateId(c) \/ Deadlock(c) \/ ReportConflict(c)
          \/ Release(c)
          \/ AutoCommit(c)
    BY <1>2 DEF OutboxNext, PushArgs
  <2> QED BY <2>1, BeginKeeps, InsertOrderKeeps, CommitKeeps, RollbackKeeps, PushTasksKeeps,
             InsertRowKeeps, FailedPushKeeps, ReleaseKeeps, AutoCommitKeeps
<1> QED BY <1>1, <1>2

\* push_tasks_on_conn: whatever the connections do, apalis.jobs holds every
\* task answered Ok in a transaction that committed and no row of a failed push,
\* and a task is stored exactly when the business row of its transaction is.
THEOREM OutboxIsExact == OutboxSpec => []OutboxExact
<1>1. OutboxInv => OutboxExact
  BY OutboxInvTypes DEF OutboxInv, OutboxExact
<1> QED BY <1>1, OutboxInitial, OutboxKeeps, PTL DEF OutboxSpec

-----------------------------------------------------------------------------
\* The outbox: no key is stored twice.

\* The rows connection c has inserted and not committed.
Held(c) == rows[c] \cup (IF push[c] = NoPush THEN {} ELSE Range(push[c].got))

\* The keys a statement has got are new and distinct, and every key it has
\* passed is stored or held by its own connection; its push has not answered.
StatementKeys(c) ==
  push[c] # NoPush =>
    /\ answer[c] = NoAnswer
    /\ KeysOf(rows[c]) \cap KeysOf(Range(push[c].got)) = {}
    /\ \A i, j \in DOMAIN push[c].got :
         push[c].got[i].key = push[c].got[j].key /\ push[c].got[i].key # NoKey => i = j
    /\ \A i \in 1 .. (push[c].at - 1) :
         push[c].batch[i].key # NoKey =>
           push[c].batch[i].key \in KeysOf(committed) \cup KeysOf(Held(c))

\* No key is stored or held twice, although every INSERT looks for its keys
\* at a moment of its own.
KeyInv ==
  /\ \A c \in Conns : KeysOf(committed) \cap KeysOf(Held(c)) = {}
  /\ \A c, d \in Conns : c # d => KeysOf(Held(c)) \cap KeysOf(Held(d)) = {}
  /\ \A c \in Conns : StatementKeys(c)

\* Keys of a union.
LEMMA KeysOfUnion ==
  /\ KeysOf({}) = {}
  /\ \A A, B : KeysOf(A \cup B) = KeysOf(A) \cup KeysOf(B)
<1>1. KeysOf({}) = {}
  BY DEF KeysOf
<1>2. ASSUME NEW A, NEW B PROVE KeysOf(A \cup B) = KeysOf(A) \cup KeysOf(B)
  BY DEF KeysOf
<1> QED BY <1>1, <1>2

\* The rows of a batch have its keys.
LEMMA KeysOfRows ==
  ASSUME NEW c \in Conns, NEW s
  PROVE  KeysOf(RowsOf(c, s)) = KeysOf(Range(s))
<1>1. ASSUME NEW k \in KeysOf(RowsOf(c, s)) PROVE k \in KeysOf(Range(s))
  <2>1. PICK t \in Range(s) : k = [id |-> t.id, key |-> t.key, of |-> order[c]].key /\ k # NoKey
    BY DEF KeysOf, RowsOf
  <2> QED BY <2>1 DEF KeysOf
<1>2. ASSUME NEW k \in KeysOf(Range(s)) PROVE k \in KeysOf(RowsOf(c, s))
  <2>1. PICK t \in Range(s) : k = t.key /\ k # NoKey
    BY DEF KeysOf
  <2>2. [id |-> t.id, key |-> t.key, of |-> order[c]] \in RowsOf(c, s)
    BY DEF RowsOf
  <2>3. [id |-> t.id, key |-> t.key, of |-> order[c]].key = k
    BY <2>1
  <2> QED BY <2>1, <2>2, <2>3 DEF KeysOf
<1> QED BY <1>1, <1>2

\* The empty tables hold no key.
LEMMA KeyInitial == OutboxInit => KeyInv
<1> SUFFICES ASSUME OutboxInit PROVE KeyInv
  OBVIOUS
<1>1. ASSUME NEW c \in Conns PROVE Held(c) = {} /\ StatementKeys(c)
  BY DEF OutboxInit, Held, StatementKeys
<1>2. committed = {}
  BY DEF OutboxInit
<1> QED BY <1>1, <1>2, KeysOfUnion DEF KeyInv

\* A step that ends the statement of c, if any, and moves what c holds.
LEMMA KeysMove ==
  ASSUME KeyInv, NEW c \in Conns, push'[c] = NoPush,
         \A d \in Conns \ {c} : push'[d] = push[d] /\ rows'[d] = rows[d] /\ answer'[d] = answer[d],
         \/ committed' = committed /\ KeysOf(rows'[c]) \subseteq KeysOf(Held(c))
         \/ /\ rows'[c] = {} /\ committed \subseteq committed'
            /\ KeysOf(committed') \subseteq KeysOf(committed) \cup KeysOf(Held(c))
  PROVE  KeyInv'
<1>1. Held(c)' = rows'[c] /\ KeysOf(Held(c)') \subseteq KeysOf(Held(c))
  <2>1. Held(c)' = rows'[c]
    BY DEF Held
  <2> QED BY <2>1, KeysOfUnion
<1>2. ASSUME NEW d \in Conns, d # c PROVE Held(d)' = Held(d)
  BY <1>2 DEF Held
<1>3. KeysOf(committed) \subseteq KeysOf(committed')
  BY DEF KeysOf
<1>4. ASSUME NEW d \in Conns PROVE KeysOf(committed') \cap KeysOf(Held(d)') = {}
  <2>1. CASE d = c
    BY <1>1, <2>1, KeysOfUnion DEF KeyInv
  <2>2. CASE d # c
    BY <1>2, <2>2 DEF KeyInv
  <2> QED BY <2>1, <2>2
<1>5. ASSUME NEW d \in Conns, NEW e \in Conns, d # e
      PROVE  KeysOf(Held(d)') \cap KeysOf(Held(e)') = {}
  <2>1. KeysOf(Held(d)) \cap KeysOf(Held(e)) = {}
    BY <1>5 DEF KeyInv
  <2>2. KeysOf(Held(d)') \subseteq KeysOf(Held(d)) /\ KeysOf(Held(e)') \subseteq KeysOf(Held(e))
    BY <1>1, <1>2
  <2> QED BY <2>1, <2>2
<1>6. ASSUME NEW d \in Conns PROVE StatementKeys(d)'
  <2>1. CASE d = c
    BY <2>1 DEF StatementKeys
  <2>2. CASE d # c
    <3>1. StatementKeys(d) /\ Held(d)' = Held(d)
      BY <1>2, <2>2 DEF KeyInv
    <3> QED BY <1>3, <2>2, <3>1 DEF StatementKeys
  <2> QED BY <2>1, <2>2
<1> QED BY <1>4, <1>5, <1>6 DEF KeyInv, KeysOf

\* The steps that end a statement or a transaction.
LEMMA KeysAtEnd ==
  ASSUME OutboxInv, KeyInv, NEW c \in Conns,
         \/ Commit(c) \/ CommitUnanswered(c) \/ Rollback(c)
         \/ DuplicateId(c) \/ Deadlock(c) \/ ReportConflict(c)
         \/ Release(c) \/ AutoCommit(c)
  PROVE  KeyInv'
<1>1. /\ rows \in [Conns -> SUBSET Rows] /\ answer \in [Conns -> Answers]
      /\ push \in [Conns -> [batch : Batches, at : Nat, got : Batches] \cup {NoPush}]
  BY DEF OutboxInv, OutboxTypes
<1>2. KeysOf(rows[c]) \subseteq KeysOf(Held(c))
  BY KeysOfUnion DEF Held
<1>3. CASE Commit(c) \/ CommitUnanswered(c) \/ Rollback(c)
  <2>1. /\ push'[c] = NoPush /\ rows'[c] = {}
        /\ \A d \in Conns \ {c} : push'[d] = push[d] /\ rows'[d] = rows[d] /\ answer'[d] = answer[d]
    BY <1>1, <1>3 DEF Commit, CommitUnanswered, Rollback, Ended
  <2>2. committed' = committed \/ committed' = committed \cup rows[c]
    BY <1>3 DEF Commit, CommitUnanswered, Rollback, Stored
  <2>3. /\ committed \subseteq committed'
        /\ KeysOf(committed') \subseteq KeysOf(committed) \cup KeysOf(Held(c))
    BY <1>2, <2>2, KeysOfUnion
  <2> QED BY <2>1, <2>3, KeysMove
<1>4. CASE DuplicateId(c) \/ Deadlock(c) \/ ReportConflict(c)
  <2>1. PICK a : RolledBackToSavepoint(c, a)
    BY <1>4 DEF DuplicateId, Deadlock, ReportConflict
  <2>2. /\ push'[c] = NoPush /\ rows' = rows /\ committed' = committed
        /\ \A d \in Conns \ {c} : push'[d] = push[d] /\ rows'[d] = rows[d] /\ answer'[d] = answer[d]
    BY <1>1, <2>1 DEF RolledBackToSavepoint
  <2> QED BY <1>2, <2>2, KeysMove
<1>5. CASE Release(c)
  <2>1. push[c] # NoPush
    BY <1>5 DEF Release, StatementDone
  <2>2. /\ push'[c] = NoPush /\ committed' = committed
        /\ rows'[c] = rows[c] \cup RowsOf(c, push[c].got)
        /\ \A d \in Conns \ {c} : push'[d] = push[d] /\ rows'[d] = rows[d] /\ answer'[d] = answer[d]
    BY <1>1, <1>5 DEF Release
  <2>3. KeysOf(rows'[c]) = KeysOf(Held(c))
    <3>1. Held(c) = rows[c] \cup Range(push[c].got)
      BY <2>1 DEF Held
    <3>2. KeysOf(Held(c)) = KeysOf(rows[c]) \cup KeysOf(Range(push[c].got))
      BY <3>1, KeysOfUnion
    <3>3. KeysOf(rows'[c]) = KeysOf(rows[c]) \cup KeysOf(RowsOf(c, push[c].got))
      BY <2>2, KeysOfUnion
    <3> QED BY <3>2, <3>3, KeysOfRows
  <2> QED BY <2>2, <2>3, KeysMove
<1>6. CASE AutoCommit(c)
  <2>1. push[c] # NoPush /\ c \notin open
    BY <1>6 DEF AutoCommit, StatementDone
  <2>2. /\ push'[c] = NoPush /\ rows' = rows
        /\ committed' = committed \cup RowsOf(c, push[c].got)
        /\ \A d \in Conns \ {c} : push'[d] = push[d] /\ rows'[d] = rows[d] /\ answer'[d] = answer[d]
    BY <1>1, <1>6 DEF AutoCommit
  <2>3. rows'[c] = {}
    BY <2>1, <2>2 DEF OutboxInv, TransactionInv
  <2>4. KeysOf(committed') \subseteq KeysOf(committed) \cup KeysOf(Held(c))
    <3>1. KeysOf(Range(push[c].got)) \subseteq KeysOf(Held(c))
      BY <2>1, KeysOfUnion DEF Held
    <3> QED BY <2>2, <3>1, KeysOfUnion, KeysOfRows
  <2> QED BY <2>2, <2>3, <2>4, KeysMove
<1> QED BY <1>3, <1>4, <1>5, <1>6

\* The steps that touch no task: a transaction or a statement begins.
LEMMA KeysAtBegin ==
  ASSUME OutboxInv, KeyInv, NEW c \in Conns,
         \/ Begin(c)
         \/ \E o \in Orders : InsertOrder(c, o)
         \/ \E tasks \in Batches : PushTasks(c, tasks)
  PROVE  KeyInv'
<1>1. /\ answer \in [Conns -> Answers]
      /\ push \in [Conns -> [batch : Batches, at : Nat, got : Batches] \cup {NoPush}]
  BY DEF OutboxInv, OutboxTypes
<1>2. committed' = committed /\ rows' = rows /\ push[c] = NoPush
  BY DEF Begin, InsertOrder, PushTasks
<1>3. \A d \in Conns \ {c} : push'[d] = push[d] /\ answer'[d] = answer[d]
  <2>1. CASE Begin(c) \/ \E o \in Orders : InsertOrder(c, o)
    BY <1>1, <2>1 DEF Begin, InsertOrder
  <2>2. CASE \E tasks \in Batches : PushTasks(c, tasks)
    <3>1. PICK tasks \in Batches : PushTasks(c, tasks)
      BY <2>2
    <3>2. \E a : answer' = [answer EXCEPT ![c] = a]
      BY <3>1 DEF PushTasks
    <3>3. push' = push \/ \E q : push' = [push EXCEPT ![c] = q]
      BY <3>1 DEF PushTasks
    <3> QED BY <1>1, <3>2, <3>3
  <2> QED BY <2>1, <2>2
<1>4. push'[c] # NoPush => /\ answer'[c] = NoAnswer /\ push'[c].at = 1 /\ push'[c].got = <<>>
  <2>1. CASE Begin(c) \/ \E o \in Orders : InsertOrder(c, o)
    BY <1>2, <2>1 DEF Begin, InsertOrder
  <2>2. CASE \E tasks \in Batches : PushTasks(c, tasks)
    <3>1. PICK tasks \in Batches : PushTasks(c, tasks)
      BY <2>2
    <3>2. \/ push' = push
          \/ /\ answer' = [answer EXCEPT ![c] = NoAnswer]
             /\ push' = [push EXCEPT ![c] = [batch |-> tasks, at |-> 1, got |-> <<>>]]
      BY <3>1 DEF PushTasks
    <3>3. CASE push' = push
      BY <1>2, <3>3
    <3>4. CASE /\ answer' = [answer EXCEPT ![c] = NoAnswer]
               /\ push' = [push EXCEPT ![c] = [batch |-> tasks, at |-> 1, got |-> <<>>]]
      <4>1. answer'[c] = NoAnswer /\ push'[c] = [batch |-> tasks, at |-> 1, got |-> <<>>]
        BY <1>1, <3>4
      <4> QED BY <4>1
    <3> QED BY <3>2, <3>3, <3>4
  <2> QED BY <2>1, <2>2
<1>5. Range(<<>>) = {} /\ DOMAIN <<>> = {}
  BY DEF Range
<1>6. Held(c)' = Held(c)
  BY <1>2, <1>4, <1>5 DEF Held
<1>7. ASSUME NEW d \in Conns PROVE Held(d)' = Held(d)
  <2>1. CASE d = c
    BY <1>6, <2>1
  <2>2. CASE d # c
    BY <1>2, <1>3, <2>2 DEF Held
  <2> QED BY <2>1, <2>2
<1>8. ASSUME NEW d \in Conns PROVE StatementKeys(d)'
  <2>1. CASE d = c
    <3> SUFFICES ASSUME push'[c] # NoPush PROVE StatementKeys(c)'
      BY <2>1 DEF StatementKeys
    <3>1. /\ answer'[c] = NoAnswer
          /\ KeysOf(Range(push'[c].got)) = {} /\ DOMAIN push'[c].got = {}
          /\ 1 .. (push'[c].at - 1) = {}
      BY <1>4, <1>5, KeysOfUnion
    <3> QED BY <3>1 DEF StatementKeys, KeysOf
  <2>2. CASE d # c
    <3>1. StatementKeys(d) /\ Held(d)' = Held(d)
      BY <1>7 DEF KeyInv
    <3> QED BY <1>2, <1>3, <2>2, <3>1 DEF StatementKeys, KeysOf
  <2> QED BY <2>1, <2>2
<1>9. \A d \in Conns : KeysOf(committed)' \cap KeysOf(Held(d))' = {}
  BY <1>2, <1>7 DEF KeyInv, KeysOf
<1>10. \A d, e \in Conns : d # e => KeysOf(Held(d))' \cap KeysOf(Held(e))' = {}
  BY <1>7 DEF KeyInv, KeysOf
<1> QED BY <1>8, <1>9, <1>10 DEF KeyInv

\* One task of a statement: its key is new to the connection and to all others,
\* or the task is skipped.
LEMMA KeysAtRow ==
  ASSUME OutboxInv, KeyInv, NEW c \in Conns, InsertRow(c)
  PROVE  KeyInv'
<1> DEFINE p == push[c]
           b == p.batch
           g == p.got
           task == b[p.at]
<1>1. /\ p # NoPush /\ p \in [batch : Batches, at : Nat, got : Batches]
      /\ StatementInv(c) /\ p.at <= Len(b)
  BY DEF OutboxInv, OutboxTypes, InsertRow, InStatement
<1>2. /\ b \in Batches /\ g \in Batches /\ p.at \in Nat
      /\ p = [batch |-> b, at |-> p.at, got |-> g]
  BY <1>1
<1>3. committed' = committed /\ rows' = rows /\ answer' = answer
  BY DEF InsertRow
<1>4. push \in [Conns -> [batch : Batches, at : Nat, got : Batches] \cup {NoPush}]
  BY DEF OutboxInv, OutboxTypes
<1>5. \A d \in Conns \ {c} : push'[d] = push[d]
  BY <1>4 DEF InsertRow
<1>6. /\ KeyConflict(c) => push'[c] = [batch |-> b, at |-> p.at + 1, got |-> g]
      /\ ~KeyConflict(c) => push'[c] = [batch |-> b, at |-> p.at + 1, got |-> Append(g, task)]
  BY <1>1, <1>2, <1>4 DEF InsertRow, Current
<1>7. /\ b \in Seq(Tasks) /\ Len(b) \in Nat /\ g \in Seq(Tasks) /\ Len(g) \in Nat
      /\ DOMAIN b = 1 .. Len(b) /\ DOMAIN g = 1 .. Len(g)
  BY <1>2, BatchesAre
<1>8. p.at \in 1 .. Len(b) /\ task \in Tasks
  <2>1. p.at \in 1 .. Len(b)
    BY <1>1, <1>7 DEF StatementInv
  <2> QED BY <1>7, <2>1, ElementOfSeq
<1>9. KeyConflict(c) <=> task.key \in KeysOf(committed) \cup KeysOf(Held(c))
  BY <1>1, KeysOfUnion DEF KeyConflict, Current, Seen, Held
<1>10. ~KeyConflict(c) => \A d \in Conns \ {c} : task.key \notin KeysOf(Held(d))
  <2> SUFFICES ASSUME ~KeyConflict(c), NEW d \in Conns \ {c} PROVE task.key \notin KeysOf(Held(d))
    OBVIOUS
  <2>1. task.key \notin KeysOf(HeldByOthers(c))
    BY DEF InsertRow, Waits, Current
  <2>2. Held(d) \subseteq HeldByOthers(c)
    BY DEF Held, HeldByOthers
  <2> QED BY <2>1, <2>2 DEF KeysOf
<1>11. /\ KeysOf(rows[c]) \cap KeysOf(Range(g)) = {}
       /\ \A i, j \in DOMAIN g : g[i].key = g[j].key /\ g[i].key # NoKey => i = j
       /\ \A i \in 1 .. (p.at - 1) :
            b[i].key # NoKey => b[i].key \in KeysOf(committed) \cup KeysOf(Held(c))
       /\ answer[c] = NoAnswer
       /\ Held(c) = rows[c] \cup Range(g)
  BY <1>1 DEF KeyInv, StatementKeys, Held
<1>12. ASSUME NEW d \in Conns, d # c PROVE Held(d)' = Held(d)
  BY <1>3, <1>5, <1>12 DEF Held
<1> HIDE DEF p, b, g, task
<1>13. CASE KeyConflict(c)
  <2>1. push'[c].batch = b /\ push'[c].at = p.at + 1 /\ push'[c].got = g
    BY <1>6, <1>13
  <2>2. Held(c)' \subseteq Held(c) /\ (push'[c] # NoPush => Held(c)' = Held(c))
    <3>1. Held(c)' = rows[c] \cup (IF push'[c] = NoPush THEN {} ELSE Range(g))
      BY <1>3, <2>1 DEF Held
    <3> QED BY <1>11, <3>1
  <2>3. ASSUME NEW d \in Conns PROVE KeysOf(Held(d)') \subseteq KeysOf(Held(d))
    <3>1. Held(d)' \subseteq Held(d)
      BY <1>12, <2>2
    <3> QED BY <3>1 DEF KeysOf
  <2>4. StatementKeys(c)'
    <3> SUFFICES ASSUME push'[c] # NoPush PROVE StatementKeys(c)'
      BY DEF StatementKeys
    <3>1. ASSUME NEW i \in 1 .. p.at, b[i].key # NoKey
          PROVE  b[i].key \in KeysOf(committed) \cup KeysOf(Held(c))
      <4>1. CASE i = p.at
        BY <1>9, <1>13, <4>1 DEF task
      <4>2. CASE i # p.at
        <5>1. i \in 1 .. (p.at - 1)
          BY <1>2, <4>2
        <5> QED BY <1>11, <3>1, <5>1
      <4> QED BY <4>1, <4>2
    <3>2. push'[c].at - 1 = p.at
      BY <1>2, <2>1
    <3> QED BY <1>3, <1>11, <2>1, <2>2, <3>1, <3>2 DEF StatementKeys, KeysOf
  <2>5. ASSUME NEW d \in Conns PROVE StatementKeys(d)'
    <3>1. CASE d = c
      BY <2>4, <3>1
    <3>2. CASE d # c
      <4>1. StatementKeys(d)
        BY DEF KeyInv
      <4> QED BY <1>3, <1>5, <1>12, <3>2, <4>1 DEF StatementKeys, KeysOf
    <3> QED BY <3>1, <3>2
  <2>6. ASSUME NEW d \in Conns PROVE KeysOf(committed') \cap KeysOf(Held(d)') = {}
    <3>1. KeysOf(committed) \cap KeysOf(Held(d)) = {}
      BY DEF KeyInv
    <3> QED BY <1>3, <2>3, <3>1
  <2>7. ASSUME NEW d \in Conns, NEW e \in Conns, d # e
        PROVE  KeysOf(Held(d)') \cap KeysOf(Held(e)') = {}
    <3>1. KeysOf(Held(d)) \cap KeysOf(Held(e)) = {}
      BY <2>7 DEF KeyInv
    <3> QED BY <2>3, <3>1
  <2> QED BY <2>5, <2>6, <2>7 DEF KeyInv, KeysOf
<1>14. CASE ~KeyConflict(c)
  <2> DEFINE g2 == Append(g, task)
  <2>1. push'[c].batch = b /\ push'[c].at = p.at + 1 /\ push'[c].got = g2
    BY <1>6, <1>14
  <2>2. /\ g2 \in Seq(Tasks) /\ Len(g2) = Len(g) + 1 /\ DOMAIN g2 = 1 .. (Len(g) + 1)
        /\ \A i \in 1 .. Len(g) : g2[i] = g[i]
        /\ g2[Len(g) + 1] = task
    BY <1>7, <1>8, AppendProperties
  <2> HIDE DEF g2
  <2>3. Range(g2) = Range(g) \cup {task}
    <3>1. Range(g2) = {g2[i] : i \in 1 .. (Len(g) + 1)} /\ Range(g) = {g[i] : i \in 1 .. Len(g)}
      BY <1>7, <2>2 DEF Range
    <3>2. \A i \in 1 .. (Len(g) + 1) : i \in 1 .. Len(g) \/ i = Len(g) + 1
      BY <1>7
    <3>3. 1 .. Len(g) \subseteq 1 .. (Len(g) + 1) /\ Len(g) + 1 \in 1 .. (Len(g) + 1)
      BY <1>7
    <3> QED BY <2>2, <3>1, <3>2, <3>3
  <2>4. /\ KeysOf({task}) = {task.key} \ {NoKey}
        /\ KeysOf(Range(g2)) = KeysOf(Range(g)) \cup ({task.key} \ {NoKey})
    <3>1. KeysOf({task}) = {task.key} \ {NoKey}
      BY DEF KeysOf
    <3> QED BY <2>3, <3>1, KeysOfUnion
  <2>5. Held(c)' = rows[c] \cup Range(g2) \/ Held(c)' = rows[c]
    BY <1>3, <2>1 DEF Held
  <2>6. KeysOf(Held(c)') \subseteq KeysOf(Held(c)) \cup ({task.key} \ {NoKey})
    <3>1. KeysOf(Held(c)) = KeysOf(rows[c]) \cup KeysOf(Range(g))
      BY <1>11, KeysOfUnion
    <3>2. CASE Held(c)' = rows[c] \cup Range(g2)
      <4>1. KeysOf(Held(c)') = KeysOf(rows[c]) \cup KeysOf(Range(g2))
        BY <3>2, KeysOfUnion
      <4> QED BY <2>4, <3>1, <4>1
    <3>3. CASE Held(c)' = rows[c]
      BY <3>1, <3>3
    <3> QED BY <2>5, <3>2, <3>3
  <2>7. task.key \notin KeysOf(committed) \cup KeysOf(Held(c))
    BY <1>9, <1>14
  <2>8. ASSUME NEW d \in Conns PROVE KeysOf(committed') \cap KeysOf(Held(d)') = {}
    <3>1. KeysOf(committed) \cap KeysOf(Held(d)) = {}
      BY DEF KeyInv
    <3>2. CASE d = c
      BY <1>3, <2>6, <2>7, <3>1, <3>2
    <3>3. CASE d # c
      BY <1>3, <1>12, <3>1, <3>3
    <3> QED BY <3>2, <3>3
  <2>9. ASSUME NEW d \in Conns, d # c PROVE KeysOf(Held(c)') \cap KeysOf(Held(d)') = {}
    <3>1. /\ KeysOf(Held(c)) \cap KeysOf(Held(d)) = {} /\ task.key \notin KeysOf(Held(d))
          /\ Held(d)' = Held(d)
      BY <1>10, <1>12, <1>14, <2>9 DEF KeyInv
    <3> QED BY <2>6, <3>1
  <2>10. ASSUME NEW d \in Conns, NEW e \in Conns, d # e
         PROVE  KeysOf(Held(d)') \cap KeysOf(Held(e)') = {}
    <3>1. CASE d = c
      BY <2>9, <2>10, <3>1
    <3>2. CASE e = c
      BY <2>9, <2>10, <3>2
    <3>3. CASE d # c /\ e # c
      BY <1>12, <2>10, <3>3 DEF KeyInv
    <3> QED BY <3>1, <3>2, <3>3
  <2>11. StatementKeys(c)'
    <3> SUFFICES ASSUME push'[c] # NoPush PROVE StatementKeys(c)'
      BY DEF StatementKeys
    <3>1. KeysOf(rows'[c]) \cap KeysOf(Range(push'[c].got)) = {}
      <4>1. KeysOf(rows[c]) \subseteq KeysOf(Held(c))
        BY <1>11, KeysOfUnion
      <4> QED BY <1>3, <1>11, <2>1, <2>4, <2>7, <4>1
    <3>2. ASSUME NEW i \in DOMAIN g2, NEW j \in DOMAIN g2, g2[i].key = g2[j].key, g2[i].key # NoKey
          PROVE  i = j
      <4>1. ASSUME NEW n \in 1 .. Len(g), g[n].key # NoKey PROVE g[n].key # task.key
        <5>1. g[n] \in Range(g)
          BY <1>7 DEF Range
        <5>2. g[n].key \in KeysOf(Held(c))
          BY <1>11, <4>1, <5>1 DEF KeysOf
        <5> QED BY <2>7, <5>2
      <4>2. /\ i \in 1 .. Len(g) \/ i = Len(g) + 1
            /\ j \in 1 .. Len(g) \/ j = Len(g) + 1
        BY <1>7, <2>2
      <4>3. CASE i \in 1 .. Len(g) /\ j \in 1 .. Len(g)
        BY <1>7, <1>11, <2>2, <3>2, <4>3
      <4>4. CASE i \in 1 .. Len(g) /\ j = Len(g) + 1
        BY <2>2, <3>2, <4>1, <4>4
      <4>5. CASE i = Len(g) + 1 /\ j \in 1 .. Len(g)
        BY <2>2, <3>2, <4>1, <4>5
      <4> QED BY <4>2, <4>3, <4>4, <4>5
    <3>3. Held(c)' = rows[c] \cup Range(g2)
      BY <1>3, <2>1 DEF Held
    <3>4. KeysOf(Held(c)') = KeysOf(Held(c)) \cup ({task.key} \ {NoKey})
      <4>1. KeysOf(Held(c)') = KeysOf(rows[c]) \cup KeysOf(Range(g2))
        BY <3>3, KeysOfUnion
      <4>2. KeysOf(Held(c)) = KeysOf(rows[c]) \cup KeysOf(Range(g))
        BY <1>11, KeysOfUnion
      <4> QED BY <2>4, <4>1, <4>2
    <3>5. ASSUME NEW i \in 1 .. p.at, b[i].key # NoKey
          PROVE  b[i].key \in KeysOf(committed) \cup KeysOf(Held(c)')
      <4>1. CASE i = p.at
        BY <3>4, <3>5, <4>1 DEF task
      <4>2. CASE i # p.at
        <5>1. i \in 1 .. (p.at - 1)
          BY <1>2, <4>2
        <5> QED BY <1>11, <3>4, <3>5, <5>1
      <4> QED BY <4>1, <4>2
    <3>6. push'[c].at - 1 = p.at
      BY <1>2, <2>1
    <3> QED BY <1>3, <1>11, <2>1, <3>1, <3>2, <3>5, <3>6 DEF StatementKeys, KeysOf
  <2>12. ASSUME NEW d \in Conns PROVE StatementKeys(d)'
    <3>1. CASE d = c
      BY <2>11, <3>1
    <3>2. CASE d # c
      <4>1. StatementKeys(d) /\ Held(d)' = Held(d)
        BY <1>12, <3>2 DEF KeyInv
      <4> QED BY <1>3, <1>5, <3>2, <4>1 DEF StatementKeys, KeysOf
    <3> QED BY <3>1, <3>2
  <2> QED BY <2>8, <2>10, <2>12 DEF KeyInv, KeysOf
<1> QED BY <1>13, <1>14

-----------------------------------------------------------------------------
\* The outbox: the keys a conflict names.

\* A submission of a key that comes later has a greater number.
LEMMA SubmissionsGrow ==
  ASSUME NEW T, NEW keys \in Seq(T), NEW a \in DOMAIN keys, NEW b \in DOMAIN keys,
         a < b, keys[a] = keys[b]
  PROVE  /\ Submissions(keys, a) \in Nat /\ Submissions(keys, b) \in Nat
         /\ Submissions(keys, a) < Submissions(keys, b)
<1> DEFINE D(i) == {j \in 1 .. i : keys[j] = keys[i]}
<1>1. Len(keys) \in Nat /\ DOMAIN keys = 1 .. Len(keys)
  BY LenProperties
<1>2. a \in Nat /\ b \in Nat
  BY <1>1
<1>3. IsFiniteSet(1 .. b)
  BY <1>2, FS_Interval
<1>4. D(b) \in SUBSET (1 .. b) /\ D(a) \in SUBSET D(b) /\ b \in D(b) /\ b \notin D(a)
  <2>1. D(b) \in SUBSET (1 .. b)
    OBVIOUS
  <2>2. D(a) \in SUBSET D(b)
    <3>1. \A j \in 1 .. a : j \in 1 .. b
      BY <1>2
    <3> QED BY <3>1
  <2>3. b \in D(b) /\ b \notin D(a)
    BY <1>1, <1>2
  <2> QED BY <2>1, <2>2, <2>3
<1>5. Submissions(keys, a) = Cardinality(D(a)) /\ Submissions(keys, b) = Cardinality(D(b))
  BY DEF Submissions
<1> HIDE DEF D
<1>6. IsFiniteSet(D(b)) /\ IsFiniteSet(D(a))
  BY <1>3, <1>4, FS_Subset
<1>7. Cardinality(D(a)) \in Nat /\ Cardinality(D(b)) \in Nat
  BY <1>6, FS_CardinalityType
<1>8. Cardinality(D(a)) <= Cardinality(D(b)) /\ Cardinality(D(a)) # Cardinality(D(b))
  BY <1>4, <1>6, FS_Subset
<1> QED BY <1>5, <1>7, <1>8

\* Where a key was submitted.
Places(keys, k) == {i \in DOMAIN keys : keys[i] = k}

\* The submissions of a key are numbered from 1 on.
LEMMA SubmissionsNumbered ==
  ASSUME NEW T, NEW keys \in Seq(T), NEW k,
         NEW m \in 1 .. Cardinality(Places(keys, k))
  PROVE  \E i \in DOMAIN keys : keys[i] = k /\ Submissions(keys, i) = m
<1> DEFINE P == Places(keys, k)
           n == Cardinality(P)
           f == Ascending(P)
<1>0. \A i : i \in P <=> i \in DOMAIN keys /\ keys[i] = k
  BY DEF Places
<1> HIDE DEF P
<1>1. Len(keys) \in Nat /\ DOMAIN keys = 1 .. Len(keys)
  BY LenProperties
<1>2. P \in SUBSET Nat /\ IsFiniteSet(P)
  <2>1. IsFiniteSet(1 .. Len(keys)) /\ P \in SUBSET (1 .. Len(keys))
    BY <1>0, <1>1, FS_Interval
  <2>2. P \in SUBSET Nat
    BY <1>1, <2>1
  <2>3. IsFiniteSet(P)
    BY <2>1, FS_Subset
  <2> QED BY <2>2, <2>3
<1>3. m \in 1 .. n /\ \A x \in P : x \in DOMAIN keys /\ keys[x] = k
  BY <1>0 DEF P
<1>4. ASSUME NEW j \in DOMAIN keys, keys[j] = k PROVE j \in P
  BY <1>0, <1>4
<1>5. /\ n \in Nat /\ f \in [1 .. n -> P]
      /\ \A i, j \in 1 .. n : i < j => f[i] < f[j]
      /\ \A x \in P : \E i \in 1 .. n : f[i] = x
  BY <1>2, AscendingOf
<1> HIDE DEF n, f
<1> DEFINE i == f[m]
           D == {j \in 1 .. i : keys[j] = keys[i]}
           h == [x \in 1 .. m |-> f[x]]
<1>6. m \in Nat /\ 1 .. m \subseteq 1 .. n
  BY <1>3, <1>5
<1>7. i \in P /\ i \in Nat /\ i \in DOMAIN keys /\ keys[i] = k
  BY <1>2, <1>3, <1>5
<1>8. ASSUME NEW x \in 1 .. m PROVE f[x] \in D
  <2>0. x \in 1 .. n /\ f[x] \in P
    BY <1>5, <1>6
  <2>1. x \in 1 .. n /\ f[x] \in P /\ f[x] \in Nat /\ f[x] >= 1
    BY <1>1, <1>3, <2>0
  <2>2. f[x] <= i
    <3>1. x = m \/ x < m
      BY <1>6
    <3> QED BY <1>3, <1>5, <1>7, <2>1, <3>1
  <2>3. f[x] \in 1 .. i /\ keys[f[x]] = k
    BY <1>3, <1>7, <2>1, <2>2
  <2> QED BY <1>7, <2>3
<1>9. ASSUME NEW j \in D PROVE \E x \in 1 .. m : f[x] = j
  <2>1. j \in Nat /\ j <= i /\ j \in 1 .. Len(keys) /\ keys[j] = k
    BY <1>1, <1>7
  <2>2. PICK x \in 1 .. n : f[x] = j
    BY <1>1, <1>4, <1>5, <2>1
  <2>3. x <= m
    <3> SUFFICES ASSUME x > m PROVE FALSE
      BY <1>5, <1>6
    <3>1. f[m] < f[x]
      BY <1>3, <1>5, <1>6, <2>2
    <3> QED BY <1>7, <2>1, <2>2, <3>1
  <2> QED BY <1>5, <1>6, <2>2, <2>3
<1>10. IsFiniteSet(D)
  <2>1. IsFiniteSet(1 .. i) /\ D \in SUBSET (1 .. i)
    BY <1>7, FS_Interval
  <2> QED BY <2>1, FS_Subset
<1>11. Submissions(keys, i) = Cardinality(D)
  BY DEF Submissions
<1> HIDE DEF D, i
<1>12. h \in Injection(1 .. m, D)
  <2>1. h \in [1 .. m -> D]
    BY <1>8
  <2>2. ASSUME NEW x \in 1 .. m, NEW y \in 1 .. m, x # y PROVE f[x] # f[y]
    <3>1. x < y \/ y < x
      BY <1>6, <2>2
    <3>2. x \in 1 .. n /\ y \in 1 .. n /\ f[x] \in Nat /\ f[y] \in Nat
      BY <1>2, <1>5, <1>6
    <3> QED BY <1>5, <3>1, <3>2
  <2> QED BY <2>1, <2>2 DEF Injection, IsInjective
<1>13. h \in Surjection(1 .. m, D)
  <2>1. h \in [1 .. m -> D]
    BY <1>8
  <2>2. \A j \in D : \E x \in 1 .. m : h[x] = j
    BY <1>9
  <2> HIDE DEF h
  <2> QED BY <2>1, <2>2 DEF Surjection
<1>14. Cardinality(1 .. m) = m
  <2>1. 1 \in Int /\ m \in Int
    BY <1>6
  <2>2. Cardinality(1 .. m) = IF 1 > m THEN 0 ELSE m - 1 + 1
    BY ONLY <2>1, FS_Interval
  <2> QED BY <1>6, <2>2
<1> HIDE DEF h
<1>15. Cardinality(D) = m
  BY <1>10, <1>12, <1>13, <1>14, FS_Injection
<1> QED BY <1>7, <1>11, <1>15

\* Every submitted key is the key of a task of the tasks.
LEMMA SubmittedFrom ==
  ASSUME NEW tasks \in Batches, NEW n \in DOMAIN SubmittedKeys(tasks)
  PROVE  \E i \in 1 .. Len(tasks) :
           tasks[i].key # NoKey /\ SubmittedKeys(tasks)[n] = tasks[i].key
<1> DEFINE S == {i \in DOMAIN tasks : tasks[i].key # NoKey}
           keyed == At(tasks, S)
<1>1. tasks \in Seq(Tasks) /\ DOMAIN tasks = 1 .. Len(tasks)
  BY BatchesAre
<1>2. S \in SUBSET (1 .. Len(tasks))
  BY <1>1
<1>3. SubmittedKeys(tasks) = [m \in DOMAIN keyed |-> keyed[m].key]
  BY DEF SubmittedKeys
<1>4. \A x : x \in Range(keyed) <=> \E i \in S : x = tasks[i]
  <2> HIDE DEF S
  <2> QED BY <1>1, <1>2, AtOf
<1> HIDE DEF keyed
<1>5. n \in DOMAIN keyed /\ SubmittedKeys(tasks)[n] = keyed[n].key
  BY <1>3
<1>6. keyed[n] \in Range(keyed)
  BY <1>5 DEF Range
<1>7. PICK i \in S : keyed[n] = tasks[i]
  BY <1>4, <1>6
<1> QED BY <1>2, <1>5, <1>7

\* What a conflict names, for a statement that got a key once at most and
\* found every other key it submitted among the stored keys C.
LEMMA ConflictNames ==
  ASSUME NEW tasks \in Batches, NEW got \in Batches, NEW C,
         \A i, j \in DOMAIN got : got[i].key = got[j].key /\ got[i].key # NoKey => i = j,
         \A i \in 1 .. Len(tasks) :
           tasks[i].key # NoKey => tasks[i].key \in C \cup KeysOf(Range(got)),
         C \cap KeysOf(Range(got)) = {}
  PROVE  LET keys == SubmittedKeys(tasks)
             named == ConflictingKeys(tasks, got)
             twice == {k \in Keys : \E i, j \in DOMAIN keys : i # j /\ keys[i] = k /\ keys[j] = k}
         IN  /\ Range(named) = Range(keys) \cap (twice \cup C)
             /\ IsInjective(named)
<1> DEFINE keys == SubmittedKeys(tasks)
           named == ConflictingKeys(tasks, got)
           twice == {k \in Keys : \E i, j \in DOMAIN keys : i # j /\ keys[i] = k /\ keys[j] = k}
           S == {i \in DOMAIN keys : Submissions(keys, i) = Inserted(got, keys[i]) + 1}
<1>1. keys \in Seq(Keys)
  BY SubmittedAre
<1>2. \A n \in DOMAIN keys : keys[n] \in C \cup KeysOf(Range(got)) /\ keys[n] # NoKey
  BY SubmittedFrom
<1>3. named = At(keys, S)
  BY DEF ConflictingKeys
<1>4. \A i : i \in S <=> i \in DOMAIN keys /\ Submissions(keys, i) = Inserted(got, keys[i]) + 1
  OBVIOUS
<1> HIDE DEF keys, named, S
<1>5. Len(keys) \in Nat /\ DOMAIN keys = 1 .. Len(keys) /\ \A n \in DOMAIN keys : keys[n] \in Keys
  BY <1>1, LenProperties, ElementOfSeq
<1>6. S \in SUBSET (1 .. Len(keys))
  BY <1>4, <1>5
<1>7. \A x : x \in Range(named) <=> \E i \in S : x = keys[i]
  BY <1>1, <1>3, <1>6, AtOf
<1>8. /\ DOMAIN named = 1 .. Cardinality(S) /\ Cardinality(S) \in Nat
      /\ \A i, j \in DOMAIN named : i < j => \E a, b \in S : a < b /\ named[i] = keys[a] /\ named[j] = keys[b]
  <2>1. DOMAIN named = 1 .. Cardinality(S) /\ Cardinality(S) \in Nat
    BY <1>1, <1>3, <1>6, AtOf
  <2>2. \A i, j \in DOMAIN named : i < j => \E a, b \in S : a < b /\ named[i] = keys[a] /\ named[j] = keys[b]
    BY <1>1, <1>3, <1>6, AtOf
  <2> QED BY <2>1, <2>2
<1>9. ASSUME NEW k \in Keys, k \notin KeysOf(Range(got)) PROVE Inserted(got, k) = 0
  <2>1. k # NoKey
    BY OutboxAssumption
  <2>2. {i \in DOMAIN got : got[i].key = k} = {}
    BY <1>9, <2>1 DEF KeysOf, Range
  <2> QED BY <2>2, FS_EmptySet DEF Inserted
<1>10. ASSUME NEW k \in KeysOf(Range(got)) PROVE Inserted(got, k) = 1
  <2>1. PICK i \in DOMAIN got : got[i].key = k /\ k # NoKey
    BY DEF KeysOf, Range
  <2>2. {j \in DOMAIN got : got[j].key = k} = {i}
    BY <2>1
  <2> QED BY <2>2, FS_Singleton DEF Inserted
<1>11. ASSUME NEW n \in DOMAIN keys
       PROVE  LET P == {i \in DOMAIN keys : keys[i] = keys[n]}
              IN  IsFiniteSet(P) /\ Cardinality(P) \in Nat \ {0}
  <2> DEFINE P == {i \in DOMAIN keys : keys[i] = keys[n]}
  <2>1. IsFiniteSet(1 .. Len(keys)) /\ P \in SUBSET (1 .. Len(keys)) /\ n \in P
    BY <1>5, FS_Interval
  <2> HIDE DEF P
  <2>2. IsFiniteSet(P) /\ P # {}
    BY <2>1, FS_Subset
  <2>3. Cardinality(P) \in Nat /\ Cardinality(P) # 0
    BY <2>2, FS_CardinalityType, FS_EmptySet
  <2> QED BY <2>2, <2>3 DEF P
<1>12. IsInjective(named)
  <2>1. ASSUME NEW i \in DOMAIN named, NEW j \in DOMAIN named, i < j PROVE named[i] # named[j]
    <3>1. PICK a \in S, b \in S : a < b /\ named[i] = keys[a] /\ named[j] = keys[b]
      BY <1>8, <2>1
    <3>2. a \in DOMAIN keys /\ b \in DOMAIN keys
      BY <1>4
    <3> SUFFICES ASSUME keys[a] = keys[b] PROVE FALSE
      BY <3>1
    <3>3. Submissions(keys, a) \in Nat /\ Submissions(keys, a) < Submissions(keys, b)
      BY <1>1, <3>1, <3>2, SubmissionsGrow
    <3>4. Submissions(keys, a) = Submissions(keys, b)
      BY <1>4
    <3> QED BY <3>3, <3>4
  <2>2. ASSUME NEW i \in DOMAIN named, NEW j \in DOMAIN named, i # j PROVE named[i] # named[j]
    <3>1. i < j \/ j < i
      BY <1>8, <2>2
    <3> QED BY <2>1, <3>1
  <2> QED BY <2>2 DEF IsInjective
<1>13. ASSUME NEW i \in S PROVE keys[i] \in Range(keys) \cap (twice \cup C)
  <2> DEFINE k == keys[i]
  <2>1. i \in DOMAIN keys /\ k \in Keys /\ Submissions(keys, i) = Inserted(got, k) + 1
    BY <1>4, <1>5
  <2>2. k \in Range(keys)
    BY <2>1 DEF Range
  <2>3. CASE k \notin KeysOf(Range(got))
    BY <1>2, <2>1, <2>2, <2>3
  <2>4. CASE k \in KeysOf(Range(got))
    <3> DEFINE D == {j \in 1 .. i : keys[j] = keys[i]}
    <3>1. Submissions(keys, i) = 2
      BY <1>10, <2>1, <2>4
    <3>2. Cardinality(D) = 2
      BY <3>1 DEF Submissions
    <3>3. D # {i}
      <4>1. Cardinality({i}) = 1
        BY FS_Singleton
      <4> HIDE DEF D
      <4>2. D = {i} => Cardinality(D) = 1
        BY <4>1
      <4> QED BY ONLY <3>2, <4>2
    <3>4. i \in D /\ \A j \in D : j \in DOMAIN keys
      BY <1>5, <2>1
    <3>5. PICK j \in D : j # i
      BY <3>3, <3>4
    <3>6. j \in DOMAIN keys /\ keys[j] = k
      BY <3>4, <3>5
    <3> QED BY <2>1, <2>2, <3>5, <3>6
  <2> QED BY <2>3, <2>4
<1>14. ASSUME NEW k \in Range(keys) \cap (twice \cup C) PROVE \E i \in S : keys[i] = k
  <2>1. PICK n \in DOMAIN keys : keys[n] = k
    BY DEF Range
  <2>2. k \in Keys
    BY <1>5, <2>1
  <2> DEFINE P == Places(keys, k)
  <2>3. IsFiniteSet(P) /\ Cardinality(P) \in Nat \ {0}
    BY <1>11, <2>1 DEF Places
  <2>6. \A i : i \in P <=> i \in DOMAIN keys /\ keys[i] = k
    BY DEF Places
  <2> HIDE DEF P
  <2>4. CASE k \notin KeysOf(Range(got))
    <3>1. 1 \in 1 .. Cardinality(P)
      BY <2>3
    <3>2. PICK i \in DOMAIN keys : keys[i] = k /\ Submissions(keys, i) = 1
      BY <1>1, <3>1, SubmissionsNumbered DEF P
    <3>3. Inserted(got, keys[i]) = 0
      BY <1>9, <2>2, <2>4, <3>2
    <3> QED BY <1>4, <3>2, <3>3
  <2>5. CASE k \in KeysOf(Range(got))
    <3>1. k \in twice
      BY <2>5
    <3>2. PICK i \in DOMAIN keys, j \in DOMAIN keys : i # j /\ keys[i] = k /\ keys[j] = k
      BY <3>1
    <3>3. Cardinality(P) # 1
      <4>1. i \in P /\ j \in P
        BY <2>6, <3>2
      <4>2. Cardinality(P) = 1 => \E x : P = {x}
        BY <2>3, FS_Singleton
      <4> QED BY <3>2, <4>1, <4>2
    <3>4. 2 \in 1 .. Cardinality(P)
      BY <2>3, <3>3
    <3>5. PICK m \in DOMAIN keys : keys[m] = k /\ Submissions(keys, m) = 2
      BY <1>1, <3>4, SubmissionsNumbered DEF P
    <3>6. Inserted(got, keys[m]) = 1
      BY <1>10, <2>5, <3>5
    <3> QED BY <1>4, <3>5, <3>6
  <2> QED BY <2>4, <2>5
<1>15. Range(named) = Range(keys) \cap (twice \cup C)
  <2> HIDE DEF twice
  <2> QED BY <1>7, <1>13, <1>14
<1> QED BY <1>12, <1>15 DEF keys, named

\* Every step keeps the keys unique.
LEMMA KeysKept ==
  OutboxInv /\ KeyInv /\ [OutboxNext]_outboxVars => KeyInv'
<1> SUFFICES ASSUME OutboxInv, KeyInv, [OutboxNext]_outboxVars PROVE KeyInv'
  OBVIOUS
<1>1. CASE UNCHANGED outboxVars
  <2>1. committed' = committed /\ rows' = rows /\ push' = push /\ answer' = answer
    BY <1>1 DEF outboxVars
  <2>2. ASSUME NEW c \in Conns PROVE Held(c)' = Held(c) /\ StatementKeys(c)'
    <3>1. Held(c)' = Held(c)
      BY <2>1 DEF Held
    <3>2. StatementKeys(c)
      BY DEF KeyInv
    <3> QED BY <2>1, <3>1, <3>2 DEF StatementKeys, KeysOf
  <2> QED BY <2>1, <2>2 DEF KeyInv, KeysOf
<1>2. CASE OutboxNext
  <2>1. PICK c \in Conns :
          \/ \/ Begin(c)
             \/ \E o \in Orders : InsertOrder(c, o)
             \/ \E tasks \in Batches : PushTasks(c, tasks)
          \/ InsertRow(c)
          \/ \/ Commit(c) \/ CommitUnanswered(c) \/ Rollback(c)
             \/ DuplicateId(c) \/ Deadlock(c) \/ ReportConflict(c)
             \/ Release(c) \/ AutoCommit(c)
    BY <1>2 DEF OutboxNext, PushArgs
  <2> QED BY <2>1, KeysAtBegin, KeysAtRow, KeysAtEnd
<1> QED BY <1>1, <1>2

\* The step that answers "conflict" while a statement is done is the report
\* of that statement.
LEMMA OnlyReports ==
  ASSUME OutboxInv, KeyInv, OutboxNext, NEW c \in Conns,
         StatementDone(c), answer'[c].kind = "conflict"
  PROVE  ReportConflict(c)
<1>1. push[c] # NoPush /\ answer[c] = NoAnswer /\ NoAnswer.kind = "none"
  BY DEF StatementDone, KeyInv, StatementKeys, NoAnswer
<1>2. answer \in [Conns -> Answers]
  BY DEF OutboxInv, OutboxTypes
<1>3. ~InStatement(c)
  <2>1. push[c].at \in Nat /\ Len(push[c].batch) \in Nat
    BY <1>1, BatchesAre DEF OutboxInv, StatementInv
  <2> QED BY <2>1 DEF InStatement, StatementDone
<1>4. PICK d \in Conns :
        \/ Begin(d)
        \/ \E o \in Orders : InsertOrder(d, o)
        \/ Commit(d)
        \/ Rollback(d)
        \/ CommitUnanswered(d)
        \/ \E tasks \in Batches : PushTasks(d, tasks)
        \/ InsertRow(d) \/ DuplicateId(d) \/ Deadlock(d) \/ ReportConflict(d)
        \/ Release(d) \/ AutoCommit(d)
  BY DEF OutboxNext, PushArgs
<1>5. answer' = answer \/ \E a : answer' = [answer EXCEPT ![d] = a]
  BY <1>4 DEF Begin, InsertOrder, Commit, Rollback, CommitUnanswered, PushTasks, InsertRow,
              DuplicateId, Deadlock, ReportConflict, RolledBackToSavepoint, Release, AutoCommit
<1>6. d = c
  <2> SUFFICES ASSUME d # c PROVE FALSE
    OBVIOUS
  <2>1. answer'[c] = answer[c]
    BY <1>2, <1>5
  <2> QED BY <1>1, <2>1
<1>7. ~(Begin(c) \/ (\E o \in Orders : InsertOrder(c, o)) \/ Commit(c) \/ CommitUnanswered(c)
          \/ \E tasks \in Batches : PushTasks(c, tasks))
  BY <1>1 DEF Begin, InsertOrder, Commit, CommitUnanswered, PushTasks
<1>8. ~(InsertRow(c) \/ DuplicateId(c) \/ Deadlock(c))
  BY <1>3 DEF InsertRow, DuplicateId, Deadlock, Waits
<1>9. ~Rollback(c)
  <2> SUFFICES ASSUME Rollback(c) PROVE FALSE
    OBVIOUS
  <2>1. answer'[c] = [kind |-> "error", keys |-> <<>>]
    BY <1>1, <1>2 DEF Rollback
  <2> QED BY <2>1
<1>10. ~(Release(c) \/ AutoCommit(c))
  <2> SUFFICES ASSUME Release(c) \/ AutoCommit(c) PROVE FALSE
    OBVIOUS
  <2>1. answer'[c] \in {[kind |-> "ok", keys |-> <<>>], [kind |-> "error", keys |-> <<>>]}
    BY <1>2 DEF Release, AutoCommit
  <2> QED BY <2>1
<1> QED BY <1>4, <1>6, <1>7, <1>8, <1>9, <1>10

\* What the step that reports a conflict answers.
LEMMA ConflictStep ==
  ASSUME OutboxInv, KeyInv, [OutboxNext]_outboxVars
  PROVE  [\A c \in Conns :
            StatementDone(c) /\ answer'[c].kind = "conflict" =>
              LET keys == SubmittedKeys(push[c].batch)
                  twice == {k \in Keys : \E i, j \in DOMAIN keys : i # j /\ keys[i] = k /\ keys[j] = k}
              IN  /\ Range(answer'[c].keys) =
                       Range(keys) \cap (twice \cup KeysOf(committed \cup rows[c]))
                  /\ IsInjective(answer'[c].keys)]_outboxVars
<1> SUFFICES ASSUME OutboxNext, NEW c \in Conns, StatementDone(c), answer'[c].kind = "conflict"
             PROVE  LET keys == SubmittedKeys(push[c].batch)
                        twice == {k \in Keys : \E i, j \in DOMAIN keys : i # j /\ keys[i] = k /\ keys[j] = k}
                    IN  /\ Range(answer'[c].keys) =
                             Range(keys) \cap (twice \cup KeysOf(committed \cup rows[c]))
                        /\ IsInjective(answer'[c].keys)
  OBVIOUS
<1> DEFINE tasks == push[c].batch
           got == push[c].got
           C == KeysOf(committed \cup rows[c])
<1>1. ReportConflict(c)
  BY OnlyReports
<1>2. answer'[c].keys = ConflictingKeys(tasks, got)
  <2>1. answer \in [Conns -> Answers]
    BY DEF OutboxInv, OutboxTypes
  <2> QED BY <1>1, <2>1 DEF ReportConflict, RolledBackToSavepoint
<1>3. /\ push[c] # NoPush /\ tasks \in Batches /\ got \in Batches /\ push[c].at \in Nat
      /\ Len(tasks) <= push[c].at - 1 /\ Len(tasks) \in Nat
  <2>1. push[c] # NoPush /\ StatementInv(c) /\ push[c].at > Len(tasks)
    BY DEF OutboxInv, StatementDone
  <2>2. tasks \in Batches /\ got \in Batches /\ push[c].at \in Nat
    BY <2>1 DEF StatementInv
  <2>3. Len(tasks) \in Nat
    BY <2>2, BatchesAre
  <2> QED BY <2>1, <2>2, <2>3
<1>4. StatementKeys(c) /\ KeysOf(committed) \cap KeysOf(Held(c)) = {}
  BY DEF KeyInv
<1>5. C = KeysOf(committed) \cup KeysOf(rows[c])
      /\ KeysOf(Held(c)) = KeysOf(rows[c]) \cup KeysOf(Range(got))
  <2>1. Held(c) = rows[c] \cup Range(got)
    BY <1>3 DEF Held
  <2> QED BY <2>1, KeysOfUnion
<1>6. C \cap KeysOf(Range(got)) = {}
  BY <1>3, <1>4, <1>5 DEF StatementKeys
<1>7. \A i, j \in DOMAIN got : got[i].key = got[j].key /\ got[i].key # NoKey => i = j
  BY <1>3, <1>4 DEF StatementKeys
<1>8. \A i \in 1 .. Len(tasks) : tasks[i].key # NoKey => tasks[i].key \in C \cup KeysOf(Range(got))
  <2> SUFFICES ASSUME NEW i \in 1 .. Len(tasks), tasks[i].key # NoKey
               PROVE  tasks[i].key \in C \cup KeysOf(Range(got))
    OBVIOUS
  <2>1. i \in 1 .. (push[c].at - 1)
    BY <1>3
  <2>2. tasks[i].key \in KeysOf(committed) \cup KeysOf(Held(c))
    BY <1>3, <1>4, <2>1 DEF StatementKeys
  <2> QED BY <1>5, <2>2
<1> HIDE DEF tasks, got, C
<1>9. LET keys == SubmittedKeys(tasks)
          named == ConflictingKeys(tasks, got)
          twice == {k \in Keys : \E i, j \in DOMAIN keys : i # j /\ keys[i] = k /\ keys[j] = k}
      IN  /\ Range(named) = Range(keys) \cap (twice \cup C)
          /\ IsInjective(named)
  BY <1>3, <1>6, <1>7, <1>8, ConflictNames
<1> QED BY <1>2, <1>9 DEF tasks, got, C

\* insert_reporting_conflicts: Error::IdempotencyConflict names exactly the
\* submitted keys that are stored for good, or in the caller's own transaction,
\* or twice in the batch, each once.
THEOREM ConflictsNamed == OutboxSpec => ConflictKeysExact
<1>1. OutboxInit => OutboxInv /\ KeyInv
  BY OutboxInitial, KeyInitial
<1>2. OutboxInv /\ KeyInv /\ [OutboxNext]_outboxVars => OutboxInv' /\ KeyInv'
  BY OutboxKeeps, KeysKept
<1> QED BY <1>1, <1>2, ConflictStep, PTL DEF OutboxSpec, ConflictKeysExact

-----------------------------------------------------------------------------
\* Waiting for completion.

\* A sequence without repetitions.
Distinct(s) == \A i, j \in DOMAIN s : s[i] = s[j] => i = j

\* What a poll can read of an id.
RowStates == {"absent", "active", "terminal"}

\* What the histories know of an id still waited for.  An absence is recorded
\* by a poll that missed the id, no earlier than the first such poll.  The poll
\* that is being answered counts: it missed the id again.
AbsenceInv(i) ==
  /\ pc # "answer" /\ absent[i] # Nothing =>
       missed[i] >= 1 /\ firstMiss[i] # Nothing /\ firstMiss[i] >= absent[i]
  /\ pc = "answer" /\ read[i] = "absent" =>
       /\ missed[i] >= 1 /\ firstMiss[i] # Nothing
       /\ absent[i] # Nothing => missed[i] = 2 /\ firstMiss[i] >= absent[i]

\* The items a stream can yield.
ItemType == [kind : {"result", "not_found", "error"}, id : TaskIds \cup {Nothing}]

\* The items of the stream: at most one per id, and the error comes last.
YieldInv ==
  /\ yielded \in Seq(ItemType)
  /\ \A n, m \in DOMAIN yielded : yielded[n].id = yielded[m].id => n = m
  /\ \A n \in DOMAIN yielded : yielded[n].kind = "error" <=> yielded[n].id = Nothing
  /\ ~Failed => /\ YieldedIds \cup Range(remaining) = Range(Asked)
                /\ YieldedIds \cap Range(remaining) = {}
  /\ Failed => remaining = <<>> /\ pc \in {"poll", "ended"}

\* The streak counts the polls that failed in a row, up to the last one.
StreakInv ==
  /\ ~Failed => streak = failures /\ failures < MaxErrors
  /\ Failed => failures = MaxErrors

\* The inductive invariant of the wait.
WaitInv ==
  /\ WaitTypeOK
  /\ Distinct(remaining)
  /\ pc = "answer" => read \in [Range(remaining) -> RowStates]
  /\ \A i \in Range(remaining) : AbsenceInv(i)
  /\ YieldInv
  /\ StreakInv
  /\ NotFoundForCause

\* A subsequence of a sequence without repetitions has none.
LEMMA AtDistinct ==
  ASSUME NEW T, NEW s \in Seq(T), NEW S \in SUBSET (1 .. Len(s)),
         \A i, j \in S : s[i] = s[j] => i = j
  PROVE  Distinct(At(s, S))
<1> DEFINE t == At(s, S)
<1>1. t = At(s, S) /\ s \in Seq(T) /\ S \in SUBSET (1 .. Len(s))
  OBVIOUS
<1> HIDE DEF t
<1>2. /\ DOMAIN t = 1 .. Cardinality(S) /\ Cardinality(S) \in Nat
      /\ \A i, j \in DOMAIN t : i < j => \E a, b \in S : a < b /\ t[i] = s[a] /\ t[j] = s[b]
  <2>1. DOMAIN t = 1 .. Cardinality(S) /\ Cardinality(S) \in Nat
    BY ONLY <1>1, AtOf
  <2>2. \A i, j \in DOMAIN t : i < j => \E a, b \in S : a < b /\ t[i] = s[a] /\ t[j] = s[b]
    BY ONLY <1>1, AtOf
  <2> QED BY ONLY <2>1, <2>2
<1>3. S \in SUBSET Nat
  BY LenProperties
<1>4. ASSUME NEW i \in DOMAIN t, NEW j \in DOMAIN t, i < j PROVE t[i] # t[j]
  <2>1. PICK a \in S, b \in S : a < b /\ t[i] = s[a] /\ t[j] = s[b]
    BY <1>2, <1>4
  <2>2. a # b
    BY <1>3, <2>1
  <2> QED BY <2>1, <2>2
<1>5. ASSUME NEW i \in DOMAIN t, NEW j \in DOMAIN t, i # j PROVE t[i] # t[j]
  <2>1. i < j \/ j < i
    BY <1>2, <1>5
  <2> QED BY <1>4, <2>1
<1> QED BY <1>5 DEF Distinct, t

\* distinct_ids keeps every id, once.
LEMMA DistinctIdsAre ==
  ASSUME NEW ids \in Seq(TaskIds)
  PROVE  /\ DistinctIds(ids) \in Seq(TaskIds) /\ Distinct(DistinctIds(ids))
         /\ \A i : i \in Range(DistinctIds(ids)) <=> i \in Range(ids)
<1> DEFINE S == {n \in DOMAIN ids : \A m \in 1 .. (n - 1) : ids[m] # ids[n]}
<1>1. Len(ids) \in Nat /\ DOMAIN ids = 1 .. Len(ids)
  BY LenProperties
<1>2. S \in SUBSET (1 .. Len(ids)) /\ DistinctIds(ids) = At(ids, S)
  BY <1>1 DEF DistinctIds
<1>3. \A a, b \in S : ids[a] = ids[b] => a = b
  <2> SUFFICES ASSUME NEW a \in S, NEW b \in S, ids[a] = ids[b], a # b PROVE FALSE
    OBVIOUS
  <2>1. a \in Nat /\ b \in Nat /\ a >= 1 /\ b >= 1
    BY <1>1
  <2>2. a \in 1 .. (b - 1) \/ b \in 1 .. (a - 1)
    BY <2>1
  <2> QED BY <2>2
<1>4. ASSUME NEW n \in DOMAIN ids PROVE \E m \in S : ids[m] = ids[n]
  <2> DEFINE P == {m \in DOMAIN ids : ids[m] = ids[n]}
             f == Ascending(P)
             k == Cardinality(P)
  <2>1. P \in SUBSET (1 .. Len(ids)) /\ n \in P /\ IsFiniteSet(1 .. Len(ids))
    BY <1>1, FS_Interval
  <2>2. \A m : m \in P <=> m \in DOMAIN ids /\ ids[m] = ids[n]
    OBVIOUS
  <2> HIDE DEF P
  <2>3. IsFiniteSet(P)
    BY <2>1, FS_Subset
  <2>4. P \in SUBSET Nat
    BY <1>1, <2>1
  <2>5. /\ k \in Nat /\ f \in [1 .. k -> P]
        /\ \A i, j \in 1 .. k : i < j => f[i] < f[j]
        /\ \A x \in P : \E i \in 1 .. k : f[i] = x
    BY <2>3, <2>4, AscendingOf
  <2> HIDE DEF f, k
  <2>6. 1 \in 1 .. k
    BY <2>1, <2>5
  <2>7. f[1] \in P /\ f[1] \in Nat
    BY <2>4, <2>5, <2>6
  <2>8. ASSUME NEW m \in 1 .. (f[1] - 1), ids[m] = ids[f[1]] PROVE FALSE
    <3>1. m \in Nat /\ m < f[1] /\ m \in 1 .. Len(ids)
      BY <1>1, <2>1, <2>7
    <3>2. m \in P
      BY <1>1, <2>2, <2>7, <2>8, <3>1
    <3>3. PICK i \in 1 .. k : f[i] = m
      BY <2>5, <3>2
    <3>4. i # 1 /\ i \in Nat /\ i >= 1
      BY <2>5, <3>1, <3>3, <2>7
    <3>5. f[1] < f[i]
      BY <2>5, <2>6, <3>4
    <3> QED BY <2>7, <3>1, <3>3, <3>5
  <2>9. f[1] \in S /\ ids[f[1]] = ids[n]
    BY <2>2, <2>7, <2>8
  <2> QED BY <2>9
<1> HIDE DEF S
<1>5. At(ids, S) \in Seq(TaskIds) /\ Distinct(At(ids, S))
  BY <1>2, <1>3, AtOf, AtDistinct
<1>6. \A x : x \in Range(At(ids, S)) <=> \E i \in S : x = ids[i]
  BY <1>2, AtOf
<1>7. \A x : x \in Range(ids) <=> \E n \in DOMAIN ids : x = ids[n]
  BY DEF Range
<1> QED BY <1>1, <1>2, <1>4, <1>5, <1>6, <1>7

\* The invariant holds when wait_for is called.
LEMMA WaitInitial == WaitInit => WaitInv
<1> SUFFICES ASSUME WaitInit PROVE WaitInv
  OBVIOUS
<1>0. Asked \in Seq(TaskIds) /\ InitialBackoff \in Nat \ {0} /\ MaxBackoff \in Nat
      /\ MaxBackoff >= InitialBackoff /\ MaxErrors \in Nat \ {0} /\ MaxEnqueues \in Nat
  BY WaitAssumption
<1>1. /\ remaining \in Seq(TaskIds) /\ Distinct(remaining)
      /\ \A i : i \in Range(remaining) <=> i \in Range(Asked)
  BY <1>0, DistinctIdsAre DEF WaitInit
<1>2. WaitTypeOK
  BY <1>0, <1>1 DEF WaitInit, WaitTypeOK, Ages, Grace
<1>3. yielded = <<>> /\ DOMAIN <<>> = {} /\ ~Failed /\ YieldedIds = {}
  BY DEF WaitInit, Failed, YieldedIds
<1>4. YieldInv
  BY <1>1, <1>3, EmptySeq DEF YieldInv
<1>5. StreakInv
  BY <1>0, <1>3 DEF StreakInv, WaitInit
<1>6. \A i \in Range(remaining) : AbsenceInv(i)
  <2>1. \A i \in Range(remaining) : i \in TaskIds
    BY <1>1, RangeOfSeq
  <2> QED BY <2>1 DEF WaitInit, AbsenceInv
<1>7. NotFoundForCause
  BY <1>3 DEF NotFoundForCause
<1>8. pc # "answer"
  BY DEF WaitInit
<1> QED BY <1>1, <1>2, <1>4, <1>5, <1>6, <1>7, <1>8 DEF WaitInv

\* The counting behind OneAnswerPerId.
LEMMA AnswersCounted ==
  ASSUME YieldInv
  PROVE  Cardinality(YieldedIds) + (IF Failed THEN 1 ELSE 0) = Len(yielded)
<1> DEFINE n == Len(yielded)
           ids == {yielded[i].id : i \in DOMAIN yielded}
           h == [i \in 1 .. n |-> yielded[i].id]
<1>1. n \in Nat /\ DOMAIN yielded = 1 .. n
  BY LenProperties DEF YieldInv
<1>2. h \in Injection(1 .. n, ids)
  <2>1. h \in [1 .. n -> ids]
    BY <1>1
  <2>2. \A i, j \in 1 .. n : h[i] = h[j] => i = j
    BY <1>1 DEF YieldInv
  <2> HIDE DEF h
  <2> QED BY <2>1, <2>2 DEF Injection, IsInjective
<1>3. h \in Surjection(1 .. n, ids)
  <2>1. h \in [1 .. n -> ids]
    BY <1>1
  <2>2. \A x \in ids : \E i \in 1 .. n : h[i] = x
    BY <1>1
  <2> HIDE DEF h, ids
  <2> QED BY <2>1, <2>2 DEF Surjection
<1>4. IsFiniteSet(1 .. n) /\ Cardinality(1 .. n) = n
  <2> HIDE DEF n
  <2>1. 1 \in Int /\ n \in Int
    BY <1>1
  <2>2. IsFiniteSet(1 .. n) /\ Cardinality(1 .. n) = IF 1 > n THEN 0 ELSE n - 1 + 1
    BY ONLY <2>1, FS_Interval
  <2> QED BY <1>1, <2>2
<1>5. IsFiniteSet(ids)
  <2> HIDE DEF h, ids
  <2> QED BY <1>3, <1>4, FS_Surjection
<1>6. Cardinality(ids) = n
  <2> HIDE DEF h, ids
  <2> QED BY <1>2, <1>3, <1>4, <1>5, FS_Injection
<1>7. YieldedIds = ids \ {Nothing} /\ (Failed <=> Nothing \in ids)
  <2>1. YieldedIds = ids \ {Nothing}
    BY DEF YieldedIds
  <2>2. Failed <=> Nothing \in ids
    BY DEF Failed, YieldInv
  <2> QED BY <2>1, <2>2
<1> HIDE DEF ids
<1>8. CASE Failed
  <2>1. Nothing \in ids
    BY <1>7, <1>8
  <2>2. Cardinality(ids \ {Nothing}) = Cardinality(ids) - 1 
    BY <1>5, <2>1, FS_RemoveElement
  <2> QED BY <1>1, <1>6, <1>7, <1>8, <2>2
<1>9. CASE ~Failed
  <2>1. YieldedIds = ids
    BY <1>7, <1>9
  <2>2. Cardinality(YieldedIds) = n
    BY <1>6, <2>1
  <2> QED BY <1>1, <1>9, <2>2
<1> QED BY <1>8, <1>9

\* The invariant implies what the wait promises.
LEMMA WaitInvAnswers == WaitInv => AnsweredForCause
<1> SUFFICES ASSUME WaitInv PROVE AnsweredForCause
  OBVIOUS
<1>1. OneAnswerPerId
  BY AnswersCounted DEF WaitInv, YieldInv, OneAnswerPerId
<1>2. GivesUpForCause
  BY DEF WaitInv, StreakInv, GivesUpForCause
<1> QED BY <1>1, <1>2 DEF WaitInv, AnsweredForCause

\* A step of producers, workers or retention.
LEMMA RowsMove ==
  ASSUME WaitInv, NEW i \in TaskIds, Enqueue(i) \/ Finish(i) \/ Purge(i)
  PROVE  WaitInv'
<1>1. UNCHANGED waiter
  BY DEF Enqueue, Finish, Purge
<1>2. row' \in [TaskIds -> RowStates] /\ enqueues' \in [TaskIds -> 0 .. MaxEnqueues]
  <2>1. row \in [TaskIds -> RowStates] /\ enqueues \in [TaskIds -> 0 .. MaxEnqueues] /\ MaxEnqueues \in Nat
    BY WaitAssumption DEF WaitInv, WaitTypeOK, RowStates
  <2>2. CASE Enqueue(i)
    BY <2>1, <2>2 DEF Enqueue, RowStates
  <2>3. CASE Finish(i) \/ Purge(i)
    BY <2>1, <2>3 DEF Finish, Purge, RowStates
  <2> QED BY <2>2, <2>3
<1>3. WaitTypeOK'
  BY <1>1, <1>2 DEF WaitInv, WaitTypeOK, waiter, RowStates
<1>4. YieldInv' /\ StreakInv' /\ NotFoundForCause'
  BY <1>1 DEF WaitInv, YieldInv, StreakInv, NotFoundForCause, waiter, Failed, YieldedIds
<1>5. \A j \in Range(remaining) : AbsenceInv(j)'
  BY <1>1 DEF WaitInv, AbsenceInv, waiter
<1> QED BY <1>1, <1>3, <1>4, <1>5 DEF WaitInv, waiter, Distinct

\* The end of the stream and the end of a sleep.
LEMMA StreamRests ==
  ASSUME WaitInv, EndOfStream \/ WakeUp
  PROVE  WaitInv'
<1>1. UNCHANGED <<row, enqueues, remaining, backoff, streak, absent, read, sleep,
                  yielded, failures, missed, firstMiss, span>>
  BY DEF EndOfStream, WakeUp, tables
<1>2. pc # "answer" /\ pc' \in {"poll", "ended"} /\ pc \in {"poll", "sleep"}
  BY DEF EndOfStream, WakeUp
<1>3. WaitTypeOK'
  BY <1>1, <1>2 DEF WaitInv, WaitTypeOK
<1>4. YieldInv' /\ StreakInv' /\ NotFoundForCause'
  BY <1>1, <1>2 DEF WaitInv, YieldInv, StreakInv, NotFoundForCause, Failed, YieldedIds
<1>5. \A j \in Range(remaining) : AbsenceInv(j)'
  BY <1>1, <1>2 DEF WaitInv, AbsenceInv
<1> QED BY <1>1, <1>2, <1>3, <1>4, <1>5 DEF WaitInv, Distinct

\* A tick keeps ages in order and the grace a fixed point.
LEMMA AgedIs ==
  /\ \A a \in Ages : Aged(a) \in Ages /\ (Aged(a) = Nothing <=> a = Nothing)
  /\ \A a, b \in 0 .. Grace : a <= b => Aged(a) <= Aged(b) /\ Aged(a) \in 0 .. Grace
  /\ Aged(Grace) = Grace
<1>1. Grace \in Nat /\ Nothing \notin Nat
  BY WaitAssumption DEF Grace
<1>2. \A a \in 0 .. Grace : a # Nothing /\ Aged(a) = IF a < Grace THEN a + 1 ELSE Grace
  BY <1>1 DEF Aged
<1>3. Aged(Nothing) = Nothing
  BY DEF Aged
<1>4. \A a \in 0 .. Grace : Aged(a) \in 0 .. Grace
  BY <1>1, <1>2
<1>5. \A a, b \in 0 .. Grace : a <= b => Aged(a) <= Aged(b)
  <2> SUFFICES ASSUME NEW a \in 0 .. Grace, NEW b \in 0 .. Grace, a <= b PROVE Aged(a) <= Aged(b)
    OBVIOUS
  <2>1. a \in Nat /\ b \in Nat /\ a <= Grace /\ b <= Grace
    BY <1>1
  <2> QED BY <1>1, <1>2, <2>1
<1>6. Aged(Grace) = Grace
  BY <1>1, <1>2
<1>7. \A a \in 0 .. Grace : a \in Nat
  BY <1>1
<1> QED BY <1>1, <1>2, <1>3, <1>4, <1>5, <1>6, <1>7 DEF Ages

\* Time passes.
LEMMA TickKeeps ==
  ASSUME WaitInv, Tick
  PROVE  WaitInv'
<1>1. UNCHANGED <<row, enqueues, pc, remaining, backoff, streak, read, yielded, failures, missed, span>>
  BY DEF Tick, tables
<1>2. /\ absent' = [i \in TaskIds |-> Aged(absent[i])]
      /\ firstMiss' = [i \in TaskIds |-> Aged(firstMiss[i])]
      /\ sleep' = IF sleep > 0 THEN sleep - 1 ELSE 0
  BY DEF Tick
<1>3. /\ absent \in [TaskIds -> Ages] /\ firstMiss \in [TaskIds -> Ages]
      /\ sleep \in 0 .. MaxBackoff /\ MaxBackoff \in Nat /\ missed \in [TaskIds -> 0 .. 2]
  BY WaitAssumption DEF WaitInv, WaitTypeOK
<1>4. absent' \in [TaskIds -> Ages] /\ firstMiss' \in [TaskIds -> Ages]
  BY <1>2, <1>3, AgedIs
<1>5. sleep' \in 0 .. MaxBackoff
  BY <1>2, <1>3
<1>6. WaitTypeOK'
  BY <1>1, <1>4, <1>5 DEF WaitInv, WaitTypeOK
<1>7. YieldInv' /\ StreakInv'
  BY <1>1 DEF WaitInv, YieldInv, StreakInv, Failed, YieldedIds
<1>8. ASSUME NEW i \in Range(remaining) PROVE AbsenceInv(i)'
  <2>1. i \in TaskIds /\ AbsenceInv(i)
    <3>1. remaining \in Seq(TaskIds)
      BY DEF WaitInv, WaitTypeOK
    <3> QED BY <3>1, RangeOfSeq DEF WaitInv
  <2>2. absent'[i] = Aged(absent[i]) /\ firstMiss'[i] = Aged(firstMiss[i])
    BY <1>2, <2>1
  <2>3. /\ absent[i] \in Ages /\ firstMiss[i] \in Ages
        /\ absent'[i] = Nothing <=> absent[i] = Nothing
        /\ firstMiss'[i] = Nothing <=> firstMiss[i] = Nothing
    BY <1>3, <2>1, <2>2, AgedIs
  <2>4. absent[i] # Nothing /\ firstMiss[i] # Nothing /\ firstMiss[i] >= absent[i] =>
          firstMiss'[i] >= absent'[i]
    <3> SUFFICES ASSUME absent[i] # Nothing, firstMiss[i] # Nothing, firstMiss[i] >= absent[i]
                 PROVE  firstMiss'[i] >= absent'[i]
      OBVIOUS
    <3>1. absent[i] \in 0 .. Grace /\ firstMiss[i] \in 0 .. Grace
      BY <2>3 DEF Ages
    <3>2. Grace \in Nat
      BY WaitAssumption DEF Grace
    <3>3. absent[i] <= firstMiss[i]
      BY <3>1, <3>2
    <3>4. /\ Aged(absent[i]) <= Aged(firstMiss[i])
          /\ Aged(absent[i]) \in 0 .. Grace /\ Aged(firstMiss[i]) \in 0 .. Grace
      <4>1. firstMiss[i] <= firstMiss[i]
        BY <3>1, <3>2
      <4> QED BY <3>1, <3>3, <4>1, AgedIs
    <3> QED BY <2>2, <3>2, <3>4
  <2> QED BY <1>1, <2>1, <2>3, <2>4 DEF AbsenceInv
<1>9. NotFoundForCause'
  <2> SUFFICES ASSUME NEW n \in DOMAIN yielded, yielded[n].kind = "not_found"
               PROVE  missed'[yielded[n].id] = 2 /\ firstMiss'[yielded[n].id] = Grace
    BY <1>1 DEF NotFoundForCause
  <2>1. missed[yielded[n].id] = 2 /\ firstMiss[yielded[n].id] = Grace
    BY DEF WaitInv, NotFoundForCause
  <2>2. yielded[n].id \in TaskIds
    <3>1. yielded \in Seq(ItemType) /\ (yielded[n].kind = "error" <=> yielded[n].id = Nothing)
      BY DEF WaitInv, YieldInv
    <3>2. yielded[n] \in ItemType
      BY <3>1, LenProperties, ElementOfSeq
    <3> QED BY <3>1, <3>2 DEF ItemType
  <2> QED BY <1>1, <1>2, <2>1, <2>2, AgedIs
<1> QED BY <1>1, <1>6, <1>7, <1>8, <1>9 DEF WaitInv, Distinct

\* The ids of the items are ids, and not waited for any more.
LEMMA YieldedAre ==
  ASSUME WaitInv, NEW n \in DOMAIN yielded
  PROVE  /\ yielded[n] \in ItemType
         /\ yielded[n].kind # "error" =>
              yielded[n].id \in TaskIds /\ yielded[n].id \in YieldedIds /\ yielded[n].id \notin Range(remaining)
<1>1. yielded \in Seq(ItemType) /\ (yielded[n].kind = "error" <=> yielded[n].id = Nothing)
  BY DEF WaitInv, YieldInv
<1>2. yielded[n] \in ItemType
  BY <1>1, LenProperties, ElementOfSeq
<1> SUFFICES ASSUME yielded[n].kind # "error"
             PROVE  yielded[n].id \in TaskIds /\ yielded[n].id \in YieldedIds /\ yielded[n].id \notin Range(remaining)
  BY <1>2
<1>3. yielded[n].id \in TaskIds /\ yielded[n].id \in YieldedIds
  BY <1>1, <1>2 DEF ItemType, YieldedIds
<1>4. CASE Failed
  <2>1. remaining = <<>>
    BY <1>4 DEF WaitInv, YieldInv
  <2>2. Range(remaining) = {}
    BY <2>1 DEF Range
  <2> QED BY <1>3, <2>2
<1>5. CASE ~Failed
  BY <1>3, <1>5 DEF WaitInv, YieldInv
<1> QED BY <1>3, <1>4, <1>5

\* A backoff stays within its limits.
LEMMA BackoffIs ==
  ASSUME NEW b \in InitialBackoff .. MaxBackoff
  PROVE  /\ NextBackoff(b) \in InitialBackoff .. MaxBackoff
         /\ InitialBackoff \in InitialBackoff .. MaxBackoff
         /\ b \in 0 .. MaxBackoff
<1>1. InitialBackoff \in Nat /\ MaxBackoff \in Nat /\ MaxBackoff >= InitialBackoff /\ InitialBackoff >= 1
  BY WaitAssumption
<1>2. b \in Nat /\ b >= InitialBackoff /\ b <= MaxBackoff
  BY <1>1
<1>3. NextBackoff(b) = 2 * b \/ NextBackoff(b) = MaxBackoff
  BY DEF NextBackoff
<1>4. 2 * b \in Nat /\ 2 * b >= b /\ (NextBackoff(b) = 2 * b => 2 * b <= MaxBackoff)
  BY <1>1, <1>2 DEF NextBackoff
<1> QED BY <1>1, <1>2, <1>3, <1>4

\* The SELECT answers: what it read of an id, and what the histories note.
LEMMA PollReads ==
  ASSUME WaitInv, TrackedTaskRows
  PROVE  WaitInv'
<1>1. /\ pc = "poll" /\ pc' = "answer" /\ remaining # <<>>
      /\ read' = [i \in Range(remaining) |-> row[i]]
      /\ UNCHANGED <<row, enqueues, remaining, backoff, streak, absent, sleep, yielded, failures>>
  BY DEF TrackedTaskRows, tables
<1>2. /\ row \in [TaskIds -> RowStates] /\ missed \in [TaskIds -> 0 .. 2]
      /\ absent \in [TaskIds -> Ages] /\ firstMiss \in [TaskIds -> Ages] /\ span \in [TaskIds -> Ages]
      /\ remaining \in Seq(TaskIds) /\ 0 \in Ages /\ Nothing \in Ages /\ Nothing \notin Nat
  <2>1. 0 \in 0 .. Grace
    BY WaitAssumption DEF Grace
  <2> QED BY <2>1, WaitAssumption DEF WaitInv, WaitTypeOK, RowStates, Ages
<1>3. \A i \in Range(remaining) : i \in TaskIds
  BY <1>2, RangeOfSeq
<1>4. ASSUME NEW i \in TaskIds
      PROVE  /\ missed'[i] = IF i \notin Range(remaining) THEN missed[i]
                             ELSE IF row[i] # "absent" THEN 0
                             ELSE IF missed[i] < 2 THEN missed[i] + 1 ELSE 2
             /\ firstMiss'[i] = IF i \notin Range(remaining) THEN firstMiss[i]
                                ELSE IF row[i] # "absent" THEN Nothing
                                ELSE IF firstMiss[i] = Nothing THEN 0 ELSE firstMiss[i]
             /\ span'[i] = IF i \in Range(remaining) THEN firstMiss'[i] ELSE span[i]
  BY DEF TrackedTaskRows
<1>5. missed' \in [TaskIds -> 0 .. 2] /\ firstMiss' \in [TaskIds -> Ages]
  <2>1. /\ missed' = [i \in TaskIds |-> missed'[i]] /\ firstMiss' = [i \in TaskIds |-> firstMiss'[i]]
    BY DEF TrackedTaskRows
  <2>2. ASSUME NEW i \in TaskIds PROVE missed'[i] \in 0 .. 2 /\ firstMiss'[i] \in Ages
    <3>1. missed[i] \in 0 .. 2 /\ firstMiss[i] \in Ages
      BY <1>2
    <3> QED BY <1>2, <1>4, <3>1
  <2> QED BY <2>1, <2>2
<1>6. span' \in [TaskIds -> Ages]
  <2>1. span' = [i \in TaskIds |-> span'[i]]
    BY DEF TrackedTaskRows
  <2>2. ASSUME NEW i \in TaskIds PROVE span'[i] \in Ages
    BY <1>2, <1>4, <1>5
  <2> QED BY <2>1, <2>2
<1>7. WaitTypeOK'
  BY <1>1, <1>5, <1>6 DEF WaitInv, WaitTypeOK
<1>8. read' \in [Range(remaining) -> RowStates]
  BY <1>1, <1>2, <1>3
<1>9. ~Failed
  BY <1>1 DEF WaitInv, YieldInv
<1>10. YieldInv' /\ StreakInv'
  <2>1. YieldInv'
    BY <1>1, <1>9 DEF WaitInv, YieldInv, Failed, YieldedIds
  <2>2. StreakInv'
    BY <1>1 DEF WaitInv, StreakInv, Failed
  <2> QED BY <2>1, <2>2
<1>11. ASSUME NEW i \in Range(remaining) PROVE AbsenceInv(i)'
  <2>1. AbsenceInv(i) /\ i \in TaskIds /\ read'[i] = row[i]
    BY <1>1, <1>3 DEF WaitInv
  <2>2. CASE row[i] # "absent"
    BY <1>1, <2>1, <2>2 DEF AbsenceInv
  <2>3. CASE row[i] = "absent"
    <3>1. /\ missed[i] \in 0 .. 2 /\ missed'[i] = (IF missed[i] < 2 THEN missed[i] + 1 ELSE 2)
          /\ firstMiss'[i] = (IF firstMiss[i] = Nothing THEN 0 ELSE firstMiss[i])
      BY <1>2, <1>4, <2>1, <2>3
    <3>2. missed'[i] >= 1 /\ firstMiss'[i] # Nothing
      BY <1>2, <3>1
    <3>3. absent[i] # Nothing => missed[i] >= 1 /\ firstMiss[i] # Nothing /\ firstMiss[i] >= absent[i]
      BY <1>1, <2>1 DEF AbsenceInv
    <3>4. absent[i] # Nothing => missed'[i] = 2 /\ firstMiss'[i] >= absent[i]
      BY <3>1, <3>3
    <3> QED BY <1>1, <3>2, <3>4 DEF AbsenceInv
  <2> QED BY <2>2, <2>3
<1>12. NotFoundForCause'
  <2> SUFFICES ASSUME NEW n \in DOMAIN yielded, yielded[n].kind = "not_found"
               PROVE  missed'[yielded[n].id] = 2 /\ firstMiss'[yielded[n].id] = Grace
    BY <1>1 DEF NotFoundForCause
  <2>1. yielded[n].id \in TaskIds /\ yielded[n].id \notin Range(remaining)
    BY YieldedAre
  <2>2. missed[yielded[n].id] = 2 /\ firstMiss[yielded[n].id] = Grace
    BY DEF WaitInv, NotFoundForCause
  <2> QED BY <1>4, <2>1, <2>2
<1> QED BY <1>1, <1>7, <1>8, <1>10, <1>11, <1>12 DEF WaitInv, Distinct

\* A poll fails: one more of a streak, or the end of it.
LEMMA PollFails ==
  ASSUME WaitInv, PollFailed
  PROVE  WaitInv'
<1>1. /\ pc = "poll" /\ remaining # <<>>
      /\ failures' = (IF failures < MaxErrors THEN failures + 1 ELSE failures)
      /\ UNCHANGED <<row, enqueues, absent, read, missed, firstMiss, span>>
  BY DEF PollFailed, tables
<1>2. ~Failed /\ streak = failures /\ failures < MaxErrors
  BY <1>1 DEF WaitInv, YieldInv, StreakInv
<1>3. /\ backoff \in InitialBackoff .. MaxBackoff /\ sleep \in 0 .. MaxBackoff
      /\ streak \in 0 .. (MaxErrors - 1) /\ MaxErrors \in Nat \ {0}
      /\ remaining \in Seq(TaskIds)
  BY WaitAssumption DEF WaitInv, WaitTypeOK
<1>4. failures' = failures + 1 /\ failures' \in 0 .. MaxErrors
  BY <1>1, <1>2, <1>3
<1>5. CASE DbErrorsExhausted(streak)
  <2> DEFINE err == [kind |-> "error", id |-> Nothing]
  <2>1. /\ yielded' = Append(yielded, err) /\ remaining' = <<>>
        /\ backoff' = InitialBackoff /\ streak' = 0 /\ pc' = pc /\ sleep' = sleep
    BY <1>5 DEF PollFailed
  <2>2. failures' = MaxErrors
    BY <1>2, <1>3, <1>4, <1>5 DEF DbErrorsExhausted
  <2>3. /\ yielded \in Seq(ItemType) /\ err \in ItemType /\ Len(yielded) \in Nat
        /\ DOMAIN yielded = 1 .. Len(yielded)
    <3>1. yielded \in Seq(ItemType)
      BY DEF WaitInv, YieldInv
    <3> QED BY <3>1, LenProperties DEF ItemType
  <2>9. err.kind = "error" /\ err.id = Nothing
    OBVIOUS
  <2> HIDE DEF err
  <2>4. /\ yielded' \in Seq(ItemType) /\ DOMAIN yielded' = 1 .. (Len(yielded) + 1)
        /\ \A n \in 1 .. Len(yielded) : yielded'[n] = yielded[n]
        /\ yielded'[Len(yielded) + 1] = err
        /\ \A n \in DOMAIN yielded' : n \in 1 .. Len(yielded) \/ n = Len(yielded) + 1
    <3>1. /\ yielded' \in Seq(ItemType) /\ Len(yielded') = Len(yielded) + 1
          /\ \A n \in 1 .. Len(yielded) : yielded'[n] = yielded[n]
          /\ yielded'[Len(yielded) + 1] = err
      BY <2>1, <2>3, AppendProperties
    <3>2. DOMAIN yielded' = 1 .. (Len(yielded) + 1)
      BY <3>1, LenProperties
    <3> QED BY <2>3, <3>1, <3>2
  <2>5. \A n \in 1 .. Len(yielded) : yielded[n].kind # "error" /\ yielded[n].id # Nothing
    BY <1>2, <2>3 DEF Failed, WaitInv, YieldInv
  <2>6. Failed'
    <3>1. Len(yielded) + 1 \in 1 .. (Len(yielded) + 1)
      BY <2>3
    <3> QED BY <2>4, <2>9, <3>1 DEF Failed
  <2>7. WaitTypeOK'
    <3>1. <<>> \in Seq(TaskIds) /\ 0 \in 0 .. (MaxErrors - 1)
      BY <1>3, EmptySeq
    <3> QED BY <1>1, <1>3, <1>4, <2>1, <3>1, BackoffIs DEF WaitInv, WaitTypeOK
  <2>8. YieldInv'
    <3>1. ASSUME NEW n \in DOMAIN yielded', NEW m \in DOMAIN yielded', yielded'[n].id = yielded'[m].id
          PROVE  n = m
      <4>1. CASE n \in 1 .. Len(yielded) /\ m \in 1 .. Len(yielded)
        BY <2>3, <2>4, <3>1, <4>1 DEF WaitInv, YieldInv
      <4>2. CASE n \in 1 .. Len(yielded) /\ m = Len(yielded) + 1
        BY <2>4, <2>5, <2>9, <3>1, <4>2
      <4>3. CASE n = Len(yielded) + 1 /\ m \in 1 .. Len(yielded)
        BY <2>4, <2>5, <2>9, <3>1, <4>3
      <4> QED BY <2>4, <4>1, <4>2, <4>3
    <3>2. \A n \in DOMAIN yielded' : yielded'[n].kind = "error" <=> yielded'[n].id = Nothing
      BY <2>4, <2>5, <2>9
    <3> QED BY <1>1, <2>1, <2>4, <2>6, <3>1, <3>2 DEF YieldInv
  <2>10. NotFoundForCause'
    <3> SUFFICES ASSUME NEW n \in DOMAIN yielded', yielded'[n].kind = "not_found"
                 PROVE  missed'[yielded'[n].id] = 2 /\ firstMiss'[yielded'[n].id] = Grace
      BY DEF NotFoundForCause
    <3>1. n \in 1 .. Len(yielded) /\ yielded'[n] = yielded[n]
      BY <2>4, <2>9
    <3> QED BY <1>1, <2>3, <3>1 DEF WaitInv, NotFoundForCause
  <2>11. Range(remaining') = {} /\ Distinct(remaining')
    BY <2>1 DEF Range, Distinct
  <2> QED BY <1>1, <2>1, <2>2, <2>6, <2>7, <2>8, <2>10, <2>11 DEF WaitInv, StreakInv, Distinct, Range
<1>6. CASE ~DbErrorsExhausted(streak)
  <2>1. /\ pc' = "sleep" /\ sleep' = backoff /\ backoff' = NextBackoff(backoff)
        /\ streak' = streak + 1 /\ yielded' = yielded /\ remaining' = remaining
    BY <1>6 DEF PollFailed
  <2>2. streak' \in 0 .. (MaxErrors - 1) /\ failures' < MaxErrors
    BY <1>2, <1>3, <1>4, <1>6, <2>1 DEF DbErrorsExhausted
  <2>3. WaitTypeOK'
    BY <1>1, <1>3, <1>4, <2>1, <2>2, BackoffIs DEF WaitInv, WaitTypeOK
  <2>4. ~Failed' /\ YieldedIds' = YieldedIds
    BY <1>2, <2>1 DEF Failed, YieldedIds
  <2>5. YieldInv' /\ NotFoundForCause'
    BY <1>1, <1>2, <2>1, <2>4 DEF WaitInv, YieldInv, NotFoundForCause
  <2>6. StreakInv'
    BY <1>2, <1>4, <2>1, <2>2, <2>4 DEF StreakInv
  <2>7. \A i \in Range(remaining) : AbsenceInv(i)'
    BY <1>1, <2>1 DEF WaitInv, AbsenceInv
  <2> QED BY <2>1, <2>3, <2>5, <2>6, <2>7 DEF WaitInv, Distinct
<1> QED BY <1>5, <1>6

\* The two parts a poll sorts the awaited ids into.
LEMMA Sorted ==
  ASSUME WaitInv
  PROVE  /\ SettledIds \in Seq(TaskIds) /\ Distinct(SettledIds)
         /\ \A i : i \in Range(SettledIds) <=> i \in Range(remaining) /\ Settled(i)
         /\ StillAwaited \in Seq(TaskIds) /\ Distinct(StillAwaited)
         /\ \A i : i \in Range(StillAwaited) <=> i \in Range(remaining) /\ ~Settled(i)
<1> DEFINE S == {n \in DOMAIN remaining : Settled(remaining[n])}
           U == {n \in DOMAIN remaining : ~Settled(remaining[n])}
<1>1. remaining \in Seq(TaskIds) /\ Distinct(remaining)
  BY DEF WaitInv, WaitTypeOK
<1>2. Len(remaining) \in Nat /\ DOMAIN remaining = 1 .. Len(remaining)
  BY <1>1, LenProperties
<1>3. S \in SUBSET (1 .. Len(remaining)) /\ U \in SUBSET (1 .. Len(remaining))
  BY <1>2
<1>4. \A i \in 1 .. Len(remaining), j \in 1 .. Len(remaining) : remaining[i] = remaining[j] => i = j
  BY <1>1, <1>2 DEF Distinct
<1>5. SettledIds = At(remaining, S) /\ StillAwaited = At(remaining, U)
  BY DEF SettledIds, StillAwaited
<1>6. \A x : x \in Range(remaining) <=> \E n \in DOMAIN remaining : x = remaining[n]
  BY DEF Range
<1>7. /\ \A x : (\E n \in S : x = remaining[n]) <=> x \in Range(remaining) /\ Settled(x)
      /\ \A x : (\E n \in U : x = remaining[n]) <=> x \in Range(remaining) /\ ~Settled(x)
  BY <1>6
<1> HIDE DEF S, U
<1>8. /\ At(remaining, S) \in Seq(TaskIds)
      /\ \A x : x \in Range(At(remaining, S)) <=> \E n \in S : x = remaining[n]
  BY <1>1, <1>3, AtOf
<1>9. /\ At(remaining, U) \in Seq(TaskIds)
      /\ \A x : x \in Range(At(remaining, U)) <=> \E n \in U : x = remaining[n]
  BY <1>1, <1>3, AtOf
<1>10. Distinct(At(remaining, S)) /\ Distinct(At(remaining, U))
  <2>1. \A i, j \in S : remaining[i] = remaining[j] => i = j
    BY <1>3, <1>4
  <2>2. \A i, j \in U : remaining[i] = remaining[j] => i = j
    BY <1>3, <1>4
  <2> QED BY <1>1, <1>3, <2>1, <2>2, AtDistinct
<1> QED BY <1>5, <1>7, <1>8, <1>9, <1>10

\* The poll's items and what they add to the stream.
LEMMA ItemsJoin ==
  ASSUME WaitInv, TriagePoll
  PROVE  LET old == Len(yielded)
             new == Len(SettledIds)
         IN  /\ old \in Nat /\ new \in Nat
             /\ DOMAIN yielded = 1 .. old /\ DOMAIN SettledIds = 1 .. new
             /\ yielded' \in Seq(ItemType) /\ DOMAIN yielded' = 1 .. (old + new)
             /\ \A n \in 1 .. old : yielded'[n] = yielded[n]
             /\ \A n \in 1 .. new : yielded'[old + n] = Item(SettledIds[n])
             /\ \A n \in DOMAIN yielded' : n \in 1 .. old \/ \E m \in 1 .. new : n = old + m
<1> DEFINE old == Len(yielded)
           new == Len(SettledIds)
<1>1. yielded \in Seq(ItemType) /\ SettledIds \in Seq(TaskIds) /\ yielded' = yielded \o Items
  BY Sorted DEF WaitInv, YieldInv, TriagePoll
<1>2. old \in Nat /\ new \in Nat /\ DOMAIN yielded = 1 .. old /\ DOMAIN SettledIds = 1 .. new
  BY <1>1, LenProperties
<1>3. ASSUME NEW n \in 1 .. new PROVE Item(SettledIds[n]) \in ItemType
  <2>1. SettledIds[n] \in TaskIds
    BY <1>1, <1>2, ElementOfSeq
  <2> QED BY <2>1 DEF Item, ItemType
<1>4. Items = [n \in 1 .. new |-> Item(SettledIds[n])]
  BY <1>2 DEF Items
<1> HIDE DEF old, new
<1>5. Items \in [1 .. new -> ItemType]
  BY <1>3, <1>4
<1>6. Items \in Seq(ItemType) /\ Len(Items) = new
  BY <1>2, <1>5
<1>7. /\ yielded' \in Seq(ItemType) /\ Len(yielded') = old + new
      /\ \A i \in 1 .. (old + new) : yielded'[i] = IF i <= old THEN yielded[i] ELSE Items[i - old]
  BY <1>1, <1>6, ConcatProperties DEF old
<1>8. DOMAIN yielded' = 1 .. (old + new)
  BY <1>7, LenProperties
<1>9. ASSUME NEW n \in 1 .. old PROVE yielded'[n] = yielded[n]
  <2>1. n \in 1 .. (old + new) /\ n <= old
    BY <1>2
  <2> QED BY <1>7, <2>1
<1>10. ASSUME NEW n \in 1 .. new PROVE yielded'[old + n] = Item(SettledIds[n])
  <2>1. old + n \in 1 .. (old + new) /\ ~(old + n <= old) /\ (old + n) - old = n
    BY <1>2
  <2> QED BY <1>4, <1>7, <2>1
<1>11. ASSUME NEW n \in DOMAIN yielded' PROVE n \in 1 .. old \/ \E m \in 1 .. new : n = old + m
  <2>1. n \in 1 .. (old + new)
    BY <1>8
  <2>2. n \in 1 .. old \/ (n - old \in 1 .. new /\ n = old + (n - old))
    BY <1>2, <2>1
  <2> QED BY <2>2
<1> QED BY <1>2, <1>7, <1>8, <1>9, <1>10, <1>11 DEF old, new

\* The poll is sorted: the settled ids are yielded, the others waited for.
LEMMA TriageKeeps ==
  ASSUME WaitInv, TriagePoll
  PROVE  WaitInv'
<1> DEFINE old == Len(yielded)
           new == Len(SettledIds)
           settled == SettledIds
<1>1. /\ pc = "answer" /\ remaining' = StillAwaited /\ failures' = 0 /\ streak' = 0
      /\ absent' = [i \in TaskIds |-> IF i \in Range(remaining) THEN Absence(i) ELSE absent[i]]
      /\ UNCHANGED <<row, enqueues, missed, firstMiss, span>>
  BY DEF TriagePoll, tables
<1>2. \/ pc' = "sleep" /\ sleep' = backoff /\ backoff' = NextBackoff(backoff)
      \/ pc' = "poll" /\ sleep' = sleep /\ backoff' = InitialBackoff
  BY DEF TriagePoll
<1>3. /\ old \in Nat /\ new \in Nat
      /\ DOMAIN yielded = 1 .. old /\ DOMAIN settled = 1 .. new
      /\ yielded' \in Seq(ItemType) /\ DOMAIN yielded' = 1 .. (old + new)
      /\ \A n \in 1 .. old : yielded'[n] = yielded[n]
      /\ \A n \in 1 .. new : yielded'[old + n] = Item(settled[n])
      /\ \A n \in DOMAIN yielded' : n \in 1 .. old \/ \E m \in 1 .. new : n = old + m
  BY ItemsJoin
<1>4. ~Failed /\ Distinct(remaining) /\ read \in [Range(remaining) -> RowStates]
  BY <1>1 DEF WaitInv, YieldInv
<1>5. /\ settled \in Seq(TaskIds) /\ Distinct(settled)
      /\ \A i : i \in Range(settled) <=> i \in Range(remaining) /\ Settled(i)
      /\ remaining' \in Seq(TaskIds) /\ Distinct(remaining')
      /\ \A i : i \in Range(remaining') <=> i \in Range(remaining) /\ ~Settled(i)
  <2>1. Distinct(StillAwaited) => Distinct(remaining')
    BY <1>1
  <2> QED BY <1>1, <2>1, Sorted
<1>6. ASSUME NEW m \in 1 .. new
      PROVE  /\ settled[m] \in TaskIds /\ settled[m] \in Range(remaining) /\ Settled(settled[m])
             /\ Item(settled[m]).id = settled[m]
             /\ Item(settled[m]).kind = (IF Terminal(settled[m]) THEN "result" ELSE "not_found")
  <2>1. settled[m] \in TaskIds /\ settled[m] \in Range(settled)
    BY <1>3, <1>5, ElementOfSeq DEF Range
  <2> QED BY <1>5, <2>1 DEF Item
<1>7. ASSUME NEW m \in 1 .. new
      PROVE  Item(settled[m]).kind # "error" /\ Item(settled[m]).id # Nothing
  BY <1>6, WaitAssumption
<1>8. ASSUME NEW n \in 1 .. old
      PROVE  yielded[n].kind # "error" /\ yielded[n].id \in TaskIds /\ yielded[n].id \notin Range(remaining)
  <2>1. yielded[n].kind # "error"
    BY <1>3, <1>4 DEF Failed
  <2> QED BY <1>3, <2>1, YieldedAre
<1>9. ~Failed'
  BY <1>3, <1>7, <1>8 DEF Failed
<1>10. YieldedIds' = YieldedIds \cup Range(settled)
  <2>1. ASSUME NEW x \in YieldedIds' PROVE x \in YieldedIds \cup Range(settled)
    <3>1. PICK n \in DOMAIN yielded' : x = yielded'[n].id /\ x # Nothing
      BY DEF YieldedIds
    <3>2. CASE n \in 1 .. old
      BY <1>3, <3>1, <3>2 DEF YieldedIds
    <3>3. CASE \E m \in 1 .. new : n = old + m
      <4>1. PICK m \in 1 .. new : n = old + m
        BY <3>3
      <4>2. x = settled[m]
        BY <1>3, <1>6, <3>1, <4>1
      <4> QED BY <1>3, <4>2 DEF Range
    <3> QED BY <1>3, <3>2, <3>3
  <2>2. ASSUME NEW x \in YieldedIds PROVE x \in YieldedIds'
    <3>1. PICK n \in DOMAIN yielded : x = yielded[n].id /\ x # Nothing
      BY DEF YieldedIds
    <3>2. n \in 1 .. (old + new) /\ yielded'[n] = yielded[n]
      BY <1>3
    <3> QED BY <1>3, <3>1, <3>2 DEF YieldedIds
  <2>3. ASSUME NEW x \in Range(settled) PROVE x \in YieldedIds'
    <3>1. PICK m \in 1 .. new : x = settled[m]
      BY <1>3 DEF Range
    <3>2. old + m \in 1 .. (old + new)
      BY <1>3
    <3>3. yielded'[old + m].id = x /\ x # Nothing
      BY <1>3, <1>6, <1>7, <3>1
    <3> QED BY <1>3, <3>2, <3>3 DEF YieldedIds
  <2> QED BY <2>1, <2>2, <2>3
<1>11. YieldInv'
  <2>1. ASSUME NEW n \in DOMAIN yielded', NEW m \in DOMAIN yielded', yielded'[n].id = yielded'[m].id
        PROVE  n = m
    <3>1. CASE n \in 1 .. old /\ m \in 1 .. old
      BY <1>3, <2>1, <3>1 DEF WaitInv, YieldInv
    <3>2. ASSUME NEW x \in 1 .. old, NEW y \in 1 .. new PROVE yielded'[x].id # yielded'[old + y].id
      BY <1>3, <1>6, <1>8
    <3>3. ASSUME NEW x \in 1 .. new, NEW y \in 1 .. new, yielded'[old + x].id = yielded'[old + y].id
          PROVE  x = y
      <4>1. settled[x] = settled[y]
        BY <1>3, <1>6, <3>3
      <4> QED BY <1>3, <1>5, <4>1 DEF Distinct
    <3>4. CASE n \in 1 .. old /\ \E y \in 1 .. new : m = old + y
      BY <2>1, <3>2, <3>4
    <3>5. CASE m \in 1 .. old /\ \E x \in 1 .. new : n = old + x
      BY <2>1, <3>2, <3>5
    <3>6. CASE (\E x \in 1 .. new : n = old + x) /\ \E y \in 1 .. new : m = old + y
      <4>1. PICK x \in 1 .. new : n = old + x
        BY <3>6
      <4>2. PICK y \in 1 .. new : m = old + y
        BY <3>6
      <4>3. x = y
        BY <2>1, <3>3, <4>1, <4>2
      <4> QED BY <4>1, <4>2, <4>3
    <3>7. /\ n \in 1 .. old \/ \E x \in 1 .. new : n = old + x
          /\ m \in 1 .. old \/ \E y \in 1 .. new : m = old + y
      BY <1>3
    <3> HIDE DEF old, new
    <3> QED BY <3>1, <3>4, <3>5, <3>6, <3>7
  <2>2. \A n \in DOMAIN yielded' : yielded'[n].kind = "error" <=> yielded'[n].id = Nothing
    <3>1. ASSUME NEW n \in 1 .. old PROVE yielded'[n].kind # "error" /\ yielded'[n].id # Nothing
      BY <1>3, <1>8, WaitAssumption
    <3> QED BY <1>3, <1>7, <3>1
  <2>3. /\ YieldedIds' \cup Range(remaining') = Range(Asked)
        /\ YieldedIds' \cap Range(remaining') = {}
    <3>1. /\ YieldedIds \cup Range(remaining) = Range(Asked)
          /\ YieldedIds \cap Range(remaining) = {}
      BY <1>4 DEF WaitInv, YieldInv
    <3> HIDE DEF settled
    <3> QED BY <1>5, <1>10, <3>1
  <2> QED BY <1>3, <1>9, <2>1, <2>2, <2>3 DEF YieldInv, Range
<1>12. /\ absent \in [TaskIds -> Ages] /\ firstMiss \in [TaskIds -> Ages] /\ missed \in [TaskIds -> 0 .. 2]
       /\ 0 \in Ages /\ Nothing \in Ages /\ Grace \in Nat /\ Nothing \notin Nat
  <2>1. Grace \in Nat /\ Nothing \notin Nat
    BY WaitAssumption DEF Grace
  <2> QED BY <2>1 DEF WaitInv, WaitTypeOK, Ages
<1>13. WaitTypeOK'
  <2>1. absent' \in [TaskIds -> Ages]
    <3>1. ASSUME NEW i \in TaskIds PROVE Absence(i) \in Ages
      BY <1>12 DEF Absence
    <3> QED BY <1>1, <1>12, <3>1
  <2>2. backoff' \in InitialBackoff .. MaxBackoff /\ sleep' \in 0 .. MaxBackoff
    BY <1>2, BackoffIs DEF WaitInv, WaitTypeOK
  <2>3. 0 \in 0 .. MaxErrors /\ 0 \in 0 .. (MaxErrors - 1)
    BY WaitAssumption
  <2> QED BY <1>1, <1>2, <1>5, <2>1, <2>2, <2>3 DEF WaitInv, WaitTypeOK
<1>14. StreakInv'
  BY <1>1, <1>9, WaitAssumption DEF StreakInv
<1>15. ASSUME NEW i \in Range(remaining), read[i] = "absent"
       PROVE  /\ i \in TaskIds /\ missed[i] >= 1 /\ firstMiss[i] \in 0 .. Grace /\ firstMiss[i] # Nothing
              /\ absent[i] # Nothing => missed[i] = 2 /\ firstMiss[i] >= absent[i] /\ absent[i] \in 0 .. Grace
  <2>1. i \in TaskIds
    BY RangeOfSeq DEF WaitInv, WaitTypeOK
  <2>2. AbsenceInv(i)
    BY DEF WaitInv
  <2> QED BY <1>1, <1>12, <1>15, <2>1, <2>2 DEF AbsenceInv, Ages
<1>16. ASSUME NEW i \in Range(remaining') PROVE AbsenceInv(i)'
  <2>1. i \in Range(remaining) /\ ~Settled(i) /\ i \in TaskIds
    <3>1. i \in Range(remaining) /\ ~Settled(i)
      BY <1>5
    <3> QED BY <3>1, RangeOfSeq DEF WaitInv, WaitTypeOK
  <2>2. absent'[i] = Absence(i) /\ ~Missing(i)
    BY <1>1, <2>1 DEF Settled
  <2>3. CASE read[i] # "absent"
    <3>1. absent'[i] = Nothing
      BY <2>2, <2>3 DEF Absence
    <3> QED BY <1>2, <3>1 DEF AbsenceInv
  <2>4. CASE read[i] = "absent"
    <3>1. absent'[i] = IF absent[i] = Nothing THEN 0 ELSE absent[i]
      BY <2>2, <2>4 DEF Absence
    <3>2. missed'[i] >= 1 /\ firstMiss'[i] # Nothing
      BY <1>1, <1>15, <2>1, <2>4
    <3>3. firstMiss'[i] >= absent'[i]
      BY <1>1, <1>12, <1>15, <2>1, <2>4, <3>1
    <3> QED BY <1>2, <3>2, <3>3 DEF AbsenceInv
  <2> QED BY <2>3, <2>4
<1>17. NotFoundForCause'
  <2> SUFFICES ASSUME NEW n \in DOMAIN yielded', yielded'[n].kind = "not_found"
               PROVE  missed[yielded'[n].id] = 2 /\ firstMiss[yielded'[n].id] = Grace
    BY <1>1 DEF NotFoundForCause
  <2>1. CASE n \in 1 .. old
    BY <1>3, <2>1 DEF WaitInv, NotFoundForCause
  <2>2. CASE \E m \in 1 .. new : n = old + m
    <3>1. PICK m \in 1 .. new : n = old + m
      BY <2>2
    <3> DEFINE i == settled[m]
    <3>2. i \in Range(remaining) /\ Settled(i) /\ ~Terminal(i) /\ yielded'[n].id = i
      BY <1>3, <1>6, <3>1
    <3>3. read[i] = "absent" /\ absent[i] # Nothing /\ absent[i] >= Grace
      BY <3>2 DEF Settled, Missing
    <3>4. /\ missed[i] = 2 /\ firstMiss[i] >= absent[i]
          /\ absent[i] \in 0 .. Grace /\ firstMiss[i] \in 0 .. Grace
      BY <1>15, <3>2, <3>3
    <3> HIDE DEF i
    <3>5. firstMiss[i] = Grace
      BY <1>12, <3>3, <3>4
    <3> QED BY <3>2, <3>4, <3>5
  <2> QED BY <1>3, <2>1, <2>2
<1>18. pc' # "answer"
  BY <1>2
<1> QED BY <1>5, <1>11, <1>13, <1>14, <1>16, <1>17, <1>18 DEF WaitInv

\* Every step keeps the invariant of the wait.
LEMMA WaitKeeps ==
  WaitInv /\ [WaitNext]_waitVars => WaitInv'
<1> SUFFICES ASSUME WaitInv, [WaitNext]_waitVars PROVE WaitInv'
  OBVIOUS
<1>1. CASE UNCHANGED waitVars
  <2>1. UNCHANGED <<row, enqueues, pc, remaining, backoff, streak, absent, read, sleep,
                    yielded, failures, missed, firstMiss, span>>
    BY <1>1 DEF waitVars
  <2>2. WaitTypeOK' /\ YieldInv' /\ StreakInv' /\ NotFoundForCause'
    BY <2>1 DEF WaitInv, WaitTypeOK, YieldInv, StreakInv, NotFoundForCause, Failed, YieldedIds
  <2>3. \A i \in Range(remaining) : AbsenceInv(i)'
    BY <2>1 DEF WaitInv, AbsenceInv
  <2> QED BY <2>1, <2>2, <2>3 DEF WaitInv, Distinct
<1>2. CASE WaitNext
  BY <1>2, RowsMove, StreamRests, PollReads, PollFails, TriageKeeps, TickKeeps DEF WaitNext, Stream
<1> QED BY <1>1, <1>2

\* wait_for: every id that was passed is waited for or answered exactly once,
\* TaskNotFound follows two polls in a row that missed the id and a whole grace,
\* and the stream gives up only after MAX_CONSECUTIVE_DB_ERRORS failed polls.
THEOREM WaitAnswersForCause == WaitSpec => []AnsweredForCause
BY WaitInitial, WaitKeeps, WaitInvAnswers, PTL DEF WaitSpec
=============================================================================
