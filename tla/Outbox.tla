------------------------------- MODULE Outbox -------------------------------
(***************************************************************************)
(* The transactional outbox: tasks enqueued on the caller's connection.    *)
(*                                                                         *)
(* push_with_conn, push_task_with_conn, push_batch_with_conn and           *)
(* push_tasks_with_conn (lib.rs) insert a batch through                    *)
(* push_tasks_on_conn (queries/push.rs) inside a nested Diesel             *)
(* transaction: a SAVEPOINT when the caller has opened a transaction, a    *)
(* transaction of its own otherwise.  examples/outbox.rs writes a business *)
(* row in the same outer transaction.                                      *)
(*                                                                         *)
(* The INSERT ... ON CONFLICT DO NOTHING takes its rows one at a time: a   *)
(* row whose key or id is held by a transaction that has not ended waits   *)
(* for it, so two batches with the same keys in opposite orders can        *)
(* deadlock.  PostgreSQL runs at READ COMMITTED, its default.              *)
(***************************************************************************)
EXTENDS Naturals, FiniteSets, Subsequence, SequencesExt

CONSTANTS
  Conns,      \* the callers' connections
  Ids,        \* task ids (Ulids)
  Keys,       \* idempotency keys
  OverCap,    \* the keys longer than MAX_IDEMPOTENCY_KEY_LEN
  Orders,     \* ids of business rows
  MaxBatch,   \* bound: tasks of one batch
  MaxPushes,  \* bound: pushes of all connections together
  NoKey,      \* idempotency_key = None
  NoOrder,    \* no business row written yet
  NoPush      \* no push under way on a connection

ASSUME OutboxAssumption ==
  /\ OverCap \subseteq Keys
  /\ MaxBatch \in Nat
  /\ MaxPushes \in Nat
  /\ NoKey \notin Keys
  /\ NoOrder \notin Orders

Tasks == [id : Ids, key : Keys \cup {NoKey}]

\* A stored row remembers the business row its transaction had written.
Rows == [id : Ids, key : Keys \cup {NoKey}, of : Orders \cup {NoOrder}]

VARIABLES
  committed, \* the committed rows of apalis.jobs
  orders,   \* the committed business rows
  open,     \* the connections inside a caller's transaction
  rows,     \* per connection: rows inserted by its transaction, not committed
  order,    \* per connection: the business row its transaction has written
  push,     \* per connection: the INSERT under way
  pushes,   \* how many pushes were made
  answer,   \* per connection: what its last push returned
  assured,  \* per connection: the tasks its open transaction was told Ok for
  kept,     \* history: tasks told Ok whose transaction is known to be committed
  unsure    \* history: tasks whose COMMIT was sent and never answered

outboxVars == <<committed, orders, open, rows, order, push, pushes, answer, assured, kept, unsure>>

NoAnswer == [kind |-> "none", keys |-> <<>>]

KeysOf(S) == {t.key : t \in S} \ {NoKey}
IdsOf(S) == {t.id : t \in S}

\* The tasks of a sequence as rows of connection c's transaction.
RowsOf(c, tasks) == {[id |-> t.id, key |-> t.key, of |-> order[c]] : t \in Range(tasks)}

OutboxInit ==
  /\ committed = {}
  /\ orders = {}
  /\ open = {}
  /\ rows = [c \in Conns |-> {}]
  /\ order = [c \in Conns |-> NoOrder]
  /\ push = [c \in Conns |-> NoPush]
  /\ pushes = 0
  /\ answer = [c \in Conns |-> NoAnswer]
  /\ assured = [c \in Conns |-> {}]
  /\ kept = {}
  /\ unsure = {}

-----------------------------------------------------------------------------
(***************************************************************************)
(* The caller's transaction.                                               *)
(***************************************************************************)

Begin(c) ==
  /\ push[c] = NoPush
  /\ c \notin open
  /\ open' = open \cup {c}
  /\ answer' = [answer EXCEPT ![c] = NoAnswer]
  /\ UNCHANGED <<committed, orders, rows, order, push, assured, kept, unsure, pushes>>

\* insert_order: the business write of the same transaction, under an id
\* drawn for it.
InsertOrder(c, o) ==
  /\ push[c] = NoPush
  /\ c \in open
  /\ order[c] = NoOrder
  /\ o \notin orders \cup {order[d] : d \in Conns} \cup {r.of : r \in unsure}
  /\ order' = [order EXCEPT ![c] = o]
  /\ UNCHANGED <<committed, orders, open, rows, push, answer, assured, kept, unsure, pushes>>

\* The transaction of connection c is over, with or without its effects.
Ended(c) ==
  /\ open' = open \ {c}
  /\ rows' = [rows EXCEPT ![c] = {}]
  /\ order' = [order EXCEPT ![c] = NoOrder]
  /\ push' = [push EXCEPT ![c] = NoPush]
  /\ assured' = [assured EXCEPT ![c] = {}]

Stored(c) ==
  /\ committed' = committed \cup rows[c]
  /\ orders' = orders \cup ({order[c]} \ {NoOrder})

Commit(c) ==
  /\ push[c] = NoPush
  /\ c \in open
  /\ Stored(c)
  /\ kept' = kept \cup assured[c]
  /\ Ended(c)
  /\ UNCHANGED <<answer, unsure, pushes>>

\* The closure returns Err (scenario_rollback), or the connection is lost at
\* any moment before COMMIT is sent.
Rollback(c) ==
  /\ c \in open \/ push[c] # NoPush
  /\ Ended(c)
  /\ answer' = [answer EXCEPT ![c] = IF push[c] = NoPush THEN answer[c]
                                     ELSE [kind |-> "error", keys |-> <<>>]]
  /\ UNCHANGED <<committed, orders, kept, unsure, pushes>>

\* COMMIT was sent and the connection broke before the answer came back.
CommitUnanswered(c) ==
  /\ push[c] = NoPush
  /\ c \in open
  /\ unsure' = unsure \cup assured[c]
  /\ Stored(c) \/ UNCHANGED <<committed, orders>>
  /\ Ended(c)
  /\ UNCHANGED <<answer, kept, pushes>>

-----------------------------------------------------------------------------
(***************************************************************************)
(* push_tasks_on_conn.                                                     *)
(***************************************************************************)

\* validate_queue and validate_columns: every cap is checked for the whole
\* batch before any statement.
WithinCaps(batch) == \A i \in DOMAIN batch : batch[i].key \notin OverCap

\* prepare_batch: an empty batch is a no-op that answers Ok, a batch over a
\* cap is refused, any other one is handed to the INSERT of a nested
\* transaction.
PushTasks(c, batch) ==
  /\ push[c] = NoPush
  /\ pushes < MaxPushes
  /\ pushes' = pushes + 1
  /\ IF batch = <<>>
       THEN /\ answer' = [answer EXCEPT ![c] = [kind |-> "ok", keys |-> <<>>]]
            /\ push' = push
       ELSE IF ~WithinCaps(batch)
       THEN /\ answer' = [answer EXCEPT ![c] = [kind |-> "refused", keys |-> <<>>]]
            /\ push' = push
       ELSE /\ answer' = [answer EXCEPT ![c] = NoAnswer]
            /\ push' = [push EXCEPT ![c] = [batch |-> batch, at |-> 1, got |-> <<>>]]
  /\ UNCHANGED <<committed, orders, open, rows, order, assured, kept, unsure>>

\* Ids that exist or are being inserted.
Taken == IdsOf(committed) \cup UNION {IdsOf(rows[d]) : d \in Conns}
           \cup UNION {IdsOf(Range(push[d].batch)) : d \in {e \in Conns : push[e] # NoPush}}

\* push_with_conn and push_batch_with_conn: tasks without a key, whose ids
\* are generated.
PushArgs(c, batch) ==
  /\ \A i \in DOMAIN batch : batch[i].key = NoKey /\ batch[i].id \notin Taken
  /\ \A i, j \in DOMAIN batch : i # j => batch[i].id # batch[j].id
  /\ PushTasks(c, batch)

\* What the connection sees as stored: committed rows, those of its own
\* transaction, and those its statement has inserted so far.
Seen(c) == committed \cup rows[c] \cup Range(push[c].got)

\* The rows another connection has inserted and not committed.
HeldByOthers(c) ==
  UNION {rows[d] \cup (IF push[d] = NoPush THEN {} ELSE Range(push[d].got))
           : d \in Conns \ {c}}

InStatement(c) == push[c] # NoPush /\ push[c].at <= Len(push[c].batch)

Current(c) == push[c].batch[push[c].at]

KeyConflict(c) == Current(c).key \in KeysOf(Seen(c))

\* The arbiter index is looked up first: a key already stored is skipped
\* without a look at the id.
Waits(c) ==
  /\ InStatement(c)
  /\ ~KeyConflict(c)
  /\ \/ Current(c).key \in KeysOf(HeldByOthers(c))
     \/ Current(c).id \in IdsOf(HeldByOthers(c))

\* One row of the INSERT: skipped on a key conflict (DO NOTHING), inserted,
\* or refused by the primary key, which ON CONFLICT does not cover.
InsertRow(c) ==
  /\ InStatement(c)
  /\ ~Waits(c)
  /\ KeyConflict(c) \/ Current(c).id \notin IdsOf(Seen(c))
  /\ push' = [push EXCEPT ![c].at = @ + 1,
                          ![c].got = IF KeyConflict(c) THEN @ ELSE Append(@, Current(c))]
  /\ UNCHANGED <<committed, orders, open, rows, order, answer, assured, kept, unsure, pushes>>

\* Mutated form: the failing INSERT runs without the nested transaction, so
\* the rows inserted before the failure stay in the caller's transaction.
RolledBackToSavepointKept(c, result) ==
  /\ push' = [push EXCEPT ![c] = NoPush]
  /\ answer' = [answer EXCEPT ![c] = result]
  /\ rows' = [rows EXCEPT ![c] = IF c \in open THEN @ \cup RowsOf(c, push[c].got) ELSE @]
  /\ UNCHANGED <<committed, orders, open, order, assured, kept, unsure, pushes>>

\* The push returns an error: the nested transaction takes its rows back and
\* the caller's transaction stays open.
RolledBackToSavepoint(c, result) ==
  /\ push' = [push EXCEPT ![c] = NoPush]
  /\ answer' = [answer EXCEPT ![c] = result]
  /\ UNCHANGED <<committed, orders, open, rows, order, assured, kept, unsure, pushes>>

DuplicateId(c) ==
  /\ InStatement(c)
  /\ ~Waits(c)
  /\ ~KeyConflict(c)
  /\ Current(c).id \in IdsOf(Seen(c))
  /\ RolledBackToSavepoint(c, [kind |-> "error", keys |-> <<>>])

\* Two statements that wait for each other: PostgreSQL fails one of them.
Deadlock(c) ==
  /\ Waits(c)
  /\ \E d \in Conns \ {c} : Waits(d)
  /\ RolledBackToSavepoint(c, [kind |-> "error", keys |-> <<>>])

-----------------------------------------------------------------------------
(***************************************************************************)
(* insert_batch and insert_reporting_conflicts after the INSERT.           *)
(***************************************************************************)

AnyKey(batch) == \E i \in DOMAIN batch : batch[i].key # NoKey

SubmittedKeys(batch) ==
  LET keyed == At(batch, {i \in DOMAIN batch : batch[i].key # NoKey})
  IN  [n \in DOMAIN keyed |-> keyed[n].key]

\* How often the key of submission i was submitted up to it.
Submissions(keys, i) == Cardinality({j \in 1 .. i : keys[j] = keys[i]})

\* How many rows were inserted under a key.
Inserted(got, key) == Cardinality({i \in DOMAIN got : got[i].key = key})

\* Mutated form: a submitted key is looked up among the inserted rows and the
\* row is not consumed, so a key submitted twice is not reported.
ConflictingKeysNotConsumed(batch, got) ==
  LET keys == SubmittedKeys(batch)
  IN  At(keys, {i \in DOMAIN keys : Submissions(keys, i) = 1 /\ Inserted(got, keys[i]) = 0})

\* The submitted keys left without an inserted row of their own, each once, in
\* the order of the batch: the submissions of a key use up the rows inserted
\* under it, and the first one that finds none reports the key.
ConflictingKeys(batch, got) ==
  LET keys == SubmittedKeys(batch)
  IN  At(keys, {i \in DOMAIN keys : Submissions(keys, i) = Inserted(got, keys[i]) + 1})

\* A keyed batch of which fewer rows were inserted than submitted.
Conflicted(c) ==
  /\ AnyKey(push[c].batch)
  /\ Len(push[c].got) < Len(push[c].batch)

StatementDone(c) == push[c] # NoPush /\ push[c].at > Len(push[c].batch)

ReportConflict(c) ==
  /\ StatementDone(c)
  /\ Conflicted(c)
  /\ RolledBackToSavepoint(c, [kind |-> "conflict",
                               keys |-> ConflictingKeys(push[c].batch, push[c].got)])

\* Mutated form: the batch is committed on its own although the caller has a
\* transaction open, as it would be on a connection of the crate's pool.
ReleaseOnOwnConnection(c) ==
  /\ StatementDone(c)
  /\ ~Conflicted(c)
  /\ c \in open
  /\ committed' = committed \cup RowsOf(c, push[c].got)
  /\ push' = [push EXCEPT ![c] = NoPush]
  /\ answer' = [answer EXCEPT ![c] = [kind |-> "ok", keys |-> <<>>]]
  /\ kept' = kept \cup RowsOf(c, push[c].batch)
  /\ UNCHANGED <<orders, open, rows, order, assured, unsure, pushes>>

\* Mutated form: the nested transaction is a savepoint in every case, so a push
\* outside of a transaction is never committed.
ReleaseAlways(c) ==
  /\ StatementDone(c)
  /\ ~Conflicted(c)
  /\ rows' = [rows EXCEPT ![c] = @ \cup RowsOf(c, push[c].got)]
  /\ push' = [push EXCEPT ![c] = NoPush]
  /\ answer' = [answer EXCEPT ![c] = [kind |-> "ok", keys |-> <<>>]]
  /\ assured' = [assured EXCEPT ![c] = @ \cup RowsOf(c, push[c].batch)]
  /\ UNCHANGED <<committed, orders, open, order, kept, unsure, pushes>>

\* Inside the caller's transaction: RELEASE SAVEPOINT, and Ok.
Release(c) ==
  /\ StatementDone(c)
  /\ ~Conflicted(c)
  /\ c \in open
  /\ rows' = [rows EXCEPT ![c] = @ \cup RowsOf(c, push[c].got)]
  /\ push' = [push EXCEPT ![c] = NoPush]
  /\ answer' = [answer EXCEPT ![c] = [kind |-> "ok", keys |-> <<>>]]
  /\ assured' = [assured EXCEPT ![c] = @ \cup RowsOf(c, push[c].batch)]
  /\ UNCHANGED <<committed, orders, open, order, kept, unsure, pushes>>

\* Outside of any transaction Diesel's is the outermost one: the push ends
\* with its COMMIT, whose answer may be lost.
AutoCommit(c) ==
  /\ StatementDone(c)
  /\ ~Conflicted(c)
  /\ c \notin open
  /\ push' = [push EXCEPT ![c] = NoPush]
  /\ \/ /\ committed' = committed \cup RowsOf(c, push[c].got)
        /\ kept' = kept \cup RowsOf(c, push[c].batch)
        /\ answer' = [answer EXCEPT ![c] = [kind |-> "ok", keys |-> <<>>]]
        /\ UNCHANGED unsure
     \/ /\ committed' = committed \cup RowsOf(c, push[c].got)
        /\ unsure' = unsure \cup RowsOf(c, push[c].batch)
        /\ answer' = [answer EXCEPT ![c] = [kind |-> "error", keys |-> <<>>]]
        /\ UNCHANGED kept
  /\ UNCHANGED <<orders, open, rows, order, assured, pushes>>

-----------------------------------------------------------------------------

Batches == UNION {[1..n -> Tasks] : n \in 0..MaxBatch}

OutboxNext ==
  \E c \in Conns :
    \/ Begin(c)
    \/ \E o \in Orders : InsertOrder(c, o)
    \/ Commit(c)
    \/ Rollback(c)
    \/ CommitUnanswered(c)
    \/ \E batch \in Batches : PushTasks(c, batch)
    \/ \E batch \in Batches : PushArgs(c, batch)
    \/ InsertRow(c)
    \/ DuplicateId(c)
    \/ Deadlock(c)
    \/ ReportConflict(c)
    \/ Release(c)
    \/ AutoCommit(c)

OutboxSpec == OutboxInit /\ [][OutboxNext]_outboxVars

-----------------------------------------------------------------------------
(***************************************************************************)
(* Properties.                                                             *)
(***************************************************************************)

Answers == [kind : {"none", "ok", "refused", "error", "conflict"}, keys : Seq(Keys)]

\* Type correctness; in particular uncommitted rows, a business write and
\* promises exist only inside a caller's transaction.
OutboxTypeOK ==
  /\ committed \subseteq Rows /\ kept \subseteq Rows /\ unsure \subseteq Rows
  /\ orders \subseteq Orders
  /\ open \subseteq Conns
  /\ pushes \in 0..MaxPushes
  /\ \A c \in Conns :
       /\ rows[c] \subseteq Rows /\ assured[c] \subseteq Rows
       /\ order[c] \in Orders \cup {NoOrder}
       /\ c \notin open => rows[c] = {} /\ assured[c] = {} /\ order[c] = NoOrder
       /\ answer[c] \in Answers
       /\ push[c] = NoPush \/ /\ push[c].batch \in Batches
                              /\ push[c].at \in 1..(Len(push[c].batch) + 1)
                              /\ push[c].got \in Batches

\* What a push answered is what is stored.  A task told Ok in a transaction
\* that committed is in apalis.jobs, and every row there was told Ok or its
\* COMMIT went unanswered: a push that reported a conflict, a duplicate id or
\* a deadlock left nothing behind, although its caller went on to commit.
TableExact ==
  /\ kept \subseteq committed
  /\ committed \subseteq kept \cup unsure

\* The outbox promise: a task enqueued after a business write, on the same
\* connection and in the same transaction, is stored exactly when the business
\* row is, whichever of the two transactions in flight commits, rolls back,
\* loses a deadlock or loses its connection.
OrderAndTasks ==
  \A r \in committed \cup kept \cup unsure :
    r.of # NoOrder => (r \in committed <=> r.of \in orders)

\* The outbox: the table holds exactly what was answered Ok and committed, and
\* an order of the caller's own iff its tasks.
OutboxExact == OutboxTypeOK /\ TableExact /\ OrderAndTasks

\* The keys of Error::IdempotencyConflict are the keys that collided, each
\* named once: those already stored for good (committed, or written earlier in
\* the caller's own transaction) and those the batch holds twice.  A key that a
\* rolled-back transaction held for a while is never reported.
ConflictKeysExact ==
  [][\A c \in Conns :
       StatementDone(c) /\ answer'[c].kind = "conflict" =>
         LET keys == SubmittedKeys(push[c].batch)
             twice == {k \in Keys : \E i, j \in DOMAIN keys : i # j /\ keys[i] = k /\ keys[j] = k}
         IN  /\ Range(answer'[c].keys) =
                  Range(keys) \cap (twice \cup KeysOf(committed \cup rows[c]))
             /\ IsInjective(answer'[c].keys)]_outboxVars

=============================================================================
