---------------------------- MODULE TaskListing ----------------------------
(***************************************************************************)
(* The task listings a dashboard pages through: list_tasks (one queue) and *)
(* list_all_tasks, over a table that producers, workers, retention and     *)
(* other writers change between two pages.                                 *)
(*                                                                         *)
(* A page is one SELECT with ORDER BY ... LIMIT ... OFFSET, converted row  *)
(* by row afterwards; the first row that does not convert fails the page.  *)
(* An ORDER BY allows every sequence its keys do not forbid, so a page is  *)
(* read from any of the sequences in Orderings.                            *)
(***************************************************************************)
EXTENDS Integers, Sequences, FiniteSets, SequencesExt

CONSTANTS
  Id,         \* task ids, ordered as their text is (ULIDs)
  Queue,      \* queues
  RunAt,      \* run_at values
  DoneAt,     \* done_at values
  PageSize,   \* page sizes a dashboard asks for
  Page,       \* page numbers a dashboard asks for
  MaxU32,     \* u32::MAX, scaled down
  MaxI32,     \* i32::MAX, scaled down
  MaxWrites,  \* bound: writes to the table
  All,        \* list_all_tasks: no queue filter
  Null        \* SQL NULL

\* Ids and times are ordered, a table is finite, and null values differ from
\* what they stand beside.
ListingAssumption ==
  /\ Id \subseteq Nat /\ IsFiniteSet(Id)
  /\ RunAt \subseteq Nat /\ DoneAt \subseteq Nat
  /\ PageSize \subseteq Nat /\ Page \subseteq Nat
  /\ MaxU32 \in Nat /\ MaxI32 \in Nat /\ MaxWrites \in Nat
  /\ Null \notin Nat /\ All \notin Queue

\* What another writer may have stored: metadata that is JSON but no object, a
\* row whose columns do not form a task, a payload the codec refuses.
Shape == {"sound", "scalar_metadata", "malformed", "undecodable"}

Row == [queue : Queue, status : {"Pending", "Done"}, run_at : RunAt,
        done_at : DoneAt \union {Null}, shape : Shape]

Absent == [status |-> "Absent"]

\* A dashboard walks a listing page by page; `start` is what the listing held
\* when the walk began, `moved` and `left` say whether a row entered or left it
\* since.
Idle == [state |-> "idle"]
NewWalk(scope, status, size) ==
  [state |-> "walking", scope |-> scope, status |-> status, size |-> size, page |-> 1,
   got |-> <<>>, start |-> {}, moved |-> FALSE, left |-> FALSE]

VARIABLES
  jobs,      \* apalis.jobs
  walk,      \* the walk in progress, if any
  reply,     \* what the last call answered
  writes     \* bound: writes so far

vars == <<jobs, walk, reply, writes>>

Init ==
  /\ jobs = [i \in Id |-> Absent]
  /\ walk = Idle
  /\ reply = [call |-> "none"]
  /\ writes = 0

-----------------------------------------------------------------------------
(* The query. *)

\* WHERE status = $1 AND job_type = $2
MatchingIn(table, scope, status) ==
  {i \in Id : table[i].status = status /\ (scope = All \/ table[i].queue = scope)}

Matching(scope, status) == MatchingIn(jobs, scope, status)

\* done_at DESC puts NULL first.
Earlier(d, e) == IF d = Null THEN e # Null ELSE e # Null /\ d > e

\* Mutated form: no id tie-breaker.
BeforeWithoutId(i, j) ==
  LET a == jobs[i] b == jobs[j]
  IN \/ Earlier(a.done_at, b.done_at)
     \/ a.done_at = b.done_at /\ a.run_at > b.run_at

\* ORDER BY done_at DESC, run_at DESC, id DESC
Before(i, j) ==
  LET a == jobs[i] b == jobs[j]
  IN \/ Earlier(a.done_at, b.done_at)
     \/ a.done_at = b.done_at /\ a.run_at > b.run_at
     \/ a.done_at = b.done_at /\ a.run_at = b.run_at /\ i > j

Orderings(S) ==
  {s \in SetToSeqs(S) : \A p, q \in DOMAIN s : p < q => ~Before(s[q], s[p])}

\* i32_from_u32
FitsI32(n) == n <= MaxI32

\* Mutated form: the offset wraps around at u32.
WrappingOffset(page, limit) ==
  LET offset == ((page - 1) * limit) % (MaxU32 + 1)
  IN IF page = 0 \/ ~FitsI32(offset) THEN Null ELSE offset

\* filter_offset_i32: pages count from 1, and an offset that overflows u32 or
\* i32 is an error (Null), never another page.
FilterOffset(page, limit) ==
  LET offset == (page - 1) * limit
  IN IF page = 0 \/ offset > MaxU32 \/ ~FitsI32(offset) THEN Null ELSE offset

\* LIMIT ... OFFSET
Slice(s, limit, offset) ==
  SubSeq(s, offset + 1, IF offset + limit < Len(s) THEN offset + limit ELSE Len(s))

-----------------------------------------------------------------------------
(* Converting the rows of a page. *)

\* apalis-sql's try_into_task_compact: it panics on metadata that is not an
\* object, and refuses a row it cannot convert.
TryIntoTaskCompact(metadata, shape) ==
  IF metadata = "scalar" THEN "panic" ELSE IF shape = "malformed" THEN "Row" ELSE "ok"

\* Mutated form: the metadata is passed on as it is stored.
UnfilteredMetadata(shape) ==
  IF shape = "scalar_metadata" THEN "scalar" ELSE "object"

\* From<JobRow> for TaskRow: metadata that is no object becomes none.
RowMetadata(shape) ==
  IF shape = "scalar_metadata" THEN "none" ELSE "object"

\* task_row
TaskRow(i) == TryIntoTaskCompact(RowMetadata(jobs[i].shape), jobs[i].shape)

\* A task of one queue is decoded as well; list_all_tasks returns it compact.
Converted(scope, i) ==
  IF TaskRow(i) # "ok" THEN TaskRow(i)
  ELSE IF scope # All /\ jobs[i].shape = "undecodable" THEN "Decode" ELSE "ok"

\* Every row is converted before the first one is decoded, and the first error
\* of either pass is the answer.
PageResult(scope, s) ==
  LET rows == {TaskRow(s[p]) : p \in DOMAIN s} \ {"ok"}
      payloads == {Converted(scope, s[p]) : p \in DOMAIN s} \ {"ok"}
  IN IF rows # {} THEN rows ELSE IF payloads # {} THEN payloads ELSE {"ok"}

-----------------------------------------------------------------------------
(* The calls. *)

\* list_tasks and list_all_tasks with any filter, outside a walk.
ListTasks(scope, status, limit, page) ==
  LET offset == FilterOffset(page, limit)
  IN /\ walk = Idle
     /\ IF ~FitsI32(limit) \/ offset = Null
        THEN reply' = [call |-> "list", page |-> page, limit |-> limit, scope |-> scope,
                       status |-> status, answer |-> "InvalidArgument"]
        ELSE \E s \in Orderings(Matching(scope, status)) :
               \E answer \in PageResult(scope, Slice(s, limit, offset)) :
                 reply' = [call |-> "list", page |-> page, limit |-> limit, scope |-> scope,
                           status |-> status, answer |-> answer,
                           rows |-> Slice(s, limit, offset)]
     /\ UNCHANGED <<jobs, walk, writes>>

\* fetch_by_id: scoped to the storage's queue.
FetchById(queue, i) ==
  /\ walk = Idle
  /\ reply' = [call |-> "fetch", queue |-> queue, id |-> i,
               answer |-> IF jobs[i] # Absent /\ jobs[i].queue = queue
                          THEN Converted(queue, i) ELSE "none"]
  /\ UNCHANGED <<jobs, walk, writes>>

StartWalk(scope, status, size) ==
  /\ walk = Idle
  /\ size > 0 /\ FitsI32(size)
  /\ walk' = [NewWalk(scope, status, size) EXCEPT !.start = Matching(scope, status)]
  /\ reply' = [call |-> "none"]
  /\ UNCHANGED <<jobs, writes>>

\* The dashboard asks for its next page; a page that is not full is its last.
NextPage ==
  /\ walk.state = "walking"
  /\ LET offset == FilterOffset(walk.page, walk.size)
     IN /\ offset # Null
        /\ \E s \in Orderings(Matching(walk.scope, walk.status)) :
             LET page == Slice(s, walk.size, offset)
             IN walk' = [walk EXCEPT !.got = @ \o page, !.page = @ + 1,
                                     !.state = IF Len(page) < walk.size THEN "over" ELSE @]
  /\ UNCHANGED <<jobs, reply, writes>>

EndWalk ==
  /\ walk.state \in {"walking", "over"}
  /\ walk' = Idle
  /\ UNCHANGED <<jobs, reply, writes>>

-----------------------------------------------------------------------------
(* The writers. *)

\* The listing of a walk sees the write as a row entering or leaving it.
Observed(table) ==
  IF walk.state # "walking" THEN walk
  ELSE LET before == Matching(walk.scope, walk.status)
           after == MatchingIn(table, walk.scope, walk.status)
       IN [walk EXCEPT !.moved = @ \/ before # after,
                       !.left = @ \/ ~(before \subseteq after)]

Write(i, row) ==
  /\ writes < MaxWrites
  /\ writes' = writes + 1
  /\ jobs' = [jobs EXCEPT ![i] = row]
  /\ walk' = Observed(jobs')
  /\ reply' = [call |-> "none"]

\* push, and other writers: the row may have any shape.
Enqueue(i, q, r, shape) ==
  /\ jobs[i] = Absent
  /\ Write(i, [queue |-> q, status |-> "Pending", run_at |-> r, done_at |-> Null, shape |-> shape])

\* Mutated form: the completion time is not written.
FinishWithoutTime(i, d) ==
  /\ jobs[i].status = "Pending"
  /\ Write(i, [jobs[i] EXCEPT !.status = "Done"])

\* An acknowledgement: the row leaves one listing and enters another.
Finish(i, d) ==
  /\ jobs[i].status = "Pending"
  /\ Write(i, [jobs[i] EXCEPT !.status = "Done", !.done_at = d])

\* Retention
Purge(i) ==
  /\ jobs[i].status = "Done"
  /\ Write(i, Absent)

Next ==
  \/ \E scope \in Queue \union {All}, status \in {"Pending", "Done"} :
       \/ \E limit \in PageSize, page \in Page : ListTasks(scope, status, limit, page)
       \/ \E size \in PageSize : StartWalk(scope, status, size)
  \/ \E q \in Queue, i \in Id : FetchById(q, i)
  \/ NextPage
  \/ EndWalk
  \/ \E i \in Id, q \in Queue, r \in RunAt, shape \in Shape : Enqueue(i, q, r, shape)
  \/ \E i \in Id, d \in DoneAt : Finish(i, d)
  \/ \E i \in Id : Purge(i)

Spec == Init /\ [][Next]_vars

-----------------------------------------------------------------------------
(* Properties. *)

\* A row has a completion time exactly when an acknowledgement ended it.
TypeOK ==
  /\ jobs \in [Id -> Row \union {Absent}]
  /\ \A i \in Id : jobs[i] # Absent => (jobs[i].done_at = Null <=> jobs[i].status = "Pending")
  /\ writes \in 0..MaxWrites
  /\ walk.state # "idle" => walk.got \in Seq(Id) /\ walk.start \subseteq Id

\* Paging through a listing nothing enters or leaves shows every row exactly
\* once: the order of rows with equal timestamps is the same for every page
\* (the id tie-breaker of migration 20260910000001), and pages neither overlap
\* nor leave a gap.  Rows that enter meanwhile push others onto later pages and
\* never hide one: a walk during which no row left the listing has shown every
\* row it held from the start.
WalkExact ==
  walk.state = "over" =>
    /\ ~walk.moved => \A p, q \in DOMAIN walk.got : p # q => walk.got[p] # walk.got[q]
    /\ ~walk.left => walk.start \subseteq Range(walk.got)

\* A request beyond what the columns can express is refused and never answered
\* with another page's rows (filter_offset_i32): an answered page holds rows
\* exactly when the listing reaches that far.
PageInRange ==
  reply.call = "list" /\ "rows" \in DOMAIN reply =>
    LET n == Cardinality(Matching(reply.scope, reply.status))
        first == (reply.page - 1) * reply.limit
        rest == IF n > first THEN n - first ELSE 0
    IN Len(reply.rows) = (IF rest < reply.limit THEN rest ELSE reply.limit)

\* A page fails only for a row it holds itself, and a payload the codec refuses
\* fails only the listing that decodes it (list_all_tasks hands the bytes out);
\* no stored row makes a call panic.
FailureForCause ==
  /\ reply.call = "list" /\ reply.answer \notin {"ok", "InvalidArgument"} =>
       \E p \in DOMAIN reply.rows :
         \/ jobs[reply.rows[p]].shape = "malformed" /\ reply.answer = "Row"
         \/ jobs[reply.rows[p]].shape = "undecodable" /\ reply.answer = "Decode"
            /\ reply.scope # All
  /\ reply.call \in {"list", "fetch"} => reply.answer # "panic"

=============================================================================
