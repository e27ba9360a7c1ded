----------------------------- MODULE Migrations -----------------------------
(***************************************************************************)
(* setup and verify_schema (queries/migrations.rs).                        *)
(*                                                                         *)
(* setup runs in one transaction under an advisory lock: it adopts the     *)
(* history of an existing schema without a journal of its own, runs the    *)
(* pending migrations, and verifies the result before it commits.  Several *)
(* processes call it at their start, and any of them may fail on the way.  *)
(*                                                                         *)
(* The fourteen embedded migrations are numbered in their order; the       *)
(* catalog is described by what schema_contract.sql tells apart.  A        *)
(* database remembers which migrations were really executed on it, by      *)
(* whichever runner, which no code can read.                               *)
(***************************************************************************)
EXTENDS Naturals, FiniteSetsExt

CONSTANTS
  Procs,      \* processes that call setup
  Checkers,   \* processes that call verify_schema
  Nothing     \* no journal; no transaction

Versions == 1..14

\* BASELINE_VERSIONS: 20260520000000, the second one, is not among them.
BaselineVersions == {1} \cup 3..9

\* CURRENT_FINAL_ADOPT_VERSIONS.
FinalAdoptVersions == 1..11

ASSUME SetupAssumption ==
  /\ Nothing \notin Procs
  /\ \A journal \in SUBSET Versions : journal # Nothing

VARIABLES
  db,       \* the committed database
  lock,     \* the process whose transaction holds the advisory lock
  proc,     \* per process: "new", "adopt", "migrate", "verify", "ok" or "failed"
  txn,      \* per process: the database as its transaction sees it
  verdict   \* per checker: "new", "ok" or "refused"

setupVars == <<db, lock, proc, txn, verdict>>

-----------------------------------------------------------------------------
(***************************************************************************)
(* Catalogs.                                                               *)
(***************************************************************************)

\* One migration executed on a database.
Executed(d, v) ==
  [d EXCEPT
     !.cols    = CASE v = 1 /\ @ = "none"   -> "legacy"
                   [] v = 5 /\ @ = "legacy" -> "mixed"
                   [] v = 6 /\ @ = "mixed"  -> "full"
                   [] OTHER                 -> @,
     !.indexes = CASE v = 9  -> "base"
                   [] v = 11 -> "final"
                   [] OTHER  -> @,
     !.owner   = IF v = 13 /\ @ = "absent" THEN "valid" ELSE @,
     !.shape   = IF v = 14 /\ @ = "absent" THEN "valid" ELSE @,
     !.twice   = IF v \in d.done THEN @ \cup {v} ELSE @,
     !.done    = @ \cup {v}]

Empty == [cols |-> "none", indexes |-> "none", owner |-> "absent", shape |-> "absent",
          done |-> {}, twice |-> {}, journal |-> Nothing]

\* A database on which the migrations S were executed once, in their order.
Installed(S) ==
  [cols    |-> IF 1 \notin S THEN "none" ELSE IF 5 \notin S THEN "legacy"
               ELSE IF 6 \notin S THEN "mixed" ELSE "full",
   indexes |-> IF 11 \in S THEN "final" ELSE IF 9 \in S THEN "base" ELSE "none",
   owner   |-> IF 13 \in S THEN "valid" ELSE "absent",
   shape   |-> IF 14 \in S THEN "valid" ELSE "absent",
   done    |-> S, twice |-> {}, journal |-> Nothing]

\* The schemas that setup may meet: none; the released upstream one; the one of
\* the first migration alone; the released baseline; an unfinished one; later
\* generations, with a journal or installed by another runner without one, and
\* with a later constraint malformed; and the eleven-version one whose later
\* objects were built beforehand, as docs/upgrading.md advises for the index.
Databases ==
  LET early == {Installed(S) : S \in {{1}, BaselineVersions, 1..5}}
      later == {Installed(1..n) : n \in 11..14}
      malformed == {[d EXCEPT !.owner = "malformed"] : d \in later}
                     \cup {[d EXCEPT !.shape = "malformed"] : d \in later}
      journalled == {[d EXCEPT !.journal = d.done] : d \in later \cup malformed}
      upstream == [Empty EXCEPT !.cols = "legacy"]
      prepared == [Installed(1..11) EXCEPT !.owner = "valid", !.shape = "valid"]
  IN  {Empty, upstream, prepared} \cup early \cup later \cup malformed \cup journalled

\* schema_problems is empty for the generation.
Satisfies(d, generation) ==
  CASE generation = "Legacy"           -> d.cols \in {"legacy", "mixed", "full"}
    [] generation = "ReleasedBaseline" -> d.cols = "full" /\ d.indexes = "base"
    [] generation = "Adoptable"        -> d.cols = "full" /\ d.indexes = "final"
    [] generation = "Current"          -> /\ d.cols = "full" /\ d.indexes = "final"
                                          /\ d.owner = "valid" /\ d.shape = "valid"

\* recognized_legacy: neither the lease token nor the snapshot exists.
RecognizedLegacy(d) == Satisfies(d, "Legacy") /\ d.cols = "legacy"

-----------------------------------------------------------------------------

SetupInit ==
  /\ db \in Databases
  /\ lock = Nothing
  /\ proc = [p \in Procs |-> "new"]
  /\ txn = [p \in Procs |-> Nothing]
  /\ verdict = [c \in Checkers |-> "new"]

ProcTo(p, state) == proc' = [proc EXCEPT ![p] = state]

\* pg_advisory_xact_lock waits for the transaction that holds the lock.
AcquireLock(p) == lock = Nothing /\ lock' = p

\* The transaction begins, takes the lock and creates the journal: its
\* statements see what is committed after the lock was granted.
Begin(p) ==
  /\ proc[p] = "new"
  /\ AcquireLock(p)
  /\ txn' = [txn EXCEPT ![p] = [db EXCEPT !.journal = IF @ = Nothing THEN {} ELSE @]]
  /\ ProcTo(p, "adopt")
  /\ UNCHANGED <<db, verdict>>

\* Mutated form: the adopted history is committed on its own.
RolledBackButJournal(p) ==
  /\ ProcTo(p, "failed")
  /\ txn' = [txn EXCEPT ![p] = Nothing]
  /\ lock' = IF lock = p THEN Nothing ELSE lock
  /\ db' = [db EXCEPT !.journal = txn[p].journal]
  /\ UNCHANGED verdict

\* Mutated form: the lock belongs to the session, which the pool keeps.
RolledBackButLock(p) ==
  /\ ProcTo(p, "failed")
  /\ txn' = [txn EXCEPT ![p] = Nothing]
  /\ UNCHANGED <<db, lock, verdict>>

\* The transaction of p is rolled back, which gives the lock back.
RolledBack(p) ==
  /\ ProcTo(p, "failed")
  /\ txn' = [txn EXCEPT ![p] = Nothing]
  /\ lock' = IF lock = p THEN Nothing ELSE lock
  /\ UNCHANGED <<db, verdict>>

\* Mutated form: every catalog of a final generation adopts the whole history,
\* although the later migrations may not have run on it.
AdoptedVersionsAll(d) ==
  IF Satisfies(d, "Adoptable") THEN Versions ELSE BaselineVersions

\* Mutated form: a final generation is adopted as the baseline.
AdoptedVersionsBaseline(d) == BaselineVersions

\* The versions whose effect an adopted catalog is known to show.
AdoptedVersions(d) ==
  IF Satisfies(d, "Adoptable") THEN FinalAdoptVersions ELSE BaselineVersions

\* adopt_or_check_existing: a journal is trusted, a database without a schema
\* has nothing to adopt, a known generation is adopted, a legacy one is
\* migrated from the start, and anything else is refused.
AdoptOrCheckExisting(p) ==
  LET d == txn[p]
  IN  /\ proc[p] = "adopt"
      /\ \/ /\ d.journal # {} \/ d.cols = "none"
            /\ ProcTo(p, "migrate")
            /\ UNCHANGED <<db, lock, txn, verdict>>
         \/ /\ d.journal = {}
            /\ Satisfies(d, "Adoptable") \/ Satisfies(d, "ReleasedBaseline")
            /\ txn' = [txn EXCEPT ![p].journal = AdoptedVersions(d)]
            /\ ProcTo(p, "migrate")
            /\ UNCHANGED <<db, lock, verdict>>
         \/ /\ d.journal = {} /\ d.cols # "none"
            /\ ~Satisfies(d, "Adoptable") /\ ~Satisfies(d, "ReleasedBaseline")
            /\ IF RecognizedLegacy(d)
                 THEN ProcTo(p, "migrate") /\ UNCHANGED <<db, lock, txn, verdict>>
                 ELSE RolledBack(p)

\* A migration that the runner executes and records.
Migrated(d, v) == [Executed(d, v) EXCEPT !.journal = d.journal \cup {v}]

\* run_pending_migrations: the versions the journal lacks, in their order.
RunPendingMigration(p) ==
  LET pending == Versions \ txn[p].journal
  IN  /\ proc[p] = "migrate"
      /\ IF pending = {}
           THEN ProcTo(p, "verify") /\ UNCHANGED txn
           ELSE /\ txn' = [txn EXCEPT ![p] = Migrated(txn[p], Min(pending))]
                /\ UNCHANGED proc
      /\ UNCHANGED <<db, lock, verdict>>

\* A statement fails or the process dies: nothing of the transaction is kept.
Fail(p) ==
  /\ proc[p] \in {"adopt", "migrate", "verify"}
  /\ RolledBack(p)

\* verify_structure.
VerifyStructure(d) == Satisfies(d, "Current")

Commit(p) ==
  /\ proc[p] = "verify"
  /\ IF VerifyStructure(txn[p])
       THEN /\ db' = txn[p]
            /\ txn' = [txn EXCEPT ![p] = Nothing]
            /\ lock' = IF lock = p THEN Nothing ELSE lock
            /\ ProcTo(p, "ok")
            /\ UNCHANGED verdict
       ELSE RolledBack(p)

\* Mutated form: only the structure is checked.
VerifiedByShape(d) == VerifyStructure(d)

\* verify_schema: a journal, every embedded migration in it, and the structure.
Verified(d) ==
  /\ d.journal # Nothing
  /\ Versions \subseteq d.journal
  /\ VerifyStructure(d)

VerifySchema(c) ==
  /\ verdict[c] = "new"
  /\ verdict' = [verdict EXCEPT ![c] = IF Verified(db) THEN "ok" ELSE "refused"]
  /\ UNCHANGED <<db, lock, proc, txn>>

-----------------------------------------------------------------------------

Setup(p) ==
  Begin(p) \/ AdoptOrCheckExisting(p) \/ RunPendingMigration(p) \/ Commit(p)

SetupNext ==
  \/ \E p \in Procs : Setup(p) \/ Fail(p)
  \/ \E c \in Checkers : VerifySchema(c)

SetupSpec == SetupInit /\ [][SetupNext]_setupVars

-----------------------------------------------------------------------------
(***************************************************************************)
(* Properties.                                                             *)
(***************************************************************************)

\* A setup that answered Ok left a database on which every embedded migration
\* was executed: adoption skipped none whose effect the catalog does not show.
SetupCompletes ==
  (\E p \in Procs : proc[p] = "ok") => Versions \subseteq db.done /\ Verified(db)

\* The migrations up to the eleventh, which drop and rebuild keys and indexes,
\* are not executed again on a database that has had them.  The first creates
\* what is missing only, and the later ones leave present objects alone.
NotReplayed == db.twice \cap 2..11 = {}

\* verify_schema vouches only for a database that had every migration, even
\* when its catalog looks complete because another runner installed it.
VerifySound == \A c \in Checkers : verdict[c] = "ok" => Versions \subseteq db.done

\* A setup that answered Ok executed every migration, none of the destructive
\* ones twice, and verify_schema vouches for nothing less.
SetupSound == SetupCompletes /\ NotReplayed /\ VerifySound

\* setup commits everything or nothing: the committed database changes only to
\* one that verify_schema accepts, whatever it was before, whoever runs beside
\* and wherever a process fails.  A refused schema keeps its history.
AllOrNothing == [][db' # db => Verified(db') /\ ~Verified(db)]_setupVars
=============================================================================
