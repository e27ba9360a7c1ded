-------------------------- MODULE WorkerFenceProofs --------------------------
(***************************************************************************)
(* Proofs about WorkerFence, for any number of names, tokens, tasks and    *)
(* connections: no claim of a replaced token is ever active, and the       *)
(* transactions implement the atomic ones of Ownership.                    *)
(*                                                                         *)
(* The inductive invariant says of each transaction what its locks have    *)
(* established (SessionOK), and of each pair that their locks agree        *)
(* (PairOK).  A commit changes only rows it holds, so what another         *)
(* transaction knows of its own rows survives it (JobStable, RegStable).   *)
(***************************************************************************)
EXTENDS WorkerFence, FiniteSetTheorems, TLAPS

RegRow == [token : Tokens \union {None}, stale : BOOLEAN]

JobRow == [st : {"waiting", "queued", "running", "done"}, by : Names \union {None},
           epoch : Nat, tok : Tokens \union {None}]

TxRow == [op : Ops \union {"idle"}, name : Names \union {None}, token : Tokens \union {None},
          pc : Statements, names : SUBSET Names, rows : SUBSET Jobs, want : SUBSET Jobs,
          target : Jobs \union {None}, epoch : Nat, lost : BOOLEAN]

\* The types of the variables.
TypeOK ==
  /\ reg \in [Names -> RegRow \union {None}]
  /\ job \in [Jobs -> JobRow]
  /\ tx \in [Sessions -> TxRow]

ClaimsIn(jb, W) == {j \in Jobs : jb[j].st \in Active /\ jb[j].by \in W}

\* What the registration lock of the transaction t has established.
RegHeld(t, rg) ==
  /\ t.op = "idle" => t.names = {} /\ t.pc = "commit"
  /\ t.op = "trusted ack" => t.names = {}
  /\ t.op \in {"claim", "start", "ack", "heartbeat", "release"} =>
       /\ t.name \in Names
       /\ t.pc = "registration" => t.names = {}
       /\ t.pc # "registration" =>
            t.names = {t.name} /\ rg[t.name] # None /\ rg[t.name].token = t.token
  /\ t.op = "register" =>
       /\ t.name \in Names /\ t.token \in Tokens
       /\ t.pc = "registration" => t.names = {}
       /\ t.pc # "registration" =>
            /\ t.names = {t.name}
            /\ t.lost => rg[t.name] # None /\ rg[t.name].stale
            /\ ~t.lost => rg[t.name] = None \/ rg[t.name].token = t.token
  /\ t.op \in {"claim", "heartbeat", "release"} => t.token \in Tokens
  /\ t.op \in {"sweep", "prune"} =>
       /\ t.pc = "stale" => t.names = {}
       /\ \A w \in t.names : rg[w] # None /\ rg[w].stale

\* What the locks on task rows have established.
RowsHeld(t, jb) ==
  /\ t.op \in {"idle", "heartbeat", "prune"} => t.rows = {} /\ t.want = {}
  /\ t.op = "claim" =>
       /\ t.want = {} /\ \A j \in t.rows : jb[j].st = "waiting" /\ jb[j].epoch < MaxEpoch
       /\ t.pc # "commit" => t.rows = {}
  /\ t.op \in {"start", "ack", "trusted ack"} =>
       /\ t.want = {} /\ t.target \in Jobs
       /\ t.pc # "commit" => t.rows = {}
       /\ t.pc = "commit" =>
            /\ t.rows = {t.target}
            /\ jb[t.target].st \in Active
            /\ t.op = "start" => jb[t.target].st = "queued"
  /\ t.op = "sweep" => t.want = {} /\ t.rows \subseteq ClaimsIn(jb, t.names)
  /\ t.op \in {"register", "release"} =>
       /\ t.rows \subseteq ClaimsIn(jb, t.names)
       /\ \A i \in t.rows, j \in t.want : i < j
       /\ t.pc = "registration" => t.rows = {} /\ t.want = {}
       /\ t.pc = "scan" => t.rows = {} /\ t.want = {}
       /\ t.op = "release" /\ t.pc # "registration" => t.lost
       /\ t.pc = "commit" /\ t.lost => ClaimsIn(jb, t.names) \subseteq t.rows \union t.want
       /\ t.pc = "commit" /\ ~t.lost => t.rows = {} /\ t.want = {}

\* Each operation is at one of its own statements.
PcOK(t) ==
  /\ t.op = "claim" => t.pc \in {"registration", "pick", "commit"}
  /\ t.op \in {"start", "ack"} => t.pc \in {"registration", "row", "commit"}
  /\ t.op = "trusted ack" => t.pc \in {"row", "commit"}
  /\ t.op = "heartbeat" => t.pc \in {"registration", "commit"}
  /\ t.op \in {"register", "release"} => t.pc \in {"registration", "scan", "commit"}
  /\ t.op = "sweep" => t.pc \in {"stale", "scan", "commit"}
  /\ t.op = "prune" => t.pc \in {"stale", "commit"}

\* The locks of two transactions agree, and the advisory lock of a
\* registration is held once.
PairOK(t, u) ==
  /\ \A w \in t.names : w \in u.names => ~Conflict(Mode(t.op), Mode(u.op))
  /\ t.rows \intersect u.rows = {}
  /\ t.op = "register" /\ u.op = "register" => t.name # u.name

\* The inductive invariant.
FenceInv ==
  /\ TypeOK
  /\ \A s \in Sessions : RegHeld(tx[s], reg) /\ RowsHeld(tx[s], job) /\ PcOK(tx[s])
  /\ \A s, r \in Sessions : s # r => PairOK(tx[s], tx[r])
  /\ ClaimsAreCurrent

-----------------------------------------------------------------------------
(* What an idle session, and two sessions, owe to the invariant. *)

\* A session without a transaction holds nothing.
LEMMA IdleHolds ==
  /\ Idle \in TxRow /\ PcOK(Idle)
  /\ \A rg, jb : RegHeld(Idle, rg) /\ RowsHeld(Idle, jb)
  /\ \A u : PairOK(Idle, u)
BY DEF Idle, TxRow, Statements, PcOK, RegHeld, RowsHeld, PairOK

\* The agreement of two transactions has no direction.
LEMMA PairSymmetric ==
  ASSUME NEW t, NEW u, PairOK(t, u)
  PROVE  PairOK(u, t)
BY DEF PairOK, Conflict

\* A step of one session preserves the invariant when its new transaction
\* fits the tables and the other transactions, and theirs fit the new tables.
LEMMA StepPreserves ==
  ASSUME FenceInv, NEW s \in Sessions, NEW t \in TxRow, tx' = [tx EXCEPT ![s] = t],
         reg' \in [Names -> RegRow \union {None}], job' \in [Jobs -> JobRow],
         ClaimsAreCurrent',
         RegHeld(t, reg'), RowsHeld(t, job'), PcOK(t),
         \A r \in Sessions : r # s =>
           PairOK(t, tx[r]) /\ RegHeld(tx[r], reg') /\ RowsHeld(tx[r], job')
  PROVE  FenceInv'
<1>1. /\ tx' \in [Sessions -> TxRow] /\ tx'[s] = t
      /\ \A r \in Sessions : r # s => tx'[r] = tx[r]
  BY DEF FenceInv, TypeOK
<1>2. TypeOK'
  BY <1>1 DEF TypeOK
<1>3. ASSUME NEW r \in Sessions
      PROVE  RegHeld(tx'[r], reg') /\ RowsHeld(tx'[r], job') /\ PcOK(tx'[r])
  BY <1>1 DEF FenceInv
<1>4. ASSUME NEW q \in Sessions, NEW r \in Sessions, q # r
      PROVE  PairOK(tx'[q], tx'[r])
  <2>1. CASE q = s
    BY <1>1, <1>4, <2>1
  <2>2. CASE r = s
    BY <1>1, <1>4, <2>2, PairSymmetric
  <2>3. CASE q # s /\ r # s
    BY <1>1, <1>4, <2>3 DEF FenceInv
  <2> QED BY <2>1, <2>2, <2>3
<1> QED BY <1>2, <1>3, <1>4 DEF FenceInv

\* A step that changes no table keeps what the others know.
LEMMA LockPreserves ==
  ASSUME FenceInv, NEW s \in Sessions, NEW t \in TxRow, tx' = [tx EXCEPT ![s] = t],
         UNCHANGED <<reg, job>>,
         RegHeld(t, reg), RowsHeld(t, job), PcOK(t),
         \A r \in Sessions : r # s => PairOK(t, tx[r])
  PROVE  FenceInv'
<1>1. reg' = reg /\ job' = job /\ ClaimsAreCurrent'
  BY DEF FenceInv, ClaimsAreCurrent
<1>2. reg' \in [Names -> RegRow \union {None}] /\ job' \in [Jobs -> JobRow]
  BY <1>1 DEF FenceInv, TypeOK
<1>3. \A r \in Sessions : RegHeld(tx[r], reg') /\ RowsHeld(tx[r], job')
  BY <1>1 DEF FenceInv
<1> QED BY <1>1, <1>2, <1>3, StepPreserves

\* A transaction that ends without effect.
LEMMA EndPreserves ==
  ASSUME FenceInv, NEW s \in Sessions, EndTx(s), UNCHANGED <<reg, job>>
  PROVE  FenceInv'
BY IdleHolds, LockPreserves DEF EndTx

\* A transaction that holds nothing yet agrees with every other, unless both
\* register one name.
LEMMA FreshPair ==
  ASSUME NEW t, NEW u, t.names = {}, t.rows = {},
         t.op = "register" /\ u.op = "register" => t.name # u.name
  PROVE  PairOK(t, u)
BY DEF PairOK

-----------------------------------------------------------------------------
(* A transaction begins. *)

\* A new transaction holds nothing and knows only what it was called with.
LEMMA BeginInv ==
  ASSUME FenceInv, NEW s \in Sessions, BeginTx(s)
  PROVE  FenceInv'
<1>1. ASSUME NEW op \in {"claim", "heartbeat", "release"}, NEW w \in Names, NEW t \in Tokens,
             BeginOwn(s, op, w, t)
      PROVE  FenceInv'
  <2> DEFINE u == [Idle EXCEPT !.op = op, !.name = w, !.token = t, !.pc = Following(op, "begin")]
  <2>1. /\ u \in TxRow /\ u.op = op /\ u.name = w /\ u.token = t /\ u.pc = "registration"
        /\ u.names = {} /\ u.rows = {} /\ u.want = {}
    BY DEF Idle, TxRow, Ops, Statements, Following
  <2> HIDE DEF u
  <2>2. RegHeld(u, reg) /\ RowsHeld(u, job) /\ PcOK(u)
    BY <2>1 DEF RegHeld, RowsHeld, PcOK
  <2>3. \A r \in Sessions : PairOK(u, tx[r])
    BY <2>1, FreshPair
  <2>4. tx' = [tx EXCEPT ![s] = u] /\ UNCHANGED <<reg, job>>
    BY <1>1 DEF BeginOwn, u
  <2> QED BY <2>1, <2>2, <2>3, <2>4, LockPreserves
<1>2. ASSUME NEW w \in Names, NEW t \in Tokens, BeginRegister(s, w, t)
      PROVE  FenceInv'
  <2> DEFINE u == [Idle EXCEPT !.op = "register", !.name = w, !.token = t,
                               !.pc = Following("register", "begin")]
  <2>1. /\ u \in TxRow /\ u.op = "register" /\ u.name = w /\ u.token = t
        /\ u.pc = "registration" /\ u.names = {} /\ u.rows = {} /\ u.want = {}
    BY DEF Idle, TxRow, Ops, Statements, Following
  <2> HIDE DEF u
  <2>2. RegHeld(u, reg) /\ RowsHeld(u, job) /\ PcOK(u)
    BY <2>1 DEF RegHeld, RowsHeld, PcOK
  <2>3. \A r \in Sessions : PairOK(u, tx[r])
    BY <1>2, <2>1, FreshPair DEF BeginRegister
  <2>4. tx' = [tx EXCEPT ![s] = u] /\ UNCHANGED <<reg, job>>
    BY <1>2 DEF BeginRegister, u
  <2> QED BY <2>1, <2>2, <2>3, <2>4, LockPreserves
<1>3. ASSUME NEW op \in {"start", "ack", "trusted ack"}, NEW j \in Jobs, BeginTask(s, op, j)
      PROVE  FenceInv'
  <2> DEFINE u == [Idle EXCEPT !.op = op, !.name = job[j].by,
                               !.token = IF op = "trusted ack" THEN None ELSE job[j].tok,
                               !.target = j, !.epoch = job[j].epoch, !.pc = Following(op, "begin")]
  <2>1. job[j] \in JobRow /\ job[j].by \in Names
    BY <1>3 DEF FenceInv, TypeOK, ClaimsAreCurrent, BeginTask
  <2>2. /\ u \in TxRow /\ u.op = op /\ u.name = job[j].by /\ u.target = j
        /\ u.pc = IF op = "trusted ack" THEN "row" ELSE "registration"
        /\ u.names = {} /\ u.rows = {} /\ u.want = {}
    <3>1. Following(op, "begin") = IF op = "trusted ack" THEN "row" ELSE "registration"
      BY DEF Following
    <3>2. /\ u.op = op /\ u.name = job[j].by /\ u.target = j /\ u.names = {}
          /\ u.pc = Following(op, "begin") /\ u.rows = {} /\ u.want = {}
      BY DEF Idle
    <3>3. u \in TxRow
      BY <2>1, <3>1 DEF Idle, TxRow, JobRow, Ops, Statements
    <3> QED BY <3>1, <3>2, <3>3
  <2> HIDE DEF u
  <2>3. RegHeld(u, reg) /\ RowsHeld(u, job) /\ PcOK(u)
    BY <2>1, <2>2 DEF RegHeld, RowsHeld, PcOK
  <2>4. \A r \in Sessions : PairOK(u, tx[r])
    BY <2>2, FreshPair
  <2>5. tx' = [tx EXCEPT ![s] = u] /\ UNCHANGED <<reg, job>>
    BY <1>3 DEF BeginTask, u
  <2> QED BY <2>2, <2>3, <2>4, <2>5, LockPreserves
<1>4. ASSUME NEW op \in {"sweep", "prune"}, BeginBatch(s, op)
      PROVE  FenceInv'
  <2> DEFINE u == [Idle EXCEPT !.op = op, !.pc = Following(op, "begin")]
  <2>1. /\ u \in TxRow /\ u.op = op /\ u.pc = "stale"
        /\ u.names = {} /\ u.rows = {} /\ u.want = {}
    BY DEF Idle, TxRow, Ops, Statements, Following
  <2> HIDE DEF u
  <2>2. RegHeld(u, reg) /\ RowsHeld(u, job) /\ PcOK(u)
    BY <2>1 DEF RegHeld, RowsHeld, PcOK
  <2>3. \A r \in Sessions : PairOK(u, tx[r])
    BY <2>1, FreshPair
  <2>4. tx' = [tx EXCEPT ![s] = u] /\ UNCHANGED <<reg, job>>
    BY <1>4 DEF BeginBatch, u
  <2> QED BY <2>1, <2>2, <2>3, <2>4, LockPreserves
<1> QED BY <1>1, <1>2, <1>3, <1>4 DEF BeginTx

-----------------------------------------------------------------------------
(* A transaction takes the registration. *)

\* Registrations are locked only when no other transaction refuses the mode.
LEMMA NamesGranted ==
  ASSUME FenceInv, NEW s \in Sessions, NEW u,
         u.op = tx[s].op, u.name = tx[s].name, u.rows = tx[s].rows,
         \A w \in u.names : Holders(s, w, Mode(tx[s].op)) = {}
  PROVE  \A r \in Sessions : r # s => PairOK(u, tx[r])
<1> SUFFICES ASSUME NEW r \in Sessions, r # s PROVE PairOK(u, tx[r])
  OBVIOUS
<1>1. PairOK(tx[s], tx[r])
  BY DEF FenceInv
<1>2. ASSUME NEW w \in u.names, w \in tx[r].names
      PROVE  ~Conflict(Mode(u.op), Mode(tx[r].op))
  BY <1>2 DEF Holders
<1> QED BY <1>1, <1>2 DEF PairOK

\* Task rows are locked only when no other transaction holds them.
LEMMA RowsGranted ==
  ASSUME FenceInv, NEW s \in Sessions, NEW u,
         u.op = tx[s].op, u.name = tx[s].name, u.names = tx[s].names,
         \A j \in u.rows : j \in tx[s].rows \/ RowHolders(s, j) = {}
  PROVE  \A r \in Sessions : r # s => PairOK(u, tx[r])
<1> SUFFICES ASSUME NEW r \in Sessions, r # s PROVE PairOK(u, tx[r])
  OBVIOUS
<1>1. PairOK(tx[s], tx[r])
  BY DEF FenceInv
<1>2. ASSUME NEW j \in u.rows PROVE j \notin tx[r].rows
  BY <1>1, <1>2 DEF RowHolders, PairOK
<1> QED BY <1>1, <1>2 DEF PairOK

\* claim, start, acknowledgement, heartbeat and release take their registration.
LEMMA LockOwnInv ==
  ASSUME FenceInv, NEW s \in Sessions, LockOwn(s)
  PROVE  FenceInv'
<1> DEFINE w == tx[s].name
           current == reg[w] # None /\ reg[w].token = tx[s].token
           b == tx[s].op = "release"
           u == [Held(s, w) EXCEPT !.lost = b]
<1>1. /\ AtStatement(s, "registration") /\ tx[s].op # "register" /\ Holders(s, w, Mode(tx[s].op)) = {}
      /\ UNCHANGED <<reg, job>>
  BY DEF LockOwn
<1>2. tx[s] \in TxRow /\ RegHeld(tx[s], reg) /\ RowsHeld(tx[s], job) /\ PcOK(tx[s])
  BY DEF FenceInv, TypeOK
<1>3. /\ tx[s].op \in {"claim", "start", "ack", "heartbeat", "release"}
      /\ w \in Names /\ tx[s].pc = "registration"
  BY <1>1, <1>2 DEF AtStatement, PcOK, RegHeld, TxRow, Ops
<1>4. CASE ~current
  BY <1>1, <1>4, EndPreserves DEF LockOwn
<1>5. CASE current
  <2>1. tx' = [tx EXCEPT ![s] = u]
    BY <1>5 DEF LockOwn
  <2>2. /\ u \in TxRow /\ u.op = tx[s].op /\ u.name = tx[s].name /\ u.token = tx[s].token
        /\ u.names = {w} /\ u.rows = tx[s].rows /\ u.want = tx[s].want
        /\ u.target = tx[s].target /\ u.lost = b
        /\ u.pc = Following(tx[s].op, "registration")
    <3>1. Following(tx[s].op, "registration") \in Statements
      BY DEF Following, Statements
    <3> QED BY <1>2, <1>3, <3>1 DEF Held, TxRow
  <2> HIDE DEF u
  <2>3. u.pc = CASE tx[s].op = "claim" -> "pick"
                 [] tx[s].op \in {"start", "ack"} -> "row"
                 [] tx[s].op = "release" -> "scan"
                 [] tx[s].op = "heartbeat" -> "commit"
    BY <1>3, <2>2 DEF Following
  <2>4. RegHeld(u, reg)
    BY <1>2, <1>3, <1>5, <2>2, <2>3 DEF RegHeld
  <2>5. RowsHeld(u, job)
    BY <1>2, <1>3, <2>2, <2>3 DEF RowsHeld
  <2>6. PcOK(u)
    BY <1>3, <2>2, <2>3 DEF PcOK
  <2>7. \A r \in Sessions : r # s => PairOK(u, tx[r])
    BY <1>1, <2>2, NamesGranted
  <2> QED BY <1>1, <2>1, <2>2, <2>4, <2>5, <2>6, <2>7, LockPreserves
<1> QED BY <1>4, <1>5

\* A registration finds its name free, its own or stale.
LEMMA LockRegisterInv ==
  ASSUME FenceInv, NEW s \in Sessions, LockRegister(s)
  PROVE  FenceInv'
<1> DEFINE w == tx[s].name
           allowed == reg[w] = None \/ reg[w].token = tx[s].token \/ reg[w].stale
           b == reg[w] # None /\ (reg[w].token # tx[s].token \/ reg[w].stale)
           u == [Held(s, w) EXCEPT !.lost = b]
<1>1. /\ AtStatement(s, "registration") /\ tx[s].op = "register" /\ Holders(s, w, "update") = {}
      /\ UNCHANGED <<reg, job>>
  BY DEF LockRegister
<1>2. tx[s] \in TxRow /\ RegHeld(tx[s], reg) /\ RowsHeld(tx[s], job) /\ tx[s].pc = "registration"
  BY <1>1 DEF FenceInv, TypeOK, AtStatement
<1>3. w \in Names /\ tx[s].token \in Tokens /\ Mode(tx[s].op) = "update"
  BY <1>1, <1>2 DEF RegHeld, Mode
<1>4. CASE ~allowed
  BY <1>1, <1>4, EndPreserves DEF LockRegister
<1>5. CASE allowed
  <2>1. tx' = [tx EXCEPT ![s] = u]
    BY <1>5 DEF LockRegister
  <2>2. Following(tx[s].op, "registration") \in Statements
    BY DEF Following, Statements
  <2>3. /\ u \in TxRow /\ u.op = tx[s].op /\ u.name = tx[s].name /\ u.token = tx[s].token
        /\ u.names = {w} /\ u.rows = tx[s].rows /\ u.want = tx[s].want
        /\ u.target = tx[s].target /\ u.lost = b
        /\ u.pc = Following(tx[s].op, "registration")
    BY <1>2, <1>3, <2>2 DEF Held, TxRow
  <2>4. u.pc = "scan"
    BY <1>1, <2>3 DEF Following
  <2> HIDE DEF u
  <2>5. RegHeld(u, reg)
    BY <1>1, <1>3, <1>5, <2>3, <2>4 DEF RegHeld
  <2>6. RowsHeld(u, job) /\ PcOK(u)
    BY <1>1, <1>2, <2>3, <2>4 DEF RowsHeld, PcOK
  <2>7. \A r \in Sessions : r # s => PairOK(u, tx[r])
    BY <1>1, <1>3, <2>3, NamesGranted
  <2> QED BY <1>1, <2>1, <2>3, <2>5, <2>6, <2>7, LockPreserves
<1> QED BY <1>4, <1>5

\* A batch takes the stale registrations that no one holds.
LEMMA LockStaleInv ==
  ASSUME FenceInv, NEW s \in Sessions, LockStale(s)
  PROVE  FenceInv'
<1> DEFINE free  == {w \in Names : reg[w] # None /\ reg[w].stale /\ Holders(s, w, "update") = {}}
           named == {w \in free : \E j \in Jobs : job[j].by = w}
           owner == {w \in free : \E j \in Jobs : job[j].by = w /\ job[j].st \in Active}
           W == IF tx[s].op = "sweep" THEN owner ELSE free \ named
           u == [tx[s] EXCEPT !.names = W, !.lost = TRUE, !.pc = Following(tx[s].op, tx[s].pc)]
<1>1. /\ AtStatement(s, "stale") /\ UNCHANGED <<reg, job>>
      /\ tx' = [tx EXCEPT ![s] = u]
  BY DEF LockStale
<1>2. tx[s] \in TxRow /\ RegHeld(tx[s], reg) /\ RowsHeld(tx[s], job) /\ PcOK(tx[s]) /\ tx[s].pc = "stale"
  BY <1>1 DEF FenceInv, TypeOK, AtStatement
<1>3. tx[s].op \in {"sweep", "prune"} /\ Mode(tx[s].op) = "update"
  BY <1>1, <1>2 DEF AtStatement, PcOK, TxRow, Ops, Mode
<1>4. Following(tx[s].op, tx[s].pc) = IF tx[s].op = "sweep" THEN "scan" ELSE "commit"
  BY <1>2, <1>3 DEF Following
<1>5. W \subseteq free
  OBVIOUS
<1>6. /\ u \in TxRow /\ u.op = tx[s].op /\ u.name = tx[s].name /\ u.names = W
      /\ u.rows = tx[s].rows /\ u.want = tx[s].want
      /\ u.pc = IF tx[s].op = "sweep" THEN "scan" ELSE "commit"
  BY <1>2, <1>3, <1>4, <1>5 DEF TxRow, Statements
<1> HIDE DEF u, W
<1>7. RegHeld(u, reg)
  BY <1>3, <1>5, <1>6 DEF RegHeld
<1>8. RowsHeld(u, job) /\ PcOK(u)
  <2>1. tx[s].names = {} /\ tx[s].want = {} /\ tx[s].rows = {}
    BY <1>2, <1>3 DEF RegHeld, RowsHeld, ClaimsIn
  <2> QED BY <1>3, <1>6, <2>1 DEF RowsHeld, PcOK
<1>9. \A r \in Sessions : r # s => PairOK(u, tx[r])
  BY <1>3, <1>5, <1>6, NamesGranted
<1> QED BY <1>1, <1>6, <1>7, <1>8, <1>9, LockPreserves

-----------------------------------------------------------------------------
(* A transaction takes task rows. *)

\* A fetch locks waiting rows that no one holds.
LEMMA PickRowsInv ==
  ASSUME FenceInv, NEW s \in Sessions, NEW J \in SUBSET Jobs, PickRows(s, J)
  PROVE  FenceInv'
<1> DEFINE u == [tx[s] EXCEPT !.rows = J, !.pc = "commit"]
<1>1. /\ AtStatement(s, "pick") /\ UNCHANGED <<reg, job>> /\ tx' = [tx EXCEPT ![s] = u]
      /\ \A j \in J : job[j].st = "waiting" /\ RowHolders(s, j) = {} /\ job[j].epoch < MaxEpoch
  BY DEF PickRows
<1>2. tx[s] \in TxRow /\ RegHeld(tx[s], reg) /\ RowsHeld(tx[s], job) /\ PcOK(tx[s])
  BY DEF FenceInv, TypeOK
<1>3. tx[s].op = "claim" /\ tx[s].pc = "pick"
  BY <1>1, <1>2 DEF AtStatement, PcOK, TxRow, Ops
<1>4. /\ u \in TxRow /\ u.op = "claim" /\ u.name = tx[s].name /\ u.token = tx[s].token
      /\ u.names = tx[s].names /\ u.rows = J /\ u.want = tx[s].want /\ u.pc = "commit"
  BY <1>2, <1>3 DEF TxRow, Statements
<1> HIDE DEF u
<1>5. RegHeld(u, reg) /\ PcOK(u)
  BY <1>2, <1>3, <1>4 DEF RegHeld, PcOK
<1>6. RowsHeld(u, job)
  BY <1>1, <1>2, <1>3, <1>4 DEF RowsHeld
<1>7. \A r \in Sessions : r # s => PairOK(u, tx[r])
  BY <1>1, <1>3, <1>4, RowsGranted
<1> QED BY <1>1, <1>4, <1>5, <1>6, <1>7, LockPreserves

\* A start or an acknowledgement takes its row if the claim is still there.
LEMMA LockTaskInv ==
  ASSUME FenceInv, NEW s \in Sessions, LockTask(s)
  PROVE  FenceInv'
<1> DEFINE j == tx[s].target
           matches == /\ job[j].by = tx[s].name /\ job[j].epoch = tx[s].epoch
                      /\ job[j].st \in IF tx[s].op = "start" THEN {"queued"} ELSE Active
           u == [tx[s] EXCEPT !.rows = {j}, !.pc = Following(tx[s].op, tx[s].pc)]
<1>1. AtStatement(s, "row") /\ RowHolders(s, j) = {} /\ UNCHANGED <<reg, job>>
  BY DEF LockTask
<1>2. tx[s] \in TxRow /\ RegHeld(tx[s], reg) /\ RowsHeld(tx[s], job) /\ PcOK(tx[s])
  BY DEF FenceInv, TypeOK
<1>3. tx[s].op \in {"start", "ack", "trusted ack"} /\ tx[s].pc = "row" /\ j \in Jobs
  BY <1>1, <1>2 DEF AtStatement, PcOK, RowsHeld, TxRow, Ops
<1>4. CASE ~matches
  BY <1>1, <1>4, EndPreserves DEF LockTask
<1>5. CASE matches
  <2>1. tx' = [tx EXCEPT ![s] = u]
    BY <1>5 DEF LockTask
  <2>2. Following(tx[s].op, tx[s].pc) = "commit"
    BY <1>3 DEF Following
  <2>3. /\ u \in TxRow /\ u.op = tx[s].op /\ u.name = tx[s].name /\ u.token = tx[s].token
        /\ u.names = tx[s].names /\ u.rows = {j} /\ u.want = tx[s].want /\ u.target = j
        /\ u.pc = "commit"
    BY <1>2, <1>3, <2>2 DEF TxRow, Statements
  <2> HIDE DEF u
  <2>4. RegHeld(u, reg) /\ PcOK(u)
    BY <1>2, <1>3, <2>3 DEF RegHeld, PcOK
  <2>5. RowsHeld(u, job)
    BY <1>2, <1>3, <1>5, <2>3 DEF RowsHeld, Active
  <2>6. \A r \in Sessions : r # s => PairOK(u, tx[r])
    BY <1>1, <2>3, RowsGranted
  <2> QED BY <1>1, <2>1, <2>3, <2>4, <2>5, <2>6, LockPreserves
<1> QED BY <1>4, <1>5

\* A recovery sees every claim of the names it holds, since no claim of such a
\* name can be on its way; a sweep takes those that no one holds.
LEMMA ScanInv ==
  ASSUME FenceInv, NEW s \in Sessions, Scan(s)
  PROVE  FenceInv'
<1> DEFINE want == IF tx[s].op = "sweep" THEN {} ELSE Candidates(s)
           rows == IF tx[s].op = "sweep" THEN Candidates(s) ELSE {}
           u == [tx[s] EXCEPT !.pc = "commit", !.want = want, !.rows = rows]
<1>1. AtStatement(s, "scan") /\ UNCHANGED <<reg, job>> /\ tx' = [tx EXCEPT ![s] = u]
  BY DEF Scan
<1>2. tx[s] \in TxRow /\ RegHeld(tx[s], reg) /\ RowsHeld(tx[s], job) /\ PcOK(tx[s])
  BY DEF FenceInv, TypeOK
<1>3. tx[s].op \in {"register", "release", "sweep"} /\ tx[s].pc = "scan"
  BY <1>1, <1>2 DEF AtStatement, PcOK, TxRow, Ops
<1>4. /\ Candidates(s) \subseteq ClaimsIn(job, tx[s].names)
      /\ tx[s].op = "sweep" => \A j \in Candidates(s) : RowHolders(s, j) = {}
      /\ tx[s].op # "sweep" => Candidates(s) = IF tx[s].lost THEN ClaimsIn(job, tx[s].names) ELSE {}
  BY DEF Candidates, Claims, ClaimsIn
<1>5. ClaimsIn(job, tx[s].names) \subseteq Jobs
  BY DEF ClaimsIn
<1>6. /\ u \in TxRow /\ u.op = tx[s].op /\ u.name = tx[s].name /\ u.token = tx[s].token
      /\ u.names = tx[s].names /\ u.rows = rows /\ u.want = want /\ u.lost = tx[s].lost
      /\ u.pc = "commit"
  BY <1>2, <1>3, <1>4, <1>5 DEF TxRow, Statements
<1> HIDE DEF u
<1>7. RegHeld(u, reg) /\ PcOK(u)
  BY <1>2, <1>3, <1>6 DEF RegHeld, PcOK
<1>8. RowsHeld(u, job)
  BY <1>2, <1>3, <1>4, <1>6 DEF RowsHeld
<1>9. \A r \in Sessions : r # s => PairOK(u, tx[r])
  BY <1>4, <1>6, RowsGranted
<1> QED BY <1>1, <1>6, <1>7, <1>8, <1>9, LockPreserves

\* A recovery locks its candidates in order, and keeps those that are claims still.
LEMMA LockCandidateInv ==
  ASSUME FenceInv, NEW s \in Sessions, LockCandidate(s)
  PROVE  FenceInv'
<1>1. PICK j \in tx[s].want :
        /\ \A i \in tx[s].want : j <= i
        /\ RowHolders(s, j) = {}
        /\ tx' = [tx EXCEPT ![s] =
             [tx[s] EXCEPT !.want = tx[s].want \ {j},
                           !.rows = tx[s].rows \union ({j} \intersect Claims(tx[s].names))]]
        /\ UNCHANGED <<reg, job>>
  BY DEF LockCandidate
<1> DEFINE rows == tx[s].rows \union ({j} \intersect Claims(tx[s].names))
           u == [tx[s] EXCEPT !.want = tx[s].want \ {j}, !.rows = rows]
<1>2. tx[s] \in TxRow /\ RegHeld(tx[s], reg) /\ RowsHeld(tx[s], job) /\ PcOK(tx[s])
  BY DEF FenceInv, TypeOK
<1>3. tx[s].op \in {"register", "release"} /\ tx[s].pc = "commit" /\ tx[s].lost
  BY <1>1, <1>2 DEF PcOK, RowsHeld, TxRow, Ops
<1>4. tx[s].want \subseteq Jobs /\ Claims(tx[s].names) = ClaimsIn(job, tx[s].names)
  BY <1>2 DEF TxRow, Claims, ClaimsIn
<1>5. /\ u \in TxRow /\ u.op = tx[s].op /\ u.name = tx[s].name /\ u.token = tx[s].token
      /\ u.names = tx[s].names /\ u.rows = rows /\ u.want = tx[s].want \ {j}
      /\ u.lost = tx[s].lost /\ u.pc = "commit"
  BY <1>1, <1>2, <1>3, <1>4 DEF TxRow
<1>6. tx' = [tx EXCEPT ![s] = u]
  BY <1>1
<1> HIDE DEF u
<1>7. RegHeld(u, reg) /\ PcOK(u)
  BY <1>2, <1>3, <1>5 DEF RegHeld, PcOK
<1>8. \A i \in u.rows, k \in u.want : i < k
  <2>1. \A i \in tx[s].rows, k \in tx[s].want : i < k
    BY <1>2, <1>3 DEF RowsHeld
  <2>2. tx[s].want \subseteq Nat
    BY <1>4, FenceAssumption
  <2>3. \A k \in tx[s].want \ {j} : j < k
    BY <1>1, <2>2
  <2> QED BY <1>5, <2>1, <2>3
<1>9. RowsHeld(u, job)
  BY <1>2, <1>3, <1>4, <1>5, <1>8 DEF RowsHeld
<1>10. \A r \in Sessions : r # s => PairOK(u, tx[r])
  BY <1>1, <1>5, RowsGranted
<1> QED BY <1>1, <1>5, <1>6, <1>7, <1>9, <1>10, LockPreserves

-----------------------------------------------------------------------------
(* A transaction commits. *)

\* What another transaction knows of task rows survives a commit: the commit
\* writes only rows it holds, and makes claims only of a name it holds, which
\* a recovery of that name excludes.
LEMMA JobStable ==
  ASSUME FenceInv, NEW s \in Sessions, NEW r \in Sessions, r # s,
         \A j \in Jobs \ tx[s].rows : job'[j] = job[j],
         \A j \in tx[s].rows : job'[j].st \in Active =>
           \/ job[j].st \in Active /\ job'[j].by = job[j].by
           \/ job'[j].by \in tx[s].names
  PROVE  RowsHeld(tx[r], job')
<1> DEFINE t == tx[r]
<1>1. t \in TxRow /\ RegHeld(t, reg) /\ RowsHeld(t, job) /\ PcOK(t) /\ PairOK(tx[s], t)
  BY DEF FenceInv, TypeOK
<1>2. t.rows \subseteq Jobs /\ \A j \in t.rows : job'[j] = job[j]
  BY <1>1 DEF TxRow, PairOK
<1>3. t.rows \subseteq ClaimsIn(job, t.names) => t.rows \subseteq ClaimsIn(job', t.names)
  BY <1>2 DEF ClaimsIn
<1>4. ASSUME t.op \in {"register", "release"}
      PROVE  ClaimsIn(job', t.names) \subseteq ClaimsIn(job, t.names)
  <2>1. Mode(t.op) = "update"
    BY <1>4 DEF Mode
  <2>2. tx[s].names \intersect t.names = {}
    BY <1>1, <2>1 DEF PairOK, Conflict
  <2>3. ASSUME NEW j \in ClaimsIn(job', t.names) PROVE j \in ClaimsIn(job, t.names)
    <3>1. j \in Jobs /\ job'[j].st \in Active /\ job'[j].by \in t.names
      BY <2>3 DEF ClaimsIn
    <3>2. CASE j \in tx[s].rows
      BY <2>2, <3>1, <3>2 DEF ClaimsIn
    <3>3. CASE j \notin tx[s].rows
      BY <3>1, <3>3 DEF ClaimsIn
    <3> QED BY <3>2, <3>3
  <2> QED BY <2>3
<1>5. \A j \in t.rows : job'[j].st = job[j].st /\ job'[j].epoch = job[j].epoch
  BY <1>2
<1> HIDE DEF t
<1>6. RowsHeld(t, job')
  BY <1>1, <1>3, <1>4, <1>5 DEF RowsHeld
<1> QED BY <1>6 DEF t

\* What another transaction knows of its registrations survives a commit that
\* leaves them alone.
LEMMA RegStable ==
  ASSUME FenceInv, NEW r \in Sessions, \A w \in tx[r].names : reg'[w] = reg[w]
  PROVE  RegHeld(tx[r], reg')
<1> DEFINE t == tx[r]
<1>1. RegHeld(t, reg)
  BY DEF FenceInv
<1> HIDE DEF t
<1>2. \A w \in t.names : reg'[w] = reg[w]
  BY DEF t
<1>3. t.name \in t.names => reg'[t.name] = reg[t.name]
  BY <1>2
<1>4. RegHeld(t, reg')
  BY <1>1, <1>2, <1>3 DEF RegHeld
<1> QED BY <1>4 DEF t

\* A transaction that locks for update keeps the others off its registrations.
LEMMA Exclusive ==
  ASSUME FenceInv, NEW s \in Sessions, NEW r \in Sessions, r # s, Mode(tx[s].op) = "update"
  PROVE  tx[s].names \intersect tx[r].names = {}
<1>1. PairOK(tx[s], tx[r])
  BY DEF FenceInv
<1> QED BY <1>1 DEF PairOK, Conflict

\* The end of a commit: its session holds nothing any more.
LEMMA CommitPreserves ==
  ASSUME FenceInv, NEW s \in Sessions, EndTx(s),
         reg' \in [Names -> RegRow \union {None}], job' \in [Jobs -> JobRow],
         ClaimsAreCurrent',
         \A r \in Sessions : r # s => RegHeld(tx[r], reg') /\ RowsHeld(tx[r], job')
  PROVE  FenceInv'
BY IdleHolds, StepPreserves DEF EndTx

\* The new claims carry the token of the registration they hold.
LEMMA CommitClaimInv ==
  ASSUME FenceInv, NEW s \in Sessions, CommitClaim(s)
  PROVE  FenceInv'
<1> DEFINE new(j) == [st |-> "queued", by |-> tx[s].name, epoch |-> job[j].epoch + 1,
                      tok |-> tx[s].token]
<1>1. /\ tx[s].op = "claim" /\ tx[s].pc = "commit" /\ EndTx(s) /\ reg' = reg
      /\ job' = [j \in Jobs |-> IF j \in tx[s].rows THEN new(j) ELSE job[j]]
  BY DEF CommitClaim, Ready
<1>2. RegHeld(tx[s], reg) /\ tx[s] \in TxRow /\ TypeOK
  BY DEF FenceInv, TypeOK
<1>3. /\ tx[s].name \in Names /\ tx[s].token \in Tokens /\ tx[s].names = {tx[s].name}
      /\ reg[tx[s].name] # None /\ reg[tx[s].name].token = tx[s].token
  BY <1>1, <1>2 DEF RegHeld
<1>4. job' \in [Jobs -> JobRow]
  <2>1. \A j \in Jobs : new(j) \in JobRow /\ job[j] \in JobRow
    BY <1>2, <1>3 DEF TypeOK, JobRow
  <2> QED BY <1>1, <2>1
<1>5. ASSUME NEW j \in Jobs
      PROVE  /\ j \notin tx[s].rows => job'[j] = job[j]
             /\ j \in tx[s].rows => job'[j].by = tx[s].name /\ job'[j].tok = tx[s].token
  BY <1>1
<1>6. ClaimsAreCurrent'
  BY <1>1, <1>3, <1>5 DEF FenceInv, ClaimsAreCurrent
<1>7. \A r \in Sessions : r # s => RowsHeld(tx[r], job')
  <2>1. tx[s].rows \subseteq Jobs
    BY <1>2 DEF TxRow
  <2> QED BY <1>3, <1>5, <2>1, JobStable
<1>8. \A r \in Sessions : RegHeld(tx[r], reg')
  BY <1>1 DEF FenceInv
<1> QED BY <1>1, <1>2, <1>4, <1>6, <1>7, <1>8, CommitPreserves DEF TypeOK

\* A start or an acknowledgement changes the status of the one row it holds.
LEMMA CommitTaskInv ==
  ASSUME FenceInv, NEW s \in Sessions, CommitStart(s) \/ CommitAck(s)
  PROVE  FenceInv'
<1> DEFINE j == tx[s].target
<1>1. /\ tx[s].op \in {"start", "ack", "trusted ack"} /\ tx[s].pc = "commit" /\ EndTx(s) /\ reg' = reg
      /\ \E st \in {"running", "done"} : job' = [job EXCEPT ![j].st = st]
  BY DEF CommitStart, CommitAck, Ready
<1>2. RowsHeld(tx[s], job) /\ tx[s] \in TxRow /\ TypeOK
  BY DEF FenceInv, TypeOK
<1>3. j \in Jobs /\ tx[s].rows = {j} /\ job[j].st \in Active /\ job[j] \in JobRow
  BY <1>1, <1>2 DEF RowsHeld, TypeOK
<1>4. /\ job' \in [Jobs -> JobRow] /\ job'[j].by = job[j].by /\ job'[j].tok = job[j].tok
      /\ \A i \in Jobs : i # j => job'[i] = job[i]
  <2>1. PICK st \in {"running", "done"} : job' = [job EXCEPT ![j].st = st]
    BY <1>1
  <2>2. [job[j] EXCEPT !.st = st] \in JobRow
    BY <1>3 DEF JobRow
  <2>3. job' = [job EXCEPT ![j] = [job[j] EXCEPT !.st = st]]
    BY <2>1
  <2> QED BY <1>2, <1>3, <2>2, <2>3 DEF TypeOK, JobRow
<1> HIDE DEF j
<1>5. ClaimsAreCurrent'
  <2>1. ASSUME NEW i \in Jobs
        PROVE  /\ job'[i].st \in Active => job[i].st \in Active
               /\ job'[i].by = job[i].by /\ job'[i].tok = job[i].tok
    <3>1. CASE i = j
      BY <1>3, <1>4, <3>1
    <3>2. CASE i # j
      BY <1>4, <3>2
    <3> QED BY <3>1, <3>2
  <2>2. ASSUME NEW i \in Jobs, job'[i].st \in Active
        PROVE  /\ job[i].by \in Names /\ reg[job[i].by] # None
               /\ reg[job[i].by].token = job[i].tok
    BY <2>1, <2>2 DEF FenceInv, ClaimsAreCurrent
  <2>3. ASSUME NEW i \in Jobs, job'[i].st \in Active
        PROVE  /\ job'[i].by \in Names /\ reg'[job'[i].by] # None
               /\ reg'[job'[i].by].token = job'[i].tok
    BY <1>1, <2>1, <2>2, <2>3
  <2> QED BY <2>3 DEF ClaimsAreCurrent
<1>6. \A r \in Sessions : r # s => RowsHeld(tx[r], job')
  BY <1>3, <1>4, JobStable
<1>7. \A r \in Sessions : RegHeld(tx[r], reg')
  BY <1>1 DEF FenceInv
<1> QED BY <1>1, <1>2, <1>4, <1>5, <1>6, <1>7, CommitPreserves DEF TypeOK

\* A heartbeat keeps the token, which is all that the claims, the starts and
\* the acknowledgements beside it rely on.
LEMMA CommitHeartbeatInv ==
  ASSUME FenceInv, NEW s \in Sessions, CommitHeartbeat(s)
  PROVE  FenceInv'
<1> DEFINE w == tx[s].name
<1>1. /\ tx[s].op = "heartbeat" /\ tx[s].pc = "commit" /\ EndTx(s) /\ job' = job
      /\ reg' = [reg EXCEPT ![w].stale = FALSE]
  BY DEF CommitHeartbeat, Ready
<1>2. RegHeld(tx[s], reg) /\ tx[s] \in TxRow /\ TypeOK
  BY DEF FenceInv, TypeOK
<1>3. w \in Names /\ tx[s].names = {w} /\ reg[w] # None /\ reg[w] \in RegRow
  BY <1>1, <1>2 DEF RegHeld, TypeOK
<1>4. /\ reg' \in [Names -> RegRow \union {None}] /\ \A v \in Names : v # w => reg'[v] = reg[v]
      /\ reg'[w] # None /\ reg'[w].token = reg[w].token
  <2>1. [reg[w] EXCEPT !.stale = FALSE] \in RegRow
    BY <1>3 DEF RegRow
  <2>2. reg' = [reg EXCEPT ![w] = [reg[w] EXCEPT !.stale = FALSE]]
    BY <1>1
  <2>3. reg'[w] # None
    BY <1>2, <1>3, <2>1, <2>2, FenceAssumption DEF RegRow, TypeOK
  <2> QED BY <1>2, <1>3, <2>1, <2>2, <2>3 DEF TypeOK, RegRow
<1>5. ClaimsAreCurrent'
  BY <1>1, <1>3, <1>4 DEF FenceInv, ClaimsAreCurrent
<1>6. ASSUME NEW r \in Sessions, r # s PROVE RegHeld(tx[r], reg')
  <2>1. CASE w \notin tx[r].names
    <3>1. tx[r].names \subseteq Names
      BY DEF FenceInv, TypeOK, TxRow
    <3> QED BY <1>4, <2>1, <3>1, RegStable
  <2>2. CASE w \in tx[r].names
    <3>1. ~Conflict(Mode(tx[s].op), Mode(tx[r].op))
      BY <1>3, <1>6, <2>2 DEF FenceInv, PairOK
    <3>2. RegHeld(tx[r], reg) /\ tx[r] \in TxRow
      BY DEF FenceInv, TypeOK
    <3>3. tx[r].op \in {"claim", "start", "ack"}
      BY <1>1, <2>2, <3>1, <3>2 DEF Mode, Conflict, RegHeld, TxRow, Ops
    <3>4. tx[r].name = w /\ tx[r].pc # "registration"
      BY <2>2, <3>2, <3>3 DEF RegHeld
    <3> QED BY <1>4, <3>2, <3>3, <3>4 DEF RegHeld
  <2> QED BY <2>1, <2>2
<1>7. \A r \in Sessions : RowsHeld(tx[r], job')
  BY <1>1 DEF FenceInv
<1> QED BY <1>1, <1>2, <1>4, <1>5, <1>6, <1>7, CommitPreserves DEF TypeOK

\* Handing back the rows a recovery holds leaves no claim among them.
LEMMA HandBackSound ==
  ASSUME FenceInv, NEW s \in Sessions, NEW K, job' = HandBack(s, K)
  PROVE  /\ job' \in [Jobs -> JobRow]
         /\ \A j \in Jobs \ tx[s].rows : job'[j] = job[j]
         /\ \A j \in tx[s].rows : job'[j].st \notin Active
         /\ \A r \in Sessions : r # s => RowsHeld(tx[r], job')
<1> DEFINE back(j) == [job[j] EXCEPT !.st = IF j \in K THEN "done" ELSE "waiting",
                                     !.by = None, !.tok = None]
<1>1. /\ job' = [j \in Jobs |-> IF j \in tx[s].rows THEN back(j) ELSE job[j]]
      /\ tx[s].rows \subseteq Jobs
  BY DEF HandBack, FenceInv, TypeOK, TxRow
<1>2. \A j \in Jobs : job[j] \in JobRow
  BY DEF FenceInv, TypeOK
<1>3. ASSUME NEW j \in Jobs PROVE back(j) \in JobRow /\ back(j).st \notin Active
  <2>1. CASE j \in K
    BY <1>2, <2>1 DEF JobRow, Active
  <2>2. CASE j \notin K
    BY <1>2, <2>2 DEF JobRow, Active
  <2> QED BY <2>1, <2>2
<1> HIDE DEF back
<1>4. /\ job' \in [Jobs -> JobRow]
      /\ \A j \in Jobs \ tx[s].rows : job'[j] = job[j]
      /\ \A j \in tx[s].rows : job'[j].st \notin Active
  BY <1>1, <1>2, <1>3
<1> QED BY <1>4, JobStable

\* A commit that hands back the claims of the name it holds and then gives
\* that name a new registration: no claim of the old token is left.
LEMMA ReplaceInv ==
  ASSUME FenceInv, NEW s \in Sessions, NEW K, NEW v \in RegRow,
         tx[s].op \in {"register", "release"}, tx[s].pc = "commit", tx[s].want = {},
         tx[s].lost \/ reg[tx[s].name] = None \/ v.token = reg[tx[s].name].token,
         job' = HandBack(s, K), reg' = [reg EXCEPT ![tx[s].name] = v], EndTx(s)
  PROVE  FenceInv'
<1> DEFINE w == tx[s].name
<1>1. RegHeld(tx[s], reg) /\ RowsHeld(tx[s], job) /\ TypeOK
  BY DEF FenceInv
<1>2. w \in Names /\ tx[s].names = {w} /\ Mode(tx[s].op) = "update"
  BY <1>1 DEF RegHeld, Mode
<1>3. /\ reg' \in [Names -> RegRow \union {None}] /\ reg'[w] = v /\ v # None
      /\ \A x \in Names : x # w => reg'[x] = reg[x]
  BY <1>1, <1>2, FenceAssumption DEF TypeOK, RegRow
<1>4. /\ job' \in [Jobs -> JobRow]
      /\ \A j \in Jobs \ tx[s].rows : job'[j] = job[j]
      /\ \A j \in tx[s].rows : job'[j].st \notin Active
      /\ \A r \in Sessions : r # s => RowsHeld(tx[r], job')
  BY HandBackSound
<1>5. ASSUME NEW j \in Jobs, job'[j].st \in Active
      PROVE  job'[j].by \in Names /\ reg'[job'[j].by] # None /\ reg'[job'[j].by].token = job'[j].tok
  <2>1. j \notin tx[s].rows /\ job'[j] = job[j]
    BY <1>4, <1>5
  <2>2. job[j].by \in Names /\ reg[job[j].by] # None /\ reg[job[j].by].token = job[j].tok
    BY <1>5, <2>1 DEF FenceInv, ClaimsAreCurrent
  <2>3. CASE job[j].by # w
    BY <1>3, <2>1, <2>2, <2>3
  <2>4. CASE job[j].by = w
    <3>1. j \in ClaimsIn(job, tx[s].names)
      BY <1>2, <1>5, <2>1, <2>4 DEF ClaimsIn
    <3>2. ~tx[s].lost
      BY <1>1, <2>1, <3>1 DEF RowsHeld
    <3> QED BY <1>3, <2>1, <2>2, <2>4, <3>2
  <2> QED BY <2>3, <2>4
<1>6. ClaimsAreCurrent'
  BY <1>5 DEF ClaimsAreCurrent
<1>7. ASSUME NEW r \in Sessions, r # s PROVE RegHeld(tx[r], reg')
  <2>1. w \notin tx[r].names /\ tx[r].names \subseteq Names
    BY <1>2, <1>7, Exclusive DEF FenceInv, TypeOK, TxRow
  <2> QED BY <1>3, <2>1, RegStable
<1> QED BY <1>3, <1>4, <1>6, <1>7, CommitPreserves

\* A takeover, a reconfirmation or a first registration.
LEMMA CommitRegisterInv ==
  ASSUME FenceInv, NEW s \in Sessions, NEW K, CommitRegister(s, K)
  PROVE  FenceInv'
<1> DEFINE v == [token |-> tx[s].token, stale |-> FALSE]
<1>1. /\ tx[s].op = "register" /\ tx[s].pc = "commit" /\ tx[s].want = {} /\ EndTx(s)
      /\ job' = HandBack(s, K) /\ reg' = [reg EXCEPT ![tx[s].name] = v]
  BY DEF CommitRegister, Ready
<1>2. RegHeld(tx[s], reg)
  BY DEF FenceInv
<1>3. /\ v \in RegRow /\ v.token = tx[s].token
      /\ tx[s].lost \/ reg[tx[s].name] = None \/ reg[tx[s].name].token = tx[s].token
  BY <1>1, <1>2 DEF RegHeld, RegRow
<1> HIDE DEF v
<1> QED BY <1>1, <1>3, ReplaceInv

\* A release hands back every claim of its name.
LEMMA CommitReleaseInv ==
  ASSUME FenceInv, NEW s \in Sessions, NEW K, CommitRelease(s, K)
  PROVE  FenceInv'
<1> DEFINE v == [token |-> None, stale |-> TRUE]
<1>1. /\ tx[s].op = "release" /\ tx[s].pc = "commit" /\ tx[s].want = {} /\ EndTx(s)
      /\ job' = HandBack(s, K) /\ reg' = [reg EXCEPT ![tx[s].name] = v]
  BY DEF CommitRelease, Ready
<1>2. RowsHeld(tx[s], job)
  BY DEF FenceInv
<1>3. v \in RegRow /\ tx[s].lost
  BY <1>1, <1>2 DEF RowsHeld, RegRow
<1> HIDE DEF v
<1> QED BY <1>1, <1>3, ReplaceInv

\* A sweep hands back claims and leaves every registration alone.
LEMMA CommitSweepInv ==
  ASSUME FenceInv, NEW s \in Sessions, NEW K, CommitSweep(s, K)
  PROVE  FenceInv'
<1>1. EndTx(s) /\ job' = HandBack(s, K) /\ reg' = reg
  BY DEF CommitSweep
<1>2. /\ job' \in [Jobs -> JobRow]
      /\ \A j \in Jobs \ tx[s].rows : job'[j] = job[j]
      /\ \A j \in tx[s].rows : job'[j].st \notin Active
      /\ \A r \in Sessions : r # s => RowsHeld(tx[r], job')
  BY <1>1, HandBackSound
<1>3. ClaimsAreCurrent'
  BY <1>1, <1>2 DEF FenceInv, ClaimsAreCurrent
<1>4. \A r \in Sessions : RegHeld(tx[r], reg')
  BY <1>1 DEF FenceInv
<1> QED BY <1>1, <1>2, <1>3, <1>4, CommitPreserves DEF FenceInv, TypeOK

\* A prune removes registrations no row names.
LEMMA CommitPruneInv ==
  ASSUME FenceInv, NEW s \in Sessions, CommitPrune(s)
  PROVE  FenceInv'
<1>1. /\ tx[s].op = "prune" /\ EndTx(s) /\ job' = job
      /\ reg' = [w \in Names |-> IF w \in tx[s].names /\ \A j \in Jobs : job[j].by # w
                                 THEN None ELSE reg[w]]
  BY DEF CommitPrune, Ready
<1>2. reg' \in [Names -> RegRow \union {None}] /\ \A w \in Names \ tx[s].names : reg'[w] = reg[w]
  BY <1>1 DEF FenceInv, TypeOK
<1>3. ClaimsAreCurrent'
  BY <1>1 DEF FenceInv, ClaimsAreCurrent
<1>4. ASSUME NEW r \in Sessions, r # s PROVE RegHeld(tx[r], reg')
  <2>1. tx[s].names \intersect tx[r].names = {} /\ tx[r].names \subseteq Names
    BY <1>1, <1>4, Exclusive DEF Mode, FenceInv, TypeOK, TxRow
  <2> QED BY <1>2, <2>1, RegStable
<1>5. \A r \in Sessions : RowsHeld(tx[r], job')
  BY <1>1 DEF FenceInv
<1> QED BY <1>1, <1>2, <1>3, <1>4, <1>5, CommitPreserves DEF FenceInv, TypeOK

\* The deadline that passes makes a registration stale, and keeps its token.
LEMMA GoStaleInv ==
  ASSUME FenceInv, NEW w \in Names, GoStale(w)
  PROVE  FenceInv'
<1>1. /\ reg[w] # None /\ reg' = [reg EXCEPT ![w].stale = TRUE] /\ job' = job /\ tx' = tx
      /\ reg[w] \in RegRow
  BY DEF GoStale, FenceInv, TypeOK
<1>2. reg' = [reg EXCEPT ![w] = [reg[w] EXCEPT !.stale = TRUE]]
  BY <1>1
<1>3. [reg[w] EXCEPT !.stale = TRUE] \in RegRow
  BY <1>1 DEF RegRow
<1>4. /\ reg' \in [Names -> RegRow \union {None}] /\ reg'[w] # None /\ reg'[w].stale
      /\ reg'[w].token = reg[w].token /\ \A v \in Names : v # w => reg'[v] = reg[v]
  <2>1. reg'[w] # None
    BY <1>2, <1>3, FenceAssumption DEF RegRow, FenceInv, TypeOK
  <2> QED BY <1>1, <1>2, <1>3, <2>1 DEF FenceInv, TypeOK, RegRow
<1>5. TypeOK' /\ ClaimsAreCurrent'
  BY <1>1, <1>4 DEF FenceInv, TypeOK, ClaimsAreCurrent
<1>6. ASSUME NEW r \in Sessions PROVE RegHeld(tx[r], reg')
  <2> DEFINE t == tx[r]
  <2>1. RegHeld(t, reg) /\ t.names \subseteq Names
    BY DEF FenceInv, TypeOK, TxRow
  <2> HIDE DEF t
  <2>2. ASSUME NEW v \in t.names, reg[v] # None
        PROVE  reg'[v] # None /\ reg'[v].token = reg[v].token /\ (reg[v].stale => reg'[v].stale)
    BY <1>4, <2>1, <2>2
  <2>3. \A v \in t.names : reg[v] = None => reg'[v] = None
    BY <1>1, <1>4, <2>1
  <2>4. t.op \notin {"register", "sweep", "prune"} => RegHeld(t, reg')
    BY <2>1, <2>2 DEF RegHeld
  <2>5. t.op = "register" => RegHeld(t, reg')
    BY <2>1, <2>2, <2>3 DEF RegHeld
  <2>6. t.op \in {"sweep", "prune"} => RegHeld(t, reg')
    BY <2>1, <2>2 DEF RegHeld
  <2> QED BY <2>4, <2>5, <2>6 DEF t
<1> QED BY <1>1, <1>5, <1>6 DEF FenceInv

-----------------------------------------------------------------------------
(* The invariant, and what follows from it. *)

\* The inductive invariant holds in every state: no session, table or name is
\* involved at first, and every statement and every commit preserves it.
THEOREM FenceSafe == Spec => []FenceInv
<1>1. Init => FenceInv
  <2> SUFFICES ASSUME Init PROVE FenceInv
    OBVIOUS
  <2>1. TypeOK /\ ClaimsAreCurrent
    BY IdleHolds DEF Init, TypeOK, JobRow, ClaimsAreCurrent, Active
  <2>2. \A s \in Sessions : tx[s] = Idle
    BY DEF Init
  <2> QED BY <2>1, <2>2, IdleHolds DEF FenceInv
<1>2. ASSUME FenceInv, [Next]_vars PROVE FenceInv'
  <2>1. ASSUME NEW s \in Sessions, Step(s) PROVE FenceInv'
    BY <1>2, <2>1, LockOwnInv, LockRegisterInv, LockStaleInv, PickRowsInv, LockTaskInv, ScanInv,
       LockCandidateInv, CommitClaimInv, CommitTaskInv, CommitHeartbeatInv, CommitRegisterInv,
       CommitReleaseInv, CommitSweepInv, CommitPruneInv DEF Step
  <2>2. ASSUME NEW s \in Sessions, CutOff(s) PROVE FenceInv'
    BY <1>2, <2>2, EndPreserves DEF CutOff
  <2>3. CASE UNCHANGED vars
    BY <1>2, <2>3 DEF vars, FenceInv, TypeOK, ClaimsAreCurrent
  <2> QED BY <1>2, <2>1, <2>2, <2>3, BeginInv, GoStaleInv DEF Next
<1> QED BY <1>1, <1>2, PTL DEF Spec

\* Every active claim was made under the token its registration carries: the
\* fence of worker_registration and the recovery of register_worker_blocking
\* and release_worker_blocking leave no claim of an earlier token.
THEOREM ClaimsCurrent == Spec => []ClaimsAreCurrent
<1>1. FenceInv => ClaimsAreCurrent
  BY DEF FenceInv
<1> QED BY <1>1, FenceSafe, PTL

-----------------------------------------------------------------------------
(* Each transaction takes effect in one step. *)

\* Handing back the rows of a recovery is Ownership's HandBack of them.
LEMMA HandBackAtomic ==
  ASSUME FenceInv, NEW s \in Sessions, NEW K \in SUBSET tx[s].rows, job' = HandBack(s, K)
  PROVE  O!HandBack(tx[s].rows, K)
BY DEF HandBack, O!HandBack

\* A registration that its token confirms differs in nothing but its age.
LEMMA RenewedRow ==
  ASSUME NEW v \in RegRow, NEW c
  PROVE  [v EXCEPT !.stale = c] = [token |-> v.token, stale |-> c]
<1>1. v = [token |-> v.token, stale |-> v.stale]
  BY DEF RegRow
<1> QED BY <1>1

\* Each commit is one step of Ownership.
LEMMA CommitAtomic ==
  ASSUME FenceInv, NEW s \in Sessions, Step(s)
  PROVE  O!Next \/ UNCHANGED <<reg, job>>
<1> DEFINE w == tx[s].name
           t == tx[s].token
<1>1. /\ TypeOK /\ tx[s] \in TxRow /\ RegHeld(tx[s], reg) /\ RowsHeld(tx[s], job) /\ PcOK(tx[s])
      /\ ClaimsAreCurrent /\ tx[s].rows \in SUBSET Jobs /\ tx[s].names \in SUBSET Names
  BY DEF FenceInv, TypeOK, TxRow
<1>2. ClaimsIn(job, {w}) = O!Claims(w)
  BY DEF ClaimsIn, O!Claims, Active, O!Active
<1>3. CASE CommitClaim(s)
  <2>1. /\ tx[s].op = "claim" /\ tx[s].pc = "commit" /\ reg' = reg
        /\ job' = [j \in Jobs |-> IF j \in tx[s].rows
                     THEN [st |-> "queued", by |-> w, epoch |-> job[j].epoch + 1, tok |-> t]
                     ELSE job[j]]
    BY <1>3 DEF CommitClaim, Ready
  <2>2. w \in Names /\ t \in Tokens /\ O!Current(w, t)
    BY <1>1, <2>1 DEF RegHeld, O!Current
  <2>3. O!Claim(w, t, tx[s].rows)
    BY <1>1, <2>1, <2>2 DEF RowsHeld, O!Claim
  <2> QED BY <1>1, <2>2, <2>3 DEF O!Next
<1>4. CASE CommitStart(s)
  <2> DEFINE j == tx[s].target
  <2>1. /\ tx[s].op = "start" /\ tx[s].pc = "commit" /\ reg' = reg
        /\ job' = [job EXCEPT ![j].st = "running"]
    BY <1>4 DEF CommitStart, Ready
  <2>2. j \in Jobs /\ job[j].st = "queued"
    BY <1>1, <2>1 DEF RowsHeld
  <2>3. O!Current(job[j].by, job[j].tok)
    BY <1>1, <2>2 DEF ClaimsAreCurrent, Active, O!Current
  <2>4. O!Start(j)
    BY <2>1, <2>2, <2>3 DEF O!Start
  <2> QED BY <2>2, <2>4 DEF O!Next
<1>5. CASE CommitAck(s)
  <2> DEFINE j == tx[s].target
  <2>1. /\ tx[s].op \in {"ack", "trusted ack"} /\ tx[s].pc = "commit" /\ reg' = reg
        /\ job' = [job EXCEPT ![j].st = "done"]
    BY <1>5 DEF CommitAck, Ready
  <2>2. j \in Jobs /\ job[j].st \in Active
    BY <1>1, <2>1 DEF RowsHeld
  <2>3. O!Ack(j)
    BY <2>1, <2>2 DEF O!Ack, Active, O!Active
  <2> QED BY <2>2, <2>3 DEF O!Next
<1>6. CASE CommitHeartbeat(s)
  <2>1. /\ tx[s].op = "heartbeat" /\ tx[s].pc = "commit" /\ job' = job
        /\ reg' = [reg EXCEPT ![w].stale = FALSE]
    BY <1>6 DEF CommitHeartbeat, Ready
  <2>2. w \in Names /\ t \in Tokens /\ O!Current(w, t)
    BY <1>1, <2>1 DEF RegHeld, O!Current
  <2>3. O!Renew(w, t)
    BY <2>1, <2>2 DEF O!Renew
  <2> QED BY <2>2, <2>3 DEF O!Next
<1>7. ASSUME NEW K \in SUBSET tx[s].rows, CommitRegister(s, K)
      PROVE  O!Next
  <2>1. /\ tx[s].op = "register" /\ tx[s].pc = "commit" /\ tx[s].want = {}
        /\ reg' = [reg EXCEPT ![w] = [token |-> t, stale |-> FALSE]] /\ job' = HandBack(s, K)
    BY <1>7 DEF CommitRegister, Ready
  <2>2. /\ w \in Names /\ t \in Tokens /\ tx[s].names = {w}
        /\ tx[s].lost => reg[w] # None /\ reg[w].stale
        /\ ~tx[s].lost => reg[w] = None \/ reg[w].token = t
    BY <1>1, <2>1 DEF RegHeld
  <2>3. O!HandBack(tx[s].rows, K)
    BY <2>1, HandBackAtomic
  <2>4. CASE tx[s].lost
    <3>1. tx[s].rows = O!Claims(w)
      <4>1. tx[s].rows = ClaimsIn(job, tx[s].names)
        BY <1>1, <2>1, <2>4 DEF RowsHeld
      <4> QED BY <1>2, <2>2, <4>1
    <3>2. O!Register(w, t, K)
      BY <2>1, <2>2, <2>3, <2>4, <3>1 DEF O!Register
    <3> QED BY <2>2, <3>1, <3>2 DEF O!Next
  <2>5. CASE ~tx[s].lost
    <3>1. tx[s].rows = {} /\ K = {}
      BY <1>1, <2>1, <2>5 DEF RowsHeld
    <3>2. O!HandBack({}, {})
      BY <2>3, <3>1
    <3>3. CASE reg[w] = None
      <4>1. O!Register(w, t, {})
        BY <2>1, <2>2, <3>2, <3>3 DEF O!Register
      <4> QED BY <2>2, <4>1 DEF O!Next
    <3>4. CASE reg[w] # None
      <4>1. job' = job
        BY <1>1, <3>2 DEF O!HandBack, TypeOK
      <4>2. reg[w] \in RegRow /\ O!Current(w, t)
        BY <1>1, <2>2, <2>5, <3>4 DEF TypeOK, O!Current
      <4>3. [reg[w] EXCEPT !.stale = FALSE] = [token |-> t, stale |-> FALSE]
        BY <4>2, RenewedRow DEF O!Current
      <4>4. reg' = [reg EXCEPT ![w].stale = FALSE]
        BY <2>1, <4>3
      <4>5. O!Renew(w, t)
        BY <4>1, <4>2, <4>4 DEF O!Renew
      <4> QED BY <2>2, <4>5 DEF O!Next
    <3> QED BY <3>3, <3>4
  <2> QED BY <2>4, <2>5
<1>8. ASSUME NEW K \in SUBSET tx[s].rows, CommitRelease(s, K)
      PROVE  O!Next
  <2>1. /\ tx[s].op = "release" /\ tx[s].pc = "commit" /\ tx[s].want = {}
        /\ reg' = [reg EXCEPT ![w] = [token |-> None, stale |-> TRUE]] /\ job' = HandBack(s, K)
    BY <1>8 DEF CommitRelease, Ready
  <2>2. w \in Names /\ t \in Tokens /\ tx[s].names = {w} /\ O!Current(w, t) /\ tx[s].lost
    BY <1>1, <2>1 DEF RegHeld, RowsHeld, O!Current
  <2>3. tx[s].rows = O!Claims(w)
    <3>1. tx[s].rows = ClaimsIn(job, tx[s].names)
      BY <1>1, <2>1, <2>2 DEF RowsHeld
    <3> QED BY <1>2, <2>2, <3>1
  <2>4. O!Release(w, t, K)
    BY <2>1, <2>2, <2>3, HandBackAtomic DEF O!Release
  <2> QED BY <2>2, <2>3, <2>4 DEF O!Next
<1>9. ASSUME NEW K \in SUBSET tx[s].rows, CommitSweep(s, K)
      PROVE  O!Next
  <2>1. tx[s].op = "sweep" /\ reg' = reg /\ job' = HandBack(s, K)
    BY <1>9 DEF CommitSweep, Ready
  <2>2. ASSUME NEW j \in tx[s].rows
        PROVE  \E v \in Names : reg[v] # None /\ reg[v].stale /\ j \in O!Claims(v)
    <3>1. j \in Jobs /\ job[j].st \in Active /\ job[j].by \in tx[s].names
      BY <1>1, <2>1, <2>2 DEF RowsHeld, ClaimsIn
    <3>2. reg[job[j].by] # None /\ reg[job[j].by].stale
      BY <1>1, <2>1, <3>1 DEF RegHeld
    <3> QED BY <1>1, <3>1, <3>2 DEF O!Claims, Active, O!Active
  <2>3. O!Sweep(tx[s].rows, K)
    BY <2>1, <2>2, HandBackAtomic DEF O!Sweep
  <2> QED BY <1>1, <2>3 DEF O!Next
<1>10. CASE CommitPrune(s)
  <2> DEFINE W == {v \in tx[s].names : \A j \in Jobs : job[j].by # v}
  <2>1. /\ tx[s].op = "prune" /\ job' = job
        /\ reg' = [v \in Names |-> IF v \in tx[s].names /\ \A j \in Jobs : job[j].by # v
                                   THEN None ELSE reg[v]]
    BY <1>10 DEF CommitPrune, Ready
  <2>2. \A v \in W : reg[v] # None /\ reg[v].stale
    BY <1>1, <2>1 DEF RegHeld
  <2>3. O!Remove(W)
    BY <2>1, <2>2 DEF O!Remove
  <2> QED BY <1>1, <2>3 DEF O!Next
<1>11. CASE \/ LockOwn(s) \/ LockRegister(s) \/ LockStale(s) \/ LockTask(s) \/ Scan(s)
            \/ LockCandidate(s) \/ \E J \in SUBSET Jobs : PickRows(s, J)
  BY <1>11 DEF LockOwn, LockRegister, LockStale, LockTask, Scan, LockCandidate, PickRows
<1> QED BY <1>3, <1>4, <1>5, <1>6, <1>7, <1>8, <1>9, <1>10, <1>11 DEF Step

\* The locks, the waits and the several snapshots of the transactions of
\* src/queries leave exactly the effects of Ownership's atomic ones.
THEOREM Atomic == Spec => AtomicTransactions
<1>1. Init => O!Init
  BY DEF Init, O!Init
<1>2. ASSUME FenceInv, [Next]_vars PROVE [O!Next]_(O!ownershipVars)
  <2>1. ASSUME NEW s \in Sessions, BeginTx(s) \/ CutOff(s) PROVE UNCHANGED <<reg, job>>
    BY <2>1 DEF BeginTx, BeginOwn, BeginRegister, BeginTask, BeginBatch, CutOff
  <2>2. ASSUME NEW w \in Names, GoStale(w) PROVE O!Next
    <3>1. O!GoStale(w)
      BY <2>2 DEF GoStale, O!GoStale
    <3> QED BY <3>1 DEF O!Next
  <2>3. CASE UNCHANGED vars
    BY <2>3 DEF vars, O!ownershipVars
  <2> QED BY <1>2, <2>1, <2>2, <2>3, CommitAtomic DEF Next, O!ownershipVars
<1> QED BY <1>1, <1>2, FenceSafe, PTL DEF Spec, AtomicTransactions, O!Spec

-----------------------------------------------------------------------------
(* No deadlock. *)

\* A finite, nonempty set of numbers has a least and a greatest element.
LEMMA Extremes ==
  ASSUME NEW T \in SUBSET Nat, IsFiniteSet(T), T # {}
  PROVE  /\ \E m \in T : \A n \in T : m <= n
         /\ \E m \in T : \A n \in T : n <= m
<1> DEFINE R == StrictSubsetOrdering(T)
           down(m) == {n \in T : n <= m}
           up(m) == {n \in T : m <= n}
<1>1. IsWellFoundedOn(R, SUBSET T)
  BY FS_StrictSubsetOrderingWellFounded, FS_FiniteSubsetsOfFinite
<1>2. ASSUME NEW A \in SUBSET T, NEW B \in SUBSET T, A \subseteq B, A # B
      PROVE  <<A, B>> \in R
  BY <1>2 DEF StrictSubsetOrdering
<1>3. ASSUME NEW m \in T, NEW n \in T, n < m
      PROVE  /\ down(n) \subseteq down(m) /\ m \in down(m) \ down(n)
             /\ up(m) \subseteq up(n) /\ n \in up(n) \ up(m)
  <2>1. m \in Nat /\ n \in Nat
    OBVIOUS
  <2>2. ASSUME NEW x \in T
        PROVE  (x <= n => x <= m) /\ (m <= x => n <= x)
    <3>1. x \in Nat
      OBVIOUS
    <3> QED BY <1>3, <2>1, <3>1
  <2>3. m <= m /\ n <= n /\ ~(m <= n)
    BY <1>3, <2>1
  <2> QED BY <2>2, <2>3
<1>4. \E m \in T : \A n \in T : m <= n
  <2> DEFINE D == {down(m) : m \in T}
  <2>1. D \in SUBSET SUBSET T /\ D # {}
    OBVIOUS
  <2>2. PICK A \in D : \A B \in D : <<B, A>> \notin R
    <3> HIDE DEF D, R
    <3> QED BY <1>1, <2>1, WFMin
  <2>3. PICK m \in T : A = down(m)
    OBVIOUS
  <2>4. ASSUME NEW n \in T, ~(m <= n) PROVE FALSE
    <3>1. n < m
      BY <2>4
    <3>2. down(n) \subseteq down(m) /\ m \in down(m) /\ m \notin down(n)
      <4> HIDE DEF down, D
      <4> QED BY <1>3, <3>1
    <3>3. down(n) \in SUBSET T /\ A \in SUBSET T /\ down(n) \in D
      OBVIOUS
    <3>4. <<down(n), A>> \in R
      <4> HIDE DEF down, R
      <4> QED BY <1>2, <2>3, <3>2, <3>3
    <3> QED BY <2>2, <3>3, <3>4
  <2> QED BY <2>4
<1>5. \E m \in T : \A n \in T : n <= m
  <2> DEFINE D == {up(m) : m \in T}
  <2>1. D \in SUBSET SUBSET T /\ D # {}
    OBVIOUS
  <2>2. PICK A \in D : \A B \in D : <<B, A>> \notin R
    <3> HIDE DEF D, R
    <3> QED BY <1>1, <2>1, WFMin
  <2>3. PICK m \in T : A = up(m)
    OBVIOUS
  <2>4. ASSUME NEW n \in T, ~(n <= m) PROVE FALSE
    <3>1. m < n
      BY <2>4
    <3>2. up(n) \subseteq up(m) /\ m \in up(m) /\ m \notin up(n)
      <4> HIDE DEF up, D
      <4> QED BY <1>3, <3>1
    <3>3. up(n) \in SUBSET T /\ A \in SUBSET T /\ up(n) \in D
      OBVIOUS
    <3>4. <<up(n), A>> \in R
      <4> HIDE DEF up, R
      <4> QED BY <1>2, <2>3, <3>2, <3>3
    <3> QED BY <2>2, <3>3, <3>4
  <2> QED BY <2>4
<1> QED BY <1>4, <1>5

\* The task row a recovery waits for next.
NextRow(s) == CHOOSE j \in tx[s].want : \A i \in tx[s].want : j <= i

\* The next row is the least of those still wanted.
LEMMA NextRowLeast ==
  ASSUME FenceInv, NEW s \in Sessions, tx[s].want # {}
  PROVE  NextRow(s) \in tx[s].want /\ NextRow(s) \in Jobs /\ \A i \in tx[s].want : NextRow(s) <= i
<1>1. tx[s].want \in SUBSET Jobs
  BY DEF FenceInv, TypeOK, TxRow
<1>2. tx[s].want \in SUBSET Nat /\ IsFiniteSet(tx[s].want)
  BY <1>1, FenceAssumption, FS_Subset
<1>3. \E j \in tx[s].want : \A i \in tx[s].want : j <= i
  BY <1>2, Extremes
<1> QED BY <1>1, <1>3 DEF NextRow

\* What a session waits for, and what it holds while it waits: nothing, or the
\* rows a recovery locked before its next one.
LEMMA Waiting ==
  ASSUME FenceInv, NEW s \in Sessions
  PROVE  /\ AtStatement(s, "registration") => /\ WaitsFor(s) = Holders(s, tx[s].name, Mode(tx[s].op))
                                     /\ tx[s].names = {} /\ tx[s].rows = {} /\ tx[s].want = {}
         /\ AtStatement(s, "row") => /\ WaitsFor(s) = RowHolders(s, tx[s].target)
                            /\ tx[s].rows = {} /\ tx[s].want = {}
         /\ tx[s].want # {} => /\ WaitsFor(s) = RowHolders(s, NextRow(s))
                               /\ \A i \in tx[s].rows : i < NextRow(s)
         /\ ~AtStatement(s, "registration") /\ ~AtStatement(s, "row") /\ tx[s].want = {} => WaitsFor(s) = {}
<1>1. tx[s] \in TxRow /\ RegHeld(tx[s], reg) /\ RowsHeld(tx[s], job) /\ PcOK(tx[s])
  BY DEF FenceInv, TypeOK
<1>2. AtStatement(s, "registration") => tx[s].names = {} /\ tx[s].rows = {} /\ tx[s].want = {}
  BY <1>1 DEF AtStatement, RegHeld, RowsHeld, PcOK, TxRow, Ops
<1>3. AtStatement(s, "row") => ~AtStatement(s, "registration") /\ tx[s].rows = {} /\ tx[s].want = {}
  BY <1>1 DEF AtStatement, RowsHeld, PcOK, TxRow, Ops
<1>4. tx[s].want # {} => \A i \in tx[s].rows : i < NextRow(s)
  <2>1. tx[s].want # {} => \A i \in tx[s].rows, j \in tx[s].want : i < j
    BY <1>1 DEF RowsHeld, TxRow, Ops
  <2> QED BY <2>1, NextRowLeast
<1> QED BY <1>2, <1>3, <1>4 DEF WaitsFor, NextRow

\* A holder of registrations does not wait for one, and a holder of task rows
\* that waits, waits for a row after them: of a set of sessions that wait, one
\* waits for a session outside the set.
LEMMA WaitsAreOrdered ==
  ASSUME FenceInv
  PROVE  NoWaitCycle
<1> SUFFICES ASSUME NEW S \in SUBSET Sessions, S # {},
                    \A s \in S : WaitsFor(s) \intersect S # {}
             PROVE  FALSE
  BY DEF NoWaitCycle
<1>1. \A s \in S : AtStatement(s, "registration") \/ AtStatement(s, "row") \/ tx[s].want # {}
  BY Waiting
<1>2. ASSUME NEW r \in S, tx[r].rows # {} PROVE tx[r].want # {}
  BY <1>1, <1>2, Waiting
<1>3. ASSUME NEW s \in S, ~AtStatement(s, "registration")
      PROVE  \E r \in S : tx[r].want # {}
  <2>1. CASE AtStatement(s, "row")
    <3>1. PICK r \in S : tx[s].target \in tx[r].rows
      BY <2>1, Waiting DEF RowHolders
    <3> QED BY <1>2, <3>1
  <2>2. CASE tx[s].want # {}
    BY <2>2
  <2> QED BY <1>1, <1>3, <2>1, <2>2
<1>4. \E r \in S : tx[r].want # {}
  <2>1. PICK s \in S : TRUE
    OBVIOUS
  <2>2. CASE AtStatement(s, "registration")
    <3>1. PICK r \in S : tx[r].names # {}
      BY <2>2, Waiting DEF Holders
    <3>2. ~AtStatement(r, "registration")
      BY <3>1, Waiting
    <3> QED BY <1>3, <3>2
  <2> QED BY <1>3, <2>1, <2>2
<1> DEFINE N == {j \in Jobs : \E r \in S : tx[r].want # {} /\ NextRow(r) = j}
<1>5. N \in SUBSET Nat /\ IsFiniteSet(N) /\ N # {}
  <2>1. N \in SUBSET Jobs /\ N # {}
    BY <1>4, NextRowLeast
  <2> QED BY <2>1, FenceAssumption, FS_Subset
<1>6. PICK m \in N : \A n \in N : n <= m
  BY <1>5, Extremes
<1>7. PICK s \in S : tx[s].want # {} /\ NextRow(s) = m
  OBVIOUS
<1>8. PICK r \in S : m \in tx[r].rows
  BY <1>7, Waiting DEF RowHolders
<1>9. tx[r].want # {} /\ m < NextRow(r) /\ NextRow(r) \in N
  BY <1>2, <1>8, Waiting, NextRowLeast
<1> QED BY <1>5, <1>6, <1>9

\* No set of transactions waits on itself, whatever the number of connections:
\* registrations come before task rows, and task rows in the order of their ids.
THEOREM DeadlockFree == Spec => []NoWaitCycle
BY WaitsAreOrdered, FenceSafe, PTL

=============================================================================
