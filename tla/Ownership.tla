----------------------------- MODULE Ownership -----------------------------
(***************************************************************************)
(* What the ownership statements of src/queries promise together: every    *)
(* transaction takes effect in one step, on the registration and the rows  *)
(* as they are in that step.  WorkerFence, in which a transaction locks,   *)
(* waits and reads one statement at a time, implements it.                 *)
(***************************************************************************)
EXTENDS Naturals

CONSTANTS
  Names, Tokens, Jobs,
  MaxEpoch,      \* bound on the claims of one task
  None

VARIABLES
  reg,           \* per name: [token, stale], or None without a registration
  job            \* per task: [st, by, epoch, tok]

ownershipVars == <<reg, job>>

Active == {"queued", "running"}

Current(w, t) == reg[w] # None /\ reg[w].token = t

\* The tasks J are handed back, those of K with no attempt left.
HandBack(J, K) ==
  job' = [j \in Jobs |->
            IF j \in K THEN [job[j] EXCEPT !.st = "done", !.by = None, !.tok = None]
            ELSE IF j \in J THEN [job[j] EXCEPT !.st = "waiting", !.by = None, !.tok = None]
            ELSE job[j]]

Claims(w) == {j \in Jobs : job[j].st \in Active /\ job[j].by = w}

Claim(w, t, J) ==
  /\ Current(w, t)
  /\ \A j \in J : job[j].st = "waiting" /\ job[j].epoch < MaxEpoch
  /\ job' = [j \in Jobs |->
               IF j \in J THEN [st |-> "queued", by |-> w, epoch |-> job[j].epoch + 1, tok |-> t]
               ELSE job[j]]
  /\ UNCHANGED reg

Start(j) ==
  /\ job[j].st = "queued"
  /\ Current(job[j].by, job[j].tok)
  /\ job' = [job EXCEPT ![j].st = "running"]
  /\ UNCHANGED reg

Ack(j) ==
  /\ job[j].st \in Active
  /\ job' = [job EXCEPT ![j].st = "done"]
  /\ UNCHANGED reg

Renew(w, t) ==
  /\ Current(w, t)
  /\ reg' = [reg EXCEPT ![w].stale = FALSE]
  /\ UNCHANGED job

\* A registration holds its name until it is stale, and every claim of a lost
\* incumbent is handed back before the new token owns the name.
Register(w, t, K) ==
  LET lost == reg[w] # None /\ (reg[w].token # t \/ reg[w].stale)
  IN /\ reg[w] # None => reg[w].token = t \/ reg[w].stale
     /\ HandBack(IF lost THEN Claims(w) ELSE {}, K)
     /\ reg' = [reg EXCEPT ![w] = [token |-> t, stale |-> FALSE]]

Release(w, t, K) ==
  /\ Current(w, t)
  /\ HandBack(Claims(w), K)
  /\ reg' = [reg EXCEPT ![w] = [token |-> None, stale |-> TRUE]]

\* A sweep hands back some of the claims of stale registrations.
Sweep(J, K) ==
  /\ \A j \in J : \E w \in Names : reg[w] # None /\ reg[w].stale /\ j \in Claims(w)
  /\ HandBack(J, K)
  /\ UNCHANGED reg

\* Only stale registrations no row names are removed.
Remove(W) ==
  /\ \A w \in W : reg[w] # None /\ reg[w].stale /\ \A j \in Jobs : job[j].by # w
  /\ reg' = [w \in Names |-> IF w \in W THEN None ELSE reg[w]]
  /\ UNCHANGED job

GoStale(w) ==
  /\ reg[w] # None
  /\ reg' = [reg EXCEPT ![w].stale = TRUE]
  /\ UNCHANGED job

Init ==
  /\ reg = [w \in Names |-> None]
  /\ job = [j \in Jobs |-> [st |-> "waiting", by |-> None, epoch |-> 0, tok |-> None]]

Next ==
  \/ \E w \in Names, t \in Tokens, J \in SUBSET Jobs : Claim(w, t, J)
  \/ \E j \in Jobs : Start(j) \/ Ack(j)
  \/ \E w \in Names, t \in Tokens : Renew(w, t)
  \/ \E w \in Names, t \in Tokens : \E K \in SUBSET Claims(w) :
       Register(w, t, K) \/ Release(w, t, K)
  \/ \E J \in SUBSET Jobs : \E K \in SUBSET J : Sweep(J, K)
  \/ \E W \in SUBSET Names : Remove(W)
  \/ \E w \in Names : GoStale(w)

Spec == Init /\ [][Next]_ownershipVars

=============================================================================
