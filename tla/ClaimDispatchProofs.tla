------------------------ MODULE ClaimDispatchProofs ------------------------
(***************************************************************************)
(* Proofs of the invariants of ClaimDispatch for any number of clones of a *)
(* claimed task and any number of acknowledgements of each.                *)
(*                                                                         *)
(* The inductive invariant says of each clone what its place in start_claim *)
(* and in PgAck::ack tells of the shared flags, the row and the lease      *)
(* (StartInv, AckInv), and of the row who answers for it (RowInv).  Flags, *)
(* the retirement and the faults only grow and the row only advances, so a *)
(* step of one clone leaves the others' part of it alone (StartStable,     *)
(* AckStable).                                                             *)
(***************************************************************************)
EXTENDS ClaimDispatch, TLAPS

Retired == lease = "retired"
Started == "started" \in flags
Attempted == "attempted" \in flags

\* The holder of the serial lock.
Serialized == {"locked", "sent", "ok", "stale", "error"}

\* Where a call has an obligation: everywhere but before its dispatch, after
\* its end, and while a manual consumer executes.
Owing(c) == pc[c] \in {"created", "checked", "marked", "waiting", "ok", "lost", "error",
                       "acking", "dropped"}
            \/ (pc[c] = "handler" /\ kind[c] # "manual")

\* What the place of call c in start_claim and its dispatch tells.
StartInv(c) ==
  /\ pc[c] \in {"marked", "waiting", "ok", "lost", "error"} => Attempted
  /\ pc[c] = "refused" => Attempted \/ Started
  /\ pc[c] \in {"handler", "acking", "finished"} => Started
  /\ pc[c] = "acking" => kind[c] = "auto"
  /\ restart[c] = "again" => Started
  /\ pc[c] = "ok" => row \notin {"Queued", "Taken"}
  /\ pc[c] = "lost" => row # "Queued"
  /\ pc[c] = "refused" => row # "Queued" \/ Retired \/ Done
  /\ <<"start", c>> \in sent => pc[c] \in {"waiting", "dropped"}
  /\ Owing(c) /\ guard[c] = "off" => Retired \/ Done
  /\ pc[c] = "finished" /\ kind[c] = "auto" => Retired \/ Done
  /\ pc[c] \in {"error", "dropped"} => faults # {}

\* What the place of the acknowledgement of call c tells.
AckInv(c) ==
  /\ pc[c] = "acking" => ack[c] # "none"
  /\ ack[c] # "none" /\ kind[c] = "auto" =>
       pc[c] = "acking" \/ (pc[c] \in {"finished", "dropped"} /\ (AckOver(c) \/ ack[c] = "dropped"))
  /\ ack[c] # "none" /\ kind[c] # "auto" => pc[c] \in {"finished", "refused"}
  /\ ack[c] = "skipped" => pc[c] = "refused"
  /\ ack[c] \notin {"none", "created", "skipped", "dropped"} => Started
  /\ <<"ack", c>> \in sent => Started /\ ack[c] \in {"sent", "dropped"}
  /\ ack[c] \in Serialized <=> serial = c
  /\ ack[c] \in Serialized \ {"locked"} => ~Done
  /\ ack[c] \in Serialized \union {"created", "locking"} => ackGuard[c] = "armed"
  /\ ack[c] \in {"failed", "dropped"} /\ ackGuard[c] = "off" => Retired \/ Done
  /\ ack[c] \in {"recorded", "repeated"} => Done
  /\ ack[c] = "ok" => row = "Acked"
  /\ ack[c] = "stale" => row \in {"Lost", "Acked"}
  /\ ack[c] \in {"stale", "error", "failed", "dropped"} => faults # {}

\* The answer of the acknowledgement of call c was lost, and its obligation is
\* not settled yet.
AnswerLost(c) == ack[c] = "error" \/ (ack[c] \in {"failed", "dropped"} /\ ackGuard[c] = "armed")

\* Who answers for the row.
RowInv ==
  /\ ResultBacked
  /\ Done => row = "Acked"
  /\ row \in {"Queued", "Taken"} => ~Started
  /\ row \in {"Lost", "Taken"} => faults # {}
  /\ RetiredForCause
  /\ row = "Running" => \/ Retired
                        \/ \E d \in Call : pc[d] \in {"ok", "error", "handler", "acking", "finished", "dropped"}
  /\ row = "Acked" /\ ~Done =>
       \/ \E d \in Call : ack[d] = "ok"
       \/ faults # {} /\ (Retired \/ \E d \in Call : AnswerLost(d))

\* The inductive invariant.
ClaimInv ==
  /\ TypeOK
  /\ \A c \in Call : StartInv(c) /\ AckInv(c)
  /\ RowInv

-----------------------------------------------------------------------------
(* Type correctness. *)

\* The mark of an obligation, of a lease and of a settled acknowledgement.
LEMMA ReleasedType ==
  ASSUME TypeOK, NEW c \in Call
  PROVE  /\ DropGuard(c) \in {"active", "retired"}
         /\ Released(ackGuard[c]) \in {"active", "retired"}
BY DEF TypeOK, DropGuard, ReleasedBare, Released

\* Every step of a call keeps the types.
LEMMA ProgressType ==
  ASSUME TypeOK, NEW c \in Call, Progress(c), kind' = kind
  PROVE  TypeOK'
<1>1. CASE Dispatch(c)
  BY <1>1 DEF Dispatch, TypeOK, ackVars, Goto, Disarm, PC
<1>2. CASE MarkStartAttempted(c)
  <2>1. /\ \E p \in {"refused", "marked"} : pc' = [pc EXCEPT ![c] = p]
        /\ guard' = guard \/ guard' = [guard EXCEPT ![c] = "off"]
        /\ flags' = flags \/ flags' = flags \union {"attempted"}
    BY <1>2 DEF MarkStartAttempted, Goto, Disarm
  <2>2. pc' \in [Call -> PC]
    BY <2>1 DEF TypeOK, PC
  <2>3. guard' \in [Call -> {"armed", "off"}]
    BY <2>1 DEF TypeOK
  <2>4. flags' \in SUBSET {"done", "started", "attempted"}
    BY <2>1 DEF TypeOK
  <2> QED BY <1>2, <2>2, <2>3, <2>4 DEF MarkStartAttempted, TypeOK, ackVars
<1>3. CASE SendStart(c)
  BY <1>3 DEF SendStart, TypeOK, ackVars, Goto, Disarm, PC
<1>4. CASE ExecStart(c)
  <2>1. row' \in Row
    BY <1>4 DEF ExecStart, TypeOK, Row
  <2>2. faults' \in SUBSET {"drop", "error", "lost", "retired"}
    BY <1>4 DEF ExecStart, TypeOK
  <2>3. pc' = pc \/ \E p \in {"ok", "lost", "error"} : pc' = [pc EXCEPT ![c] = p]
    BY <1>4 DEF ExecStart, Goto
  <2>4. pc' \in [Call -> PC]
    BY <2>3 DEF TypeOK, PC
  <2> QED BY <1>4, <2>1, <2>2, <2>4 DEF ExecStart, TypeOK, ackVars
<1>5. CASE MarkStarted(c)
  BY <1>5 DEF MarkStarted, TypeOK, ackVars, Goto, PC
<1>6. CASE RefuseStart(c)
  BY <1>6, ReleasedType DEF RefuseStart, TypeOK, ackVars, Goto, Disarm, PC
<1>7. CASE FinishHandler(c)
  <2>1. acks[c] + 1 \in Nat
    BY DEF TypeOK
  <2> QED BY <1>7, <2>1 DEF FinishHandler, TypeOK, ackVars, Goto, Disarm, AckGoto, PC, AckPC
<1>8. CASE FinishDispatch(c)
  BY <1>8 DEF FinishDispatch, TypeOK, ackVars, Goto, Disarm, PC
<1>9. CASE CheckRefused(c)
  BY <1>9 DEF CheckRefused, TypeOK, callVars, AckSettled, AckGoto, AckPC
<1>10. CASE Serialize(c)
  BY <1>10 DEF Serialize, TypeOK, callVars, AckGoto, AckPC
<1>11. CASE SendAck(c)
  BY <1>11 DEF SendAck, TypeOK, callVars, AckSettled, AckGoto, AckPC, Unlock
<1>12. CASE ExecAck(c)
  <2>1. row' \in Row
    BY <1>12 DEF ExecAck, TypeOK, Row
  <2>2. ack' \in [Call -> AckPC] /\ faults' \in SUBSET {"drop", "error", "lost", "retired"}
    BY <1>12 DEF ExecAck, TypeOK, AckGoto, AckPC
  <2> QED BY <1>12, <2>1, <2>2 DEF ExecAck, TypeOK, callVars
<1>13. CASE FinishAck(c)
  <2>1. /\ \E p \in {"recorded", "failed"} : ack' = [ack EXCEPT ![c] = p]
        /\ ackGuard' = ackGuard \/ ackGuard' = [ackGuard EXCEPT ![c] = "off"]
        /\ flags' = flags \/ flags' = flags \union {"done"}
        /\ serial' \in {serial, Free}
    BY <1>13 DEF FinishAck, AckSettled, AckGoto, Unlock
  <2>2. ack' \in [Call -> AckPC]
    BY <2>1 DEF TypeOK, AckPC
  <2>3. ackGuard' \in [Call -> {"armed", "off"}]
    BY <2>1 DEF TypeOK
  <2>4. flags' \in SUBSET {"done", "started", "attempted"} /\ serial' \in Call \union {Free}
    BY <2>1 DEF TypeOK
  <2> QED BY <1>13, <2>2, <2>3, <2>4 DEF FinishAck, TypeOK, callVars
<1>14. CASE ReleaseGuard(c)
  BY <1>14, ReleasedType DEF ReleaseGuard, TypeOK, ackVars, Disarm
<1>15. CASE ReleaseAckGuard(c)
  BY <1>15, ReleasedType DEF ReleaseAckGuard, TypeOK, callVars
<1> QED BY <1>1, <1>2, <1>3, <1>4, <1>5, <1>6, <1>7, <1>8, <1>9, <1>10, <1>11, <1>12, <1>13,
           <1>14, <1>15 DEF Progress

\* Every call, drop and failure keeps the types.
LEMMA DisturbType ==
  ASSUME TypeOK, NEW c \in Call, Consume(c) \/ Disturb(c), kind' = kind
  PROVE  TypeOK'
<1>1. CASE CallService(c)
  BY <1>1 DEF CallService, TypeOK, ackVars, Goto, PC
<1>2. CASE CallStart(c)
  BY <1>2 DEF CallStart, TypeOK, ackVars, Goto, PC
<1>3. CASE CallAck(c)
  <2>1. acks[c] + 1 \in Nat
    BY DEF TypeOK
  <2> QED BY <1>3, <2>1 DEF CallAck, TypeOK, callVars, AckGoto, AckPC
<1>4. CASE DropCall(c)
  BY <1>4 DEF DropCall, TypeOK, Goto, AckGoto, Unlock, PC, AckPC
<1>5. CASE DropAck(c)
  BY <1>5 DEF DropAck, TypeOK, callVars, AckGoto, Unlock, AckPC
<1>6. CASE FailStart(c)
  BY <1>6 DEF FailStart, TypeOK, ackVars, PC
<1>7. CASE FailAck(c)
  BY <1>7 DEF FailAck, TypeOK, callVars, AckPC
<1> QED BY <1>1, <1>2, <1>3, <1>4, <1>5, <1>6, <1>7 DEF Consume, Disturb

\* Type correctness.
THEOREM TypeCorrect == Spec => []TypeOK
<1>1. Init => TypeOK
  BY BoundAssumption DEF Init, TypeOK, Row, PC, AckPC
<1>2. ASSUME TypeOK, [Next /\ UNCHANGED kind]_<<vars, kind>> PROVE TypeOK'
  <2>1. CASE LoseRow \/ TakeRow \/ RetireElsewhere
    BY <1>2, <2>1 DEF LoseRow, TakeRow, RetireElsewhere, TypeOK, Row, callVars, ackVars, vars
  <2>2. CASE UNCHANGED <<vars, kind>>
    BY <1>2, <2>2 DEF TypeOK, vars, callVars, ackVars
  <2> QED BY <1>2, <2>1, <2>2, ProgressType, DisturbType DEF Next, vars
<1> QED BY <1>1, <1>2, PTL DEF Spec

-----------------------------------------------------------------------------
(* A step of one call and the others. *)

\* Flags, retirement and faults are kept, and the row goes forward.
Forward ==
  /\ flags \subseteq flags' /\ (Retired => Retired') /\ (faults # {} => faults' # {})
  /\ row # "Queued" => row' # "Queued"
  /\ row \notin {"Queued", "Taken"} => row' \notin {"Queued", "Taken"}
  /\ row = "Acked" => row' = "Acked"
  /\ row = "Lost" => row' = "Lost"

\* A step of call c changes nothing of another call.
Local(c) ==
  /\ kind' = kind
  /\ \A d \in Call : d # c =>
       /\ pc'[d] = pc[d] /\ guard'[d] = guard[d] /\ restart'[d] = restart[d]
       /\ ack'[d] = ack[d] /\ ackGuard'[d] = ackGuard[d]
       /\ <<"start", d>> \in sent' => <<"start", d>> \in sent
       /\ <<"ack", d>> \in sent' => <<"ack", d>> \in sent

\* Only the holder of the serial lock marks the claim done, and only the
\* caller takes the lock or gives it up.
LockKept(c) ==
  /\ Done' => Done \/ serial = c
  /\ serial' # serial => serial \in {c, Free} /\ serial' \in {c, Free}

\* What a call knows stays true while it stays where it is.
LEMMA StartStable ==
  ASSUME NEW d \in Call, StartInv(d), Forward, kind' = kind,
         pc'[d] = pc[d], guard'[d] = guard[d], restart'[d] = restart[d],
         <<"start", d>> \in sent' => <<"start", d>> \in sent
  PROVE  StartInv(d)'
BY DEF StartInv, Owing, Forward, Done, Started, Attempted, Retired

\* What an acknowledgement knows stays true while it stays where it is.
LEMMA AckStable ==
  ASSUME NEW d \in Call, AckInv(d), Forward, kind' = kind,
         pc'[d] = pc[d], ack'[d] = ack[d], ackGuard'[d] = ackGuard[d],
         <<"ack", d>> \in sent' => <<"ack", d>> \in sent,
         serial' = d <=> serial = d, serial = d => (Done' => Done)
  PROVE  AckInv(d)'
BY DEF AckInv, AckOver, Serialized, Forward, Done, Started, Retired

\* A step of one call preserves the invariant if it does for that call and the row.
LEMMA LocalStep ==
  ASSUME ClaimInv, NEW c \in Call, Local(c), Forward, LockKept(c),
         TypeOK', StartInv(c)', AckInv(c)', RowInv'
  PROVE  ClaimInv'
<1>1. ASSUME NEW d \in Call, d # c PROVE StartInv(d)' /\ AckInv(d)'
  <2>1. StartInv(d) /\ AckInv(d) /\ d # Free
    BY BoundAssumption DEF ClaimInv
  <2>2. /\ serial' = d <=> serial = d
        /\ serial = d => (Done' => Done)
    BY <1>1, <2>1 DEF LockKept
  <2> QED BY <1>1, <2>1, <2>2, StartStable, AckStable DEF Local
<1> QED BY <1>1 DEF ClaimInv

\* The calls one of which started a Running row.
Starters == {"ok", "error", "handler", "acking", "finished", "dropped"}

\* A step that leaves the row alone preserves what is known of it, if it does
\* not mark the claim done, retires the name only for a cause, and hands on
\* its part in a Running row or in a lost answer.
LEMMA RowKept ==
  ASSUME ClaimInv, NEW c \in Call, Local(c), Forward,
         row' = row, Done' => Done, Started' => Started \/ row \notin {"Queued", "Taken"},
         Retired' => Retired \/ faults' # {},
         pc[c] \in Starters /\ row = "Running" => pc'[c] \in Starters \/ Retired',
         ack[c] = "ok" => ack'[c] = "ok" \/ (faults' # {} /\ AnswerLost(c)'),
         AnswerLost(c) /\ ~Done => AnswerLost(c)' \/ Retired'
  PROVE  RowInv'
<1>1. RowInv
  BY DEF ClaimInv
<1>2. \A d \in Call : d # c => /\ pc'[d] = pc[d] /\ ack'[d] = ack[d]
                               /\ AnswerLost(d) => AnswerLost(d)'
  BY DEF Local, AnswerLost
<1>3. row = "Running" => Retired' \/ \E d \in Call : pc'[d] \in Starters
  BY <1>1, <1>2 DEF RowInv, Forward, Starters
<1>4. ASSUME row = "Acked", ~Done
      PROVE  \/ \E d \in Call : ack'[d] = "ok"
             \/ faults' # {} /\ (Retired' \/ \E d \in Call : AnswerLost(d)')
  <2>1. CASE \E d \in Call : ack[d] = "ok"
    BY <1>2, <2>1
  <2>2. CASE faults # {} /\ Retired
    BY <2>2 DEF Forward
  <2>3. ASSUME NEW d \in Call, faults # {}, AnswerLost(d)
        PROVE  faults' # {} /\ (Retired' \/ \E e \in Call : AnswerLost(e)')
    BY <1>2, <1>4, <2>3 DEF Forward
  <2> QED BY <1>1, <1>4, <2>1, <2>2, <2>3 DEF RowInv
<1>5. Done => Done'
  BY DEF Forward, Done
<1> QED BY <1>1, <1>3, <1>4, <1>5
        DEF RowInv, Forward, ResultBacked, RetiredForCause, Starters, Started, Retired

-----------------------------------------------------------------------------
(* The steps of start_claim and of a dispatch. *)

\* The place of call c alone changes: its acknowledgement has not begun, or
\* does not depend on where the call is.
LEMMA CallStep ==
  ASSUME ClaimInv, NEW c \in Call, TypeOK', Local(c), Forward, LockKept(c),
         serial' = serial, Done' => Done, row' = row,
         ack'[c] = ack[c], ackGuard'[c] = ackGuard[c],
         <<"ack", c>> \in sent' => <<"ack", c>> \in sent,
         ack[c] = "none", pc'[c] # "acking",
         Started' => Started \/ row \notin {"Queued", "Taken"},
         Retired' => Retired \/ faults' # {},
         pc[c] \in Starters /\ row = "Running" => pc'[c] \in Starters \/ Retired',
         StartInv(c)'
  PROVE  ClaimInv'
<1>1. AckInv(c)
  BY DEF ClaimInv
<1>2. AckInv(c)'
  BY <1>1 DEF AckInv, AckOver, Serialized
<1>3. ~AnswerLost(c)
  BY DEF AnswerLost
<1>4. RowInv'
  BY <1>3, RowKept
<1> QED BY <1>2, <1>4, LocalStep

\* LockTaskService::call and PgAck::start begin with an armed obligation.
LEMMA CallInv ==
  ASSUME ClaimInv, NEW c \in Call, kind' = kind, CallService(c) \/ CallStart(c)
  PROVE  ClaimInv'
<1>1. TypeOK /\ StartInv(c) /\ AckInv(c) /\ pc[c] = "idle" /\ TypeOK'
  BY DisturbType DEF ClaimInv, CallService, CallStart, Consume
<1>2. /\ row' = row /\ flags' = flags /\ serial' = serial /\ lease' = lease
      /\ ack' = ack /\ ackGuard' = ackGuard /\ sent' = sent /\ faults' = faults
  BY DEF CallService, CallStart, ackVars
<1>3. /\ pc'[c] \in {"created", "checked"} /\ (guard'[c] = "off" => Done)
      /\ restart'[c] = "again" => restart[c] = "again" \/ Started
      /\ \A d \in Call : d # c => pc'[d] = pc[d] /\ guard'[d] = guard[d] /\ restart'[d] = restart[d]
  BY <1>1 DEF CallService, CallStart, Goto, TypeOK, Started
<1>4. Local(c) /\ Forward /\ LockKept(c)
  BY <1>2, <1>3 DEF Local, Forward, LockKept, Done, Retired
<1>5. ack[c] = "none"
  BY <1>1 DEF AckInv
<1>6. StartInv(c)'
  BY <1>1, <1>2, <1>3 DEF StartInv, Owing, Done, Started, Attempted, Retired
<1> QED BY <1>1, <1>2, <1>3, <1>4, <1>5, <1>6, CallStep DEF Starters, Done, Started, Retired

\* The checks before a start is sent.
LEMMA CheckInv ==
  ASSUME ClaimInv, NEW c \in Call, kind' = kind,
         Dispatch(c) \/ MarkStartAttempted(c) \/ SendStart(c)
  PROVE  ClaimInv'
<1>1. /\ TypeOK /\ StartInv(c) /\ AckInv(c) /\ RowInv /\ TypeOK'
      /\ pc[c] \in {"created", "checked", "marked"}
  BY ProgressType DEF ClaimInv, Dispatch, MarkStartAttempted, SendStart, Progress
<1>2. /\ row' = row /\ serial' = serial /\ lease' = lease
      /\ ack' = ack /\ ackGuard' = ackGuard /\ faults' = faults
      /\ flags' = flags \/ flags' = flags \union {"attempted"}
      /\ sent' = sent \/ (sent' = sent \union {<<"start", c>>} /\ pc'[c] = "waiting")
  BY <1>1 DEF Dispatch, MarkStartAttempted, SendStart, Goto, ackVars, TypeOK
<1>3. \A d \in Call : d # c => pc'[d] = pc[d] /\ guard'[d] = guard[d] /\ restart'[d] = restart[d]
  BY <1>1 DEF Dispatch, MarkStartAttempted, SendStart, Goto, Disarm, TypeOK
<1>4. Local(c) /\ Forward /\ LockKept(c) /\ (Done' => Done) /\ (Started' => Started)
  BY <1>2, <1>3 DEF Local, Forward, LockKept, Done, Retired, Started
<1>5. ack[c] = "none"
  BY <1>1 DEF AckInv
<1>6. StartInv(c)'
  <2>1. Done => Started
    BY <1>1 DEF RowInv, ResultBacked, Started
  <2>2. CASE Dispatch(c)
    BY <1>1, <2>1, <2>2
    DEF Dispatch, Goto, Disarm, TypeOK, StartInv, Owing, Done, Started, Attempted, Retired
  <2>3. CASE MarkStartAttempted(c)
    BY <1>1, <2>1, <2>3
    DEF MarkStartAttempted, Goto, Disarm, TypeOK, StartInv, Owing, Done, Started, Attempted, Retired
  <2>4. CASE SendStart(c)
    BY <1>1, <2>1, <2>4
    DEF SendStart, Goto, Disarm, TypeOK, StartInv, Owing, Done, Started, Attempted, Retired
  <2> QED BY <2>2, <2>3, <2>4
<1>7. (<<"ack", c>> \in sent' => <<"ack", c>> \in sent) /\ pc'[c] # "acking"
  BY <1>1, <1>2 DEF Dispatch, MarkStartAttempted, SendStart, Goto, TypeOK
<1> QED BY <1>1, <1>2, <1>4, <1>5, <1>6, <1>7, CallStep DEF Starters, Retired

\* A start runs: the row it moves to Running has a call that answers for it,
\* and a row that it does not match is no longer Queued.
LEMMA ExecStartInv ==
  ASSUME ClaimInv, NEW c \in Call, kind' = kind, ExecStart(c)
  PROVE  ClaimInv'
<1>1. /\ TypeOK /\ StartInv(c) /\ AckInv(c) /\ RowInv /\ TypeOK'
      /\ pc[c] \in {"waiting", "dropped"} /\ <<"start", c>> \in sent
  BY ProgressType DEF ClaimInv, ExecStart, Progress, StartInv
<1>2. /\ flags' = flags /\ serial' = serial /\ lease' = lease /\ guard' = guard /\ restart' = restart
      /\ ack' = ack /\ ackGuard' = ackGuard /\ sent' = sent \ {<<"start", c>>}
      /\ row' = IF row = "Queued" THEN "Running" ELSE row
  BY DEF ExecStart, StartMatches, ackVars
<1>3. /\ pc[c] = "waiting" => pc'[c] \in {"ok", "lost", "error"}
      /\ pc[c] = "dropped" => pc'[c] = "dropped"
      /\ pc'[c] = "ok" => StartMatches(c)
      /\ pc'[c] = "lost" => ~StartMatches(c)
      /\ pc'[c] = "error" => faults' # {}
      /\ faults \subseteq faults'
      /\ \A d \in Call : d # c => pc'[d] = pc[d]
  <2>1. \/ pc[c] = "waiting" /\ StartMatches(c) /\ pc' = [pc EXCEPT ![c] = "ok"] /\ faults' = faults
        \/ pc[c] = "waiting" /\ ~StartMatches(c) /\ pc' = [pc EXCEPT ![c] = "lost"] /\ faults' = faults
        \/ /\ pc[c] = "waiting" /\ pc' = [pc EXCEPT ![c] = "error"]
           /\ faults' = faults \union {"error"}
        \/ pc[c] # "waiting" /\ pc' = pc /\ faults' = faults
    BY DEF ExecStart, Goto
  <2>2. pc \in [Call -> PC]
    BY <1>1 DEF TypeOK
  <2>3. CASE pc[c] # "waiting" /\ pc' = pc /\ faults' = faults
    BY <1>1, <2>3
  <2>4. ASSUME pc[c] = "waiting", NEW p \in {"ok", "lost", "error"}, pc' = [pc EXCEPT ![c] = p]
        PROVE  pc'[c] = p /\ \A d \in Call : d # c => pc'[d] = pc[d]
    BY <2>2, <2>4
  <2> QED BY <2>1, <2>3, <2>4
<1>4. Local(c) /\ Forward /\ LockKept(c)
  BY <1>2, <1>3 DEF Local, Forward, LockKept, Done, Retired
<1>5. ack[c] \in {"none", "skipped", "recorded", "repeated", "failed", "dropped"}
  BY <1>1 DEF AckInv, AckOver
<1>6. StartInv(c)'
  <2>1. row' # "Queued" /\ (StartMatches(c) => row' # "Taken")
    BY <1>1, <1>2 DEF StartInv, RowInv, StartMatches
  <2> QED BY <1>1, <1>2, <1>3, <2>1 DEF StartInv, Owing, Done, Started, Attempted, Retired
<1>7. AckInv(c)'
  <2>1. CASE pc'[c] = pc[c]
    BY <1>1, <1>2, <1>4, <2>1, AckStable DEF Done
  <2>2. CASE pc'[c] # pc[c]
    <3>1. ack[c] = "none" /\ pc'[c] # "acking"
      BY <1>1, <1>3, <2>2 DEF AckInv
    <3> QED BY <1>1, <1>2, <3>1 DEF AckInv, AckOver, Serialized, Started
  <2> QED BY <2>1, <2>2
<1>8. RowInv'
  <2>1. CASE row = "Queued"
    <3>1. row' = "Running" /\ ~Done /\ ~Started
      BY <1>1, <1>2, <2>1 DEF RowInv
    <3>2. Retired' \/ pc'[c] \in {"ok", "error", "dropped"}
      BY <1>1, <1>3, <2>1 DEF StartMatches
    <3> QED BY <1>1, <1>2, <1>3, <3>1, <3>2
            DEF RowInv, ResultBacked, RetiredForCause, Done, Started, Retired
  <2>2. CASE row # "Queued"
    <3>1. row' = row /\ (pc[c] \in Starters => pc'[c] \in Starters)
      BY <1>1, <1>2, <1>3, <2>2 DEF Starters
    <3>2. AnswerLost(c) => AnswerLost(c)'
      BY <1>2 DEF AnswerLost
    <3>3. /\ Done' = Done /\ Started' = Started /\ Retired' = Retired
          /\ ack[c] = "ok" => ack'[c] = "ok"
      BY <1>2 DEF Done, Started, Retired
    <3> QED BY <1>4, <3>1, <3>2, <3>3, RowKept
  <2> QED BY <2>1, <2>2
<1> QED BY <1>1, <1>4, <1>6, <1>7, <1>8, LocalStep

\* A start fails without effect.
LEMMA FailStartInv ==
  ASSUME ClaimInv, NEW c \in Call, kind' = kind, FailStart(c)
  PROVE  ClaimInv'
<1>1. /\ TypeOK /\ StartInv(c) /\ AckInv(c) /\ TypeOK'
      /\ pc[c] \in {"waiting", "dropped"} /\ <<"start", c>> \in sent
  BY DisturbType DEF ClaimInv, FailStart, Disturb, StartInv
<1>2. /\ row' = row /\ flags' = flags /\ serial' = serial /\ lease' = lease /\ guard' = guard
      /\ restart' = restart /\ ack' = ack /\ ackGuard' = ackGuard
      /\ sent' = sent \ {<<"start", c>>} /\ faults' # {}
      /\ pc'[c] = (IF pc[c] = "waiting" THEN "error" ELSE pc[c])
      /\ \A d \in Call : d # c => pc'[d] = pc[d]
  BY <1>1 DEF FailStart, ackVars, TypeOK
<1>3. Local(c) /\ Forward /\ LockKept(c)
  BY <1>2 DEF Local, Forward, LockKept, Done, Retired
<1>4. StartInv(c)'
  BY <1>1, <1>2 DEF StartInv, Owing, Done, Started, Attempted, Retired
<1>5. AckInv(c)'
  <2>1. CASE pc[c] = "waiting"
    <3>1. ack[c] = "none"
      BY <1>1, <2>1 DEF AckInv
    <3> QED BY <1>1, <1>2, <3>1 DEF AckInv, AckOver, Serialized, Started
  <2>2. CASE pc[c] # "waiting"
    BY <1>1, <1>2, <1>3, <2>2, AckStable DEF Done
  <2> QED BY <2>1, <2>2
<1>6. RowInv'
  <2>1. AnswerLost(c) => AnswerLost(c)'
    BY <1>2 DEF AnswerLost
  <2>2. pc[c] \in Starters => pc'[c] \in Starters
    BY <1>1, <1>2 DEF Starters
  <2>3. /\ Done' = Done /\ Started' = Started /\ Retired' = Retired
        /\ ack[c] = "ok" => ack'[c] = "ok"
    BY <1>2 DEF Done, Started, Retired
  <2> QED BY <1>2, <1>3, <2>1, <2>2, <2>3, RowKept
<1> QED BY <1>1, <1>3, <1>4, <1>5, <1>6, LocalStep

\* A start that matched is marked; one that did not, or failed, is refused.
LEMMA StartedInv ==
  ASSUME ClaimInv, NEW c \in Call, kind' = kind, MarkStarted(c) \/ RefuseStart(c)
  PROVE  ClaimInv'
<1>1. /\ TypeOK /\ StartInv(c) /\ AckInv(c) /\ RowInv /\ TypeOK'
      /\ pc[c] \in {"ok", "lost", "error"}
  BY ProgressType DEF ClaimInv, MarkStarted, RefuseStart, Progress
<1>2. /\ row' = row /\ serial' = serial /\ restart' = restart /\ ack' = ack
      /\ ackGuard' = ackGuard /\ sent' = sent /\ faults' = faults
      /\ \A d \in Call : d # c => pc'[d] = pc[d] /\ guard'[d] = guard[d]
  BY <1>1 DEF MarkStarted, RefuseStart, Goto, Disarm, ackVars, TypeOK
<1>3. ack[c] = "none"
  BY <1>1 DEF AckInv
<1>4. CASE MarkStarted(c)
  <2>1. /\ pc[c] = "ok" /\ pc'[c] = "handler" /\ lease' = lease /\ flags' = flags \union {"started"}
        /\ guard'[c] = IF kind[c] = "manual" THEN "off" ELSE guard[c]
    BY <1>1, <1>4 DEF MarkStarted, Goto, TypeOK
  <2>2. Local(c) /\ Forward /\ LockKept(c) /\ (Done' => Done) /\ row \notin {"Queued", "Taken"}
    BY <1>1, <1>2, <2>1 DEF Local, Forward, LockKept, Done, Retired, StartInv
  <2>3. StartInv(c)'
    BY <1>1, <1>2, <2>1 DEF StartInv, Owing, Done, Started, Attempted, Retired
  <2> QED BY <1>1, <1>2, <1>3, <2>1, <2>2, <2>3, CallStep DEF Starters, Retired
<1>5. CASE RefuseStart(c)
  <2>1. /\ pc[c] \in {"lost", "error"} /\ pc'[c] = "refused" /\ guard'[c] = "off" /\ flags' = flags
        /\ lease' = IF pc[c] = "lost" THEN lease ELSE DropGuard(c)
    BY <1>1, <1>5 DEF RefuseStart, Goto, Disarm, TypeOK
  <2>2. /\ Retired => Retired'
        /\ pc[c] = "error" => Retired' \/ Done
        /\ Retired' => Retired \/ pc[c] = "error"
    BY <1>1, <2>1 DEF DropGuard, ReleasedBare, Released, Retired, TypeOK, StartInv, Owing
  <2>3. Local(c) /\ Forward /\ LockKept(c) /\ (Done' => Done) /\ (Started' => Started)
    BY <1>2, <2>1, <2>2 DEF Local, Forward, LockKept, Done, Started
  <2>4. StartInv(c)'
    BY <1>1, <1>2, <2>1, <2>2 DEF StartInv, Owing, Done, Started, Attempted
  <2>5. /\ Retired' => Retired \/ faults' # {}
        /\ pc[c] \in Starters /\ row = "Running" => Retired'
    BY <1>1, <1>2, <2>1, <2>2 DEF StartInv, RowInv, Starters
  <2> QED BY <1>1, <1>2, <1>3, <2>1, <2>3, <2>4, <2>5, CallStep
<1> QED BY <1>4, <1>5

\* The handler returns: a middleware's acknowledgement begins inside the
\* dispatch, or the consumer owes one.
LEMMA FinishHandlerInv ==
  ASSUME ClaimInv, NEW c \in Call, kind' = kind, FinishHandler(c)
  PROVE  ClaimInv'
<1>1. TypeOK /\ StartInv(c) /\ AckInv(c) /\ RowInv /\ TypeOK' /\ pc[c] = "handler"
  BY ProgressType DEF ClaimInv, FinishHandler, Progress
<1>2. /\ row' = row /\ flags' = flags /\ serial' = serial /\ lease' = lease /\ restart' = restart
      /\ sent' = sent /\ faults' = faults
      /\ \A d \in Call : d # c => /\ pc'[d] = pc[d] /\ guard'[d] = guard[d]
                                  /\ ack'[d] = ack[d] /\ ackGuard'[d] = ackGuard[d]
      /\ kind[c] = "auto" => /\ pc'[c] = "acking" /\ guard'[c] = guard[c]
                             /\ ack'[c] = "created" /\ ackGuard'[c] = "armed"
      /\ kind[c] # "auto" => pc'[c] = "finished" /\ ack' = ack /\ ackGuard' = ackGuard
  BY <1>1 DEF FinishHandler, Goto, Disarm, AckGoto, ackVars, TypeOK
<1>3. Local(c) /\ Forward /\ LockKept(c)
  BY <1>2 DEF Local, Forward, LockKept, Done, Retired
<1>4. ack[c] = "none"
  BY <1>1 DEF AckInv
<1>5. StartInv(c)'
  BY <1>1, <1>2 DEF StartInv, Owing, Done, Started, Attempted, Retired
<1>6. AckInv(c)'
  BY <1>1, <1>2, <1>4 DEF AckInv, AckOver, Serialized, Started, Done, Retired
<1>7. RowInv'
  <2>1. ~AnswerLost(c) /\ ack[c] # "ok" /\ pc'[c] \in Starters
    BY <1>2, <1>4 DEF AnswerLost, Starters
  <2>2. Done' = Done /\ Started' = Started /\ Retired' = Retired
    BY <1>2 DEF Done, Started, Retired
  <2> QED BY <1>2, <1>3, <2>1, <2>2, RowKept
<1> QED BY <1>1, <1>3, <1>5, <1>6, <1>7, LocalStep

\* A dispatch ends after its acknowledgement: that one was not skipped, so it
\* recorded, repeated or retired.
LEMMA FinishDispatchInv ==
  ASSUME ClaimInv, NEW c \in Call, kind' = kind, FinishDispatch(c)
  PROVE  ClaimInv'
<1>1. /\ TypeOK /\ StartInv(c) /\ AckInv(c) /\ RowInv /\ TypeOK'
      /\ pc[c] = "acking" /\ AckOver(c) /\ ackGuard[c] = "off"
  BY ProgressType DEF ClaimInv, FinishDispatch, Progress
<1>2. /\ row' = row /\ flags' = flags /\ serial' = serial /\ lease' = lease /\ restart' = restart
      /\ sent' = sent /\ faults' = faults /\ ack' = ack /\ ackGuard' = ackGuard
      /\ pc'[c] = "finished"
      /\ \A d \in Call : d # c => pc'[d] = pc[d] /\ guard'[d] = guard[d]
  BY <1>1 DEF FinishDispatch, Goto, Disarm, ackVars, TypeOK
<1>3. Local(c) /\ Forward /\ LockKept(c)
  BY <1>2 DEF Local, Forward, LockKept, Done, Retired
<1>4. Retired \/ Done
  BY <1>1 DEF AckInv, AckOver
<1>5. StartInv(c)'
  BY <1>1, <1>2, <1>4 DEF StartInv, Owing, Done, Started, Attempted, Retired
<1>6. AckInv(c)'
  BY <1>1, <1>2 DEF StartInv, AckInv, AckOver, Serialized, Started, Done, Retired
<1>7. RowInv'
  <2>1. /\ AnswerLost(c) => AnswerLost(c)' 
        /\ ack[c] = "ok" => ack'[c] = "ok"
        /\ pc'[c] \in Starters
    BY <1>2 DEF AnswerLost, Starters
  <2>2. Done' = Done /\ Started' = Started /\ Retired' = Retired
    BY <1>2 DEF Done, Started, Retired
  <2> QED BY <1>2, <1>3, <2>1, <2>2, RowKept
<1> QED BY <1>1, <1>3, <1>5, <1>6, <1>7, LocalStep

\* A dropped future keeps its obligations until they are dropped in their turn.
LEMMA DropCallInv ==
  ASSUME ClaimInv, NEW c \in Call, kind' = kind, DropCall(c)
  PROVE  ClaimInv'
<1> DEFINE inAck == pc[c] = "acking" /\ ~AckOver(c)
<1>1. /\ TypeOK /\ StartInv(c) /\ AckInv(c) /\ RowInv /\ TypeOK'
      /\ pc[c] \in {"created", "checked", "waiting", "ok", "lost", "error", "handler", "acking"}
      /\ pc[c] = "handler" => kind[c] # "manual"
      /\ ack[c] # "locked"
  BY DisturbType DEF ClaimInv, DropCall, Disturb
<1>2. /\ row' = row /\ flags' = flags /\ lease' = lease /\ restart' = restart /\ guard' = guard
      /\ ackGuard' = ackGuard /\ sent' = sent /\ faults' = faults \union {"drop"}
      /\ pc'[c] = "dropped" /\ \A d \in Call : d # c => pc'[d] = pc[d] /\ ack'[d] = ack[d]
      /\ inAck => ack'[c] = "dropped" /\ serial' = (IF serial = c THEN Free ELSE serial)
      /\ ~inAck => ack' = ack /\ serial' = serial
  BY <1>1 DEF DropCall, Goto, AckGoto, Unlock, TypeOK
<1>3. Local(c) /\ Forward /\ LockKept(c) /\ c # Free
  BY <1>2, BoundAssumption DEF Local, Forward, LockKept, Done, Retired
<1>4. StartInv(c)'
  BY <1>1, <1>2 DEF StartInv, Owing, Done, Started, Attempted, Retired
<1>5. AckInv(c)'
  <2>1. CASE inAck
    <3>1. kind[c] = "auto" /\ Started
      BY <1>1, <2>1 DEF StartInv
    <3>2. ackGuard[c] = "off" => Retired \/ Done
      BY <1>1, <2>1 DEF AckInv, AckOver, Serialized, TypeOK, AckPC
    <3> QED BY <1>1, <1>2, <1>3, <2>1, <3>1, <3>2
            DEF AckInv, AckOver, Serialized, Started, Done, Retired
  <2>2. CASE ~inAck
    <3>1. ack[c] = "none" \/ (kind[c] = "auto" /\ AckOver(c))
      BY <1>1, <2>2 DEF AckInv
    <3> QED BY <1>1, <1>2, <2>2, <3>1
            DEF StartInv, AckInv, AckOver, Serialized, Started, Done, Retired
  <2> QED BY <2>1, <2>2
<1>6. RowInv'
  <2>1. /\ ack[c] = "ok" => AnswerLost(c)'
        /\ AnswerLost(c) => AnswerLost(c)'
    BY <1>1, <1>2 DEF AckInv, AckOver, AnswerLost, Serialized
  <2>2. Done' = Done /\ Started' = Started /\ Retired' = Retired /\ pc'[c] \in Starters
    BY <1>2 DEF Done, Started, Retired, Starters
  <2> QED BY <1>2, <1>3, <2>1, <2>2, RowKept
<1> QED BY <1>1, <1>3, <1>4, <1>5, <1>6, LocalStep

\* The obligation of a dropped future retires the name, unless the claim is done.
LEMMA ReleaseGuardInv ==
  ASSUME ClaimInv, NEW c \in Call, kind' = kind, ReleaseGuard(c)
  PROVE  ClaimInv'
<1>1. /\ TypeOK /\ StartInv(c) /\ AckInv(c) /\ RowInv /\ TypeOK'
      /\ pc[c] = "dropped" /\ guard[c] = "armed"
  BY ProgressType DEF ClaimInv, ReleaseGuard, Progress
<1>2. /\ row' = row /\ flags' = flags /\ serial' = serial /\ restart' = restart /\ pc' = pc
      /\ sent' = sent /\ faults' = faults /\ ack' = ack /\ ackGuard' = ackGuard
      /\ lease' = DropGuard(c)
      /\ \A d \in Call : d # c => guard'[d] = guard[d]
  BY <1>1 DEF ReleaseGuard, Disarm, ackVars, TypeOK
<1>3. (Retired => Retired') /\ (Retired' \/ Done)
  BY <1>1, <1>2 DEF DropGuard, ReleasedBare, Released, Retired
<1>4. Local(c) /\ Forward /\ LockKept(c)
  BY <1>2, <1>3 DEF Local, Forward, LockKept, Done
<1>5. StartInv(c)'
  BY <1>1, <1>2, <1>3 DEF StartInv, Owing, Done, Started, Attempted
<1>6. AckInv(c)'
  BY <1>1, <1>2, <1>4, AckStable DEF Done
<1>7. RowInv'
  <2>1. AnswerLost(c) => AnswerLost(c)'
    BY <1>2 DEF AnswerLost
  <2>2. /\ Done' = Done /\ Started' = Started /\ faults' # {}
        /\ pc[c] \in Starters => pc'[c] \in Starters
        /\ ack[c] = "ok" => ack'[c] = "ok"
    BY <1>1, <1>2 DEF Done, Started, StartInv
  <2> QED BY <1>2, <1>4, <2>1, <2>2, RowKept
<1> QED BY <1>1, <1>4, <1>5, <1>6, <1>7, LocalStep

-----------------------------------------------------------------------------
(* The steps of PgAck::ack. *)

\* A step of the acknowledgement of call c that leaves the row alone.
LEMMA AckStep ==
  ASSUME ClaimInv, NEW c \in Call, TypeOK', kind' = kind,
         pc' = pc, guard' = guard, restart' = restart, row' = row, lease' = lease,
         \A d \in Call : d # c => ack'[d] = ack[d] /\ ackGuard'[d] = ackGuard[d],
         sent' \subseteq sent \union {<<"ack", c>>}, flags' = flags, faults \subseteq faults',
         serial' # serial => serial \in {c, Free} /\ serial' \in {c, Free},
         ack[c] = "ok" => ack'[c] = "ok" \/ (faults' # {} /\ AnswerLost(c)'),
         AnswerLost(c) => AnswerLost(c)',
         AckInv(c)'
  PROVE  ClaimInv'
<1>1. Local(c) /\ Forward /\ LockKept(c)
  BY DEF Local, Forward, LockKept, Done, Retired
<1>2. StartInv(c)'
  BY <1>1, StartStable DEF ClaimInv
<1>3. Done' = Done /\ Started' = Started /\ Retired' = Retired
  BY DEF Done, Started, Retired
<1>4. RowInv'
  BY <1>1, <1>3, RowKept
<1> QED BY <1>1, <1>2, <1>4, LocalStep

\* The consumer begins, or repeats, an acknowledgement: it owes it from now on.
LEMMA CallAckInv ==
  ASSUME ClaimInv, NEW c \in Call, kind' = kind, CallAck(c)
  PROVE  ClaimInv'
<1>1. /\ TypeOK /\ StartInv(c) /\ AckInv(c) /\ TypeOK'
      /\ kind[c] # "auto" /\ pc[c] \in {"finished", "refused"}
      /\ ack[c] = "none" \/ (AckOver(c) /\ ackGuard[c] = "off")
  BY DisturbType DEF ClaimInv, CallAck, Consume
<1>2. /\ row' = row /\ flags' = flags /\ serial' = serial /\ lease' = lease
      /\ pc' = pc /\ guard' = guard /\ restart' = restart /\ sent' = sent /\ faults' = faults
      /\ ack'[c] = "created" /\ ackGuard'[c] = "armed"
      /\ \A d \in Call : d # c => ack'[d] = ack[d] /\ ackGuard'[d] = ackGuard[d]
  BY <1>1 DEF CallAck, AckGoto, callVars, TypeOK
<1>3. ~AnswerLost(c) /\ ack[c] # "ok"
  BY <1>1 DEF AnswerLost, AckOver
<1>4. AckInv(c)'
  BY <1>1, <1>2 DEF StartInv, AckInv, AckOver, Serialized, Started, Done, Retired
<1> QED BY <1>1, <1>2, <1>3, <1>4, AckStep

\* A claim whose starts were all refused is skipped, and no other: an
\* acknowledgement that goes on speaks for a started claim.
LEMMA CheckRefusedInv ==
  ASSUME ClaimInv, NEW c \in Call, kind' = kind, CheckRefused(c)
  PROVE  ClaimInv'
<1>1. TypeOK /\ StartInv(c) /\ AckInv(c) /\ TypeOK' /\ ack[c] = "created"
  BY ProgressType DEF ClaimInv, CheckRefused, Progress
<1>2. /\ row' = row /\ flags' = flags /\ serial' = serial /\ lease' = lease
      /\ pc' = pc /\ guard' = guard /\ restart' = restart /\ sent' = sent /\ faults' = faults
      /\ \/ StartRefused /\ ack'[c] = "skipped"
         \/ ~StartRefused /\ ack'[c] = "locking" /\ ackGuard'[c] = ackGuard[c]
      /\ \A d \in Call : d # c => ack'[d] = ack[d] /\ ackGuard'[d] = ackGuard[d]
  BY <1>1 DEF CheckRefused, AckSettled, AckGoto, callVars, TypeOK
<1>3. ~AnswerLost(c)
  BY <1>1 DEF AnswerLost
<1>4. /\ StartRefused => pc[c] = "refused"
      /\ ~StartRefused => Started
  BY <1>1 DEF StartRefused, StartInv, AckInv, AckOver, Started, Attempted
<1>5. AckInv(c)'
  BY <1>1, <1>2, <1>4 DEF AckInv, AckOver, Serialized, Started, Done, Retired
<1> QED BY <1>1, <1>2, <1>3, <1>5, AckStep

\* The lock is taken.
LEMMA SerializeInv ==
  ASSUME ClaimInv, NEW c \in Call, kind' = kind, Serialize(c)
  PROVE  ClaimInv'
<1>1. TypeOK /\ AckInv(c) /\ TypeOK' /\ ack[c] = "locking" /\ serial = Free
  BY ProgressType DEF ClaimInv, Serialize, Progress
<1>2. /\ row' = row /\ flags' = flags /\ serial' = c /\ lease' = lease
      /\ pc' = pc /\ guard' = guard /\ restart' = restart /\ sent' = sent /\ faults' = faults
      /\ ack'[c] = "locked" /\ ackGuard' = ackGuard
      /\ \A d \in Call : d # c => ack'[d] = ack[d]
  BY <1>1 DEF Serialize, AckGoto, callVars, TypeOK
<1>3. ~AnswerLost(c)
  BY <1>1 DEF AnswerLost
<1>4. AckInv(c)'
  BY <1>1, <1>2 DEF AckInv, AckOver, Serialized, Started, Done, Retired
<1> QED BY <1>1, <1>2, <1>3, <1>4, AckStep

\* An acknowledged claim is not acknowledged again; otherwise ack_task is sent.
LEMMA SendAckInv ==
  ASSUME ClaimInv, NEW c \in Call, kind' = kind, SendAck(c)
  PROVE  ClaimInv'
<1>1. TypeOK /\ AckInv(c) /\ TypeOK' /\ ack[c] = "locked" /\ serial = c /\ c # Free
  BY ProgressType, BoundAssumption DEF ClaimInv, SendAck, Progress, AckInv, Serialized
<1>2. /\ row' = row /\ flags' = flags /\ lease' = lease
      /\ pc' = pc /\ guard' = guard /\ restart' = restart /\ faults' = faults
      /\ \/ Done /\ ack'[c] = "repeated" /\ ackGuard'[c] = "off" /\ serial' = Free /\ sent' = sent
         \/ /\ ~Done /\ ack'[c] = "sent" /\ ackGuard' = ackGuard /\ serial' = serial
            /\ sent' = sent \union {<<"ack", c>>}
      /\ \A d \in Call : d # c => ack'[d] = ack[d] /\ ackGuard'[d] = ackGuard[d]
  BY <1>1 DEF SendAck, AckSettled, AckGoto, Unlock, callVars, TypeOK
<1>3. ~AnswerLost(c)
  BY <1>1 DEF AnswerLost
<1>4. AckInv(c)'
  BY <1>1, <1>2 DEF AckInv, AckOver, Serialized, Started, Done, Retired
<1> QED BY <1>1, <1>2, <1>3, <1>4, AckStep

\* ack_task fails without effect.
LEMMA FailAckInv ==
  ASSUME ClaimInv, NEW c \in Call, kind' = kind, FailAck(c)
  PROVE  ClaimInv'
<1>1. TypeOK /\ AckInv(c) /\ TypeOK' /\ <<"ack", c>> \in sent /\ ack[c] \in {"sent", "dropped"}
  BY DisturbType DEF ClaimInv, FailAck, Disturb, AckInv
<1>2. /\ row' = row /\ flags' = flags /\ serial' = serial /\ lease' = lease
      /\ pc' = pc /\ guard' = guard /\ restart' = restart /\ ackGuard' = ackGuard
      /\ sent' = sent \ {<<"ack", c>>} /\ faults' = faults \union {"error"}
      /\ ack'[c] = (IF ack[c] = "sent" THEN "error" ELSE ack[c])
      /\ \A d \in Call : d # c => ack'[d] = ack[d]
  BY <1>1 DEF FailAck, callVars, TypeOK
<1>3. AnswerLost(c) => AnswerLost(c)'
  BY <1>1, <1>2 DEF AnswerLost
<1>4. AckInv(c)'
  BY <1>1, <1>2 DEF AckInv, AckOver, Serialized, Started, Done, Retired
<1> QED BY <1>1, <1>2, <1>3, <1>4, AckStep

\* A dropped acknowledgement frees the lock and keeps its obligation.
LEMMA DropAckInv ==
  ASSUME ClaimInv, NEW c \in Call, kind' = kind, DropAck(c)
  PROVE  ClaimInv'
<1>1. /\ TypeOK /\ AckInv(c) /\ TypeOK' /\ kind[c] # "auto" /\ c # Free
      /\ ack[c] \in {"created", "locking", "sent", "ok", "stale", "error"}
      /\ ackGuard[c] = "armed"
  BY DisturbType, BoundAssumption DEF ClaimInv, DropAck, Disturb, AckInv, Serialized
<1>2. /\ row' = row /\ flags' = flags /\ lease' = lease
      /\ pc' = pc /\ guard' = guard /\ restart' = restart /\ ackGuard' = ackGuard
      /\ sent' = sent /\ faults' = faults \union {"drop"}
      /\ ack'[c] = "dropped" /\ serial' = (IF serial = c THEN Free ELSE serial)
      /\ \A d \in Call : d # c => ack'[d] = ack[d]
  BY <1>1 DEF DropAck, AckGoto, Unlock, callVars, TypeOK
<1>3. AnswerLost(c)' /\ faults' # {}
  BY <1>1, <1>2 DEF AnswerLost
<1>4. AckInv(c)'
  BY <1>1, <1>2 DEF AckInv, AckOver, Serialized, Started, Done, Retired
<1> QED BY <1>1, <1>2, <1>3, <1>4, AckStep

\* ack_task runs: only a started claim is acknowledged, so the row is no other
\* claim's, and the holder of the lock finds it recorded only by an
\* acknowledgement that lost its answer.
LEMMA ExecAckInv ==
  ASSUME ClaimInv, NEW c \in Call, kind' = kind, ExecAck(c)
  PROVE  ClaimInv'
<1>1. /\ TypeOK /\ AckInv(c) /\ RowInv /\ TypeOK' /\ Started
      /\ <<"ack", c>> \in sent /\ ack[c] \in {"sent", "dropped"}
  BY ProgressType DEF ClaimInv, ExecAck, Progress, AckInv
<1>2. row \in {"Running", "Lost", "Acked"}
  BY <1>1 DEF RowInv, ResultBacked, TypeOK, Row
<1>3. /\ row' = IF row = "Running" THEN "Acked" ELSE row
      /\ flags' = flags /\ serial' = serial /\ lease' = lease
      /\ pc' = pc /\ guard' = guard /\ restart' = restart /\ ackGuard' = ackGuard
      /\ sent' = sent \ {<<"ack", c>>}
  BY <1>2 DEF ExecAck, callVars
<1>4. /\ faults \subseteq faults'
      /\ ack[c] = "dropped" => ack'[c] = "dropped"
      /\ ack[c] = "sent" => ack'[c] \in {"ok", "stale", "error"}
      /\ ack'[c] = "ok" => row = "Running"
      /\ ack'[c] = "stale" => row # "Running"
      /\ ack'[c] = "error" => faults' # {}
      /\ \A d \in Call : d # c => ack'[d] = ack[d]
  <2>1. \/ /\ ack[c] = "sent" /\ row = "Running"
           /\ ack' = [ack EXCEPT ![c] = "ok"] /\ faults' = faults
        \/ /\ ack[c] = "sent" /\ row # "Running"
           /\ ack' = [ack EXCEPT ![c] = "stale"] /\ faults' = faults
        \/ /\ ack[c] = "sent" /\ ack' = [ack EXCEPT ![c] = "error"]
           /\ faults' = faults \union {"error"}
        \/ ack[c] # "sent" /\ ack' = ack /\ faults' = faults
    BY <1>2, <1>3 DEF ExecAck, AckGoto
  <2>2. ack \in [Call -> AckPC]
    BY <1>1 DEF TypeOK
  <2>3. CASE ack[c] # "sent" /\ ack' = ack /\ faults' = faults
    BY <1>1, <2>3
  <2>4. ASSUME ack[c] = "sent", NEW a \in {"ok", "stale", "error"}, ack' = [ack EXCEPT ![c] = a]
        PROVE  ack'[c] = a /\ \A d \in Call : d # c => ack'[d] = ack[d]
    BY <2>2, <2>4
  <2> QED BY <2>1, <2>3, <2>4
<1>5. Local(c) /\ Forward /\ LockKept(c)
  BY <1>2, <1>3, <1>4 DEF Local, Forward, LockKept, Done, Retired
<1>6. StartInv(c)'
  BY <1>3, <1>5, StartStable DEF ClaimInv
<1>7. ASSUME ack[c] = "sent", row # "Running" PROVE faults # {}
  <2>1. serial = c /\ ~Done
    BY <1>1, <1>7 DEF AckInv, Serialized
  <2>2. ASSUME NEW d \in Call, ack[d] = "ok" PROVE FALSE
    <3>1. AckInv(d)
      BY DEF ClaimInv
    <3>2. serial = d
      BY <2>2, <3>1 DEF AckInv, Serialized
    <3> QED BY <1>7, <2>1, <2>2, <3>2
  <2> QED BY <1>1, <1>2, <1>7, <2>1, <2>2 DEF RowInv
<1>8. AckInv(c)'
  <2>1. CASE ack[c] = "sent"
    <3>1. ack'[c] = "stale" => faults' # {}
      BY <1>4, <1>7, <2>1
    <3> QED BY <1>1, <1>2, <1>3, <1>4, <2>1, <3>1
            DEF AckInv, AckOver, Serialized, Started, Done, Retired
  <2>2. CASE ack[c] = "dropped"
    BY <1>1, <1>3, <1>4, <1>5, <2>2, AckStable DEF Done
  <2> QED BY <1>1, <2>1, <2>2
<1>9. RowInv'
  <2>1. Done' = Done /\ Started' = Started /\ Retired' = Retired
    BY <1>3 DEF Done, Started, Retired
  <2>2. CASE row = "Running"
    <3>1. row' = "Acked" /\ ~Done
      BY <1>1, <1>3, <2>2 DEF RowInv
    <3>2. ack'[c] = "ok" \/ (faults' # {} /\ (Retired' \/ AnswerLost(c)'))
      <4>1. CASE ack[c] = "sent"
        BY <1>4, <2>2, <4>1 DEF AnswerLost
      <4>2. CASE ack[c] = "dropped"
        <5>1. ackGuard[c] = "armed" \/ Retired
          BY <1>1, <3>1, <4>2 DEF AckInv, TypeOK
        <5>2. ack'[c] = "dropped" /\ ackGuard' = ackGuard
          BY <1>3, <1>4, <4>2
        <5>3. Retired' \/ AnswerLost(c)'
          BY <2>1, <5>1, <5>2 DEF AnswerLost
        <5>4. faults # {}
          BY <1>1, <4>2 DEF AckInv
        <5>5. faults \subseteq faults'
          BY <1>4
        <5> QED BY <5>3, <5>4, <5>5
      <4> QED BY <1>1, <4>1, <4>2
    <3>3. Retired' => faults' # {}
      BY <1>1, <1>4, <2>1 DEF RowInv, RetiredForCause, Retired
    <3> QED BY <1>1, <2>1, <3>1, <3>2, <3>3
            DEF RowInv, ResultBacked, RetiredForCause, Started, Retired
  <2>3. CASE row # "Running"
    <3>1. row' = row /\ ack[c] # "ok"
      BY <1>1, <1>3, <2>3
    <3>2. AnswerLost(c) => AnswerLost(c)'
      BY <1>1, <1>3, <1>4 DEF AnswerLost
    <3>3. pc'[c] = pc[c]
      BY <1>3
    <3> QED BY <1>5, <2>1, <3>1, <3>2, <3>3, RowKept
  <2> QED BY <2>2, <2>3
<1> QED BY <1>1, <1>5, <1>6, <1>8, <1>9, LocalStep

\* A committed acknowledgement is marked; a stale or a failed one is still owed.
LEMMA FinishAckInv ==
  ASSUME ClaimInv, NEW c \in Call, kind' = kind, FinishAck(c)
  PROVE  ClaimInv'
<1>1. /\ TypeOK /\ AckInv(c) /\ RowInv /\ TypeOK' /\ c # Free
      /\ ack[c] \in {"ok", "stale", "error"} /\ ackGuard[c] = "armed" /\ serial = c
  BY ProgressType, BoundAssumption DEF ClaimInv, FinishAck, Progress, AckInv, Serialized
<1>2. /\ row' = row /\ lease' = lease /\ pc' = pc /\ guard' = guard /\ restart' = restart
      /\ sent' = sent /\ faults' = faults /\ serial' = Free
      /\ \/ /\ ack[c] = "ok" /\ flags' = flags \union {"done"}
            /\ ack'[c] = "recorded" /\ ackGuard'[c] = "off"
         \/ ack[c] # "ok" /\ flags' = flags /\ ack'[c] = "failed" /\ ackGuard' = ackGuard
      /\ \A d \in Call : d # c => ack'[d] = ack[d] /\ ackGuard'[d] = ackGuard[d]
  BY <1>1 DEF FinishAck, AckSettled, AckGoto, Unlock, callVars, TypeOK
<1>3. AckInv(c)'
  BY <1>1, <1>2 DEF AckInv, AckOver, Serialized, Started, Done, Retired
<1>4. CASE ack[c] = "ok"
  <2>1. Local(c) /\ Forward /\ LockKept(c)
    BY <1>1, <1>2 DEF Local, Forward, LockKept, Done, Retired
  <2>2. StartInv(c)'
    BY <1>2, <2>1, StartStable DEF ClaimInv
  <2>3. row = "Acked" /\ Started /\ Done' /\ Started' /\ Retired' = Retired
    BY <1>1, <1>2, <1>4 DEF AckInv, Done, Started, Retired
  <2>4. RowInv'
    BY <1>1, <1>2, <2>3 DEF RowInv, ResultBacked, RetiredForCause, Started
  <2> QED BY <1>1, <1>3, <2>1, <2>2, <2>4, LocalStep
<1>5. CASE ack[c] # "ok"
  <2>1. AnswerLost(c)'
    BY <1>1, <1>2, <1>5 DEF AnswerLost
  <2> QED BY <1>1, <1>2, <1>3, <1>5, <2>1, AckStep
<1> QED BY <1>4, <1>5

\* The obligation of a failed or dropped acknowledgement retires the name,
\* unless another acknowledgement committed.
LEMMA ReleaseAckGuardInv ==
  ASSUME ClaimInv, NEW c \in Call, kind' = kind, ReleaseAckGuard(c)
  PROVE  ClaimInv'
<1>1. /\ TypeOK /\ AckInv(c) /\ TypeOK'
      /\ ack[c] \in {"failed", "dropped"} /\ ackGuard[c] = "armed"
  BY ProgressType DEF ClaimInv, ReleaseAckGuard, Progress
<1>2. /\ row' = row /\ flags' = flags /\ serial' = serial /\ pc' = pc /\ guard' = guard
      /\ restart' = restart /\ sent' = sent /\ faults' = faults /\ ack' = ack
      /\ lease' = Released(ackGuard[c]) /\ ackGuard'[c] = "off"
      /\ \A d \in Call : d # c => ackGuard'[d] = ackGuard[d]
  BY <1>1 DEF ReleaseAckGuard, callVars, TypeOK
<1>3. (Retired => Retired') /\ (Retired' \/ Done)
  BY <1>1, <1>2 DEF Released, Retired
<1>4. Local(c) /\ Forward /\ LockKept(c)
  BY <1>2, <1>3 DEF Local, Forward, LockKept, Done
<1>5. StartInv(c)'
  BY <1>2, <1>4, StartStable DEF ClaimInv
<1>6. AckInv(c)'
  BY <1>1, <1>2, <1>3 DEF AckInv, AckOver, Serialized, Started, Done
<1>7. RowInv'
  <2>1. /\ Done' = Done /\ Started' = Started /\ faults' # {} /\ pc'[c] = pc[c]
        /\ ack[c] # "ok"
    BY <1>1, <1>2 DEF Done, Started, AckInv
  <2> QED BY <1>2, <1>3, <1>4, <2>1, RowKept
<1> QED BY <1>1, <1>4, <1>5, <1>6, <1>7, LocalStep

-----------------------------------------------------------------------------
(* The theorems. *)

\* What the other workers do to the row and to the lease.
LEMMA OthersInv ==
  ASSUME ClaimInv, kind' = kind, LoseRow \/ TakeRow \/ RetireElsewhere \/ UNCHANGED vars
  PROVE  ClaimInv'
<1>1. TypeOK /\ RowInv
  BY DEF ClaimInv
<1>2. TypeOK'
  BY <1>1 DEF LoseRow, TakeRow, RetireElsewhere, TypeOK, Row, callVars, ackVars, vars
<1>3. /\ flags' = flags /\ serial' = serial /\ pc' = pc /\ guard' = guard /\ restart' = restart
      /\ ack' = ack /\ ackGuard' = ackGuard /\ sent' = sent
  BY DEF LoseRow, TakeRow, RetireElsewhere, callVars, ackVars, vars
<1>4. \/ lease' = lease /\ row \in {"Queued", "Running"} /\ row' = "Lost" /\ faults' # {}
      \/ lease' = lease /\ row = "Queued" /\ row' = "Taken" /\ faults' # {}
      \/ lease' = "retired" /\ row' = row /\ faults' # {}
      \/ lease' = lease /\ row' = row /\ faults' = faults
  BY DEF LoseRow, TakeRow, RetireElsewhere, vars
<1>5. Forward
  BY <1>3, <1>4 DEF Forward, Retired
<1>6. ASSUME NEW c \in Call PROVE StartInv(c)' /\ AckInv(c)'
  <2>1. StartInv(c) /\ AckInv(c)
    BY DEF ClaimInv
  <2> QED BY <1>3, <1>5, <2>1, StartStable, AckStable DEF Done
<1>7. RowInv'
  <2>1. /\ Done' = Done /\ Started' = Started
        /\ \A d \in Call : AnswerLost(d)' = AnswerLost(d)
    BY <1>3 DEF Done, Started, AnswerLost
  <2> QED BY <1>1, <1>3, <1>4, <2>1
          DEF RowInv, ResultBacked, RetiredForCause, Started, Retired
<1> QED BY <1>2, <1>6, <1>7 DEF ClaimInv

\* The inductive invariant holds initially and after every step.
THEOREM ClaimSafe == Spec => []ClaimInv
<1>1. Init => ClaimInv
  <2> SUFFICES ASSUME Init PROVE ClaimInv
    OBVIOUS
  <2>1. TypeOK
    BY BoundAssumption DEF Init, TypeOK, Row, PC, AckPC
  <2>2. ASSUME NEW c \in Call PROVE StartInv(c) /\ AckInv(c)
    <3>1. /\ pc[c] = "idle" /\ ack[c] = "none" /\ restart[c] = "first" /\ c # Free
          /\ serial = Free /\ sent = {} /\ flags = {}
      BY BoundAssumption DEF Init
    <3> QED BY <3>1 DEF StartInv, AckInv, Owing, Serialized
  <2>3. RowInv
    BY DEF Init, RowInv, ResultBacked, RetiredForCause, Done, Started
  <2> QED BY <2>1, <2>2, <2>3 DEF ClaimInv
<1>2. ASSUME ClaimInv, [Next /\ UNCHANGED kind]_<<vars, kind>> PROVE ClaimInv'
  <2>1. kind' = kind
    BY <1>2 DEF vars
  <2>2. ASSUME NEW c \in Call, Progress(c) \/ Consume(c) \/ Disturb(c) PROVE ClaimInv'
    <3> USE <1>2, <2>1
    <3>1. CASE \/ Dispatch(c) \/ MarkStartAttempted(c) \/ SendStart(c) \/ ExecStart(c)
               \/ MarkStarted(c) \/ RefuseStart(c)
      BY <3>1, CheckInv, ExecStartInv, StartedInv
    <3>2. CASE FinishHandler(c) \/ FinishDispatch(c) \/ ReleaseGuard(c)
      BY <3>2, FinishHandlerInv, FinishDispatchInv, ReleaseGuardInv
    <3>3. CASE CheckRefused(c) \/ Serialize(c) \/ SendAck(c)
      BY <3>3, CheckRefusedInv, SerializeInv, SendAckInv
    <3>4. CASE ExecAck(c) \/ FinishAck(c) \/ ReleaseAckGuard(c)
      BY <3>4, ExecAckInv, FinishAckInv, ReleaseAckGuardInv
    <3>5. CASE Consume(c)
      BY <3>5, CallInv, CallAckInv DEF Consume
    <3>6. CASE Disturb(c)
      BY <3>6, DropCallInv, DropAckInv, FailStartInv, FailAckInv DEF Disturb
    <3> QED BY <2>2, <3>1, <3>2, <3>3, <3>4, <3>5, <3>6 DEF Progress
  <2>3. CASE LoseRow \/ TakeRow \/ RetireElsewhere \/ UNCHANGED vars
    BY <1>2, <2>1, <2>3, OthersInv
  <2> QED BY <1>2, <2>2, <2>3 DEF Next, vars
<1> QED BY <1>1, <1>2, PTL DEF Spec

\* No combination of refusals, repeats, drops and errors of the clones of a
\* task disarms the last obligation of its claim (ClaimObligation,
\* LeaseGuard): while the row is this claim's, someone answers for it.
THEOREM ObligationAlwaysKept == Spec => []ObligationKept
<1>1. ASSUME ClaimInv PROVE ObligationKept
  <2> SUFFICES ASSUME row \in {"Queued", "Running"}, ~Retired,
                      NEW e \in Call, pc[e] # "idle"
               PROVE  \E c \in Call : guard[c] = "armed" \/ ackGuard[c] = "armed" \/ Owed(c)
    BY DEF ObligationKept, Retired
  <2>1. TypeOK /\ RowInv /\ ~Done
    BY <1>1 DEF ClaimInv, RowInv
  <2>2. ASSUME NEW c \in Call, pc[c] \notin {"idle", "refused"}
        PROVE  guard[c] = "armed" \/ ackGuard[c] = "armed" \/ Owed(c)
    <3>1. StartInv(c) /\ AckInv(c)
      BY <1>1 DEF ClaimInv
    <3>2. CASE Owing(c)
      BY <2>1, <3>1, <3>2 DEF StartInv, TypeOK
    <3>3. CASE pc[c] = "handler" /\ kind[c] = "manual"
      BY <3>3 DEF Owed
    <3>4. CASE pc[c] = "finished"
      <4>1. kind[c] # "auto"
        BY <2>1, <3>1, <3>4 DEF StartInv
      <4>2. CASE ack[c] = "none"
        BY <3>4, <4>1, <4>2 DEF Owed
      <4>3. CASE ack[c] # "none"
        BY <2>1, <3>1, <3>4, <4>3 DEF AckInv, Serialized, TypeOK, AckPC
      <4> QED BY <4>2, <4>3
    <3> QED BY <2>1, <2>2, <3>2, <3>3, <3>4 DEF Owing, TypeOK, PC
  <2>3. CASE pc[e] # "refused"
    BY <2>2, <2>3
  <2>4. CASE pc[e] = "refused"
    <3>1. row = "Running"
      BY <1>1, <2>1, <2>4 DEF ClaimInv, StartInv
    <3>2. PICK d \in Call : pc[d] \in Starters
      BY <2>1, <3>1 DEF RowInv, Starters
    <3> QED BY <2>2, <3>2 DEF Starters
  <2> QED BY <2>3, <2>4
<1> QED BY <1>1, ClaimSafe, PTL

\* No order of the dispatches, starts and acknowledgements of its clones
\* retires the name of a worker that nothing disturbed.
THEOREM RetiredOnlyForCause == Spec => []RetiredForCause
<1>1. ClaimInv => RetiredForCause
  BY DEF ClaimInv, RowInv
<1> QED BY <1>1, ClaimSafe, PTL

\* What is acknowledged was executed under this claim
\* (ClaimAttempt::start_refused), and a repeat of an observed acknowledgement
\* is never taken for a stale one (ClaimAttempt::serialize).
THEOREM AcknowledgesOwnExecution == Spec => []AcksOwnExecution
<1>1. ASSUME ClaimInv, NEW c \in Call, ack[c] = "stale", row = "Acked"
      PROVE  /\ ~Done
             /\ \/ lease = "retired"
                \/ \E d \in Call \ {c} : ack[d] \in {"failed", "dropped"} /\ ackGuard[d] = "armed"
  <2>1. RowInv /\ \A d \in Call : AckInv(d)
    BY <1>1 DEF ClaimInv
  <2>2. ~Done /\ serial = c
    BY <1>1, <2>1 DEF AckInv, Serialized
  <2>3. ASSUME NEW d \in Call, ack[d] \in {"ok", "error"} PROVE FALSE
    <3>1. serial = d
      BY <2>1, <2>3 DEF AckInv, Serialized
    <3> QED BY <1>1, <2>2, <2>3, <3>1
  <2>4. Retired \/ \E d \in Call : AnswerLost(d)
    BY <1>1, <2>1, <2>2, <2>3 DEF RowInv
  <2> QED BY <1>1, <2>2, <2>3, <2>4 DEF AnswerLost, Retired
<1>2. ClaimInv => AcksOwnExecution
  BY <1>1 DEF AcksOwnExecution, OwnAckNeverStale, ClaimInv, RowInv
<1> QED BY <1>2, ClaimSafe, PTL

=============================================================================
