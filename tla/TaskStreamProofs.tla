-------------------------- MODULE TaskStreamProofs --------------------------
(***************************************************************************)
(* Proofs of the safety of TaskStream for any finite set of tasks, any     *)
(* listener, buffer, retry limit and poll strategy.                        *)
(*                                                                         *)
(* The inductive invariant: the state of a fetcher says whether it has a   *)
(* claim out or rows buffered, never both (FetcherInv); every claim is in  *)
(* one place (Separate) and was made (Past); a release that matched has    *)
(* taken the row from its claim (ReleaseInv); and every row that is still  *)
(* claimed is in the stream or was delivered, while the lease is active    *)
(* (Accounted).                                                            *)
(*                                                                         *)
(* The second part is about the listener that sends the hints              *)
(* (NotifyListener): what its place and its consumer's tell of the cancel  *)
(* flag, the published error and the waker (HintInv); and of every         *)
(* statement that it was announced chunk by chunk, and of every id on its  *)
(* way that it is due and of its queue (PathInv).                          *)
(***************************************************************************)
EXTENDS TaskStream, NotifyListener, FiniteSetTheorems, SequenceTheorems, WellFoundedInduction,
        TLAPS

Distinct(s) == \A i, j \in 1 .. Len(s) : s[i] = s[j] => i = j

\* The claims a fetcher holds, those in the decode stage, and those the
\* stream is done with.
Carried(f) == Range(buffer[f]) \union Range(sent[f].got)
Decoding   == {c \in Claim : c = inHand \/ (owed # None /\ c = owed.claim)}
Settled    == delivered \union released
Kept       == {c \in Claim : (\E f \in Fetcher : c \in Carried(f)) \/ c \in Decoding \union delivered}

FetcherInv ==
  /\ eager = "fetch" <=> sent["eager"].outcome # "idle"
  /\ lazy = "fetch" <=> sent["lazy"].outcome # "idle"
  /\ eager = "buffered" <=> buffer["eager"] # <<>>
  /\ lazy = "buffered" <=> buffer["lazy"] # <<>>
  /\ \A f \in Fetcher : sent[f].outcome \notin {"ok", "unknown"} => sent[f].got = <<>>

Separate ==
  /\ \A f \in Fetcher : Distinct(buffer[f]) /\ Distinct(sent[f].got)
  /\ \A f, g \in Fetcher : f # g => Carried(f) \intersect Carried(g) = {}
  /\ \A f \in Fetcher : Carried(f) \intersect (Decoding \union Settled) = {}
  /\ Decoding \intersect Settled = {}
  /\ delivered \intersect released = {}

Made(c) == c[2] <= claims[c[1]]

Past ==
  /\ \A f \in Fetcher : \A c \in Carried(f) : Made(c)
  /\ \A c \in Decoding \union Settled : Made(c)

ReleaseInv ==
  /\ owed # None => inHand = None
  /\ owed # None /\ owed.tx = "ok" /\ owed.matched = 1 => ~Holds(owed.claim)
  /\ stale => lease = "retired" /\ inHand = None

Accounted ==
  lease = "active" => \A t \in Task : row[t] = "Queued" => <<t, claims[t]>> \in Kept

StreamInv ==
  /\ TypeOK /\ PermitPerFetch
  /\ FetcherInv /\ Separate /\ Past /\ ReleaseInv /\ Accounted

-----------------------------------------------------------------------------
\* Sequences of claims.

LEMMA RangeOf ==
  ASSUME NEW S, NEW s \in Seq(S)
  PROVE  /\ Range(s) = {s[i] : i \in 1 .. Len(s)}
         /\ Range(s) \subseteq S
         /\ s = <<>> => Range(s) = {} /\ Distinct(s)
  BY DEF Range, Distinct

LEMMA Uncons ==
  ASSUME NEW S, NEW s \in Seq(S), s # <<>>, Distinct(s)
  PROVE  /\ Tail(s) \in Seq(S) /\ Distinct(Tail(s))
         /\ Head(s) \in S
         /\ Range(s) = {Head(s)} \union Range(Tail(s))
         /\ Head(s) \notin Range(Tail(s))
         /\ Tail(s) = <<>> <=> Len(s) = 1
<1>1. /\ Len(s) \in Nat /\ Len(s) > 0
      /\ Tail(s) \in Seq(S) /\ Len(Tail(s)) = Len(s) - 1
      /\ \A i \in 1 .. Len(s) - 1 : Tail(s)[i] = s[i + 1]
      /\ Head(s) = s[1] /\ Head(s) \in S
  OBVIOUS
<1>2. Range(s) = {s[i] : i \in 1 .. Len(s)} /\ Range(Tail(s)) = {Tail(s)[i] : i \in 1 .. Len(s) - 1}
  <2>1. Range(Tail(s)) = {Tail(s)[i] : i \in 1 .. Len(Tail(s))}
    BY <1>1, RangeOf
  <2> QED BY <1>1, <2>1, RangeOf
<1>3. Distinct(Tail(s))
  BY <1>1 DEF Distinct
<1>4. Head(s) \notin Range(Tail(s))
  <2>1. ASSUME NEW i \in 1 .. Len(s) - 1, s[1] = s[i + 1] PROVE FALSE
    BY <1>1, <2>1 DEF Distinct
  <2> QED BY <1>1, <1>2, <2>1
<1>5. Range(s) = {Head(s)} \union Range(Tail(s))
  <2>1. ASSUME NEW i \in 1 .. Len(s) PROVE s[i] \in {Head(s)} \union Range(Tail(s))
    <3>1. CASE i = 1
      BY <1>1, <3>1
    <3>2. CASE i # 1
      <4>1. i - 1 \in 1 .. Len(s) - 1 /\ s[i] = Tail(s)[i - 1]
        BY <1>1, <3>2
      <4> QED BY <1>2, <4>1
    <3> QED BY <3>1, <3>2
  <2>2. ASSUME NEW i \in 1 .. Len(s) - 1 PROVE Tail(s)[i] \in Range(s)
    <3>1. i + 1 \in 1 .. Len(s)
      BY <1>1
    <3> QED BY <1>1, <1>2, <3>1
  <2>3. Head(s) \in Range(s)
    BY <1>1, <1>2
  <2> QED BY <1>2, <2>1, <2>2, <2>3
<1>6. Tail(s) = <<>> <=> Len(s) = 1
  BY <1>1
<1> QED BY <1>1, <1>3, <1>4, <1>5, <1>6

\* A sequence without repetitions is as long as its range is large.
LEMMA RangeCount ==
  ASSUME NEW S, NEW s \in Seq(S), Distinct(s)
  PROVE  IsFiniteSet(Range(s)) /\ Cardinality(Range(s)) = Len(s)
<1>1. Len(s) \in Nat /\ Range(s) = {s[i] : i \in 1 .. Len(s)} /\ DOMAIN s = 1 .. Len(s)
  BY RangeOf
<1>2. s \in [1 .. Len(s) -> Range(s)]
  BY <1>1
<1>3. s \in Surjection(1 .. Len(s), Range(s)) /\ s \in Injection(1 .. Len(s), Range(s))
  BY <1>1, <1>2 DEF Surjection, Injection, IsInjective, Distinct
<1>4. IsFiniteSet(1 .. Len(s)) /\ Cardinality(1 .. Len(s)) = Len(s)
  BY <1>1, FS_Interval
<1> QED BY <1>3, <1>4, FS_Surjection

\* The orders of a finite set list it without repetition.
LEMMA Orders ==
  ASSUME NEW S, IsFiniteSet(S), NEW order \in SetToSeqs(S)
  PROVE  order \in Seq(S) /\ Range(order) = S /\ Distinct(order)
<1> DEFINE n == Cardinality(S)
<1>1. n \in Nat
  BY FS_CardinalityType
<1>2. order \in [1 .. n -> S] /\ \A i, j \in 1 .. n : i # j => order[i] # order[j]
  BY DEF SetToSeqs
<1>3. IsFiniteSet(1 .. n) /\ Cardinality(1 .. n) = n
  BY <1>1, FS_Interval
<1>4. order \in Injection(1 .. n, S)
  BY <1>2 DEF Injection, IsInjective
<1>5. order \in Surjection(1 .. n, S)
  BY <1>3, <1>4, FS_Injection
<1> HIDE DEF n
<1>6. order \in Seq(S) /\ Len(order) = n
  BY <1>1, <1>2
<1>7. Range(order) = S
  BY <1>2, <1>5 DEF Range, Surjection
<1> QED BY <1>2, <1>6, <1>7 DEF Distinct

LEMMA LargestBelow ==
  ASSUME NEW T \in SUBSET Nat, NEW b \in Nat, \A n \in T : n <= b, T # {}
  PROVE  Max(T) \in T
<1> DEFINE up(m) == {n \in T : m <= n}
           R == StrictSubsetOrdering(T)
           D == {up(m) : m \in T}
<1>1. IsFiniteSet(T)
  BY FS_BoundedSetOfNaturals
<1>2. IsWellFoundedOn(R, SUBSET T)
  BY <1>1, FS_StrictSubsetOrderingWellFounded, FS_FiniteSubsetsOfFinite
<1>3. PICK A \in D : \A B \in D : <<B, A>> \notin R
  <2>1. D \in SUBSET SUBSET T /\ D # {}
    OBVIOUS
  <2> HIDE DEF D, R
  <2> QED BY <1>2, <2>1, WFMin
<1>4. PICK m \in T : A = up(m)
  OBVIOUS
<1>5. ASSUME NEW n \in T, ~(m >= n) PROVE FALSE
  <2>1. m \in Nat /\ n \in Nat /\ m < n
    BY <1>5
  <2>2. up(n) \subseteq up(m) /\ m \in up(m) /\ m \notin up(n)
    <3>1. ASSUME NEW x \in T, n <= x PROVE m <= x
      <4>1. x \in Nat
        OBVIOUS
      <4> QED BY <2>1, <3>1, <4>1
    <3>2. m <= m /\ ~(n <= m)
      BY <2>1
    <3> QED BY <3>1, <3>2
  <2>3. up(n) \in SUBSET T /\ A \in SUBSET T /\ up(n) \in D
    OBVIOUS
  <2>4. <<up(n), A>> \in R
    <3> HIDE DEF up
    <3> QED BY <1>4, <2>2, <2>3 DEF StrictSubsetOrdering
  <2> QED BY <1>3, <2>3, <2>4
<1>6. \E x \in T : \A n \in T : x >= n
  BY <1>5
<1> QED BY <1>6 DEF Max

\* A chunk is a prefix of the hints without an error.
LEMMA ChunkOk ==
  ASSUME TypeOK
  PROVE  /\ ChunkLen \in 0 .. Len(hints)
         /\ \A i \in 1 .. ChunkLen : hints[i] # Error
<1> DEFINE T == {n \in 0 .. Len(hints) : n <= BufferSize /\ \A i \in 1 .. n : hints[i] # Error}
<1>1. Len(hints) \in Nat /\ BufferSize \in Nat
  BY BoundAssumption DEF TypeOK
<1>2. T \in SUBSET Nat /\ \A n \in T : n <= Len(hints)
  BY <1>1
<1>3. 0 \in T
  BY <1>1
<1>4. ChunkLen = Max(T)
  BY DEF ChunkLen
<1>5. Max(T) \in T
  <2> HIDE DEF T
  <2> QED BY <1>1, <1>2, <1>3, LargestBelow
<1> QED BY <1>4, <1>5

-----------------------------------------------------------------------------
\* Steps that move no claim.

LEMMA Typed ==
  ASSUME TypeOK
  PROVE  /\ \A f \in Fetcher :
              /\ buffer[f] \in Seq(Claim) /\ sent[f].got \in Seq(Claim)
              /\ sent[f].ids \in SUBSET Task /\ sent[f].outcome \in Outcome
              /\ Range(buffer[f]) \subseteq Claim /\ Range(sent[f].got) \subseteq Claim
              /\ Carried(f) \subseteq Claim
         /\ "eager" \in Fetcher /\ "lazy" \in Fetcher
         /\ Decoding \subseteq Claim /\ Settled \subseteq Claim
         /\ Decoding \subseteq {inHand} \union (IF owed = None THEN {} ELSE {owed.claim})
         /\ inHand # None => inHand \in Claim /\ inHand \in Decoding
         /\ owed # None => owed \in Owed /\ owed.claim \in Claim /\ owed.claim \in Decoding
<1>1. ASSUME NEW f \in Fetcher
      PROVE  /\ buffer[f] \in Seq(Claim) /\ sent[f].got \in Seq(Claim)
             /\ sent[f].ids \in SUBSET Task /\ sent[f].outcome \in Outcome
  BY DEF TypeOK
<1>2. ASSUME NEW f \in Fetcher
      PROVE  Range(buffer[f]) \subseteq Claim /\ Range(sent[f].got) \subseteq Claim
  BY <1>1, RangeOf
<1>3. inHand # None => inHand \in Claim /\ inHand \in Decoding
  BY DEF TypeOK, Decoding
<1>4. owed # None => owed \in Owed /\ owed.claim \in Claim
  BY DEF TypeOK, Owed
<1>5. owed # None => owed.claim \in Decoding
  BY <1>4 DEF Decoding
<1>6. Decoding \subseteq {inHand} \union (IF owed = None THEN {} ELSE {owed.claim})
  BY DEF Decoding
<1> QED BY <1>1, <1>2, <1>3, <1>4, <1>5, <1>6 DEF Carried, Decoding, Settled, Fetcher, TypeOK

LEMMA Unmoved ==
  ASSUME Separate, Past, Accounted,
         \A f \in Fetcher : buffer'[f] = buffer[f] /\ sent'[f].got = sent[f].got,
         Decoding' = Decoding, delivered' = delivered, released' = released, claims' = claims,
         lease' = "active" => lease = "active",
         \A t \in Task : row'[t] = "Queued" => row[t] = "Queued"
  PROVE  Separate' /\ Past' /\ Accounted'
<1>1. \A f \in Fetcher : Carried(f)' = Carried(f)
  BY DEF Carried
<1>2. "eager" \in Fetcher /\ "lazy" \in Fetcher /\ Fetcher' = Fetcher
  BY DEF Fetcher
<1>3. Settled' = Settled
  BY DEF Settled
<1>4. Kept' = Kept
  BY <1>1, <1>2 DEF Kept
<1>5. Separate'
  BY <1>1, <1>2, <1>3 DEF Separate
<1>6. Past'
  BY <1>1, <1>2, <1>3 DEF Past, Made
<1>7. Accounted'
  BY <1>4 DEF Accounted
<1> QED BY <1>5, <1>6, <1>7

\* The steps of the lease, the registration and the listener, which leave the
\* fetchers and the decode stage alone.
LEMMA QuietStep ==
  ASSUME StreamInv,
         \/ Register \/ FindRetired \/ RetiredElsewhere \/ DropStream
         \/ \E t \in Task : Swept(t)
         \/ \E h \in Hints : Hint(h),
         endless' = endless
  PROVE  StreamInv'
<1>1. /\ UNCHANGED <<claims, permits, fetches, eager, lazy, sent, buffer, inHand, owed, delivered,
                     released, stale>>
      /\ lease' \in {"active", "retired"} /\ reg' \in {"none", "ok", "refused"}
      /\ stream' \in {"live", "ended", "dropped"}
      /\ row' = row \/ \E t \in Task : row' = [row EXCEPT ![t] = "Other"]
      /\ UNCHANGED <<hints, hintCount>> \/ \E h \in Hints : Hint(h)
      /\ lease = "retired" => lease' = "retired"
  BY DEF StreamInv, TypeOK, Register, FindRetired, RetiredElsewhere, DropStream, RetiredOnDrop,
         Swept, Hint, fetchVars
<1>2. row \in [Task -> {"Pending", "Queued", "Other"}]
  BY DEF StreamInv, TypeOK
<1>3. /\ row' \in [Task -> {"Pending", "Queued", "Other"}]
      /\ \A t \in Task : row'[t] = "Queued" => row[t] = "Queued"
  BY <1>1, <1>2
<1>4. hints' \in Seq(Task \union {Error}) /\ hintCount' \in 0 .. MaxHints
  <2>1. CASE UNCHANGED <<hints, hintCount>>
    BY <2>1 DEF StreamInv, TypeOK
  <2>2. ASSUME NEW h \in Hints, Hint(h) PROVE hints' \in Seq(Task \union {Error}) /\ hintCount' \in 0 .. MaxHints
    <3>1. h \in Seq(Task \union {Error}) /\ hints \in Seq(Task \union {Error})
      BY HintAssumption DEF StreamInv, TypeOK
    <3>2. hintCount \in 0 .. MaxHints /\ MaxHints \in Nat
      BY BoundAssumption DEF StreamInv, TypeOK
    <3> QED BY <2>2, <3>1, <3>2 DEF Hint
  <2> QED BY <1>1, <2>1, <2>2
<1>5. TypeOK'
  BY <1>1, <1>3, <1>4 DEF StreamInv, TypeOK
<1>6. PermitPerFetch' /\ FetcherInv'
  BY <1>1 DEF StreamInv, PermitPerFetch, FetcherInv
<1>7. Decoding' = Decoding
  BY <1>1 DEF Decoding
<1>8. Separate' /\ Past' /\ Accounted'
  BY <1>1, <1>3, <1>7, Unmoved DEF StreamInv, TypeOK
<1>9. ReleaseInv'
  <2>1. owed # None => owed.claim[1] \in Task
    BY Typed DEF StreamInv, Claim
  <2> QED BY <1>1, <1>3, <2>1 DEF StreamInv, ReleaseInv, Holds
<1> QED BY <1>5, <1>6, <1>8, <1>9 DEF StreamInv

\* A fetch is started, or the strategy ends.
LEMMA EagerStep ==
  ASSUME StreamInv, Permit \/ StrategyExhausted, endless' = endless
  PROVE  StreamInv'
<1>1. /\ UNCHANGED <<row, claims, lease, reg, stream, lazy, buffer, hints, hintCount, inHand, owed,
                     delivered, released, stale>>
      /\ eager = "wait"
  BY DEF Permit, StrategyExhausted
<1>2. sent["eager"].outcome = "idle" /\ buffer["eager"] = <<>> /\ sent["eager"].got = <<>>
  BY <1>1, Typed DEF StreamInv, FetcherInv
<1>3. sent \in [Fetcher -> [ids : SUBSET Task, outcome : Outcome, got : Seq(Claim)]]
  BY DEF StreamInv, TypeOK
<1>4. /\ sent' \in [Fetcher -> [ids : SUBSET Task, outcome : Outcome, got : Seq(Claim)]]
      /\ \A f \in Fetcher : sent'[f].got = sent[f].got
      /\ sent'["lazy"] = sent["lazy"]
      /\ \/ eager' = "fetch" /\ sent'["eager"].outcome = "sent"
         \/ eager' = "ended" /\ sent' = sent
  <2>1. CASE Permit
    <3> DEFINE out == Asked(Task)
    <3>1. eager' = "fetch" /\ sent' = [sent EXCEPT !["eager"] = out]
      BY <2>1 DEF Permit, StartFetch
    <3>2. /\ out \in [ids : SUBSET Task, outcome : Outcome, got : Seq(Claim)]
          /\ out.outcome = "sent" /\ out.got = <<>>
      BY DEF Outcome, Asked
    <3> HIDE DEF out
    <3> QED BY <1>2, <1>3, <3>1, <3>2 DEF Fetcher
  <2>2. CASE StrategyExhausted
    BY <1>3, <2>2 DEF StrategyExhausted
  <2> QED BY <2>1, <2>2
<1>5. /\ permits' \in Nat /\ (endless \/ permits' <= Permits) /\ fetches' \in Nat
      /\ fetches' <= permits'
  <2>1. /\ permits \in Nat /\ fetches \in Nat /\ fetches <= permits /\ Permits \in Nat
        /\ endless \/ permits <= Permits
    BY BoundAssumption DEF StreamInv, TypeOK, PermitPerFetch
  <2> QED BY <2>1 DEF Permit, StartFetch, StrategyExhausted
<1>6. TypeOK'
  BY <1>1, <1>4, <1>5 DEF StreamInv, TypeOK
<1>7. FetcherInv'
  <2>1. "lazy" \in Fetcher /\ "eager" \in Fetcher /\ "lazy" # "eager"
    BY DEF Fetcher
  <2>2. \A f \in Fetcher : sent'[f].outcome \notin {"ok", "unknown"} => sent'[f].got = <<>>
    BY <1>2, <1>4 DEF StreamInv, FetcherInv, Fetcher
  <2> QED BY <1>1, <1>2, <1>4, <2>2 DEF StreamInv, FetcherInv
<1>8. Decoding' = Decoding
  BY <1>1 DEF Decoding
<1>9. Separate' /\ Past' /\ Accounted'
  BY <1>1, <1>4, <1>8, Unmoved DEF StreamInv
<1>10. ReleaseInv'
  BY <1>1 DEF StreamInv, ReleaseInv, Holds
<1> QED BY <1>5, <1>6, <1>7, <1>9, <1>10 DEF StreamInv, PermitPerFetch

\* The lazy fetcher takes a chunk of the hints.
LEMMA ChunkStep ==
  ASSUME StreamInv, TakeChunk, endless' = endless
  PROVE  StreamInv'
<1> DEFINE n    == ChunkLen
           rest == SubSeq(hints, n + 1, Len(hints))
           ids  == Range(SubSeq(hints, 1, n))
           out  == Asked(ids)
<1>1. /\ UNCHANGED <<row, claims, lease, reg, stream, permits, fetches, eager, buffer, hintCount,
                     inHand, owed, delivered, released, stale>>
      /\ lazy = "idle" /\ hints # <<>>
      /\ \/ hints' = rest
         \/ n < Len(hints) /\ hints' = Tail(rest)
      /\ \/ UNCHANGED <<lazy, sent>>
         \/ lazy' = "fetch" /\ sent' = [sent EXCEPT !["lazy"] = out]
  BY DEF TakeChunk
<1>2. sent["lazy"].outcome = "idle" /\ buffer["lazy"] = <<>> /\ sent["lazy"].got = <<>>
  BY <1>1, Typed DEF StreamInv, FetcherInv
<1>3. n \in 0 .. Len(hints) /\ (\A i \in 1 .. n : hints[i] # Error) /\ Len(hints) \in Nat
      /\ hints \in Seq(Task \union {Error})
  BY ChunkOk DEF StreamInv, TypeOK
<1> HIDE DEF n
<1>4. hints' \in Seq(Task \union {Error})
  <2>1. \A i \in n + 1 .. Len(hints) : hints[i] \in Task \union {Error}
    BY <1>3
  <2>2. rest \in Seq(Task \union {Error}) /\ (n < Len(hints) => Len(rest) > 0)
    BY <1>3, <2>1, SubSeqProperties
  <2> HIDE DEF rest
  <2> QED BY <1>1, <2>2
<1>5. ids \in SUBSET Task
  <2>1. \A i \in 1 .. n : hints[i] \in Task
    BY <1>3
  <2>2. SubSeq(hints, 1, n) \in Seq(Task)
    BY <1>3, <2>1, SubSeqProperties
  <2> QED BY <2>2, RangeOf
<1>6. out \in [ids : SUBSET Task, outcome : Outcome, got : Seq(Claim)]
  BY <1>5 DEF Outcome, Asked
<1> HIDE DEF rest, ids
<1>7. /\ sent' \in [Fetcher -> [ids : SUBSET Task, outcome : Outcome, got : Seq(Claim)]]
      /\ \A f \in Fetcher : sent'[f].got = sent[f].got
      /\ sent'["eager"] = sent["eager"]
      /\ \/ lazy' = "fetch" /\ sent'["lazy"].outcome = "sent"
         \/ UNCHANGED <<lazy, sent>>
  <2>1. sent \in [Fetcher -> [ids : SUBSET Task, outcome : Outcome, got : Seq(Claim)]]
    BY DEF StreamInv, TypeOK
  <2>2. out.got = <<>> /\ out.outcome = "sent"
    BY DEF Asked
  <2> HIDE DEF out
  <2> QED BY <1>1, <1>2, <1>6, <2>1, <2>2 DEF Fetcher
<1>8. TypeOK'
  BY <1>1, <1>4, <1>7 DEF StreamInv, TypeOK
<1>9. FetcherInv'
  <2>1. \A f \in Fetcher : sent'[f].outcome \notin {"ok", "unknown"} => sent'[f].got = <<>>
    BY <1>2, <1>7 DEF StreamInv, FetcherInv, Fetcher
  <2> QED BY <1>1, <1>2, <1>7, <2>1 DEF StreamInv, FetcherInv
<1>10. Decoding' = Decoding
  BY <1>1 DEF Decoding
<1>11. Separate' /\ Past' /\ Accounted'
  BY <1>1, <1>7, <1>10, Unmoved DEF StreamInv
<1>12. ReleaseInv' /\ PermitPerFetch'
  BY <1>1 DEF StreamInv, ReleaseInv, Holds, PermitPerFetch
<1> QED BY <1>8, <1>9, <1>11, <1>12 DEF StreamInv

-----------------------------------------------------------------------------
\* The fetchers' claims.

\* A fetcher has a claim out or rows buffered, never both.
LEMMA OneOrTheOther ==
  ASSUME StreamInv, NEW f \in Fetcher
  PROVE  /\ sent[f].outcome # "idle" => buffer[f] = <<>>
         /\ buffer[f] # <<>> => sent[f].outcome = "idle" /\ sent[f].got = <<>>
         /\ sent[f].got # <<>> => sent[f].outcome \in {"ok", "unknown"} /\ buffer[f] = <<>>
<1>1. f = "eager" \/ f = "lazy"
  BY DEF Fetcher
<1>2. sent[f].outcome # "idle" => buffer[f] = <<>>
  BY <1>1 DEF StreamInv, FetcherInv
<1>3. sent[f].outcome \notin {"ok", "unknown"} => sent[f].got = <<>>
  BY DEF StreamInv, FetcherInv
<1> QED BY <1>2, <1>3

\* A commit claims rows that were never claimed with these numbers.
LEMMA CommitStep ==
  ASSUME StreamInv, NEW f \in Fetcher, Commit(f), endless' = endless
  PROVE  StreamInv'
<1>1. PICK take \in SUBSET {t \in sent[f].ids : row[t] = "Pending" /\ claims[t] < MaxClaims} :
        /\ row' = [t \in Task |-> IF t \in take THEN "Queued" ELSE row[t]]
        /\ claims' = [t \in Task |-> IF t \in take THEN claims[t] + 1 ELSE claims[t]]
        /\ \E order \in SetToSeqs({<<t, claims[t] + 1>> : t \in take}), o \in {"ok", "unknown"} :
             sent' = [sent EXCEPT ![f].outcome = o, ![f].got = order]
  BY DEF Commit, Claimable
<1> DEFINE new == {<<t, claims[t] + 1>> : t \in take}
<1>2. PICK order \in SetToSeqs(new), o \in {"ok", "unknown"} :
        sent' = [sent EXCEPT ![f].outcome = o, ![f].got = order]
  BY <1>1
<1>3. /\ UNCHANGED <<lease, reg, stream, permits, fetches, eager, lazy, buffer, hints, hintCount,
                     inHand, owed, delivered, released, stale>>
      /\ sent[f].outcome = "sent"
  BY DEF Commit
<1>4. /\ row \in [Task -> {"Pending", "Queued", "Other"}]
      /\ claims \in [Task -> 0 .. MaxClaims] /\ MaxClaims \in Nat
      /\ sent \in [Fetcher -> [ids : SUBSET Task, outcome : Outcome, got : Seq(Claim)]]
      /\ sent[f].ids \in SUBSET Task
  BY BoundAssumption DEF StreamInv, TypeOK
<1>5. take \in SUBSET Task /\ \A t \in take : row[t] = "Pending" /\ claims[t] < MaxClaims
  BY <1>4
<1>6. new \subseteq Claim /\ IsFiniteSet(new)
  <2>1. new \subseteq Claim
    BY <1>4, <1>5 DEF Claim
  <2>2. IsFiniteSet(take)
    BY <1>5, TaskAssumption, FS_Subset
  <2>3. [t \in take |-> <<t, claims[t] + 1>>] \in Surjection(take, new)
    BY DEF Surjection
  <2> QED BY <2>1, <2>2, <2>3, FS_Surjection
<1>7. \A c \in new : c[1] \in take /\ c[2] = claims[c[1]] + 1
  OBVIOUS
<1>8. \A t \in take : <<t, claims[t] + 1>> \in new
  OBVIOUS
<1> HIDE DEF new
<1>9. order \in Seq(Claim) /\ Range(order) = new /\ Distinct(order)
  <2>1. order \in Seq(new) /\ Range(order) = new /\ Distinct(order)
    BY <1>6, Orders
  <2> QED BY <1>6, <2>1
<1>10. /\ sent' \in [Fetcher -> [ids : SUBSET Task, outcome : Outcome, got : Seq(Claim)]]
       /\ sent'[f].outcome = o /\ sent'[f].got = order
       /\ \A g \in Fetcher : g # f => sent'[g] = sent[g]
  BY <1>2, <1>4, <1>9 DEF Outcome
<1>11. /\ row' \in [Task -> {"Pending", "Queued", "Other"}]
       /\ claims' \in [Task -> 0 .. MaxClaims]
       /\ \A t \in Task : claims[t] <= claims'[t]
       /\ \A t \in take : row'[t] = "Queued" /\ claims'[t] = claims[t] + 1
       /\ \A t \in Task \ take : row'[t] = row[t] /\ claims'[t] = claims[t]
  BY <1>1, <1>4, <1>5
<1>12. TypeOK' /\ PermitPerFetch'
  BY <1>3, <1>10, <1>11 DEF StreamInv, TypeOK, PermitPerFetch
<1>13. FetcherInv'
  <2>1. sent'[f].outcome # "idle" /\ sent'[f].outcome \in {"ok", "unknown"}
    BY <1>10
  <2>2. \A g \in Fetcher : sent'[g].outcome # "idle" <=> sent[g].outcome # "idle"
    BY <1>3, <1>10, <2>1
  <2>3. \A g \in Fetcher : sent'[g].outcome \notin {"ok", "unknown"} => sent'[g].got = <<>>
    BY <1>10, <2>1 DEF StreamInv, FetcherInv
  <2>4. "eager" \in Fetcher /\ "lazy" \in Fetcher
    BY DEF Fetcher
  <2> QED BY <1>3, <2>2, <2>3, <2>4 DEF StreamInv, FetcherInv
<1>14. buffer[f] = <<>> /\ sent[f].got = <<>>
  BY <1>3, OneOrTheOther
<1>15. /\ Carried(f)' = new /\ \A g \in Fetcher : g # f => Carried(g)' = Carried(g)
       /\ Carried(f) = {}
  <2>1. Range(<<>>) = {}
    BY DEF Range
  <2> QED BY <1>3, <1>9, <1>10, <1>14, <2>1 DEF Carried
<1>16. Decoding' = Decoding /\ Settled' = Settled
  BY <1>3 DEF Decoding, Settled
<1>17. ASSUME NEW c \in Claim, Made(c)
       PROVE  c \notin new /\ Made(c)'
  <2>1. c[1] \in Task /\ c[2] \in Nat /\ claims[c[1]] \in Nat /\ claims'[c[1]] \in Nat
    BY <1>4, <1>11 DEF Claim
  <2>2. c[2] <= claims[c[1]] /\ claims[c[1]] <= claims'[c[1]]
    BY <1>11, <1>17, <2>1 DEF Made
  <2> QED BY <1>7, <2>1, <2>2 DEF Made
<1>18. /\ \A g \in Fetcher : Carried(g) \subseteq Claim
       /\ Decoding \subseteq Claim /\ Settled \subseteq Claim
  BY Typed DEF StreamInv
<1>19. Separate'
  <2>1. \A g \in Fetcher : g # f => new \intersect Carried(g) = {}
    BY <1>17, <1>18 DEF StreamInv, Past
  <2>2. new \intersect (Decoding \union Settled) = {}
    BY <1>17, <1>18 DEF StreamInv, Past
  <2>3. \A g \in Fetcher : Distinct(buffer'[g]) /\ Distinct(sent'[g].got)
    BY <1>3, <1>9, <1>10 DEF StreamInv, Separate
  <2>4. \A g, h \in Fetcher : g # h => Carried(g)' \intersect Carried(h)' = {}
    BY <1>15, <2>1 DEF StreamInv, Separate
  <2>5. \A g \in Fetcher : Carried(g)' \intersect (Decoding \union Settled) = {}
    BY <1>15, <2>2 DEF StreamInv, Separate
  <2> QED BY <1>3, <1>16, <2>3, <2>4, <2>5 DEF StreamInv, Separate
<1>20. Past'
  <2>1. \A c \in new : Made(c)'
    <3>1. ASSUME NEW c \in new PROVE Made(c)'
      <4>1. c[1] \in take /\ c[2] = claims[c[1]] + 1 /\ claims'[c[1]] = claims[c[1]] + 1
        BY <1>7, <1>11
      <4>2. claims[c[1]] \in Nat
        BY <1>4, <1>5, <4>1
      <4> QED BY <4>1, <4>2 DEF Made
    <3> QED BY <3>1
  <2>2. \A g \in Fetcher : \A c \in Carried(g)' : Made(c)'
    BY <1>15, <1>17, <1>18, <2>1 DEF StreamInv, Past
  <2> QED BY <1>16, <1>17, <1>18, <2>2 DEF StreamInv, Past
<1>21. ReleaseInv'
  <2>1. ASSUME owed # None, ~Holds(owed.claim) PROVE ~Holds(owed.claim)'
    <3>1. owed.claim \in Claim /\ Made(owed.claim)
      BY <2>1, Typed DEF StreamInv, Past
    <3>2. owed.claim[1] \in Task /\ owed.claim[2] \in Nat
      BY <3>1 DEF Claim
    <3>3. CASE owed.claim[1] \in take
      <4>1. claims'[owed.claim[1]] = claims[owed.claim[1]] + 1 /\ claims[owed.claim[1]] \in Nat
        BY <1>4, <1>11, <3>2, <3>3
      <4>2. owed.claim[2] <= claims[owed.claim[1]]
        BY <3>1 DEF Made
      <4> QED BY <1>3, <3>2, <4>1, <4>2 DEF Holds
    <3>4. CASE owed.claim[1] \notin take
      BY <1>3, <1>11, <2>1, <3>2, <3>4 DEF Holds
    <3> QED BY <3>3, <3>4
  <2> QED BY <1>3, <2>1 DEF StreamInv, ReleaseInv
<1>22. Accounted'
  <2>1. Kept \subseteq Kept' /\ new \subseteq Kept'
    BY <1>3, <1>6, <1>15, <1>16 DEF Kept
  <2>2. ASSUME NEW t \in Task, lease = "active", row'[t] = "Queued"
        PROVE  <<t, claims'[t]>> \in Kept'
    <3>1. CASE t \in take
      BY <1>8, <1>11, <2>1, <3>1
    <3>2. CASE t \notin take
      BY <1>11, <2>1, <2>2, <3>2 DEF StreamInv, Accounted
    <3> QED BY <3>1, <3>2
  <2> QED BY <1>3, <2>2 DEF Accounted
<1> QED BY <1>12, <1>13, <1>19, <1>20, <1>21, <1>22 DEF StreamInv

\* A failed commit claims nothing.
LEMMA CommitFailsStep ==
  ASSUME StreamInv, NEW f \in Fetcher, CommitFails(f), endless' = endless
  PROVE  StreamInv'
<1>1. PICK o \in {"failed", "unknown"} : sent' = [sent EXCEPT ![f].outcome = o]
  BY DEF CommitFails
<1>2. /\ UNCHANGED <<row, claims, lease, reg, stream, permits, fetches, eager, lazy, buffer, hints,
                     hintCount, inHand, owed, delivered, released, stale>>
      /\ sent[f].outcome = "sent"
  BY DEF CommitFails
<1>3. sent \in [Fetcher -> [ids : SUBSET Task, outcome : Outcome, got : Seq(Claim)]]
  BY DEF StreamInv, TypeOK
<1>4. /\ sent' \in [Fetcher -> [ids : SUBSET Task, outcome : Outcome, got : Seq(Claim)]]
      /\ \A g \in Fetcher : sent'[g].got = sent[g].got
      /\ sent'[f].outcome = o /\ \A g \in Fetcher : g # f => sent'[g] = sent[g]
  BY <1>1, <1>3 DEF Outcome
<1>5. TypeOK' /\ PermitPerFetch'
  BY <1>2, <1>4 DEF StreamInv, TypeOK, PermitPerFetch
<1>6. FetcherInv'
  <2>1. \A g \in Fetcher : sent'[g].outcome # "idle" <=> sent[g].outcome # "idle"
    BY <1>2, <1>4
  <2>2. sent[f].got = <<>>
    BY <1>2 DEF StreamInv, FetcherInv
  <2>3. \A g \in Fetcher : sent'[g].outcome \notin {"ok", "unknown"} => sent'[g].got = <<>>
    BY <1>4, <2>2 DEF StreamInv, FetcherInv
  <2>4. "eager" \in Fetcher /\ "lazy" \in Fetcher
    BY DEF Fetcher
  <2> QED BY <1>2, <2>1, <2>3, <2>4 DEF StreamInv, FetcherInv
<1>7. Decoding' = Decoding
  BY <1>2 DEF Decoding
<1>8. Separate' /\ Past' /\ Accounted'
  BY <1>2, <1>4, <1>7, Unmoved DEF StreamInv
<1>9. ReleaseInv'
  BY <1>2 DEF StreamInv, ReleaseInv, Holds
<1> QED BY <1>5, <1>6, <1>8, <1>9 DEF StreamInv

-----------------------------------------------------------------------------
\* The fetchers' polls.

\* The state of a fetcher after its claim was answered.
LEMMA AnsweredState ==
  ASSUME StreamInv, NEW f \in Fetcher, sent[f].outcome # "idle",
         sent' = [sent EXCEPT ![f] = Idle],
         buffer' \in [Fetcher -> Seq(Claim)], \A g \in Fetcher : g # f => buffer'[g] = buffer[g],
         IF buffer'[f] = <<>> THEN Rest(f) ELSE Keep(f)
  PROVE  /\ FetcherInv'
         /\ eager' \in {"wait", "fetch", "buffered", "ended"} /\ lazy' \in {"idle", "fetch", "buffered"}
         /\ sent' \in [Fetcher -> [ids : SUBSET Task, outcome : Outcome, got : Seq(Claim)]]
         /\ sent'[f].got = <<>> /\ \A g \in Fetcher : g # f => sent'[g] = sent[g]
<1>1. /\ sent \in [Fetcher -> [ids : SUBSET Task, outcome : Outcome, got : Seq(Claim)]]
      /\ eager \in {"wait", "fetch", "buffered", "ended"} /\ lazy \in {"idle", "fetch", "buffered"}
  BY DEF StreamInv, TypeOK
<1>2. /\ Idle \in [ids : SUBSET Task, outcome : Outcome, got : Seq(Claim)]
      /\ Idle.got = <<>> /\ Idle.outcome = "idle"
  BY DEF Idle, Outcome
<1>3. /\ sent' \in [Fetcher -> [ids : SUBSET Task, outcome : Outcome, got : Seq(Claim)]]
      /\ sent'[f].got = <<>> /\ sent'[f].outcome = "idle"
      /\ \A g \in Fetcher : g # f => sent'[g] = sent[g]
  <2> HIDE DEF Idle
  <2> QED BY <1>1, <1>2
<1>4. /\ f = "eager" => /\ lazy' = lazy /\ eager' \in {"wait", "buffered"}
                        /\ eager' = "buffered" <=> buffer'["eager"] # <<>>
      /\ f = "lazy" => /\ eager' = eager /\ lazy' \in {"idle", "buffered"}
                       /\ lazy' = "buffered" <=> buffer'["lazy"] # <<>>
  BY DEF Rest, Keep
<1>5. \A g \in Fetcher : sent'[g].outcome \notin {"ok", "unknown"} => sent'[g].got = <<>>
  BY <1>3 DEF StreamInv, FetcherInv
<1>6. FetcherInv'
  <2>1. "eager" \in Fetcher /\ "lazy" \in Fetcher /\ "eager" # "lazy" /\ (f = "eager" \/ f = "lazy")
    BY DEF Fetcher
  <2>2. CASE f = "eager"
    <3>1. sent'["lazy"] = sent["lazy"] /\ buffer'["lazy"] = buffer["lazy"] /\ lazy' = lazy
      BY <1>3, <1>4, <2>1, <2>2
    <3> QED BY <1>3, <1>4, <1>5, <2>2, <3>1 DEF StreamInv, FetcherInv
  <2>3. CASE f = "lazy"
    <3>1. sent'["eager"] = sent["eager"] /\ buffer'["eager"] = buffer["eager"] /\ eager' = eager
      BY <1>3, <1>4, <2>1, <2>3
    <3> QED BY <1>3, <1>4, <1>5, <2>3, <3>1 DEF StreamInv, FetcherInv
  <2> QED BY <2>1, <2>2, <2>3
<1> QED BY <1>1, <1>3, <1>4, <1>6 DEF Fetcher

\* The rows of a claim that succeeded are buffered.
LEMMA FetchOkStep ==
  ASSUME StreamInv, NEW f \in Fetcher, FetchOk(f), endless' = endless
  PROVE  StreamInv'
<1>1. /\ UNCHANGED <<row, claims, lease, reg, stream, permits, fetches, hints, hintCount, inHand,
                     owed, delivered, released, stale>>
      /\ sent[f].outcome = "ok" /\ sent' = [sent EXCEPT ![f] = Idle]
      /\ buffer' = [buffer EXCEPT ![f] = sent[f].got]
      /\ IF sent[f].got = <<>> THEN Rest(f) ELSE Keep(f)
  BY DEF FetchOk
<1>2. buffer \in [Fetcher -> Seq(Claim)] /\ sent[f].got \in Seq(Claim) /\ buffer[f] = <<>>
  BY <1>1, Typed, OneOrTheOther DEF StreamInv, TypeOK
<1>3. /\ buffer' \in [Fetcher -> Seq(Claim)] /\ buffer'[f] = sent[f].got
      /\ \A g \in Fetcher : g # f => buffer'[g] = buffer[g]
  BY <1>1, <1>2
<1>4. /\ FetcherInv'
      /\ eager' \in {"wait", "fetch", "buffered", "ended"} /\ lazy' \in {"idle", "fetch", "buffered"}
      /\ sent' \in [Fetcher -> [ids : SUBSET Task, outcome : Outcome, got : Seq(Claim)]]
      /\ sent'[f].got = <<>> /\ \A g \in Fetcher : g # f => sent'[g] = sent[g]
  BY <1>1, <1>3, AnsweredState
<1>5. TypeOK' /\ PermitPerFetch' /\ ReleaseInv'
  BY <1>1, <1>3, <1>4 DEF StreamInv, TypeOK, PermitPerFetch, ReleaseInv, Holds
<1>6. \A g \in Fetcher : Carried(g)' = Carried(g)
  <2>1. Range(<<>>) = {}
    BY DEF Range
  <2> QED BY <1>2, <1>3, <1>4, <2>1 DEF Carried
<1>7. Decoding' = Decoding /\ Settled' = Settled /\ Kept' = Kept
  BY <1>1, <1>6 DEF Decoding, Settled, Kept
<1>8. Separate'
  <2>1. \A g \in Fetcher : Distinct(buffer'[g]) /\ Distinct(sent'[g].got)
    BY <1>2, <1>3, <1>4 DEF StreamInv, Separate
  <2> QED BY <1>1, <1>6, <1>7, <2>1 DEF StreamInv, Separate
<1>9. Past' /\ Accounted'
  BY <1>1, <1>6, <1>7 DEF StreamInv, Past, Made, Accounted
<1> QED BY <1>4, <1>5, <1>8, <1>9 DEF StreamInv

\* A failed claim took nothing; one of unknown outcome may have, and retires
\* the lease.
LEMMA FetchErrorStep ==
  ASSUME StreamInv, NEW f \in Fetcher, FetchError(f), endless' = endless
  PROVE  StreamInv'
<1>1. /\ UNCHANGED <<row, claims, reg, stream, permits, fetches, buffer, hints, hintCount, inHand,
                     owed, delivered, released, stale>>
      /\ sent[f].outcome \in {"failed", "unknown"} /\ sent' = [sent EXCEPT ![f] = Idle]
      /\ lease' = IF sent[f].outcome = "unknown" THEN "retired" ELSE lease
      /\ Rest(f)
  BY DEF FetchError, AfterOutcome, AfterError
<1>2. buffer \in [Fetcher -> Seq(Claim)] /\ buffer[f] = <<>> /\ lease \in {"active", "retired"}
  BY <1>1, OneOrTheOther DEF StreamInv, TypeOK
<1>3. /\ FetcherInv'
      /\ eager' \in {"wait", "fetch", "buffered", "ended"} /\ lazy' \in {"idle", "fetch", "buffered"}
      /\ sent' \in [Fetcher -> [ids : SUBSET Task, outcome : Outcome, got : Seq(Claim)]]
      /\ sent'[f].got = <<>> /\ \A g \in Fetcher : g # f => sent'[g] = sent[g]
  BY <1>1, <1>2, AnsweredState
<1>4. TypeOK' /\ PermitPerFetch' /\ ReleaseInv'
  BY <1>1, <1>2, <1>3 DEF StreamInv, TypeOK, PermitPerFetch, ReleaseInv, Holds
<1>5. Carried(f)' = {} /\ \A g \in Fetcher : g # f => Carried(g)' = Carried(g)
  <2>1. Range(<<>>) = {}
    BY DEF Range
  <2> QED BY <1>1, <1>2, <1>3, <2>1 DEF Carried
<1>6. Decoding' = Decoding /\ Settled' = Settled
  BY <1>1 DEF Decoding, Settled
<1>7. Separate'
  <2>1. \A g \in Fetcher : Distinct(buffer'[g]) /\ Distinct(sent'[g].got)
    BY <1>1, <1>2, <1>3 DEF StreamInv, Separate
  <2> QED BY <1>1, <1>5, <1>6, <2>1 DEF StreamInv, Separate
<1>8. Past'
  BY <1>1, <1>5, <1>6 DEF StreamInv, Past, Made
<1>9. Accounted'
  <2>1. CASE sent[f].outcome = "unknown"
    BY <1>1, <2>1 DEF Accounted
  <2>2. CASE sent[f].outcome = "failed"
    <3>1. sent[f].got = <<>>
      BY <2>2, OneOrTheOther
    <3>2. Carried(f) = {}
      <4>1. Range(<<>>) = {}
        BY DEF Range
      <4> QED BY <1>2, <3>1, <4>1 DEF Carried
    <3>3. Kept' = Kept
      BY <1>1, <1>5, <1>6, <3>2 DEF Kept
    <3> QED BY <1>1, <2>2, <3>3 DEF StreamInv, Accounted
  <2> QED BY <1>1, <2>1, <2>2
<1> QED BY <1>3, <1>4, <1>7, <1>8, <1>9 DEF StreamInv

\* A buffered claim goes to the decode stage.
LEMMA YieldStep ==
  ASSUME StreamInv, NEW f \in Fetcher, Yield(f), endless' = endless
  PROVE  StreamInv'
<1> DEFINE c == Head(buffer[f])
<1>1. /\ UNCHANGED <<row, claims, lease, reg, stream, permits, hints, hintCount, owed, delivered,
                     released, stale, sent, fetches>>
      /\ inHand = None /\ owed = None /\ lease = "active" /\ buffer[f] # <<>>
      /\ inHand' = c /\ buffer' = [buffer EXCEPT ![f] = Tail(buffer[f])]
      /\ IF Len(buffer[f]) = 1 THEN Rest(f) ELSE UNCHANGED <<eager, lazy>>
  BY DEF Yield, AfterDrain, Popped, Polling, Asking
<1>2. buffer \in [Fetcher -> Seq(Claim)] /\ buffer[f] \in Seq(Claim) /\ Distinct(buffer[f])
  BY DEF StreamInv, TypeOK, Separate
<1>3. /\ Tail(buffer[f]) \in Seq(Claim) /\ Distinct(Tail(buffer[f]))
      /\ c \in Claim /\ Range(buffer[f]) = {c} \union Range(Tail(buffer[f]))
      /\ c \notin Range(Tail(buffer[f]))
      /\ Tail(buffer[f]) = <<>> <=> Len(buffer[f]) = 1
  BY <1>1, <1>2, Uncons
<1>4. sent[f].outcome = "idle" /\ sent[f].got = <<>>
  BY <1>1, OneOrTheOther
<1> HIDE DEF c
<1>5. /\ buffer' \in [Fetcher -> Seq(Claim)] /\ buffer'[f] = Tail(buffer[f])
      /\ \A g \in Fetcher : g # f => buffer'[g] = buffer[g]
  BY <1>1, <1>2, <1>3
<1>6. /\ f = "eager" => /\ lazy' = lazy /\ eager' \in {"wait", "buffered"}
                        /\ eager' = "buffered" <=> buffer'["eager"] # <<>>
      /\ f = "lazy" => /\ eager' = eager /\ lazy' \in {"idle", "buffered"}
                       /\ lazy' = "buffered" <=> buffer'["lazy"] # <<>>
  <2>1. (f = "eager" => eager = "buffered") /\ (f = "lazy" => lazy = "buffered")
    BY <1>1 DEF StreamInv, FetcherInv
  <2>2. buffer'[f] = <<>> <=> Len(buffer[f]) = 1
    BY <1>3, <1>5
  <2>3. /\ Len(buffer[f]) = 1 => Rest(f)
        /\ Len(buffer[f]) # 1 => eager' = eager /\ lazy' = lazy
    BY <1>1
  <2> QED BY <2>1, <2>2, <2>3 DEF Rest
<1>7. eager' \in {"wait", "fetch", "buffered", "ended"} /\ lazy' \in {"idle", "fetch", "buffered"}
  BY <1>6 DEF StreamInv, TypeOK, Fetcher
<1>8. TypeOK' /\ PermitPerFetch'
  BY <1>1, <1>3, <1>5, <1>7 DEF StreamInv, TypeOK, PermitPerFetch
<1>9. FetcherInv'
  <2>1. "eager" \in Fetcher /\ "lazy" \in Fetcher /\ "eager" # "lazy" /\ (f = "eager" \/ f = "lazy")
    BY DEF Fetcher
  <2>2. CASE f = "eager"
    <3>1. buffer'["lazy"] = buffer["lazy"] /\ lazy' = lazy
      BY <1>5, <1>6, <2>1, <2>2
    <3> QED BY <1>1, <1>4, <1>6, <2>2, <3>1 DEF StreamInv, FetcherInv
  <2>3. CASE f = "lazy"
    <3>1. buffer'["eager"] = buffer["eager"] /\ eager' = eager
      BY <1>5, <1>6, <2>1, <2>3
    <3> QED BY <1>1, <1>4, <1>6, <2>3, <3>1 DEF StreamInv, FetcherInv
  <2> QED BY <2>1, <2>2, <2>3
<1>10. c # None
  BY <1>3, NoneAssumption
<1>11. Decoding' = {c} /\ Decoding = {} /\ Settled' = Settled
  <2>1. None \notin Claim
    BY NoneAssumption
  <2> QED BY <1>1, <1>3, <2>1 DEF Decoding, Settled
<1>12. /\ Carried(f) = Carried(f)' \union {c} /\ c \notin Carried(f)'
       /\ \A g \in Fetcher : g # f => Carried(g)' = Carried(g)
  <2>1. Range(<<>>) = {}
    BY DEF Range
  <2> QED BY <1>1, <1>3, <1>4, <1>5, <2>1 DEF Carried
<1>13. Separate'
  <2>1. \A g \in Fetcher : Distinct(buffer'[g]) /\ Distinct(sent'[g].got)
    BY <1>1, <1>3, <1>5 DEF StreamInv, Separate
  <2>2. \A g \in Fetcher : Carried(g)' \subseteq Carried(g) /\ c \notin Carried(g)'
    BY <1>12 DEF StreamInv, Separate
  <2>3. c \notin Settled
    BY <1>12 DEF StreamInv, Separate
  <2>4. \A g, h \in Fetcher : g # h => Carried(g)' \intersect Carried(h)' = {}
    BY <2>2 DEF StreamInv, Separate
  <2>5. \A g \in Fetcher : Carried(g)' \intersect ({c} \union Settled) = {}
    BY <2>2 DEF StreamInv, Separate
  <2> QED BY <1>1, <1>11, <2>1, <2>3, <2>4, <2>5 DEF StreamInv, Separate
<1>14. Past'
  <2>1. \A g \in Fetcher : Carried(g)' \subseteq Carried(g)
    BY <1>12
  <2> QED BY <1>1, <1>11, <1>12, <2>1 DEF StreamInv, Past, Made
<1>15. ReleaseInv'
  BY <1>1 DEF StreamInv, ReleaseInv
<1>16. Accounted'
  <2>1. Kept \subseteq Kept'
    BY <1>1, <1>3, <1>11, <1>12 DEF Kept
  <2> QED BY <1>1, <2>1 DEF StreamInv, Accounted
<1> QED BY <1>8, <1>9, <1>13, <1>14, <1>15, <1>16 DEF StreamInv

-----------------------------------------------------------------------------
\* The decode stage.

\* A claim that decodes is delivered; one that does not stays, owed a release.
LEMMA DecodeStep ==
  ASSUME StreamInv, Decode, endless' = endless
  PROVE  StreamInv'
<1>1. /\ UNCHANGED <<row, claims, lease, reg, stream, permits, fetches, eager, lazy, sent, buffer,
                     hints, hintCount, released, stale>>
      /\ inHand # None /\ inHand' = None
      /\ \/ owed' = Obligation(inHand) /\ delivered' = delivered
         \/ delivered' = delivered \union {inHand} /\ owed' = owed
  BY DEF Decode, fetchVars
<1>2. inHand \in Claim /\ owed = None /\ ~stale
  BY <1>1, Typed DEF StreamInv, ReleaseInv, TypeOK
<1>3. /\ Obligation(inHand) \in Owed /\ Obligation(inHand).claim = inHand
      /\ Obligation(inHand).tx = "idle" /\ Obligation(inHand) # None
  <2>1. 0 \in 0 .. RetryLimit
    BY BoundAssumption
  <2>2. Obligation(inHand) \in Owed
    BY <1>2, <2>1 DEF Obligation, Owed, Outcome
  <2> QED BY <2>2, NoneAssumption DEF Obligation
<1>4. owed' \in Owed \union {None} /\ delivered' \subseteq Claim
  BY <1>1, <1>2, <1>3 DEF StreamInv, TypeOK
<1>5. TypeOK' /\ PermitPerFetch' /\ FetcherInv'
  BY <1>1, <1>4 DEF StreamInv, TypeOK, PermitPerFetch, FetcherInv
<1>6. \A f \in Fetcher : Carried(f)' = Carried(f)
  BY <1>1 DEF Carried
<1>7. None \notin Claim
  BY NoneAssumption
<1>8. Decoding = {inHand}
  BY <1>2 DEF Decoding
<1>9. \/ Decoding' = {inHand} /\ delivered' = delivered
      \/ Decoding' = {} /\ delivered' = delivered \union {inHand}
  BY <1>1, <1>2, <1>3, <1>7 DEF Decoding
<1>10. Decoding' \union Settled' = Decoding \union Settled /\ Kept' = Kept
  BY <1>1, <1>2, <1>6, <1>8, <1>9 DEF Settled, Kept
<1>11. Separate'
  <2>1. \A f \in Fetcher : Distinct(buffer'[f]) /\ Distinct(sent'[f].got)
    BY <1>1 DEF StreamInv, Separate
  <2>2. Decoding' \intersect Settled' = {} /\ delivered' \intersect released' = {}
    BY <1>1, <1>8, <1>9 DEF StreamInv, Separate, Settled
  <2> QED BY <1>6, <1>10, <2>1, <2>2 DEF StreamInv, Separate
<1>12. Past'
  BY <1>1, <1>6, <1>10 DEF StreamInv, Past, Made
<1>13. ReleaseInv'
  BY <1>1, <1>2, <1>3 DEF StreamInv, ReleaseInv
<1>14. Accounted'
  BY <1>1, <1>10 DEF StreamInv, Accounted
<1> QED BY <1>5, <1>11, <1>12, <1>13, <1>14 DEF StreamInv

\* A release is sent, takes the row from its claim, fails, or is kept for a
\* retry: the obligation stays.
LEMMA ReleaseStep ==
  ASSUME StreamInv, owed # None, endless' = endless,
         \/ SendRelease \/ ReleaseCommit \/ ReleaseFails
         \/ ReleaseFailed /\ owed' # None
  PROVE  StreamInv'
<1>1. /\ UNCHANGED <<claims, lease, reg, stream, permits, fetches, eager, lazy, sent, buffer, hints,
                     hintCount, inHand, delivered, released, stale>>
      /\ \/ \E x \in {"sent", "failed"} : owed' = [owed EXCEPT !.tx = x] /\ row' = row
         \/ ReleaseCommit
         \/ /\ ~ReleaseExhausted(owed.failures + 1) /\ row' = row
            /\ owed' = [owed EXCEPT !.failures = owed.failures + 1, !.tx = "idle"]
  BY DEF SendRelease, ReleaseCommit, ReleaseFails, ReleaseFailed, RetryLater, fetchVars
<1>2. /\ owed \in Owed /\ owed.claim \in Claim /\ owed.claim[1] \in Task
      /\ row \in [Task -> {"Pending", "Queued", "Other"}]
  BY Typed DEF StreamInv, TypeOK, Claim
<1>3. /\ owed' \in Owed /\ owed'.claim = owed.claim
      /\ row' \in [Task -> {"Pending", "Queued", "Other"}]
      /\ \A t \in Task : row'[t] = "Queued" => row[t] = "Queued"
      /\ owed'.tx = "ok" /\ owed'.matched = 1 => ~Holds(owed.claim)'
  <2>1. CASE \E x \in {"sent", "failed"} : owed' = [owed EXCEPT !.tx = x] /\ row' = row
    BY <1>2, <2>1 DEF Owed, Outcome
  <2>2. CASE ReleaseCommit
    <3> DEFINE m == IF Holds(owed.claim) THEN 1 ELSE 0
    <3>1. PICK o \in {"ok", "failed"} : owed' = [owed EXCEPT !.tx = o, !.matched = m]
      BY <2>2 DEF ReleaseCommit
    <3>2. PICK s \in {"Pending", "Other"} :
            row' = IF Holds(owed.claim) THEN [row EXCEPT ![owed.claim[1]] = s] ELSE row
      BY <2>2 DEF ReleaseCommit
    <3>3. m \in 0 .. 1 /\ (m = 1 => Holds(owed.claim))
      OBVIOUS
    <3>4. Holds(owed.claim) => row' = [row EXCEPT ![owed.claim[1]] = s]
      BY <3>2
    <3>5. /\ row' \in [Task -> {"Pending", "Queued", "Other"}]
          /\ \A t \in Task : row'[t] = "Queued" => row[t] = "Queued"
          /\ Holds(owed.claim) => row'[owed.claim[1]] # "Queued"
      BY <1>2, <3>2, <3>4
    <3> HIDE DEF m
    <3>6. owed' \in Owed /\ owed'.claim = owed.claim /\ owed'.matched = m
      BY <1>2, <3>1, <3>3 DEF Owed, Outcome
    <3>7. owed'.matched = 1 => row'[owed.claim[1]] # "Queued"
      BY <3>3, <3>5, <3>6
    <3>8. owed'.matched = 1 => ~Holds(owed.claim)'
      BY <3>6, <3>7 DEF Holds
    <3> QED BY <3>5, <3>6, <3>8
  <2>3. CASE /\ ~ReleaseExhausted(owed.failures + 1) /\ row' = row
             /\ owed' = [owed EXCEPT !.failures = owed.failures + 1, !.tx = "idle"]
    <3>1. owed.failures + 1 \in 0 .. RetryLimit
      <4>1. owed.failures \in 0 .. RetryLimit /\ RetryLimit \in Nat
        BY <1>2, BoundAssumption DEF Owed
      <4> QED BY <2>3, <4>1 DEF ReleaseExhausted
    <3> QED BY <1>2, <2>3, <3>1 DEF Owed, Outcome
  <2> QED BY <1>1, <2>1, <2>2, <2>3
<1>4. owed' # None
  BY <1>3, NoneAssumption
<1>5. TypeOK' /\ PermitPerFetch' /\ FetcherInv'
  BY <1>1, <1>3 DEF StreamInv, TypeOK, PermitPerFetch, FetcherInv
<1>6. Decoding' = Decoding
  BY <1>1, <1>3, <1>4 DEF Decoding
<1>7. Separate' /\ Past' /\ Accounted'
  BY <1>1, <1>3, <1>6, Unmoved DEF StreamInv
<1>8. ReleaseInv'
  BY <1>1, <1>3, <1>4 DEF StreamInv, ReleaseInv
<1> QED BY <1>5, <1>7, <1>8 DEF StreamInv

\* The obligation is discharged: the row left the claim, or the lease is
\* retired.
LEMMA DischargeStep ==
  ASSUME StreamInv, endless' = endless,
         Released \/ (ReleaseFailed /\ owed' = None)
  PROVE  StreamInv'
<1>1. /\ UNCHANGED <<row, claims, reg, stream, permits, fetches, eager, lazy, sent, buffer, hints,
                     hintCount, inHand, delivered>>
      /\ owed # None /\ owed' = None
      /\ \/ Released
         \/ lease' = "retired" /\ UNCHANGED <<released, stale>>
  <2>1. CASE Released
    BY <2>1 DEF Released, fetchVars
  <2>2. CASE ReleaseFailed /\ owed' = None
    <3>1. owed # None /\ owed \in Owed
      BY <2>2, Typed DEF ReleaseFailed, StreamInv
    <3>2. ~ReleaseExhausted(owed.failures + 1) => RetryLater(owed.failures + 1) # None
      <4>1. ASSUME ~ReleaseExhausted(owed.failures + 1) PROVE owed.failures + 1 \in 0 .. RetryLimit
        BY <3>1, <4>1, BoundAssumption DEF Owed, ReleaseExhausted
      <4>2. ASSUME ~ReleaseExhausted(owed.failures + 1) PROVE RetryLater(owed.failures + 1) \in Owed
        BY <3>1, <4>1, <4>2 DEF RetryLater, Owed, Outcome
      <4> QED BY <4>2, NoneAssumption
    <3> QED BY <2>2, <3>2 DEF ReleaseFailed, fetchVars
  <2> QED BY <2>1, <2>2
<1>2. owed \in Owed /\ owed.claim \in Claim /\ owed.claim \in Decoding /\ inHand = None
  BY <1>1, Typed DEF StreamInv, ReleaseInv
<1>3. /\ Decoding = {owed.claim} /\ Decoding' = {}
  <2>1. None \notin Claim
    BY NoneAssumption
  <2> QED BY <1>1, <1>2, <2>1 DEF Decoding
<1>4. /\ lease' \in {"active", "retired"} /\ stale' \in BOOLEAN
      /\ released' = released \/ released' = released \union {owed.claim}
      /\ lease' = "active" => lease = "active" /\ owed.tx = "ok" /\ owed.matched = 1
      /\ stale' => lease' = "retired"
  <2>1. CASE Released
    <3>1. /\ owed.tx = "ok" /\ owed.matched \in 0 .. 1
          /\ lease \in {"active", "retired"} /\ stale \in BOOLEAN
          /\ stale => lease = "retired"
      BY <1>2, <2>1 DEF StreamInv, TypeOK, ReleaseInv, Owed, Released
    <3>2. CASE owed.matched = 1
      <4>1. lease' = lease /\ stale' = stale /\ released' = released \union {owed.claim}
        BY <2>1, <3>1, <3>2 DEF Released, AfterRelease
      <4> QED BY <3>1, <3>2, <4>1
    <3>3. CASE owed.matched = 0
      <4>1. lease' = "retired" /\ released' = released
        BY <2>1, <3>1, <3>3 DEF Released, AfterRelease
      <4>2. stale' \in BOOLEAN
        BY <2>1 DEF Released
      <4> QED BY <4>1, <4>2
    <3> QED BY <3>1, <3>2, <3>3
  <2>2. CASE lease' = "retired" /\ UNCHANGED <<released, stale>>
    BY <2>2 DEF StreamInv, TypeOK
  <2> QED BY <1>1, <2>1, <2>2
<1>5. TypeOK' /\ PermitPerFetch' /\ FetcherInv'
  BY <1>1, <1>2, <1>4 DEF StreamInv, TypeOK, PermitPerFetch, FetcherInv
<1>6. \A f \in Fetcher : Carried(f)' = Carried(f)
  BY <1>1 DEF Carried
<1>7. Settled' \subseteq Decoding \union Settled
  BY <1>1, <1>3, <1>4 DEF Settled
<1>8. Separate'
  <2>1. \A f \in Fetcher : Distinct(buffer'[f]) /\ Distinct(sent'[f].got)
    BY <1>1 DEF StreamInv, Separate
  <2>2. delivered' \intersect released' = {}
    BY <1>1, <1>3, <1>4 DEF StreamInv, Separate, Settled
  <2> QED BY <1>3, <1>6, <1>7, <2>1, <2>2 DEF StreamInv, Separate
<1>9. Past'
  BY <1>1, <1>3, <1>6, <1>7 DEF StreamInv, Past, Made
<1>10. ReleaseInv'
  BY <1>1, <1>2, <1>4 DEF ReleaseInv
<1>11. Accounted'
  <2>1. ASSUME lease' = "active", NEW t \in Task, row[t] = "Queued"
        PROVE  <<t, claims[t]>> \in Kept'
    <3>1. ~Holds(owed.claim) /\ <<t, claims[t]>> \in Kept
      BY <1>1, <1>4, <2>1 DEF StreamInv, ReleaseInv, Accounted
    <3>2. <<t, claims[t]>> # owed.claim
      BY <2>1, <3>1 DEF Holds
    <3> QED BY <1>1, <1>3, <1>6, <3>1, <3>2 DEF Kept
  <2> QED BY <1>1, <2>1 DEF Accounted
<1> QED BY <1>5, <1>8, <1>9, <1>10, <1>11 DEF StreamInv

-----------------------------------------------------------------------------
\* The invariant.

LEMMA InitInv == Init => StreamInv
<1> SUFFICES ASSUME Init PROVE StreamInv
  OBVIOUS
<1>1. Idle \in [ids : SUBSET Task, outcome : Outcome, got : Seq(Claim)]
  BY DEF Idle, Outcome
<1>2. TypeOK
  <2>1. 0 \in 0 .. MaxClaims /\ 0 \in 0 .. MaxHints /\ 0 <= Permits
    BY BoundAssumption
  <2>2. /\ sent \in [Fetcher -> [ids : SUBSET Task, outcome : Outcome, got : Seq(Claim)]]
        /\ buffer \in [Fetcher -> Seq(Claim)] /\ hints \in Seq(Task \union {Error})
        /\ claims \in [Task -> 0 .. MaxClaims]
        /\ row \in [Task -> {"Pending", "Queued", "Other"}]
    BY <1>1, <2>1 DEF Init
  <2> QED BY <2>1, <2>2 DEF Init, TypeOK
<1>3. FetcherInv /\ PermitPerFetch /\ ReleaseInv
  BY DEF Init, FetcherInv, PermitPerFetch, ReleaseInv, Fetcher, Idle
<1>4. \A f \in Fetcher : buffer[f] = <<>> /\ sent[f].got = <<>>
  BY DEF Init, Idle
<1>5. \A f \in Fetcher : Carried(f) = {}
  BY <1>4 DEF Carried, Range
<1>6. Decoding = {} /\ Settled = {} /\ delivered = {}
  BY NoneAssumption DEF Init, Decoding, Settled
<1>7. Separate
  BY <1>4, <1>5, <1>6 DEF Separate, Distinct
<1>8. Past /\ Accounted
  BY <1>5, <1>6 DEF Init, Past, Accounted
<1> QED BY <1>2, <1>3, <1>7, <1>8 DEF StreamInv

LEMMA NextInv ==
  ASSUME StreamInv, [Next /\ UNCHANGED endless]_<<vars, endless>>
  PROVE  StreamInv'
<1>1. CASE UNCHANGED <<vars, endless>>
  <2>1. /\ UNCHANGED <<endless, row, claims, lease, reg, stream, permits, fetches, eager, lazy, sent,
                       buffer, hints, hintCount, inHand, owed, delivered, released, stale>>
    BY <1>1 DEF vars, fetchVars
  <2>2. TypeOK' /\ PermitPerFetch' /\ FetcherInv' /\ ReleaseInv'
    BY <2>1 DEF StreamInv, TypeOK, PermitPerFetch, FetcherInv, ReleaseInv, Holds
  <2>3. Decoding' = Decoding
    BY <2>1 DEF Decoding
  <2>4. Separate' /\ Past' /\ Accounted'
    BY <2>1, <2>3, Unmoved DEF StreamInv
  <2> QED BY <2>2, <2>4 DEF StreamInv
<1>2. CASE Next /\ endless' = endless
  <2>1. CASE \/ Register \/ FindRetired \/ RetiredElsewhere \/ DropStream
             \/ \E t \in Task : Swept(t)
             \/ \E h \in Hints : Hint(h)
    BY <1>2, <2>1, QuietStep
  <2>2. CASE Permit \/ StrategyExhausted
    BY <1>2, <2>2, EagerStep
  <2>3. CASE TakeChunk
    BY <1>2, <2>3, ChunkStep
  <2>4. ASSUME NEW f \in Fetcher, FetchOk(f) \/ FetchError(f) \/ Yield(f) \/ Commit(f) \/ CommitFails(f)
        PROVE  StreamInv'
    BY <1>2, <2>4, FetchOkStep, FetchErrorStep, YieldStep, CommitStep, CommitFailsStep
  <2>5. CASE Decode
    BY <1>2, <2>5, DecodeStep
  <2>6. CASE SendRelease \/ ReleaseCommit \/ ReleaseFails \/ (ReleaseFailed /\ owed' # None)
    <3>1. owed # None
      BY <2>6 DEF SendRelease, ReleaseCommit, ReleaseFails, ReleaseFailed
    <3> QED BY <1>2, <2>6, <3>1, ReleaseStep
  <2>7. CASE Released \/ (ReleaseFailed /\ owed' = None)
    BY <1>2, <2>7, DischargeStep
  <2> QED BY <1>2, <2>1, <2>2, <2>3, <2>4, <2>5, <2>6, <2>7 DEF Next, PollStep, DatabaseStep
<1> QED BY <1>1, <1>2

\* The inductive invariant holds of every behaviour of the task stream.
THEOREM StreamSafe == Spec => []StreamInv
<1>1. Init => StreamInv
  BY InitInv
<1>2. StreamInv /\ [Next /\ UNCHANGED endless]_<<vars, endless>> => StreamInv'
  BY NextInv
<1> QED BY <1>1, <1>2, PTL DEF Spec

-----------------------------------------------------------------------------
\* What the invariant says.

LEMMA CarriedCount ==
  ASSUME StreamInv, NEW f \in Fetcher
  PROVE  /\ IsFiniteSet(Carried(f))
         /\ Cardinality(Carried(f)) = Len(buffer[f]) + Len(sent[f].got)
<1>1. /\ buffer[f] \in Seq(Claim) /\ sent[f].got \in Seq(Claim)
      /\ Distinct(buffer[f]) /\ Distinct(sent[f].got)
  BY Typed DEF StreamInv, Separate
<1>2. /\ IsFiniteSet(Range(buffer[f])) /\ Cardinality(Range(buffer[f])) = Len(buffer[f])
      /\ IsFiniteSet(Range(sent[f].got)) /\ Cardinality(Range(sent[f].got)) = Len(sent[f].got)
  BY <1>1, RangeCount
<1>3. Range(<<>>) = {} /\ Len(buffer[f]) \in Nat /\ Len(sent[f].got) \in Nat /\ Len(<<>>) = 0
  BY <1>1 DEF Range
<1>4. CASE buffer[f] = <<>>
  <2>1. Carried(f) = Range(sent[f].got)
    BY <1>3, <1>4 DEF Carried
  <2>2. Len(buffer[f]) = 0
    BY <1>3, <1>4
  <2> QED BY <1>2, <1>3, <2>1, <2>2
<1>5. CASE buffer[f] # <<>>
  <2>1. sent[f].got = <<>>
    BY <1>5, OneOrTheOther
  <2>2. Carried(f) = Range(buffer[f])
    BY <1>3, <2>1 DEF Carried
  <2> QED BY <1>2, <1>3, <2>1, <2>2
<1> QED BY <1>4, <1>5

LEMMA DisjointUnion ==
  ASSUME NEW S, NEW T, IsFiniteSet(S), IsFiniteSet(T), S \intersect T = {}
  PROVE  IsFiniteSet(S \union T) /\ Cardinality(S \union T) = Cardinality(S) + Cardinality(T)
<1>1. Cardinality({}) = 0 /\ Cardinality(S) \in Nat /\ Cardinality(T) \in Nat
  BY FS_EmptySet, FS_CardinalityType
<1>2. /\ IsFiniteSet(S \union T)
      /\ Cardinality(S \union T) = Cardinality(S) + Cardinality(T) - Cardinality(S \intersect T)
  BY FS_Union
<1>3. Cardinality(S \intersect T) = 0
  BY <1>1
<1> QED BY <1>1, <1>2, <1>3

LEMMA InPlace ==
  ASSUME StreamInv
  PROVE  /\ Inside \ {None} = Carried("eager") \union Carried("lazy") \union Decoding
         /\ Decoding = ({inHand} \ {None}) \union (IF owed = None THEN {} ELSE {owed.claim})
<1>1. None \notin Claim
  BY NoneAssumption
<1>2. /\ inHand = None \/ inHand \in Claim
      /\ owed # None => owed.claim \in Claim
      /\ Carried("eager") \subseteq Claim /\ Carried("lazy") \subseteq Claim
  BY Typed DEF StreamInv
<1>3. Decoding = ({inHand} \ {None}) \union (IF owed = None THEN {} ELSE {owed.claim})
  BY <1>1, <1>2 DEF Decoding
<1>4. Inside = {inHand} \union Carried("eager") \union Carried("lazy")
               \union (IF owed = None THEN {} ELSE {owed.claim})
  BY DEF Inside, Carried
<1>5. None \notin Carried("eager") \union Carried("lazy") \union (IF owed = None THEN {} ELSE {owed.claim})
  BY <1>1, <1>2
<1> QED BY <1>3, <1>4, <1>5

LEMMA OncePlaced == StreamInv => DeliveredOrReleased
<1> SUFFICES ASSUME StreamInv PROVE DeliveredOrReleased
  OBVIOUS
<1> DEFINE E == Carried("eager")
           L == Carried("lazy")
           a == IF owed = None THEN 0 ELSE 1
           b == IF inHand = None THEN 0 ELSE 1
           d == a + b
<1>1. "eager" \in Fetcher /\ "lazy" \in Fetcher /\ "eager" # "lazy"
  BY DEF Fetcher
<1>2. /\ E \intersect L = {} /\ (E \union L) \intersect Decoding = {}
      /\ (E \union L \union Decoding) \intersect Settled = {}
      /\ delivered \intersect released = {}
  BY <1>1 DEF StreamInv, Separate
<1>3. /\ IsFiniteSet(E) /\ Cardinality(E) = Len(buffer["eager"]) + Len(sent["eager"].got)
      /\ IsFiniteSet(L) /\ Cardinality(L) = Len(buffer["lazy"]) + Len(sent["lazy"].got)
  BY <1>1, CarriedCount
<1>4. IsFiniteSet(Decoding) /\ Cardinality(Decoding) = d
  <2>1. owed # None => inHand = None
    BY DEF StreamInv, ReleaseInv
  <2>2. CASE owed = None /\ inHand = None
    <3>1. Decoding = {} /\ d = 0
      BY <2>2, InPlace
    <3> QED BY <3>1, FS_EmptySet
  <2>3. CASE owed # None
    <3>1. Decoding = {owed.claim} /\ d = 1
      BY <2>1, <2>3, InPlace
    <3> QED BY <3>1, FS_Singleton
  <2>4. CASE owed = None /\ inHand # None
    <3>1. Decoding = {inHand} /\ d = 1
      BY <2>4, InPlace
    <3> QED BY <3>1, FS_Singleton
  <2> QED BY <2>2, <2>3, <2>4
<1>5. Inside \ {None} = (E \union L) \union Decoding
  BY InPlace
<1>6. Settled \subseteq Claim /\ None \notin Settled
  BY Typed, NoneAssumption DEF StreamInv
<1>7. Inside \intersect Settled = {}
  BY <1>2, <1>5, <1>6
<1> HIDE DEF E, L
<1>8. Cardinality(Inside \ {None}) = Cardinality(E) + Cardinality(L) + d
  <2>1. IsFiniteSet(E \union L) /\ Cardinality(E \union L) = Cardinality(E) + Cardinality(L)
    BY <1>2, <1>3, DisjointUnion
  <2> QED BY <1>2, <1>4, <1>5, <2>1, DisjointUnion
<1>9. /\ Len(buffer["eager"]) \in Nat /\ Len(sent["eager"].got) \in Nat
      /\ Len(buffer["lazy"]) \in Nat /\ Len(sent["lazy"].got) \in Nat
  BY <1>1, Typed DEF StreamInv
<1>10. a \in Nat /\ b \in Nat
  OBVIOUS
<1>11. Cardinality(Inside \ {None}) =
         Len(buffer["eager"]) + Len(buffer["lazy"]) + Len(sent["eager"].got) + Len(sent["lazy"].got)
         + a + b
  <2>1. Cardinality(Inside \ {None}) = Cardinality(E) + Cardinality(L) + (a + b)
    BY <1>8
  <2> DEFINE p == Len(buffer["eager"])
             q == Len(sent["eager"].got)
             r == Len(buffer["lazy"])
             s == Len(sent["lazy"].got)
             n == Cardinality(Inside \ {None})
  <2>2. /\ p \in Nat /\ q \in Nat /\ r \in Nat /\ s \in Nat
        /\ n = (p + q) + (r + s) + (a + b)
    BY <1>3, <1>9, <2>1
  <2> HIDE DEF a, b, p, q, r, s, n
  <2>3. n = p + r + q + s + a + b
    BY <1>10, <2>2
  <2> QED BY <2>3 DEF n, p, q, r, s
<1> QED BY <1>2, <1>7, <1>11 DEF DeliveredOrReleased, Settled

\* Every claim of the stream is in one place of it, and is delivered or
\* released at most once and never both, whatever the sweeps, failures and
\* retries; and an eager claim is sent only for a permit of the strategy.
THEOREM DeliveryExact == Spec => []FetchExact
<1>1. StreamInv => FetchExact
  BY OncePlaced DEF StreamInv, FetchExact
<1> QED BY <1>1, StreamSafe, PTL

\* While its lease is active, the stream loses no claimed row: it holds the
\* claim, or delivered it.
THEOREM ClaimsAccounted == Spec => []ClaimAccounted
<1>1. StreamInv => ClaimAccounted
  <2> SUFFICES ASSUME StreamInv, lease = "active", NEW t \in Task, row[t] = "Queued"
               PROVE  <<t, claims[t]>> \in Inside \union delivered
    BY DEF ClaimAccounted
  <2>1. <<t, claims[t]>> \in Kept
    BY DEF StreamInv, Accounted
  <2>2. Kept \subseteq Carried("eager") \union Carried("lazy") \union Decoding \union delivered
    BY DEF Kept, Fetcher
  <2> QED BY <2>1, <2>2, InPlace
<1> QED BY <1>1, StreamSafe, PTL

\* After a release that found its claim gone, no further task is delivered.
THEOREM NothingDeliveredStale == Spec => StaleStopsDelivery
<1>1. ASSUME StreamInv, [Next /\ UNCHANGED endless]_<<vars, endless>>
      PROVE  [stale => delivered' = delivered]_vars
  <2>1. stale => inHand = None
    BY <1>1 DEF StreamInv, ReleaseInv
  <2>2. CASE UNCHANGED <<vars, endless>>
    BY <2>2 DEF vars
  <2>3. CASE Next
    <3>1. delivered' = delivered \/ Decode
      BY <2>3 DEF Next, PollStep, DatabaseStep, Register, FindRetired, Permit, StrategyExhausted,
                  TakeChunk, FetchOk, FetchError, Yield, SendRelease, Released, ReleaseFailed, Commit,
                  CommitFails, ReleaseCommit, ReleaseFails, RetiredElsewhere, Swept, Hint, DropStream
    <3> QED BY <2>1, <3>1 DEF Decode
  <2> QED BY <1>1, <2>2, <2>3
<1> QED BY <1>1, StreamSafe, PTL DEF Spec, StaleStopsDelivery

-----------------------------------------------------------------------------
(***************************************************************************)
(* The listener of one queue.                                              *)
(***************************************************************************)

\* What its thread and its consumer tell of each other.
HintInv ==
  /\ {cancel, notified, waker, pending, seen} \subseteq BOOLEAN
  /\ consumer \in {"live", "cancelled", "gone"}
  /\ poll \in PollPC
  /\ consumer # "live" => cancel /\ poll \in {"ready", "asleep", "ended"}
  /\ consumer = "live" => ~cancel
  \* A thread that leaves has published its error or was told to.
  /\ thread \in {"waking", "unlistening", "dropping", "ended"} => pending \/ seen \/ cancel
  /\ poll = "rechecking" => thread = "ended"
  /\ poll = "ended" => seen
  \* The waker is registered where the task is about to sleep, or it was woken.
  /\ poll \in {"registered", "receiving"} => waker \/ notified
  /\ poll = "asleep" => waker
  /\ poll = "receiving" /\ pending => thread = "waking" \/ notified
  /\ poll = "asleep" /\ pending => thread = "waking"

LEMMA HintStep ==
  ASSUME HintInv, [ListenNext]_listenVars
  PROVE  HintInv'
<1> USE DEF HintInv, PollPC
<1>1. CASE \E s \in Statement : Insert(s)
  <2>1. UNCHANGED <<thread, cancel, consumer, poll, notified, waker, pending, seen>>
    BY <1>1 DEF Insert, pollVars
  <2> QED BY <2>1
<1>2. CASE Connect \/ TestCancel \/ Iterate \/ IterateError
  <2>1. /\ UNCHANGED <<cancel, consumer, poll, notified, waker, pending, seen>>
        /\ thread \notin {"waking", "ended"}
        /\ thread' \in {"testing", "publishing", "iterating", "sending", "unlistening"}
        /\ thread' = "unlistening" => cancel
    BY <1>2 DEF Connect, TestCancel, Iterate, IterateError,
                Goto, pollVars
  <2> QED BY <2>1
<1>3. CASE Deliver
  <2>1. /\ UNCHANGED <<cancel, consumer, waker, pending, seen>>
        /\ thread = "sending" /\ thread' \in {"sending", "iterating", "unlistening"}
        /\ thread' = "unlistening" => consumer = "gone"
        /\ \/ UNCHANGED <<poll, notified>>
           \/ notified' = (poll # "asleep") /\ poll' = IF poll = "asleep" THEN "ready" ELSE poll
    BY <1>3 DEF Deliver, Goto, Wake
  <2>2. CASE UNCHANGED <<poll, notified>>
    BY <2>1, <2>2
  <2>3. CASE notified' = (poll # "asleep") /\ poll' = IF poll = "asleep" THEN "ready" ELSE poll
    BY <2>1, <2>3
  <2> QED BY <2>1, <2>2, <2>3
<1>4. CASE Publish
  <2>1. /\ UNCHANGED <<cancel, consumer, poll, notified, waker, seen>>
        /\ pending' = TRUE /\ thread = "publishing" /\ thread' = "waking"
    BY <1>4 DEF Publish, Goto
  <2> QED BY <2>1
<1>5. CASE PublishWake
  <2>1. /\ UNCHANGED <<cancel, consumer, pending, seen>>
        /\ thread = "waking" /\ thread' \in {"unlistening", "dropping"} /\ waker' = FALSE
        /\ IF waker THEN notified' = (poll # "asleep") /\ poll' = IF poll = "asleep" THEN "ready" ELSE poll
           ELSE UNCHANGED <<poll, notified>>
    BY <1>5 DEF PublishWake, Goto, Wake
  <2>2. CASE waker
    BY <2>1, <2>2
  <2>3. CASE ~waker
    BY <2>1, <2>3
  <2> QED BY <2>2, <2>3
<1>6. CASE Unlisten \/ DropSender
  <2>1. /\ UNCHANGED <<cancel, consumer, waker, pending, seen>>
        /\ thread \in {"unlistening", "dropping"} /\ thread' \in {"dropping", "ended"}
        /\ \/ UNCHANGED <<poll, notified>>
           \/ notified' = (poll # "asleep") /\ poll' = IF poll = "asleep" THEN "ready" ELSE poll
    BY <1>6 DEF Unlisten, DropSender, Goto, Wake, pollVars
  <2>2. CASE UNCHANGED <<poll, notified>>
    BY <2>1, <2>2
  <2>3. CASE notified' = (poll # "asleep") /\ poll' = IF poll = "asleep" THEN "ready" ELSE poll
    BY <2>1, <2>3
  <2> QED BY <2>1, <2>2, <2>3
<1>7. CASE PollRegister
  <2>1. /\ UNCHANGED <<thread, cancel, consumer, pending, seen>>
        /\ waker' = TRUE /\ notified' = FALSE /\ poll' = "registered" /\ consumer = "live"
    BY <1>7 DEF PollRegister, PollUnchanged, threadVars
  <2> QED BY <2>1
<1>8. CASE PollTake
  <2>1. /\ UNCHANGED <<thread, cancel, consumer, notified, waker>>
        /\ pending' = FALSE /\ seen' = (seen \/ pending) /\ poll = "registered"
        /\ poll' = IF pending THEN "ready" ELSE "receiving"
    BY <1>8 DEF PollTake, PollUnchanged, threadVars
  <2> QED BY <2>1
<1>9. CASE PollReceive
  <2>1. /\ UNCHANGED <<thread, cancel, consumer, notified, waker, pending, seen>> /\ poll = "receiving"
        /\ poll' \in {"ready", "rechecking", "asleep"}
        /\ poll' = "rechecking" => thread = "ended"
        /\ poll' = "asleep" => ~notified
    BY <1>9 DEF PollReceive, PollUnchanged, threadVars, AfterEnd
  <2> QED BY <2>1
<1>10. CASE PollRecheck
  <2>1. /\ UNCHANGED <<thread, cancel, consumer, notified>>
        /\ waker' = TRUE /\ pending' = FALSE /\ seen' = (seen \/ pending) /\ poll = "rechecking"
        /\ poll' = IF pending THEN "ready" ELSE "ended"
    BY <1>10 DEF PollRecheck, PollUnchanged, threadVars
  <2> QED BY <2>1
<1>11. CASE DropTaskIds \/ DropReceiver
  <2>1. /\ UNCHANGED <<thread, poll, notified, waker, pending, seen>>
        /\ \/ consumer = "live" /\ consumer' = "cancelled" /\ cancel' = TRUE /\ poll \in {"ready", "asleep", "ended"}
           \/ consumer = "cancelled" /\ consumer' = "gone" /\ cancel' = cancel
    BY <1>11 DEF DropTaskIds, DropReceiver, threadVars, pollVars
  <2> QED BY <2>1
<1>12. CASE UNCHANGED listenVars
  <2>1. UNCHANGED <<thread, cancel, consumer, poll, notified, waker, pending, seen>>
    BY <1>12 DEF listenVars, threadVars, pollVars
  <2> QED BY <2>1
<1> HIDE DEF HintInv, PollPC
<1> QED BY <1>1, <1>2, <1>3, <1>4, <1>5, <1>6, <1>7, <1>8, <1>9, <1>10, <1>11, <1>12
     DEF ListenNext, ThreadStep, PollNext

\* The invariant of the notification path, whatever is announced and whatever
\* the capacity of the channel.
THEOREM HintsSafe == ListenSpec => []HintInv
<1>1. ListenInit => HintInv
  BY DEF ListenInit, HintInv, PollPC
<1>2. HintInv /\ [ListenNext]_listenVars => HintInv'
  BY HintStep
<1> QED BY <1>1, <1>2, PTL DEF ListenSpec

\* The due rows of a queue that were inserted.
DueOf(q) == {i \in Id : QueueOf[i] = q /\ \E s \in inserted : i \in s \intersect Due}

\* The notifications that may be under way.
Announceable == {n \in Notification : n.ids \in Seq(DueOf(n.queue))}

\* What the trigger has sent for a statement.
Announcements(agg, s) == {[note |-> Note(agg, c), of |-> s] : c \in Chunks(AnnouncedOf(s))}

\* What was announced, and what of it is on its way to the consumer.
PathInv ==
  /\ inserted \in SUBSET Statement
  /\ thread \in ThreadPC /\ listening \in BOOLEAN
  /\ inbox \in Seq(Announceable)
  /\ held \in Seq(DueOf(Own))
  /\ channel \in Seq(DueOf(Own)) /\ read \in 0 .. Len(channel) /\ Len(channel) - read <= Capacity
  /\ \A a \in announced : a.note \in Notification /\ a.of \in inserted
  /\ \A s \in inserted : \E agg \in JsonAggs(AnnouncedOf(s)) :
       {a \in announced : a.of = s} = Announcements(agg, s)

-----------------------------------------------------------------------------
\* Chunks.

LEMMA AnnouncedIs ==
  ASSUME NEW s \in Statement
  PROVE  /\ AnnouncedOf(s) \in SUBSET Id /\ AnnouncedOf(s) \in SUBSET Due
         /\ IsFiniteSet(AnnouncedOf(s)) /\ AnnouncedOf(s) \in SUBSET s
<1>1. s \subseteq Id /\ IsFiniteSet(s)
  BY ListenAssumption
<1>2. AnnouncedOf(s) \in SUBSET s /\ AnnouncedOf(s) \in SUBSET Due
  BY DEF AnnouncedOf
<1>3. IsFiniteSet(AnnouncedOf(s))
  BY <1>1, <1>2, FS_Subset
<1> QED BY <1>1, <1>2, <1>3

\* The rows before another one of its queue.
Before(due, i) == {j \in due : j < i /\ QueueOf[j] = QueueOf[i]}

\* The ranks in a queue differ, and are in the order of ids.
LEMMA RankGrows ==
  ASSUME NEW due \in SUBSET Id, IsFiniteSet(due), NEW i \in due, NEW j \in due,
         QueueOf[i] = QueueOf[j], i < j
  PROVE  Rank(due, i) < Rank(due, j)
<1>0. i \in Nat /\ j \in Nat /\ \A k \in due : k \in Nat
  BY ListenAssumption
<1>1. Before(due, i) \in SUBSET Before(due, j) /\ i \in Before(due, j) /\ i \notin Before(due, i)
  <2>1. ASSUME NEW k \in Before(due, i) PROVE k \in Before(due, j)
    <3>1. k \in due /\ k \in Nat /\ k < i /\ QueueOf[k] = QueueOf[i]
      BY <1>0, <2>1 DEF Before
    <3>2. k < j
      BY <1>0, <3>1
    <3> QED BY <3>1, <3>2 DEF Before
  <2>2. i \in Before(due, j) /\ i \notin Before(due, i)
    BY <1>0 DEF Before
  <2> QED BY <2>1, <2>2
<1>2. Before(due, j) \in SUBSET due
  BY DEF Before
<1>3. IsFiniteSet(Before(due, j)) /\ IsFiniteSet(Before(due, i))
  BY <1>1, <1>2, FS_Subset
<1>4. /\ Cardinality(Before(due, i)) <= Cardinality(Before(due, j))
      /\ Cardinality(Before(due, j)) # Cardinality(Before(due, i))
  BY <1>1, <1>3, FS_Subset
<1>5. Cardinality(Before(due, i)) \in Nat /\ Cardinality(Before(due, j)) \in Nat
  BY <1>3, FS_CardinalityType
<1>6. Rank(due, i) = Cardinality(Before(due, i)) /\ Rank(due, j) = Cardinality(Before(due, j))
  BY DEF Rank, Before
<1> QED BY <1>4, <1>5, <1>6

LEMMA RankType ==
  ASSUME NEW due \in SUBSET Id, IsFiniteSet(due), NEW i \in due
  PROVE  Rank(due, i) \in Nat
<1>1. Before(due, i) \in SUBSET due
  BY DEF Before
<1>2. Cardinality(Before(due, i)) \in Nat
  BY <1>1, FS_Subset, FS_CardinalityType
<1> QED BY <1>2 DEF Rank, Before

\* A quotient and a remainder determine a number.
LEMMA Divided ==
  ASSUME NEW a \in Nat, NEW b \in Nat, NEW n \in Nat \ {0},
         a \div n = b \div n, a % n = b % n
  PROVE  a = b
<1>1. a = n * (a \div n) + (a % n)
  OBVIOUS
<1>2. b = n * (b \div n) + (b % n)
  OBVIOUS
<1> QED BY <1>1, <1>2

\* (row_number() - 1) / 100: a chunk holds at most ChunkSize ids.
LEMMA ChunkSmall ==
  ASSUME NEW due \in SUBSET Id, IsFiniteSet(due), NEW c
  PROVE  /\ IsFiniteSet(InChunk(due, c)) /\ Cardinality(InChunk(due, c)) \in Nat
         /\ Cardinality(InChunk(due, c)) <= ChunkSize
<1> DEFINE S == InChunk(due, c)
           T == 0 .. (ChunkSize - 1)
           f == [i \in S |-> Rank(due, i) % ChunkSize]
<1>0. ChunkSize \in Nat \ {0}
  BY ListenAssumption
<1>1. S \in SUBSET due
  BY DEF InChunk
<1>2. IsFiniteSet(S) /\ Cardinality(S) \in Nat
  BY <1>1, FS_Subset, FS_CardinalityType
<1>3. ASSUME NEW i \in S
      PROVE  /\ i \in due /\ Rank(due, i) \in Nat /\ i \in Nat
             /\ Rank(due, i) % ChunkSize \in T /\ QueueOf[i] = c[1]
             /\ Rank(due, i) \div ChunkSize = c[2]
  <2>1. i \in due /\ i \in Nat /\ Rank(due, i) \in Nat
    BY <1>1, <1>3, RankType, ListenAssumption
  <2>2. Rank(due, i) % ChunkSize \in T
    BY <1>0, <2>1
  <2>3. ChunkOf(due, i) = c
    BY <1>3 DEF InChunk
  <2> QED BY <2>1, <2>2, <2>3 DEF ChunkOf
<1>4. ASSUME NEW i \in S, NEW j \in S, f[i] = f[j] PROVE i = j
  <2>1. Rank(due, i) % ChunkSize = Rank(due, j) % ChunkSize
    BY <1>4
  <2> HIDE DEF S, T, f
  <2>2. Rank(due, i) = Rank(due, j)
    BY <1>0, <1>3, <2>1, Divided
  <2>3. ~(i < j) /\ ~(j < i)
    BY <1>3, <2>2, RankGrows
  <2> QED BY <1>3, <2>3
<1>5. f \in Injection(S, T)
  <2>1. f \in [S -> T]
    BY <1>3
  <2> QED BY <1>4, <2>1 DEF Injection, IsInjective
<1>6. IsFiniteSet(T) /\ Cardinality(T) = ChunkSize
  <2>1. /\ 0 \in Int /\ ChunkSize - 1 \in Int
        /\ ~(0 > ChunkSize - 1) /\ (ChunkSize - 1) - 0 + 1 = ChunkSize
    BY <1>0
  <2>2. IsFiniteSet(T) /\ Cardinality(T) = IF 0 > ChunkSize - 1 THEN 0 ELSE (ChunkSize - 1) - 0 + 1
    BY ONLY <2>1, FS_Interval
  <2> QED BY ONLY <2>1, <2>2
<1> HIDE DEF f, T, S
<1>7. Cardinality(S) <= Cardinality(T)
  BY ONLY <1>5, <1>6, FS_Injection
<1> QED BY <1>2, <1>6, <1>7 DEF S

LEMMA ChunksFinite ==
  ASSUME NEW due, IsFiniteSet(due)
  PROVE  IsFiniteSet(Chunks(due)) /\ Cardinality(Chunks(due)) \in Nat
<1> DEFINE f == [i \in due |-> ChunkOf(due, i)]
<1>1. f \in Surjection(due, Chunks(due))
  BY DEF Chunks, Surjection
<1> HIDE DEF f
<1>2. IsFiniteSet(Chunks(due))
  BY ONLY <1>1, IsFiniteSet(due), FS_Surjection
<1> QED BY <1>2, FS_CardinalityType

\* What json_agg makes of the chunks.
LEMMA AggsAre ==
  ASSUME NEW due \in SUBSET Id, IsFiniteSet(due), NEW agg \in JsonAggs(due),
         NEW c \in Chunks(due)
  PROVE  /\ agg[c] \in Seq(Id) /\ Len(agg[c]) <= ChunkSize
         /\ Range(agg[c]) = InChunk(due, c)
         /\ DOMAIN agg[c] = 1 .. Len(agg[c])
<1>1. Range(agg[c]) = InChunk(due, c)
  BY DEF JsonAggs
<1>2. agg[c] \in UNION {SetToSeqs(InChunk(due, d)) : d \in Chunks(due)}
  BY DEF JsonAggs
<1>3. PICK d \in Chunks(due) : agg[c] \in SetToSeqs(InChunk(due, d))
  BY <1>2
<1> DEFINE n == Cardinality(InChunk(due, d))
<1>4. n \in Nat /\ n <= ChunkSize
  BY ChunkSmall
<1>5. agg[c] \in [1 .. n -> InChunk(due, d)]
  BY <1>3 DEF SetToSeqs
<1>6. InChunk(due, d) \subseteq Id
  BY DEF InChunk
<1> HIDE DEF n
<1>7. agg[c] \in [1 .. n -> Id]
  BY <1>5, <1>6
<1>8. agg[c] \in Seq(Id) /\ Len(agg[c]) = n /\ DOMAIN agg[c] = 1 .. n
  BY <1>4, <1>7
<1> QED BY <1>1, <1>4, <1>8

\* A due row is announced once, to its queue; no other row is.
LEMMA OnceOf ==
  ASSUME NEW s \in Statement, NEW agg \in JsonAggs(AnnouncedOf(s)), NEW i \in s
  PROVE  LET of == {a \in Announcements(agg, s) : i \in Range(a.note.ids)}
         IN IF i \in Due
              THEN /\ Cardinality(of) = 1
                   /\ \A a \in of : /\ a.note.queue = QueueOf[i]
                                    /\ Len(a.note.ids) <= ChunkSize
                                    /\ IntoIds(a.note) = a.note.ids
              ELSE of = {}
<1> DEFINE due == AnnouncedOf(s)
           of == {a \in Announcements(agg, s) : i \in Range(a.note.ids)}
           x == ChunkOf(due, i)
           m == [note |-> Note(agg, x), of |-> s]
<1>1. due \in SUBSET Id /\ IsFiniteSet(due) /\ (i \in due <=> i \in Due)
  BY AnnouncedIs DEF AnnouncedOf
<1>2. ASSUME NEW c \in Chunks(due)
      PROVE  /\ agg[c] \in Seq(Id) /\ Len(agg[c]) <= ChunkSize
             /\ i \in Range(agg[c]) <=> i \in due /\ c = x
  <2>1. agg[c] \in Seq(Id) /\ Len(agg[c]) <= ChunkSize /\ Range(agg[c]) = InChunk(due, c)
    BY <1>1, AggsAre
  <2> QED BY <2>1 DEF InChunk
<1>3. i \in due => x \in Chunks(due)
  BY DEF Chunks
<1>4. \A a : a \in of <=> \E c \in Chunks(due) :
        a = [note |-> Note(agg, c), of |-> s] /\ i \in Range(agg[c])
  BY DEF Announcements, Note
<1>5. m.note.queue = QueueOf[i] /\ m.note.ids = agg[x]
  BY DEF Note, ChunkOf
<1> HIDE DEF due, x, m, of
<1>6. CASE i \notin Due
  <2>1. of = {}
    BY <1>1, <1>2, <1>4, <1>6
  <2> QED BY <1>6, <2>1 DEF of
<1>7. CASE i \in Due
  <2>1. x \in Chunks(due) /\ i \in Range(agg[x])
    BY <1>1, <1>2, <1>3, <1>7
  <2>2. of = {m}
    <3>1. m \in of
      BY <1>4, <2>1 DEF m
    <3>2. ASSUME NEW a \in of PROVE a = m
      BY <1>2, <1>4 DEF m
    <3> QED BY <3>1, <3>2
  <2>3. Cardinality(of) = 1
    BY <2>2, FS_Singleton
  <2>4. m.note.ids \in Seq(Id) /\ Len(m.note.ids) <= ChunkSize
    BY <1>2, <1>5, <2>1
  <2>5. IntoIds(m.note) = m.note.ids
    <3> DEFINE t == m.note.ids
    <3>1. t \in Seq(Id) /\ Len(t) \in Nat /\ Len(t) <= ChunkSize
      BY <2>4, LenProperties
    <3> HIDE DEF t
    <3>2. ~(Len(t) > IdsCap)
      BY <3>1, ListenAssumption
    <3>3. SubSeq(t, 1, Len(t)) = t
      BY <3>1, SubSeqFull
    <3> QED BY <3>2, <3>3 DEF IntoIds, t
  <2>6. \A a \in of : /\ a.note.queue = QueueOf[i]
                      /\ Len(a.note.ids) <= ChunkSize
                      /\ IntoIds(a.note) = a.note.ids
    BY <1>5, <2>2, <2>4, <2>5
  <2> QED BY <1>7, <2>3, <2>6 DEF of
<1> QED BY <1>6, <1>7

\* The announcements of a statement, as the stream may meet them.
LEMMA NotesAre ==
  ASSUME NEW s \in Statement, NEW agg \in JsonAggs(AnnouncedOf(s)),
         NEW c \in Chunks(AnnouncedOf(s))
  PROVE  /\ Note(agg, c) \in Notification
         /\ \A i \in Range(agg[c]) : i \in Id /\ QueueOf[i] = c[1] /\ i \in s /\ i \in Due
         /\ Note(agg, c).queue = c[1] /\ Note(agg, c).ids = agg[c] /\ agg[c] \in Seq(Id)
<1> DEFINE due == AnnouncedOf(s)
<1>1. /\ due \in SUBSET Id /\ IsFiniteSet(due) /\ \A i \in due : i \in s /\ i \in Due
  BY AnnouncedIs
<1>2. agg[c] \in Seq(Id) /\ Range(agg[c]) = InChunk(due, c)
  BY <1>1, AggsAre
<1>3. ASSUME NEW i \in Range(agg[c]) PROVE i \in due /\ QueueOf[i] = c[1]
  BY <1>2, <1>3 DEF InChunk, ChunkOf
<1>4. PICK i \in due : c = ChunkOf(due, i)
  BY DEF Chunks
<1>5. c[1] = QueueOf[i] /\ i \in DOMAIN QueueOf
  BY <1>1, <1>4, ListenAssumption DEF ChunkOf
<1>6. c[1] \in Range(QueueOf)
  BY <1>5 DEF Range
<1>7. Note(agg, c) = [queue |-> c[1], ids |-> agg[c]]
  BY DEF Note
<1> HIDE DEF due
<1>8. Note(agg, c) \in Notification
  BY <1>2, <1>6, <1>7 DEF Notification
<1> QED BY <1>1, <1>2, <1>3, <1>7, <1>8

-----------------------------------------------------------------------------
\* Steps.

LEMMA WiderSeq ==
  ASSUME NEW S, NEW T, S \subseteq T, NEW q \in Seq(S)
  PROVE  q \in Seq(T)
<1>1. Len(q) \in Nat /\ q \in [1 .. Len(q) -> S]
  BY LenProperties
<1>2. q \in [1 .. Len(q) -> T]
  BY <1>1
<1> QED BY <1>1, <1>2

LEMMA SeqFrom ==
  ASSUME NEW S, NEW T, NEW q \in Seq(S), \A x \in Range(q) : x \in T
  PROVE  q \in Seq(T)
<1>1. Len(q) \in Nat /\ q \in [1 .. Len(q) -> S] /\ DOMAIN q = 1 .. Len(q)
  BY LenProperties
<1>2. \A i \in 1 .. Len(q) : q[i] \in T
  BY <1>1 DEF Range
<1>3. q \in [1 .. Len(q) -> T]
  BY <1>1, <1>2
<1> QED BY <1>1, <1>3

\* The trigger adds announcements of due rows.
LEMMA InsertPath ==
  ASSUME PathInv, NEW s \in Statement, Insert(s)
  PROVE  PathInv'
<1>1. /\ s \notin inserted /\ inserted' = inserted \cup {s} /\ inserted \in SUBSET Statement
      /\ UNCHANGED <<thread, listening, held, channel, read>>
  BY DEF Insert, PathInv
<1>2. PICK agg \in JsonAggs(AnnouncedOf(s)), order \in SetToSeqs(Chunks(AnnouncedOf(s))) :
        /\ announced' = announced \union Announcements(agg, s)
        /\ inbox' = IF listening THEN inbox \o [n \in DOMAIN order |-> Note(agg, order[n])] ELSE inbox
  BY DEF Insert, Announcements
<1>3. \A q : DueOf(q) \subseteq DueOf(q)'
  BY <1>1 DEF DueOf
<1>4. Announceable \subseteq Announceable'
  <2>1. ASSUME NEW n \in Announceable PROVE n \in Announceable'
    <3>1. n \in Notification /\ n.ids \in Seq(DueOf(n.queue))
      BY <2>1 DEF Announceable
    <3>2. n.ids \in Seq(DueOf(n.queue)')
      BY <1>3, <3>1, WiderSeq
    <3> QED BY <3>1, <3>2 DEF Announceable, DueOf
  <2> QED BY <2>1
<1>5. ASSUME NEW c \in Chunks(AnnouncedOf(s)) PROVE Note(agg, c) \in Announceable'
  <2>1. /\ Note(agg, c) \in Notification
        /\ \A i \in Range(agg[c]) : i \in Id /\ QueueOf[i] = c[1] /\ i \in s /\ i \in Due
        /\ Note(agg, c).queue = c[1] /\ Note(agg, c).ids = agg[c] /\ agg[c] \in Seq(Id)
    BY NotesAre
  <2>2. \A i \in Range(agg[c]) : i \in DueOf(c[1])'
    BY <1>1, <2>1 DEF DueOf
  <2>3. agg[c] \in Seq(DueOf(c[1])')
    BY <2>1, <2>2, SeqFrom
  <2> QED BY <2>1, <2>3 DEF Announceable, DueOf
<1>6. inbox' \in Seq(Announceable')
  <2> DEFINE k == Cardinality(Chunks(AnnouncedOf(s)))
             notes == [n \in DOMAIN order |-> Note(agg, order[n])]
  <2>1. k \in Nat
    BY AnnouncedIs, ChunksFinite
  <2>2. order \in [1 .. k -> Chunks(AnnouncedOf(s))]
    BY DEF SetToSeqs
  <2>3. notes \in [1 .. k -> Announceable']
    BY <1>5, <2>2
  <2> HIDE DEF k
  <2>4. notes \in Seq(Announceable')
    BY <2>1, <2>3
  <2> HIDE DEF notes
  <2>5. inbox \in Seq(Announceable')
    BY <1>4, WiderSeq DEF PathInv
  <2>6. inbox \o notes \in Seq(Announceable')
    BY <2>4, <2>5, ConcatProperties
  <2> QED BY <1>2, <2>5, <2>6 DEF notes
<1>7. held' \in Seq(DueOf(Own)') /\ channel' \in Seq(DueOf(Own)')
  BY <1>1, <1>3, WiderSeq DEF PathInv
<1>8. \A a \in Announcements(agg, s) : a.of = s /\ a.note \in Notification
  BY NotesAre DEF Announcements
<1>9. \A a \in announced' : a.note \in Notification /\ a.of \in inserted'
  BY <1>1, <1>2, <1>8 DEF PathInv
<1>10. ASSUME NEW t \in inserted'
       PROVE  \E g \in JsonAggs(AnnouncedOf(t)) : {a \in announced' : a.of = t} = Announcements(g, t)
  <2>1. CASE t = s
    <3>1. {a \in announced' : a.of = s} = Announcements(agg, s)
      BY <1>1, <1>2, <1>8 DEF PathInv
    <3> QED BY <2>1, <3>1
  <2>2. CASE t # s
    <3>1. t \in inserted
      BY <1>1, <2>2
    <3>2. {a \in announced' : a.of = t} = {a \in announced : a.of = t}
      BY <1>2, <1>8, <2>2
    <3> QED BY <3>1, <3>2 DEF PathInv
  <2> QED BY <2>1, <2>2
<1>11. inserted' \in SUBSET Statement
  BY <1>1
<1>12. /\ thread' \in ThreadPC /\ listening' \in BOOLEAN
       /\ read' \in 0 .. Len(channel') /\ Len(channel') - read' <= Capacity
  BY <1>1 DEF PathInv
<1> QED BY <1>6, <1>7, <1>9, <1>10, <1>11, <1>12 DEF PathInv, Announcements, JsonAggs

\* What a step needs to keep when nothing is inserted.
LEMMA PathKept ==
  ASSUME PathInv, UNCHANGED <<inserted, announced>>,
         thread' \in ThreadPC, listening' \in BOOLEAN,
         inbox' \in Seq(Announceable), held' \in Seq(DueOf(Own)), channel' \in Seq(DueOf(Own)),
         read' \in 0 .. Len(channel'), Len(channel') - read' <= Capacity
  PROVE  PathInv'
<1>1. DueOf(Own)' = DueOf(Own) /\ Announceable' = Announceable
  BY DEF DueOf, Announceable
<1> QED BY <1>1 DEF PathInv

\* The listener thread takes notifications from its connection and sends the
\* hints of its queue as long as there is room.
LEMMA ThreadPath ==
  ASSUME PathInv, ThreadStep
  PROVE  PathInv'
<1>0. /\ thread \in ThreadPC /\ listening \in BOOLEAN
      /\ inbox \in Seq(Announceable) /\ held \in Seq(DueOf(Own)) /\ channel \in Seq(DueOf(Own))
      /\ Len(channel) \in Nat /\ read \in 0 .. Len(channel) /\ Len(channel) - read <= Capacity
      /\ Capacity \in Nat
  BY LenProperties, ListenAssumption DEF PathInv
<1>1. CASE Connect \/ TestCancel \/ IterateError \/ Publish \/ PublishWake \/ DropSender
  <2>1. /\ UNCHANGED <<inserted, announced, inbox, held, channel, read>>
        /\ thread' \in ThreadPC /\ listening' \in BOOLEAN
    BY <1>0, <1>1 DEF Connect, TestCancel, IterateError, Publish, PublishWake, DropSender, Goto,
                      ThreadPC
  <2> QED BY <1>0, <2>1, PathKept
<1>2. CASE Unlisten
  <2>1. /\ UNCHANGED <<inserted, announced, held, channel, read>>
        /\ thread' \in ThreadPC /\ listening' \in BOOLEAN /\ inbox' = <<>>
    BY <1>0, <1>2 DEF Unlisten, ThreadPC
  <2>2. inbox' \in Seq(Announceable)
    BY <2>1
  <2> QED BY <1>0, <2>1, <2>2, PathKept
<1>3. CASE Iterate
  <2>1. UNCHANGED <<inserted, announced, listening, channel, read>>
    BY <1>3 DEF Iterate, Goto
  <2>2. CASE inbox = <<>>
    <3>1. thread' \in ThreadPC /\ UNCHANGED <<inbox, held>>
      BY <1>3, <2>2 DEF Iterate, Goto, ThreadPC
    <3> QED BY <1>0, <2>1, <3>1, PathKept
  <2>3. CASE inbox # <<>>
    <3>1. Head(inbox) \in Announceable /\ Tail(inbox) \in Seq(Announceable)
      BY <1>0, <2>3, HeadTailProperties
    <3>2. /\ inbox' = Tail(inbox) /\ thread' \in ThreadPC
          /\ held' = held \/ (Head(inbox).queue = Own /\ held' = IntoIds(Head(inbox)))
      <4>1. inbox' = Tail(inbox)
        BY <1>3, <2>3 DEF Iterate
      <4>2. CASE cancel
        <5>1. thread' = "unlistening" /\ held' = held
          BY <1>3, <2>3, <4>2 DEF Iterate
        <5> QED BY <4>1, <5>1 DEF ThreadPC
      <4>3. CASE ~cancel /\ ForThisQueue(Head(inbox))
        <5>1. thread' = "sending" /\ held' = IntoIds(Head(inbox))
          BY <1>3, <2>3, <4>3 DEF Iterate
        <5> QED BY <4>1, <4>3, <5>1 DEF ForThisQueue, ThreadPC
      <4>4. CASE ~cancel /\ ~ForThisQueue(Head(inbox))
        <5>1. thread' = thread /\ held' = held
          BY <1>3, <2>3, <4>4 DEF Iterate
        <5> QED BY <1>0, <4>1, <5>1
      <4> QED BY <4>2, <4>3, <4>4
    <3>3. ASSUME Head(inbox).queue = Own PROVE IntoIds(Head(inbox)) \in Seq(DueOf(Own))
      <4> DEFINE t == Head(inbox).ids
                 n == IF Len(t) > IdsCap THEN IdsCap ELSE Len(t)
      <4>1. t \in Seq(DueOf(Own))
        BY <3>1, <3>3 DEF Announceable
      <4>2. Len(t) \in Nat /\ IdsCap \in Nat
        BY <4>1, LenProperties, ListenAssumption
      <4> HIDE DEF t
      <4>3. n \in Nat /\ n <= Len(t)
        BY <4>2
      <4> HIDE DEF n
      <4>4. SubSeq(t, 1, n) \in Seq(DueOf(Own))
        BY <4>1, <4>2, <4>3, SubSeqProperties
      <4> QED BY <4>4 DEF IntoIds, t, n
    <3>4. held' \in Seq(DueOf(Own))
      BY <1>0, <3>2, <3>3
    <3> QED BY <1>0, <2>1, <3>1, <3>2, <3>4, PathKept
  <2> QED BY <2>2, <2>3
<1>4. CASE Deliver
  <2>1. UNCHANGED <<inserted, announced, listening, inbox, read>> /\ thread' \in ThreadPC
    BY <1>0, <1>4 DEF Deliver, Goto, ThreadPC
  <2>2. CASE held = <<>> \/ consumer = "gone"
    <3>1. UNCHANGED <<held, channel>>
      <4>1. CASE held = <<>>
        BY <1>4, <4>1 DEF Deliver, Goto
      <4>2. CASE held # <<>> /\ consumer = "gone"
        BY <1>4, <4>2 DEF Deliver, Goto
      <4> QED BY <2>2, <4>1, <4>2
    <3> QED BY <1>0, <2>1, <3>1, PathKept
  <2>3. CASE held # <<>> /\ consumer # "gone" /\ ChannelFull
    <3>1. held' = <<>> /\ UNCHANGED channel
      BY <1>4, <2>3 DEF Deliver
    <3>2. held' \in Seq(DueOf(Own))
      BY <3>1
    <3> QED BY <1>0, <2>1, <3>1, <3>2, PathKept
  <2>4. CASE held # <<>> /\ consumer # "gone" /\ ~ChannelFull
    <3>1. channel' = Append(channel, Head(held)) /\ held' = Tail(held)
      BY <1>4, <2>4 DEF Deliver
    <3>2. Head(held) \in DueOf(Own) /\ Tail(held) \in Seq(DueOf(Own))
      BY <1>0, <2>4, HeadTailProperties
    <3>3. channel' \in Seq(DueOf(Own)) /\ Len(channel') = Len(channel) + 1
      BY <1>0, <3>1, <3>2, AppendProperties
    <3>4. Len(channel) - read < Capacity
      BY <1>0, <2>4 DEF ChannelFull
    <3>5. read' \in 0 .. Len(channel') /\ Len(channel') - read' <= Capacity
      BY <1>0, <2>1, <3>3, <3>4
    <3> QED BY <1>0, <2>1, <3>1, <3>2, <3>3, <3>5, PathKept
  <2> QED BY <2>2, <2>3, <2>4
<1> QED BY <1>1, <1>2, <1>3, <1>4 DEF ThreadStep

\* The consumer receives hints and leaves the rest alone.
LEMMA ConsumerPath ==
  ASSUME PathInv, PollNext \/ DropTaskIds \/ DropReceiver \/ UNCHANGED listenVars
  PROVE  PathInv'
<1>0. /\ thread \in ThreadPC /\ listening \in BOOLEAN
      /\ inbox \in Seq(Announceable) /\ held \in Seq(DueOf(Own)) /\ channel \in Seq(DueOf(Own))
      /\ Len(channel) \in Nat /\ read \in 0 .. Len(channel) /\ Len(channel) - read <= Capacity
      /\ Capacity \in Nat
  BY LenProperties, ListenAssumption DEF PathInv
<1>1. UNCHANGED <<inserted, announced, threadVars, channel>>
  BY DEF PollNext, PollRegister, PollTake, PollReceive, PollRecheck, PollUnchanged, DropTaskIds,
         DropReceiver, listenVars
<1>2. UNCHANGED <<inserted, announced, thread, listening, inbox, held, channel>>
  BY <1>1 DEF threadVars
<1>3. read' = read \/ (read < Len(channel) /\ read' = read + 1)
  <2>1. CASE PollReceive
    BY <2>1 DEF PollReceive
  <2>2. CASE PollRegister \/ PollTake \/ PollRecheck
    BY <2>2 DEF PollRegister, PollTake, PollRecheck
  <2>3. CASE DropTaskIds \/ DropReceiver \/ UNCHANGED listenVars
    BY <2>3 DEF DropTaskIds, DropReceiver, listenVars
  <2> QED BY <2>1, <2>2, <2>3 DEF PollNext
<1>4. read' \in 0 .. Len(channel') /\ Len(channel') - read' <= Capacity
  BY <1>0, <1>2, <1>3
<1> QED BY <1>0, <1>2, <1>4, PathKept

\* The invariant of the path of a hint, for any chunks, statements and
\* capacities.
THEOREM PathSafe == ListenSpec => []PathInv
<1>1. ASSUME ListenInit PROVE PathInv
  <2>1. \A S : <<>> \in Seq(S)
    OBVIOUS
  <2>2. Len(<<>>) = 0 /\ Capacity \in Nat
    BY ListenAssumption
  <2>3. /\ inserted = {} /\ announced = {} /\ inbox = <<>> /\ held = <<>> /\ channel = <<>>
        /\ thread \in ThreadPC /\ listening \in BOOLEAN /\ read = 0
    BY <1>1 DEF ListenInit, ThreadPC
  <2>4. read \in 0 .. Len(channel) /\ Len(channel) - read <= Capacity
    BY <2>2, <2>3
  <2>5. inbox \in Seq(Announceable) /\ held \in Seq(DueOf(Own)) /\ channel \in Seq(DueOf(Own))
    BY <2>1, <2>3
  <2> QED BY <2>3, <2>4, <2>5 DEF PathInv
<1>2. PathInv /\ [ListenNext]_listenVars => PathInv'
  BY InsertPath, ThreadPath, ConsumerPath DEF ListenNext
<1> QED BY <1>1, <1>2, PTL DEF ListenSpec

LEMMA HintsFollow ==
  ASSUME PathInv, HintInv
  PROVE  HintsSound
<1>1. /\ inserted \in SUBSET Statement
      /\ inbox \in Seq(Announceable) /\ held \in Seq(DueOf(Own)) /\ channel \in Seq(DueOf(Own))
      /\ thread \in ThreadPC /\ listening \in BOOLEAN
      /\ read \in 0 .. Len(channel) /\ Len(channel) - read <= Capacity
  BY DEF PathInv
<1>2. DueOf(Own) \subseteq Id /\ Announceable \subseteq Notification
  BY DEF DueOf, Announceable
<1>3. inbox \in Seq(Notification) /\ held \in Seq(Id) /\ channel \in Seq(Id)
  BY <1>1, <1>2, WiderSeq
<1>4. /\ {cancel, notified, waker, pending, seen} \subseteq BOOLEAN
      /\ consumer \in {"live", "cancelled", "gone"} /\ poll \in PollPC
  BY DEF HintInv
<1>5. \A a \in announced : a.note \in Notification /\ a.of \in Statement
  BY <1>1 DEF PathInv
<1>6. ListenerTypeOK
  BY <1>1, <1>3, <1>4, <1>5 DEF ListenerTypeOK
<1>7. AnnouncedOnce
  <2> SUFFICES ASSUME NEW s \in inserted, NEW i \in s
               PROVE  LET of == {a \in announced : a.of = s /\ i \in Range(a.note.ids)}
                      IN IF i \in Due
                           THEN /\ Cardinality(of) = 1
                                /\ \A a \in of : /\ a.note.queue = QueueOf[i]
                                                 /\ Len(a.note.ids) <= ChunkSize
                                                 /\ IntoIds(a.note) = a.note.ids
                           ELSE of = {}
    BY DEF AnnouncedOnce
  <2>1. PICK agg \in JsonAggs(AnnouncedOf(s)) : {a \in announced : a.of = s} = Announcements(agg, s)
    BY DEF PathInv
  <2>2. {a \in announced : a.of = s /\ i \in Range(a.note.ids)}
          = {a \in Announcements(agg, s) : i \in Range(a.note.ids)}
    BY <2>1
  <2>3. s \in Statement
    BY <1>1
  <2> QED BY <2>2, <2>3, OnceOf
<1>8. HintsAreOwn
  <2> SUFFICES ASSUME NEW n \in DOMAIN channel
               PROVE  QueueOf[channel[n]] = Own
                      /\ \E s \in inserted : channel[n] \in s \intersect Due
    BY DEF HintsAreOwn
  <2>1. channel[n] \in DueOf(Own)
    BY <1>1, ElementOfSeq, LenProperties
  <2> QED BY <2>1 DEF DueOf
<1> QED BY <1>6, <1>7, <1>8 DEF HintsSound, HintInv, EndIsExplained, NoSleepOnError

\* Of the notification path, for any statements, chunk sizes and capacities:
\* the trigger notify_new_jobs announces every due row once, to its own queue
\* and in payloads InsertEvent does not truncate; the channel keeps its bound
\* and carries due rows of its queue only; the stream of hints ends only after
\* it yielded the error that ended its thread (NotifyTaskIds::poll_next looks at
\* the errors once more), and no published error finds its consumer asleep
\* without a wake-up on its way (NotificationErrors::publish).
THEOREM HintsAreSound == ListenSpec => []HintsSound
<1>1. PathInv /\ HintInv => HintsSound
  BY HintsFollow
<1> QED BY <1>1, PathSafe, HintsSafe, PTL

=============================================================================
