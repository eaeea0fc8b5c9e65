-------------------------- MODULE ApiGovernor_proofs ---------------------------
(***************************************************************************)
(* Proofs about ApiGovernor for every budget, number of attempts and pages,*)
(* threshold and cooldown.  The inductive invariant IInv adds to the       *)
(* properties where a write stands at each step, how many requests a call  *)
(* has sent by then, and where the gap among the failures in a row lies.   *)
(***************************************************************************)
EXTENDS ApiGovernor, SequenceTheorems, TLAPS

\* The step a call is at belongs to the call, and a circuit that is open has
\* no request under way.
ControlOK ==
  /\ pc \in Probes \union {"write"} => call = "write"
  /\ pc \in {"read_page", "read_all"} => call = pc
  /\ pc = "idle" => flight = None
  /\ flight # None => flight <= now

\* The failures after which a write may still take effect.
LeftOpen == Retryable \union {"malformed-response"}

\* Where the write of a call stands.
WriteStands ==
  /\ effect => seen
  /\ sent <= 1
  /\ pending => sent = 1
  /\ call # "write" \/ pc = "probe_first" => sent = 0 /\ ~pending
  /\ pc = "write" => IF flight = None THEN sent = 0 /\ ~pending ELSE sent = 1
  /\ pc = "probe_after" => sent = 1
  /\ pc = "probe_recover" =>
       /\ caught # "ambiguous-write"
       /\ caught \notin LeftOpen => ~pending

UnderWay == IF flight = None THEN 0 ELSE 1

\* The requests a call has sent when it is at this step.
SentSoFar ==
  /\ pc = "read_page" \/ pc = "probe_first" => spent <= attempt - 1 + UnderWay
  /\ pc = "read_all" => spent <= (page - 1) * MaxAttempts + attempt - 1 + UnderWay
  /\ pc = "write" => spent <= MaxAttempts + UnderWay
  /\ pc \in {"probe_recover", "probe_after"} =>
       spent <= MaxAttempts + attempt + UnderWay

\* The last failures of a row are those since the circuit last closed; what
\* was sent before them is a cooldown earlier.
GapStands ==
  /\ Len(streak) <= Threshold
  /\ failures <= Len(streak)
  /\ openUntil = None => failures < Threshold
  /\ openUntil # None =>
       /\ flight = None
       /\ failures = Threshold
       /\ openUntil = streak[Len(streak)] + Cooldown
  /\ 0 < failures /\ failures < Len(streak) =>
       streak[Len(streak) - failures + 1] >= streak[Len(streak) - failures] + Cooldown
  /\ failures = 0 /\ Len(streak) > 0 =>
       (IF flight = None THEN now ELSE flight) >= streak[Len(streak)] + Cooldown

IInv ==
  /\ TypeOK /\ ControlOK /\ WriteStands /\ SentSoFar /\ GapStands
  /\ SuccessIsProven /\ WriteIsSentOnce /\ DefiniteFailureIsFinal /\ CallIsBounded

--------------------------------------------------------------------------------
(* What the parts of a step do *)

USE GovernorConstants

\* Every response is a success or a failure that is known by its kind.
LEMMA ClassifiedKind ==
  ASSUME NEW r \in Responses
  PROVE  ClassifyResponse(r) \in
           Retryable \union {"success", "malformed-response", "authentication", "permission"}
BY DEF ClassifyResponse, Retryable

\* A final answer that is classified as a refusal is one.
LEMMA RefusalSettles ==
  ASSUME NEW r \in Responses, ClassifyResponse(r) \in {"authentication", "permission"}
  PROVE  r.status \in 300..499
<1>1. r.status \in Nat /\ r.status \notin 100..199
  BY FinalAnswers
<1>2. r.status \in 100..599 /\ r.status \notin 200..299 /\ r.status \notin 500..599
  BY <1>1 DEF ClassifyResponse
<1> QED BY <1>1, <1>2

\* The three ways a failed request leaves its call.
LEMMA FailureLeads ==
  ASSUME NEW kind \in Failures, TypeOK, pc # "idle", Fails(kind)
  PROVE  /\ call' = call /\ page' = page /\ flight' = None
         /\ \/ /\ pc = "write" /\ pc' = "probe_recover"
              /\ attempt' = 1 /\ caught' = kind
              /\ UNCHANGED <<answer, verdict>>
           \/ /\ pc # "write" /\ kind \in Retryable /\ attempt < MaxAttempts
              /\ attempt' = attempt + 1
              /\ UNCHANGED <<pc, caught, answer, verdict>>
           \/ /\ pc # "write" /\ pc' = "idle" /\ answer' = kind
              /\ UNCHANGED <<attempt, caught>>
              /\ verdict' = IF pc \in Probes THEN "raised" ELSE verdict
BY DEF Fails, WriteFails, GoesOnTo, Retries, ReadAgain, Returns

\* The ways a request that succeeded leaves its call.
LEMMA SuccessLeads ==
  ASSUME TypeOK, pc # "idle", Succeeds
  PROVE  /\ call' = call /\ flight' = None
         /\ \/ /\ pc \in {"read_page", "read_all"}
              /\ pc' = "idle" /\ answer' \in {"response", "values",
                    "malformed-response", "incomplete-pagination"}
              /\ UNCHANGED <<attempt, page, caught, verdict>>
           \/ /\ pc = "read_all" /\ page < MaxPages
              /\ page' = page + 1 /\ attempt' = 1
              /\ UNCHANGED <<pc, caught, answer, verdict>>
           \/ /\ pc = "write" /\ pc' = "probe_after" /\ attempt' = 1
              /\ UNCHANGED <<page, caught, answer, verdict>>
           \/ /\ pc = "probe_first" /\ ~effect /\ pc' = "write" /\ attempt' = 1
              /\ verdict' = "absent" /\ UNCHANGED <<page, caught, answer>>
           \/ /\ pc = "probe_first" /\ effect /\ pc' = "idle"
              /\ answer' = "already-present" /\ verdict' = "present"
              /\ UNCHANGED <<attempt, page, caught>>
           \/ /\ pc = "probe_recover" /\ pc' = "idle"
              /\ verdict' = IF effect THEN "present" ELSE "absent"
              /\ answer' = IF effect THEN "recovered-after-uncertain-write"
                           ELSE IF Ambiguous(caught) THEN "ambiguous-write" ELSE caught
              /\ UNCHANGED <<attempt, page, caught>>
           \/ /\ pc = "probe_after" /\ pc' = "idle"
              /\ verdict' = IF effect THEN "present" ELSE "absent"
              /\ answer' = IF effect THEN "created" ELSE "ambiguous-write"
              /\ UNCHANGED <<attempt, page, caught>>
<1>1. CASE pc = "read_page"
  BY <1>1 DEF Succeeds, Returns, Probes
<1>2. CASE pc = "read_all"
  BY <1>2 DEF Succeeds, PageArrives, NextPage, Returns, Probes
<1>3. CASE pc = "write"
  BY <1>3 DEF Succeeds, WriteAccepted, GoesOnTo, Probes
<1>4. CASE pc \in Probes
  BY <1>4 DEF Succeeds, ProbeFinds, GoesOnTo, Returns, Probes, TypeOK
<1> QED BY <1>1, <1>2, <1>3, <1>4 DEF TypeOK

\* A response or a lost one, seen from the call and from the circuit.
LEMMA AnswerLeads ==
  ASSUME TypeOK, ControlOK,
         TransportFails \/ \E r \in Responses : Responds(r)
  PROVE  /\ flight # None /\ pc # "idle"
         /\ UNCHANGED <<counts, now, effect, seen>>
         /\ pending' \in BOOLEAN /\ (pending' => pending)
         /\ \/ Succeeds /\ RecordSuccess
            \/ \E kind \in Failures \ {"ambiguous-write"} :
                 /\ Fails(kind)
                 /\ UNCHANGED <<circuit, streak>> \/ RecordRetryableFailure
                 /\ pc = "write" /\ kind \notin LeftOpen => ~pending'
<1>1. flight # None /\ pc # "idle"
  BY DEF ControlOK, TransportFails, Responds
<1>2. CASE TransportFails
  <2>1. "transport" \in LeftOpen /\ "transport" \in Failures \ {"ambiguous-write"}
    BY DEF Failures, Retryable, LeftOpen
  <2>2. pending' \in BOOLEAN /\ (pending' => pending)
    BY <1>2 DEF TransportFails, world, TypeOK
  <2> QED BY <1>1, <1>2, <2>1, <2>2 DEF TransportFails, counts, world
<1>3. CASE \E r \in Responses : Responds(r)
  <2>1. PICK r \in Responses : Responds(r)
    BY <1>3
  <2> DEFINE kind == ClassifyResponse(r)
  <2>2. kind \in Retryable \union
          {"success", "malformed-response", "authentication", "permission"}
    BY ClassifiedKind
  <2>3. /\ UNCHANGED <<counts, now, effect, seen>>
        /\ pending' = (pending /\ ~Settles(r))
    BY <2>1 DEF Responds
  <2>4. pending' \in BOOLEAN /\ (pending' => pending)
    BY <2>3
  <2>5. CASE kind = "success"
    <3>1. Succeeds /\ RecordSuccess
      BY <2>1, <2>5 DEF Responds, Retryable
    <3> QED BY <1>1, <2>3, <2>4, <3>1
  <2>6. CASE kind \in Retryable
    <3>1. Fails(kind) /\ RecordRetryableFailure
      BY <2>1, <2>6 DEF Responds, Retryable
    <3>2. kind \in Failures \ {"ambiguous-write"} /\ kind \in LeftOpen
      BY <2>6 DEF Failures, Retryable, LeftOpen
    <3> QED BY <1>1, <2>3, <2>4, <2>6, <3>1, <3>2
  <2>7. CASE kind \in {"malformed-response", "authentication", "permission"}
    <3>1. Fails(kind) /\ UNCHANGED <<circuit, streak>>
      BY <2>1, <2>7 DEF Responds, Retryable
    <3>2. kind \in Failures \ {"ambiguous-write"}
      BY <2>7 DEF Failures, Retryable
    <3>3. pc = "write" /\ kind \notin LeftOpen => ~pending'
      BY <2>3, <2>7, RefusalSettles DEF Settles, LeftOpen
    <3> QED BY <1>1, <2>3, <2>4, <3>1, <3>2, <3>3
  <2> QED BY <2>2, <2>5, <2>6, <2>7
<1> QED BY <1>1, <1>2, <1>3

--------------------------------------------------------------------------------
(* The invariant *)

\* What is under way stays within what a call may send.
LEMMA AllowanceSuffices ==
  ASSUME NEW p \in 1..MaxPages, NEW a \in 1..MaxAttempts
  PROVE  (p - 1) * MaxAttempts + a <= MaxPages * MaxAttempts
<1>1. p * MaxAttempts <= MaxPages * MaxAttempts
  OBVIOUS
<1>2. (p - 1) * MaxAttempts = p * MaxAttempts - MaxAttempts
  OBVIOUS
<1>3. p * MaxAttempts \in Nat /\ MaxPages * MaxAttempts \in Nat
  OBVIOUS
<1> QED BY <1>1, <1>2, <1>3

\* A governor starts with an empty budget and a closed circuit, nothing sent.
LEMMA InitIInv == Init => IInv
<1> SUFFICES ASSUME Init PROVE IInv
  OBVIOUS
<1>1. TypeOK
  <2>1. effect \in BOOLEAN /\ seen \in BOOLEAN /\ pending \in BOOLEAN
    BY Zenon DEF Init
  <2> QED BY <2>1 DEF Init, TypeOK, Answers
<1>2. ControlOK /\ WriteStands /\ SentSoFar
  BY DEF Init, ControlOK, WriteStands, SentSoFar, UnderWay, Probes
<1>3. GapStands
  BY DEF Init, GapStands
<1>4. SuccessIsProven /\ WriteIsSentOnce /\ DefiniteFailureIsFinal
  BY DEF Init, SuccessIsProven, WriteIsSentOnce, DefiniteFailureIsFinal, Written
<1>5. CallIsBounded
  BY DEF Init, CallIsBounded, Allowance
<1> QED BY <1>1, <1>2, <1>3, <1>4, <1>5 DEF IInv

\* A call starts with nothing sent, nothing pending and nothing found.
LEMMA BeginKeepsIInv ==
  ASSUME IInv, NEW c, NEW first,
         \/ c \in {"read_page", "read_all"} /\ first = c
         \/ c = "write" /\ first = "probe_first",
         Begin(c, first)
  PROVE  IInv'
<1> USE DEF IInv
<1>1. TypeOK'
  <2>1. effect' \in BOOLEAN /\ seen' \in BOOLEAN /\ pending' \in BOOLEAN
    BY Zenon DEF Begin, TypeOK
  <2> QED BY <2>1 DEF TypeOK, Begin, Calls, Probes, Answers, circuit
<1>2. ControlOK' /\ WriteStands' /\ SentSoFar'
  BY DEF TypeOK, Begin, ControlOK, WriteStands, SentSoFar, UnderWay, Probes
<1>3. GapStands'
  BY DEF TypeOK, GapStands, ControlOK, Begin, circuit
<1>4. SuccessIsProven' /\ WriteIsSentOnce' /\ DefiniteFailureIsFinal'
  BY DEF Begin, SuccessIsProven, WriteIsSentOnce, DefiniteFailureIsFinal, Written
<1>5. CallIsBounded'
  <2>1. spent' = 0 /\ call' = c
    BY DEF Begin
  <2>2. MaxPages * MaxAttempts \in Nat
    OBVIOUS
  <2> QED BY <2>1, <2>2 DEF CallIsBounded, Allowance
<1> QED BY <1>1, <1>2, <1>3, <1>4, <1>5

\* A bounded call stays so when it goes on without sending.
LEMMA BoundsKept ==
  ASSUME IInv, spent' = spent, call' = call
  PROVE  CallIsBounded'
BY DEF IInv, CallIsBounded, Allowance

\* A failed request, refused or answered, keeps all of a call's part.
LEMMA FailureKeepsProgress ==
  ASSUME IInv, NEW kind \in Failures \ {"ambiguous-write"}, Fails(kind),
         pc # "idle", UNCHANGED <<counts, now, effect, seen>>,
         pending' \in BOOLEAN, pending' => pending,
         pc = "write" /\ kind \notin LeftOpen => ~pending'
  PROVE  /\ call' \in Calls /\ pc' \in {"idle", "read_page", "read_all", "write"} \union Probes
         /\ attempt' \in 1..MaxAttempts /\ page' = page /\ flight' = None
         /\ caught' \in Failures \union {"none"} /\ answer' \in Answers
         /\ verdict' \in {"none", "present", "absent", "raised"}
         /\ ControlOK' /\ WriteStands' /\ SentSoFar'
         /\ SuccessIsProven' /\ WriteIsSentOnce' /\ DefiniteFailureIsFinal'
         /\ CallIsBounded'
<1> USE DEF IInv
<1>1. CallIsBounded'
  BY BoundsKept, FailureLeads DEF counts
<1>2. call \in Calls
  BY DEF TypeOK, ControlOK, Probes, Calls
<1>3. /\ UNCHANGED <<effect, seen, sent, spent, now, call, page>> /\ flight' = None
  BY FailureLeads DEF counts
<1>4. CASE pc = "write" /\ pc' = "probe_recover" /\ attempt' = 1
             /\ caught' = kind /\ UNCHANGED <<answer, verdict>>
  <2>1. ControlOK' /\ WriteStands'
    BY <1>3, <1>4 DEF TypeOK, ControlOK, WriteStands, LeftOpen, Probes
  <2>2. SentSoFar'
    BY <1>3, <1>4 DEF TypeOK, SentSoFar, UnderWay, Probes
  <2>3. SuccessIsProven' /\ WriteIsSentOnce' /\ DefiniteFailureIsFinal'
    BY <1>3, <1>4 DEF SuccessIsProven, WriteIsSentOnce, DefiniteFailureIsFinal, Written
  <2> QED BY <1>1, <1>2, <1>3, <1>4, <2>1, <2>2, <2>3 DEF TypeOK, Probes
<1>5. CASE pc # "write" /\ kind \in Retryable /\ attempt < MaxAttempts
             /\ attempt' = attempt + 1 /\ UNCHANGED <<pc, caught, answer, verdict>>
  <2>1. ControlOK' /\ WriteStands'
    BY <1>3, <1>5 DEF TypeOK, ControlOK, WriteStands, LeftOpen, Probes
  <2>2. SentSoFar'
    BY <1>3, <1>5 DEF TypeOK, SentSoFar, UnderWay, Probes
  <2>3. SuccessIsProven' /\ WriteIsSentOnce' /\ DefiniteFailureIsFinal'
    BY <1>3, <1>5 DEF SuccessIsProven, WriteIsSentOnce, DefiniteFailureIsFinal, Written
  <2> QED BY <1>1, <1>2, <1>3, <1>5, <2>1, <2>2, <2>3 DEF TypeOK, Probes
<1>6. CASE pc # "write" /\ pc' = "idle" /\ answer' = kind
             /\ UNCHANGED <<attempt, caught>>
             /\ verdict' = IF pc \in Probes THEN "raised" ELSE verdict
  <2>1. ControlOK' /\ WriteStands'
    BY <1>3, <1>6 DEF TypeOK, ControlOK, WriteStands, Probes
  <2>2. SentSoFar'
    BY <1>6 DEF SentSoFar, Probes
  <2>3. kind \notin Proven
    BY DEF Failures, Retryable, Proven
  <2>4. SuccessIsProven' /\ WriteIsSentOnce'
    BY <1>3, <1>6, <2>3
       DEF SuccessIsProven, WriteIsSentOnce, Written, Proven
  <2>5. DefiniteFailureIsFinal'
    <3>1. CASE pc \in Probes
      <4>1. verdict' = "raised" /\ (pending' => sent' = 1)
        BY <1>3, <1>6, <3>1 DEF WriteStands
      <4> QED BY <4>1 DEF DefiniteFailureIsFinal
    <3>2. CASE pc \notin Probes
      <4>1. call' # "write"
        BY <1>3, <1>6, <3>2 DEF ControlOK, TypeOK
      <4> QED BY <4>1 DEF DefiniteFailureIsFinal, Written
    <3> QED BY <3>1, <3>2
  <2> QED BY <1>1, <1>2, <1>3, <1>6, <2>1, <2>2, <2>4, <2>5
          DEF TypeOK, Probes, Answers
<1> QED BY <1>4, <1>5, <1>6, FailureLeads

\* A failed request joins the row, and the gap in it moves up with the row or
\* the circuit opens.
LEMMA FailureKeepsGap ==
  ASSUME IInv, flight # None, RecordRetryableFailure, flight' = None
  PROVE  /\ failures' \in Nat /\ openUntil' \in Nat \union {None}
         /\ streak' \in Seq(Nat) /\ GapStands'
<1> USE DEF IInv
<1> DEFINE n == Len(streak)
           row == Append(streak, flight)
<1>1. /\ streak \in Seq(Nat) /\ flight \in Nat /\ failures \in Nat
      /\ openUntil = None /\ failures < Threshold
      /\ n \in Nat /\ n <= Threshold /\ failures <= n
  BY DEF TypeOK, GapStands
<1>2. /\ row \in Seq(Nat) /\ Len(row) = n + 1
      /\ \A i \in 1..n : row[i] = streak[i]
      /\ row[n + 1] = flight
  BY <1>1
<1>3. failures' = failures + 1
  BY DEF RecordRetryableFailure
<1>4. openUntil' = IF failures + 1 >= Threshold THEN flight + Cooldown ELSE None
  BY <1>1 DEF RecordRetryableFailure, Opens
<1>5. streak' = IF n + 1 > Threshold THEN Tail(row) ELSE row
  BY <1>2 DEF RecordRetryableFailure, Latest
<1>6. CASE n < Threshold
  <2>1. streak' = row
    BY <1>1, <1>5, <1>6
  <2>2. 0 < failures /\ failures < n =>
          streak[n - failures + 1] >= streak[n - failures] + Cooldown
    BY DEF GapStands
  <2>3. failures = 0 /\ n > 0 => flight >= streak[n] + Cooldown
    BY <1>1 DEF GapStands
  <2>4. failures' < Len(streak') =>
          streak'[Len(streak') - failures' + 1]
            >= streak'[Len(streak') - failures'] + Cooldown
    <3>4. Len(streak') - failures' = n - failures
      BY <1>1, <1>2, <1>3, <2>1
    <3> SUFFICES ASSUME failures < n
                 PROVE  row[n - failures + 1] >= row[n - failures] + Cooldown
      <4>1. failures' < Len(streak') => failures < n
        BY <1>1, <1>2, <1>3, <2>1
      <4> QED BY <2>1, <3>4, <4>1
    <3>1. n - failures \in 1..n /\ n - failures + 1 \in 1..n + 1
      BY <1>1
    <3>2. CASE failures = 0
      BY <1>1, <1>2, <2>3, <3>1, <3>2
    <3>3. CASE failures > 0
      <4>1. n - failures + 1 \in 1..n
        BY <1>1, <3>3
      <4> QED BY <1>2, <2>2, <3>1, <3>3, <4>1
    <3> QED BY <1>1, <3>2, <3>3
  <2>5. Len(streak') = n + 1 /\ streak'[Len(streak')] = flight
    BY <1>2, <2>1
  <2>6. GapStands'
    <3> HIDE DEF n, row
    <3> QED BY <1>1, <1>3, <1>4, <1>6, <2>4, <2>5 DEF GapStands
  <2> QED
    BY <1>1, <1>2, <1>3, <1>4, <2>1, <2>6
<1>7. CASE n = Threshold
  <2>1. streak' = Tail(row) /\ n > 0
    BY <1>1, <1>5, <1>7
  <2>2. /\ streak' \in Seq(Nat) /\ Len(streak') = n
        /\ \A i \in 1..n : streak'[i] = row[i + 1]
    BY <1>1, <1>2, <2>1
  <2>3. n - failures \in 1..n /\ n - failures - 1 \in 0..n - 1
    BY <1>1, <1>7
  <2>4. failures' < n =>
          streak'[n - failures' + 1] >= streak'[n - failures'] + Cooldown
    <3>4. /\ n - failures' = n - failures - 1
          /\ n - failures' + 1 = n - failures
      BY <1>1, <1>3
    <3> SUFFICES ASSUME failures + 1 < n
                 PROVE  row[n - failures + 1] >= row[n - failures] + Cooldown
      <4>1. /\ failures' < n => failures + 1 < n
            /\ failures + 1 < n => n - failures - 1 \in 1..n
        BY <1>1, <1>3
      <4>2. n - failures - 1 \in 1..n =>
              streak'[n - failures - 1] = row[n - failures]
        <5>1. (n - failures - 1) + 1 = n - failures
          BY <1>1
        <5> DEFINE i == n - failures - 1
        <5>2. i \in 1..n => streak'[i] = row[i + 1]
          BY <2>2
        <5> QED BY <5>1, <5>2
      <4>3. streak'[n - failures] = row[n - failures + 1]
        BY <2>2, <2>3
      <4> QED BY <3>4, <4>1, <4>2, <4>3
    <3>1. n - failures + 1 \in 1..n + 1
      BY <1>1
    <3>2. CASE failures = 0
      BY <1>1, <1>2, <2>3, <3>2 DEF GapStands
    <3>3. CASE failures > 0
      <4>1. n - failures + 1 \in 1..n
        BY <1>1, <3>3
      <4>2. streak[n - failures + 1] >= streak[n - failures] + Cooldown
        BY <1>1, <1>7, <3>3 DEF GapStands
      <4> QED BY <1>2, <2>3, <4>1, <4>2
    <3> QED BY <1>1, <3>2, <3>3
  <2>5. streak'[n] = flight
    BY <1>2, <2>1, <2>2
  <2>6. GapStands'
    <3> HIDE DEF n, row
    <3> QED BY <1>1, <1>3, <1>4, <1>7, <2>2, <2>4, <2>5 DEF GapStands
  <2> QED BY <1>1, <1>3, <1>4, <2>2, <2>6
<1> QED BY <1>1, <1>6, <1>7

\* A success clears the failures and their row, and closes the circuit.
LEMMA SuccessKeepsGap ==
  ASSUME IInv, RecordSuccess, flight' = None
  PROVE  /\ failures' \in Nat /\ openUntil' \in Nat \union {None}
         /\ streak' \in Seq(Nat) /\ GapStands'
BY DEF RecordSuccess, GapStands

\* A circuit that closes keeps the row, and the cooldown behind it is over.
LEMMA ClosingKeepsGap ==
  ASSUME IInv, flight = None, RequireClosed, UNCHANGED <<streak, now>>,
         flight' \in {now, None}
  PROVE  /\ failures' \in Nat /\ openUntil' = None
         /\ streak' \in Seq(Nat) /\ GapStands'
<1> USE DEF IInv
<1>1. /\ now' = now /\ streak' = streak /\ openUntil' = None
      /\ now \in Nat /\ streak \in Seq(Nat) /\ failures \in Nat
      /\ openUntil \in Nat \union {None}
  BY DEF TypeOK, RequireClosed
<1>2. (IF flight' = None THEN now' ELSE flight') = now
  BY <1>1
<1>3. CASE openUntil = None
  <2>1. failures' = failures
    BY <1>3 DEF RequireClosed
  <2> QED BY <1>1, <1>2, <1>3, <2>1 DEF GapStands
<1>4. CASE openUntil # None
  <2>1. failures' = 0 /\ now >= openUntil
    BY <1>1, <1>4 DEF RequireClosed, CircuitOpen
  <2>2. /\ openUntil = streak[Len(streak)] + Cooldown
        /\ Len(streak) <= Threshold
    BY <1>4 DEF GapStands
  <2> QED BY <1>1, <1>2, <2>1, <2>2 DEF GapStands
<1> QED BY <1>3, <1>4

\* A request that succeeded keeps all of a call's part.
LEMMA SuccessKeepsProgress ==
  ASSUME IInv, Succeeds, pc # "idle", flight # None,
         UNCHANGED <<counts, now, effect, seen>>,
         pending' \in BOOLEAN, pending' => pending
  PROVE  /\ call' \in Calls /\ pc' \in {"idle", "read_page", "read_all", "write"} \union Probes
         /\ attempt' \in 1..MaxAttempts /\ page' \in 1..MaxPages /\ flight' = None
         /\ caught' \in Failures \union {"none"} /\ answer' \in Answers
         /\ verdict' \in {"none", "present", "absent", "raised"}
         /\ ControlOK' /\ WriteStands' /\ SentSoFar'
         /\ SuccessIsProven' /\ WriteIsSentOnce' /\ DefiniteFailureIsFinal'
         /\ CallIsBounded'
<1> USE DEF IInv
<1>1. CallIsBounded'
  BY BoundsKept, SuccessLeads DEF counts
<1>2. call \in Calls
  BY DEF TypeOK, ControlOK, Probes, Calls
<1>3. /\ UNCHANGED <<effect, seen, sent, spent, now, call>> /\ flight' = None
  BY SuccessLeads DEF counts
<1>4. CASE /\ pc \in {"read_page", "read_all"}
           /\ pc' = "idle" /\ answer' \in {"response", "values",
                 "malformed-response", "incomplete-pagination"}
           /\ UNCHANGED <<attempt, page, caught, verdict>>
  <2>1. ControlOK' /\ WriteStands' /\ SentSoFar'
    BY <1>3, <1>4 DEF TypeOK, ControlOK, WriteStands, SentSoFar, Probes
  <2>2. call' # "write"
    BY <1>3, <1>4 DEF ControlOK
  <2>3. SuccessIsProven' /\ WriteIsSentOnce' /\ DefiniteFailureIsFinal'
    BY <1>3, <2>2 DEF SuccessIsProven, WriteIsSentOnce, DefiniteFailureIsFinal, Written
  <2> QED BY <1>1, <1>2, <1>3, <1>4, <2>1, <2>3 DEF TypeOK, Probes, Answers, Failures
<1>5. CASE /\ pc = "read_all" /\ page < MaxPages
           /\ page' = page + 1 /\ attempt' = 1
           /\ UNCHANGED <<pc, caught, answer, verdict>>
  <2>1. ControlOK' /\ WriteStands'
    BY <1>3, <1>5 DEF TypeOK, ControlOK, WriteStands, Probes
  <2>2. SentSoFar'
    <3>1. spent <= (page - 1) * MaxAttempts + attempt
      BY <1>5, flight # None DEF TypeOK, SentSoFar, UnderWay
    <3>2. (page - 1) * MaxAttempts + MaxAttempts = page * MaxAttempts
      BY DEF TypeOK
    <3>3. page * MaxAttempts \in Nat /\ (page - 1) * MaxAttempts \in Nat
      BY DEF TypeOK
    <3>4. spent <= page * MaxAttempts
      BY <3>1, <3>2, <3>3 DEF TypeOK
    <3>5. (page' - 1) * MaxAttempts = page * MaxAttempts
      BY <1>5 DEF TypeOK
    <3>6. spent' <= (page' - 1) * MaxAttempts + attempt' - 1 + UnderWay'
      BY <1>3, <1>5, <3>3, <3>4, <3>5 DEF TypeOK, UnderWay
    <3> QED BY <1>5, <3>6 DEF SentSoFar, Probes
  <2>3. SuccessIsProven' /\ WriteIsSentOnce' /\ DefiniteFailureIsFinal'
    BY <1>3, <1>5 DEF SuccessIsProven, WriteIsSentOnce, DefiniteFailureIsFinal, Written
  <2> QED BY <1>1, <1>2, <1>3, <1>5, <2>1, <2>2, <2>3 DEF TypeOK, Probes
<1>6. CASE \/ /\ pc = "write" /\ pc' = "probe_after" /\ attempt' = 1
              /\ UNCHANGED <<page, caught, answer, verdict>>
           \/ /\ pc = "probe_first" /\ ~effect /\ pc' = "write" /\ attempt' = 1
              /\ verdict' = "absent" /\ UNCHANGED <<page, caught, answer>>
  <2>1. pc = "write" => sent = 1
    BY flight # None DEF WriteStands
  <2>2. ControlOK' /\ WriteStands'
    BY <1>3, <1>6, <2>1 DEF TypeOK, ControlOK, WriteStands, Probes
  <2>3. SentSoFar'
    BY <1>3, <1>6, flight # None DEF TypeOK, SentSoFar, UnderWay, Probes
  <2>4. SuccessIsProven' /\ WriteIsSentOnce' /\ DefiniteFailureIsFinal'
    BY <1>3, <1>6 DEF SuccessIsProven, WriteIsSentOnce, DefiniteFailureIsFinal, Written
  <2> QED BY <1>1, <1>2, <1>3, <1>6, <2>2, <2>3, <2>4 DEF TypeOK, Probes
<1>7. CASE /\ pc = "probe_first" /\ effect /\ pc' = "idle"
           /\ answer' = "already-present" /\ verdict' = "present"
           /\ UNCHANGED <<attempt, page, caught>>
  <2>1. ControlOK' /\ WriteStands' /\ SentSoFar'
    BY <1>3, <1>7 DEF TypeOK, ControlOK, WriteStands, SentSoFar, Probes
  <2>2. SuccessIsProven' /\ WriteIsSentOnce' /\ DefiniteFailureIsFinal'
    BY <1>3, <1>7 DEF WriteStands, SuccessIsProven, WriteIsSentOnce,
       DefiniteFailureIsFinal, Written, Failures, Retryable
  <2> QED BY <1>1, <1>2, <1>3, <1>7, <2>1, <2>2 DEF TypeOK, Probes, Answers, Proven
<1>8. CASE /\ pc = "probe_recover" /\ pc' = "idle"
           /\ verdict' = IF effect THEN "present" ELSE "absent"
           /\ answer' = IF effect THEN "recovered-after-uncertain-write"
                        ELSE IF Ambiguous(caught) THEN "ambiguous-write" ELSE caught
           /\ UNCHANGED <<attempt, page, caught>>
  <2>1. ControlOK' /\ WriteStands' /\ SentSoFar'
    BY <1>3, <1>8 DEF TypeOK, ControlOK, WriteStands, SentSoFar, Probes
  <2>2. answer' \in Proven => effect
    BY <1>8 DEF TypeOK, Proven, Failures, Retryable
  <2>3. answer' \notin {"already-present", "created"}
    BY <1>8 DEF TypeOK, Failures, Retryable
  <2>4. SuccessIsProven' /\ WriteIsSentOnce'
    BY <1>3, <1>8, <2>2, <2>3 DEF WriteStands, SuccessIsProven, WriteIsSentOnce, Written
  <2>5. DefiniteFailureIsFinal'
    <3>1. pending' /\ ~effect /\ ~Ambiguous(caught) => caught = "malformed-response"
      BY <1>8 DEF WriteStands, LeftOpen, Ambiguous
    <3>2. effect => answer' \notin Failures
      BY <1>8 DEF Failures, Retryable
    <3> QED BY <1>8, <3>1, <3>2 DEF DefiniteFailureIsFinal
  <2> QED BY <1>1, <1>2, <1>3, <1>8, <2>1, <2>4, <2>5
          DEF TypeOK, Probes, Answers, Proven, Failures
<1>9. CASE /\ pc = "probe_after" /\ pc' = "idle"
           /\ verdict' = IF effect THEN "present" ELSE "absent"
           /\ answer' = IF effect THEN "created" ELSE "ambiguous-write"
           /\ UNCHANGED <<attempt, page, caught>>
  <2>1. ControlOK' /\ WriteStands' /\ SentSoFar'
    BY <1>3, <1>9 DEF TypeOK, ControlOK, WriteStands, SentSoFar, Probes
  <2>2. SuccessIsProven' /\ WriteIsSentOnce' /\ DefiniteFailureIsFinal'
    BY <1>3, <1>9 DEF WriteStands, SuccessIsProven, WriteIsSentOnce,
       DefiniteFailureIsFinal, Written, Failures, Retryable, Proven
  <2> QED BY <1>1, <1>2, <1>3, <1>9, <2>1, <2>2
          DEF TypeOK, Probes, Answers, Proven, Failures
<1> QED BY <1>4, <1>5, <1>6, <1>7, <1>8, <1>9, SuccessLeads

\* A refused request changes nothing but the call, and may close the circuit.
LEMMA RefusalKeepsIInv ==
  ASSUME IInv, RefusedByCircuit \/ RefusedByBudget
  PROVE  IInv'
<1> USE DEF IInv
<1>1. /\ pc # "idle" /\ flight = None
      /\ UNCHANGED <<counts, world, streak>>
  BY DEF RefusedByCircuit, RefusedByBudget, ToSend
<1>2. PICK kind \in {"circuit-open", "request-budget-exhausted"} : Fails(kind)
  BY DEF RefusedByCircuit, RefusedByBudget
<1>3. kind \in Failures \ {"ambiguous-write"} /\ kind \notin Retryable
  BY <1>2 DEF Failures, Retryable
<1>4. /\ UNCHANGED <<now, effect, seen, pending>>
      /\ effect' \in BOOLEAN /\ seen' \in BOOLEAN /\ pending' \in BOOLEAN
      /\ (pending' => pending)
  BY <1>1, Zenon DEF world, TypeOK
<1>5. pc = "write" /\ kind \notin LeftOpen => ~pending'
  BY <1>1, <1>4 DEF WriteStands
<1>6. /\ call' \in Calls /\ pc' \in {"idle", "read_page", "read_all", "write"} \union Probes
      /\ attempt' \in 1..MaxAttempts /\ page' = page /\ flight' = None
      /\ caught' \in Failures \union {"none"} /\ answer' \in Answers
      /\ verdict' \in {"none", "present", "absent", "raised"}
      /\ ControlOK' /\ WriteStands' /\ SentSoFar'
      /\ SuccessIsProven' /\ WriteIsSentOnce' /\ DefiniteFailureIsFinal'
      /\ CallIsBounded'
  BY <1>1, <1>2, <1>3, <1>4, <1>5, FailureKeepsProgress
<1>7. /\ failures' \in Nat /\ openUntil' \in Nat \union {None}
      /\ streak' \in Seq(Nat) /\ GapStands'
  <2>1. CASE RefusedByCircuit
    BY <1>1, <1>4, <1>6, <2>1 DEF RefusedByCircuit, circuit, TypeOK, GapStands
  <2>2. CASE RefusedByBudget
    BY <1>1, <1>4, <1>6, <2>2, ClosingKeepsGap DEF RefusedByBudget
  <2> QED BY <2>1, <2>2
<1>8. used' = used /\ sent' = sent /\ spent' = spent
  BY <1>1 DEF counts
<1>9. TypeOK'
  BY <1>4, <1>6, <1>7, <1>8 DEF TypeOK
<1> QED BY <1>6, <1>7, <1>9

\* A request sent is one more of the call, and follows its gap.
LEMMA SendKeepsIInv ==
  ASSUME IInv, Send
  PROVE  IInv'
<1> USE DEF IInv
<1>1. /\ pc # "idle" /\ flight = None /\ flight' = now /\ flight' # None
      /\ spent' = spent + 1
      /\ UNCHANGED <<call, pc, attempt, page, caught, answer, verdict>>
      /\ UNCHANGED <<now, effect, seen, streak>>
  BY DEF Send, ToSend, TypeOK
<1>2. /\ failures' \in Nat /\ openUntil' = None
      /\ streak' \in Seq(Nat) /\ GapStands'
  BY <1>1, ClosingKeepsGap DEF Send
<1>3. TypeOK'
  <2>1. effect' \in BOOLEAN /\ seen' \in BOOLEAN
    BY <1>1, Zenon DEF TypeOK
  <2>2. pending' \in BOOLEAN
    BY DEF Send, TypeOK
  <2>3. used' \in 0..Limit /\ sent' \in Nat /\ spent' \in Nat
    BY DEF Send, TypeOK
  <2> QED BY <1>1, <1>2, <2>1, <2>2, <2>3 DEF TypeOK
<1>4. ControlOK'
  BY <1>1 DEF ControlOK, TypeOK
<1>5. WriteStands'
  <2>1. sent' = (IF pc = "write" THEN sent + 1 ELSE sent)
    BY DEF Send
  <2>2. pc # "write" => pending' = pending
    BY DEF Send, TypeOK
  <2> QED BY <1>1, <2>1, <2>2 DEF WriteStands, ControlOK, TypeOK
<1>6. SentSoFar'
  BY <1>1 DEF SentSoFar, UnderWay, TypeOK
<1>7. SuccessIsProven' /\ WriteIsSentOnce' /\ DefiniteFailureIsFinal'
  <2>1. sent' <= 1
    BY <1>5 DEF WriteStands
  <2> QED BY <1>1, <2>1 DEF SuccessIsProven, WriteIsSentOnce, DefiniteFailureIsFinal, Written
<1>8. CallIsBounded'
  <2>1. CASE pc = "read_page"
    BY <1>1, <2>1 DEF CallIsBounded, Allowance, SentSoFar, UnderWay, ControlOK, TypeOK
  <2>2. CASE pc = "read_all"
    <3>1. spent' <= (page - 1) * MaxAttempts + attempt
      <4>1. (page - 1) * MaxAttempts \in Nat
        BY DEF TypeOK
      <4> QED BY <1>1, <2>2, <4>1 DEF SentSoFar, UnderWay, TypeOK
    <3>2. (page - 1) * MaxAttempts + attempt <= MaxPages * MaxAttempts
      BY AllowanceSuffices DEF TypeOK
    <3>3. spent' <= MaxPages * MaxAttempts
      <4>1. /\ (page - 1) * MaxAttempts \in Nat /\ MaxPages * MaxAttempts \in Nat
            /\ spent' \in Nat
        BY <1>3 DEF TypeOK
      <4> QED BY <3>1, <3>2, <4>1 DEF TypeOK
    <3>4. call' = "read_all"
      BY <1>1, <2>2 DEF ControlOK
    <3> QED BY <3>3, <3>4 DEF CallIsBounded, Allowance
  <2>3. CASE pc = "write" \/ pc \in Probes
    <3>1. /\ attempt \in 1..MaxAttempts /\ MaxAttempts \in Nat \ {0}
          /\ spent \in Nat /\ spent' = spent + 1
      BY <1>1 DEF TypeOK
    <3>2. pc = "write" => spent <= MaxAttempts
      BY <1>1 DEF SentSoFar, UnderWay
    <3>3. pc = "probe_first" => spent <= attempt - 1
      BY <1>1, <3>1 DEF SentSoFar, UnderWay
    <3>4. pc \in {"probe_recover", "probe_after"} => spent <= MaxAttempts + attempt
      BY <1>1, <3>1 DEF SentSoFar, UnderWay
    <3>5. spent' <= 2 * MaxAttempts + 1
      <4> HIDE DEF IInv
      <4> QED BY <2>3, <3>1, <3>2, <3>3, <3>4 DEF Probes
    <3>6. call' = "write"
      BY <1>1, <2>3 DEF ControlOK
    <3> QED BY <3>5, <3>6 DEF CallIsBounded, Allowance
  <2> QED BY <1>1, <2>1, <2>2, <2>3 DEF TypeOK
<1> QED BY <1>2, <1>3, <1>4, <1>5, <1>6, <1>7, <1>8

\* An answer or a lost one moves the call on and, by its kind, the circuit.
LEMMA AnswerKeepsIInv ==
  ASSUME IInv, TransportFails \/ \E r \in Responses : Responds(r)
  PROVE  IInv'
<1> USE DEF IInv
<1>1. /\ flight # None /\ pc # "idle"
      /\ UNCHANGED <<counts, now, effect, seen>>
      /\ pending' \in BOOLEAN /\ (pending' => pending)
  BY AnswerLeads
<1>2. /\ used' = used /\ sent' = sent /\ spent' = spent
      /\ effect' \in BOOLEAN /\ seen' \in BOOLEAN /\ now' = now
  <2>1. effect' \in BOOLEAN /\ seen' \in BOOLEAN
    BY <1>1, Zenon DEF TypeOK
  <2> QED BY <1>1, <2>1 DEF counts
<1>3. CASE Succeeds /\ RecordSuccess
  <2>1. /\ call' \in Calls /\ pc' \in {"idle", "read_page", "read_all", "write"} \union Probes
        /\ attempt' \in 1..MaxAttempts /\ page' \in 1..MaxPages /\ flight' = None
        /\ caught' \in Failures \union {"none"} /\ answer' \in Answers
        /\ verdict' \in {"none", "present", "absent", "raised"}
        /\ ControlOK' /\ WriteStands' /\ SentSoFar'
        /\ SuccessIsProven' /\ WriteIsSentOnce' /\ DefiniteFailureIsFinal'
        /\ CallIsBounded'
    BY <1>1, <1>3, SuccessKeepsProgress
  <2>2. /\ failures' \in Nat /\ openUntil' \in Nat \union {None}
        /\ streak' \in Seq(Nat) /\ GapStands'
    BY <1>3, <2>1, SuccessKeepsGap
  <2>3. TypeOK'
    BY <1>1, <1>2, <2>1, <2>2 DEF TypeOK
  <2> QED BY <2>1, <2>2, <2>3
<1>4. ASSUME NEW kind \in Failures \ {"ambiguous-write"}, Fails(kind),
             UNCHANGED <<circuit, streak>> \/ RecordRetryableFailure,
             pc = "write" /\ kind \notin LeftOpen => ~pending'
      PROVE  IInv'
  <2>1. /\ call' \in Calls /\ pc' \in {"idle", "read_page", "read_all", "write"} \union Probes
        /\ attempt' \in 1..MaxAttempts /\ page' = page /\ flight' = None
        /\ caught' \in Failures \union {"none"} /\ answer' \in Answers
        /\ verdict' \in {"none", "present", "absent", "raised"}
        /\ ControlOK' /\ WriteStands' /\ SentSoFar'
        /\ SuccessIsProven' /\ WriteIsSentOnce' /\ DefiniteFailureIsFinal'
        /\ CallIsBounded'
    BY <1>1, <1>4, FailureKeepsProgress
  <2>2. /\ failures' \in Nat /\ openUntil' \in Nat \union {None}
        /\ streak' \in Seq(Nat) /\ GapStands'
    <3>1. CASE RecordRetryableFailure
      BY <1>1, <2>1, <3>1, FailureKeepsGap
    <3>2. CASE UNCHANGED <<circuit, streak>>
      <4>1. /\ failures' = failures /\ openUntil' = openUntil /\ streak' = streak
            /\ openUntil = None /\ flight \in Nat /\ flight <= now
        BY <1>1, <3>2 DEF circuit, TypeOK, GapStands, ControlOK
      <4>2. /\ failures \in Nat /\ streak \in Seq(Nat) /\ now \in Nat
        BY DEF TypeOK
      <4>3. failures = 0 /\ Len(streak) > 0 => now >= streak[Len(streak)] + Cooldown
        BY <1>1, <4>1, <4>2 DEF GapStands
      <4> QED BY <1>2, <2>1, <4>1, <4>2, <4>3 DEF GapStands
    <3> QED BY <1>4, <3>1, <3>2
  <2>3. TypeOK'
    BY <1>1, <1>2, <2>1, <2>2 DEF TypeOK
  <2> QED BY <2>1, <2>2, <2>3
<1> QED BY <1>3, <1>4, AnswerLeads

\* Time and the others on GitHub leave the call alone: a write under way may
\* take effect, and what is there has been there.
LEMMA WorldKeepsIInv ==
  ASSUME IInv, World
  PROVE  IInv'
<1> USE DEF IInv
<1>1. UNCHANGED <<failures, openUntil, call, pc, attempt, page, flight, caught,
                  answer, verdict, used, sent, spent, streak>>
  BY DEF World, circuit, progress, counts
<1>2. /\ effect' \in BOOLEAN /\ seen' \in BOOLEAN /\ pending' \in BOOLEAN
      /\ (seen => seen') /\ (effect' => seen') /\ (pending' => pending)
  <2>1. CASE Tick
    <3>1. /\ effect' = effect /\ seen' = seen /\ pending' = pending
          /\ effect \in BOOLEAN /\ seen \in BOOLEAN /\ pending \in BOOLEAN
          /\ (effect => seen)
      BY <2>1, Zenon DEF Tick, TypeOK, WriteStands
    <3> QED BY <3>1, Zenon
  <2>2. CASE WriteTakesEffect
    BY <2>2 DEF WriteTakesEffect, TypeOK
  <2>3. CASE OthersChangeIt
    <3>1. pending' = pending /\ pending \in BOOLEAN
      BY <2>3, Zenon DEF OthersChangeIt, TypeOK
    <3>2. effect' = ~effect /\ seen' = (seen \/ effect')
      BY <2>3, Zenon DEF OthersChangeIt
    <3>3. effect' \in BOOLEAN /\ seen' \in BOOLEAN /\ (seen => seen') /\ (effect' => seen')
      BY <3>2
    <3> QED BY <3>1, <3>3, Zenon
  <2> QED BY <2>1, <2>2, <2>3 DEF World
<1>3. now' \in Nat /\ now' >= now
  BY DEF World, Tick, WriteTakesEffect, OthersChangeIt, TypeOK
<1>4. TypeOK'
  BY <1>1, <1>2, <1>3 DEF TypeOK
<1>5. ControlOK' /\ WriteStands' /\ SentSoFar'
  BY <1>1, <1>2, <1>3 DEF TypeOK, ControlOK, WriteStands, SentSoFar, UnderWay
<1>6. GapStands'
  <2>1. failures = 0 /\ Len(streak) > 0 =>
          (IF flight' = None THEN now' ELSE flight') >= streak[Len(streak)] + Cooldown
    BY <1>1, <1>3 DEF GapStands, TypeOK
  <2> QED BY <1>1, <2>1 DEF GapStands
<1>7. SuccessIsProven' /\ WriteIsSentOnce' /\ DefiniteFailureIsFinal'
  BY <1>1, <1>2 DEF SuccessIsProven, WriteIsSentOnce, DefiniteFailureIsFinal, Written
<1>8. CallIsBounded'
  BY <1>1, BoundsKept
<1> QED BY <1>4, <1>5, <1>6, <1>7, <1>8

--------------------------------------------------------------------------------
(* The theorems *)

\* The inductive invariant holds in every state of the governor.
THEOREM Invariance == Spec => []IInv
<1>1. ASSUME IInv, [Next]_vars PROVE IInv'
  <2>1. CASE ReadPage \/ ReadAll
    BY <1>1, <2>1, BeginKeepsIInv DEF ReadPage, ReadAll
  <2>2. CASE WriteOnceWithProbe
    BY <1>1, <2>2, BeginKeepsIInv DEF WriteOnceWithProbe
  <2>3. CASE RefusedByCircuit \/ RefusedByBudget
    BY <1>1, <2>3, RefusalKeepsIInv
  <2>4. CASE Send
    BY <1>1, <2>4, SendKeepsIInv
  <2>5. CASE TransportFails \/ \E r \in Responses : Responds(r)
    BY <1>1, <2>5, AnswerKeepsIInv
  <2>6. CASE World
    BY <1>1, <2>6, WorldKeepsIInv
  <2>7. CASE UNCHANGED vars
    <3>1. UNCHANGED <<used, failures, openUntil, call, pc, attempt, page, flight,
            caught, answer, now, effect, pending, sent, spent, seen, verdict, streak>>
      BY <2>7 DEF vars, circuit, progress, world, counts
    <3>2. TypeOK' /\ ControlOK' /\ WriteStands' /\ SentSoFar' /\ GapStands'
      BY <1>1, <3>1 DEF IInv, TypeOK, ControlOK, WriteStands, SentSoFar,
         UnderWay, GapStands
    <3>3. SuccessIsProven' /\ WriteIsSentOnce' /\ DefiniteFailureIsFinal'
      BY <1>1, <3>1 DEF IInv, SuccessIsProven, WriteIsSentOnce,
         DefiniteFailureIsFinal, Written
    <3>4. CallIsBounded'
      BY <1>1, <3>1, BoundsKept
    <3> QED BY <3>2, <3>3, <3>4 DEF IInv
  <2> QED BY <1>1, <2>1, <2>2, <2>3, <2>4, <2>5, <2>6, <2>7 DEF Next, Governor
<1> QED BY <1>1, InitIInv, PTL DEF Spec

\* Every variable keeps its type: the budget is never overdrawn, and no read
\* is at an attempt or a page beyond the last.
THEOREM TypeCorrectness == Spec => []TypeOK
<1>1. IInv => TypeOK
  BY DEF IInv
<1> QED BY <1>1, Invariance, PTL

\* A write that is reported as done was seen to be there by its last probe.
THEOREM WriteSafety == Spec => []SuccessIsProven
<1>1. IInv => SuccessIsProven
  BY DEF IInv
<1> QED BY <1>1, Invariance, PTL

\* No call sends its write twice.
THEOREM OneWriteSafety == Spec => []WriteIsSentOnce
<1>1. IInv => WriteIsSentOnce
  BY DEF IInv
<1> QED BY <1>1, Invariance, PTL

\* A write that failed for sure will not take effect later.
THEOREM FinalitySafety == Spec => []DefiniteFailureIsFinal
<1>1. IInv => DefiniteFailureIsFinal
  BY DEF IInv
<1> QED BY <1>1, Invariance, PTL

\* No call sends more than its retries, pages and probes allow.
THEOREM BoundSafety == Spec => []CallIsBounded
<1>1. IInv => CallIsBounded
  BY DEF IInv
<1> QED BY <1>1, Invariance, PTL

\* Behind Threshold failures in a row nothing is sent before the cooldown: the
\* gap lies where the failures since the circuit last closed begin.
THEOREM SpacingSafety == Spec => []FailuresAreSpaced
<1>1. IInv => FailuresAreSpaced
  <2> SUFFICES ASSUME IInv, Len(Attempts) > Threshold
               PROVE  \E k \in 1..Threshold : Attempts[k + 1] >= Attempts[k] + Cooldown
    BY DEF FailuresAreSpaced
  <2> USE DEF IInv
  <2>1. streak \in Seq(Nat) /\ failures \in Nat /\ Len(streak) <= Threshold
    BY DEF TypeOK, GapStands
  <2>2. flight # None
    BY <2>1 DEF Attempts
  <2>3. /\ flight \in Nat /\ Attempts = Append(streak, flight)
        /\ Len(streak) = Threshold /\ failures < Threshold
    BY <2>1, <2>2 DEF Attempts, TypeOK, GapStands
  <2>4. /\ \A i \in 1..Threshold : Attempts[i] = streak[i]
        /\ Attempts[Threshold + 1] = flight
    BY <2>1, <2>3
  <2>5. CASE failures = 0
    <3>1. Attempts[Threshold + 1] >= Attempts[Threshold] + Cooldown
      BY <2>2, <2>3, <2>4, <2>5 DEF GapStands
    <3> QED BY <3>1
  <2>6. CASE failures > 0
    <3> DEFINE k == Threshold - failures
    <3>1. k \in 1..Threshold /\ k + 1 \in 1..Threshold
      BY <2>1, <2>3, <2>6
    <3>2. streak[k + 1] >= streak[k] + Cooldown
      BY <2>3, <2>6 DEF GapStands
    <3> QED BY <2>4, <3>1, <3>2
  <2> QED BY <2>1, <2>5, <2>6
<1> QED BY <1>1, Invariance, PTL
================================================================================
