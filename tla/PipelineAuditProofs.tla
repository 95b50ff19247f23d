------------------------- MODULE PipelineAuditProofs -------------------------
(***************************************************************************)
(* What the audit log, the answers and the key store say of a call, for    *)
(* every number of calls, processes and keys and in every mode.  The       *)
(* properties are about calls that are over; Fit says what is true of a    *)
(* call on its way there, and RowsTrue what a row of the key store says.   *)
(***************************************************************************)
EXTENDS MutationPipelineProofs

-----------------------------------------------------------------------------
\* A step of call r leaves the other calls alone.
Only(r) ==
    /\ pc[r] \notin {"done", "crashed"}
    /\ \A q \in Requests \ {r} :
          /\ pc'[q] = pc[q] /\ call'[q] = call[q] /\ payload'[q] = payload[q]
          /\ deed'[q] = deed[q] /\ trail'[q] = trail[q] /\ reply'[q] = reply[q]
          /\ result'[q] = result[q] /\ keptUntil'[q] = keptUntil[q] /\ owed'[q] = owed[q]

\* What an answer leaves of the other calls.
LEMMA ConcludeOnly ==
    ASSUME TypeOK, NEW r \in Requests, NEW stage, NEW answer, NEW unwritten, NEW by,
           Conclude(r, stage, answer, unwritten, by)
    PROVE  \A q \in Requests \ {r} : /\ pc'[q] = pc[q] /\ trail'[q] = trail[q]
                                     /\ reply'[q] = reply[q] /\ result'[q] = result[q]
  BY DEF Conclude, Goto, TypeOK

LEMMA GotoOnly ==
    ASSUME TypeOK, NEW r \in Requests, NEW point, Goto(r, point)
    PROVE  \A q \in Requests \ {r} : pc'[q] = pc[q]
  BY DEF Goto, TypeOK

LEMMA StepsOnly ==
    ASSUME TypeOK, NEW r \in Requests, (\E c \in Call : Receive(r, c)) \/ Serve(r)
    PROVE  Only(r)
  <1> DEFINE Moves == \A q \in Requests \ {r} :
                          /\ pc'[q] = pc[q] /\ trail'[q] = trail[q]
                          /\ reply'[q] = reply[q] /\ result'[q] = result[q]
  <1>1. \A stage : Fail(r, stage) => Moves
    BY ConcludeOnly DEF Fail
  <1>2. \A stage, answer, by : Return(r, stage, answer, by) => Moves
    BY ConcludeOnly DEF Return
  <1>3. \A point : Goto(r, point) /\ UNCHANGED answers => Moves
    BY GotoOnly DEF answers
  <1>4. CASE \E c \in Call : Receive(r, c)
    <2>1. PICK c \in Call : Receive(r, c)
      BY <1>4
    <2>2. Moves
      BY <2>1, <1>1, <1>2, <1>3 DEF Receive
    <2> QED
      BY <2>1, <2>2 DEF Receive, Only, TypeOK, stores
  <1>5. CASE BuildPreview(r)
    <2>1. Moves
      BY <1>5, <1>3 DEF BuildPreview
    <2> QED
      BY <1>5, <2>1 DEF BuildPreview, At, Only, TypeOK, stores
  <1>6. CASE RefusePreview(r) \/ StoreThrows(r) \/ ExecuteThrows(r) \/ AnswerPreview(r)
    <2>1. Moves
      BY <1>6, <1>1, <1>2 DEF RefusePreview, StoreThrows, ExecuteThrows, AnswerPreview
    <2> QED
      BY <1>6, <2>1 DEF RefusePreview, StoreThrows, ExecuteThrows, AnswerPreview, At, Only, stores
  <1>7. CASE IssueToken(r) \/ DropKey(r) \/ Succeed(r)
    <2>1. Moves
      BY <1>7, <1>3 DEF IssueToken, DropKey, Succeed
    <2> QED
      BY <1>7, <2>1 DEF IssueToken, DropKey, Succeed, At, Only, stores
  <1>8. CASE CheckKey(r)
    <2>1. Moves
      BY <1>8, <1>1, <1>2, <1>3 DEF CheckKey
    <2> QED
      BY <1>8, <2>1 DEF CheckKey, At, Only, TypeOK, stores
  <1>9. CASE VerifyToken(r)
    <2>1. Moves
      BY <1>9, <1>1, <1>2, <1>3 DEF VerifyToken
    <2> QED
      BY <1>9, <2>1 DEF VerifyToken, At, Only
  <1>10. CASE ConsumeToken(r)
    <2>1. Moves
      BY <1>10, <1>1, <1>3 DEF ConsumeToken
    <2> QED
      BY <1>10, <2>1 DEF ConsumeToken, At, Only, TypeOK
  <1>11. CASE Send(r)
    <2>1. Moves
      BY <1>11, <1>3 DEF Send
    <2> QED
      BY <1>11, <2>1 DEF Send, At, Only, TypeOK, stores
  <1>12. CASE RecordExecution(r)
    <2>1. CASE call[r].key = None
      <3>1. Moves
        BY <1>12, <2>1, ConcludeOnly DEF RecordExecution
      <3> QED
        BY <1>12, <3>1 DEF RecordExecution, At, Only, stores
    <2>2. CASE call[r].key # None
      <3>1. Moves
        BY <1>12, <2>2, GotoOnly DEF RecordExecution, TypeOK, answers
      <3> QED
        BY <1>12, <3>1 DEF RecordExecution, At, Only, stores
    <2> QED
      BY <2>1, <2>2
  <1>13. CASE StoreResult(r)
    <2>1. Moves /\ \A q \in Requests \ {r} : keptUntil'[q] = keptUntil[q]
      BY <1>13, <1>1, GotoOnly DEF StoreResult, TypeOK
    <2> QED
      BY <1>13, <2>1 DEF StoreResult, At, Only
  <1> QED
    BY <1>4, <1>5, <1>6, <1>7, <1>8, <1>9, <1>10, <1>11, <1>12, <1>13 DEF Serve

-----------------------------------------------------------------------------
(***************************************************************************)
(* A call on its way.                                                      *)
(***************************************************************************)

EarlyPoints == {"new", "preview", "issue", "tell", "check", "drop", "verify", "consume"}

\* Until it is answered a call has no answer, and no entry but that of its execution.
Unconcluded(r) ==
    /\ pc[r] # "done" => reply[r] = "none" /\ result[r] = None
    /\ pc[r] \notin {"store", "done", "crashed"} => trail[r] = {}
    /\ pc[r] \in {"store", "crashed"} =>
          /\ trail[r] \subseteq {"executed"}
          /\ trail[r] # {} => deed[r] = "applied"
    /\ pc[r] = "store" /\ FailClosed => trail[r] = {"executed"}

\* What a call has let through so far.
DeedSoFar(r) ==
    /\ pc[r] \in EarlyPoints => deed[r] = "none"
    /\ pc[r] \in {"record", "store"} => deed[r] = "applied"

\* What the entries and the answer of a call that is over say.
Verdict(r) ==
    pc[r] = "done" =>
        /\ "executed" \in trail[r] => deed[r] = "applied" /\ trail[r] \subseteq {"executed", "failed"}
        /\ trail[r] \cap {"denied", "preview", "replay"} # {} => deed[r] = "none"
        /\ FailClosed /\ reply[r] = "success" => "executed" \in trail[r]
        /\ FailClosed /\ reply[r] = "preview" => "preview" \in trail[r]
        /\ reply[r] = "not_executed" => deed[r] = "none"
        /\ reply[r] = "applied_unaudited" => deed[r] = "applied"

Fit(r) == Unconcluded(r) /\ DeedSoFar(r) /\ Verdict(r)
FitInv == TypeOK /\ \A r \in Requests : Fit(r)

\* The other calls stay as they are.
LEMMA FitOthers ==
    ASSUME FitInv, NEW r \in Requests, Only(r)
    PROVE  \A q \in Requests \ {r} : Fit(q)'
  BY DEF FitInv, Only, Fit, Unconcluded, DeedSoFar, Verdict

\* An answer that fits what the call did.
LEMMA FitConclude ==
    ASSUME FitInv, NEW r \in Requests, NEW stage, NEW answer, NEW unwritten, NEW by,
           Conclude(r, stage, answer, unwritten, by), UNCHANGED deed,
           pc[r] \notin {"done", "crashed"},
           stage \in {"denied", "preview", "replay"} => pc[r] \in EarlyPoints,
           stage = "executed" => pc[r] = "record",
           pc[r] = "store" => stage = "failed",
           answer = "success" => stage = "executed",
           answer = "preview" => stage = "preview",
           answer \notin {"not_executed", "applied_unaudited"},
           unwritten \notin {"success", "preview"},
           unwritten = "not_executed" => pc[r] \in EarlyPoints,
           unwritten = "applied_unaudited" => pc[r] = "record"
    PROVE  Fit(r)'
  <1>1. pc'[r] = "done" /\ deed'[r] = deed[r]
    BY DEF Conclude, Goto, FitInv, TypeOK
  <1>2. \/ trail'[r] = trail[r] \cup {stage} /\ reply'[r] = answer
        \/ trail'[r] = trail[r] /\ reply'[r] = (IF ~FailClosed THEN answer ELSE unwritten)
    BY DEF Conclude, FitInv, TypeOK, IgnoresAuditFailure
  <1>3. /\ pc[r] \in EarlyPoints => deed[r] = "none" /\ trail[r] = {}
        /\ pc[r] = "record" => deed[r] = "applied" /\ trail[r] = {}
        /\ trail[r] \subseteq {"executed"}
        /\ trail[r] # {} => deed[r] = "applied" /\ pc[r] = "store"
    BY DEF FitInv, Fit, Unconcluded, DeedSoFar, EarlyPoints
  <1>4. Verdict(r)'
    <2>1. CASE trail'[r] = trail[r] \cup {stage} /\ reply'[r] = answer
      BY <1>1, <1>3, <2>1 DEF Verdict
    <2>2. CASE trail'[r] = trail[r] /\ reply'[r] = (IF ~FailClosed THEN answer ELSE unwritten)
      BY <1>1, <1>3, <2>2 DEF Verdict
    <2> QED
      BY <1>2, <2>1, <2>2
  <1> QED
    BY <1>1, <1>4 DEF Fit, Unconcluded, DeedSoFar, EarlyPoints

LEMMA FitFail ==
    ASSUME FitInv, NEW r \in Requests, NEW stage \in {"denied", "failed", "unknown"},
           Fail(r, stage), UNCHANGED deed, pc[r] \notin {"done", "crashed"},
           stage = "denied" => pc[r] \in EarlyPoints,
           pc[r] = "store" => stage = "failed"
    PROVE  Fit(r)'
  <1> DEFINE answer == IF stage \in {"failed", "unknown"} THEN stage ELSE "denied"
  <1>1. answer \in {"failed", "unknown", "denied"}
    OBVIOUS
  <1>2. Conclude(r, stage, answer, "threw", None)
    BY DEF Fail
  <1> HIDE DEF answer
  <1> QED
    BY <1>1, <1>2, FitConclude

LEMMA FitReturn ==
    ASSUME FitInv, NEW r \in Requests, NEW stage \in {"denied", "preview", "replay"},
           NEW answer \in {"denied", "preview", "replayed"}, NEW by,
           Return(r, stage, answer, by), UNCHANGED deed, pc[r] \in EarlyPoints,
           answer = "preview" => stage = "preview"
    PROVE  Fit(r)'
  <1>1. Conclude(r, stage, answer, "not_executed", by)
    BY DEF Return, Advice
  <1> QED
    BY <1>1, FitConclude DEF EarlyPoints

\* A call that goes on.
LEMMA FitGoto ==
    ASSUME FitInv, NEW r \in Requests, NEW point, Goto(r, point), UNCHANGED answers,
           pc[r] \notin {"store", "done", "crashed"}, point \notin {"done", "crashed"},
           point \in EarlyPoints => deed'[r] = "none",
           point \in {"record", "store"} => deed'[r] = "applied",
           point = "store" => ~FailClosed
    PROVE  Fit(r)'
  <1>1. pc'[r] = point /\ trail'[r] = trail[r] /\ reply'[r] = reply[r] /\ result'[r] = result[r]
    BY DEF Goto, FitInv, TypeOK, answers
  <1> QED
    BY <1>1 DEF FitInv, Fit, Unconcluded, DeedSoFar, Verdict

\* The steps of a call keep it fitting.
LEMMA FitServe ==
    ASSUME FitInv, NEW r \in Requests, (\E c \in Call : Receive(r, c)) \/ Serve(r)
    PROVE  Fit(r)'
  <1>1. /\ pc[r] \in EarlyPoints => deed[r] = "none"
        /\ pc[r] = "store" /\ FailClosed => trail[r] = {"executed"}
        /\ pc[r] \in {"record", "store"} => deed[r] = "applied"
    BY DEF FitInv, Fit, DeedSoFar, Unconcluded
  <1>2. CASE \E c \in Call : Receive(r, c)
    <2>1. PICK c \in Call : Receive(r, c)
      BY <1>2
    <2>2. pc[r] = "new" /\ UNCHANGED deed
      BY <2>1 DEF Receive
    <2> QED
      BY <1>1, <2>1, <2>2, FitReturn, FitFail, FitGoto DEF Receive, EarlyPoints
  <1>3. CASE BuildPreview(r)
    <2>1. pc[r] = "preview" /\ UNCHANGED <<deed, answers>>
      BY <1>3 DEF BuildPreview, At
    <2>2. PICK point \in {"issue", "check", "verify", "send"} : Goto(r, point)
      BY <1>3 DEF BuildPreview, AfterKey
    <2> QED
      BY <1>1, <2>1, <2>2, FitGoto DEF EarlyPoints
  <1>4. CASE RefusePreview(r)
    BY <1>4, FitFail DEF RefusePreview, At, EarlyPoints
  <1>5. CASE IssueToken(r)
    BY <1>1, <1>5, FitGoto DEF IssueToken, At, EarlyPoints
  <1>6. CASE AnswerPreview(r)
    BY <1>6, FitReturn DEF AnswerPreview, At, EarlyPoints
  <1>7. CASE CheckKey(r)
    <2>1. pc[r] = "check" /\ UNCHANGED deed /\ AfterKey \in {"verify", "send"}
      BY <1>7 DEF CheckKey, At, AfterKey
    <2>2. \/ (Goto(r, AfterKey) \/ Goto(r, "drop")) /\ UNCHANGED answers
          \/ Fail(r, "denied")
          \/ \E k : Return(r, "replay", "replayed", k.by)
      BY <1>7 DEF CheckKey
    <2> QED
      BY <1>1, <2>1, <2>2, FitGoto, FitFail, FitReturn DEF EarlyPoints
  <1>8. CASE DropKey(r)
    BY <1>1, <1>8, FitGoto DEF DropKey, At, AfterKey, EarlyPoints
  <1>9. CASE VerifyToken(r)
    <2>1. pc[r] = "verify" /\ UNCHANGED deed
      BY <1>9 DEF VerifyToken, At
    <2>2. \/ Goto(r, "consume") /\ UNCHANGED answers
          \/ Fail(r, "denied")
          \/ Return(r, "denied", "denied", None)
      BY <1>9 DEF VerifyToken
    <2> QED
      BY <1>1, <2>1, <2>2, FitGoto, FitFail, FitReturn DEF EarlyPoints
  <1>10. CASE ConsumeToken(r)
    <2>1. pc[r] = "consume"
      BY <1>10 DEF ConsumeToken, At
    <2>2. \/ Goto(r, "send") /\ UNCHANGED answers
          \/ Fail(r, "denied") /\ UNCHANGED deed
      BY <1>10 DEF ConsumeToken
    <2> QED
      BY <2>1, <2>2, FitGoto, FitFail DEF EarlyPoints
  <1>11. CASE StoreThrows(r)
    BY <1>11, FitFail DEF StoreThrows, At
  <1>12. CASE Send(r)
    BY <1>12, FitGoto DEF Send, At, EarlyPoints
  <1>13. CASE Succeed(r)
    BY <1>13, FitGoto DEF Succeed, At, EarlyPoints
  <1>14. CASE ExecuteThrows(r)
    BY <1>14, FitFail DEF ExecuteThrows, At
  <1>15. CASE RecordExecution(r)
    <2>1. pc[r] = "record" /\ UNCHANGED deed /\ deed[r] = "applied"
      BY <1>1, <1>15 DEF RecordExecution, At
    <2>2. CASE call[r].key = None
      <3>1. Conclude(r, "executed", "success", "applied_unaudited", r)
        BY <1>15, <2>2 DEF RecordExecution, Advice
      <3> QED
        BY <2>1, <3>1, FitConclude DEF EarlyPoints
    <2>3. CASE call[r].key # None
      <3>1. CASE /\ trail' = [trail EXCEPT ![r] = @ \cup {"executed"}]
                 /\ Goto(r, "store")
                 /\ UNCHANGED <<reply, result>>
        BY <2>1, <3>1
        DEF Goto, FitInv, TypeOK, Fit, Unconcluded, DeedSoFar, Verdict, EarlyPoints
      <3>2. CASE ~FailClosed /\ Goto(r, "store") /\ UNCHANGED answers
        BY <2>1, <3>2, FitGoto DEF EarlyPoints
      <3>3. CASE /\ reply' = [reply EXCEPT ![r] = "applied_unaudited"]
                 /\ Goto(r, "done")
                 /\ UNCHANGED <<trail, result>>
        BY <2>1, <3>3
        DEF Goto, FitInv, TypeOK, Fit, Unconcluded, DeedSoFar, Verdict, EarlyPoints
      <3> QED
        BY <1>15, <2>3, <3>1, <3>2, <3>3 DEF RecordExecution, IgnoresAuditFailure, Advice
    <2> QED
      BY <2>2, <2>3
  <1>16. CASE StoreResult(r)
    <2>1. pc[r] = "store" /\ UNCHANGED deed /\ deed[r] = "applied"
      BY <1>1, <1>16 DEF StoreResult, At
    <2>2. CASE Fail(r, "failed")
      BY <2>1, <2>2, FitFail
    <2>3. CASE /\ reply' = [reply EXCEPT ![r] = "success"]
               /\ result' = [result EXCEPT ![r] = r]
               /\ Goto(r, "done")
               /\ UNCHANGED trail
      BY <2>1, <2>3
      DEF Goto, FitInv, TypeOK, Fit, Unconcluded, DeedSoFar, Verdict, EarlyPoints
    <2> QED
      BY <1>16, <2>2, <2>3 DEF StoreResult
  <1> QED
    BY <1>2, <1>3, <1>4, <1>5, <1>6, <1>7, <1>8, <1>9, <1>10, <1>11, <1>12, <1>13, <1>14, <1>15,
       <1>16 DEF Serve

LEMMA FitStep == FitInv /\ [Next]_vars => FitInv'
  <1> SUFFICES ASSUME FitInv, [Next]_vars PROVE FitInv'
    OBVIOUS
  <1>1. TypeOK'
    BY TypeStep DEF FitInv
  <1>2. CASE \E r \in Requests : (\E c \in Call : Receive(r, c)) \/ Serve(r)
    <2>1. PICK r \in Requests : (\E c \in Call : Receive(r, c)) \/ Serve(r)
      BY <1>2
    <2>2. Only(r) /\ Fit(r)'
      BY <2>1, StepsOnly, FitServe DEF FitInv
    <2> QED
      BY <1>1, <2>2, FitOthers DEF FitInv
  <1>3. CASE \E p \in Processes : Restart(p)
    <2>1. /\ UNCHANGED <<deed, answers>>
          /\ \A r \in Requests : pc'[r] = pc[r] \/ (pc[r] # "done" /\ pc'[r] = "crashed")
      BY <1>3 DEF Restart, FitInv, TypeOK
    <2> QED
      BY <1>1, <2>1 DEF FitInv, Fit, Unconcluded, DeedSoFar, Verdict, EarlyPoints, answers
  <1>4. CASE UNCHANGED <<pc, deed, answers>>
    BY <1>1, <1>4 DEF FitInv, Fit, Unconcluded, DeedSoFar, Verdict, answers
  <1>5. ((\E s \in Stores : Purge(s)) \/ Tick \/ UNCHANGED vars) => UNCHANGED <<pc, deed, answers>>
    BY DEF Purge, Tick, vars, answers
  <1> QED
    BY <1>2, <1>3, <1>4, <1>5 DEF Next

LEMMA FitStarts == Init => FitInv
  <1>1. Init => TypeOK
    BY ConstantsAssumption DEF Init, TypeOK, Points, Replies
  <1> QED
    BY <1>1 DEF Init, FitInv, Fit, Unconcluded, DeedSoFar, Verdict, EarlyPoints

\* The stages that wrapMutationTool and handleError audit agree with what the call did, in
\* every mode and whatever audit writes and statements fail.
THEOREM LogTellsTheTruth == Spec => []AuditTellsTheTruth
  <1>1. FitInv => AuditTellsTheTruth
    BY DEF FitInv, Fit, Unconcluded, DeedSoFar, Verdict, AuditTellsTheTruth, EarlyPoints
  <1> QED
    BY <1>1, FitStarts, FitStep, PTL DEF Spec

\* apsExecutionCompleted of handleError is right: whoever is told "NOT executed" or "HAS been
\* applied" is told the truth.
THEOREM AdviceHonest == Spec => []HonestRetryAdvice
  <1>1. FitInv => HonestRetryAdvice
    BY DEF FitInv, Fit, Unconcluded, Verdict, HonestRetryAdvice
  <1> QED
    BY <1>1, FitStarts, FitStep, PTL DEF Spec

\* Under fail-closed auditing an execution in the log has its preview in the log: the token it
\* used is one that a preview returned, and a preview is returned only with its entry.
THEOREM ExecutionsTraced ==
    ASSUME RequirePreview
    PROVE  Spec => []ExecutionsTraceToPreviews
  <1>1. ASSUME Inv, FitInv, FailClosed, NEW r \in Requests, "executed" \in trail[r]
        PROVE  "preview" \in trail[call[r].token]
    <2>1. deed[r] = "applied" /\ pc[r] # "new"
      BY <1>1 DEF FitInv, Fit, Unconcluded, DeedSoFar, Verdict, EarlyPoints
    <2>2. call[r].token \in Requests /\ reply[call[r].token] = "preview"
      BY <1>1, <2>1 DEF Inv, Checked, TokenKnown, TypeOK, Call
    <2>3. pc[call[r].token] = "done"
      BY <1>1, <2>2 DEF Inv, PreviewAnswered
    <2> QED
      BY <1>1, <2>2, <2>3 DEF FitInv, Fit, Verdict
  <1>2. Inv /\ FitInv => ExecutionsTraceToPreviews
    BY <1>1 DEF ExecutionsTraceToPreviews
  <1> QED
    BY <1>2, FitStarts, FitStep, InvInit, InvStep, PTL DEF Spec

-----------------------------------------------------------------------------
(***************************************************************************)
(* The key store.  A row tells the truth about the call that left it, and  *)
(* that call is over, so that it goes on telling the truth.                *)
(***************************************************************************)

\* A call that is over changes no more.
LEMMA Settled ==
    ASSUME TypeOK, [Next]_vars, NEW q \in Requests, pc[q] = "done"
    PROVE  /\ pc'[q] = "done" /\ call'[q] = call[q] /\ payload'[q] = payload[q]
           /\ deed'[q] = deed[q] /\ reply'[q] = reply[q] /\ result'[q] = result[q]
  <1>1. CASE \E r \in Requests : (\E c \in Call : Receive(r, c)) \/ Serve(r)
    BY <1>1, StepsOnly DEF Only
  <1>2. CASE \E p \in Processes : Restart(p)
    BY <1>2 DEF Restart, answers
  <1>3. CASE (\E s \in Stores : Purge(s)) \/ Tick \/ UNCHANGED vars
    BY <1>3 DEF Purge, Tick, vars, answers
  <1> QED
    BY <1>1, <1>2, <1>3 DEF Next

RowsTrue ==
    \A s \in Stores : \A k \in records[s] :
        /\ pc[k.by] = "done" /\ deed[k.by] = "applied"
        /\ k.tenant = call[k.by].tenant /\ k.key = call[k.by].key
        /\ k.tool = call[k.by].tool /\ k.payload = payload[k.by]

ResultsTrue ==
    \A r \in Requests : result[r] # None =>
        /\ pc[r] = "done" /\ pc[result[r]] = "done"
        /\ deed[result[r]] = "applied" /\ SameOperation(result[r], r)
        /\ result[r] # r => call[result[r]].key = call[r].key /\ deed[r] = "none"

ReplayInv == FitInv /\ RowsTrue /\ ResultsTrue

\* Where a row comes from.
LEMMA RowsFrom ==
    ASSUME TypeOK, [Next]_vars, NEW s \in Stores, NEW k \in records'[s], k \notin records[s]
    PROVE  \E r \in Requests : /\ StoreResult(r) /\ Goto(r, "done")
                               /\ s = Store(r) /\ k = OwnRecord(r)
  <1>1. CASE \E r \in Requests : StoreResult(r)
    <2>1. PICK r \in Requests : StoreResult(r)
      BY <1>1
    <2>2. records' = [records EXCEPT ![Store(r)] = InsertOrReplace(r)] /\ Goto(r, "done")
      BY <2>1 DEF StoreResult
    <2> QED
      BY <2>1, <2>2 DEF InsertOrReplace, TypeOK
  <1>2. CASE \E r \in Requests : DropKey(r)
    BY <1>2 DEF DropKey, TypeOK
  <1>3. CASE \E p \in Processes : Restart(p)
    BY <1>3 DEF Restart, Live, TypeOK
  <1>4. CASE \E t \in Stores : Purge(t)
    BY <1>4 DEF Purge, Live, TypeOK
  <1>5. CASE UNCHANGED records
    BY <1>5
  <1>6. ASSUME NEW r \in Requests, (\E c \in Call : Receive(r, c)) \/ Serve(r),
               ~StoreResult(r), ~DropKey(r)
        PROVE  UNCHANGED records
    BY <1>6 DEF Serve, Receive, BuildPreview, RefusePreview, IssueToken, AnswerPreview, CheckKey,
           VerifyToken, ConsumeToken, StoreThrows, Send, Succeed, ExecuteThrows, RecordExecution, stores
  <1>7. Tick \/ UNCHANGED vars => UNCHANGED records
    BY DEF Tick, vars, stores
  <1> QED
    BY <1>1, <1>2, <1>3, <1>4, <1>5, <1>6, <1>7 DEF Next

LEMMA ConcludeResult ==
    ASSUME TypeOK, NEW r \in Requests, NEW stage, NEW answer, NEW unwritten, NEW by,
           Conclude(r, stage, answer, unwritten, by)
    PROVE  pc'[r] = "done" /\ result'[r] \in {by, None}
  BY DEF Conclude, Goto, TypeOK

\* Where the result of an answer comes from.
LEMMA ResultFrom ==
    ASSUME FitInv, NEW r \in Requests, (\E c \in Call : Receive(r, c)) \/ Serve(r),
           result'[r] # None
    PROVE  /\ pc'[r] = "done" /\ UNCHANGED <<call, payload, deed>>
           /\ \/ result'[r] = r /\ deed[r] = "applied"
              \/ /\ pc[r] = "check"
                 /\ \E k \in KeyRecords(r) : result'[r] = k.by /\ Bound(k, r)
  <1>1. TypeOK /\ (pc[r] # "done" => result[r] = None)
    BY DEF FitInv, Fit, Unconcluded
  <1>2. \A stage : Fail(r, stage) => result'[r] = None
    BY <1>1, ConcludeResult DEF Fail
  <1>3. \A stage, answer : Return(r, stage, answer, None) => result'[r] = None
    BY <1>1, ConcludeResult DEF Return
  <1>4. pc[r] # "done"
    BY <1>1, StepsOnly DEF Only
  <1>5. UNCHANGED answers => result'[r] = None
    BY <1>1, <1>4 DEF answers
  <1>6. ~\E c \in Call : Receive(r, c)
    BY <1>2, <1>3, <1>5 DEF Receive
  <1>7. ~(\/ BuildPreview(r) \/ RefusePreview(r) \/ IssueToken(r) \/ AnswerPreview(r) \/ DropKey(r)
          \/ VerifyToken(r) \/ ConsumeToken(r) \/ StoreThrows(r) \/ Send(r) \/ Succeed(r)
          \/ ExecuteThrows(r))
    BY <1>2, <1>3, <1>5
    DEF BuildPreview, RefusePreview, IssueToken, AnswerPreview, DropKey, VerifyToken, ConsumeToken,
        StoreThrows, Send, Succeed, ExecuteThrows
  <1>8. CASE CheckKey(r)
    <2>1. PICK k \in KeyRecords(r) : Bound(k, r) /\ Return(r, "replay", "replayed", k.by)
      BY <1>2, <1>5, <1>8 DEF CheckKey
    <2>2. pc'[r] = "done" /\ result'[r] = k.by
      BY <1>1, <2>1, ConcludeResult DEF Return
    <2> QED
      BY <1>8, <2>1, <2>2 DEF CheckKey, At
  <1>9. CASE RecordExecution(r)
    <2>1. call[r].key = None
      BY <1>1, <1>4, <1>9 DEF RecordExecution, answers
    <2>2. Conclude(r, "executed", "success", Advice(TRUE), r)
      BY <1>9, <2>1 DEF RecordExecution
    <2>3. pc[r] = "record" /\ UNCHANGED <<call, payload, deed>>
      BY <1>9 DEF RecordExecution, At
    <2> QED
      BY <1>1, <2>2, <2>3, ConcludeResult DEF FitInv, Fit, DeedSoFar
  <1>10. CASE StoreResult(r)
    <2>1. result' = [result EXCEPT ![r] = r] /\ Goto(r, "done")
      BY <1>2, <1>10 DEF StoreResult
    <2>2. pc[r] = "store" /\ UNCHANGED <<call, payload, deed>>
      BY <1>10 DEF StoreResult, At
    <2> QED
      BY <1>1, <2>1, <2>2 DEF FitInv, Fit, DeedSoFar, Goto, TypeOK
  <1> QED
    BY <1>6, <1>7, <1>8, <1>9, <1>10 DEF Serve

LEMMA ReplayStep == ReplayInv /\ [Next]_vars => ReplayInv'
  <1> SUFFICES ASSUME ReplayInv, [Next]_vars PROVE ReplayInv'
    OBVIOUS
  <1>1. FitInv /\ TypeOK /\ FitInv'
    BY FitStep DEF ReplayInv, FitInv
  <1>2. RowsTrue'
    <2> SUFFICES ASSUME NEW s \in Stores', NEW k \in records'[s]
                 PROVE  /\ pc'[k.by] = "done" /\ deed'[k.by] = "applied"
                        /\ k.tenant = call'[k.by].tenant /\ k.key = call'[k.by].key
                        /\ k.tool = call'[k.by].tool /\ k.payload = payload'[k.by]
      BY DEF RowsTrue
    <2>0. s \in Stores
      BY DEF Stores
    <2>1. CASE k \in records[s]
      <3>1. k.by \in Requests
        BY <1>1, <2>0, <2>1 DEF TypeOK, KeyRecord
      <3> QED
        BY <1>1, <2>0, <2>1, <3>1, Settled DEF ReplayInv, RowsTrue
    <2>2. CASE k \notin records[s]
      <3>1. PICK r \in Requests : StoreResult(r) /\ Goto(r, "done") /\ k = OwnRecord(r)
        BY <1>1, <2>0, <2>2, RowsFrom
      <3>2. pc[r] = "store" /\ UNCHANGED <<call, payload, deed>> /\ pc'[r] = "done"
        BY <1>1, <3>1 DEF StoreResult, At, Goto, TypeOK
      <3> QED
        BY <1>1, <3>1, <3>2 DEF OwnRecord, FitInv, Fit, DeedSoFar
    <2> QED
      BY <2>1, <2>2
  <1>3. ResultsTrue'
    <2> SUFFICES ASSUME NEW r \in Requests, result'[r] # None
                 PROVE  /\ pc'[r] = "done" /\ pc'[result'[r]] = "done"
                        /\ deed'[result'[r]] = "applied" /\ SameOperation(result[r], r)'
                        /\ result'[r] # r => /\ call'[result'[r]].key = call'[r].key
                                             /\ deed'[r] = "none"
      BY DEF ResultsTrue
    <2>1. CASE result[r] # None
      <3>1. /\ pc[r] = "done" /\ pc[result[r]] = "done" /\ result[r] \in Requests
            /\ deed[result[r]] = "applied" /\ SameOperation(result[r], r)
            /\ result[r] # r => call[result[r]].key = call[r].key /\ deed[r] = "none"
        BY <1>1, <2>1 DEF ReplayInv, ResultsTrue, TypeOK
      <3> QED
        BY <1>1, <3>1, Settled DEF SameOperation
    <2>2. CASE result[r] = None /\ ((\E c \in Call : Receive(r, c)) \/ Serve(r))
      <3>1. /\ pc'[r] = "done" /\ UNCHANGED <<call, payload, deed>>
            /\ \/ result'[r] = r /\ deed[r] = "applied"
               \/ /\ pc[r] = "check"
                  /\ \E k \in KeyRecords(r) : result'[r] = k.by /\ Bound(k, r)
        BY <1>1, <2>2, ResultFrom
      <3>2. CASE result'[r] = r /\ deed[r] = "applied"
        BY <3>1, <3>2 DEF SameOperation
      <3>3. CASE pc[r] = "check" /\ \E k \in KeyRecords(r) : result'[r] = k.by /\ Bound(k, r)
        <4>1. PICK k \in KeyRecords(r) : result'[r] = k.by /\ Bound(k, r)
          BY <3>3
        <4>2. /\ k \in records[Store(r)] /\ k.tenant = call[r].tenant /\ k.key = call[r].key
              /\ Store(r) \in Stores
          BY <1>1, <3>3, <4>1, StoreType DEF KeyRecords
        <4>3. k.by \in Requests
          BY <1>1, <4>2 DEF TypeOK, KeyRecord
        <4>4. /\ pc[k.by] = "done" /\ deed[k.by] = "applied"
              /\ k.tenant = call[k.by].tenant /\ k.key = call[k.by].key
              /\ k.tool = call[k.by].tool /\ k.payload = payload[k.by]
          BY <4>2 DEF ReplayInv, RowsTrue
        <4>5. pc'[k.by] = "done"
          BY <1>1, <4>3, <4>4, Settled
        <4>6. deed[r] = "none"
          BY <1>1, <3>3 DEF FitInv, Fit, DeedSoFar, EarlyPoints
        <4> QED
          BY <3>1, <4>1, <4>2, <4>4, <4>5, <4>6 DEF SameOperation, Bound
      <3> QED
        BY <3>1, <3>2, <3>3
    <2>3. ~((\E c \in Call : Receive(r, c)) \/ Serve(r)) => result'[r] = result[r]
      <3>1. CASE \E q \in Requests \ {r} : (\E c \in Call : Receive(q, c)) \/ Serve(q)
        BY <1>1, <3>1, StepsOnly DEF Only
      <3>2. CASE (\E p \in Processes : Restart(p)) \/ (\E s \in Stores : Purge(s)) \/ Tick \/ UNCHANGED vars
        BY <3>2 DEF Restart, Purge, Tick, vars, answers
      <3> QED
        BY <3>1, <3>2 DEF Next
    <2> QED
      BY <2>1, <2>2, <2>3
  <1> QED
    BY <1>1, <1>2, <1>3 DEF ReplayInv

LEMMA ReplayStarts == Init => ReplayInv
  BY FitStarts DEF Init, ReplayInv, RowsTrue, ResultsTrue

\* checkIdempotency hands out a result only for the operation that produced it, to the same
\* tenant and with the same key, and the call that gets it does nothing itself: whatever
\* expires, is deleted by another process, or fails.
THEOREM ReplaysSound == Spec => []ReplaySound
  <1>1. ReplayInv => ReplaySound
    BY DEF ReplayInv, ResultsTrue, ReplaySound
  <1> QED
    BY <1>1, ReplayStarts, ReplayStep, PTL DEF Spec
-----------------------------------------------------------------------------
(***************************************************************************)
(* A retry with the key of an answered call does not act again, for every  *)
(* number of calls and processes, with the stores in memory.  (On SQLite   *)
(* another process may store a fresh row between the SELECT that saw an    *)
(* expired one and its DELETE, which then takes the fresh one.)            *)
(*                                                                         *)
(* What a call must not repeat is settled when it looks up its key: from   *)
(* then on owed is empty.  That needs the row of every answered call to be *)
(* in its store as long as it was promised, and the row that DropKey       *)
(* deletes to be still the one that was seen expired.                      *)
(***************************************************************************)
ClearedPoints == {"drop", "verify", "consume", "send", "await", "record", "store"}

SameKey(k, q) == k.tenant = call[q].tenant /\ k.key = call[q].key

\* The promise of a row: made when the call is answered, never for longer than the TTL.
Promises ==
    /\ now \in Nat \ {0}
    /\ \A q \in Requests : keptUntil[q] <= now + TTL
    /\ \A q \in Requests : pc[q] # "done" => keptUntil[q] = 0

\* The row of an answered call, or a later one of its key, is there as long as promised.
PromisesKept ==
    \A q \in Requests : reply[q] = "success" /\ keptUntil[q] >= now =>
        \E k \in records[Store(q)] : SameKey(k, q) /\ k.expiresAt >= keptUntil[q]

OneRowPerKey ==
    \A s \in Stores : \A k, l \in records[s] : k.tenant = l.tenant /\ k.key = l.key => k = l

OwedMeans ==
    \A r \in Requests : \A q \in owed[r] :
        /\ pc[r] # "new" /\ reply[q] = "success"
        /\ call[q].tenant = call[r].tenant /\ call[q].key = call[r].key /\ call[r].key # None
        /\ Store(q) = Store(r)

\* Nobody stores a row between the lookup that saw an expired one and its deletion.
SeenExpired ==
    \A r \in Requests : pc[r] = "drop" => \A k \in KeyRecords(r) : k.expiresAt < now

Cleared ==
    \A r \in Requests : pc[r] \in ClearedPoints \/ deed[r] # "none" => owed[r] = {}

KeepInv == /\ FitInv /\ Promises /\ PromisesKept /\ OneRowPerKey
           /\ OwedMeans /\ SeenExpired /\ Cleared

-----------------------------------------------------------------------------
LEMMA SuccessDone ==
    ASSUME FitInv, NEW q \in Requests, reply[q] = "success"
    PROVE  pc[q] = "done"
  BY DEF FitInv, Fit, Unconcluded

\* What is owed does not change while the call neither arrives nor looks up its key.
LEMMA OwedKeeps ==
    ASSUME KeepInv, [Next]_vars, NEW r \in Requests, NEW q \in owed[r],
           call'[r] = call[r], pc'[r] # "new"
    PROVE  /\ reply'[q] = "success"
           /\ call'[q].tenant = call'[r].tenant /\ call'[q].key = call'[r].key /\ call'[r].key # None
           /\ Store(q)' = Store(r)'
  <1>1. q \in Requests /\ TypeOK /\ FitInv
    BY DEF KeepInv, FitInv, TypeOK
  <1>2. /\ reply[q] = "success" /\ Store(q) = Store(r) /\ call[r].key # None
        /\ call[q].tenant = call[r].tenant /\ call[q].key = call[r].key
    BY DEF KeepInv, OwedMeans
  <1>3. pc[q] = "done"
    BY <1>1, <1>2, SuccessDone
  <1>4. reply'[q] = reply[q] /\ call'[q] = call[q]
    BY <1>1, <1>3, Settled
  <1> QED
    BY <1>2, <1>4 DEF Store

\* The rows of a step that stores none and drops none.
LEMMA RowsStay ==
    ASSUME ~Sqlite, KeepInv, [Next]_vars, UNCHANGED <<now, records, keptUntil>>
    PROVE  Promises' /\ PromisesKept' /\ OneRowPerKey'
  <1>1. TypeOK /\ FitInv /\ Promises
    BY DEF KeepInv, FitInv
  <1>2. Promises'
    BY <1>1, Settled DEF Promises
  <1>3. PromisesKept'
    <2> SUFFICES ASSUME NEW q \in Requests, reply'[q] = "success", keptUntil[q] >= now
                 PROVE  \E k \in records[Store(q)'] : SameKey(k, q)' /\ k.expiresAt >= keptUntil[q]
      BY DEF PromisesKept
    <2>1. pc[q] = "done"
      BY <1>1 DEF Promises, TypeOK
    <2>2. call'[q] = call[q] /\ reply'[q] = reply[q]
      BY <1>1, <2>1, Settled
    <2>3. reply[q] = "success" => \E k \in records[Store(q)] : SameKey(k, q) /\ k.expiresAt >= keptUntil[q]
      BY DEF KeepInv, PromisesKept
    <2> QED
      BY <2>1, <2>2, <2>3 DEF SameKey, Store
  <1>4. OneRowPerKey'
    BY DEF KeepInv, OneRowPerKey, Stores
  <1> QED
    BY <1>2, <1>3, <1>4

\* SeenExpired and Cleared of the calls other than r.
LEMMA OthersStay ==
    ASSUME ~Sqlite, KeepInv, [Next]_vars, NEW r \in Requests, Only(r),
           now' = now, \A q \in Requests \ {r} : pc[q] = "drop" => records'[Store(q)] \subseteq records[Store(q)]
    PROVE  \A q \in Requests \ {r} :
              /\ pc'[q] = "drop" => \A k \in KeyRecords(q)' : k.expiresAt < now'
              /\ pc'[q] \in ClearedPoints \/ deed'[q] # "none" => owed'[q] = {}
  <1> SUFFICES ASSUME NEW q \in Requests \ {r}
               PROVE  /\ pc'[q] = "drop" => \A k \in KeyRecords(q)' : k.expiresAt < now'
                      /\ pc'[q] \in ClearedPoints \/ deed'[q] # "none" => owed'[q] = {}
    OBVIOUS
  <1>1. /\ pc'[q] = pc[q] /\ call'[q] = call[q] /\ deed'[q] = deed[q] /\ owed'[q] = owed[q]
        /\ Store(q)' = Store(q)
    BY DEF Only, Store
  <1>2. ASSUME pc[q] = "drop" PROVE KeyRecords(q)' \subseteq KeyRecords(q)
    BY <1>1, <1>2 DEF KeyRecords
  <1> QED
    BY <1>1, <1>2 DEF KeepInv, SeenExpired, Cleared

LEMMA OwedStay ==
    ASSUME KeepInv, [Next]_vars, NEW r \in Requests, Only(r), pc'[r] # "new",
           call'[r] = call[r], owed'[r] \subseteq owed[r]
    PROVE  OwedMeans'
  <1> SUFFICES ASSUME NEW q \in Requests, NEW o \in owed'[q]
               PROVE  /\ pc'[q] # "new" /\ reply'[o] = "success"
                      /\ call'[o].tenant = call'[q].tenant /\ call'[o].key = call'[q].key
                      /\ call'[q].key # None
                      /\ Store(o)' = Store(q)'
    BY DEF OwedMeans
  <1>1. o \in owed[q] /\ call'[q] = call[q]
    BY DEF Only
  <1>2. pc'[q] # "new"
    BY <1>1 DEF Only, KeepInv, OwedMeans
  <1> QED
    BY <1>1, <1>2, OwedKeeps

\* The call arrives: what it must not repeat is noted.
LEMMA KeepReceive ==
    ASSUME ~Sqlite, KeepInv, NEW r \in Requests, NEW c \in Call, Receive(r, c), [Next]_vars, FitInv'
    PROVE  KeepInv'
  <1>1. /\ pc[r] = "new" /\ UNCHANGED <<now, records, keptUntil, deed>>
        /\ call' = [call EXCEPT ![r] = c] /\ TypeOK /\ FitInv
    BY DEF Receive, stores, KeepInv, FitInv
  <1>2. Only(r)
    BY <1>1, StepsOnly
  <1>3. pc'[r] \in {"preview", "done"}
    BY <1>1, ConcludeResult DEF Receive, Return, Fail, Goto, TypeOK
  <1>4. deed'[r] = "none"
    BY <1>1 DEF FitInv, Fit, DeedSoFar, EarlyPoints
  <1>5. Promises' /\ PromisesKept' /\ OneRowPerKey'
    BY <1>1, RowsStay
  <1>6. SeenExpired' /\ Cleared'
    BY <1>1, <1>2, <1>3, <1>4, OthersStay DEF SeenExpired, Cleared, ClearedPoints
  <1>7. OwedMeans'
    <2> SUFFICES ASSUME NEW q \in Requests, NEW o \in owed'[q]
                 PROVE  /\ pc'[q] # "new" /\ reply'[o] = "success"
                        /\ call'[o].tenant = call'[q].tenant /\ call'[o].key = call'[q].key
                        /\ call'[q].key # None
                        /\ Store(o)' = Store(q)'
      BY DEF OwedMeans
    <2>1. CASE q # r
      <3>1. o \in owed[q] /\ call'[q] = call[q] /\ pc'[q] # "new"
        BY <1>2, <2>1 DEF Only, KeepInv, OwedMeans
      <3> QED
        BY <3>1, OwedKeeps
    <2>2. CASE q = r
      <3>1. /\ o \in Requests /\ reply[o] = "success" /\ c.key # None
            /\ call[o].tenant = c.tenant /\ call[o].key = c.key /\ Store(o) = StoreOf(c.proc)
        BY <1>1, <2>2 DEF Receive, TypeOK
      <3>2. pc[o] = "done" /\ o # r
        BY <1>1, <3>1, SuccessDone
      <3>3. call'[o] = call[o] /\ reply'[o] = reply[o]
        BY <1>1, <3>1, <3>2, Settled
      <3>4. call'[r] = c
        BY <1>1 DEF TypeOK
      <3> QED
        BY <1>3, <2>2, <3>1, <3>3, <3>4 DEF Store
    <2> QED
      BY <2>1, <2>2
  <1> QED
    BY <1>5, <1>6, <1>7 DEF KeepInv

\* The call looks up its key: nothing is owed to a call that goes on.
LEMMA KeepCheckKey ==
    ASSUME ~Sqlite, KeepInv, NEW r \in Requests, CheckKey(r), [Next]_vars, FitInv'
    PROVE  KeepInv'
  <1>1. /\ pc[r] = "check" /\ UNCHANGED <<now, records, keptUntil, call, deed>>
        /\ TypeOK /\ FitInv /\ Store(r) \in Stores
    BY StoreType DEF CheckKey, At, stores, KeepInv, FitInv
  <1>2. Only(r)
    BY <1>1, StepsOnly DEF Serve
  <1>3. owed'[r] = {q \in owed[r] : keptUntil[q] >= now}
    BY <1>1 DEF CheckKey, TypeOK
  <1>4. ASSUME NEW o \in owed'[r]
        PROVE  \E k \in KeyRecords(r) : k.expiresAt >= now
    <2>1. o \in owed[r] /\ o \in Requests /\ keptUntil[o] >= now
      BY <1>1, <1>3, <1>4 DEF TypeOK
    <2>2. /\ reply[o] = "success" /\ Store(o) = Store(r)
          /\ call[o].tenant = call[r].tenant /\ call[o].key = call[r].key
      BY <2>1 DEF KeepInv, OwedMeans
    <2>3. PICK k \in records[Store(o)] : SameKey(k, o) /\ k.expiresAt >= keptUntil[o]
      BY <2>1, <2>2 DEF KeepInv, PromisesKept
    <2>4. k \in KeyRecords(r)
      BY <2>2, <2>3 DEF KeyRecords, SameKey
    <2>5. k.expiresAt \in Nat /\ keptUntil[o] \in Nat /\ now \in Nat
      BY <1>1, <2>1, <2>2, <2>3 DEF TypeOK, KeyRecord
    <2> QED
      BY <2>1, <2>3, <2>4, <2>5
  <1>5. \A k, l \in KeyRecords(r) : k = l
    BY <1>1 DEF KeyRecords, KeepInv, OneRowPerKey
  <1>6. \A k \in KeyRecords(r) : k.expiresAt \in Nat
    BY <1>1 DEF KeyRecords, TypeOK, KeyRecord
  <1>7. \/ pc'[r] = "done"
        \/ pc'[r] \in {"verify", "send"} /\ KeyRecords(r) = {}
        \/ pc'[r] = "drop" /\ \E k \in KeyRecords(r) : k.expiresAt < now
    BY <1>1, ConcludeResult DEF CheckKey, Return, Fail, Goto, TypeOK, AfterKey
  <1>8. deed[r] = "none"
    BY <1>1 DEF FitInv, Fit, DeedSoFar, EarlyPoints
  <1>9. Promises' /\ PromisesKept' /\ OneRowPerKey'
    BY <1>1, RowsStay
  <1>10. OwedMeans'
    BY <1>1, <1>2, <1>3, <1>7, OwedStay
  <1>11. KeyRecords(r)' = KeyRecords(r)
    BY <1>1 DEF KeyRecords, Store
  <1>12. SeenExpired'
    BY <1>1, <1>2, <1>5, <1>7, <1>11, OthersStay DEF SeenExpired
  <1>13. pc'[r] \in ClearedPoints => owed'[r] = {}
    BY <1>1, <1>4, <1>5, <1>6, <1>7 DEF TypeOK, ClearedPoints
  <1>14. Cleared'
    BY <1>1, <1>2, <1>8, <1>13, OthersStay DEF Cleared
  <1> QED
    BY <1>9, <1>10, <1>12, <1>14 DEF KeepInv

\* The row that goes was seen expired, and still is that row: it was promised to nobody.
LEMMA KeepDropKey ==
    ASSUME ~Sqlite, KeepInv, NEW r \in Requests, DropKey(r), [Next]_vars, FitInv'
    PROVE  KeepInv'
  <1>1. /\ pc[r] = "drop" /\ UNCHANGED <<now, keptUntil, call, deed, owed, reply>>
        /\ TypeOK /\ FitInv /\ Store(r) \in Stores
        /\ records' = [records EXCEPT ![Store(r)] = @ \ KeyRecords(r)]
    BY StoreType DEF DropKey, At, answers, KeepInv, FitInv
  <1>2. Only(r)
    BY <1>1, StepsOnly DEF Serve
  <1>3. pc'[r] \in {"verify", "send"}
    BY <1>1 DEF DropKey, Goto, TypeOK, AfterKey
  <1>4. \A s \in Stores : records'[s] \subseteq records[s]
    BY <1>1 DEF TypeOK
  <1>5. Promises'
    BY <1>1, <1>2, <1>3 DEF KeepInv, Promises, Only
  <1>6. PromisesKept'
    <2> SUFFICES ASSUME NEW q \in Requests, reply[q] = "success", keptUntil[q] >= now
                 PROVE  \E k \in records'[Store(q)] : SameKey(k, q) /\ k.expiresAt >= keptUntil[q]
      BY <1>1 DEF PromisesKept, Store, SameKey
    <2>1. PICK k \in records[Store(q)] : SameKey(k, q) /\ k.expiresAt >= keptUntil[q]
      BY DEF KeepInv, PromisesKept
    <2>2. Store(q) \in Stores /\ k.expiresAt \in Nat /\ keptUntil[q] \in Nat /\ now \in Nat
      <3>1. pc[q] = "done"
        BY <1>1, SuccessDone
      <3>2. Store(q) \in Stores
        BY <1>1, <3>1, StoreType
      <3> QED
        BY <1>1, <2>1, <3>2 DEF TypeOK, KeyRecord
    <2>3. CASE Store(q) = Store(r) /\ k \in KeyRecords(r)
      <3>1. k.expiresAt < now
        BY <1>1, <2>3 DEF KeepInv, SeenExpired
      <3> QED
        BY <2>1, <2>2, <3>1
    <2>4. CASE ~(Store(q) = Store(r) /\ k \in KeyRecords(r))
      <3>1. k \in records'[Store(q)]
        BY <1>1, <2>1, <2>2, <2>4 DEF TypeOK
      <3> QED
        BY <2>1, <3>1
    <2> QED
      BY <2>3, <2>4
  <1>7. OneRowPerKey'
    BY <1>4 DEF KeepInv, OneRowPerKey, Stores
  <1>8. OwedMeans'
    BY <1>1, <1>2, <1>3, OwedStay
  <1>9. \A q \in Requests \ {r} : pc[q] = "drop" => records'[Store(q)] \subseteq records[Store(q)]
    BY <1>1, <1>4, StoreType
  <1>10. SeenExpired' /\ Cleared'
    BY <1>1, <1>2, <1>3, <1>9, OthersStay DEF SeenExpired, Cleared, KeepInv, ClearedPoints
  <1> QED
    BY <1>5, <1>6, <1>7, <1>8, <1>10 DEF KeepInv

\* The row of the key is replaced by one that lives at least as long.
LEMMA KeepStoreResult ==
    ASSUME ~Sqlite, KeepInv, NEW r \in Requests, StoreResult(r), [Next]_vars, FitInv'
    PROVE  KeepInv'
  <1>1. /\ pc[r] = "store" /\ UNCHANGED <<now, call, deed, owed>>
        /\ TypeOK /\ FitInv /\ Store(r) \in Stores
        /\ records' = [records EXCEPT ![Store(r)] = InsertOrReplace(r)]
        /\ keptUntil' = [keptUntil EXCEPT ![r] = now + TTL]
        /\ reply' = [reply EXCEPT ![r] = "success"]
        /\ Goto(r, "done") /\ ThreadFree(r, call[r].proc)
    BY StoreType DEF StoreResult, At, KeepInv, FitInv
  <1>2. Only(r) /\ pc'[r] = "done"
    BY <1>1, StepsOnly DEF Serve, Goto, TypeOK
  <1>3. records'[Store(r)] = (records[Store(r)] \ KeyRecords(r)) \cup {OwnRecord(r)}
        /\ \A s \in Stores : s # Store(r) => records'[s] = records[s]
    BY <1>1 DEF TypeOK, InsertOrReplace
  <1>4. keptUntil'[r] = now + TTL /\ \A q \in Requests \ {r} : keptUntil'[q] = keptUntil[q]
    BY <1>1 DEF TypeOK
  <1>5. Promises'
    BY <1>1, <1>2, <1>4, ConstantsAssumption DEF KeepInv, Promises, Only, TypeOK
  <1>6. OwnRecord(r).expiresAt = now + TTL /\ SameKey(OwnRecord(r), r)
    BY DEF OwnRecord, SameKey
  <1>7. PromisesKept'
    <2> SUFFICES ASSUME NEW q \in Requests, reply'[q] = "success", keptUntil'[q] >= now
                 PROVE  \E k \in records'[Store(q)] : SameKey(k, q) /\ k.expiresAt >= keptUntil'[q]
      BY <1>1 DEF PromisesKept, Store, SameKey
    <2>1. CASE q = r
      BY <1>3, <1>4, <1>6, <2>1, <1>1, ConstantsAssumption DEF TypeOK
    <2>2. CASE q # r
      <3>1. reply[q] = "success" /\ keptUntil[q] >= now /\ keptUntil'[q] = keptUntil[q]
        BY <1>1, <1>4, <2>2 DEF TypeOK
      <3>2. PICK k \in records[Store(q)] : SameKey(k, q) /\ k.expiresAt >= keptUntil[q]
        BY <3>1 DEF KeepInv, PromisesKept
      <3>3. Store(q) \in Stores
        BY <1>1, <3>1, SuccessDone, StoreType
      <3>4. CASE Store(q) = Store(r) /\ k \in KeyRecords(r)
        <4>1. SameKey(OwnRecord(r), q) /\ OwnRecord(r) \in records'[Store(q)]
          BY <1>3, <3>2, <3>4 DEF KeyRecords, SameKey, OwnRecord
        <4>2. keptUntil[q] <= now + TTL
          BY DEF KeepInv, Promises
        <4> QED
          BY <1>1, <1>6, <3>1, <4>1, <4>2, ConstantsAssumption DEF TypeOK
      <3>5. CASE ~(Store(q) = Store(r) /\ k \in KeyRecords(r))
        <4>1. k \in records'[Store(q)]
          BY <1>3, <3>2, <3>3, <3>5
        <4> QED
          BY <3>1, <3>2, <4>1
      <3> QED
        BY <3>4, <3>5
    <2> QED
      BY <2>1, <2>2
  <1>8. OneRowPerKey'
    <2> SUFFICES ASSUME NEW s \in Stores, NEW k \in records'[s], NEW l \in records'[s],
                        k.tenant = l.tenant, k.key = l.key
                 PROVE  k = l
      BY DEF OneRowPerKey, Stores
    <2>1. CASE s # Store(r)
      BY <1>3, <2>1 DEF KeepInv, OneRowPerKey
    <2>2. CASE s = Store(r)
      <3>1. \A m \in records[s] \ KeyRecords(r) : ~(m.tenant = call[r].tenant /\ m.key = call[r].key)
        BY <2>2 DEF KeyRecords
      <3>2. OwnRecord(r).tenant = call[r].tenant /\ OwnRecord(r).key = call[r].key
        BY DEF OwnRecord
      <3>3. \A m \in records'[s] : m = OwnRecord(r) \/ m \in records[s] \ KeyRecords(r)
        BY <1>3, <2>2
      <3> QED
        BY <3>1, <3>2, <3>3 DEF KeepInv, OneRowPerKey
    <2> QED
      BY <2>1, <2>2
  <1>9. OwedMeans'
    BY <1>1, <1>2, OwedStay
  <1>10. \A q \in Requests \ {r} : pc[q] = "drop" => records'[Store(q)] \subseteq records[Store(q)]
    <2> SUFFICES ASSUME NEW q \in Requests \ {r}, pc[q] = "drop"
                 PROVE  records'[Store(q)] \subseteq records[Store(q)]
      OBVIOUS
    <2>1. call[q].proc # call[r].proc
      BY <1>1 DEF ThreadFree, SyncPoints
    <2>2. Store(q) # Store(r) /\ Store(q) \in Stores
      BY <1>1, <2>1, StoreType DEF Store, StoreOf
    <2> QED
      BY <1>3, <2>2
  <1>11. SeenExpired' /\ Cleared'
    BY <1>1, <1>2, <1>10, OthersStay DEF SeenExpired, Cleared, KeepInv, ClearedPoints
  <1> QED
    BY <1>5, <1>7, <1>8, <1>9, <1>11 DEF KeepInv

\* The other steps of a call neither touch the rows nor what is owed.
LEMMA KeepServe ==
    ASSUME ~Sqlite, KeepInv, NEW r \in Requests, Serve(r), ~CheckKey(r), ~DropKey(r), ~StoreResult(r),
           [Next]_vars, FitInv'
    PROVE  KeepInv'
  <1>1. TypeOK /\ FitInv /\ Only(r)
    BY StepsOnly DEF KeepInv, FitInv
  <1>2. UNCHANGED <<now, records, keptUntil, call, owed>>
    BY DEF Serve, BuildPreview, RefusePreview, IssueToken, AnswerPreview, VerifyToken, ConsumeToken,
           StoreThrows, Send, Succeed, ExecuteThrows, RecordExecution, stores
  <1>3. pc[r] # "new"
    BY DEF Serve, BuildPreview, RefusePreview, IssueToken, AnswerPreview, VerifyToken, ConsumeToken,
           StoreThrows, Send, Succeed, ExecuteThrows, RecordExecution, At
  <1>4. \A stage : Fail(r, stage) => pc'[r] = "done"
    BY <1>1, ConcludeResult DEF Fail
  <1>5. \A stage, answer, by : Return(r, stage, answer, by) => pc'[r] = "done"
    BY <1>1, ConcludeResult DEF Return
  <1>6. /\ pc'[r] \notin {"new", "drop"}
        /\ pc'[r] \in ClearedPoints \/ deed'[r] # "none" =>
              pc[r] \in ClearedPoints \/ deed[r] # "none" \/ call[r].key = None
    <2>1. CASE BuildPreview(r)
      <3>1. deed' = deed
        BY <2>1 DEF BuildPreview
      <3>2. pc'[r] = IF RequirePreview /\ call[r].dryRun THEN "issue"
                     ELSE IF call[r].key # None THEN "check" ELSE AfterKey
        BY <1>1, <2>1 DEF BuildPreview, Goto, TypeOK
      <3> QED
        BY <3>1, <3>2 DEF AfterKey, ClearedPoints
    <2>2. CASE RefusePreview(r) \/ AnswerPreview(r) \/ StoreThrows(r) \/ ExecuteThrows(r)
      <3>1. deed' = deed /\ pc'[r] = "done"
        BY <1>4, <1>5, <2>2 DEF RefusePreview, AnswerPreview, StoreThrows, ExecuteThrows
      <3> QED
        BY <3>1 DEF ClearedPoints
    <2>3. CASE IssueToken(r)
      BY <1>1, <2>3 DEF IssueToken, Goto, TypeOK, ClearedPoints
    <2>4. CASE VerifyToken(r) \/ ConsumeToken(r)
      <3>1. pc'[r] \in {"consume", "send", "done"} /\ pc[r] \in ClearedPoints
        BY <1>1, <1>4, <1>5, <2>4 DEF VerifyToken, ConsumeToken, Goto, TypeOK, At, ClearedPoints
      <3> QED
        BY <3>1
    <2>5. CASE Send(r) \/ Succeed(r)
      BY <1>1, <2>5 DEF Send, Succeed, Goto, TypeOK, At, ClearedPoints
    <2>6. CASE RecordExecution(r)
      <3>1. pc'[r] \in {"store", "done"} /\ pc[r] \in ClearedPoints
        BY <1>1, <2>6, ConcludeResult DEF RecordExecution, Goto, TypeOK, At, ClearedPoints
      <3> QED
        BY <3>1
    <2> QED
      BY <2>1, <2>2, <2>3, <2>4, <2>5, <2>6 DEF Serve
  <1>7. call[r].key = None => owed[r] = {}
    BY <1>1 DEF KeepInv, OwedMeans, TypeOK
  <1>8. Promises' /\ PromisesKept' /\ OneRowPerKey'
    BY <1>2, RowsStay
  <1>9. OwedMeans'
    BY <1>1, <1>2, <1>6, OwedStay
  <1>10. SeenExpired' /\ Cleared'
    BY <1>1, <1>2, <1>6, <1>7, OthersStay DEF SeenExpired, Cleared, KeepInv
  <1> QED
    BY <1>8, <1>9, <1>10 DEF KeepInv

\* A restart takes the rows of its process and what they promised; time only ends promises.
LEMMA KeepEnvironment ==
    ASSUME ~Sqlite, KeepInv, [Next]_vars, FitInv',
           (\E p \in Processes : Restart(p)) \/ (\E s \in Stores : Purge(s)) \/ Tick \/ UNCHANGED vars
    PROVE  KeepInv'
  <1>1. TypeOK /\ FitInv
    BY DEF KeepInv, FitInv
  <1>2. /\ UNCHANGED <<call, deed, reply, owed>>
        /\ \A q \in Requests : pc'[q] = pc[q] \/ (pc'[q] = "crashed" /\ pc[q] \notin {"new", "done"})
    BY DEF Restart, Purge, Tick, vars, answers
  <1>3. OwedMeans'
    BY <1>1, <1>2 DEF KeepInv, OwedMeans, Store, TypeOK
  <1>4. Cleared'
    BY <1>2 DEF KeepInv, Cleared, ClearedPoints
  <1>5. CASE \E p \in Processes : Restart(p)
    <2>1. PICK p \in Processes : Restart(p)
      BY <1>5
    <2>2. /\ now' = now
          /\ \A s \in Stores : records'[s] = IF s = p THEN {} ELSE records[s]
          /\ \A q \in Requests : keptUntil'[q] = IF pc[q] = "done" /\ call[q].proc = p THEN 0
                                               ELSE keptUntil[q]
      BY <1>1, <2>1 DEF Restart, TypeOK, Stores
    <2>3. Promises'
      <3>1. now' \in Nat \ {0}
        BY <2>2 DEF KeepInv, Promises
      <3>2. \A q \in Requests : keptUntil'[q] <= now' + TTL
        <4> SUFFICES ASSUME NEW q \in Requests
                     PROVE  keptUntil'[q] <= now + TTL
          BY <2>2
        <4>1. now + TTL \in Nat
          BY <1>1, ConstantsAssumption DEF TypeOK
        <4>2. keptUntil[q] <= now + TTL
          BY DEF KeepInv, Promises
        <4>3. keptUntil'[q] = 0 \/ keptUntil'[q] = keptUntil[q]
          BY <2>2
        <4> QED
          BY <4>1, <4>2, <4>3
      <3>3. \A q \in Requests : pc'[q] # "done" => keptUntil'[q] = 0
        BY <1>2, <2>2 DEF KeepInv, Promises
      <3> QED
        BY <3>1, <3>2, <3>3 DEF Promises
    <2>4. PromisesKept'
      <3> SUFFICES ASSUME NEW q \in Requests, reply[q] = "success", keptUntil'[q] >= now
                   PROVE  \E k \in records'[Store(q)] : SameKey(k, q) /\ k.expiresAt >= keptUntil'[q]
        BY <1>2, <2>2 DEF PromisesKept, Store, SameKey
      <3>1. pc[q] = "done" /\ Store(q) \in Stores /\ Store(q) = call[q].proc /\ now > 0
        BY <1>1, SuccessDone, StoreType DEF Store, StoreOf, KeepInv, Promises
      <3>2. Store(q) # p /\ keptUntil'[q] = keptUntil[q]
        BY <2>2, <3>1 DEF KeepInv, Promises
      <3> QED
        BY <2>2, <3>1, <3>2 DEF KeepInv, PromisesKept
    <2>5. OneRowPerKey'
      BY <2>2 DEF KeepInv, OneRowPerKey, Stores
    <2>6. SeenExpired'
      <3> SUFFICES ASSUME NEW q \in Requests, pc[q] = "drop", NEW k \in KeyRecords(q)'
                   PROVE  k.expiresAt < now
        BY <1>2, <2>2 DEF SeenExpired
      <3>1. Store(q) \in Stores
        BY <1>1, StoreType
      <3>2. k \in KeyRecords(q)
        BY <1>2, <2>2, <3>1 DEF KeyRecords, Store
      <3> QED
        BY <3>2 DEF KeepInv, SeenExpired
    <2> QED
      BY <1>3, <1>4, <2>3, <2>4, <2>5, <2>6 DEF KeepInv
  <1>6. CASE UNCHANGED <<records, keptUntil>> /\ now' \in {now, now + 1}
    <2>1. now \in Nat /\ now' \in Nat /\ now' >= now /\ TTL \in Nat
      BY <1>1, <1>6, ConstantsAssumption DEF TypeOK
    <2>2. \A q \in Requests : keptUntil[q] \in Nat
      BY <1>1 DEF TypeOK
    <2>3. Promises'
      <3>1. now' \in Nat \ {0}
        BY <2>1 DEF KeepInv, Promises
      <3>2. \A q \in Requests : keptUntil'[q] <= now' + TTL
        <4> SUFFICES ASSUME NEW q \in Requests
                     PROVE  keptUntil[q] <= now' + TTL
          BY <1>6
        <4>1. keptUntil[q] \in Nat /\ keptUntil[q] <= now + TTL
          BY <1>1 DEF TypeOK, KeepInv, Promises
        <4> QED
          BY <2>1, <4>1
      <3>3. \A q \in Requests : pc'[q] # "done" => keptUntil'[q] = 0
        BY <1>2, <1>6 DEF KeepInv, Promises
      <3> QED
        BY <3>1, <3>2, <3>3 DEF Promises
    <2>4. PromisesKept'
      BY <1>2, <1>6, <2>1, <2>2 DEF KeepInv, PromisesKept, Store, SameKey
    <2>5. OneRowPerKey'
      BY <1>6 DEF KeepInv, OneRowPerKey, Stores
    <2>6. SeenExpired'
      <3> SUFFICES ASSUME NEW q \in Requests, pc[q] = "drop", NEW k \in KeyRecords(q)
                   PROVE  k.expiresAt < now'
        BY <1>2, <1>6 DEF SeenExpired, KeyRecords, Store
      <3>1. k.expiresAt < now
        BY DEF KeepInv, SeenExpired
      <3>2. k.expiresAt \in Nat
        BY <1>1, StoreType DEF KeyRecords, TypeOK, KeyRecord
      <3> QED
        BY <2>1, <3>1, <3>2
    <2> QED
      BY <1>3, <1>4, <2>3, <2>4, <2>5, <2>6 DEF KeepInv
  <1>7. (\E s \in Stores : Purge(s)) \/ Tick \/ UNCHANGED vars =>
           UNCHANGED <<records, keptUntil>> /\ now' \in {now, now + 1}
    BY DEF Purge, Tick, vars, stores
  <1> QED
    BY <1>5, <1>6, <1>7

LEMMA KeepStep ==
    ASSUME ~Sqlite, KeepInv, [Next]_vars
    PROVE  KeepInv'
  <1>1. FitInv'
    BY FitStep DEF KeepInv
  <1>2. CASE \E r \in Requests : (\E c \in Call : Receive(r, c)) \/ Serve(r)
    BY <1>1, <1>2, KeepReceive, KeepCheckKey, KeepDropKey, KeepStoreResult, KeepServe
  <1>3. CASE ~\E r \in Requests : (\E c \in Call : Receive(r, c)) \/ Serve(r)
    BY <1>1, <1>3, KeepEnvironment DEF Next
  <1> QED
    BY <1>2, <1>3

LEMMA KeepStarts == Init => KeepInv
  BY FitStarts, ConstantsAssumption
  DEF Init, KeepInv, Promises, PromisesKept, OneRowPerKey, OwedMeans, SeenExpired, Cleared, ClearedPoints

\* With the stores in memory a call that arrives after another one with its key was answered
\* with success lets nothing through while the record lives, for every number of calls and
\* processes and in both modes: checkIdempotency and storeIdempotencyResult keep the promise.
THEOREM KeyedRetriesNotRepeated ==
    ASSUME ~Sqlite
    PROVE  Spec => []KeyedRetryNotRepeated
  <1>1. KeepInv => KeyedRetryNotRepeated
    BY DEF KeepInv, Cleared, KeyedRetryNotRepeated
  <1> QED
    BY <1>1, KeepStarts, KeepStep, PTL DEF Spec
=============================================================================
