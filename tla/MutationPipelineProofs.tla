----------------------- MODULE MutationPipelineProofs -----------------------
(***************************************************************************)
(* Proofs about MutationPipeline, for every number of calls, processes,    *)
(* tenants, tools, payloads and keys.                                      *)
(***************************************************************************)
EXTENDS MutationPipeline, TLAPS

-----------------------------------------------------------------------------
\* Type correctness.

\* A call is answered and every answer has its type.
AnswerTyped(r) ==
    /\ pc' = [pc EXCEPT ![r] = "done"]
    /\ trail' \in [Requests -> SUBSET Stages]
    /\ reply' \in [Requests -> Replies]
    /\ result' \in [Requests -> Requests \cup {None}]

LEMMA ConcludeType ==
    ASSUME TypeOK, NEW r \in Requests, NEW stage \in Stages,
           NEW answer \in Replies, NEW unwritten \in Replies, NEW by \in Requests \cup {None},
           Conclude(r, stage, answer, unwritten, by)
    PROVE  AnswerTyped(r)
BY DEF TypeOK, Conclude, Goto, AnswerTyped

LEMMA FailType ==
    ASSUME TypeOK, NEW r \in Requests, NEW stage \in {"denied", "failed", "unknown"},
           Fail(r, stage)
    PROVE  AnswerTyped(r)
<1> DEFINE answer == IF stage \in {"failed", "unknown"} THEN stage ELSE "denied"
<1>1. stage \in Stages /\ answer \in Replies /\ "threw" \in Replies
  BY DEF Stages, Replies
<1>2. Conclude(r, stage, answer, "threw", None)
  BY DEF Fail
<1> HIDE DEF answer
<1>3. QED
  BY <1>1, <1>2, ConcludeType

LEMMA ReturnType ==
    ASSUME TypeOK, NEW r \in Requests, NEW stage \in Stages,
           NEW answer \in Replies, NEW by \in Requests \cup {None},
           Return(r, stage, answer, by)
    PROVE  AnswerTyped(r)
<1>1. Advice(FALSE) \in Replies
  BY DEF Advice, Replies
<1>2. QED
  BY <1>1, ConcludeType DEF Return

LEMMA StoreType ==
    ASSUME TypeOK, NEW r \in Requests, pc[r] # "new"
    PROVE  Store(r) \in Stores /\ call[r] \in Call
BY DEF TypeOK, Store, StoreOf, Stores, Call

LEMMA Names ==
    /\ "done" \in Points /\ "preview" \in Points /\ "issue" \in Points /\ "tell" \in Points
    /\ "check" \in Points /\ "drop" \in Points /\ "verify" \in Points /\ "consume" \in Points
    /\ "send" \in Points /\ "await" \in Points /\ "record" \in Points /\ "store" \in Points
    /\ "crashed" \in Points /\ AfterKey \in {"verify", "send"}
    /\ {"preview", "executed", "replay", "denied", "failed"} \subseteq Stages
    /\ {"preview", "success", "replayed", "denied", "failed"} \subseteq Replies
    /\ Advice(TRUE) \in Replies
BY DEF Points, SyncPoints, AfterKey, Stages, Replies, Advice

LEMMA TypeStep == TypeOK /\ [Next]_vars => TypeOK'
<1> USE ConstantsAssumption
<1> SUFFICES ASSUME TypeOK, [Next]_vars PROVE TypeOK'
  OBVIOUS
<1>1. ASSUME NEW r \in Requests, NEW c \in Call, Receive(r, c) PROVE TypeOK'
  <2>1. /\ pc' \in [Requests -> Points] /\ pc'[r] \in {"preview", "done"}
        /\ \A q \in Requests \ {r} : pc'[q] = pc[q]
        /\ trail' \in [Requests -> SUBSET Stages]
        /\ reply' \in [Requests -> Replies]
        /\ result' \in [Requests -> Requests \cup {None}]
    <3>1. CASE Goto(r, "preview") /\ UNCHANGED answers
      BY <3>1, Names DEF TypeOK, Goto, answers
    <3>2. CASE AnswerTyped(r)
      BY <3>2, Names DEF TypeOK, AnswerTyped
    <3>3. QED
      BY <1>1, <3>1, <3>2, Names, ReturnType, FailType DEF Receive
  <2>2. call' = [call EXCEPT ![r] = c] /\ owed' \in [Requests -> SUBSET Requests]
    BY <1>1 DEF Receive, TypeOK
  <2>3. UNCHANGED <<now, stores, payload, deed>>
    BY <1>1 DEF Receive
  <2>4. QED
    BY <2>1, <2>2, <2>3 DEF TypeOK, stores
<1>2. ASSUME NEW r \in Requests, BuildPreview(r) PROVE TypeOK'
  <2>1. pc[r] = "preview" /\ call[r].key \in Keys \cup {None}
    BY <1>2 DEF BuildPreview, At, TypeOK, Call
  <2>2. PICK point \in Points : /\ Goto(r, point)
                                /\ point \in {"check", "drop", "store"} => call[r].key \in Keys
    BY <1>2, <2>1, Names DEF BuildPreview
  <2>3. payload' \in [Requests -> Payloads \cup {None}] /\ payload'[r] \in Payloads
        /\ \A q \in Requests \ {r} : payload'[q] = payload[q]
    BY <1>2 DEF BuildPreview, TypeOK
  <2>4. QED
    BY <1>2, <2>1, <2>2, <2>3, Names DEF BuildPreview, TypeOK, Goto, stores, answers
<1>3. ASSUME NEW r \in Requests, RefusePreview(r) PROVE TypeOK'
  <2>1. AnswerTyped(r)
    BY <1>3, FailType DEF RefusePreview
  <2>2. QED
    BY <1>3, <2>1, Names DEF RefusePreview, TypeOK, AnswerTyped, At, stores
<1>4. ASSUME NEW r \in Requests, IssueToken(r) PROVE TypeOK'
  <2>1. Store(r) \in Stores /\ call[r] \in Call /\ payload[r] \in Payloads
    BY <1>4, StoreType DEF IssueToken, At, TypeOK
  <2>2. tokens' \in [Stores -> SUBSET Token]
    BY <1>4, <2>1 DEF IssueToken, TypeOK, Token, Call
  <2>3. QED
    BY <1>4, <2>2, Names DEF IssueToken, TypeOK, At, Goto, answers
<1>5. ASSUME NEW r \in Requests, AnswerPreview(r) PROVE TypeOK'
  <2>1. AnswerTyped(r)
    BY <1>5, Names, ReturnType DEF AnswerPreview
  <2>2. QED
    BY <1>5, <2>1, Names DEF AnswerPreview, TypeOK, AnswerTyped, At, stores
<1>6. ASSUME NEW r \in Requests, CheckKey(r) PROVE TypeOK'
  <2>1. owed' \in [Requests -> SUBSET Requests] /\ pc[r] = "check"
    BY <1>6 DEF CheckKey, TypeOK, At
  <2>2. AnswerTyped(r) \/ ((Goto(r, AfterKey) \/ Goto(r, "drop")) /\ UNCHANGED answers)
    <3>1. \A k \in KeyRecords(r) : k.by \in Requests \cup {None}
      BY <2>1, StoreType DEF KeyRecords, TypeOK, KeyRecord
    <3>2. QED
      BY <1>6, <3>1, Names, ReturnType, FailType DEF CheckKey
  <2>3. QED
    BY <1>6, <2>1, <2>2, Names DEF CheckKey, TypeOK, AnswerTyped, Goto, stores, answers
<1>7. ASSUME NEW r \in Requests, DropKey(r) PROVE TypeOK'
  <2>1. records' \in [Stores -> SUBSET KeyRecord]
    BY <1>7 DEF DropKey, TypeOK
  <2>2. QED
    BY <1>7, <2>1, Names DEF DropKey, TypeOK, At, Goto, answers
<1>8. ASSUME NEW r \in Requests, VerifyToken(r) PROVE TypeOK'
  <2>1. tokens' \in [Stores -> SUBSET Token] /\ pc[r] = "verify"
    BY <1>8 DEF VerifyToken, TypeOK, At
  <2>2. AnswerTyped(r) \/ (Goto(r, "consume") /\ UNCHANGED answers)
    BY <1>8, Names, ReturnType, FailType DEF VerifyToken
  <2>3. QED
    BY <1>8, <2>1, <2>2, Names DEF VerifyToken, TypeOK, AnswerTyped, Goto, answers
<1>9. ASSUME NEW r \in Requests, ConsumeToken(r) PROVE TypeOK'
  <2>1. tokens' \in [Stores -> SUBSET Token] /\ pc[r] = "consume"
        /\ deed' \in [Requests -> {"none", "authorised", "applied", "refused"}]
    BY <1>9 DEF ConsumeToken, TypeOK, At
  <2>2. AnswerTyped(r) \/ (Goto(r, "send") /\ UNCHANGED answers)
    BY <1>9, FailType DEF ConsumeToken
  <2>3. QED
    BY <1>9, <2>1, <2>2, Names DEF ConsumeToken, TypeOK, AnswerTyped, Goto, answers
<1>10. ASSUME NEW r \in Requests, Send(r) PROVE TypeOK'
  BY <1>10, Names DEF Send, TypeOK, At, Goto, stores, answers
<1>11. ASSUME NEW r \in Requests, Succeed(r) PROVE TypeOK'
  BY <1>11, Names DEF Succeed, TypeOK, At, Goto, stores, answers
<1>12. ASSUME NEW r \in Requests, ExecuteThrows(r) PROVE TypeOK'
  <2>1. AnswerTyped(r)
    BY <1>12, FailType DEF ExecuteThrows
  <2>2. QED
    BY <1>12, <2>1, Names DEF ExecuteThrows, TypeOK, AnswerTyped, At, stores
<1>13. ASSUME NEW r \in Requests, RecordExecution(r) PROVE TypeOK'
  <2>1. pc[r] = "record" /\ call[r].key \in Keys \cup {None}
    BY <1>13 DEF RecordExecution, At, TypeOK, Call
  <2>2. CASE call[r].key = None
    <3>1. AnswerTyped(r)
      BY <1>13, <2>2, Names, ConcludeType DEF RecordExecution
    <3>2. QED
      BY <1>13, <2>1, <3>1, Names DEF RecordExecution, TypeOK, AnswerTyped, stores
  <2>3. CASE call[r].key \in Keys
    <3>1. \/ /\ trail' = [trail EXCEPT ![r] = @ \cup {"executed"}]
             /\ Goto(r, "store")
             /\ UNCHANGED <<reply, result>>
          \/ Goto(r, "store") /\ UNCHANGED answers
          \/ /\ reply' = [reply EXCEPT ![r] = Advice(TRUE)]
             /\ Goto(r, "done")
             /\ UNCHANGED <<trail, result>>
      BY <1>13, <2>3, ConstantsAssumption DEF RecordExecution
    <3>2. trail[r] \cup {"executed"} \in SUBSET Stages
      BY DEF TypeOK, Stages
    <3>3. trail' \in [Requests -> SUBSET Stages]
      BY <3>1, <3>2 DEF TypeOK, answers
    <3>4. reply' \in [Requests -> Replies] /\ result' = result
      BY <3>1 DEF TypeOK, answers, Advice, Replies
    <3>5. Goto(r, "store") \/ Goto(r, "done")
      BY <3>1
    <3>6. QED
      BY <1>13, <2>1, <2>3, <3>3, <3>4, <3>5, Names DEF RecordExecution, TypeOK, Goto, stores
  <2>4. QED
    BY <2>1, <2>2, <2>3
<1>14. ASSUME NEW r \in Requests, StoreResult(r) PROVE TypeOK'
  <2>1. pc[r] = "store" /\ call[r].key \in Keys /\ Store(r) \in Stores /\ call[r] \in Call /\ payload[r] \in Payloads
    BY <1>14, StoreType DEF StoreResult, At, TypeOK
  <2>2. CASE Fail(r, "failed") /\ UNCHANGED <<records, keptUntil>>
    <3>1. AnswerTyped(r)
      BY <2>2, FailType
    <3>2. QED
      BY <1>14, <2>1, <2>2, <3>1, Names DEF StoreResult, TypeOK, AnswerTyped
  <2>3. CASE /\ records' = [records EXCEPT ![Store(r)] = InsertOrReplace(r)]
             /\ keptUntil' = [keptUntil EXCEPT ![r] = now + TTL]
             /\ reply' = [reply EXCEPT ![r] = "success"]
             /\ result' = [result EXCEPT ![r] = r]
             /\ Goto(r, "done")
             /\ UNCHANGED trail
    <3>1. OwnRecord(r) \in KeyRecord
      BY <2>1 DEF TypeOK, OwnRecord, KeyRecord, Call
    <3>2. records' \in [Stores -> SUBSET KeyRecord]
      BY <2>1, <2>3, <3>1 DEF TypeOK, InsertOrReplace
    <3>3. keptUntil' \in [Requests -> Nat]
      BY <2>3 DEF TypeOK
    <3>4. QED
      BY <1>14, <2>1, <2>3, <3>2, <3>3, Names DEF StoreResult, TypeOK, Goto
  <2>4. QED
    BY <1>14, <2>2, <2>3 DEF StoreResult
<1>15. ASSUME NEW r \in Requests, StoreThrows(r) PROVE TypeOK'
  <2>1. AnswerTyped(r)
    BY <1>15, FailType DEF StoreThrows
  <2>2. QED
    BY <1>15, <2>1, Names DEF StoreThrows, TypeOK, AnswerTyped, At, stores
<1>16. ASSUME NEW p \in Processes, Restart(p) PROVE TypeOK'
  <2>1. tokens' \in [Stores -> SUBSET Token] /\ records' \in [Stores -> SUBSET KeyRecord]
    BY <1>16 DEF Restart, TypeOK, Stores, Live
  <2>2. pc' \in [Requests -> Points] /\ keptUntil' \in [Requests -> Nat]
        /\ \A r \in Requests : pc'[r] \in {pc[r], "crashed"} /\ (pc'[r] # "new" => pc[r] # "new")
    BY <1>16, Names DEF Restart, TypeOK
  <2>3. QED
    BY <1>16, <2>1, <2>2 DEF Restart, TypeOK, answers
<1>17. ASSUME NEW s \in Stores, Purge(s) PROVE TypeOK'
  <2>1. tokens' \in [Stores -> SUBSET Token] /\ records' \in [Stores -> SUBSET KeyRecord]
    BY <1>17 DEF Purge, TypeOK, Live
  <2>2. QED
    BY <1>17, <2>1 DEF Purge, TypeOK, answers
<1>18. CASE Tick
  BY <1>18 DEF Tick, TypeOK, stores, answers
<1>19. CASE UNCHANGED vars
  BY <1>19 DEF TypeOK, vars
<1>20. QED
  BY <1>1, <1>2, <1>3, <1>4, <1>5, <1>6, <1>7, <1>8, <1>9, <1>10, <1>11, <1>12, <1>13, <1>14,
     <1>15, <1>16, <1>17, <1>18, <1>19 DEF Next, Serve

\* Type correctness of the pipeline: in particular no call reaches a store before its
\* payload and, for the key store, its key is known.
THEOREM TypeCorrect == Spec => []TypeOK
<1>1. Init => TypeOK
  BY ConstantsAssumption DEF Init, TypeOK, Points, Replies
<1>2. QED
  BY <1>1, TypeStep, PTL DEF Spec

-----------------------------------------------------------------------------
(***************************************************************************)
(* Two-step approval.  ActsAsPreviewed and SingleUse are not inductive:    *)
(* they hold because of what the token table and the control points say    *)
(* about the calls, which Inv spells out.                                  *)
(***************************************************************************)

\* Where a mutation may have been let through, and where (with previews) it was.
DeedPoints == {"send", "await", "record", "store", "done", "crashed"}
ActingPoints == {"send", "await", "record", "store"}

\* A client presents only tokens that a preview returned.
TokenKnown ==
    \A r \in Requests : pc[r] # "new" /\ call[r].token # None => reply[call[r].token] = "preview"

\* A call answered with a preview is over and let nothing through.
PreviewAnswered ==
    \A r \in Requests : reply[r] = "preview" => pc[r] = "done" /\ deed[r] = "none"

\* A row tells the truth about the call that issued it, in the store of that call.
RowsFaithful ==
    \A s \in Stores : \A t \in tokens[s] :
        /\ pc[t.id] \in {"tell", "done", "crashed"}
        /\ s = Store(t.id)
        /\ t.tenant = call[t.id].tenant /\ t.tool = call[t.id].tool /\ t.payload = payload[t.id]

DeedPlaced ==
    \A r \in Requests :
        /\ deed[r] # "none" => pc[r] \in DeedPoints
        /\ pc[r] \in ActingPoints => deed[r] # "none"

\* The checks of verifyAndConsumeToken hold from the point they are made on.
Checked ==
    \A r \in Requests : pc[r] = "consume" \/ deed[r] # "none" =>
        call[r].token # None /\ SameOperation(call[r].token, r)

\* The row of a token that let a call through is gone from every store.
Spent ==
    \A r \in Requests : deed[r] # "none" =>
        \A s \in Stores : \A t \in tokens[s] : t.id # call[r].token

Inv == /\ TypeOK /\ TokenKnown /\ PreviewAnswered /\ RowsFaithful
       /\ DeedPlaced /\ Checked /\ Spent /\ SingleUse

\* A step of call r that lets nothing through and issues no token.
Quiet(r) ==
    /\ UNCHANGED <<call, payload, deed>>
    /\ \A s \in Stores : tokens'[s] \subseteq tokens[s]
    /\ pc[r] \notin {"new", "done", "crashed"}
    /\ \A q \in Requests \ {r} : pc'[q] = pc[q] /\ reply'[q] = reply[q]
    /\ reply'[r] = "preview" => reply[r] = "preview" \/ (pc'[r] = "done" /\ deed[r] = "none")
    /\ pc[r] = "tell" => pc'[r] = "done"
    /\ deed[r] # "none" => pc'[r] \in DeedPoints
    /\ pc'[r] \in ActingPoints => deed[r] # "none"
    /\ pc'[r] = "consume" => call[r].token # None /\ SameOperation(call[r].token, r)

LEMMA QuietStep ==
    ASSUME Inv, TypeOK', NEW r \in Requests, Quiet(r)
    PROVE  Inv'
<1>1. \A q \in Requests : pc'[q] # "new" => pc[q] # "new"
  BY DEF Quiet
<1>2. \A q \in Requests : pc[q] = "done" => pc'[q] = "done" /\ reply'[q] = reply[q]
  BY DEF Quiet
<1>3. \A q \in Requests : call[q].token # None /\ pc[q] # "new" => call[q].token \in Requests
  BY DEF Inv, TypeOK, Call
<1>4. TokenKnown'
  BY <1>1, <1>2, <1>3 DEF Quiet, Inv, TokenKnown, PreviewAnswered
<1>5. PreviewAnswered'
  BY <1>2 DEF Quiet, Inv, PreviewAnswered
<1>6. RowsFaithful'
  <2> SUFFICES ASSUME NEW s \in Stores, NEW t \in tokens'[s]
               PROVE  /\ pc'[t.id] \in {"tell", "done", "crashed"}
                      /\ s = Store(t.id)'
                      /\ t.tenant = call'[t.id].tenant /\ t.tool = call'[t.id].tool
                      /\ t.payload = payload'[t.id]
    BY DEF RowsFaithful
  <2>1. t \in tokens[s] /\ t.id \in Requests
    BY DEF Quiet, Inv, TypeOK, Token
  <2>2. Store(t.id)' = Store(t.id)
    BY DEF Quiet, Store
  <2>3. QED
    BY <2>1, <2>2 DEF Quiet, Inv, RowsFaithful
<1>7. DeedPlaced'
  BY DEF Quiet, Inv, DeedPlaced
<1>8. Checked'
  BY DEF Quiet, Inv, Checked, SameOperation
<1>9. Spent'
  BY DEF Quiet, Inv, Spent
<1>10. SingleUse'
  BY DEF Quiet, Inv, SingleUse
<1>11. QED
  BY <1>4, <1>5, <1>6, <1>7, <1>8, <1>9, <1>10 DEF Inv

\* An answer at the end of a call is quiet.
LEMMA QuietConclude ==
    ASSUME Inv, NEW r \in Requests, pc[r] \notin {"new", "done", "crashed"},
           NEW stage, NEW answer, NEW unwritten, NEW by,
           Conclude(r, stage, answer, unwritten, by),
           answer = "preview" => deed[r] = "none", unwritten # "preview",
           UNCHANGED <<call, payload, deed>>,
           \A s \in Stores : tokens'[s] \subseteq tokens[s]
    PROVE  Quiet(r)
<1>1. pc'[r] = "done" /\ \A q \in Requests \ {r} : pc'[q] = pc[q]
  BY DEF Inv, TypeOK, Conclude, Goto
<1>2. reply'[r] \in {answer, unwritten} /\ \A q \in Requests \ {r} : reply'[q] = reply[q]
  BY DEF Inv, TypeOK, Conclude
<1>3. QED
  BY <1>1, <1>2 DEF Quiet, DeedPoints, ActingPoints

LEMMA QuietFail ==
    ASSUME Inv, NEW r \in Requests, pc[r] \notin {"new", "done", "crashed"},
           NEW stage, Fail(r, stage),
           UNCHANGED <<call, payload, deed>>,
           \A s \in Stores : tokens'[s] \subseteq tokens[s]
    PROVE  Quiet(r)
<1> DEFINE answer == IF stage \in {"failed", "unknown"} THEN stage ELSE "denied"
<1>1. answer # "preview" /\ "threw" # "preview" /\ Conclude(r, stage, answer, "threw", None)
  BY DEF Fail
<1> HIDE DEF answer
<1>2. QED
  BY <1>1, QuietConclude

LEMMA QuietReturn ==
    ASSUME Inv, NEW r \in Requests, pc[r] \notin {"new", "done", "crashed"},
           NEW stage, NEW answer, NEW by, Return(r, stage, answer, by),
           answer = "preview" => deed[r] = "none",
           UNCHANGED <<call, payload, deed>>,
           \A s \in Stores : tokens'[s] \subseteq tokens[s]
    PROVE  Quiet(r)
<1>1. Advice(FALSE) # "preview"
  BY DEF Advice
<1>2. QED
  BY <1>1, QuietConclude DEF Return

\* A call moves on between two points with nothing else of note.
LEMMA QuietGoto ==
    ASSUME Inv, NEW r \in Requests, pc[r] \notin {"new", "done", "crashed", "tell"},
           NEW point \in Points \ {"new"}, Goto(r, point), reply' = reply,
           deed[r] # "none" => point \in DeedPoints,
           point \in ActingPoints => deed[r] # "none",
           point = "consume" => call[r].token # None /\ SameOperation(call[r].token, r),
           UNCHANGED <<call, payload, deed>>,
           \A s \in Stores : tokens'[s] \subseteq tokens[s]
    PROVE  Quiet(r)
<1>1. pc'[r] = point /\ \A q \in Requests \ {r} : pc'[q] = pc[q]
  BY DEF Inv, TypeOK, Goto
<1>2. reply[r] # "preview"
  BY DEF Inv, PreviewAnswered
<1>3. QED
  BY <1>1, <1>2 DEF Quiet

LEMMA InvReceive ==
    ASSUME Inv, TypeOK', NEW r \in Requests, NEW c \in Call, Receive(r, c)
    PROVE  Inv'
<1>1. /\ pc[r] = "new" /\ call' = [call EXCEPT ![r] = c]
      /\ UNCHANGED <<tokens, payload, deed>>
      /\ c.token # None => reply[c.token] = "preview"
  BY DEF Receive, Relevant, stores
<1>2. /\ pc'[r] \in {"preview", "done"} /\ reply'[r] \notin {"preview"}
      /\ \A q \in Requests \ {r} : pc'[q] = pc[q] /\ reply'[q] = reply[q]
  <2>1. CASE Goto(r, "preview") /\ UNCHANGED answers
    BY <1>1, <2>1 DEF Inv, TypeOK, PreviewAnswered, Goto, answers
  <2>2. ASSUME NEW stage, NEW answer \in {"denied"}, NEW unwritten \in {"not_executed", "threw"},
               Conclude(r, stage, answer, unwritten, None)
        PROVE  /\ pc'[r] = "done" /\ reply'[r] # "preview"
               /\ \A q \in Requests \ {r} : pc'[q] = pc[q] /\ reply'[q] = reply[q]
    BY <2>2 DEF Inv, TypeOK, Conclude, Goto
  <2>3. CASE Return(r, "denied", "denied", None)
    BY <2>2, <2>3 DEF Return, Advice
  <2>4. CASE Fail(r, "denied")
    BY <2>2, <2>4 DEF Fail
  <2>5. QED
    BY <2>1, <2>3, <2>4 DEF Receive
<1>3. deed[r] = "none" /\ reply[r] # "preview"
  BY <1>1 DEF Inv, DeedPlaced, DeedPoints, PreviewAnswered
<1>4. \A q \in Requests : pc[q] # "new" => q # r
  BY <1>1
<1>5. \A q \in Requests \ {r} : call'[q] = call[q]
  BY <1>1 DEF Inv, TypeOK
<1>6. \A q \in Requests : pc[q] # "new" /\ call[q].token # None =>
          call[q].token \in Requests /\ call[q].token # r /\ call'[call[q].token] = call[call[q].token]
  BY <1>1, <1>3, <1>5 DEF Inv, TypeOK, Call, TokenKnown
<1>7. TokenKnown'
  <2> SUFFICES ASSUME NEW q \in Requests, pc'[q] # "new", call'[q].token # None
               PROVE  reply'[call'[q].token] = "preview"
    BY DEF TokenKnown
  <2>1. CASE q = r
    <3>1. call'[q] = c /\ c.token \in Requests /\ c.token # r
      BY <1>1, <1>3, <2>1 DEF Inv, TypeOK, Call
    <3>2. QED
      BY <1>1, <1>2, <2>1, <3>1
  <2>2. CASE q # r
    BY <1>2, <1>5, <1>6, <2>2 DEF Inv, TokenKnown
  <2>3. QED
    BY <2>1, <2>2
<1>8. PreviewAnswered'
  BY <1>1, <1>2 DEF Inv, PreviewAnswered
<1>9. RowsFaithful'
  <2> SUFFICES ASSUME NEW s \in Stores, NEW t \in tokens[s]
               PROVE  /\ pc'[t.id] \in {"tell", "done", "crashed"}
                      /\ s = Store(t.id)'
                      /\ t.tenant = call'[t.id].tenant /\ t.tool = call'[t.id].tool
                      /\ t.payload = payload'[t.id]
    BY <1>1 DEF RowsFaithful
  <2>1. t.id \in Requests /\ t.id # r
    BY <1>1 DEF Inv, TypeOK, Token, RowsFaithful
  <2>2. Store(t.id)' = Store(t.id)
    BY <1>5, <2>1 DEF Store
  <2>3. QED
    BY <1>1, <1>2, <1>5, <2>1, <2>2 DEF Inv, RowsFaithful
<1>10. DeedPlaced'
  BY <1>1, <1>2 DEF Inv, DeedPlaced, DeedPoints, ActingPoints
<1>11. Checked'
  <2> SUFFICES ASSUME NEW q \in Requests, pc'[q] = "consume" \/ deed'[q] # "none"
               PROVE  (call[q].token # None /\ SameOperation(call[q].token, q))'
    BY DEF Checked
  <2>1. q # r /\ pc[q] # "new" /\ (pc[q] = "consume" \/ deed[q] # "none")
    BY <1>1, <1>2, <1>3 DEF Inv, DeedPlaced, DeedPoints
  <2>2. QED
    BY <1>1, <1>5, <1>6, <2>1 DEF Inv, Checked, SameOperation
<1>12. Spent'
  BY <1>1, <1>3, <1>5 DEF Inv, Spent
<1>13. SingleUse'
  BY <1>1, <1>3, <1>5 DEF Inv, SingleUse
<1>14. QED
  BY <1>7, <1>8, <1>9, <1>10, <1>11, <1>12, <1>13 DEF Inv

LEMMA InvBuildPreview ==
    ASSUME RequirePreview, Inv, TypeOK', NEW r \in Requests, BuildPreview(r)
    PROVE  Inv'
<1>1. pc[r] = "preview" /\ UNCHANGED <<tokens, call, deed, reply>>
  BY DEF BuildPreview, At, stores, answers
<1>2. pc'[r] \in {"issue", "check", "verify"} /\ \A q \in Requests \ {r} : pc'[q] = pc[q]
  BY DEF BuildPreview, Goto, AfterKey, Inv, TypeOK
<1>3. \A q \in Requests \ {r} : payload'[q] = payload[q]
  BY DEF BuildPreview, Inv, TypeOK
<1>4. deed[r] = "none" /\ reply[r] # "preview"
  BY <1>1 DEF Inv, DeedPlaced, DeedPoints, PreviewAnswered
<1>5. \A q \in Requests : pc[q] # "new" /\ call[q].token # None =>
          call[q].token \in Requests /\ call[q].token # r
  BY <1>4 DEF Inv, TypeOK, Call, TokenKnown
<1>6. TokenKnown'
  BY <1>1, <1>2 DEF Inv, TokenKnown
<1>7. PreviewAnswered'
  BY <1>1, <1>2 DEF Inv, PreviewAnswered
<1>8. RowsFaithful'
  <2> SUFFICES ASSUME NEW s \in Stores, NEW t \in tokens[s]
               PROVE  /\ pc'[t.id] \in {"tell", "done", "crashed"}
                      /\ s = Store(t.id)'
                      /\ t.tenant = call'[t.id].tenant /\ t.tool = call'[t.id].tool
                      /\ t.payload = payload'[t.id]
    BY <1>1 DEF RowsFaithful
  <2>1. t.id \in Requests /\ t.id # r
    BY <1>1 DEF Inv, TypeOK, Token, RowsFaithful
  <2>2. Store(t.id)' = Store(t.id)
    BY <1>1 DEF Store
  <2>3. QED
    BY <1>1, <1>2, <1>3, <2>1, <2>2 DEF Inv, RowsFaithful
<1>9. DeedPlaced'
  BY <1>1, <1>2, <1>4 DEF Inv, DeedPlaced, DeedPoints, ActingPoints
<1>10. Checked'
  <2> SUFFICES ASSUME NEW q \in Requests, pc'[q] = "consume" \/ deed'[q] # "none"
               PROVE  (call[q].token # None /\ SameOperation(call[q].token, q))'
    BY DEF Checked
  <2>1. q # r /\ pc[q] # "new" /\ (pc[q] = "consume" \/ deed[q] # "none")
    BY <1>1, <1>2, <1>4 DEF Inv, DeedPlaced, DeedPoints
  <2>2. QED
    BY <1>1, <1>3, <1>5, <2>1 DEF Inv, Checked, SameOperation
<1>11. Spent' /\ SingleUse'
  BY <1>1 DEF Inv, Spent, SingleUse
<1>12. QED
  BY <1>6, <1>7, <1>8, <1>9, <1>10, <1>11 DEF Inv

LEMMA InvIssueToken ==
    ASSUME Inv, TypeOK', NEW r \in Requests, IssueToken(r)
    PROVE  Inv'
<1> DEFINE row == [id |-> r, tenant |-> call[r].tenant, tool |-> call[r].tool,
                   payload |-> payload[r], expiresAt |-> now + TTL]
<1>1. pc[r] = "issue" /\ UNCHANGED <<call, payload, deed, reply>>
  BY DEF IssueToken, At, answers
<1>2. pc'[r] = "tell" /\ \A q \in Requests \ {r} : pc'[q] = pc[q]
  BY DEF IssueToken, Goto, Inv, TypeOK
<1>3. \A s \in Stores : \A t \in tokens'[s] : t \in tokens[s] \/ (s = Store(r) /\ t = row)
  <2>1. tokens' = [tokens EXCEPT ![Store(r)] = @ \cup {row}]
    BY DEF IssueToken
  <2> HIDE DEF row
  <2>2. QED
    BY <2>1 DEF Inv, TypeOK
<1>4. deed[r] = "none" /\ reply[r] # "preview"
  BY <1>1 DEF Inv, DeedPlaced, DeedPoints, PreviewAnswered
<1>5. TokenKnown'
  BY <1>1, <1>2 DEF Inv, TokenKnown
<1>6. PreviewAnswered'
  BY <1>1, <1>2 DEF Inv, PreviewAnswered
<1>7. RowsFaithful'
  <2> SUFFICES ASSUME NEW s \in Stores, NEW t \in tokens'[s]
               PROVE  /\ pc'[t.id] \in {"tell", "done", "crashed"}
                      /\ s = Store(t.id)'
                      /\ t.tenant = call'[t.id].tenant /\ t.tool = call'[t.id].tool
                      /\ t.payload = payload'[t.id]
    BY DEF RowsFaithful
  <2>1. Store(t.id)' = Store(t.id)
    BY <1>1 DEF Store
  <2>2. CASE t \in tokens[s]
    <3>1. t.id \in Requests /\ t.id # r
      BY <1>1, <2>2 DEF Inv, TypeOK, Token, RowsFaithful
    <3>2. QED
      BY <1>1, <1>2, <2>1, <2>2, <3>1 DEF Inv, RowsFaithful
  <2>3. CASE s = Store(r) /\ t = row
    BY <1>1, <1>2, <2>1, <2>3
  <2>4. QED
    BY <1>3, <2>2, <2>3
<1>8. DeedPlaced'
  BY <1>1, <1>2, <1>4 DEF Inv, DeedPlaced, DeedPoints, ActingPoints
<1>9. Checked'
  BY <1>1, <1>2 DEF Inv, Checked, SameOperation
<1>10. Spent'
  <2> SUFFICES ASSUME NEW q \in Requests, deed[q] # "none", NEW s \in Stores, NEW t \in tokens'[s]
               PROVE  t.id # call[q].token
    BY <1>1 DEF Spent
  <2>1. reply[call[q].token] = "preview"
    BY DEF Inv, DeedPlaced, DeedPoints, Checked, TokenKnown
  <2>2. QED
    BY <1>3, <1>4, <2>1 DEF Inv, Spent
<1>11. SingleUse'
  BY <1>1 DEF Inv, SingleUse
<1>12. QED
  BY <1>5, <1>6, <1>7, <1>8, <1>9, <1>10, <1>11 DEF Inv

\* The rows of a token that call r may use are in its own store, as rows of its tenant.
LEMMA OwnRows ==
    ASSUME Inv, NEW r \in Requests, pc[r] = "consume", Wins(r)
    PROVE  \A s \in Stores : \A t \in tokens[s] :
               t.id = call[r].token => s = Store(r) /\ t \in PresentedTokens(r)
<1>1. call[r].token # None /\ SameOperation(call[r].token, r)
  BY DEF Inv, Checked
<1>2. PICK t0 \in tokens[Store(r)] : t0.id = call[r].token
  BY DEF Wins, PresentedTokens
<1>3. Store(r) \in Stores
  BY StoreType DEF Inv
<1>4. Store(r) = Store(call[r].token)
  BY <1>2, <1>3 DEF Inv, RowsFaithful
<1>5. QED
  BY <1>1, <1>4 DEF Inv, RowsFaithful, PresentedTokens, SameOperation

LEMMA InvConsumeToken ==
    ASSUME Inv, TypeOK', NEW r \in Requests, ConsumeToken(r)
    PROVE  Inv'
<1>1. pc[r] = "consume" /\ UNCHANGED <<call, payload>>
  BY DEF ConsumeToken, At
<1>2. CASE Fail(r, "denied") /\ UNCHANGED <<tokens, deed>>
  BY <1>1, <1>2, QuietFail, QuietStep
<1>3. CASE /\ Wins(r)
           /\ tokens' = [tokens EXCEPT ![Store(r)] = @ \ PresentedTokens(r)]
           /\ deed' = [deed EXCEPT ![r] = "authorised"]
           /\ Goto(r, "send")
           /\ UNCHANGED answers
  <2>1. reply' = reply /\ pc'[r] = "send" /\ \A q \in Requests \ {r} : pc'[q] = pc[q]
    BY <1>3 DEF answers, Goto, Inv, TypeOK
  <2>2. deed'[r] = "authorised" /\ deed[r] = "none" /\ \A q \in Requests \ {r} : deed'[q] = deed[q]
    BY <1>1, <1>3 DEF Inv, TypeOK, DeedPlaced, DeedPoints
  <2>3. \A s \in Stores : tokens'[s] \subseteq tokens[s]
    BY <1>3 DEF Inv, TypeOK
  <2>4. \A s \in Stores : \A t \in tokens'[s] : t.id # call[r].token
    BY <1>1, <1>3, OwnRows DEF Inv, TypeOK
  <2>5. call[r].token # None /\ SameOperation(call[r].token, r) /\ reply[call[r].token] = "preview"
    BY <1>1 DEF Inv, Checked, TokenKnown
  <2>6. TokenKnown'
    BY <1>1, <2>1 DEF Inv, TokenKnown
  <2>7. PreviewAnswered'
    BY <1>1, <2>1, <2>2 DEF Inv, PreviewAnswered
  <2>8. RowsFaithful'
    <3> SUFFICES ASSUME NEW s \in Stores, NEW t \in tokens'[s]
                 PROVE  /\ pc'[t.id] \in {"tell", "done", "crashed"}
                        /\ s = Store(t.id)'
                        /\ t.tenant = call'[t.id].tenant /\ t.tool = call'[t.id].tool
                        /\ t.payload = payload'[t.id]
      BY DEF RowsFaithful
    <3>1. t \in tokens[s] /\ t.id \in Requests
      BY <2>3 DEF Inv, TypeOK, Token
    <3>2. Store(t.id)' = Store(t.id)
      BY <1>1 DEF Store
    <3>3. QED
      BY <1>1, <2>1, <3>1, <3>2 DEF Inv, RowsFaithful
  <2>9. DeedPlaced'
    BY <2>1, <2>2 DEF Inv, DeedPlaced, DeedPoints, ActingPoints
  <2>10. Checked'
    BY <1>1, <2>1, <2>2, <2>5 DEF Inv, Checked, SameOperation
  <2>11. Spent'
    BY <1>1, <2>2, <2>3, <2>4 DEF Inv, Spent
  <2>12. SingleUse'
    <3>1. PICK t \in tokens[Store(r)] : t.id = call[r].token
      BY <1>3 DEF Wins, PresentedTokens
    <3>2. \A q \in Requests : deed[q] # "none" => call[q].token # call[r].token
      BY <1>1, <3>1, StoreType DEF Inv, Spent
    <3>3. QED
      BY <1>1, <2>2, <3>2 DEF Inv, SingleUse
  <2>13. QED
    BY <2>6, <2>7, <2>8, <2>9, <2>10, <2>11, <2>12 DEF Inv
<1>4. QED
  BY <1>2, <1>3 DEF ConsumeToken

LEMMA InvSend ==
    ASSUME Inv, TypeOK', NEW r \in Requests, Send(r)
    PROVE  Inv'
<1>1. pc[r] = "send" /\ UNCHANGED <<tokens, call, payload, reply>>
  BY DEF Send, At, stores, answers
<1>2. pc'[r] = "await" /\ \A q \in Requests \ {r} : pc'[q] = pc[q]
  BY DEF Send, Goto, Inv, TypeOK
<1>3. \A q \in Requests : deed'[q] # "none" <=> deed[q] # "none"
  BY <1>1 DEF Send, Inv, TypeOK, DeedPlaced, ActingPoints
<1>4. TokenKnown'
  BY <1>1, <1>2 DEF Inv, TokenKnown
<1>5. PreviewAnswered'
  BY <1>1, <1>2, <1>3 DEF Inv, PreviewAnswered, TypeOK
<1>6. RowsFaithful'
  <2>1. \A q : Store(q)' = Store(q)
    BY <1>1 DEF Store
  <2>2. \A s \in Stores : \A t \in tokens[s] : t.id \in Requests /\ t.id # r
    BY <1>1 DEF Inv, TypeOK, Token, RowsFaithful
  <2>3. QED
    BY <1>1, <1>2, <2>1, <2>2 DEF Inv, RowsFaithful
<1>7. DeedPlaced'
  BY <1>1, <1>2, <1>3 DEF Inv, DeedPlaced, DeedPoints, ActingPoints
<1>8. Checked'
  BY <1>1, <1>2, <1>3 DEF Inv, Checked, SameOperation
<1>9. Spent' /\ SingleUse'
  BY <1>1, <1>3 DEF Inv, Spent, SingleUse
<1>10. QED
  BY <1>4, <1>5, <1>6, <1>7, <1>8, <1>9 DEF Inv

LEMMA InvVerifyToken ==
    ASSUME Inv, TypeOK', NEW r \in Requests, VerifyToken(r)
    PROVE  Inv'
<1>1. pc[r] = "verify" /\ UNCHANGED <<call, payload, deed>> /\ deed[r] = "none"
  BY DEF VerifyToken, At, Inv, DeedPlaced, DeedPoints
<1>2. \A s \in Stores : tokens'[s] \subseteq tokens[s]
  BY DEF VerifyToken, Inv, TypeOK
<1>3. CASE Return(r, "denied", "denied", None)
  BY <1>1, <1>2, <1>3, QuietReturn, QuietStep
<1>4. CASE Fail(r, "denied")
  BY <1>1, <1>2, <1>4, QuietFail, QuietStep
<1>5. ASSUME NEW t \in PresentedTokens(r), Bound(t, r), Goto(r, "consume"), UNCHANGED answers
      PROVE  Inv'
  <2>1. Store(r) \in Stores /\ t \in tokens[Store(r)] /\ t.id = call[r].token /\ t.id \in Requests
    BY <1>1, <1>5, StoreType DEF PresentedTokens, Inv, TypeOK, Token
  <2>2. call[r].token # None
    BY <2>1, ConstantsAssumption
  <2>3. SameOperation(call[r].token, r)
    BY <1>5, <2>1 DEF PresentedTokens, Bound, SameOperation, Inv, RowsFaithful
  <2>4. "consume" \in Points \ {"new"} /\ "consume" \notin ActingPoints /\ reply' = reply
    BY <1>5 DEF Points, SyncPoints, ActingPoints, answers
  <2>5. Quiet(r)
    BY <1>1, <1>2, <1>5, <2>2, <2>3, <2>4, QuietGoto
  <2>6. QED
    BY <2>5, QuietStep
<1>6. QED
  BY <1>3, <1>4, <1>5 DEF VerifyToken

\* The steps of a call that are quiet.
LEMMA InvQuiet ==
    ASSUME RequirePreview, Inv, TypeOK', NEW r \in Requests,
           \/ RefusePreview(r) \/ AnswerPreview(r) \/ CheckKey(r) \/ DropKey(r)
           \/ Succeed(r) \/ ExecuteThrows(r) \/ RecordExecution(r) \/ StoreResult(r)
           \/ StoreThrows(r)
    PROVE  Inv'
<1>1. /\ UNCHANGED <<tokens, call, payload, deed>>
      /\ \A s \in Stores : tokens'[s] \subseteq tokens[s]
  BY DEF RefusePreview, AnswerPreview, CheckKey, DropKey, Succeed, ExecuteThrows,
         RecordExecution, StoreResult, StoreThrows, stores
<1>2. pc[r] \in {"preview", "issue", "tell", "check", "drop", "verify", "consume",
                "await", "record", "store"}
  BY DEF RefusePreview, AnswerPreview, CheckKey, DropKey, Succeed, ExecuteThrows,
         RecordExecution, StoreResult, StoreThrows, At
<1>3. pc[r] \in {"preview", "tell", "check", "drop"} => deed[r] = "none"
  BY DEF Inv, DeedPlaced, DeedPoints
<1>4. pc[r] \in {"await", "record", "store"} => deed[r] # "none"
  BY DEF Inv, DeedPlaced, ActingPoints
<1>5. ASSUME NEW stage, Fail(r, stage) PROVE Inv'
  BY <1>1, <1>2, <1>5, QuietFail, QuietStep
<1>6. ASSUME NEW stage, NEW answer, NEW by, Return(r, stage, answer, by),
             answer = "preview" => deed[r] = "none"
      PROVE  Inv'
  BY <1>1, <1>2, <1>6, QuietReturn, QuietStep
<1>7. ASSUME NEW point \in {"verify", "drop", "record", "store", "done"},
             Goto(r, point), reply' = reply, pc[r] # "tell",
             point \in {"verify", "drop"} => deed[r] = "none",
             point \in {"record", "store"} => deed[r] # "none"
      PROVE  Inv'
  <2>1. point \in Points \ {"new"} /\ point # "consume"
        /\ (deed[r] # "none" => point \in DeedPoints)
        /\ (point \in ActingPoints => deed[r] # "none")
    BY <1>7 DEF Points, SyncPoints, DeedPoints, ActingPoints
  <2>2. Quiet(r)
    BY <1>1, <1>2, <1>7, <2>1, QuietGoto
  <2>3. QED
    BY <2>2, QuietStep
<1>8. CASE RefusePreview(r)
  BY <1>5, <1>8 DEF RefusePreview
<1>9. CASE AnswerPreview(r)
  BY <1>3, <1>6, <1>9 DEF AnswerPreview, At
<1>10. CASE CheckKey(r)
  <2>1. deed[r] = "none" /\ pc[r] = "check" /\ AfterKey = "verify"
    BY <1>3, <1>10 DEF CheckKey, At, AfterKey
  <2>2. CASE Goto(r, "verify") /\ UNCHANGED answers
    BY <1>7, <2>1, <2>2 DEF answers
  <2>3. CASE Goto(r, "drop") /\ UNCHANGED answers
    BY <1>7, <2>1, <2>3 DEF answers
  <2>4. CASE Fail(r, "denied")
    BY <1>5, <2>4
  <2>5. ASSUME NEW k, Return(r, "replay", "replayed", k.by) PROVE Inv'
    BY <1>6, <2>5
  <2>6. QED
    BY <1>10, <2>1, <2>2, <2>3, <2>4, <2>5 DEF CheckKey
<1>11. CASE DropKey(r)
  BY <1>3, <1>7, <1>11 DEF DropKey, At, AfterKey, answers
<1>12. CASE Succeed(r)
  BY <1>4, <1>7, <1>12 DEF Succeed, At, answers
<1>13. CASE ExecuteThrows(r)
  BY <1>5, <1>13 DEF ExecuteThrows
<1>14. CASE RecordExecution(r)
  <2>1. deed[r] # "none" /\ pc[r] = "record"
    BY <1>4, <1>14 DEF RecordExecution, At
  <2>2. CASE Conclude(r, "executed", "success", Advice(TRUE), r)
    <3>1. Advice(TRUE) # "preview"
      BY DEF Advice
    <3>2. Quiet(r)
      BY <1>1, <2>1, <2>2, <3>1, QuietConclude
    <3>3. QED
      BY <3>2, QuietStep
  <2>3. CASE Goto(r, "store") /\ reply' = reply
    BY <1>7, <2>1, <2>3
  <2>4. CASE Goto(r, "done") /\ reply' = [reply EXCEPT ![r] = Advice(TRUE)]
    <3>1. Advice(TRUE) # "preview"
      BY DEF Advice
    <3>2. reply'[r] # "preview" /\ \A q \in Requests \ {r} : reply'[q] = reply[q]
      BY <2>4, <3>1 DEF Inv, TypeOK
    <3>3. pc'[r] = "done" /\ \A q \in Requests \ {r} : pc'[q] = pc[q]
      BY <2>4 DEF Goto, Inv, TypeOK
    <3>4. Quiet(r)
      BY <1>1, <2>1, <3>2, <3>3 DEF Quiet, DeedPoints, ActingPoints
    <3>5. QED
      BY <3>4, QuietStep
  <2>5. QED
    BY <1>14, <2>2, <2>3, <2>4 DEF RecordExecution, answers
<1>15. CASE StoreResult(r)
  <2>1. pc[r] = "store"
    BY <1>15 DEF StoreResult, At
  <2>2. CASE Goto(r, "done") /\ reply' = [reply EXCEPT ![r] = "success"]
    <3>1. reply'[r] # "preview" /\ \A q \in Requests \ {r} : reply'[q] = reply[q]
      BY <2>2 DEF Inv, TypeOK
    <3>2. pc'[r] = "done" /\ \A q \in Requests \ {r} : pc'[q] = pc[q]
      BY <2>2 DEF Goto, Inv, TypeOK
    <3>3. Quiet(r)
      BY <1>1, <2>1, <3>1, <3>2 DEF Quiet, DeedPoints, ActingPoints
    <3>4. QED
      BY <3>3, QuietStep
  <2>3. QED
    BY <1>5, <1>15, <2>2 DEF StoreResult
<1>16. CASE StoreThrows(r)
  BY <1>5, <1>16 DEF StoreThrows
<1>17. QED
  BY <1>8, <1>9, <1>10, <1>11, <1>12, <1>13, <1>14, <1>15, <1>16

\* Restarts and clean-up take rows away and stop calls.
LEMMA InvEnvironment ==
    ASSUME Inv, TypeOK', UNCHANGED <<call, payload, deed, reply>>,
           \A s \in Stores : tokens'[s] \subseteq tokens[s],
           \A q \in Requests : pc'[q] = pc[q] \/ (pc[q] \notin {"new", "done"} /\ pc'[q] = "crashed")
    PROVE  Inv'
<1>1. TokenKnown'
  BY DEF Inv, TokenKnown
<1>2. PreviewAnswered'
  BY DEF Inv, PreviewAnswered
<1>3. RowsFaithful'
  <2> SUFFICES ASSUME NEW s \in Stores, NEW t \in tokens'[s]
               PROVE  /\ pc'[t.id] \in {"tell", "done", "crashed"}
                      /\ s = Store(t.id)'
                      /\ t.tenant = call'[t.id].tenant /\ t.tool = call'[t.id].tool
                      /\ t.payload = payload'[t.id]
    BY DEF RowsFaithful
  <2>1. t \in tokens[s] /\ t.id \in Requests
    BY DEF Inv, TypeOK, Token
  <2>2. Store(t.id)' = Store(t.id)
    BY DEF Store
  <2>3. QED
    BY <2>1, <2>2 DEF Inv, RowsFaithful
<1>4. DeedPlaced'
  BY DEF Inv, DeedPlaced, DeedPoints, ActingPoints
<1>5. Checked'
  BY DEF Inv, Checked, SameOperation
<1>6. Spent' /\ SingleUse'
  BY DEF Inv, Spent, SingleUse
<1>7. QED
  BY <1>1, <1>2, <1>3, <1>4, <1>5, <1>6 DEF Inv

LEMMA InvInit == Init => Inv
<1> SUFFICES ASSUME Init PROVE Inv
  OBVIOUS
<1>1. TypeOK
  BY ConstantsAssumption DEF Init, TypeOK, Points, Replies
<1>2. QED
  BY <1>1 DEF Init, Inv, TokenKnown, PreviewAnswered, RowsFaithful, DeedPlaced, ActingPoints,
              Checked, Spent, SingleUse

LEMMA InvStep ==
    ASSUME RequirePreview, Inv, [Next]_vars
    PROVE  Inv'
<1>1. TypeOK'
  BY TypeStep DEF Inv
<1>2. ASSUME NEW r \in Requests, NEW c \in Call, Receive(r, c) PROVE Inv'
  BY <1>1, <1>2, InvReceive
<1>3. ASSUME NEW r \in Requests, Serve(r) PROVE Inv'
  BY <1>1, <1>3, InvBuildPreview, InvIssueToken, InvVerifyToken, InvConsumeToken, InvSend,
     InvQuiet DEF Serve
<1>4. ASSUME NEW p \in Processes, Restart(p) PROVE Inv'
  <2>1. \A s \in Stores : tokens'[s] \subseteq tokens[s]
    BY <1>4 DEF Restart, Live, Inv, TypeOK
  <2>2. \A q \in Requests : pc'[q] = pc[q] \/ (pc[q] \notin {"new", "done"} /\ pc'[q] = "crashed")
    BY <1>4 DEF Restart
  <2>3. QED
    BY <1>1, <1>4, <2>1, <2>2, InvEnvironment DEF Restart, answers
<1>5. ASSUME NEW s \in Stores, Purge(s) PROVE Inv'
  <2>1. \A q \in Stores : tokens'[q] \subseteq tokens[q]
    BY <1>5 DEF Purge, Live, Inv, TypeOK
  <2>2. QED
    BY <1>1, <1>5, <2>1, InvEnvironment DEF Purge, answers
<1>6. CASE Tick
  BY <1>1, <1>6, InvEnvironment DEF Tick, stores, answers
<1>7. CASE UNCHANGED vars
  BY <1>1, <1>7, InvEnvironment DEF vars
<1>8. QED
  BY <1>2, <1>3, <1>4, <1>5, <1>6, <1>7 DEF Next

\* With previews required, a mutation was let through only with a token of a preview of
\* exactly that operation, by the same tenant.
THEOREM ApprovedAsPreviewed ==
    ASSUME RequirePreview
    PROVE  Spec => []ActsAsPreviewed
<1>1. Inv => ActsAsPreviewed
  BY DEF Inv, ActsAsPreviewed, Checked, TokenKnown, PreviewAnswered, DeedPlaced, DeedPoints, TypeOK, Call
<1>2. QED
  BY <1>1, InvInit, InvStep, PTL DEF Spec

\* No token lets two calls through, however many processes share the store.
THEOREM TokenSingleUse ==
    ASSUME RequirePreview
    PROVE  Spec => []SingleUse
<1>1. Inv => SingleUse
  BY DEF Inv
<1>2. QED
  BY <1>1, InvInit, InvStep, PTL DEF Spec
-----------------------------------------------------------------------------
(***************************************************************************)
(* MutationPipeline implements Approval: a row of the token table is an    *)
(* offer, and consuming the row is the deed that uses the offer up.        *)
(***************************************************************************)

\* Rows come and go while every deed stays: at most some offers lapse.
LEMMA LapseStep ==
    ASSUME Inv, UNCHANGED Performed, \A s \in Stores : tokens'[s] \subseteq tokens[s]
    PROVE  [Approvals!Next]_(Approvals!vars)
<1>1. Offered' \subseteq Offered
  BY DEF Offered
<1>2. Approvals!Lapse(Offered \ Offered')
  BY <1>1 DEF Approvals!Lapse
<1>3. QED
  BY <1>2 DEF Approvals!Next

\* Deeds do not change when the calls that did them do not.
LEMMA SamePerformed ==
    ASSUME Inv,
           \A q \in Requests : deed'[q] # "none" <=> deed[q] # "none",
           \A q \in Requests : deed[q] # "none" => call'[q] = call[q] /\ payload'[q] = payload[q]
    PROVE  UNCHANGED Performed
<1>1. \A q \in Requests : deed[q] # "none" => DeedOf(q)' = DeedOf(q)
  BY DEF DeedOf
<1>2. QED
  BY <1>1 DEF Performed

LEMMA IssueStep ==
    ASSUME Inv, NEW r \in Requests, IssueToken(r)
    PROVE  [Approvals!Next]_(Approvals!vars)
<1> DEFINE row == [id |-> r, tenant |-> call[r].tenant, tool |-> call[r].tool,
                   payload |-> payload[r], expiresAt |-> now + TTL]
           offer == [id |-> r, op |-> [tenant |-> call[r].tenant, tool |-> call[r].tool,
                                       payload |-> payload[r]]]
<1>1. pc[r] = "issue" /\ UNCHANGED <<call, payload, deed>>
  BY DEF IssueToken, At
<1>2. Store(r) \in Stores /\ call[r] \in Call /\ payload[r] \in Payloads
  BY <1>1, StoreType DEF Inv, TypeOK
<1>3. tokens' = [tokens EXCEPT ![Store(r)] = @ \cup {row}]
  BY DEF IssueToken
<1>4. OfferOf(row) = offer
  BY DEF OfferOf
<1>5. offer \in Approvals!Offer /\ offer.id = r
  BY <1>2 DEF Approvals!Offer, Operation, Call
<1> HIDE DEF row, offer
<1>6. Offered' = Offered \cup {offer}
  <2>1. UNION {tokens'[s] : s \in Stores} = (UNION {tokens[s] : s \in Stores}) \cup {row}
    BY <1>2, <1>3 DEF Inv, TypeOK
  <2>2. QED
    BY <1>4, <2>1 DEF Offered
<1>7. UNCHANGED Performed
  BY <1>1, SamePerformed
<1>8. \A p \in Offered : p.id # r
  BY <1>1 DEF Offered, OfferOf, Inv, RowsFaithful
<1>9. \A d \in Performed : d.offer.id # r
  <2>1. \A q \in Requests : deed[q] # "none" => call[q].token # r
    BY <1>1 DEF Inv, DeedPlaced, DeedPoints, Checked, TokenKnown, PreviewAnswered
  <2>2. QED
    BY <2>1 DEF Performed, DeedOf
<1>10. Approvals!Preview(offer)
  BY <1>5, <1>6, <1>7, <1>8, <1>9 DEF Approvals!Preview
<1>11. QED
  BY <1>5, <1>10 DEF Approvals!Next

LEMMA ConsumeStep ==
    ASSUME Inv, NEW r \in Requests, ConsumeToken(r)
    PROVE  [Approvals!Next]_(Approvals!vars)
<1> DEFINE offer == [id |-> call[r].token,
                     op |-> [tenant |-> call[r].tenant, tool |-> call[r].tool,
                             payload |-> payload[r]]]
<1>1. pc[r] = "consume" /\ UNCHANGED <<call, payload>> /\ deed[r] = "none"
  BY DEF ConsumeToken, At, Inv, DeedPlaced, DeedPoints
<1>2. CASE UNCHANGED <<tokens, deed>>
  BY <1>1, <1>2, SamePerformed, LapseStep
<1>3. CASE /\ Wins(r)
           /\ tokens' = [tokens EXCEPT ![Store(r)] = @ \ PresentedTokens(r)]
           /\ deed' = [deed EXCEPT ![r] = "authorised"]
  <2>1. Store(r) \in Stores
    BY <1>1, StoreType DEF Inv
  <2>2. call[r].token # None /\ SameOperation(call[r].token, r)
    BY <1>1 DEF Inv, Checked
  <2>3. \A s \in Stores : \A t \in tokens[s] : t.id = call[r].token => OfferOf(t) = offer
    BY <2>2 DEF OfferOf, SameOperation, Inv, RowsFaithful
  <2>4. \A s \in Stores : \A t \in tokens'[s] : t \in tokens[s] /\ t.id # call[r].token
    BY <1>1, <1>3, OwnRows DEF Inv, TypeOK
  <2>5. \A s \in Stores : \A t \in tokens[s] : t.id # call[r].token => t \in tokens'[s]
    BY <1>3 DEF Inv, TypeOK, PresentedTokens
  <2>6. PICK t0 \in tokens[Store(r)] : t0.id = call[r].token
    BY <1>3 DEF Wins, PresentedTokens
  <2>7. offer \in Offered
    BY <2>1, <2>3, <2>6 DEF Offered
  <2>8. offer.id = call[r].token /\ \A t : OfferOf(t).id = t.id
    BY DEF OfferOf
  <2>9. DeedOf(r)' = [by |-> r, offer |-> offer]
    BY <1>1 DEF DeedOf
  <2> HIDE DEF offer
  <2>10. Offered' = Offered \ {offer}
    <3>1. ASSUME NEW o \in Offered' PROVE o \in Offered \ {offer}
      <4>1. PICK s \in Stores : \E t \in tokens'[s] : o = OfferOf(t)
        BY DEF Offered, OfferOf
      <4>2. PICK t \in tokens'[s] : o = OfferOf(t)
        BY <4>1
      <4>3. QED
        BY <2>4, <2>8, <4>2 DEF Offered
    <3>2. ASSUME NEW o \in Offered, o # offer PROVE o \in Offered'
      <4>1. PICK s \in Stores : \E t \in tokens[s] : o = OfferOf(t)
        BY DEF Offered
      <4>2. PICK t \in tokens[s] : o = OfferOf(t)
        BY <4>1
      <4>3. t \in tokens'[s]
        BY <2>3, <2>5, <3>2, <4>2
      <4>4. QED
        BY <4>2, <4>3 DEF Offered, OfferOf
    <3>3. QED
      BY <3>1, <3>2
  <2>11. Performed' = Performed \cup {[by |-> r, offer |-> offer]}
    <3>1. \A q \in Requests : DeedOf(q)' = DeedOf(q)
      BY <1>1 DEF DeedOf
    <3>2. \A q \in Requests : deed'[q] # "none" <=> deed[q] # "none" \/ q = r
      BY <1>3 DEF Inv, TypeOK
    <3>3. QED
      BY <2>9, <3>1, <3>2 DEF Performed
  <2>12. \A d \in Performed : d.by # r
    BY <1>1 DEF Performed, DeedOf
  <2>13. Approvals!Perform(r, offer)
    BY <2>7, <2>10, <2>11, <2>12 DEF Approvals!Perform
  <2>14. QED
    BY <2>7, <2>13 DEF Approvals!Next
<1>4. QED
  BY <1>2, <1>3 DEF ConsumeToken

LEMMA RefinementStep ==
    ASSUME RequirePreview, Inv, [Next]_vars
    PROVE  [Approvals!Next]_(Approvals!vars)
<1>1. ASSUME NEW r \in Requests, NEW c \in Call, Receive(r, c)
      PROVE  [Approvals!Next]_(Approvals!vars)
  <2>1. pc[r] = "new" /\ UNCHANGED <<tokens, payload, deed>> /\ call' = [call EXCEPT ![r] = c]
    BY <1>1 DEF Receive, stores
  <2>2. UNCHANGED Performed
    BY <2>1, SamePerformed DEF Inv, TypeOK, DeedPlaced, DeedPoints
  <2>3. QED
    BY <2>1, <2>2, LapseStep
<1>2. ASSUME NEW r \in Requests, BuildPreview(r)
      PROVE  [Approvals!Next]_(Approvals!vars)
  <2>1. pc[r] = "preview" /\ UNCHANGED <<tokens, call, deed>>
        /\ \A q \in Requests \ {r} : payload'[q] = payload[q]
    BY <1>2 DEF BuildPreview, At, stores, Inv, TypeOK
  <2>2. UNCHANGED Performed
    BY <2>1, SamePerformed DEF Inv, DeedPlaced, DeedPoints
  <2>3. QED
    BY <2>1, <2>2, LapseStep
<1>3. ASSUME NEW r \in Requests, Send(r)
      PROVE  [Approvals!Next]_(Approvals!vars)
  <2>1. pc[r] = "send" /\ UNCHANGED <<tokens, call, payload>>
    BY <1>3 DEF Send, At, stores
  <2>2. \A q \in Requests : deed'[q] # "none" <=> deed[q] # "none"
    BY <1>3, <2>1 DEF Send, Inv, TypeOK, DeedPlaced, ActingPoints
  <2>3. UNCHANGED Performed
    BY <2>1, <2>2, SamePerformed
  <2>4. QED
    BY <2>1, <2>3, LapseStep
<1>4. ASSUME UNCHANGED <<call, payload, deed>>, \A s \in Stores : tokens'[s] \subseteq tokens[s]
      PROVE  [Approvals!Next]_(Approvals!vars)
  BY <1>4, SamePerformed, LapseStep
<1>5. ASSUME NEW r \in Requests,
             \/ RefusePreview(r) \/ AnswerPreview(r) \/ CheckKey(r) \/ DropKey(r) \/ VerifyToken(r)
             \/ Succeed(r) \/ ExecuteThrows(r) \/ RecordExecution(r) \/ StoreResult(r)
             \/ StoreThrows(r)
      PROVE  [Approvals!Next]_(Approvals!vars)
  <2>1. UNCHANGED <<call, payload, deed>>
    BY <1>5 DEF RefusePreview, AnswerPreview, CheckKey, DropKey, VerifyToken, Succeed,
                ExecuteThrows, RecordExecution, StoreResult, StoreThrows
  <2>2. \A s \in Stores : tokens'[s] \subseteq tokens[s]
    BY <1>5 DEF RefusePreview, AnswerPreview, CheckKey, DropKey, VerifyToken, Succeed,
                ExecuteThrows, RecordExecution, StoreResult, StoreThrows, stores, Inv, TypeOK
  <2>3. QED
    BY <1>4, <2>1, <2>2
<1>6. ASSUME NEW p \in Processes, Restart(p)
      PROVE  [Approvals!Next]_(Approvals!vars)
  <2>1. \A s \in Stores : tokens'[s] \subseteq tokens[s]
    BY <1>6 DEF Restart, Live, Inv, TypeOK
  <2>2. QED
    BY <1>4, <1>6, <2>1 DEF Restart
<1>7. ASSUME NEW s \in Stores, Purge(s)
      PROVE  [Approvals!Next]_(Approvals!vars)
  <2>1. \A q \in Stores : tokens'[q] \subseteq tokens[q]
    BY <1>7 DEF Purge, Live, Inv, TypeOK
  <2>2. QED
    BY <1>4, <1>7, <2>1 DEF Purge
<1>8. CASE Tick \/ UNCHANGED vars
  BY <1>4, <1>8 DEF Tick, vars, stores
<1>9. QED
  BY <1>1, <1>2, <1>3, <1>5, <1>6, <1>7, <1>8, IssueStep, ConsumeStep DEF Next, Serve

\* With previews required the pipeline implements Approval: every mutation uses up one
\* offer, which an earlier preview made for exactly that operation.
THEOREM PipelineImplementsApproval ==
    ASSUME RequirePreview
    PROVE  Spec => ImplementsApproval
<1>1. Init => Approvals!Init
  BY DEF Init, Approvals!Init, Offered, Performed
<1>2. Inv /\ [Next]_vars => [Approvals!Next]_(Approvals!vars)
  BY RefinementStep
<1>3. QED
  BY <1>1, <1>2, InvInit, InvStep, PTL DEF Spec, ImplementsApproval, Approvals!Spec
=============================================================================
