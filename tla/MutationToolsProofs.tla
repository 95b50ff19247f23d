------------------------- MODULE MutationToolsProofs -------------------------
(***************************************************************************)
(* What the mutating tools send, for any number of calls and of changes at *)
(* Autodesk meanwhile.                                                     *)
(***************************************************************************)
EXTENDS MutationTools, TLAPS

-----------------------------------------------------------------------------
(***************************************************************************)
(* Records that are put together.                                          *)
(***************************************************************************)
LEMMA Merged ==
    ASSUME NEW f, NEW g
    PROVE  /\ DOMAIN With(f, g) = DOMAIN f \cup DOMAIN g
           /\ \A x \in DOMAIN f : With(f, g)[x] = f[x]
           /\ \A x \in DOMAIN g \ DOMAIN f : With(f, g)[x] = g[x]
  BY DEF With

LEMMA FieldFacts == ASSUME NEW f, NEW v PROVE DOMAIN Field(f, v) = {f} /\ Field(f, v)[f] = v
  BY DEF Field

LEMMA EmptyRecord == DOMAIN <<>> = {}
  OBVIOUS

LEMMA NothingMerged ==
    ASSUME NEW D, NEW f, f = [x \in D |-> f[x]]
    PROVE  With(f, <<>>) = f
  BY EmptyRecord DEF With

LEMMA MergedIsRecord == ASSUME NEW f, NEW g PROVE With(f, g) = [x \in DOMAIN With(f, g) |-> With(f, g)[x]]
  BY DEF With

LEMMA OptionalFacts ==
    ASSUME NEW f, NEW vs, NEW b \in Optional(f, vs)
    PROVE  DOMAIN b \subseteq {f}
  BY EmptyRecord, FieldFacts DEF Optional

LEMMA EqualPairs == ASSUME NEW a, NEW b, NEW c, NEW d, <<a, b>> = <<c, d>> PROVE a = c /\ b = d
  OBVIOUS
-----------------------------------------------------------------------------
(***************************************************************************)
(* What is sent is what was shown.                                         *)
(***************************************************************************)
LEMMA HookSwitch ==
    ASSUME NEW i \in InputsOf("webhooks_create")
    PROVE  i.auto_reactivate \in BOOLEAN
  <1>1. i \in CreateHookInputs
    BY DEF InputsOf
  <1> DEFINE As == [event : {"dm.version.added", "issue.created-1.0"}, callback_url : Callbacks,
                    scope_value : {"x"}, auto_reactivate : BOOLEAN]
         Bs == Optional("filter", {"expr"})
  <1>4. i \in Merge(As, Bs)
    BY <1>1 DEF CreateHookInputs
  <1>2. PICK a \in As, b \in Bs : i = With(a, b)
    <2> HIDE DEF As, Bs
    <2> QED
      BY <1>4 DEF Merge
  <1>3. "auto_reactivate" \in DOMAIN a /\ a.auto_reactivate \in BOOLEAN
    OBVIOUS
  <1> HIDE DEF As, Bs
  <1>5. i.auto_reactivate = a.auto_reactivate
    BY <1>2, <1>3 DEF With
  <1> QED
    BY <1>3, <1>5

\* A request as it was shown, but for the switch of a hook.
AsShown(tool, request, shown) ==
    \/ request = shown
    \/ /\ tool = "webhooks_create"
       /\ request = <<shown[1], With(shown[2], Field("autoReactivateHook", FALSE))>>

\* Two calls with the same payload: the one sends what the other showed.
LEMMA SamePayload ==
    ASSUME NEW tool \in Tools, NEW i \in InputsOf(tool), NEW p, NEW j, NEW q,
           Payload(tool, i, p) = Payload(tool, j, q)
    PROVE  AsShown(tool, Sent(tool, i, p), Shown(tool, j, q))
  <1> USE DEF AsShown
  <1>1. CASE tool = "issues_create"
    <2>1. Sent(tool, i, p) = CreateIssueShown(i) /\ Shown(tool, j, q) = CreateIssueShown(j)
      BY <1>1 DEF Sent, Shown, CreateIssueSent, CreateIssueShown, CreateIssue
    <2>2. Payload(tool, i, p) = CreateIssueShown(i) /\ Payload(tool, j, q) = CreateIssueShown(j)
      BY <1>1 DEF Payload, Shown
    <2> QED
      BY <2>1, <2>2
  <1>2. CASE tool = "issues_update"
    <2>1. Sent(tool, i, p) = UpdateIssueShown(i) /\ Shown(tool, j, q) = UpdateIssueShown(j)
      BY <1>2 DEF Sent, Shown, UpdateIssueSent, UpdateIssueShown, UpdateIssue
    <2>2. Payload(tool, i, p) = UpdateIssueShown(i) /\ Payload(tool, j, q) = UpdateIssueShown(j)
      BY <1>2 DEF Payload, Shown
    <2> QED
      BY <2>1, <2>2
  <1>3. CASE tool = "issues_add_comment"
    <2>1. ASSUME "body" \in DOMAIN i
          PROVE  AddCommentSent(i) = AddCommentShown(i)
      <3>1. Pick(i, {"body"}) = Field("body", i.body)
        BY <2>1 DEF Pick, Field
      <3> QED
        BY <3>1 DEF AddCommentSent, AddCommentShown, AddIssueComment
    <2>2. "body" \in DOMAIN i
      BY <1>3 DEF InputsOf, AddCommentInputs
    <2>3. Sent(tool, i, p) = AddCommentShown(i) /\ Shown(tool, j, q) = AddCommentShown(j)
      BY <1>3, <2>1, <2>2 DEF Sent, Shown
    <2>4. Payload(tool, i, p) = AddCommentShown(i) /\ Payload(tool, j, q) = AddCommentShown(j)
      BY <1>3 DEF Payload, Shown
    <2> QED
      BY <2>3, <2>4
  <1>4. CASE tool = "issues_pin_element"
    <2>1. Sent(tool, i, p) = PinElementSent(i, p) /\ Shown(tool, j, q) = PinElementShown(j, q)
      BY <1>4 DEF Sent, Shown
    <2>2. PinElementSent(i, p) = PinElementShown(i, p)
      BY DEF PinElementSent, PinElementShown, CreateIssue
    <2>3. Payload(tool, i, p) = <<PinElementShown(i, p), p.source>>
          /\ Payload(tool, j, q) = <<PinElementShown(j, q), q.source>>
      BY <1>4 DEF Payload, Shown
    <2>4. PinElementShown(i, p) = PinElementShown(j, q)
      BY <2>3, EqualPairs
    <2> QED
      BY <2>1, <2>2, <2>4
  <1>5. CASE tool = "reviews_create"
    <2>1. Sent(tool, i, p) = CreateReviewShown(i) /\ Shown(tool, j, q) = CreateReviewShown(j)
      BY <1>5 DEF Sent, Shown, CreateReviewSent, CreateReviewShown, CreateReview
    <2>2. Payload(tool, i, p) = <<i.project_id, CreateReviewShown(i)[2]>>
          /\ Payload(tool, j, q) = <<j.project_id, CreateReviewShown(j)[2]>>
      BY <1>5 DEF Payload, Shown
    <2>3. i.project_id = j.project_id /\ CreateReviewShown(i)[2] = CreateReviewShown(j)[2]
      <3>1. <<i.project_id, CreateReviewShown(i)[2]>> = <<j.project_id, CreateReviewShown(j)[2]>>
        BY <2>2
      <3> QED
        BY <3>1, EqualPairs
    <2>4. CreateReviewShown(i) = CreateReviewShown(j)
      BY <2>3 DEF CreateReviewShown
    <2> QED
      BY <2>1, <2>4
  <1>6. CASE tool = "webhooks_create"
    <2>1. Sent(tool, i, p) = CreateHookSent(i) /\ Shown(tool, j, q) = CreateHookShown(j) /\ i = j
      BY <1>6 DEF Sent, Shown, Payload
    <2>2. CASE i.auto_reactivate = TRUE
      BY <2>1, <2>2 DEF CreateHookSent, CreateHook, CreateHookShown
    <2>3. CASE i.auto_reactivate = FALSE
      <3> DEFINE body == HookBody(i)
      <3>1. body = [x \in DOMAIN body |-> body[x]]
        BY MergedIsRecord DEF HookBody
      <3>2. With(body, <<>>) = body
        <4> HIDE DEF body
        <4> QED
          BY <3>1, NothingMerged
      <3>3. CreateHookShown(i) = <<Hooks(i.event), body>>
        BY <2>3, <3>2 DEF CreateHookShown
      <3>4. CreateHookSent(i) = <<Hooks(i.event), With(body, Field("autoReactivateHook", FALSE))>>
        BY <2>3 DEF CreateHookSent, CreateHook
      <3> HIDE DEF body
      <3>5. CreateHookShown(i)[1] = Hooks(i.event) /\ CreateHookShown(i)[2] = body
        BY <3>3
      <3>6. CreateHookSent(i) = <<CreateHookShown(i)[1],
                                  With(CreateHookShown(i)[2], Field("autoReactivateHook", FALSE))>>
        BY <3>4, <3>5
      <3> QED
        BY <1>6, <2>1, <3>6
    <2> QED
      BY <1>6, <2>2, <2>3, HookSwitch
  <1>7. CASE tool = "webhooks_delete"
    <2>1. Sent(tool, i, p) = DeleteHookSent(i) /\ Shown(tool, j, q) = DeleteHookShown(j) /\ i = j
      BY <1>7 DEF Sent, Shown, Payload
    <2> QED
      BY <2>1 DEF DeleteHookSent, DeleteHookShown, DeleteHook
  <1>8. CASE tool = "md_trigger_translation"
    <2>1. Sent(tool, i, p) = TranslationSent(i) /\ Shown(tool, j, q) = TranslationShown(j) /\ i = j
      BY <1>8 DEF Sent, Shown, Payload
    <2> QED
      BY <2>1 DEF TranslationSent, TranslationShown, TriggerMdTranslation
  <1> QED
    BY <1>1, <1>2, <1>3, <1>4, <1>5, <1>6, <1>7, <1>8 DEF Tools
-----------------------------------------------------------------------------
(***************************************************************************)
(* The call at work and what it knows.                                     *)
(***************************************************************************)
Points == {"idle", "types", "model", "offset", "object", "ready"}
PinFields == {"views", "place", "view", "offset", "source", "dbid"}

CallShaped ==
    /\ setting \in Settings
    /\ call.pc \in Points
    /\ call.pc = "idle" => call = Idle /\ seen = {}
    /\ call.pc # "idle" =>
          /\ call = [pc |-> call.pc, input |-> call.input, dry |-> call.dry, token |-> call.token,
                     pin |-> call.pin]
          /\ call.input \in InputsOf(setting.tool) /\ call.dry \in BOOLEAN
          /\ call.token = Absent \/ call.token \in offers
          /\ DOMAIN call.pin \subseteq PinFields
          /\ world \in seen

WorldShaped ==
    /\ world \in Worlds /\ seen \subseteq Worlds
    /\ calls \in 0 .. MaxCalls /\ changes \in 0 .. MaxChanges

\* Nothing but the place where the call is.
LEMMA GoesFacts ==
    ASSUME CallShaped, call.pc # "idle", NEW pc \in Points, Goes(pc)
    PROVE  call' = [pc |-> pc, input |-> call.input, dry |-> call.dry, token |-> call.token,
                    pin |-> call.pin]
  BY DEF CallShaped, Goes

LEMMA LearnsFacts ==
    ASSUME CallShaped, call.pc # "idle", NEW pc \in Points, NEW facts, Learns(facts, pc)
    PROVE  /\ call' = [pc |-> pc, input |-> call.input, dry |-> call.dry, token |-> call.token,
                       pin |-> With(facts, call.pin)]
           /\ DOMAIN call'.pin = DOMAIN facts \cup DOMAIN call.pin
           /\ \A x \in DOMAIN facts : call'.pin[x] = facts[x]
           /\ \A x \in DOMAIN call.pin \ DOMAIN facts : call'.pin[x] = call.pin[x]
  <1>1. call' = [pc |-> pc, input |-> call.input, dry |-> call.dry, token |-> call.token,
                 pin |-> With(facts, call.pin)]
    BY DEF CallShaped, Learns
  <1>2. call'.pin = With(facts, call.pin)
    BY <1>1
  <1>3. /\ DOMAIN With(facts, call.pin) = DOMAIN facts \cup DOMAIN call.pin
        /\ \A x \in DOMAIN facts : With(facts, call.pin)[x] = facts[x]
        /\ \A x \in DOMAIN call.pin \ DOMAIN facts : With(facts, call.pin)[x] = call.pin[x]
    BY Merged
  <1> QED
    BY <1>1, <1>2, <1>3

LEMMA EndsFacts == ASSUME Ends PROVE call' = Idle /\ call'.pc = "idle" /\ seen' = {}
  BY DEF Ends, Idle

\* A step of the call that reads, told by the facts it learns and where it goes.
Moves(facts, pc) ==
    /\ call'.pc = pc /\ pc \in Points \ {"idle"}
    /\ call' = [pc |-> pc, input |-> call.input, dry |-> call.dry, token |-> call.token, pin |-> call'.pin]
    /\ DOMAIN call'.pin = DOMAIN facts \cup DOMAIN call.pin
    /\ \A x \in DOMAIN facts : call'.pin[x] = facts[x]
    /\ \A x \in DOMAIN call.pin \ DOMAIN facts : call'.pin[x] = call.pin[x]
    /\ UNCHANGED <<setting, world, offers, sent, seen, changes, calls>>

LEMMA LearnsMoves ==
    ASSUME CallShaped, call.pc # "idle", NEW pc \in Points \ {"idle"}, NEW facts, Learns(facts, pc),
           UNCHANGED <<setting, world, offers, sent, calls, changes>>
    PROVE  Moves(facts, pc)
  <1>1. /\ call' = [pc |-> pc, input |-> call.input, dry |-> call.dry, token |-> call.token,
                    pin |-> With(facts, call.pin)]
        /\ DOMAIN call'.pin = DOMAIN facts \cup DOMAIN call.pin
        /\ \A x \in DOMAIN facts : call'.pin[x] = facts[x]
        /\ \A x \in DOMAIN call.pin \ DOMAIN facts : call'.pin[x] = call.pin[x]
    BY LearnsFacts
  <1>2. call'.pc = pc /\ call'.pin = With(facts, call.pin)
    BY <1>1
  <1> QED
    BY <1>1, <1>2 DEF Moves, Learns

LEMMA GoesMoves ==
    ASSUME CallShaped, call.pc # "idle", NEW pc \in Points \ {"idle"}, Goes(pc),
           UNCHANGED <<setting, world, offers, sent, calls, changes>>
    PROVE  Moves(<<>>, pc)
  <1>1. call' = [pc |-> pc, input |-> call.input, dry |-> call.dry, token |-> call.token, pin |-> call.pin]
    BY GoesFacts
  <1>2. call'.pc = pc /\ call'.pin = call.pin
    BY <1>1
  <1> QED
    BY <1>1, <1>2, EmptyRecord DEF Moves, Goes

\* The steps of the call between its beginning and its end: where each may start, and what
\* the call knows after it.
Unread == UNCHANGED <<setting, world, offers, sent, calls, changes>>

LEMMA TypesStep ==
    ASSUME CallShaped, ListIssueTypes
    PROVE  /\ call.pc = "types" /\ Unread
           /\ \/ Ends
              \/ /\ world.subtype = "active"
                 /\ Moves(<<>>, IF setting.tool = "issues_create" THEN "ready" ELSE "model")
  <1>1. call.pc = "types" /\ Unread
    BY DEF ListIssueTypes, Unread
  <1>2. Ends \/ (world.subtype = "active" /\ Goes(IF setting.tool = "issues_create" THEN "ready" ELSE "model"))
    BY DEF ListIssueTypes, Usable
  <1> DEFINE next == IF setting.tool = "issues_create" THEN "ready" ELSE "model"
  <1>3. next \in Points \ {"idle"}
    BY DEF Points
  <1>4. Ends \/ (world.subtype = "active" /\ Goes(next))
    BY <1>2
  <1> HIDE DEF next
  <1>5. Ends \/ (world.subtype = "active" /\ Moves(<<>>, next))
    BY <1>1, <1>3, <1>4, GoesMoves DEF Unread
  <1> QED
    BY <1>1, <1>5 DEF next

LEMMA ModelStep ==
    ASSUME CallShaped, NEW f \in {"views", "place"}, ReadModel(f)
    PROVE  call.pc = "model" /\ f \notin DOMAIN call.pin /\ Unread /\ Moves(Field(f, world[f]), "model")
  <1>1. call.pc = "model" /\ f \notin DOMAIN call.pin /\ Unread /\ Learns(Field(f, world[f]), "model")
    BY DEF ReadModel, Unread
  <1>2. "model" \in Points \ {"idle"} /\ call.pc # "idle"
    BY <1>1 DEF Points
  <1> DEFINE facts == Field(f, world[f])
  <1>3. Learns(facts, "model")
    BY <1>1
  <1> HIDE DEF facts
  <1>4. Moves(facts, "model")
    BY <1>1, <1>2, <1>3, LearnsMoves DEF Unread
  <1> QED
    BY <1>1, <1>4 DEF facts

\* What ResolvePin learns: the view, and the offset when the input has one.
ViewField == Field("view", ChosenView(call.pin.views, call.input))
GivenOffset == [offset |-> call.input.global_offset, source |-> "provided"]

LEMMA ResolveStep ==
    ASSUME CallShaped, ResolvePin
    PROVE  /\ call.pc = "model" /\ {"views", "place"} \subseteq DOMAIN call.pin /\ Unread
           /\ \/ Ends
              \/ /\ call.pin.views # <<>> /\ call.pin.place # Absent
                 /\ \/ Given(call.input, "global_offset") /\ Moves(With(ViewField, GivenOffset), "object")
                    \/ ~Given(call.input, "global_offset") /\ Moves(ViewField, "offset")
  <1>1. call.pc = "model" /\ {"views", "place"} \subseteq DOMAIN call.pin /\ Unread
    BY DEF ResolvePin, Unread
  <1>2. \/ Ends
        \/ /\ call.pin.views # <<>> /\ call.pin.place # Absent
           /\ \/ Given(call.input, "global_offset") /\ Learns(With(ViewField, GivenOffset), "object")
              \/ ~Given(call.input, "global_offset") /\ Learns(ViewField, "offset")
    BY DEF ResolvePin, ViewField, GivenOffset
  <1>3. {"object", "offset"} \subseteq Points \ {"idle"} /\ call.pc # "idle"
    BY <1>1 DEF Points
  <1> QED
    BY <1>1, <1>2, <1>3, LearnsMoves DEF Unread

LEMMA OffsetStep ==
    ASSUME CallShaped, ReadOffset
    PROVE  /\ call.pc = "offset" /\ Unread
           /\ \E facts : /\ Moves(facts, "object") /\ DOMAIN facts = {"offset", "source"}
                         /\ facts.offset = IF world.offset = Absent THEN 0 ELSE world.offset
  <1> DEFINE facts == IF world.offset = Absent THEN [offset |-> 0, source |-> "fallback_zero"]
                      ELSE [offset |-> world.offset, source |-> "existing_pin"]
  <1>1. call.pc = "offset" /\ Learns(facts, "object") /\ Unread
    BY DEF ReadOffset, Unread
  <1>2. DOMAIN facts = {"offset", "source"} /\ facts.offset = (IF world.offset = Absent THEN 0 ELSE world.offset)
    OBVIOUS
  <1>3. "object" \in Points \ {"idle"} /\ call.pc # "idle"
    BY <1>1 DEF Points
  <1> HIDE DEF facts
  <1>4. Moves(facts, "object")
    BY <1>1, <1>3, LearnsMoves DEF Unread
  <1> QED
    BY <1>1, <1>2, <1>4

LEMMA ObjectStep ==
    ASSUME CallShaped, ReadObject
    PROVE  /\ call.pc = "object" /\ Unread
           /\ \E dbid \in {world.dbid, Absent} : Moves(Field("dbid", dbid), "ready")
  <1>1. PICK dbid \in {world.dbid, Absent} : Learns(Field("dbid", dbid), "ready")
    BY DEF ReadObject
  <1>2. call.pc = "object" /\ Unread
    BY DEF ReadObject, Unread
  <1>3. "ready" \in Points \ {"idle"} /\ call.pc # "idle"
    BY <1>2 DEF Points
  <1>4. Moves(Field("dbid", dbid), "ready")
    BY <1>1, <1>2, <1>3, LearnsMoves DEF Unread
  <1> QED
    BY <1>2, <1>4
-----------------------------------------------------------------------------
(***************************************************************************)
(* Types.                                                                  *)
(***************************************************************************)
LEMMA EndKeepsShape ==
    ASSUME CallShaped, Ends, UNCHANGED setting
    PROVE  CallShaped'
  BY EndsFacts DEF CallShaped, Points

LEMMA MoveKeepsShape ==
    ASSUME CallShaped, call.pc # "idle", NEW facts, NEW pc, Moves(facts, pc), DOMAIN facts \subseteq PinFields
    PROVE  CallShaped'
  <1>1. call' = [pc |-> call'.pc, input |-> call'.input, dry |-> call'.dry, token |-> call'.token,
                 pin |-> call'.pin]
        /\ call'.input = call.input /\ call'.dry = call.dry /\ call'.token = call.token
        /\ call'.pc \in Points \ {"idle"}
    BY DEF Moves
  <1>2. DOMAIN call'.pin \subseteq PinFields
    BY DEF Moves, CallShaped
  <1> QED
    BY <1>1, <1>2 DEF Moves, CallShaped

\* What begins is a call of the tool, which knows nothing yet.
LEMMA BeginStep ==
    ASSUME NEW i, NEW dry, NEW token, Begin(i, dry, token)
    PROVE  /\ call.pc = "idle" /\ calls < MaxCalls /\ calls' = calls + 1
           /\ UNCHANGED <<setting, world, offers, sent, changes>>
           /\ \/ UNCHANGED <<call, seen>>
              \/ /\ EnforceScope(setting.tool, i) /\ RunBusinessRules(setting.tool, i, world.day)
                 /\ call' = [pc |-> call'.pc, input |-> i, dry |-> dry, token |-> token, pin |-> <<>>]
                 /\ call'.pc = IF setting.tool \in {"issues_create", "issues_pin_element"} THEN "types" ELSE "ready"
                 /\ seen' = {world}
  BY DEF Begin

LEMMA BeginKeepsShape ==
    ASSUME CallShaped, NEW i \in InputsOf(setting.tool), NEW dry \in BOOLEAN, NEW token \in offers \cup {Absent},
           Begin(i, dry, token)
    PROVE  CallShaped'
  <1>1. CASE UNCHANGED <<call, seen>>
    BY <1>1, BeginStep DEF CallShaped
  <1>2. CASE /\ call' = [pc |-> call'.pc, input |-> i, dry |-> dry, token |-> token, pin |-> <<>>]
             /\ call'.pc = IF setting.tool \in {"issues_create", "issues_pin_element"} THEN "types" ELSE "ready"
             /\ seen' = {world}
    <2>1. call'.pc \in Points \ {"idle"}
      BY <1>2 DEF Points
    <2>2. call'.input = i /\ call'.dry = dry /\ call'.token = token /\ call'.pin = <<>>
      BY <1>2
    <2>3. call' = [pc |-> call'.pc, input |-> call'.input, dry |-> call'.dry, token |-> call'.token,
                   pin |-> call'.pin]
      BY <1>2, <2>2
    <2>4. DOMAIN call'.pin \subseteq PinFields
      BY <2>2, EmptyRecord
    <2>5. UNCHANGED <<setting, world, offers>> /\ world' \in seen'
      BY <1>2, BeginStep
    <2> QED
      BY <2>1, <2>2, <2>3, <2>4, <2>5 DEF CallShaped
  <1> QED
    BY <1>1, <1>2, BeginStep

LEMMA ShapeInit == MutationInit => CallShaped
  BY DEF MutationInit, MutationStart, CallShaped, Idle, Points

LEMMA ShapeNext == CallShaped /\ [MutationNext]_mutationVars => CallShaped'
  <1> SUFFICES ASSUME CallShaped, [MutationNext]_mutationVars PROVE CallShaped'
    OBVIOUS
  <1>1. ASSUME NEW i \in InputsOf(setting.tool), NEW token \in offers \cup {Absent},
               Begin(i, TRUE, Absent) \/ Begin(i, FALSE, token)
        PROVE  CallShaped'
    BY <1>1, BeginKeepsShape
  <1>2. CASE ListIssueTypes
    <2> DEFINE next == IF setting.tool = "issues_create" THEN "ready" ELSE "model"
    <2>1. call.pc = "types" /\ Unread /\ (Ends \/ Moves(<<>>, next))
      BY <1>2, TypesStep
    <2> HIDE DEF next
    <2> QED
      BY <2>1, EndKeepsShape, MoveKeepsShape, EmptyRecord DEF Unread
  <1>3. ASSUME NEW f \in {"views", "place"}, ReadModel(f) PROVE CallShaped'
    <2> DEFINE facts == Field(f, world[f])
    <2>1. call.pc = "model" /\ Moves(facts, "model")
      BY <1>3, ModelStep
    <2>2. DOMAIN facts = {f} /\ f \in PinFields
      BY FieldFacts DEF PinFields
    <2> HIDE DEF facts
    <2>3. DOMAIN facts \subseteq PinFields
      BY <2>2
    <2> QED
      BY <2>1, <2>3, MoveKeepsShape
  <1>4. CASE ResolvePin
    <2>1. /\ call.pc = "model" /\ Unread
          /\ Ends \/ Moves(With(ViewField, GivenOffset), "object") \/ Moves(ViewField, "offset")
      BY <1>4, ResolveStep
    <2>2. DOMAIN ViewField = {"view"} /\ DOMAIN GivenOffset = {"offset", "source"}
      BY FieldFacts DEF ViewField, GivenOffset
    <2>3. DOMAIN ViewField \subseteq PinFields /\ DOMAIN With(ViewField, GivenOffset) \subseteq PinFields
      BY <2>2, Merged DEF PinFields
    <2> QED
      BY <2>1, <2>3, EndKeepsShape, MoveKeepsShape DEF Unread
  <1>5. CASE ReadOffset
    <2>1. PICK facts : Moves(facts, "object") /\ DOMAIN facts = {"offset", "source"}
      BY <1>5, OffsetStep
    <2>2. DOMAIN facts \subseteq PinFields /\ call.pc # "idle"
      BY <1>5, <2>1, OffsetStep DEF PinFields
    <2> QED
      BY <2>1, <2>2, MoveKeepsShape
  <1>6. CASE ReadObject
    <2>1. PICK o : Moves(Field("dbid", o), "ready")
      BY <1>6, ObjectStep
    <2>2. DOMAIN Field("dbid", o) = {"dbid"} /\ {"dbid"} \subseteq PinFields
      BY FieldFacts DEF PinFields
    <2>3. call.pc # "idle"
      BY <1>6, ObjectStep
    <2> QED
      BY <2>1, <2>2, <2>3, MoveKeepsShape
  <1>7. CASE ReadFails \/ DryRun \/ Execute \/ Denied
    BY <1>7, EndKeepsShape DEF ReadFails, DryRun, Execute, Denied
  <1>8. ASSUME NEW f \in DOMAIN world, WorldChanges(f) PROVE CallShaped'
    BY <1>8 DEF WorldChanges, CallShaped
  <1>9. CASE UNCHANGED mutationVars
    BY <1>9 DEF mutationVars, CallShaped
  <1> QED
    BY <1>1, <1>2, <1>3, <1>4, <1>5, <1>6, <1>7, <1>8, <1>9 DEF MutationNext

LEMMA WorldInit == MutationInit => WorldShaped
  BY MutationToolsAssumption DEF MutationInit, MutationStart, WorldShaped, Worlds

LEMMA WorldNext == CallShaped /\ WorldShaped /\ [MutationNext]_mutationVars => WorldShaped'
  <1> SUFFICES ASSUME CallShaped, WorldShaped, [MutationNext]_mutationVars PROVE WorldShaped'
    OBVIOUS
  <1>0. MaxCalls \in Nat /\ MaxChanges \in Nat
    BY MutationToolsAssumption
  <1>1. ASSUME NEW i, NEW dry, NEW token, Begin(i, dry, token) PROVE WorldShaped'
    BY <1>0, <1>1, BeginStep DEF WorldShaped
  <1>2. ASSUME UNCHANGED <<world, calls, changes>>, UNCHANGED seen \/ seen' = {} PROVE WorldShaped'
    BY <1>2 DEF WorldShaped
  <1>3. ASSUME NEW f \in DOMAIN world, WorldChanges(f) PROVE WorldShaped'
    BY <1>0, <1>3 DEF WorldChanges, WorldShaped
  <1>4. CASE ListIssueTypes
    BY <1>2, <1>4 DEF ListIssueTypes, Ends, Goes
  <1>5. ASSUME NEW f, ReadModel(f) PROVE WorldShaped'
    BY <1>2, <1>5 DEF ReadModel, Learns
  <1>6. CASE ResolvePin
    BY <1>2, <1>6 DEF ResolvePin, Ends, Learns
  <1>7. CASE ReadOffset \/ ReadObject
    BY <1>2, <1>7 DEF ReadOffset, ReadObject, Learns
  <1>8. CASE ReadFails \/ DryRun \/ Execute \/ Denied
    BY <1>2, <1>8 DEF ReadFails, DryRun, Execute, Denied, Ends
  <1>9. CASE UNCHANGED mutationVars
    BY <1>2, <1>9 DEF mutationVars
  <1> QED
    BY <1>1, <1>3, <1>4, <1>5, <1>6, <1>7, <1>8, <1>9 DEF MutationNext

LEMMA ShapesAreTypes == CallShaped /\ WorldShaped => MutationTypeOK
  <1> SUFFICES ASSUME CallShaped, WorldShaped PROVE MutationTypeOK
    OBVIOUS
  <1>1. CASE call.pc = "idle"
    BY <1>1 DEF CallShaped, WorldShaped, MutationTypeOK, Idle, Points
  <1>2. CASE call.pc # "idle"
    <2>1. call # Idle /\ DOMAIN Idle = {"pc"}
      BY <1>2 DEF Idle
    <2>2. "pc" \in DOMAIN call
      BY <1>2 DEF CallShaped
    <2> QED
      BY <1>2, <2>1, <2>2 DEF CallShaped, WorldShaped, MutationTypeOK, Points, PinFields
  <1> QED
    BY <1>1, <1>2

\* A call at work is one of its tool's, with its token, if it has one, still to be used (the
\* tools of src/tools, whatever happens at Autodesk meanwhile).
THEOREM MutationTypeCorrect == MutationSpec => []MutationTypeOK
  <1> DEFINE Shapes == CallShaped /\ WorldShaped
  <1>1. MutationInit => Shapes
    BY ShapeInit, WorldInit
  <1>2. Shapes /\ [MutationNext]_mutationVars => Shapes'
    BY ShapeNext, WorldNext
  <1>3. Shapes => MutationTypeOK
    BY ShapesAreTypes
  <1> QED
    BY <1>1, <1>2, <1>3, PTL DEF MutationSpec
-----------------------------------------------------------------------------
(***************************************************************************)
(* Approval: an offer is what some input, read in some way, showed.        *)
(***************************************************************************)
Offered ==
    \A o \in offers : \E j, q : /\ o.payload = Payload(setting.tool, j, q)
                              /\ o.shown = Shown(setting.tool, j, q)

ApprovalInv == CallShaped /\ Offered /\ SentAsApproved

LEMMA ApprovalInit == MutationInit => ApprovalInv
  BY ShapeInit DEF ApprovalInv, MutationInit, MutationStart, Offered, SentAsApproved

\* The request of a call whose token matches is what its dry run showed.
LEMMA ApprovedIsShown ==
    ASSUME CallShaped, Offered, call.pc = "ready", Approved
    PROVE  AsShown(setting.tool, Sent(setting.tool, call.input, call.pin), call.token.shown)
  <1>1. call.token \in offers /\ call.token.payload = Payload(setting.tool, call.input, call.pin)
    BY DEF Approved, CallShaped, BuiltPayload
  <1>2. PICK j, q : call.token.payload = Payload(setting.tool, j, q) /\ call.token.shown = Shown(setting.tool, j, q)
    BY <1>1 DEF Offered
  <1>3. setting.tool \in Tools /\ call.input \in InputsOf(setting.tool)
    BY DEF CallShaped, Settings
  <1>4. Payload(setting.tool, call.input, call.pin) = Payload(setting.tool, j, q)
    BY <1>1, <1>2
  <1>5. AsShown(setting.tool, Sent(setting.tool, call.input, call.pin), Shown(setting.tool, j, q))
    BY <1>3, <1>4, SamePayload
  <1> QED
    BY <1>2, <1>5

LEMMA ApprovalNext == ApprovalInv /\ [MutationNext]_mutationVars => ApprovalInv'
  <1> SUFFICES ASSUME ApprovalInv, [MutationNext]_mutationVars PROVE (Offered /\ SentAsApproved)'
    BY ShapeNext DEF ApprovalInv
  <1> USE DEF ApprovalInv
  <1>1. ASSUME UNCHANGED <<setting, offers, sent>> PROVE (Offered /\ SentAsApproved)'
    BY <1>1 DEF Offered, SentAsApproved
  <1>2. CASE DryRun
    <2>1. UNCHANGED <<setting, sent>> /\ offers' = offers \cup {[payload |-> BuiltPayload, shown |-> BuiltShown]}
      BY <1>2 DEF DryRun
    <2> DEFINE new == [payload |-> BuiltPayload, shown |-> BuiltShown]
    <2>2. /\ new.payload = Payload(setting.tool, call.input, call.pin)
          /\ new.shown = Shown(setting.tool, call.input, call.pin)
      BY DEF BuiltPayload, BuiltShown
    <2> HIDE DEF new
    <2>3. ASSUME NEW o \in offers'
          PROVE  \E j, q : o.payload = Payload(setting.tool, j, q) /\ o.shown = Shown(setting.tool, j, q)
      BY <2>1, <2>2, <2>3 DEF Offered, new
    <2>4. Offered'
      BY <2>1, <2>3 DEF Offered
    <2>5. SentAsApproved'
      BY <2>1 DEF SentAsApproved
    <2> QED
      BY <2>4, <2>5
  <1>3. CASE Execute
    <2> DEFINE request == Sent(setting.tool, call.input, call.pin)
               new == [request |-> request, shown |-> call.token.shown, input |-> call.input, seen |-> seen]
    <2>1. /\ UNCHANGED setting /\ offers' \subseteq offers /\ sent' = sent \cup {new}
          /\ call.pc = "ready" /\ Approved
      BY <1>3 DEF Execute
    <2>2. AsShown(setting.tool, request, call.token.shown)
      BY <2>1, ApprovedIsShown
    <2>3. new.request = request /\ new.shown = call.token.shown
      OBVIOUS
    <2> HIDE DEF new, request
    <2> QED
      BY <2>1, <2>2, <2>3 DEF Offered, SentAsApproved, AsShown
  <1>4. CASE \E i \in InputsOf(setting.tool), token \in offers \cup {Absent} :
               Begin(i, TRUE, Absent) \/ Begin(i, FALSE, token)
    BY <1>1, <1>4 DEF Begin
  <1>5. CASE ListIssueTypes \/ (\E f \in {"views", "place"} : ReadModel(f))
             \/ ResolvePin \/ ReadOffset \/ ReadObject \/ ReadFails \/ Denied
    BY <1>1, <1>5 DEF ListIssueTypes, ReadModel, ResolvePin, ReadOffset, ReadObject, ReadFails, Denied
  <1>6. CASE (\E f \in DOMAIN world : WorldChanges(f)) \/ UNCHANGED mutationVars
    BY <1>1, <1>6 DEF WorldChanges, mutationVars
  <1> QED
    BY <1>2, <1>3, <1>4, <1>5, <1>6 DEF MutationNext

\* What a tool sends is what its dry run showed (dry-run.ts:59-60, confirm-token.ts), for
\* every input of the second call and whatever changed at Autodesk between the two; a hook
\* that is not to reactivate itself says so only when it is sent.
THEOREM WhatIsSentWasShown == MutationSpec => []SentAsApproved
  <1>1. ApprovalInv => SentAsApproved
    BY DEF ApprovalInv
  <1> QED
    BY <1>1, ApprovalInit, ApprovalNext, PTL DEF MutationSpec
-----------------------------------------------------------------------------
(***************************************************************************)
(* What the request rests on: each thing was true in a world that was seen *)
(* since the call began.                                                   *)
(***************************************************************************)
Pinning == setting.tool = "issues_pin_element"
Dated == setting.tool \in {"issues_create", "issues_update", "issues_pin_element"}

\* What was checked of the call so far.
Checked ==
    call.pc # "idle" =>
      /\ EnforceScope(setting.tool, call.input)
      /\ Dated /\ Given(call.input, "due_date") => \E w \in seen : call.input.due_date >= w.day
      /\ setting.tool \in {"issues_create", "issues_pin_element"} /\ call.pc # "types" =>
           \E w \in seen : w.subtype = "active"
      /\ call.pc = "types" => setting.tool \in {"issues_create", "issues_pin_element"}
      /\ call.pc \in {"model", "offset", "object"} => Pinning

\* What a call that pins has read, and when it has read it.
SeenViews == \E w \in seen : call.pin.views = w.views
SeenPlace == \E w \in seen : call.pin.place = w.place
SeenView == \E w \in seen : \E n \in DOMAIN w.views : w.views[n] = call.pin.view
OffsetOf(i, v) ==
    IF Given(i, "global_offset") THEN i.global_offset ELSE IF v.offset = Absent THEN 0 ELSE v.offset
SeenOffset == \E v \in seen : call.pin.offset = OffsetOf(call.input, v)
SeenObject == \E w \in seen : call.pin.dbid \in {w.dbid, Absent}

PinKnown ==
    Pinning /\ call.pc # "idle" =>
      /\ call.pc = "types" => DOMAIN call.pin = {}
      /\ call.pc = "model" => DOMAIN call.pin \subseteq {"views", "place"}
      /\ "views" \in DOMAIN call.pin => SeenViews
      /\ "place" \in DOMAIN call.pin => SeenPlace
      /\ call.pc \in {"offset", "object", "ready"} =>
           {"place", "view"} \subseteq DOMAIN call.pin /\ call.pin.place # Absent /\ SeenView
      /\ call.pc = "offset" => ~Given(call.input, "global_offset")
      /\ call.pc \in {"object", "ready"} => "offset" \in DOMAIN call.pin /\ SeenOffset
      /\ call.pc = "ready" => SeenObject

LEMMA IdleKnowsNothing == ASSUME call'.pc = "idle" PROVE Checked' /\ PinKnown'
  BY DEF Checked, PinKnown

LEMMA MoreIsSeen ==
    ASSUME Checked, PinKnown, UNCHANGED <<setting, call>>, seen \subseteq seen'
    PROVE  Checked' /\ PinKnown'
  <1>1. Checked'
    BY DEF Checked, Dated, Pinning, EnforceScope, IsProjectAllowed
  <1>2. PinKnown'
    BY DEF PinKnown, Pinning, SeenViews, SeenPlace, SeenView, SeenOffset, SeenObject
  <1> QED
    BY <1>1, <1>2

\* Of what was checked, a move keeps everything; it has to have found an active type to be
\* past the types.
LEMMA MoveKeepsChecks ==
    ASSUME Checked, call.pc # "idle", NEW facts, NEW pc, Moves(facts, pc),
           call.pc = "types" => \E w \in seen : w.subtype = "active",
           pc # "types", pc \in {"model", "offset", "object"} => Pinning
    PROVE  Checked'
  <1>1. call'.pc = pc /\ call'.input = call.input /\ UNCHANGED <<setting, seen>>
    BY DEF Moves
  <1> QED
    BY <1>1 DEF Checked, Dated, Pinning, EnforceScope, IsProjectAllowed

\* A fact that a move does not learn is the one that was known.
LEMMA MoveKeepsFacts ==
    ASSUME NEW facts, NEW pc, Moves(facts, pc)
    PROVE  /\ call'.pc = pc /\ call'.input = call.input /\ UNCHANGED <<setting, seen>>
           /\ \A x \in DOMAIN facts : x \in DOMAIN call'.pin /\ call'.pin[x] = facts[x]
           /\ \A x \in DOMAIN call.pin \ DOMAIN facts : x \in DOMAIN call'.pin /\ call'.pin[x] = call.pin[x]
           /\ DOMAIN call'.pin = DOMAIN facts \cup DOMAIN call.pin
  BY DEF Moves

LEMMA KnownBegin ==
    ASSUME CallShaped, Checked, PinKnown, NEW i, NEW dry, NEW token, Begin(i, dry, token)
    PROVE  Checked' /\ PinKnown'
  <1>1. UNCHANGED <<setting, world>> /\ call.pc = "idle"
    BY BeginStep
  <1>2. CASE UNCHANGED <<call, seen>>
    BY <1>1, <1>2, MoreIsSeen
  <1>3. CASE /\ EnforceScope(setting.tool, i) /\ RunBusinessRules(setting.tool, i, world.day)
             /\ call' = [pc |-> call'.pc, input |-> i, dry |-> dry, token |-> token, pin |-> <<>>]
             /\ call'.pc = IF setting.tool \in {"issues_create", "issues_pin_element"} THEN "types" ELSE "ready"
             /\ seen' = {world}
    <2>1. call'.input = i /\ call'.pin = <<>>
      BY <1>3
    <2>2. Dated /\ Given(i, "due_date") => i.due_date >= world.day
      BY <1>3 DEF Dated, RunBusinessRules, CreateIssueRules, UpdateIssueRules, PinElementRules, NotInThePast
    <2>3. EnforceScope(setting.tool, call.input)'
      BY <1>1, <1>3, <2>1 DEF EnforceScope, IsProjectAllowed
    <2>4. Checked'
      BY <1>1, <1>3, <2>1, <2>2, <2>3 DEF Checked, Dated, Pinning
    <2>5. DOMAIN call'.pin = {}
      BY <2>1, EmptyRecord
    <2>6. PinKnown'
      BY <1>1, <1>3, <2>5 DEF PinKnown, Pinning
    <2> QED
      BY <2>4, <2>6
  <1> QED
    BY <1>2, <1>3, BeginStep

LEMMA KnownTypes ==
    ASSUME CallShaped, Checked, PinKnown, ListIssueTypes
    PROVE  Checked' /\ PinKnown'
  <1> DEFINE next == IF setting.tool = "issues_create" THEN "ready" ELSE "model"
  <1>1. call.pc = "types" /\ (Ends \/ (world.subtype = "active" /\ Moves(<<>>, next)))
    BY TypesStep
  <1>2. setting.tool \in {"issues_create", "issues_pin_element"} /\ world \in seen
    BY <1>1 DEF Checked, CallShaped
  <1>3. next \in {"ready", "model"} /\ (next = "model" => Pinning) /\ (Pinning => next = "model")
    BY <1>2 DEF Pinning
  <1> HIDE DEF next
  <1>4. CASE Ends
    BY <1>4, EndsFacts, IdleKnowsNothing
  <1>5. CASE world.subtype = "active" /\ Moves(<<>>, next)
    <2>1. Checked'
      BY <1>1, <1>2, <1>3, <1>5, MoveKeepsChecks
    <2>2. call'.pc = next /\ UNCHANGED setting /\ DOMAIN call'.pin = DOMAIN call.pin
      BY <1>5, MoveKeepsFacts, EmptyRecord
    <2>3. Pinning => DOMAIN call'.pin = {}
      BY <1>1, <2>2 DEF PinKnown
    <2>4. PinKnown'
      BY <1>3, <2>2, <2>3 DEF PinKnown, Pinning
    <2> QED
      BY <2>1, <2>4
  <1> QED
    BY <1>1, <1>4, <1>5

LEMMA KnownModel ==
    ASSUME CallShaped, Checked, PinKnown, NEW f \in {"views", "place"}, ReadModel(f)
    PROVE  Checked' /\ PinKnown'
  <1> DEFINE facts == Field(f, world[f])
  <1>1. call.pc = "model" /\ f \notin DOMAIN call.pin /\ Moves(facts, "model")
    BY ModelStep
  <1>2. Pinning /\ world \in seen
    BY <1>1 DEF Checked, CallShaped
  <1>3. DOMAIN facts = {f} /\ facts[f] = world[f]
    BY FieldFacts
  <1> HIDE DEF facts
  <1>4. Checked'
    BY <1>1, <1>2, MoveKeepsChecks
  <1>5. /\ call'.pc = "model" /\ call'.pin[f] = world[f] /\ UNCHANGED <<setting, seen>>
        /\ \A x \in DOMAIN call.pin \ {f} : call'.pin[x] = call.pin[x]
        /\ DOMAIN call'.pin = {f} \cup DOMAIN call.pin
    BY <1>1, <1>3, MoveKeepsFacts
  <1>6. DOMAIN call.pin \subseteq {"views", "place"}
    BY <1>1, <1>2 DEF PinKnown
  <1>7. "views" \in DOMAIN call'.pin => SeenViews'
    <2>1. CASE f = "views"
      BY <1>2, <1>5, <2>1 DEF SeenViews
    <2>2. CASE f # "views"
      BY <1>1, <1>2, <1>5, <2>2 DEF SeenViews, PinKnown
    <2> QED
      BY <2>1, <2>2
  <1>8. "place" \in DOMAIN call'.pin => SeenPlace'
    <2>1. CASE f = "place"
      BY <1>2, <1>5, <2>1 DEF SeenPlace
    <2>2. CASE f # "place"
      BY <1>1, <1>2, <1>5, <2>2 DEF SeenPlace, PinKnown
    <2> QED
      BY <2>1, <2>2
  <1>9. PinKnown'
    BY <1>5, <1>6, <1>7, <1>8 DEF PinKnown
  <1> QED
    BY <1>4, <1>9

\* The view of the hint when the model has it, else its first.
LEMMA ChosenViewIsOne ==
    ASSUME NEW i, NEW views \in {<<>>, <<"v1">>, <<"v1", "v2">>}, views # <<>>
    PROVE  \E n \in DOMAIN views : views[n] = ChosenView(views, i)
  <1>1. CASE Given(i, "viewable_name_hint") /\ \E n \in DOMAIN views : views[n] = i.viewable_name_hint
    BY <1>1 DEF ChosenView
  <1>2. CASE ~(Given(i, "viewable_name_hint") /\ \E n \in DOMAIN views : views[n] = i.viewable_name_hint)
    <2>1. ChosenView(views, i) = views[1]
      BY <1>2 DEF ChosenView
    <2>2. 1 \in DOMAIN views
      OBVIOUS
    <2> QED
      BY <2>1, <2>2
  <1> QED
    BY <1>1, <1>2

LEMMA KnownResolve ==
    ASSUME CallShaped, WorldShaped, Checked, PinKnown, ResolvePin
    PROVE  Checked' /\ PinKnown'
  <1>1. /\ call.pc = "model" /\ {"views", "place"} \subseteq DOMAIN call.pin
        /\ \/ Ends
           \/ /\ call.pin.views # <<>> /\ call.pin.place # Absent
              /\ \/ Given(call.input, "global_offset") /\ Moves(With(ViewField, GivenOffset), "object")
                 \/ ~Given(call.input, "global_offset") /\ Moves(ViewField, "offset")
    BY ResolveStep
  <1>2. Pinning /\ SeenViews /\ DOMAIN call.pin \subseteq {"views", "place"} /\ world \in seen
    BY <1>1 DEF Checked, CallShaped, PinKnown
  <1>3. DOMAIN ViewField = {"view"} /\ ViewField["view"] = ChosenView(call.pin.views, call.input)
    BY FieldFacts DEF ViewField
  <1>4. DOMAIN GivenOffset = {"offset", "source"} /\ GivenOffset["offset"] = call.input.global_offset
    BY DEF GivenOffset
  <1>5. ASSUME call.pin.views # <<>>
        PROVE  \E w \in seen : \E n \in DOMAIN w.views : w.views[n] = ViewField["view"]
    <2>1. PICK w \in seen : call.pin.views = w.views
      BY <1>2 DEF SeenViews
    <2>2. w.views \in {<<>>, <<"v1">>, <<"v1", "v2">>}
      BY DEF WorldShaped, Worlds
    <2>3. \E n \in DOMAIN w.views : w.views[n] = ChosenView(w.views, call.input)
      BY <1>5, <2>1, <2>2, ChosenViewIsOne
    <2> QED
      BY <1>3, <2>1, <2>3
  <1>6. ASSUME NEW facts, NEW pc \in {"object", "offset"}, Moves(facts, pc),
               call.pin.views # <<>>, call.pin.place # Absent,
               "view" \in DOMAIN facts, facts["view"] = ViewField["view"],
               "views" \notin DOMAIN facts, "place" \notin DOMAIN facts
        PROVE  /\ Checked' /\ SeenViews' /\ SeenPlace' /\ SeenView' /\ call'.pin["place"] # Absent
               /\ {"place", "view"} \subseteq DOMAIN call'.pin
    <2>1. Checked'
      BY <1>1, <1>2, <1>6, MoveKeepsChecks
    <2>2. /\ UNCHANGED <<setting, seen>> /\ call'.pin["view"] = ViewField["view"]
          /\ call'.pin["views"] = call.pin["views"] /\ call'.pin["place"] = call.pin["place"]
          /\ {"place", "view"} \subseteq DOMAIN call'.pin
      BY <1>1, <1>6, MoveKeepsFacts
    <2>3. SeenViews /\ SeenPlace
      BY <1>1, <1>2 DEF PinKnown
    <2>4. SeenView'
      BY <1>5, <1>6, <2>2 DEF SeenView
    <2>5. SeenViews' /\ SeenPlace'
      BY <2>2, <2>3 DEF SeenViews, SeenPlace
    <2> QED
      BY <1>6, <2>1, <2>2, <2>4, <2>5
  <1>7. CASE Ends
    BY <1>7, EndsFacts, IdleKnowsNothing
  <1>8. CASE /\ call.pin.views # <<>> /\ call.pin.place # Absent
             /\ Given(call.input, "global_offset") /\ Moves(With(ViewField, GivenOffset), "object")
    <2> DEFINE facts == With(ViewField, GivenOffset)
    <2>1. /\ DOMAIN facts = {"view", "offset", "source"} /\ facts["view"] = ViewField["view"]
          /\ facts["offset"] = call.input.global_offset
      <3>1. /\ DOMAIN facts = DOMAIN ViewField \cup DOMAIN GivenOffset
            /\ \A x \in DOMAIN ViewField : facts[x] = ViewField[x]
            /\ \A x \in DOMAIN GivenOffset \ DOMAIN ViewField : facts[x] = GivenOffset[x]
        BY Merged
      <3> HIDE DEF facts
      <3> QED
        BY <1>3, <1>4, <3>1
    <2>2. Moves(facts, "object")
      BY <1>8
    <2> HIDE DEF facts
    <2>3. /\ Checked' /\ SeenViews' /\ SeenPlace' /\ SeenView' /\ call'.pin["place"] # Absent
          /\ {"place", "view"} \subseteq DOMAIN call'.pin
      BY <1>6, <1>8, <2>1, <2>2
    <2>4. /\ call'.pc = "object" /\ call'.input = call.input /\ UNCHANGED <<setting, seen>>
          /\ "offset" \in DOMAIN call'.pin /\ call'.pin["offset"] = call.input.global_offset
      BY <2>1, <2>2, MoveKeepsFacts
    <2>5. SeenOffset'
      BY <1>2, <1>8, <2>4 DEF SeenOffset, OffsetOf
    <2>6. PinKnown'
      BY <2>3, <2>4, <2>5 DEF PinKnown
    <2> QED
      BY <2>3, <2>6
  <1>9. CASE /\ call.pin.views # <<>> /\ call.pin.place # Absent
             /\ ~Given(call.input, "global_offset") /\ Moves(ViewField, "offset")
    <2>1. /\ Checked' /\ SeenViews' /\ SeenPlace' /\ SeenView' /\ call'.pin["place"] # Absent
          /\ {"place", "view"} \subseteq DOMAIN call'.pin
      BY <1>3, <1>6, <1>9
    <2>2. call'.pc = "offset" /\ call'.input = call.input
      BY <1>9, MoveKeepsFacts
    <2>3. PinKnown'
      BY <1>9, <2>1, <2>2 DEF PinKnown
    <2> QED
      BY <2>1, <2>3
  <1> QED
    BY <1>1, <1>7, <1>8, <1>9

LEMMA KnownOffset ==
    ASSUME CallShaped, Checked, PinKnown, ReadOffset
    PROVE  Checked' /\ PinKnown'
  <1>1. call.pc = "offset"
    BY OffsetStep
  <1>2. PICK facts : /\ Moves(facts, "object") /\ DOMAIN facts = {"offset", "source"}
                     /\ facts.offset = IF world.offset = Absent THEN 0 ELSE world.offset
    BY OffsetStep
  <1>3. /\ Pinning /\ world \in seen
        /\ {"place", "view"} \subseteq DOMAIN call.pin /\ call.pin.place # Absent /\ SeenView
        /\ ~Given(call.input, "global_offset")
        /\ "views" \in DOMAIN call.pin => SeenViews
        /\ SeenPlace
    BY <1>1 DEF Checked, CallShaped, PinKnown
  <1>4. Checked'
    BY <1>1, <1>2, <1>3, MoveKeepsChecks
  <1>5. /\ call'.pc = "object" /\ call'.input = call.input /\ UNCHANGED <<setting, seen>>
        /\ \A x \in DOMAIN call.pin \ {"offset", "source"} : call'.pin[x] = call.pin[x]
        /\ DOMAIN call'.pin = {"offset", "source"} \cup DOMAIN call.pin
        /\ call'.pin["offset"] = facts["offset"]
    BY <1>2, MoveKeepsFacts
  <1>6. call'.pin["offset"] = OffsetOf(call.input, world)
    BY <1>2, <1>3, <1>5 DEF OffsetOf
  <1>7. SeenOffset'
    BY <1>3, <1>5, <1>6 DEF SeenOffset
  <1>8. SeenPlace' /\ SeenView' /\ call'.pin["place"] # Absent
    BY <1>3, <1>5 DEF SeenPlace, SeenView
  <1>9. "views" \in DOMAIN call'.pin => SeenViews'
    BY <1>3, <1>5 DEF SeenViews
  <1>10. PinKnown'
    BY <1>3, <1>5, <1>7, <1>8, <1>9 DEF PinKnown
  <1> QED
    BY <1>4, <1>10

LEMMA KnownObject ==
    ASSUME CallShaped, Checked, PinKnown, ReadObject
    PROVE  Checked' /\ PinKnown'
  <1>1. call.pc = "object"
    BY ObjectStep
  <1>2. PICK o \in {world.dbid, Absent} : Moves(Field("dbid", o), "ready")
    BY ObjectStep
  <1> DEFINE facts == Field("dbid", o)
  <1>3. DOMAIN facts = {"dbid"} /\ facts["dbid"] = o /\ Moves(facts, "ready")
    BY <1>2, FieldFacts
  <1>4. /\ Pinning /\ world \in seen
        /\ {"place", "view"} \subseteq DOMAIN call.pin /\ call.pin.place # Absent /\ SeenView
        /\ "offset" \in DOMAIN call.pin /\ SeenOffset
        /\ "views" \in DOMAIN call.pin => SeenViews
        /\ SeenPlace
    BY <1>1 DEF Checked, CallShaped, PinKnown
  <1> HIDE DEF facts
  <1>5. Checked'
    <2>1. \E w \in seen : w.subtype = "active"
      BY <1>1, <1>4 DEF Checked, Pinning
    <2> QED
      BY <1>1, <1>3, <2>1, MoveKeepsChecks
  <1>6. /\ call'.pc = "ready" /\ call'.input = call.input /\ UNCHANGED <<setting, seen>>
        /\ \A x \in DOMAIN call.pin \ {"dbid"} : call'.pin[x] = call.pin[x]
        /\ DOMAIN call'.pin = {"dbid"} \cup DOMAIN call.pin
        /\ call'.pin["dbid"] = o
    BY <1>3, MoveKeepsFacts
  <1>7. SeenObject'
    BY <1>4, <1>6 DEF SeenObject
  <1>8. SeenPlace' /\ SeenView' /\ SeenOffset' /\ call'.pin["place"] # Absent
    BY <1>4, <1>6 DEF SeenPlace, SeenView, SeenOffset
  <1>9. "views" \in DOMAIN call'.pin => SeenViews'
    BY <1>4, <1>6 DEF SeenViews
  <1>10. PinKnown'
    BY <1>4, <1>6, <1>7, <1>8, <1>9 DEF PinKnown
  <1> QED
    BY <1>5, <1>10

LEMMA KnownInit == MutationInit => Checked /\ PinKnown
  BY DEF MutationInit, MutationStart, Idle, Checked, PinKnown

LEMMA KnownNext ==
    ASSUME CallShaped, WorldShaped, Checked, PinKnown, [MutationNext]_mutationVars
    PROVE  Checked' /\ PinKnown'
  <1>1. CASE \E i \in InputsOf(setting.tool), token \in offers \cup {Absent} :
               Begin(i, TRUE, Absent) \/ Begin(i, FALSE, token)
    BY <1>1, KnownBegin
  <1>2. CASE ListIssueTypes
    BY <1>2, KnownTypes
  <1>3. CASE \E f \in {"views", "place"} : ReadModel(f)
    BY <1>3, KnownModel
  <1>4. CASE ResolvePin
    BY <1>4, KnownResolve
  <1>5. CASE ReadOffset
    BY <1>5, KnownOffset
  <1>6. CASE ReadObject
    BY <1>6, KnownObject
  <1>7. CASE ReadFails \/ DryRun \/ Execute \/ Denied
    BY <1>7, EndsFacts, IdleKnowsNothing DEF ReadFails, DryRun, Execute, Denied
  <1>8. ASSUME NEW f, WorldChanges(f) PROVE Checked' /\ PinKnown'
    BY <1>8, MoreIsSeen DEF WorldChanges
  <1>9. CASE UNCHANGED mutationVars
    BY <1>9, MoreIsSeen DEF mutationVars
  <1> QED
    BY <1>1, <1>2, <1>3, <1>4, <1>5, <1>6, <1>7, <1>8, <1>9 DEF MutationNext
-----------------------------------------------------------------------------
(***************************************************************************)
(* Requests.                                                               *)
(***************************************************************************)
LEMMA PickFacts ==
    ASSUME NEW i, NEW fs
    PROVE  DOMAIN Pick(i, fs) = DOMAIN i \cap fs /\ \A f \in DOMAIN i \cap fs : Pick(i, fs)[f] = i[f]
  BY DEF Pick

\* A pin has no linked document of its own, and an offset that is given is a number.
LEMMA PinInputs ==
    ASSUME NEW i \in PinElementInputs
    PROVE  "linked_documents" \notin DOMAIN i /\ (Given(i, "global_offset") => i.global_offset = 7)
  <1> DEFINE As == [project_id : {"b.p"}, title : {"t"}, issue_subtype_id : {"s"}, due_date : {0},
                    versioned : BOOLEAN]
             Os == Optional("global_offset", {7})
             Hs == Optional("viewable_name_hint", {"v2"})
             Bs == Merge(Os, Hs)
  <1>1. i \in Merge(As, Bs)
    BY DEF PinElementInputs
  <1>2. \A a \in As : DOMAIN a = {"project_id", "title", "issue_subtype_id", "due_date", "versioned"}
    OBVIOUS
  <1>3. \A o \in Os : DOMAIN o \subseteq {"global_offset"} /\ ("global_offset" \in DOMAIN o => o["global_offset"] = 7)
    <2> TAKE o \in Os
    <2>1. o = <<>> \/ o = Field("global_offset", 7)
      BY DEF Optional
    <2>2. DOMAIN Field("global_offset", 7) = {"global_offset"} /\ Field("global_offset", 7)["global_offset"] = 7
      BY FieldFacts
    <2> HIDE DEF Os
    <2> QED
      BY <2>1, <2>2, EmptyRecord
  <1>4. \A h \in Hs : DOMAIN h \subseteq {"viewable_name_hint"}
    BY OptionalFacts
  <1> HIDE DEF As, Os, Hs
  <1>5. PICK a \in As, o \in Os, h \in Hs : i = With(a, With(o, h))
    <2>1. PICK a \in As, b \in Bs : i = With(a, b)
      <3> HIDE DEF Bs
      <3> QED
        BY <1>1 DEF Merge
    <2>2. PICK o \in Os, h \in Hs : b = With(o, h)
      BY DEF Merge
    <2> QED
      BY <2>1, <2>2
  <1>6. /\ DOMAIN With(o, h) = DOMAIN o \cup DOMAIN h
        /\ \A x \in DOMAIN o : With(o, h)[x] = o[x]
    BY Merged
  <1>7. /\ DOMAIN i = DOMAIN a \cup DOMAIN With(o, h)
        /\ \A x \in DOMAIN With(o, h) \ DOMAIN a : i[x] = With(o, h)[x]
    <2>1. /\ DOMAIN With(a, With(o, h)) = DOMAIN a \cup DOMAIN With(o, h)
          /\ \A x \in DOMAIN With(o, h) \ DOMAIN a : With(a, With(o, h))[x] = With(o, h)[x]
      BY Merged
    <2> QED
      BY <1>5, <2>1
  <1>8. "linked_documents" \notin DOMAIN i
    BY <1>2, <1>3, <1>4, <1>6, <1>7
  <1>9. "global_offset" \in DOMAIN i => i["global_offset"] = 7
    BY <1>2, <1>3, <1>4, <1>6, <1>7
  <1> QED
    BY <1>8, <1>9 DEF Given

\* Where a request of a tool that has a project goes.
LEMMA WhereItGoes ==
    ASSUME NEW tool \in Mappable, NEW i, NEW p
    PROVE  Sent(tool, i, p)[1][2] = StripBPrefix(i.project_id)
  <1>1. CASE tool = "issues_create"
    BY <1>1 DEF Sent, CreateIssueSent, CreateIssue, Issues
  <1>2. Issue(i)[2] = StripBPrefix(i.project_id)
    BY DEF Issue, Issues
  <1>3. CASE tool = "issues_update"
    BY <1>2, <1>3 DEF Sent, UpdateIssueSent, UpdateIssue
  <1>4. CASE tool = "issues_add_comment"
    BY <1>2, <1>4 DEF Sent, AddCommentSent, AddIssueComment
  <1>5. CASE tool = "reviews_create"
    BY <1>5 DEF Sent, CreateReviewSent, CreateReview
  <1> QED
    BY <1>1, <1>3, <1>4, <1>5 DEF Mappable

\* A due date in a request is the input's, and only three tools send one.
LEMMA DueDateSent ==
    ASSUME NEW tool \in Tools, NEW i \in InputsOf(tool), NEW p, Given(Sent(tool, i, p)[2], "due_date")
    PROVE  /\ tool \in {"issues_create", "issues_update", "issues_pin_element"}
           /\ Given(i, "due_date") /\ Sent(tool, i, p)[2].due_date = i.due_date
  <1> DEFINE body == Sent(tool, i, p)[2]
             fields == Pick(i, IssueFields)
  <1>0. "due_date" \in DOMAIN body
    BY DEF Given
  <1>1. DOMAIN fields = DOMAIN i \cap IssueFields /\ \A f \in DOMAIN fields : fields[f] = i[f]
    BY PickFacts
  <1>2. CASE tool \in {"issues_create", "issues_update"}
    <2>1. body = fields
      BY <1>2 DEF Sent, CreateIssueSent, CreateIssue, UpdateIssueSent, UpdateIssue
    <2> HIDE DEF fields
    <2> QED
      BY <1>0, <1>1, <1>2, <2>1 DEF Given
  <1>3. CASE tool = "issues_pin_element"
    <2> DEFINE link == Field("linked_documents", BuildPushpin(p))
    <2>1. body = With(fields, link)
      BY <1>3 DEF Sent, PinElementSent, CreateIssue, PinElementShown
    <2>2. DOMAIN link = {"linked_documents"}
      BY FieldFacts
    <2> HIDE DEF link, fields
    <2>3. DOMAIN With(fields, link) = DOMAIN fields \cup DOMAIN link
          /\ \A x \in DOMAIN fields : With(fields, link)[x] = fields[x]
      BY Merged
    <2> HIDE DEF body
    <2>4. "due_date" \in DOMAIN fields /\ body["due_date"] = fields["due_date"]
      BY <1>0, <2>1, <2>2, <2>3
    <2> QED
      BY <1>1, <1>3, <2>4 DEF Given, body
  <1>4. CASE tool = "issues_add_comment"
    <2>1. body = Field("body", i.body)
      BY <1>4 DEF Sent, AddCommentSent, AddIssueComment
    <2>2. DOMAIN Field("body", i.body) = {"body"}
      BY FieldFacts
    <2> HIDE DEF body
    <2> QED
      BY <1>0, <2>1, <2>2
  <1>5. CASE tool = "reviews_create"
    <2>1. body = Pick(i, {"workflow_id", "versions"})
      BY <1>5 DEF Sent, CreateReviewSent, CreateReview
    <2>2. DOMAIN Pick(i, {"workflow_id", "versions"}) \subseteq {"workflow_id", "versions"}
      BY PickFacts
    <2> HIDE DEF body
    <2> QED
      BY <1>0, <2>1, <2>2
  <1>6. CASE tool = "webhooks_create"
    <2> DEFINE key == SystemForEvent(i.event).key
               switch == Field("autoReactivateHook", i.auto_reactivate)
               scope == Field(key, i.scope_value)
               asked == Pick(i, {"callback_url", "filter"})
    <2>1. body = With(With(asked, scope), switch)
      BY <1>6 DEF Sent, CreateHookSent, CreateHook, HookBody
    <2>2. key \in {"project", "folder"}
      BY DEF SystemForEvent
    <2>3. DOMAIN switch = {"autoReactivateHook"}
      BY FieldFacts
    <2>5. DOMAIN asked \subseteq {"callback_url", "filter"}
      BY PickFacts
    <2> HIDE DEF key
    <2>6. DOMAIN scope = {key}
      BY FieldFacts
    <2> HIDE DEF switch, scope, asked, body
    <2>4. /\ DOMAIN With(asked, scope) = DOMAIN asked \cup DOMAIN scope
          /\ DOMAIN With(With(asked, scope), switch) = DOMAIN With(asked, scope) \cup DOMAIN switch
      BY Merged
    <2> QED
      BY <1>0, <2>1, <2>2, <2>3, <2>4, <2>5, <2>6
  <1>7. CASE tool = "webhooks_delete"
    <2>1. body = <<>>
      BY <1>7 DEF Sent, DeleteHookSent, DeleteHook
    <2> QED
      BY <1>0, <2>1, EmptyRecord
  <1>8. CASE tool = "md_trigger_translation"
    <2> DEFINE urn == Field("urn", i.urn)
               forced == IF i.force_regenerate THEN Field("compressedUrn", FALSE) ELSE <<>>
    <2>1. body = With(urn, forced)
      BY <1>8 DEF Sent, TranslationSent, TriggerMdTranslation
    <2>2. DOMAIN urn = {"urn"} /\ DOMAIN forced \subseteq {"compressedUrn"}
      BY FieldFacts, EmptyRecord
    <2> HIDE DEF urn, forced, body
    <2>3. DOMAIN With(urn, forced) = DOMAIN urn \cup DOMAIN forced
      BY Merged
    <2> QED
      BY <1>0, <2>1, <2>2, <2>3
  <1> QED
    BY <1>2, <1>3, <1>4, <1>5, <1>6, <1>7, <1>8 DEF Tools

\* The pin that is sent is the one that was read.
LEMMA PinSent ==
    ASSUME NEW i \in PinElementInputs, NEW p
    PROVE  Sent("issues_pin_element", i, p)[2].linked_documents = BuildPushpin(p)
  <1> DEFINE fields == Pick(i, IssueFields)
             link == Field("linked_documents", BuildPushpin(p))
  <1>1. Sent("issues_pin_element", i, p)[2] = With(fields, link)
    BY DEF Sent, PinElementSent, CreateIssue, PinElementShown
  <1>2. "linked_documents" \notin DOMAIN fields
    BY PinInputs, PickFacts
  <1>3. DOMAIN link = {"linked_documents"} /\ link["linked_documents"] = BuildPushpin(p)
    BY FieldFacts
  <1> HIDE DEF fields, link
  <1>4. \A x \in DOMAIN link \ DOMAIN fields : With(fields, link)[x] = link[x]
    BY Merged
  <1>5. With(fields, link)["linked_documents"] = link["linked_documents"]
    BY <1>2, <1>3, <1>4
  <1> QED
    BY <1>1, <1>3, <1>5

LEMMA PinIsHeld ==
    ASSUME CallShaped, WorldShaped, PinKnown, Pinning, call.pc = "ready",
           NEW s, s.request[2].linked_documents = BuildPushpin(call.pin), s.input = call.input, s.seen = seen
    PROVE  PinHeld(s)
  <1> DEFINE pin == BuildPushpin(call.pin)
  <1>1. /\ pin.view = call.pin.view /\ pin.objectId = call.pin.dbid /\ pin.globalOffset = call.pin.offset
        /\ pin.position = call.pin.place * UnitFactor - call.pin.offset
    BY DEF BuildPushpin, AecdmPositionToViewer
  <1>2. SeenView /\ SeenPlace /\ SeenOffset /\ SeenObject /\ call.pin.place # Absent
    BY DEF PinKnown
  <1>3. PICK w \in seen : call.pin.place = w.place
    BY <1>2 DEF SeenPlace
  <1>4. PICK v \in seen : call.pin.offset = OffsetOf(call.input, v)
    BY <1>2 DEF SeenOffset
  <1>5. w.place \in {1, 2}
    BY <1>2, <1>3 DEF WorldShaped, Worlds
  <1>6. OffsetOf(call.input, v) \in Int
    <2>1. call.input \in PinElementInputs
      BY DEF CallShaped, Pinning, InputsOf
    <2>2. CASE Given(call.input, "global_offset")
      BY <2>1, <2>2, PinInputs DEF OffsetOf
    <2>3. CASE ~Given(call.input, "global_offset")
      <3>1. v.offset \in {3, Absent}
        BY DEF WorldShaped, Worlds
      <3> QED
        BY <2>3, <3>1 DEF OffsetOf
    <2> QED
      BY <2>2, <2>3
  <1> DEFINE offset == OffsetOf(call.input, v)
  <1>7. pin.position = w.place * UnitFactor - offset /\ pin.globalOffset = offset
    BY <1>1, <1>3, <1>4
  <1>8. pin.position + offset = w.place * UnitFactor
    <2>1. w.place * UnitFactor \in Int
      BY <1>5, MutationToolsAssumption
    <2> HIDE DEF pin
    <2> QED
      BY <1>6, <1>7, <2>1
  <1>9. \E w1 \in seen : \E n \in DOMAIN w1.views : w1.views[n] = pin.view
    BY <1>1, <1>2 DEF SeenView
  <1>10. \E w1 \in seen : pin.objectId \in {w1.dbid, Absent}
    BY <1>1, <1>2 DEF SeenObject
  <1> HIDE DEF pin
  <1>11. /\ w.place # Absent /\ pin.position + OffsetOf(s.input, v) = w.place * UnitFactor
         /\ pin.globalOffset = OffsetOf(s.input, v)
    BY <1>2, <1>3, <1>7, <1>8
  <1>12. s.request[2].linked_documents = pin
    BY DEF pin
  <1>13. \E w1, v1 \in s.seen :
           LET o == IF Given(s.input, "global_offset") THEN s.input.global_offset
                    ELSE IF v1.offset = Absent THEN 0 ELSE v1.offset
           IN  w1.place # Absent /\ pin.position + o = w1.place * UnitFactor /\ pin.globalOffset = o
    <2> WITNESS w \in s.seen, v \in s.seen
    <2> QED
      BY <1>11 DEF OffsetOf
  <1> QED
    BY <1>9, <1>10, <1>12, <1>13 DEF PinHeld

\* What the property asks of one request.
Sound(s) ==
    /\ setting.tool \in {"issues_create", "issues_pin_element"} =>
         \E w \in s.seen : w.subtype = "active"
    /\ Given(s.request[2], "due_date") => \E w \in s.seen : s.request[2].due_date >= w.day
    /\ setting.tool = "issues_pin_element" => PinHeld(s)
    /\ "*" \notin setting.projects => s.request[1][2] \in setting.projects

LEMMA ReadyIsSound ==
    ASSUME CallShaped, WorldShaped, Checked, PinKnown, call.pc = "ready", NEW s,
           s.request = Sent(setting.tool, call.input, call.pin), s.input = call.input, s.seen = seen
    PROVE  Sound(s)
  <1>0. setting.tool \in Tools /\ call.input \in InputsOf(setting.tool)
    BY DEF CallShaped, Settings
  <1>1. setting.tool \in {"issues_create", "issues_pin_element"} => \E w \in s.seen : w.subtype = "active"
    BY DEF Checked
  <1>2. ASSUME Given(s.request[2], "due_date") PROVE \E w \in s.seen : s.request[2].due_date >= w.day
    <2>1. Dated /\ Given(call.input, "due_date") /\ s.request[2].due_date = call.input.due_date
      BY <1>0, <1>2, DueDateSent DEF Dated
    <2>2. \E w \in seen : call.input.due_date >= w.day
      BY <2>1 DEF Checked
    <2> QED
      BY <2>1, <2>2
  <1>3. ASSUME setting.tool = "issues_pin_element" PROVE PinHeld(s)
    <2>1. call.input \in PinElementInputs /\ Pinning
      BY <1>0, <1>3 DEF InputsOf, Pinning
    <2>2. s.request[2].linked_documents = BuildPushpin(call.pin)
      BY <1>3, <2>1, PinSent
    <2> QED
      BY <2>1, <2>2, PinIsHeld
  <1>4. ASSUME "*" \notin setting.projects PROVE s.request[1][2] \in setting.projects
    <2>1. EnforceScope(setting.tool, call.input)
      BY DEF Checked
    <2>2. setting.tool \in Mappable /\ StripBPrefix(call.input.project_id) \in setting.projects
      BY <1>4, <2>1 DEF EnforceScope, IsProjectAllowed
    <2> QED
      BY <2>2, WhereItGoes
  <1> QED
    BY <1>1, <1>2, <1>3, <1>4 DEF Sound

SoundInv == CallShaped /\ WorldShaped /\ Checked /\ PinKnown /\ SentIsSound

LEMMA SoundInit == MutationInit => SoundInv
  <1> SUFFICES ASSUME MutationInit PROVE SoundInv
    OBVIOUS
  <1>1. sent = {}
    BY DEF MutationInit, MutationStart
  <1> QED
    BY <1>1, ShapeInit, WorldInit, KnownInit DEF SoundInv, SentIsSound

LEMMA SoundNext == SoundInv /\ [MutationNext]_mutationVars => SoundInv'
  <1> SUFFICES ASSUME SoundInv, [MutationNext]_mutationVars PROVE SoundInv'
    OBVIOUS
  <1> USE DEF SoundInv
  <1>1. CallShaped' /\ WorldShaped' /\ Checked' /\ PinKnown'
    BY ShapeNext, WorldNext, KnownNext
  <1>2. \A s \in sent : Sound(s)
    BY DEF SentIsSound, Sound
  <1>3. ASSUME UNCHANGED setting, \A s \in sent' : Sound(s) PROVE SentIsSound'
    BY <1>3 DEF SentIsSound, Sound, PinHeld
  <1>4. ASSUME UNCHANGED <<setting, sent>> PROVE SentIsSound'
    BY <1>2, <1>3, <1>4
  <1>5. ASSUME Execute PROVE SentIsSound'
    <2> DEFINE new == [request |-> Sent(setting.tool, call.input, call.pin), shown |-> call.token.shown,
                       input |-> call.input, seen |-> seen]
    <2>1. UNCHANGED setting /\ sent' = sent \cup {new} /\ call.pc = "ready"
      BY <1>5 DEF Execute
    <2>2. new.request = Sent(setting.tool, call.input, call.pin) /\ new.input = call.input /\ new.seen = seen
      OBVIOUS
    <2> HIDE DEF new
    <2>3. Sound(new)
      BY <2>1, <2>2, ReadyIsSound
    <2> QED
      BY <1>2, <1>3, <2>1, <2>3
  <1>6. ASSUME \E i \in InputsOf(setting.tool), token \in offers \cup {Absent} :
               Begin(i, TRUE, Absent) \/ Begin(i, FALSE, token)
        PROVE  SentIsSound'
    BY <1>4, <1>6 DEF Begin
  <1>7. ASSUME ListIssueTypes \/ (\E f \in {"views", "place"} : ReadModel(f))
               \/ ResolvePin \/ ReadOffset \/ ReadObject \/ ReadFails \/ DryRun \/ Denied
        PROVE  SentIsSound'
    BY <1>4, <1>7 DEF ListIssueTypes, ReadModel, ResolvePin, ReadOffset, ReadObject, ReadFails, DryRun, Denied
  <1>8. ASSUME (\E f \in DOMAIN world : WorldChanges(f)) \/ UNCHANGED mutationVars
        PROVE  SentIsSound'
    BY <1>4, <1>8 DEF WorldChanges, mutationVars
  <1>9. SentIsSound'
    BY <1>5, <1>6, <1>7, <1>8 DEF MutationNext
  <1> QED
    BY <1>1, <1>9

\* What is sent was true at some moment of the call that sent it: the type active, the due
\* date not over, the pin on a view of the model at the element's position, off the offset
\* that was given or found (issues/create.ts, update.ts, pin-element.ts); and with an
\* allow-list it goes to a project on it.
THEOREM WhatIsSentIsSound == MutationSpec => []SentIsSound
  <1>1. SoundInv => SentIsSound
    BY DEF SoundInv
  <1> QED
    BY <1>1, SoundInit, SoundNext, PTL DEF MutationSpec
=============================================================================
