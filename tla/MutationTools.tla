---------------------------- MODULE MutationTools ---------------------------
(***************************************************************************)
(* The mutating tools (src/tools/issues, reviews, webhooks, md): what each *)
(* checks before it writes, what it reads at Autodesk to build its request *)
(* and in which order, what a dry run shows, what is hashed for approval,  *)
(* and what execute sends.  MutationPipeline has what is around them, with *)
(* a tool as a black box; here approval is the comparison of payloads and  *)
(* everything else of the pipeline is left out.                            *)
(*                                                                         *)
(* Autodesk's side (the project's issue types, the model's views, the      *)
(* element, the pins that are already there) and the date change between   *)
(* any two reads.  The calls of a behaviour come one after the other: they *)
(* share nothing else.                                                     *)
(*                                                                         *)
(* Abstracted: an input is a record with the fields that were given; the   *)
(* request body keeps the names of the input's fields; a position is one   *)
(* coordinate; titles and texts are values that only have to be the same.  *)
(***************************************************************************)
EXTENDS Integers, FiniteSets, Sequences

CONSTANTS
    MaxCalls,       \* calls (bound)
    MaxChanges,     \* changes at Autodesk (bound)
    UnitFactor,     \* metres to viewer units
    Absent          \* nothing: no token, no offset, no object id, no view

ASSUME MutationToolsAssumption == {MaxCalls, MaxChanges} \subseteq Nat /\ UnitFactor \in Int

VARIABLES
    setting,    \* the tool and the server's configuration of this behaviour
    world,      \* what a read at Autodesk would find, and the date
    call,       \* the call at work
    offers,     \* the dry runs whose token is not used up
    sent,       \* the requests that were sent, each with the dry run that allowed it
    seen,       \* history: the worlds since the call began
    calls, changes

mutationVars == <<setting, world, call, offers, sent, seen, calls, changes>>

Given(i, f) == f \in DOMAIN i
Pick(i, fs) == [f \in DOMAIN i \cap fs |-> i[f]]
Field(f, v) == [x \in {f} |-> v]
Optional(f, vs) == {<<>>} \cup {Field(f, v) : v \in vs}
\* All fields of both records, f's where they share one: @@, which the provers do not know.
With(f, g) == [x \in DOMAIN f \cup DOMAIN g |-> IF x \in DOMAIN f THEN f[x] ELSE g[x]]
Merge(As, Bs) == {With(a, b) : a \in As, b \in Bs}

-----------------------------------------------------------------------------
(***************************************************************************)
(* Inputs                                                                  *)
(***************************************************************************)

NoOne == ""
Assignee == {<<>>, Field("assigned_to", "u"), Field("assigned_to", NoOne),
             With(Field("assigned_to", "u"), Field("assigned_to_type", "user"))}
Due == Optional("due_date", {0, 1})

\* A pin on a PDF sheet: its position (in tenths), its viewable and its origin.
RasterPin == [x : {5}, y : {5, 11}, z : {Absent}, viewableId : {"Layout1"}, product : {"docs"}]
               \cup {[x |-> 5, y |-> 5, z |-> 1, viewableId |-> "Layout1", product |-> "docs"]}

\* A callback address: its scheme and host, or Absent when it is no address.
Callbacks == [scheme : {"https"}, host : {"hook.example", "other.example", "localhost"}]
               \cup {[scheme |-> "http", host |-> "hook.example"], Absent}

CreateIssueInputs ==
    Merge({[project_id |-> "b.p", title |-> "t", issue_subtype_id |-> "s", published |-> FALSE]},
          Merge(Due, Merge(Assignee, Optional("linked_documents", RasterPin))))

UpdateIssueInputs ==
    Merge({[project_id |-> "p", issue_id |-> "i"]},
          Merge(Due, Merge(Assignee, Optional("published", BOOLEAN))))

AddCommentInputs == [project_id : {"b.p", "p", "q"}, issue_id : {"i"}, body : {"x", "y"}]

PinElementInputs ==
    Merge([project_id : {"b.p"}, title : {"t"}, issue_subtype_id : {"s"}, due_date : {0},
           versioned : BOOLEAN],
          Merge(Optional("global_offset", {7}), Optional("viewable_name_hint", {"v2"})))

CreateReviewInputs == [project_id : {"b.p", "p"}, workflow_id : {"w"}, versions : {{"f?1"}, {"f?1", "f"}}]

CreateHookInputs ==
    Merge([event : {"dm.version.added", "issue.created-1.0"}, callback_url : Callbacks,
           scope_value : {"x"}, auto_reactivate : BOOLEAN],
          Optional("filter", {"expr"}))

DeleteHookInputs == [event : {"dm.version.added", "issue.created-1.0"}, hook_id : {"h", "k"}]

TranslationInputs == [urn : {"u", "v"}, force_regenerate : BOOLEAN]

-----------------------------------------------------------------------------
(***************************************************************************)
(* What needs no call to Autodesk                                          *)
(***************************************************************************)

StripBPrefix(id) == IF id = "b.p" THEN "p" ELSE id

\* An id is on the list with its prefix or without; the lists here hold bare ids.
IsProjectAllowed(id) == "*" \in setting.projects \/ StripBPrefix(id) \in setting.projects

\* A tool whose input cannot be mapped to a project works only while every project is allowed.
Mappable == {"issues_create", "issues_update", "issues_add_comment", "reviews_create"}
EnforceScope(tool, i) ==
    IF tool \in Mappable THEN IsProjectAllowed(i.project_id) ELSE "*" \in setting.projects

NotInThePast(i, today) == Given(i, "due_date") => i.due_date >= today
\* An empty assignee, which unassigns, needs no type.
AssigneeTyped(i) ==
    Given(i, "assigned_to") /\ i.assigned_to # NoOne => Given(i, "assigned_to_type")

\* A pin on a sheet: a position of two normalised coordinates, a viewable of ACC Docs, its origin.
RasterContract(d) ==
    /\ d.z = Absent
    /\ d.x \in 0 .. 10 /\ d.y \in 0 .. 10
    /\ d.viewableId # Absent
    /\ d.product = "docs"

CreateIssueRules(i, today) ==
    /\ Given(i, "linked_documents") => RasterContract(i.linked_documents)
    /\ NotInThePast(i, today) /\ AssigneeTyped(i)

Updatable == {"status", "issue_subtype_id", "title", "description", "assigned_to", "due_date",
              "root_cause_id", "location_id", "published"}
UpdateIssueRules(i, today) ==
    DOMAIN i \cap Updatable # {} /\ NotInThePast(i, today) /\ AssigneeTyped(i)

\* The model's file is named by the URN of one version of it.
PinElementRules(i, today) == NotInThePast(i, today) /\ AssigneeTyped(i)
LineageFromVersionUrn(i) == i.versioned

CreateReviewRules(i) == i.versions \subseteq {"f?1"}

IsUnreachableHost(host) == host = "localhost"
ValidCallbackUrl(url) ==
    /\ url # Absent
    /\ url.scheme = "https"
    /\ ~IsUnreachableHost(url.host)
    /\ "*" \in setting.hosts \/ url.host \in setting.hosts

RunBusinessRules(tool, i, today) ==
    CASE tool = "issues_create"      -> CreateIssueRules(i, today)
      [] tool = "issues_update"      -> UpdateIssueRules(i, today)
      [] tool = "issues_pin_element" -> PinElementRules(i, today) /\ LineageFromVersionUrn(i)
      [] tool = "reviews_create"     -> CreateReviewRules(i)
      [] tool = "webhooks_create"    -> ValidCallbackUrl(i.callback_url)
      [] OTHER -> TRUE

-----------------------------------------------------------------------------
(***************************************************************************)
(* Requests: where they go and their body.  The dry run of a tool builds   *)
(* one to show, and what is hashed for approval; execute builds another,   *)
(* with the function of src/apis.                                          *)
(***************************************************************************)

Issues(i) == <<"issues", StripBPrefix(i.project_id)>>
Issue(i) == Append(Issues(i), i.issue_id)
IssueFields == Updatable \cup {"assigned_to_type", "linked_documents"}

CreateIssue(i, body) == <<Issues(i), body>>
UpdateIssue(i, body) == <<Issue(i), body>>
AddIssueComment(i, text) == <<Issue(i), Field("body", text)>>

CreateIssueShown(i) == <<Issues(i), Pick(i, IssueFields)>>
CreateIssueSent(i) == CreateIssue(i, Pick(i, IssueFields))

UpdateIssueShown(i) == <<Issue(i), Pick(i, IssueFields)>>
UpdateIssueSent(i) == UpdateIssue(i, Pick(i, IssueFields))

AddCommentShown(i) == <<Issue(i), Pick(i, {"body"})>>
AddCommentSent(i) == AddIssueComment(i, i.body)

\* Metres to the viewer's unit, off the model's origin.
AecdmPositionToViewer(place, offset) == place * UnitFactor - offset

\* A pin as it was resolved: its view, position, offset and object.
BuildPushpin(p) == [view |-> p.view, position |-> AecdmPositionToViewer(p.place, p.offset),
                    globalOffset |-> p.offset, objectId |-> p.dbid]

PinElementShown(i, p) ==
    <<Issues(i), With(Pick(i, IssueFields), Field("linked_documents", BuildPushpin(p)))>>

\* A pin that is resolved once more when it is sent.
SentAfterResolving(i, p) ==
    CreateIssue(i, PinElementShown(i, [p EXCEPT !.place = IF world.place = Absent THEN @ ELSE world.place])[2])

\* The pin that was resolved and compared with the approval is the one that is sent.
PinElementSent(i, p) == CreateIssue(i, PinElementShown(i, p)[2])

CreateReview(i, body) == <<<<"reviews", StripBPrefix(i.project_id)>>, body>>
CreateReviewShown(i) ==
    <<<<"reviews", StripBPrefix(i.project_id)>>, Pick(i, {"workflow_id", "versions"})>>
CreateReviewSent(i) == CreateReview(i, Pick(i, {"workflow_id", "versions"}))

SystemForEvent(event) ==
    IF event = "issue.created-1.0" THEN [system |-> "autodesk.construction.issues", key |-> "project"]
    ELSE [system |-> "data", key |-> "folder"]

Hooks(event) == <<SystemForEvent(event).system, event>>
HookBody(i) ==
    With(Pick(i, {"callback_url", "filter"}), Field(SystemForEvent(i.event).key, i.scope_value))

\* auto_reactivate is shown when it is TRUE, and sent always.
CreateHookShown(i) ==
    <<Hooks(i.event),
      With(HookBody(i), IF i.auto_reactivate THEN Field("autoReactivateHook", TRUE) ELSE <<>>)>>
CreateHook(i) == <<Hooks(i.event), With(HookBody(i), Field("autoReactivateHook", i.auto_reactivate))>>

\* The address is checked once more; the list of hosts has not changed since.
CreateHookSent(i) == CreateHook(i)

DeleteHook(event, id) == <<Append(Hooks(event), id), <<>>>>
DeleteHookShown(i) == <<Append(Hooks(i.event), i.hook_id), <<>>>>
DeleteHookSent(i) == DeleteHook(i.event, i.hook_id)

TriggerMdTranslation(urn, force) ==
    <<<<"job">>, With(Field("urn", urn), IF force THEN Field("compressedUrn", FALSE) ELSE <<>>)>>
TranslationShown(i) ==
    <<<<"job">>,
      With(Field("urn", i.urn), IF i.force_regenerate THEN Field("compressedUrn", FALSE) ELSE <<>>)>>
TranslationSent(i) == TriggerMdTranslation(i.urn, i.force_regenerate)

Tools == {"issues_create", "issues_update", "issues_add_comment", "issues_pin_element",
          "reviews_create", "webhooks_create", "webhooks_delete", "md_trigger_translation"}

InputsOf(tool) ==
    CASE tool = "issues_create"          -> CreateIssueInputs
      [] tool = "issues_update"          -> UpdateIssueInputs
      [] tool = "issues_add_comment"     -> AddCommentInputs
      [] tool = "issues_pin_element"     -> PinElementInputs
      [] tool = "reviews_create"         -> CreateReviewInputs
      [] tool = "webhooks_create"        -> CreateHookInputs
      [] tool = "webhooks_delete"        -> DeleteHookInputs
      [] tool = "md_trigger_translation" -> TranslationInputs

Shown(tool, i, p) ==
    CASE tool = "issues_create"          -> CreateIssueShown(i)
      [] tool = "issues_update"          -> UpdateIssueShown(i)
      [] tool = "issues_add_comment"     -> AddCommentShown(i)
      [] tool = "issues_pin_element"     -> PinElementShown(i, p)
      [] tool = "reviews_create"         -> CreateReviewShown(i)
      [] tool = "webhooks_create"        -> CreateHookShown(i)
      [] tool = "webhooks_delete"        -> DeleteHookShown(i)
      [] tool = "md_trigger_translation" -> TranslationShown(i)

Sent(tool, i, p) ==
    CASE tool = "issues_create"          -> CreateIssueSent(i)
      [] tool = "issues_update"          -> UpdateIssueSent(i)
      [] tool = "issues_add_comment"     -> AddCommentSent(i)
      [] tool = "issues_pin_element"     -> PinElementSent(i, p)
      [] tool = "reviews_create"         -> CreateReviewSent(i)
      [] tool = "webhooks_create"        -> CreateHookSent(i)
      [] tool = "webhooks_delete"        -> DeleteHookSent(i)
      [] tool = "md_trigger_translation" -> TranslationSent(i)

\* What is hashed for approval.  A pin also says where its offset is from, a review has the
\* project id as it was given, and the last three are hashed by their input.
Payload(tool, i, p) ==
    CASE tool \in {"issues_create", "issues_update", "issues_add_comment"} -> Shown(tool, i, p)
      [] tool = "issues_pin_element" -> <<Shown(tool, i, p), p.source>>
      [] tool = "reviews_create" -> <<i.project_id, Shown(tool, i, p)[2]>>
      [] OTHER -> i

-----------------------------------------------------------------------------
(***************************************************************************)
(* Calls                                                                   *)
(***************************************************************************)

Settings == [tool : Tools, projects : {{"*"}, {"p"}}, hosts : {{"*"}, {"hook.example"}}]

\* The type's state, the model's 3D views, where the element is, the offset of a pin that is
\* there, the element's object, and the date.
Worlds == [subtype : {"active", "inactive", Absent}, views : {<<>>, <<"v1">>, <<"v1", "v2">>},
           place : {1, 2, Absent}, offset : {3, Absent}, dbid : {8, Absent}, day : {0, 1}]

Idle == [pc |-> "idle"]

MutationStart ==
    /\ world = [subtype |-> "active", views |-> <<"v1", "v2">>, place |-> 1, offset |-> Absent,
                dbid |-> 8, day |-> 0]
    /\ call = Idle
    /\ offers = {} /\ sent = {} /\ seen = {}
    /\ calls = 0 /\ changes = 0

MutationInit == setting \in Settings /\ MutationStart

Ends == call' = Idle /\ seen' = {}
Goes(pc) == call' = [call EXCEPT !.pc = pc] /\ UNCHANGED seen
Learns(facts, pc) == call' = [call EXCEPT !.pc = pc, !.pin = With(facts, @)] /\ UNCHANGED seen

\* The allow-list and the rules, before anything is read.  A token is the dry run it is from.
Begin(i, dry, token) ==
    /\ call.pc = "idle" /\ calls < MaxCalls
    /\ calls' = calls + 1
    /\ IF EnforceScope(setting.tool, i) /\ RunBusinessRules(setting.tool, i, world.day)
       THEN /\ call' = [pc |-> IF setting.tool \in {"issues_create", "issues_pin_element"}
                               THEN "types" ELSE "ready",
                        input |-> i, dry |-> dry, token |-> token, pin |-> <<>>]
            /\ seen' = {world}
       ELSE UNCHANGED <<call, seen>>
    /\ UNCHANGED <<setting, world, offers, sent, changes>>

\* A type that only has to exist.
UsableIfPresent(subtype) == subtype # Absent
Usable(subtype) == subtype = "active"

ListIssueTypes ==
    /\ call.pc = "types"
    /\ IF ~Usable(world.subtype) THEN Ends
       ELSE Goes(IF setting.tool = "issues_create" THEN "ready" ELSE "model")
    /\ UNCHANGED <<setting, world, offers, sent, calls, changes>>

\* The manifest and the element's position are asked for at once and come in either order.
ReadModel(f) ==
    /\ call.pc = "model" /\ f \notin DOMAIN call.pin
    /\ Learns(Field(f, world[f]), "model")
    /\ UNCHANGED <<setting, world, offers, sent, calls, changes>>

\* The view of the hint, else the first; the offset of the input, else that of a pin.
ChosenView(views, i) ==
    IF Given(i, "viewable_name_hint") /\ \E n \in DOMAIN views : views[n] = i.viewable_name_hint
    THEN i.viewable_name_hint ELSE views[1]

ResolvePin ==
    /\ call.pc = "model" /\ {"views", "place"} \subseteq DOMAIN call.pin
    /\ IF call.pin.views = <<>> \/ call.pin.place = Absent THEN Ends
       ELSE LET view == Field("view", ChosenView(call.pin.views, call.input))
            IN  IF Given(call.input, "global_offset")
                THEN Learns(With(view, [offset |-> call.input.global_offset, source |-> "provided"]), "object")
                ELSE Learns(view, "offset")
    /\ UNCHANGED <<setting, world, offers, sent, calls, changes>>

ReadOffset ==
    /\ call.pc = "offset"
    /\ Learns(IF world.offset = Absent THEN [offset |-> 0, source |-> "fallback_zero"]
              ELSE [offset |-> world.offset, source |-> "existing_pin"], "object")
    /\ UNCHANGED <<setting, world, offers, sent, calls, changes>>

\* The object's id is best effort: a lookup that fails leaves it out.
ReadObject ==
    /\ call.pc = "object"
    /\ \E dbid \in {world.dbid, Absent} : Learns(Field("dbid", dbid), "ready")
    /\ UNCHANGED <<setting, world, offers, sent, calls, changes>>

\* A read that fails ends the call (but for the object's).
ReadFails ==
    /\ call.pc \in {"types", "model", "offset"}
    /\ Ends
    /\ UNCHANGED <<setting, world, offers, sent, calls, changes>>

BuiltPayload == Payload(setting.tool, call.input, call.pin)
BuiltShown == Shown(setting.tool, call.input, call.pin)

DryRun ==
    /\ call.pc = "ready" /\ call.dry
    /\ offers' = offers \cup {[payload |-> BuiltPayload, shown |-> BuiltShown]}
    /\ Ends
    /\ UNCHANGED <<setting, world, sent, calls, changes>>

Approved == call.token # Absent /\ call.token.payload = BuiltPayload

Execute ==
    /\ call.pc = "ready" /\ ~call.dry /\ Approved
    /\ offers' = offers \ {call.token}
    /\ sent' = sent \cup {[request |-> Sent(setting.tool, call.input, call.pin), shown |-> call.token.shown,
                           input |-> call.input, seen |-> seen]}
    /\ Ends
    /\ UNCHANGED <<setting, world, calls, changes>>

Denied ==
    /\ call.pc = "ready" /\ ~call.dry /\ ~Approved
    /\ Ends
    /\ UNCHANGED <<setting, world, offers, sent, calls, changes>>

\* Other users of Autodesk, new versions of the model, and midnight.
Reads == CASE setting.tool = "issues_create" -> {"subtype", "day"}
           [] setting.tool = "issues_pin_element" -> {"subtype", "views", "place", "offset"}
           [] setting.tool = "issues_update" -> {"day"}
           [] OTHER -> {}

WorldChanges(f) ==
    /\ f \in Reads /\ changes < MaxChanges
    /\ world' \in {w \in Worlds : w # world /\ w = [world EXCEPT ![f] = w[f]]}
    /\ world'.day >= world.day
    /\ seen' = IF call.pc = "idle" THEN seen ELSE seen \cup {world'}
    /\ changes' = changes + 1
    /\ UNCHANGED <<setting, call, offers, sent, calls>>

MutationNext ==
    \/ \E i \in InputsOf(setting.tool), token \in offers \cup {Absent} :
         Begin(i, TRUE, Absent) \/ Begin(i, FALSE, token)
    \/ ListIssueTypes
    \/ \E f \in {"views", "place"} : ReadModel(f)
    \/ ResolvePin \/ ReadOffset \/ ReadObject \/ ReadFails
    \/ DryRun \/ Execute \/ Denied
    \/ \E f \in DOMAIN world : WorldChanges(f)

MutationSpec == MutationInit /\ [][MutationNext]_mutationVars

-----------------------------------------------------------------------------
(***************************************************************************)
(* Properties                                                              *)
(***************************************************************************)

\* A call at work has its input, its token is an offer or none, and the requests are built from facts.
MutationTypeOK ==
    /\ setting \in Settings
    /\ world \in Worlds
    /\ call.pc \in {"idle", "types", "model", "offset", "object", "ready"}
    /\ call # Idle => /\ call.input \in InputsOf(setting.tool)
                      /\ call.dry \in BOOLEAN
                      /\ call.token = Absent \/ call.token \in offers
                      /\ DOMAIN call.pin \subseteq {"views", "place", "view", "offset", "source", "dbid"}
    /\ DOMAIN Idle \subseteq DOMAIN call
    /\ seen \subseteq Worlds /\ (call = Idle <=> seen = {})
    /\ calls \in 0 .. MaxCalls /\ changes \in 0 .. MaxChanges

\* What is sent is what the dry run showed (dry-run.ts:59-60), although the input is given
\* twice and Autodesk is read twice: but for a hook's auto_reactivate, which is sent when it
\* is FALSE and shown only when it is TRUE.
SentAsApproved ==
    \A s \in sent : \/ s.request = s.shown
                    \/ /\ setting.tool = "webhooks_create"
                       /\ s.request = <<s.shown[1], With(s.shown[2], Field("autoReactivateHook", FALSE))>>

\* What is sent rests on what was true at some moment of the call that sent it: an active
\* type, a due date not over, a view and a position of the element with the offset that the
\* input or a pin had; and with an allow-list its project is on it.
PinHeld(s) ==
    LET pin == s.request[2].linked_documents
    IN  /\ \E w \in s.seen : \E n \in DOMAIN w.views : w.views[n] = pin.view
        /\ \E w, v \in s.seen :
             LET offset == IF Given(s.input, "global_offset") THEN s.input.global_offset
                           ELSE IF v.offset = Absent THEN 0 ELSE v.offset
             IN  /\ w.place # Absent
                 /\ pin.position + offset = w.place * UnitFactor
                 /\ pin.globalOffset = offset
        /\ \E w \in s.seen : pin.objectId \in {w.dbid, Absent}

SentIsSound ==
    \A s \in sent :
      /\ setting.tool \in {"issues_create", "issues_pin_element"} =>
           \E w \in s.seen : w.subtype = "active"
      /\ Given(s.request[2], "due_date") => \E w \in s.seen : s.request[2].due_date >= w.day
      /\ setting.tool = "issues_pin_element" => PinHeld(s)
      /\ "*" \notin setting.projects => s.request[1][2] \in setting.projects

=============================================================================
