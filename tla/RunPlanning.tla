------------------------------ MODULE RunPlanning ------------------------------
(***************************************************************************)
(* From the claims of a document to the results of its verification tasks:  *)
(* the groups of claims, a route and a task for each, the plan that the     *)
(* executor runs and the bundle of results of each credential.              *)
(*   backend/app/agent_orchestration/graph.py     the nodes of the graph    *)
(*   backend/app/verification_domain/adapters.py  the plan of the planner   *)
(*   backend/app/verifier_execution/executor.py   execution and bundles     *)
(* What a provider answers, and who is asked next, is ProviderAttempts; what *)
(* the results say of the claims is TrustVerdict.                           *)
(***************************************************************************)
EXTENDS CredentialPlanning

CONSTANTS Fields,        \* what the extraction may find
          Descriptions,  \* what Gemini may say of a claim: source, intent, important
          Families,      \* document families
          Registries,    \* providers of the process, in order
          GroupIds,      \* credential ids that Gemini names
          GroupTypes,    \* claim types that Gemini names
          MaxFields,     \* bound: fields of a document
          MaxClaims,     \* bound: claims of an answer of Gemini
          MaxGroups      \* bound: groups of an answer of Gemini

ASSUME RunPlanningAssumption ==
    /\ Fields \subseteq Field
    /\ MaxFields \in Nat
    /\ MaxClaims \in Nat
    /\ MaxGroups \in Nat

VARIABLES pc,
          providers,    \* the executor's and the planner's registry
          family,       \* the document's family, also its type
          items,        \* view.dynamic_claims, else view.field_candidates
          claimed,      \* the items are dynamic claims
          groups,       \* credential_groups
          tasks,        \* verification_tasks
          credentials,  \* domain_credentials.credentials
          plan,         \* domain_verification_plan: tasks and route decisions
          results,      \* task_results
          bundles       \* credential_bundles

vars == <<pc, providers, family, items, claimed, groups, tasks, credentials, plan, results,
          bundles>>
document == <<providers, family, items, claimed>>

UpTo(n, S) == UNION {[1 .. k -> S] : k \in 0 .. n}
RangeOf(s) == {s[i] : i \in DOMAIN s}
Distinct(s) == {i \in DOMAIN s : \A j \in 1 .. i - 1 : s[j] # s[i]}
WithoutRepeats(s) == Those(s, Distinct(s))
Last(S) == CHOOSE i \in S : \A j \in S : j <= i

Audits == {"VERIFIED", "MISMATCH", "PARTIAL", "UNVERIFIED", "MANUAL_REVIEW"}
Plan(ts, rs) == [tasks |-> ts, routes |-> rs]

Init ==
    /\ pc = "extracted"
    /\ providers \in Registries
    /\ family \in Families
    /\ items = <<>>
    /\ claimed = FALSE
    /\ groups = <<>>
    /\ tasks = <<>>
    /\ credentials = <<>>
    /\ plan = Plan(<<>>, <<>>)
    /\ results = <<>>
    /\ bundles = <<>>

-----------------------------------------------------------------------------
(* The claims of the document.                                             *)

Documents == {s \in UpTo(MaxFields, Fields) :
                 \A i, j \in DOMAIN s : s[i].id = s[j].id => i = j}

Discovered(asClaims) ==
    /\ pc = "extracted"
    /\ claimed' = asClaims
    /\ pc' = "grouping"
    /\ UNCHANGED <<providers, family, groups, tasks, credentials, plan, results, bundles>>

\* Without an evidence graph the candidates of the extraction stay.
KeepCandidates ==
    \E found \in Documents :
        Discovered(FALSE) /\ items' = [i \in DOMAIN found |-> ByExtraction(found[i])]

FieldsNameClaims ==
    \E found \in Documents \ {<<>>} :
        Discovered(TRUE) /\ items' = [i \in DOMAIN found |-> ByLabel(found[i])]

\* Gemini may name two claims alike.
GeminiNamesClaims ==
    \E found \in UpTo(MaxClaims, Fields) \ {<<>>} :
    \E d \in [DOMAIN found -> Descriptions] :
        /\ Discovered(TRUE)
        /\ items' = [i \in DOMAIN found |->
                         Described(found[i], d[i].source, d[i].intent, d[i].important)]

-----------------------------------------------------------------------------
(* Groups of claims.                                                       *)

\* _claim_type_from_field(), when no claim has the id of the field: its id and label tell.
TypeOfLabel(words) == FirstOf(<<
    <<Has(words, {"identity", "passport", "aadhaar", "pan", "name", "dob"}), "identity">>,
    <<Has(words, {"employment", "employer", "job", "role"}), "employment">>,
    <<Has(words, {"invoice", "amount", "tax", "balance", "account"}), "financial">>,
    <<Has(words, {"certificate", "certification", "credential", "license"}), "certificate">>,
    <<Has(words, {"issuer", "institution", "organization", "authority"}), "issuer_identity">>,
    <<TRUE, "generic_claim">>>>)

TypeOfClaim(e) ==
    IF e.intent \in {"date_validity", "issuer_authenticity"} THEN e.source \o "_" \o e.intent
    ELSE IF e.intent = "generic_record" THEN e.source
    ELSE e.intent

\* Mutant: a field has the type of the claim it comes from, whatever its id.
TypeOfItem(i) ==
    IF claimed THEN TypeOfClaim(items[i])
    ELSE TypeOfLabel(items[i].words \cup IdTokens[items[i].id])

\* The last claim with the id of a field says what is claimed of it.
GroupType(i) ==
    IF claimed
    THEN TypeOfClaim(items[Last({j \in DOMAIN items : items[j].id = items[i].id})])
    ELSE TypeOfLabel(items[i].words \cup IdTokens[items[i].id])

\* The fields of trust_input, by name: they are there when nothing was extracted.
TrustFields ==
    LET field(name, type) == [id |-> name, type |-> type, mandatory |-> name = "name"]
    IN <<field("name", "identity"), field("issuer", "issuer_identity"),
         field("credential", "certificate"), field("date", "generic_claim"),
         field("id", "generic_claim")>>

\* normalized_fields, as they are grouped; there is always one.
Normalized ==
    IF items = <<>> THEN TrustFields
    ELSE [i \in DOMAIN items |->
             [id |-> items[i].id, type |-> GroupType(i), mandatory |-> items[i].mandatory]]

Members(type) == {i \in DOMAIN Normalized : Normalized[i].type = type}

DeterministicGroup(id, type) ==
    LET members == Members(type)
        required == {i \in members : Normalized[i].mandatory}
        ids(I) == Those([i \in DOMAIN Normalized |-> Normalized[i].id], I)
    IN [id |-> id, type |-> type, fields |-> ids(members),
        required |-> ids(IF required = {} THEN members ELSE required),
        optional |-> required = {}]

DeterministicGroups ==
    LET types == WithoutRepeats([i \in DOMAIN Normalized |-> Normalized[i].type])
    IN [k \in DOMAIN types |-> DeterministicGroup(<<"credential", k>>, types[k])]

Grouped(answer) ==
    /\ pc = "grouping"
    /\ groups' = answer
    /\ pc' = "tasking"
    /\ UNCHANGED <<document, tasks, credentials, plan, results, bundles>>

GroupByType == Grouped(DeterministicGroups)

\* Gemini groups as it likes, in no group at all too, and may name two groups alike.
GeminiGroup == [id : GroupIds, type : GroupTypes, optional : BOOLEAN, required : {<<>>},
                fields : {[i \in DOMAIN items |-> items[i].id]}]

GroupByGemini == \E answer \in UpTo(MaxGroups, GeminiGroup) : Grouped(answer)

-----------------------------------------------------------------------------
(* Routes and tasks.                                                       *)

Canonical(type) == FirstOf(<<
    <<type \in {"person_name", "name", "identity_document", "document_identifier"}, "identity">>,
    <<type \in {"issuer", "organization", "institution"}, "issuer_authenticity">>,
    <<type \in {"credential", "qualification", "academic_degree"}, "academic">>,
    <<type \in {"date", "issue_date", "expiry_date"}, "date_validity">>,
    <<type = "location", "address">>,
    <<type \in {"amount", "monetary_amount"}, "financial">>,
    <<type \in {"generic_claim", "document"}, "generic_record">>,
    <<TRUE, type>>>>)

\* _recommend_route_for_group()
Route(g) ==
    [candidates |-> ProviderCandidates(Canonical(g.type), Canonical(g.type), providers),
     optional |-> g.optional]

\* The route of the last group of a credential serves all of them.
RouteFor(id) == Route(groups[Last({i \in DOMAIN groups : groups[i].id = id})])

GroupTask(g) ==
    LET fields == WithoutRepeats(IF g.fields # <<>> THEN g.fields ELSE g.required)
        required == WithoutRepeats(IF g.required # <<>> THEN g.required ELSE fields)
    IN [credential |-> g.id, type |-> g.type, candidates |-> RouteFor(g.id).candidates,
        required |-> ~RouteFor(g.id).optional,
        fields |-> IF required # <<>> THEN required ELSE <<g.id>>]

PlanTasks ==
    /\ pc = "tasking"
    /\ tasks' = [i \in DOMAIN groups |-> GroupTask(groups[i])]
    /\ pc' = "planning"
    /\ UNCHANGED <<document, groups, credentials, plan, results, bundles>>

-----------------------------------------------------------------------------
(* The plan that the executor runs.                                        *)

\* _verifier_key_for_claim_type(): fewer types than the registry knows.
GraphVerifier(type) ==
    IF Canonical(type) \in {"identity", "issuer_authenticity", "academic", "date_validity",
                            "address", "financial"}
    THEN VerifierKey(Canonical(type)) ELSE "manual_review"

DomainTask(t) ==
    [credential |-> t.credential, type |-> t.type, candidates |-> t.candidates,
     required |-> t.required, fields |-> t.fields, verifier |-> GraphVerifier(t.type)]

\* A task of a credential that the planner does not know brings it along, without a value.
ReferencedCredential(t) ==
    [id |-> t.credential, label |-> {}, category |-> Canonical(t.type), status |-> "eligible",
     value |-> Blank, page |-> 0, confidence |-> 0, required |-> t.required]

\* Mutant: a credential is added for the tasks that have to succeed only.
RequiredCredentialsOnly(known, ts) ==
    LET ids == {c.id : c \in RangeOf(known)}
        new == {i \in DOMAIN ts : ts[i].required /\ ts[i].credential \notin ids}
    IN known \o Those([i \in DOMAIN ts |-> ReferencedCredential(ts[i])], new)

\* _credentials_with_generalized_task_refs(): once for each credential.
WithReferenced(known, ts) ==
    LET ids == {c.id : c \in RangeOf(known)}
        new == {i \in DOMAIN ts : /\ ts[i].credential \notin ids
                                  /\ \A j \in 1 .. i - 1 : ts[j].credential # ts[i].credential}
    IN known \o Those([i \in DOMAIN ts |-> ReferencedCredential(ts[i])], new)

\* _route_decision_from_domain_task(): manual review too is somebody who is preferred.
GroupRoute(t) == [credential |-> t.credential, verifier |-> t.verifier,
                  manual |-> t.candidates = <<>>]

\* _route_decision_from_task()
RouteDecision(t) == [credential |-> t.credential, verifier |-> t.verifier,
                     manual |-> t.candidates[1] = "manual_review"]

\* build_session_verification_plan(): a credential without a task needs no verification.
RouteOfCredential(c, ts) ==
    LET own == {i \in DOMAIN ts : ts[i].credential = c.id}
    IN IF own = {} THEN [credential |-> c.id, verifier |-> "not_required", manual |-> FALSE]
       ELSE RouteDecision(ts[Last(own)])

\* The tasks of the groups replace those of the planner, unless there are none.
PlanForRuntime ==
    LET planned == PlannedCredentials(items, family)
        grouped == [i \in DOMAIN tasks |-> DomainTask(tasks[i])]
        own == CredentialTasks(planned, family, providers)
    IN  /\ pc = "planning"
        /\ \/ /\ tasks # <<>>
              /\ credentials' = WithReferenced(planned, grouped)
              /\ plan' = Plan(grouped, [i \in DOMAIN grouped |-> GroupRoute(grouped[i])])
           \/ /\ tasks = <<>>
              /\ credentials' = planned
              /\ plan' = Plan(own, [i \in DOMAIN planned |-> RouteOfCredential(planned[i], own)])
        /\ pc' = "running"
        /\ UNCHANGED <<document, groups, tasks, results, bundles>>

-----------------------------------------------------------------------------
(* Execution.                                                              *)

TasksLeft == Len(results) < Len(plan.tasks)
Task == plan.tasks[Len(results) + 1]

\* credential_lookup: the last credential with the id.
CredentialsWith(id) == {i \in DOMAIN credentials : credentials[i].id = id}
CredentialOf(t) == credentials[Last(CredentialsWith(t.credential))]

\* Some candidate of the task can answer for its credential.
Executable(t) ==
    /\ CredentialsWith(t.credential) # {}
    /\ \E p \in RangeOf(t.candidates) \ {"manual_review"} :
          Supports(p, t.verifier, CredentialOf(t).category)

Recorded(audit) ==
    /\ results' = Append(results, [credential |-> Task.credential, audit |-> audit,
                                   known |-> CredentialsWith(Task.credential) # {}])
    /\ UNCHANGED <<pc, document, groups, tasks, credentials, plan, bundles>>

\* It may fail, and the next one too.
ExecuteByProvider ==
    \E audit \in Audits : pc = "running" /\ TasksLeft /\ Executable(Task) /\ Recorded(audit)

\* The credential is unknown or no candidate can answer.
ExecuteManually ==
    pc = "running" /\ TasksLeft /\ ~Executable(Task) /\ Recorded("MANUAL_REVIEW")

\* AUDIT_PRIORITY, best first.
Priority == <<"MISMATCH", "VERIFIED", "PARTIAL", "UNVERIFIED", "MANUAL_REVIEW", "NOT_APPLICABLE">>

BestOf(found) == FirstOf([i \in DOMAIN Priority |-> <<Priority[i] \in found, Priority[i]>>])

Bundle(c) ==
    LET found == {results[i].audit : i \in {i \in DOMAIN results : results[i].credential = c.id}}
    IN [credential |-> c.id,
        audit |-> IF found # {} THEN BestOf(found)
                  ELSE IF c.required THEN "UNVERIFIED" ELSE "NOT_APPLICABLE"]

BuildBundles ==
    /\ pc = "running" /\ ~TasksLeft
    /\ bundles' = [i \in DOMAIN credentials |-> Bundle(credentials[i])]
    /\ pc' = "done"
    /\ UNCHANGED <<document, groups, tasks, credentials, plan, results>>

Next ==
    \/ KeepCandidates \/ FieldsNameClaims \/ GeminiNamesClaims
    \/ GroupByType \/ GroupByGemini
    \/ PlanTasks \/ PlanForRuntime
    \/ ExecuteByProvider \/ ExecuteManually
    \/ BuildBundles

Spec == Init /\ [][Next]_vars

-----------------------------------------------------------------------------
(* Properties.                                                             *)

JustPlanned == pc = "running" /\ results = <<>>
HasValueOfItsOwn(i) ==
    items[i].value # Blank /\ \A j \in DOMAIN items \ {i} :
                                 items[j].value # items[i].value \/ items[j].page # items[i].page

\* Of two fields that differ in their values and pages only, and in their ids only as far
\* as nobody looks into them, the planner makes credentials of both or of neither, wherever
\* they stand: what supports a field may come after it.
AlikeFieldsAlikePlanned ==
    LET nature(i) == [items[i] EXCEPT !.id = IdTokens[@], !.value = 0, !.page = 0]
        planned(i) == \E c \in RangeOf(credentials) :
                          c.value = items[i].value /\ c.page = items[i].page
    IN JustPlanned => \A i, j \in DOMAIN items :
           HasValueOfItsOwn(i) /\ HasValueOfItsOwn(j) /\ nature(i) = nature(j)
               => (planned(i) <=> planned(j))

\* Unless Gemini groups the claims, every mandatory field is what exactly one task is
\* about, and that task is not optional, even if two claims have one id, and the name that
\* trust_input asks for even if the document has no field.
MandatoryFieldsPlanned ==
    pc = "planning" /\ groups = DeterministicGroups =>
        \A i \in DOMAIN Normalized : Normalized[i].mandatory =>
            LET about == {k \in DOMAIN tasks : Normalized[i].id \in RangeOf(tasks[k].fields)}
            IN Cardinality(about) = 1 /\ \A k \in about : tasks[k].required

\* Whoever made the plan and whatever Gemini named its groups, each task has a route and
\* a credential that the executor finds, and what the task found reaches the bundle of
\* that credential: a contradiction whatever the other tasks of the credential found.
ResultsReachBundles ==
    /\ JustPlanned => \A t \in RangeOf(plan.tasks) : \E r \in RangeOf(plan.routes) :
                      r.credential = t.credential /\ r.verifier # "not_required"
    /\ pc = "done" => \A r \in RangeOf(results) :
           /\ r.known
           /\ \E b \in RangeOf(bundles) :
                 b.credential = r.credential /\ (r.audit = "MISMATCH" => b.audit = "MISMATCH")

=============================================================================
