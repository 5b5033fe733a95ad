-------------------------- MODULE CredentialPlanning --------------------------
(***************************************************************************)
(* The deterministic planner: which fields of a document become credentials *)
(* to verify, which stay context, and the verifiers that may answer.        *)
(*   backend/app/verification_domain/planner.py                             *)
(*   backend/app/workflow/task_planner.py                                   *)
(*   backend/app/verifier_execution/registry.py                             *)
(*   backend/app/agent_orchestration/graph.py        fields that describe   *)
(*                                                   themselves             *)
(* A label is the set of the words and phrases that the code looks for in   *)
(* it, and so is an id, which is searched too.  A value is known by the     *)
(* patterns it matches, a confidence is a percentage.                       *)
(***************************************************************************)
EXTENDS Naturals, Sequences, FiniteSets

CONSTANTS Ids,      \* field ids, claim ids
          Tokens,   \* words and phrases of labels and ids
          IdTokens, \* those of an id
          Values,   \* values, up to case
          Blank     \* no value

ASSUME PlanningAssumption == Blank \notin Values /\ IdTokens \in [Ids -> SUBSET Tokens]

Patterns == {"name", "date", "aadhaar", "pan", "passport", "license", "identifier", "phone",
             "email", "address", "institution", "grade", "year", "result"}

\* What the extraction found: boxed if it knows the region.
Field == [id : Ids, words : SUBSET Tokens, matches : SUBSET Patterns, value : Values \cup {Blank},
          confidence : 0 .. 100, page : Nat, boxed : BOOLEAN, mandatory : BOOLEAN]

\* The rule that comes first among those that hold.
FirstOf(rules) ==
    rules[CHOOSE i \in DOMAIN rules : rules[i][1] /\ \A j \in 1 .. i - 1 : ~rules[j][1]][2]

Has(words, tokens) == words \cap tokens # {}

\* Positions of a sequence one after the other, and what a sequence has there.
InOrder(I) ==
    [k \in 1 .. Cardinality(I) |-> CHOOSE i \in I : Cardinality({j \in I : j <= i}) = k]
Those(s, I) == LET order == InOrder(I) IN [k \in 1 .. Cardinality(I) |-> s[order[k]]]

-----------------------------------------------------------------------------
(* How a field is described: by the extraction, by its label when the graph *)
(* makes claims of the fields, or by Gemini.                                *)

ExtractedCategory(words) == FirstOf(<<
    <<Has(words, {"name", "holder", "candidate", "student"}), "personal_name">>,
    <<Has(words, {"issuer", "institution", "organization", "university", "school"}), "institution">>,
    <<Has(words, {"credential", "degree", "certificate", "license"}), "credential_title">>,
    <<Has(words, {"date", "dob"}), "date">>,
    <<Has(words, {"id", "number", "roll", "registration"}), "identifier">>,
    <<Has(words, {"grade", "score", "cgpa", "result"}), "score">>,
    <<Has(words, {"email", "phone"}), "contact">>,
    <<TRUE, "other">>>>)

DataType(words) == FirstOf(<<
    <<Has(words, {"name"}), "person_name">>,
    <<Has(words, {"id", "number", "roll", "registration", "application"}), "identifier">>,
    <<Has(words, {"date"}) \/ words = {"dob"}, "date">>,
    <<Has(words, {"institution", "issuer", "organization", "university", "school"}), "organization">>,
    <<Has(words, {"score", "grade", "result", "cgpa"}), "score">>,
    <<TRUE, "free_text">>>>)

Intent(words) == FirstOf(<<
    <<DataType(words) \in {"person_name", "identifier"}, "identity">>,
    <<Has(words, {"candidate", "application", "roll", "registration", "score", "grade", "result"}),
      "academic">>,
    <<DataType(words) = "date", "date_validity">>,
    <<DataType(words) = "organization", "issuer_authenticity">>,
    <<TRUE, "manual_review">>>>)

Described(f, source, intent, important) ==
    [id |-> f.id, words |-> f.words, matches |-> f.matches, value |-> f.value,
     confidence |-> f.confidence, page |-> f.page, boxed |-> f.boxed, mandatory |-> f.mandatory,
     source |-> source, intent |-> intent, important |-> important]

\* No intent: the entry is a candidate of the extraction, not a claim.
ByExtraction(f) == Described(f, ExtractedCategory(f.words), "", FALSE)
ByLabel(f) == Described(f, DataType(f.words), Intent(f.words), TRUE)

-----------------------------------------------------------------------------
(* The semantic key of an entry.                                           *)

\* The name of a source is searched like a label.
SourceTokens(source) ==
    CASE source \in {"person_name", "personal_name", "program_name"} -> {"name"}
      [] source \in {"date", "date_of_birth", "date_reference", "issue_date", "expiry_date"} -> {"date"}
      [] source \in {"institution", "identifier", "score", "email", "address"} -> {source}
      [] source = "credential_title" -> {"credential"}
      [] source = "registration_number" -> {"registration"}
      [] source = "license_number" -> {"license"}
      [] source = "phone_number" -> {"phone"}
      [] OTHER -> {}

Haystack(e) == e.words \cup IdTokens[e.id] \cup SourceTokens(e.source)

SemanticKey(e, family) ==
    LET has(tokens) == Has(Haystack(e), tokens)
        fits(p) == p \in e.matches
        numbered == e.source = "document_number"
        registered == e.source = "registration_number"
    IN FirstOf(<<
    <<has({"name"}) /\ has({"student"}), "student_name">>,
    <<has({"name"}) /\ has({"full name", "holder name", "applicant name"}), "full_name">>,
    <<has({"name"}), "generic_name">>,
    <<e.source \in {"date_of_birth", "address", "email", "phone_number", "credential_title",
                    "program_branch", "license_number", "issue_date", "expiry_date"}, e.source>>,
    <<e.source = "issuer" /\ has({"board"}), "board_name">>,
    <<e.source = "issuer" /\ (has({"institution", "university", "school"}) \/ family = "academic"),
      "institution_name">>,
    <<e.source = "issuer", "issuer">>,
    <<registered /\ has({"seat"}), "seat_number">>,
    <<registered /\ (has({"roll", "registration"}) \/ family = "academic"), "roll_number">>,
    <<registered, "registration_number">>,
    <<numbered /\ (has({"passport"}) \/ fits("passport")), "passport_number">>,
    <<numbered /\ (has({"license"}) \/ fits("license")), "license_number">>,
    <<numbered, "document_number">>,
    <<e.source = "tax_identifier" /\ ~has({"pan"}) /\ ~fits("pan"), "tax_identifier">>,
    <<e.source = "national_identifier" /\ ~has({"aadhaar"}) /\ ~fits("aadhaar"),
      "government_identifier">>,
    <<e.source = "score" /\ has({"grade"}) /\ ~has({"marks", "percentage", "cgpa", "score"}), "grade">>,
    <<e.source = "score", "marks">>,
    <<e.source = "date_reference" /\ has({"exam year"}), "exam_year">>,
    <<e.source = "date_reference" /\ has({"result"}), "result_status">>,
    <<e.source = "date_reference", "date_reference">>,
    <<has({"aadhaar"}) \/ fits("aadhaar"), "aadhaar_number">>,
    <<has({"pan"}) \/ fits("pan"), "pan_number">>,
    <<has({"passport"}), "passport_number">>,
    <<has({"license"}), "license_number">>,
    <<has({"roll number"}), "roll_number">>,
    <<has({"institution", "university"}), "institution_name">>,
    <<has({"board"}), "board_name">>,
    <<has({"dob"}), "date_of_birth">>,
    <<has({"issue date"}), "issue_date">>,
    <<has({"expiry date"}), "expiry_date">>,
    <<has({"phone"}), "phone_number">>,
    <<has({"email"}), "email">>,
    <<has({"address"}), "address">>,
    <<has({"credential", "degree"}), "credential_title">>,
    <<has({"date"}) \/ fits("date"), "date_reference">>,
    <<has({"id", "identifier", "number", "registration", "roll"}), "document_number">>,
    <<TRUE, "unknown">>>>)

-----------------------------------------------------------------------------
(* Decisions.  An entry may be supported by the others of its document,     *)
(* whatever becomes of them.                                                *)

IdentityAnchors == {"date_of_birth", "aadhaar_number", "pan_number", "passport_number",
                    "license_number", "document_number"}
AcademicAnchors == {"roll_number", "seat_number", "institution_name", "board_name", "marks",
                    "grade", "result_status", "exam_year", "student_name"}
DocumentAnchors == {"document_number", "issue_date", "expiry_date", "institution_name",
                    "board_name", "issuer"}

\* Mutant: only what came before an entry supports it.
AnchoredSoFar(entries, i, keys) == \E j \in 1 .. i : entries[j].key \in keys

Anchored(entries, i, keys) == \E j \in DOMAIN entries : entries[j].key \in keys

SupportsContext(entries, i, family, context) ==
    LET personal == family \in {"identity", "passport", "license", "tax"}
        has(tokens) == Has(entries[i].words, tokens)
    IN CASE context = "any" -> TRUE
         [] context = "academic" -> family = "academic" \/ Anchored(entries, i, AcademicAnchors)
         [] context = "identity" ->
                \/ has({"full name", "holder name", "applicant name"})
                \/ personal
                \/ Anchored(entries, i, IdentityAnchors)
         [] context = "document" ->
                \/ has({"passport", "license", "document number"})
                \/ personal
                \/ /\ Anchored(entries, i, IdentityAnchors)
                   /\ Anchored(entries, i, DocumentAnchors)

\* What an entry of a key needs: a pattern, a confidence, the support of the document.
Quality == [
    full_name |-> <<"name", 75, "any">>,           student_name |-> <<"name", 0, "academic">>,
    date_of_birth |-> <<"date", 70, "any">>,       aadhaar_number |-> <<"aadhaar", 72, "any">>,
    pan_number |-> <<"pan", 72, "any">>,           passport_number |-> <<"passport", 72, "any">>,
    license_number |-> <<"license", 72, "any">>,   roll_number |-> <<"identifier", 72, "academic">>,
    seat_number |-> <<"identifier", 72, "academic">>,
    institution_name |-> <<"institution", 75, "academic">>,
    board_name |-> <<"institution", 75, "academic">>,
    document_number |-> <<"identifier", 72, "document">>,
    phone_number |-> <<"phone", 75, "any">>,       email |-> <<"email", 75, "any">>,
    address |-> <<"address", 80, "any">>,          marks |-> <<"grade", 68, "academic">>,
    grade |-> <<"grade", 68, "academic">>,         result_status |-> <<"result", 70, "academic">>,
    exam_year |-> <<"year", 72, "academic">>]

Passes(entries, i, family) ==
    LET e == entries[i]
        quality == Quality[e.key]
    IN  /\ e.key \in DOMAIN Quality
        /\ quality[1] \in e.matches
        /\ e.confidence >= quality[2]
        /\ SupportsContext(entries, i, family, quality[3])

MetadataKeys == {"date_of_birth", "document_number", "marks", "grade", "result_status",
                 "exam_year", "issue_date", "expiry_date", "date_reference"}
ContextKeys == {"generic_name", "credential_title", "program_branch", "issuer",
                "registration_number"} \cup (DOMAIN Quality \ MetadataKeys)

Category(key, family) ==
    CASE key = "address" -> "address"
      [] key = "passport_number" -> "passport"
      [] key = "license_number" -> "license"
      [] key = "pan_number" -> "tax"
      [] key \in AcademicAnchors -> "academic"
      [] key = "document_number" /\ family \in {"passport", "license", "tax", "academic"} -> family
      [] OTHER -> "identity"

PromotedLabel(key) ==
    CASE key = "student_name" -> {"student", "name"}
      [] key = "full_name" -> {"full name"}
      [] OTHER -> {key}

\* The claim asks for a verification that suits its data.
DynamicallyEligible(e) ==
    \/ e.intent = "identity" /\ e.source = "person_name"
    \/ e.intent = "academic"
       /\ e.source \in {"identifier", "score", "status", "person_name", "organization"}
    \/ e.intent = "issuer_authenticity" /\ e.source = "organization"
    \/ e.intent = "date_validity" /\ e.source = "date"
    \/ e.intent \in {"employment", "financial", "address", "generic_record"}

DynamicallyManual(e) ==
    \/ e.intent = "manual_review"
    \/ e.source \in {"unknown", "free_text"} /\ e.important

\* A candidate of the extraction has no raw_value to take its source text from.
Grounded(e) == e.boxed \/ (e.intent # "" /\ e.value # Blank)

Status(status, label, category) == [status |-> status, label |-> label, category |-> category]
Discard == Status("discard", {}, "unknown")

PlanningDecision(entries, i, family) ==
    LET e == entries[i]
        key == e.key
        generic == key = "generic_name" /\ "name" \in e.matches
        promoted(k) == Status("eligible", PromotedLabel(k), Category(k, family))
    IN FirstOf(<<
    <<~Grounded(e) \/ e.confidence < 55, Discard>>,
    <<DynamicallyEligible(e), Status("eligible", e.words, e.intent)>>,
    <<DynamicallyManual(e), Status("context", e.words, "manual_review")>>,
    <<generic /\ SupportsContext(entries, i, family, "academic"), promoted("student_name")>>,
    <<generic /\ SupportsContext(entries, i, family, "identity"), promoted("full_name")>>,
    <<Passes(entries, i, family), promoted(key)>>,
    <<key \in ContextKeys, Status("context", PromotedLabel(key), Category(key, family))>>,
    <<key \in MetadataKeys, Status("metadata", PromotedLabel(key), Category(key, family))>>,
    <<TRUE, Discard>>>>)

-----------------------------------------------------------------------------
(* Credentials.                                                            *)

\* _build_planner_entries(): nothing is planned of a field without a value.
Entries(items, family) ==
    LET valued == Those(items, {i \in DOMAIN items : items[i].value # Blank})
        entry(e) == [id |-> e.id, words |-> e.words, matches |-> e.matches, value |-> e.value,
                     confidence |-> e.confidence, page |-> e.page, boxed |-> e.boxed,
                     source |-> e.source, intent |-> e.intent, important |-> e.important,
                     key |-> SemanticKey(e, family)]
    IN [i \in DOMAIN valued |-> entry(valued[i])]

\* _build_credential()
Credential(e, decision) ==
    [id |-> e.id, label |-> decision.label, category |-> decision.category,
     status |-> decision.status, value |-> e.value, page |-> e.page,
     confidence |-> e.confidence, required |-> decision.status = "eligible"]

Same(c, d) ==
    c.label = d.label /\ c.value = d.value /\ c.page = d.page /\ c.status = d.status

\* _dedupe_credentials(): in the place of the first of its kind, the first of those
\* of the highest confidence.
Dedupe(cs) ==
    LET first == InOrder({i \in DOMAIN cs : \A j \in 1 .. i - 1 : ~Same(cs[j], cs[i])})
        best(i) == CHOOSE b \in DOMAIN cs :
                       /\ Same(cs[b], cs[i])
                       /\ \A d \in DOMAIN cs : Same(cs[d], cs[i]) =>
                             \/ cs[d].confidence < cs[b].confidence
                             \/ cs[d].confidence = cs[b].confidence /\ b <= d
    IN [k \in DOMAIN first |-> cs[best(first[k])]]

\* build_planned_credentials(), without the context fields.
PlannedCredentials(items, family) ==
    LET entries == Entries(items, family)
        planned == [i \in DOMAIN entries |->
                       Credential(entries[i], PlanningDecision(entries, i, family))]
    IN Dedupe(Those(planned, {i \in DOMAIN planned : planned[i].status = "eligible"}))

-----------------------------------------------------------------------------
(* Verifiers and providers.                                                *)

RegistryVerifier == [
    identity |-> "identity_db", academic |-> "academic_registry",
    academic_degree |-> "academic_registry", issuer_authenticity |-> "academic_registry",
    organization |-> "academic_registry", date_validity |-> "certificate_registry",
    certificate |-> "certificate_registry", address |-> "address_check",
    passport |-> "passport_db", license |-> "license_registry",
    financial |-> "financial_registry", tax |-> "tax_authority"]

VerifierKey(type) ==
    IF type \in DOMAIN RegistryVerifier THEN RegistryVerifier[type] ELSE "manual_review"

Supports(p, verifier, category) ==
    CASE p = "local_mock" ->
            /\ verifier # "manual_review"
            /\ category \in {"identity", "address", "passport", "academic", "certificate",
                             "license", "financial", "tax"}
      [] p = "entra_verified_id" ->
            /\ verifier \in {"identity_db", "academic_registry", "certificate_registry"}
            /\ category \in {"identity", "academic", "certificate"}

\* get_provider_candidates(): never empty; without a provider a person decides.
ProviderCandidates(type, category, providers) ==
    LET able == {i \in DOMAIN providers : Supports(providers[i], VerifierKey(type), category)}
    IN IF able = {} THEN <<"manual_review">> ELSE Those(providers, able)

\* infer_claim_type()
ClaimType(c, family) == FirstOf(<<
    <<c.category = "academic" \/ family = "academic", "academic_degree">>,
    <<c.category \in {"identity", "address", "passport", "license", "financial", "tax",
                      "certificate"}, c.category>>,
    <<Has(c.label, {"degree", "transcript", "institution", "university"}), "academic_degree">>,
    <<Has(c.label, {"passport"}), "passport">>,
    <<Has(c.label, {"license"}), "license">>,
    <<Has(c.label, {"address"}), "address">>,
    <<Has(c.label, {"certificate"}), "certificate">>,
    <<Has(c.label, {"tax"}), "tax">>,
    <<Has(c.label, {"account", "financial"}), "financial">>,
    <<Has(c.label, {"name", "identity"}), "identity">>,
    <<TRUE, c.category>>>>)

\* build_verification_tasks(): the first candidate decides who verifies.
CredentialTask(c, family, providers) ==
    LET type == ClaimType(c, family)
        candidates == ProviderCandidates(type, c.category, providers)
    IN [credential |-> c.id, type |-> type, candidates |-> candidates, required |-> TRUE,
        fields |-> <<>>,   \* it names kinds of fields, none of the document
        verifier |-> IF candidates = <<"manual_review">> THEN "manual_review"
                     ELSE VerifierKey(type)]

CredentialTasks(credentials, family, providers) ==
    LET verified == Those(credentials, {i \in DOMAIN credentials : credentials[i].required})
    IN [i \in DOMAIN verified |-> CredentialTask(verified[i], family, providers)]

=============================================================================
