----------------------------- MODULE DocumentClaims -----------------------------
(***************************************************************************)
(* What the /run graph makes of a document's text: the claims Gemini names, *)
(* or those of the extracted fields, the evidence each rests on, the values *)
(* the decisions show and the regions of the page they highlight.           *)
(*   backend/app/agent_orchestration/graph.py                               *)
(*   backend/app/agent_orchestration/semantic_normalization.py              *)
(*   backend/app/workflow/runtime.py            the view of the extraction  *)
(* A text is the set of its words, {} a text of symbols only, and to be part *)
(* of a text is to be a subset of it.  A region is the smallest rectangle,  *)
(* on some page, around the coordinates of some pieces of evidence: what     *)
(* else stands inside it is not told.  0 is the region that the extraction  *)
(* gave the field itself.  Colours are those of TrustVerdict, plans those   *)
(* of RunPlanning.                                                          *)
(***************************************************************************)
EXTENDS Naturals, Sequences, FiniteSets

CONSTANTS FieldIds,      \* claim ids, field ids: what Gemini and the extraction use
          Texts,         \* normalised texts
          Blank,         \* no value
          NamedPages,    \* bound: pages Gemini may name, 1 when it names none
          MaxEvidence,   \* bound: pieces of evidence
          MaxClaims      \* bound: claims of an answer, fields of an extraction

ASSUME ClaimsAssumption ==
    /\ Blank \notin Texts /\ {} \in Texts
    /\ NamedPages \subseteq Nat \ {0}
    /\ MaxEvidence \in Nat /\ MaxClaims \in Nat

VARIABLES node,         \* of the graph, what it has done last
          evidence,     \* evidence_graph.evidence: the text and the page of each piece
          fields,       \* view.field_details, view.field_candidates or trust_input.fields
          claims,       \* view.field_details, once discovery has replaced it
          dynamic,      \* who named the claims: view.dynamic_claims is set
          normalized,   \* normalized_fields
          unsafe,       \* document_understanding.unsafe_or_malformed, once it is read
          decisions     \* field_decisions, then those of the workspace

claimsVars == <<node, evidence, fields, claims, dynamic, normalized, unsafe, decisions>>

Values == Texts \cup {Blank}
Pieces == 1 .. MaxEvidence
Pages == 0 .. 2          \* 0: the piece has no bounding box
UpTo(n, S) == UNION {[1 .. k -> S] : k \in 0 .. n}

Evidence == [text : Texts, page : Pages]
\* Where the extraction found a field: it may know its region, and the evidence too.
Places == {"nowhere", "region", "evidence"}
Field == [id : FieldIds, value : Values, generic : BOOLEAN, place : Places]
RawClaim == [id : FieldIds, value : Values, cited : SUBSET Pieces, page : NamedPages]

ClaimsInit ==
    /\ node = "extracted"
    /\ evidence \in UpTo(MaxEvidence, Evidence)
    /\ fields = <<>>
    /\ claims = <<>>
    /\ dynamic = "none"
    /\ normalized = <<>>
    /\ unsafe = FALSE
    /\ decisions = <<>>

-----------------------------------------------------------------------------
(* Regions.                                                                *)

Region(page, ids) == <<[page |-> page, spans |-> ids]>>

Boxed(ids) == {e \in ids : evidence[e].page # 0}

\* _merge_evidence_geometry(): one rectangle around all that have one, whatever their
\* pages, on the page that Gemini names for the claim, 1 if it names none.
Hull(page, ids) == IF Boxed(ids) = {} THEN <<>> ELSE Region(page, Boxed(ids))

First(S) == CHOOSE e \in S : \A d \in S : e <= d
FirstThree(S) == {e \in S : Cardinality({d \in S : d < e}) < 3}

\* _box_from_evidence_items(): a rectangle around those on the first of their pages.
OnFirstPage(S) ==
    LET page == First({evidence[e].page : e \in S})
    IN Region(page, {e \in S : evidence[e].page = page})

-----------------------------------------------------------------------------
(* Claims.                                                                 *)

\* _match_evidence_ids_for_value()
Matching(value) ==
    LET exact == {e \in DOMAIN evidence : evidence[e].text = value}
        partial == {e \in DOMAIN evidence :
                       value \subseteq evidence[e].text \/ evidence[e].text \subseteq value}
    IN IF value = {} THEN {} ELSE FirstThree(IF exact # {} THEN exact ELSE partial)

\* Evidence that does not exist is not cited; a claim that cites none is matched.
Ground(raw) ==
    LET cited == raw.cited \cap DOMAIN evidence
        ids == IF cited = {} /\ raw.value # Blank THEN Matching(raw.value) ELSE cited
    IN [id |-> raw.id, value |-> raw.value, cited |-> ids,
        boxes |-> Hull(raw.page, ids)]

OwnBoxes(f) == IF f.place = "nowhere" THEN <<>> ELSE Region(1, {0})

\* _deterministic_dynamic_claims_from_existing_fields(): fields without a name of
\* their own serve only when there are no others.
Serving(fs) ==
    LET named == {i \in DOMAIN fs : ~fs[i].generic}
        chosen == IF named # {} THEN named ELSE DOMAIN fs \cap 1 .. 5
    IN {i \in chosen : fs[i].value # Blank}

\* The places of a sequence that are in S, in their order; there is one such.
InOrder(S) == {o \in [1 .. Cardinality(S) -> S] : \A i, j \in DOMAIN o : i < j => o[i] < o[j]}

FieldClaim(f) ==
    [id |-> f.id, value |-> f.value,
     cited |-> IF f.place = "evidence" THEN {1} ELSE {}, boxes |-> OwnBoxes(f)]

\* A document without an evidence graph keeps its fields.
NoEvidenceGraph ==
    /\ node = "extracted"
    /\ evidence = <<>>
    /\ fields' \in UpTo(MaxClaims, Field) \ {<<>>}
    /\ node' = "discovered"
    /\ UNCHANGED <<evidence, claims, dynamic, normalized, unsafe, decisions>>

GeminiNamesClaims ==
    /\ node = "extracted"
    /\ evidence # <<>>
    /\ \E raw \in UpTo(MaxClaims, RawClaim) :
          /\ raw # <<>>
          /\ claims' = [i \in DOMAIN raw |-> Ground(raw[i])]
    /\ dynamic' = "gemini"
    /\ node' = "discovered"
    /\ UNCHANGED <<evidence, fields, normalized, unsafe, decisions>>

\* Gemini is not there, fails or names no claim.
FieldsNameClaims ==
    /\ node = "extracted"
    /\ evidence # <<>>
    /\ fields' \in UpTo(MaxClaims, Field) \ {<<>>}
    /\ \E order \in InOrder(Serving(fields')) :
          claims' = [i \in DOMAIN order |-> FieldClaim(fields'[order[i]])]
    /\ dynamic' = IF claims' = <<>> THEN "none" ELSE "fields"
    /\ node' = "discovered"
    /\ UNCHANGED <<evidence, normalized, unsafe, decisions>>

-----------------------------------------------------------------------------
(* Values.                                                                 *)

\* Mutant: what the normalisation answers passes for what was extracted.
ExtractedOfNormalized(source, answer) == answer

ExtractedValue(source, answer) == source.value

\* _deterministic_normalized_fields(): claims, else the candidates of the view, else
\* the fields of the trust input, which have no region.
Sources ==
    IF claims # <<>> THEN claims
    ELSE [i \in DOMAIN fields |->
             [id |-> fields[i].id, value |-> fields[i].value,
              cited |-> {}, boxes |-> OwnBoxes(fields[i])]]

NormalizedField(source, answer) ==
    [id |-> source.id, extracted |-> ExtractedValue(source, answer),
     normalized |-> answer, boxes |-> source.boxes]

\* _gemini_field_normalization(): by Gemini or not, a value there was stays a value.
NormalizeFields ==
    /\ node = "discovered"
    /\ \E answers \in [FieldIds -> Values] :
          normalized' = [i \in DOMAIN Sources |->
              NormalizedField(Sources[i],
                  IF answers[Sources[i].id] = Blank THEN Sources[i].value
                  ELSE answers[Sources[i].id])]
    /\ node' = "normalized"
    /\ UNCHANGED <<evidence, fields, claims, dynamic, unsafe, decisions>>

-----------------------------------------------------------------------------
(* Decisions.                                                              *)

LastWith(seq, id) == seq[CHOOSE i \in DOMAIN seq :
    seq[i].id = id /\ \A j \in DOMAIN seq : seq[j].id = id => j <= i]

\* Mutant: the first claim of an id is kept, not the last.
FirstClaim(id) == {claims[i] : i \in {i \in DOMAIN claims :
    claims[i].id = id /\ \A j \in DOMAIN claims : claims[j].id = id => i <= j}}

\* _dynamic_claim_by_field_id(): at most one.
ClaimOf(id) ==
    {claims[i] : i \in {i \in DOMAIN claims :
        claims[i].id = id /\ \A j \in DOMAIN claims : claims[j].id = id => j <= i}}

CitedBy(id) == UNION {c.cited : c \in ClaimOf(id)}

\* The i-th decision on a field: its label, status and AI confidence are those of the
\* finding on the i-th claim.
DecisionOn(i, field) ==
    [finding |-> i, id |-> field.id, extracted |-> field.extracted,
     normalized |-> field.normalized, boxes |-> field.boxes, evidence_ids |-> CitedBy(field.id)]

\* The findings of a safe document look their field up by its id, and so take the
\* last; the decisions of an unsafe document are made field by field.
Decide ==
    /\ node = "normalized"
    /\ unsafe' \in BOOLEAN
    /\ decisions' = [i \in DOMAIN normalized |-> DecisionOn(i,
          IF unsafe' THEN normalized[i] ELSE LastWith(normalized, normalized[i].id))]
    /\ node' = "decided"
    /\ UNCHANGED <<evidence, fields, claims, dynamic, normalized>>

\* Mutant: the text is looked for on the whole page.
SearchEverywhere(ids) == Boxed(DOMAIN evidence)

SearchedEvidence(ids) == Boxed(ids)

\* _best_specific_evidence_box(): the smallest piece that says it, else those that
\* are part of it, else the smallest that contains it.
SpecificBoxes(text, ids) ==
    LET boxed == SearchedEvidence(ids)
        exact == {e \in boxed : evidence[e].text = text}
        tokens == {e \in boxed : evidence[e].text # {} /\ evidence[e].text \subseteq text}
        containing == {e \in boxed : text \subseteq evidence[e].text}
    IN IF text \in {Blank, {}} THEN {<<>>}
       ELSE IF exact # {} THEN {OnFirstPage({e}) : e \in exact}
       ELSE IF tokens # {} THEN {OnFirstPage(tokens)}
       ELSE IF containing # {} THEN {OnFirstPage({e}) : e \in containing}
       ELSE {<<>>}

\* _canonical_workspace_boxes_for_decision(): where the value stands and where its
\* label does, else the region the decision came with; two at the most.
Highlights(d, label) ==
    LET value == IF d.normalized # Blank THEN d.normalized ELSE d.extracted
    IN {IF v \o l = <<>> THEN d.boxes ELSE IF v = l THEN v ELSE v \o l :
            v \in SpecificBoxes(value, d.evidence_ids), l \in SpecificBoxes(label, d.evidence_ids)}

\* _build_workspace_payload()
BuildWorkspace ==
    /\ node = "decided"
    /\ \E label \in Texts :
          \E boxes \in [DOMAIN decisions -> UNION {Highlights(decisions[i], label) : i \in DOMAIN decisions}] :
              /\ \A i \in DOMAIN decisions : boxes[i] \in Highlights(decisions[i], label)
              /\ decisions' = [i \in DOMAIN decisions |-> [decisions[i] EXCEPT !.boxes = boxes[i]]]
    /\ node' = "published"
    /\ UNCHANGED <<evidence, fields, claims, dynamic, normalized, unsafe>>

ClaimsNext ==
    \/ NoEvidenceGraph \/ GeminiNamesClaims \/ FieldsNameClaims
    \/ NormalizeFields \/ Decide \/ BuildWorkspace

ClaimsSpec == ClaimsInit /\ [][ClaimsNext]_claimsVars

-----------------------------------------------------------------------------
(***************************************************************************)
(* When the extraction's own fields are what is decided on, no answer of    *)
(* the normalisation changes the value a decision shows as extracted.       *)
(***************************************************************************)
ExtractedValuesStand ==
    \A i \in DOMAIN decisions : dynamic # "gemini" =>
        \E j \in DOMAIN fields :
            fields[j].id = decisions[i].id /\ fields[j].value = decisions[i].extracted

(***************************************************************************)
(* When Gemini, or the extraction, gives two claims one id, the value and   *)
(* the evidence of a decision are still of one claim, the last of that id.  *)
(* The finding it takes its label, its status and its confidence from is on *)
(* a claim with the same id: on that very claim, unless the id is repeated. *)
(* (For an unsafe document not even the value and the evidence need be of   *)
(* one claim: graph.py:582-586.)                                            *)
(***************************************************************************)
DecisionOfOneClaim ==
    \A i \in DOMAIN decisions : dynamic # "none" /\ ~unsafe =>
        \E j \in DOMAIN claims :
            /\ claims[j].id = decisions[i].id
            /\ claims[j].value = decisions[i].extracted
            /\ claims[j].cited = decisions[i].evidence_ids
            /\ claims[decisions[i].finding].id = decisions[i].id

(***************************************************************************)
(* What is highlighted for a decision is a rectangle around evidence that a *)
(* claim with its id cites, on the page where all of that evidence is, or   *)
(* the region that a claim or a field with its id came with: none is drawn  *)
(* around the evidence of another claim.  The region of a claim of Gemini's *)
(* is on the page Gemini says, whatever else is there (README, section 7).  *)
(***************************************************************************)
HighlightsBelong ==
    \A i \in DOMAIN decisions : node = "published" =>
        \A b \in {decisions[i].boxes[k] : k \in DOMAIN decisions[i].boxes} :
            \E c \in {Sources[j] : j \in DOMAIN Sources} :
                /\ c.id = decisions[i].id
                /\ \/ /\ b.spans \subseteq c.cited
                      /\ \A e \in b.spans : evidence[e].page = b.page
                   \/ b \in {c.boxes[k] : k \in DOMAIN c.boxes}

(***************************************************************************)
(* "Overlay logic must only use real bounding boxes. Never invent geometry" *)
(* (docs/ai/SKILL.md:134): a highlight around evidence is on the page of    *)
(* that evidence.  The code does not keep this (graph.py:1384, 1555-1581):  *)
(* TLC refutes it, with one claim and two pages in NamedPages.              *)
(***************************************************************************)
HighlightsAreReal ==
    \A i \in DOMAIN decisions : node = "published" =>
        \A b \in {decisions[i].boxes[k] : k \in DOMAIN decisions[i].boxes} :
            \A e \in b.spans \ {0} : evidence[e].page = b.page

=============================================================================
