---------------------------- MODULE RunGraphProofs ----------------------------
(***************************************************************************)
(* Proofs about the graph of a /run request: GeminiEnrichment, the control  *)
(* of its stages, for any number of requests and keys, and at the end       *)
(* DocumentClaims, what its nodes make of the document.                     *)
(*                                                                          *)
(* An exhausted key is not hammered, and READY means served.                *)
(*                                                                          *)
(* RefusalsBounded is not inductive: a refusal may be added while calls are *)
(* under way.  PoolInv counts those calls with the refusals, and says that  *)
(* a key that is not cooling down has had none.                              *)
(***************************************************************************)
EXTENDS GeminiEnrichment, DocumentClaims, FiniteSetTheorems, WellFoundedInduction, TLAPS

\* The requests that wait for an answer to this key.
Asking(k) == {r \in Runs : pc[r] = "asking" /\ Key(r) = k}

KeyOK(k) ==
    /\ refusals[k] \in Nat
    /\ k \notin cooling => refusals[k] = 0
    /\ refusals[k] + Cardinality(Asking(k)) <= Cardinality(Runs)

PoolInv ==
    /\ pc \in [Runs -> {"begin", "key", "asking", "done"}]
    /\ DOMAIN order = Runs
    /\ DOMAIN refusals = Keys
    /\ \A k \in Keys : KeyOK(k)

ServedInv ==
    /\ fallback \in [Runs -> BOOLEAN]
    /\ replaced \in [Runs -> SUBSET Reasons]
    /\ \A r \in Runs : ~fallback[r] => "call" \notin replaced[r]

-----------------------------------------------------------------------------
(* The pool                                                                *)

LEMMA AskingFinite ==
  ASSUME NEW S \in SUBSET Runs
  PROVE  /\ IsFiniteSet(S)
         /\ Cardinality(S) \in Nat
         /\ Cardinality(Runs) \in Nat
         /\ Cardinality(S) <= Cardinality(Runs)
  BY PoolAssumption, FS_Subset, FS_CardinalityType

\* A request moves, and no other does.
LEMMA OneRunMoves ==
  ASSUME PoolInv, NEW r \in Runs, Step(r)
  PROVE  /\ pc' \in [Runs -> {"begin", "key", "asking", "done"}]
         /\ DOMAIN order' = Runs
         /\ \A u \in Runs \ {r} : pc'[u] = pc[u] /\ order'[u] = order[u]
<1> USE DEF PoolInv, runVars, poolVars
<1>1. CASE SkipDiscovery(r) \/ StageWithoutGemini(r) \/ Answered(r) \/ CallFails(r) \/ PoolExhausted(r)
  <2>1. NextStage(r)
    BY <1>1 DEF SkipDiscovery, StageWithoutGemini, Answered, CallFails, PoolExhausted
  <2> QED
    BY <2>1 DEF NextStage
<1>2. CASE BeginCall(r)
  BY <1>2 DEF BeginCall
<1>3. CASE SkipCoolingKey(r)
  BY <1>3 DEF SkipCoolingKey, Advance
<1>4. CASE AskKey(r)
  BY <1>4 DEF AskKey
<1>5. CASE RateLimited(r)
  BY <1>5 DEF RateLimited, NextKey, Advance
<1> QED
  BY <1>1, <1>2, <1>3, <1>4, <1>5 DEF Step

\* A step after which a request does not wait for an answer.
LEMMA AskingShrinks ==
  ASSUME PoolInv, NEW r \in Runs, Step(r), pc'[r] # "asking", NEW k \in Keys
  PROVE  Asking(k)' = Asking(k) \ {r}
<1>1. \A u \in Runs \ {r} : pc'[u] = pc[u] /\ order'[u] = order[u]
  BY OneRunMoves
<1> QED
  BY <1>1 DEF Asking, Key

\* Without a refusal, the calls that are over make room.
LEMMA QuietStep ==
  ASSUME PoolInv, NEW r \in Runs, Step(r), pc'[r] # "asking", UNCHANGED <<refusals, cooling>>
  PROVE  PoolInv'
<1>1. ASSUME NEW k \in Keys PROVE KeyOK(k)'
  <2>1. Asking(k)' \subseteq Asking(k) /\ IsFiniteSet(Asking(k))
    BY AskingShrinks, AskingFinite DEF Asking
  <2>2. Cardinality(Asking(k)') <= Cardinality(Asking(k))
    BY <2>1, FS_Subset
  <2>3. Cardinality(Asking(k)') \in Nat /\ Cardinality(Asking(k)) \in Nat
    BY <2>1, FS_Subset, FS_CardinalityType
  <2> QED
    BY <2>2, <2>3, AskingFinite DEF PoolInv, KeyOK
<1> QED
  BY <1>1, OneRunMoves DEF PoolInv

\* Only a key that is not cooling down is asked.
LEMMA AskKeyKeepsPool ==
  ASSUME PoolInv, NEW r \in Runs, AskKey(r)
  PROVE  PoolInv'
<1>1. Step(r)
  BY DEF Step
<1>2. \A u \in Runs \ {r} : pc'[u] = pc[u] /\ order'[u] = order[u]
  BY <1>1, OneRunMoves
<1>3. UNCHANGED <<refusals, cooling, order>>
  BY DEF AskKey, poolVars
<1>4. ASSUME NEW k \in Keys PROVE KeyOK(k)'
  <2>1. CASE k = Key(r)
    <3>1. refusals[k] = 0
      BY <2>1 DEF AskKey, PoolInv, KeyOK
    <3>2. Asking(k)' \in SUBSET Runs
      BY DEF Asking
    <3> QED
      BY <1>3, <3>1, <3>2, AskingFinite DEF KeyOK
  <2>2. CASE k # Key(r)
    <3>1. Asking(k)' = Asking(k)
      BY <1>2, <1>3, <2>2 DEF Asking, Key, AskKey
    <3> QED
      BY <1>3, <3>1 DEF PoolInv, KeyOK
  <2> QED
    BY <2>1, <2>2
<1> QED
  BY <1>1, <1>3, <1>4, OneRunMoves DEF PoolInv

\* A refusal takes the place of the call it answers.
LEMMA RateLimitedKeepsPool ==
  ASSUME PoolInv, NEW r \in Runs, RateLimited(r)
  PROVE  PoolInv'
<1>1. Step(r) /\ pc[r] = "asking" /\ pc'[r] = "key"
  BY DEF Step, RateLimited, PoolInv
<1>2. /\ refusals' = [refusals EXCEPT ![Key(r)] = @ + 1]
      /\ cooling' = cooling \cup {Key(r)}
  BY DEF RateLimited, MarkCoolingDown
<1>3. ASSUME NEW k \in Keys PROVE KeyOK(k)'
  <2>1. Asking(k)' = Asking(k) \ {r}
    BY <1>1, AskingShrinks
  <2>2. /\ IsFiniteSet(Asking(k)) /\ Cardinality(Asking(k)) \in Nat
        /\ Cardinality(Runs) \in Nat
    BY AskingFinite DEF Asking
  <2>3. CASE k = Key(r)
    <3>1. r \in Asking(k)
      BY <1>1, <2>3 DEF Asking
    <3>2. Cardinality(Asking(k)') = Cardinality(Asking(k)) - 1
      BY <2>1, <2>2, <3>1, FS_RemoveElement
    <3>3. refusals'[k] = refusals[k] + 1 /\ refusals[k] \in Nat
      BY <1>2, <2>3 DEF PoolInv, KeyOK
    <3> QED
      BY <1>2, <2>2, <2>3, <3>2, <3>3 DEF PoolInv, KeyOK
  <2>4. CASE k # Key(r)
    <3>1. Asking(k)' = Asking(k)
      BY <2>1, <2>4 DEF Asking
    <3>2. refusals'[k] = refusals[k]
      BY <1>2, <2>4 DEF PoolInv
    <3> QED
      BY <1>2, <3>1, <3>2 DEF PoolInv, KeyOK
  <2> QED
    BY <2>3, <2>4
<1> QED
  BY <1>1, <1>2, <1>3, OneRunMoves DEF PoolInv

LEMMA CooldownKeepsPool ==
  ASSUME PoolInv, NEW key \in Keys, CooldownPasses(key)
  PROVE  PoolInv'
<1>1. UNCHANGED <<pc, order>>
  BY DEF CooldownPasses, runVars
<1>2. ASSUME NEW k \in Keys PROVE KeyOK(k)'
  <2>1. Asking(k)' = Asking(k) /\ Asking(k) \in SUBSET Runs
    BY <1>1 DEF Asking, Key
  <2>2. refusals'[k] = IF k = key THEN 0 ELSE refusals[k]
    BY DEF CooldownPasses, PoolInv
  <2>3. k # key => (k \in cooling' <=> k \in cooling)
    BY DEF CooldownPasses
  <2> QED
    BY <2>1, <2>2, <2>3, AskingFinite DEF PoolInv, KeyOK
<1> QED
  BY <1>1, <1>2 DEF PoolInv, CooldownPasses

LEMMA PoolInvInitially ==
  ASSUME Init PROVE PoolInv
<1>1. \A k \in Keys : Asking(k) = {}
  BY DEF Init, Asking
<1>2. Cardinality({}) = 0 /\ Cardinality(Runs) \in Nat
  BY FS_EmptySet, AskingFinite
<1>3. \A k \in Keys : refusals[k] = 0
  BY DEF Init
<1>4. \A k \in Keys : KeyOK(k)
  BY <1>1, <1>2, <1>3 DEF KeyOK
<1>5. /\ pc \in [Runs -> {"begin", "key", "asking", "done"}]
      /\ DOMAIN order = Runs
      /\ DOMAIN refusals = Keys
  BY DEF Init
<1> QED
  BY <1>4, <1>5 DEF PoolInv

\* PoolInv is an invariant.
THEOREM PoolInvAlways == Spec => []PoolInv
<1>1. Init => PoolInv
  BY PoolInvInitially
<1>2. PoolInv /\ [Next]_vars => PoolInv'
  <2> SUFFICES ASSUME PoolInv, [Next]_vars PROVE PoolInv'
    OBVIOUS
  <2>1. CASE UNCHANGED vars
    BY <2>1 DEF vars, PoolInv, KeyOK, Asking, Key
  <2>2. ASSUME NEW r \in Runs, Step(r) PROVE PoolInv'
    <3>1. CASE AskKey(r)
      BY <3>1, AskKeyKeepsPool
    <3>2. CASE RateLimited(r)
      BY <3>2, RateLimitedKeepsPool
    <3>3. CASE SkipDiscovery(r) \/ StageWithoutGemini(r) \/ Answered(r) \/ CallFails(r)
               \/ PoolExhausted(r)
      <4>1. NextStage(r) /\ UNCHANGED <<refusals, cooling>>
        BY <3>3 DEF SkipDiscovery, StageWithoutGemini, Answered, CallFails, PoolExhausted, poolVars
      <4>2. pc'[r] # "asking"
        BY <4>1 DEF NextStage, PoolInv
      <4> QED
        BY <2>2, <4>1, <4>2, QuietStep
    <3>4. CASE BeginCall(r)
      <4>1. pc'[r] # "asking" /\ UNCHANGED <<refusals, cooling>>
        BY <3>4 DEF BeginCall, PoolInv
      <4> QED
        BY <2>2, <4>1, QuietStep
    <3>5. CASE SkipCoolingKey(r)
      <4>1. pc'[r] # "asking" /\ UNCHANGED <<refusals, cooling>>
        BY <3>5 DEF SkipCoolingKey, poolVars
      <4> QED
        BY <2>2, <4>1, QuietStep
    <3> QED
      BY <2>2, <3>1, <3>2, <3>3, <3>4, <3>5 DEF Step
  <2> QED
    BY <2>1, <2>2, CooldownKeepsPool DEF Next
<1> QED
  BY <1>1, <1>2, PTL DEF Spec

(***************************************************************************)
(* Between two cooldowns of a key no more calls are refused than there are  *)
(* requests (_is_key_cooling_down, _mark_key_cooling_down): each looks at   *)
(* the cooldown before it asks, even when all look before one is refused.    *)
(***************************************************************************)
THEOREM RefusalsBoundedAlways == Spec => []RefusalsBounded
<1>1. PoolInv => RefusalsBounded
  <2> SUFFICES ASSUME PoolInv, NEW k \in Keys PROVE refusals[k] <= Cardinality(Runs)
    BY DEF RefusalsBounded
  <2>1. Cardinality(Asking(k)) \in Nat /\ Cardinality(Runs) \in Nat
    BY AskingFinite DEF Asking
  <2> QED
    BY <2>1 DEF PoolInv, KeyOK
<1> QED
  BY <1>1, PoolInvAlways, PTL

-----------------------------------------------------------------------------
(* What took the place of Gemini's answers                                 *)

LEMMA FallBackFlags ==
  ASSUME ServedInv, NEW r \in Runs, NEW why, FallBack(r, why)
  PROVE  ServedInv'
  BY DEF ServedInv, FallBack, Replaced, Reasons

\* What takes the place of an answer without a flag is not a call that failed.
LEMMA SilentlyReplaced ==
  ASSUME ServedInv, NEW r \in Runs, NEW why \in Reasons \ {"call"},
         Replaced(r, why), UNCHANGED fallback
  PROVE  ServedInv'
  BY DEF ServedInv, Replaced

LEMMA AnswerAccepted ==
  ASSUME ServedInv, NEW r \in Runs, Accepted(r)
  PROVE  ServedInv'
<1>1. CASE UNCHANGED <<fallback, replaced>>
  BY <1>1 DEF ServedInv
<1>2. CASE UNCHANGED fallback /\ \E why \in {"claims", "groups"} : Replaced(r, why)
  BY <1>2, SilentlyReplaced DEF Reasons
<1>3. CASE \E why \in {"invalid", "empty"} : FallBack(r, why)
  BY <1>3, FallBackFlags
<1>4. CASE Discovered(r)
  BY <1>1, <1>2, <1>3, <1>4 DEF Discovered
<1>5. CASE Normalized(r)
  BY <1>1, <1>3, <1>5 DEF Normalized
<1>6. CASE Grouped(r)
  BY <1>1, <1>2, <1>6 DEF Grouped
<1> QED
  BY <1>1, <1>4, <1>5, <1>6 DEF Accepted

\* A stage replaces what Gemini did not answer, and flags it.
LEMMA StepKeepsServed ==
  ASSUME ServedInv, [Next]_vars
  PROVE  ServedInv'
<1>1. CASE UNCHANGED <<fallback, replaced>>
  BY <1>1 DEF ServedInv
<1>2. ASSUME NEW r \in Runs, Step(r) PROVE ServedInv'
  BY <1>1, <1>2, FallBackFlags, AnswerAccepted
  DEF Step, SkipDiscovery, StageWithoutGemini, BeginCall, SkipCoolingKey, AskKey, Answered,
      CallFails, RateLimited, PoolExhausted
<1> QED
  BY <1>1, <1>2 DEF Next, CooldownPasses, runVars, vars

\* ServedInv is an invariant.
THEOREM ServedInvAlways == Spec => []ServedInv
<1>1. Init => ServedInv
  BY DEF Init, ServedInv
<1>2. ServedInv /\ [Next]_vars => ServedInv'
  BY StepKeepsServed
<1> QED
  BY <1>1, <1>2, PTL DEF Spec

(***************************************************************************)
(* Every stage that asked Gemini in a request whose status is READY had an  *)
(* answer it could use (graph.py, gemini_fallback_used): what else takes    *)
(* the place of one is an answer without claims or groups.                  *)
(***************************************************************************)
THEOREM ReadyMeansServedAlways == Spec => []ReadyMeansServed
<1>1. ServedInv => ReadyMeansServed
  BY DEF ServedInv, ReadyMeansServed, agent_run_status
<1> QED
  BY <1>1, ServedInvAlways, PTL

-----------------------------------------------------------------------------
(***************************************************************************)
(* Proofs about DocumentClaims, for texts, evidence, claims and fields of   *)
(* any number.  None of its invariants is inductive, as each is about the   *)
(* end of the graph: ClaimsInv says at every node what has come through it. *)
(***************************************************************************)

IsSequence(s) == \E n \in Nat : DOMAIN s = 1 .. n

\* A decision is of a claim, or of a field where no claim was named, and cites what
\* the last claim with its id cites.
DecisionInv(d) ==
    /\ "boxes" \in DOMAIN d
    /\ d.evidence_ids = CitedBy(d.id)
    /\ d.finding \in DOMAIN Sources /\ Sources[d.finding].id = d.id
    /\ \E j \in DOMAIN Sources :
          /\ Sources[j].id = d.id
          /\ Sources[j].value = d.extracted
          /\ node = "decided" => Sources[j].boxes = d.boxes
          /\ claims # <<>> /\ ~unsafe => Sources[j].cited = d.evidence_ids

\* A region around some of these pieces of evidence, on the page of all that it spans.
RealRegion(b, ids) == b.spans \subseteq ids /\ \A e \in b.spans : evidence[e].page = b.page

\* What a decision highlights is around the evidence, or is the region, of something
\* with its id.
HighlightsInv(d) ==
    \A k \in DOMAIN d.boxes :
        \E j \in DOMAIN Sources :
            /\ Sources[j].id = d.id
            /\ \/ RealRegion(d.boxes[k], Sources[j].cited)
               \/ \E m \in DOMAIN Sources[j].boxes : d.boxes[k] = Sources[j].boxes[m]

ClaimsInv ==
    /\ IsSequence(Sources)
    /\ node = "extracted" => claims = <<>>
    /\ dynamic = "none" <=> claims = <<>>
    /\ dynamic # "gemini" => \A j \in DOMAIN Sources : \E i \in DOMAIN fields :
          fields[i].id = Sources[j].id /\ fields[i].value = Sources[j].value
    /\ node = "normalized" =>
          /\ DOMAIN normalized = DOMAIN Sources
          /\ \A i \in DOMAIN normalized :
                /\ normalized[i].id = Sources[i].id
                /\ normalized[i].extracted = Sources[i].value
                /\ normalized[i].boxes = Sources[i].boxes
    /\ node \in {"extracted", "discovered", "normalized"} => decisions = <<>>
    /\ \A i \in DOMAIN decisions : DecisionInv(decisions[i])
    /\ node = "published" => \A i \in DOMAIN decisions : HighlightsInv(decisions[i])

-----------------------------------------------------------------------------
(* Sequences                                                               *)

\* A set of natural numbers that is not empty and has a bound has a last element.
LEMMA LastElement ==
  ASSUME NEW n \in Nat, NEW S \in SUBSET (1 .. n), S # {}
  PROVE  \E k \in S : \A m \in S : m <= k
<1> DEFINE T == {n - k : k \in S}
<1>1. T \in SUBSET Nat /\ T # {}
  <2>1. \A k \in S : k \in 1 .. n /\ n - k \in Nat
    OBVIOUS
  <2>2. QED
    BY <2>1
<1>2. PICK d \in T : \A e \in T : <<e, d>> \notin OpToRel(<, Nat)
  <2> HIDE DEF T
  <2> QED
    BY <1>1, NatLessThanWellFounded, WFMin, Zenon
<1>3. \A e \in T : ~(e < d)
  BY <1>1, <1>2 DEF OpToRel
<1>4. PICK k \in S : d = n - k
  BY <1>2
<1>5. \A m \in S : m <= k
  BY <1>3, <1>4
<1>6. QED
  BY <1>5

\* LastWith finds the last of those with the id, when there is one.
LEMMA LastWithFound ==
  ASSUME NEW seq, IsSequence(seq), NEW i \in DOMAIN seq
  PROVE  \E k \in DOMAIN seq :
            /\ LastWith(seq, seq[i].id) = seq[k]
            /\ seq[k].id = seq[i].id
            /\ \A j \in DOMAIN seq : seq[j].id = seq[i].id => j <= k
<1> DEFINE S == {j \in DOMAIN seq : seq[j].id = seq[i].id}
           k == CHOOSE m \in DOMAIN seq :
                   seq[m].id = seq[i].id /\ \A j \in DOMAIN seq : seq[j].id = seq[i].id => j <= m
<1>1. PICK n \in Nat : DOMAIN seq = 1 .. n
  BY DEF IsSequence
<1>2. PICK m \in S : \A j \in S : j <= m
  <2>1. S \in SUBSET (1 .. n) /\ S # {}
    BY <1>1
  <2> HIDE DEF S
  <2> QED
    BY <2>1, LastElement
<1>3. k \in DOMAIN seq /\ seq[k].id = seq[i].id
      /\ \A j \in DOMAIN seq : seq[j].id = seq[i].id => j <= k
  BY <1>2
<1>4. LastWith(seq, seq[i].id) = seq[k]
  BY DEF LastWith
<1>5. QED
  BY <1>3, <1>4

-----------------------------------------------------------------------------
(* The claim of an id                                                      *)

\* The last claim of an id is the only one that is cited.
LEMMA LastClaimCited ==
  ASSUME NEW id, NEW n \in Nat, DOMAIN claims = 1 .. n,
         NEW k \in DOMAIN claims, claims[k].id = id,
         \A j \in DOMAIN claims : claims[j].id = id => j <= k
  PROVE  CitedBy(id) = claims[k].cited
<1>1. \A i \in DOMAIN claims :
         (claims[i].id = id /\ \A j \in DOMAIN claims : claims[j].id = id => j <= i) <=> i = k
  OBVIOUS
<1>2. ClaimOf(id) = {claims[k]}
  BY <1>1 DEF ClaimOf
<1>3. QED
  BY <1>2 DEF CitedBy

\* Whatever is decided on, what it cites is cited by one of its id.
LEMMA CitedBySource ==
  ASSUME IsSequence(Sources), NEW j \in DOMAIN Sources
  PROVE  \E m \in DOMAIN Sources :
            Sources[m].id = Sources[j].id /\ CitedBy(Sources[j].id) \subseteq Sources[m].cited
<1>1. CASE claims = <<>>
  <2>1. CitedBy(Sources[j].id) = {}
    BY <1>1 DEF CitedBy, ClaimOf
  <2>2. QED
    BY <2>1
<1>2. CASE claims # <<>>
  <2>1. Sources = claims
    BY <1>2 DEF Sources
  <2>2. PICK k \in DOMAIN claims :
            /\ claims[k].id = claims[j].id
            /\ \A i \in DOMAIN claims : claims[i].id = claims[j].id => i <= k
    BY <2>1, LastWithFound
  <2>3. CitedBy(claims[j].id) = claims[k].cited
    BY <2>1, <2>2, LastClaimCited DEF IsSequence
  <2>4. QED
    BY <2>1, <2>2, <2>3
<1>3. QED
  BY <1>1, <1>2

-----------------------------------------------------------------------------
(* Regions                                                                 *)

\* What is looked for among pieces of evidence is found nowhere or in some of them.
LEMMA SpecificBoxesWithin ==
  ASSUME NEW text, NEW ids, NEW v \in SpecificBoxes(text, ids)
  PROVE  v = <<>> \/ \E b : v = <<b>> /\ RealRegion(b, ids)
<1> DEFINE boxed == SearchedEvidence(ids)
           exact == {e \in boxed : evidence[e].text = text}
           tokens == {e \in boxed : evidence[e].text # {} /\ evidence[e].text \subseteq text}
           containing == {e \in boxed : text \subseteq evidence[e].text}
<1>1. boxed \subseteq ids
  BY DEF SearchedEvidence, Boxed
<1>2. ASSUME NEW S, S \subseteq ids
      PROVE  \E b : OnFirstPage(S) = <<b>> /\ RealRegion(b, ids)
  <2> DEFINE page == First({evidence[e].page : e \in S})
             b == [page |-> page, spans |-> {e \in S : evidence[e].page = page}]
  <2>1. OnFirstPage(S) = <<b>>
    BY DEF OnFirstPage, Region
  <2> HIDE DEF page
  <2>2. RealRegion(b, ids)
    BY <1>2 DEF RealRegion
  <2> QED
    BY <2>1, <2>2
<1>3. \/ v = <<>>
      \/ v \in {OnFirstPage({e}) : e \in exact}
      \/ v = OnFirstPage(tokens)
      \/ v \in {OnFirstPage({e}) : e \in containing}
  BY DEF SpecificBoxes
<1>4. v = <<>> \/ \E S : S \subseteq ids /\ v = OnFirstPage(S)
  BY <1>1, <1>3
<1> QED
  BY <1>2, <1>4

\* A decision is highlighted where its evidence is, or where it came from.
LEMMA HighlightsWithin ==
  ASSUME NEW d, NEW label, NEW boxes \in Highlights(d, label)
  PROVE  boxes = d.boxes \/ \A k \in DOMAIN boxes : RealRegion(boxes[k], d.evidence_ids)
<1> DEFINE value == IF d.normalized # Blank THEN d.normalized ELSE d.extracted
<1>1. PICK v \in SpecificBoxes(value, d.evidence_ids), l \in SpecificBoxes(label, d.evidence_ids) :
         boxes = IF v \o l = <<>> THEN d.boxes ELSE IF v = l THEN v ELSE v \o l
  BY DEF Highlights
<1>2. v = <<>> \/ \E b : v = <<b>> /\ RealRegion(b, d.evidence_ids)
  BY SpecificBoxesWithin
<1>3. l = <<>> \/ \E b : l = <<b>> /\ RealRegion(b, d.evidence_ids)
  BY SpecificBoxesWithin
<1>4. QED
  BY <1>1, <1>2, <1>3

-----------------------------------------------------------------------------
(* The graph                                                               *)

LEMMA ClaimsInvInit ==
  ASSUME ClaimsInit
  PROVE  ClaimsInv
<1>1. Sources = <<>> /\ DOMAIN Sources = {} /\ DOMAIN decisions = {}
  BY DEF ClaimsInit, Sources
<1>2. IsSequence(Sources)
  <2>1. DOMAIN Sources = 1 .. 0
    BY <1>1
  <2>2. QED
    BY <2>1 DEF IsSequence
<1>3. QED
  BY <1>1, <1>2 DEF ClaimsInit, ClaimsInv

\* Claims or fields of which there are some: what UpTo chooses is a sequence.
LEMMA SequencesUpTo ==
  ASSUME NEW n \in Nat, NEW S, NEW s \in UpTo(n, S)
  PROVE  /\ IsSequence(s)
         /\ \A i \in DOMAIN s : s[i] \in S
         /\ s # <<>> => DOMAIN s # {}
<1>1. PICK k \in 0 .. n : s \in [1 .. k -> S]
  BY DEF UpTo
<1>2. DOMAIN s = 1 .. k /\ k \in Nat
  BY <1>1
<1>3. DOMAIN s = {} => s = <<>>
  BY <1>1
<1>4. QED
  BY <1>1, <1>2, <1>3 DEF IsSequence

LEMMA DiscoverStep ==
  ASSUME ClaimsInv, NoEvidenceGraph \/ GeminiNamesClaims \/ FieldsNameClaims
  PROVE  ClaimsInv'
<1>0. decisions' = <<>> /\ node' = "discovered"
  BY DEF ClaimsInv, NoEvidenceGraph, GeminiNamesClaims, FieldsNameClaims
<1>q. SUFFICES
        /\ IsSequence(Sources)'
        /\ (dynamic = "none" <=> claims = <<>>)'
        /\ (dynamic # "gemini" => \A j \in DOMAIN Sources : \E i \in DOMAIN fields :
              fields[i].id = Sources[j].id /\ fields[i].value = Sources[j].value)'
  BY <1>0 DEF ClaimsInv
<1>e. DOMAIN <<>> = {}
  OBVIOUS
<1>1. CASE NoEvidenceGraph
  <2>1. IsSequence(fields')
    BY <1>1, SequencesUpTo, ClaimsAssumption DEF NoEvidenceGraph
  <2>2. claims' = <<>> /\ dynamic' = "none"
    BY <1>1 DEF NoEvidenceGraph, ClaimsInv
  <2>3. QED
    BY <2>1, <2>2 DEF Sources, IsSequence
<1>2. CASE GeminiNamesClaims
  <2>1. PICK raw \in UpTo(MaxClaims, RawClaim) :
           raw # <<>> /\ claims' = [i \in DOMAIN raw |-> Ground(raw[i])]
    BY <1>2 DEF GeminiNamesClaims
  <2>2. IsSequence(raw) /\ DOMAIN raw # {}
    BY <2>1, SequencesUpTo, ClaimsAssumption
  <2>3. DOMAIN claims' = DOMAIN raw /\ claims' # <<>>
    BY <1>e, <2>1, <2>2
  <2>4. Sources' = claims'
    BY <2>3 DEF Sources
  <2>5. dynamic' = "gemini"
    BY <1>2 DEF GeminiNamesClaims
  <2>6. QED
    BY <2>2, <2>3, <2>4, <2>5 DEF IsSequence
<1>3. CASE FieldsNameClaims
  <2>1. PICK o \in InOrder(Serving(fields')) :
           claims' = [i \in DOMAIN o |-> FieldClaim(fields'[o[i]])]
    BY <1>3 DEF FieldsNameClaims
  <2>2. IsSequence(fields')
    BY <1>3, SequencesUpTo, ClaimsAssumption DEF FieldsNameClaims
  <2>3. Serving(fields') \subseteq DOMAIN fields'
    BY DEF Serving
  <2>4. Cardinality(Serving(fields')) \in Nat
    <3>1. PICK n \in Nat : DOMAIN fields' = 1 .. n
      BY <2>2 DEF IsSequence
    <3>2. IsFiniteSet(1 .. n)
      BY FS_Interval
    <3>3. QED
      BY <2>3, <3>1, <3>2, FS_Subset, FS_CardinalityType
  <2>5. /\ DOMAIN claims' = 1 .. Cardinality(Serving(fields'))
        /\ \A i \in DOMAIN claims' :
              /\ o[i] \in DOMAIN fields'
              /\ claims'[i].id = fields'[o[i]].id
              /\ claims'[i].value = fields'[o[i]].value
    BY <2>1, <2>3 DEF InOrder, FieldClaim
  <2>6. CASE claims' = <<>>
    <3>1. dynamic' = "none"
      BY <1>3, <2>6 DEF FieldsNameClaims
    <3>2. QED
      BY <2>2, <2>6, <3>1 DEF Sources, IsSequence
  <2>7. CASE claims' # <<>>
    <3>1. dynamic' = "fields"
      BY <1>3, <2>7 DEF FieldsNameClaims
    <3>2. Sources' = claims'
      BY <2>7 DEF Sources
    <3>3. QED
      BY <2>4, <2>5, <2>7, <3>1, <3>2 DEF IsSequence
  <2>8. QED
    BY <2>6, <2>7
<1>4. QED
  BY <1>1, <1>2, <1>3

\* The normalisation keeps the id, the value and the region of what it is asked about.
LEMMA NormalizeStep ==
  ASSUME ClaimsInv, NormalizeFields
  PROVE  ClaimsInv'
<1>1. PICK answers \in [FieldIds -> Values] :
         normalized' = [i \in DOMAIN Sources |->
              NormalizedField(Sources[i],
                  IF answers[Sources[i].id] = Blank THEN Sources[i].value
                  ELSE answers[Sources[i].id])]
  BY DEF NormalizeFields
<1>2. /\ node' = "normalized" /\ decisions' = <<>>
      /\ UNCHANGED <<fields, claims, dynamic>> /\ Sources' = Sources
  BY DEF NormalizeFields, ClaimsInv, Sources
<1>3. /\ DOMAIN normalized' = DOMAIN Sources
      /\ \A i \in DOMAIN normalized' :
            /\ normalized'[i].id = Sources[i].id
            /\ normalized'[i].extracted = Sources[i].value
            /\ normalized'[i].boxes = Sources[i].boxes
  BY <1>1 DEF NormalizedField, ExtractedValue
<1>4. QED
  BY <1>2, <1>3 DEF ClaimsInv, IsSequence

LEMMA DecideStep ==
  ASSUME ClaimsInv, Decide
  PROVE  ClaimsInv'
<1>1. /\ node' = "decided"
      /\ UNCHANGED <<evidence, fields, claims, dynamic, normalized>>
      /\ Sources' = Sources
  BY DEF Decide, Sources
<1>2. /\ DOMAIN normalized = DOMAIN Sources
      /\ \A i \in DOMAIN normalized :
            /\ normalized[i].id = Sources[i].id
            /\ normalized[i].extracted = Sources[i].value
            /\ normalized[i].boxes = Sources[i].boxes
      /\ IsSequence(Sources) /\ IsSequence(normalized)
  BY DEF Decide, ClaimsInv, IsSequence
<1>3. ASSUME NEW i \in DOMAIN normalized
      PROVE  DecisionInv(decisions[i])'
  <2>1. PICK k \in DOMAIN normalized :
            /\ LastWith(normalized, normalized[i].id) = normalized[k]
            /\ normalized[k].id = normalized[i].id
            /\ \A j \in DOMAIN normalized : normalized[j].id = normalized[i].id => j <= k
    BY <1>2, LastWithFound
  <2> DEFINE j == IF unsafe' THEN i ELSE k
  <2>2. decisions'[i] = DecisionOn(i, normalized[j])
    BY <2>1 DEF Decide
  <2>3. /\ "boxes" \in DOMAIN decisions'[i]
        /\ decisions'[i].id = Sources[j].id
        /\ decisions'[i].extracted = Sources[j].value
        /\ decisions'[i].boxes = Sources[j].boxes
        /\ decisions'[i].evidence_ids = CitedBy(Sources[j].id)
        /\ decisions'[i].finding = i /\ Sources[i].id = Sources[j].id
    BY <1>2, <2>1, <2>2 DEF DecisionOn
  <2>4. ASSUME claims # <<>>, ~unsafe' PROVE Sources[j].cited = CitedBy(Sources[j].id)
    <3>1. Sources = claims /\ j = k
      BY <2>4 DEF Sources
    <3>2. QED
      BY <1>2, <2>1, <3>1, LastClaimCited DEF IsSequence
  <2>5. \A id : CitedBy(id)' = CitedBy(id)
    BY <1>1 DEF CitedBy, ClaimOf
  <2>6. i \in DOMAIN Sources /\ j \in DOMAIN Sources
    BY <1>2
  <2> HIDE DEF j
  <2>7. QED
    BY <1>1, <2>3, <2>4, <2>5, <2>6 DEF DecisionInv
<1>4. DOMAIN decisions' = DOMAIN normalized
  BY DEF Decide
<1>5. QED
  BY <1>1, <1>3, <1>4 DEF ClaimsInv, IsSequence

\* The workspace changes the regions of a decision only.
LEMMA BuildStep ==
  ASSUME ClaimsInv, BuildWorkspace
  PROVE  ClaimsInv'
<1>1. PICK label \in Texts :
        \E boxes \in [DOMAIN decisions -> UNION {Highlights(decisions[i], label) : i \in DOMAIN decisions}] :
              /\ \A i \in DOMAIN decisions : boxes[i] \in Highlights(decisions[i], label)
              /\ decisions' = [i \in DOMAIN decisions |-> [decisions[i] EXCEPT !.boxes = boxes[i]]]
  BY DEF BuildWorkspace
<1>2. PICK boxes : /\ \A i \in DOMAIN decisions : boxes[i] \in Highlights(decisions[i], label)
                   /\ decisions' = [i \in DOMAIN decisions |-> [decisions[i] EXCEPT !.boxes = boxes[i]]]
  BY <1>1
<1>3. /\ node = "decided" /\ node' = "published"
      /\ UNCHANGED <<evidence, fields, claims, dynamic, normalized, unsafe>>
      /\ Sources' = Sources
      /\ \A id : CitedBy(id)' = CitedBy(id)
  BY DEF BuildWorkspace, Sources, CitedBy, ClaimOf
<1>4. ASSUME NEW i \in DOMAIN decisions
      PROVE  DecisionInv(decisions[i])' /\ HighlightsInv(decisions[i])'
  <2> DEFINE d == decisions[i]
  <2>1. DecisionInv(d)
    BY DEF ClaimsInv
  <2>2. PICK j \in DOMAIN Sources :
            /\ Sources[j].id = d.id
            /\ Sources[j].value = d.extracted
            /\ Sources[j].boxes = d.boxes
            /\ claims # <<>> /\ ~unsafe => Sources[j].cited = d.evidence_ids
    BY <1>3, <2>1 DEF DecisionInv
  <2>3. decisions'[i] = [d EXCEPT !.boxes = boxes[i]] /\ "boxes" \in DOMAIN d
    BY <1>2, <2>1 DEF DecisionInv
  <2>4. /\ "boxes" \in DOMAIN decisions'[i]
        /\ decisions'[i].boxes = boxes[i]
        /\ decisions'[i].id = d.id
        /\ decisions'[i].extracted = d.extracted
        /\ decisions'[i].evidence_ids = d.evidence_ids
        /\ decisions'[i].finding = d.finding
    BY <2>3
  <2>5. /\ d.evidence_ids = CitedBy(d.id)
        /\ d.finding \in DOMAIN Sources /\ Sources[d.finding].id = d.id
    BY <2>1 DEF DecisionInv
  <2>6. DecisionInv(decisions[i])'
    BY <1>3, <2>2, <2>4, <2>5 DEF DecisionInv
  <2>7. PICK m \in DOMAIN Sources :
            Sources[m].id = d.id /\ d.evidence_ids \subseteq Sources[m].cited
    <3>1. PICK m \in DOMAIN Sources :
              Sources[m].id = Sources[j].id /\ CitedBy(Sources[j].id) \subseteq Sources[m].cited
      BY <2>2, CitedBySource DEF ClaimsInv
    <3>2. CitedBy(Sources[j].id) = d.evidence_ids
      BY <2>2, <2>5
    <3>3. QED
      BY <2>2, <3>1, <3>2
  <2>8. boxes[i] = d.boxes \/ \A k \in DOMAIN boxes[i] : RealRegion(boxes[i][k], d.evidence_ids)
    BY <1>2, HighlightsWithin
  <2>9. ASSUME NEW k \in DOMAIN boxes[i]
        PROVE  \E n \in DOMAIN Sources :
                  /\ Sources[n].id = d.id
                  /\ \/ RealRegion(boxes[i][k], Sources[n].cited)
                     \/ \E x \in DOMAIN Sources[n].boxes : boxes[i][k] = Sources[n].boxes[x]
    <3>1. CASE boxes[i] = d.boxes
      BY <2>2, <3>1
    <3>2. CASE RealRegion(boxes[i][k], d.evidence_ids)
      BY <2>7, <3>2 DEF RealRegion
    <3>3. QED
      BY <2>8, <3>1, <3>2
  <2>10. HighlightsInv(decisions[i])'
    BY <1>3, <2>4, <2>9 DEF HighlightsInv, RealRegion
  <2>11. QED
    BY <2>6, <2>10
<1>5. DOMAIN decisions' = DOMAIN decisions
  BY <1>2
<1>6. QED
  BY <1>3, <1>4, <1>5 DEF ClaimsInv, IsSequence

LEMMA ClaimsInvStep ==
  ASSUME ClaimsInv, [ClaimsNext]_claimsVars
  PROVE  ClaimsInv'
<1>1. CASE NoEvidenceGraph \/ GeminiNamesClaims \/ FieldsNameClaims
  BY <1>1, DiscoverStep
<1>2. CASE NormalizeFields
  BY <1>2, NormalizeStep
<1>3. CASE Decide
  BY <1>3, DecideStep
<1>4. CASE BuildWorkspace
  BY <1>4, BuildStep
<1>5. CASE UNCHANGED claimsVars
  <2>1. Sources' = Sources /\ \A id : CitedBy(id)' = CitedBy(id)
    BY <1>5 DEF claimsVars, Sources, CitedBy, ClaimOf
  <2>2. \A i \in DOMAIN decisions :
           /\ DecisionInv(decisions[i]) => DecisionInv(decisions[i])'
           /\ HighlightsInv(decisions[i]) => HighlightsInv(decisions[i])'
    BY <1>5, <2>1 DEF claimsVars, DecisionInv, HighlightsInv, RealRegion
  <2>3. QED
    BY <1>5, <2>1, <2>2 DEF claimsVars, ClaimsInv, IsSequence
<1>6. QED
  BY <1>1, <1>2, <1>3, <1>4, <1>5 DEF ClaimsNext

-----------------------------------------------------------------------------

LEMMA ClaimsInvariant == ClaimsSpec => []ClaimsInv
<1>1. ClaimsInit => ClaimsInv
  BY ClaimsInvInit
<1>2. ClaimsInv /\ [ClaimsNext]_claimsVars => ClaimsInv'
  BY ClaimsInvStep
<1>3. QED
  BY <1>1, <1>2, PTL DEF ClaimsSpec

\* No answer of the normalisation changes the value that a decision shows as extracted,
\* for any number of fields, evidence and answers.
THEOREM ExtractedValuesAlwaysStand == ClaimsSpec => []ExtractedValuesStand
<1>1. ClaimsInv => ExtractedValuesStand
  BY DEF ClaimsInv, DecisionInv, ExtractedValuesStand
<1>2. QED
  BY <1>1, ClaimsInvariant, PTL

\* The value and the evidence of a decision on a safe document are of one claim, however
\* many claims have its id, and the finding its status comes from is on a claim with that id.
THEOREM DecisionsAreOfOneClaim == ClaimsSpec => []DecisionOfOneClaim
<1>1. ASSUME ClaimsInv, NEW i \in DOMAIN decisions, dynamic # "none", ~unsafe
      PROVE  \E j \in DOMAIN claims :
                /\ claims[j].id = decisions[i].id
                /\ claims[j].value = decisions[i].extracted
                /\ claims[j].cited = decisions[i].evidence_ids
                /\ claims[decisions[i].finding].id = decisions[i].id
  <2>1. claims # <<>> /\ Sources = claims /\ DecisionInv(decisions[i])
    BY <1>1 DEF ClaimsInv, Sources
  <2>2. QED
    BY <1>1, <2>1 DEF DecisionInv
<1>2. ClaimsInv => DecisionOfOneClaim
  BY <1>1 DEF DecisionOfOneClaim
<1>3. QED
  BY <1>2, ClaimsInvariant, PTL

\* No decision draws a rectangle around the evidence of a claim with another id, or around
\* evidence of another page: else it shows the region a claim or field of its id came with.
THEOREM HighlightsAlwaysBelong == ClaimsSpec => []HighlightsBelong
<1>1. ASSUME ClaimsInv, NEW i \in DOMAIN decisions, node = "published",
             NEW k \in DOMAIN decisions[i].boxes
      PROVE  \E c \in {Sources[j] : j \in DOMAIN Sources} :
                /\ c.id = decisions[i].id
                /\ \/ RealRegion(decisions[i].boxes[k], c.cited)
                   \/ decisions[i].boxes[k] \in {c.boxes[m] : m \in DOMAIN c.boxes}
  BY <1>1 DEF ClaimsInv, HighlightsInv
<1>2. ClaimsInv => HighlightsBelong
  BY <1>1 DEF HighlightsBelong, RealRegion
<1>3. QED
  BY <1>2, ClaimsInvariant, PTL
=============================================================================
