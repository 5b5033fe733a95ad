--------------------------- MODULE GeminiEnrichment ---------------------------
(***************************************************************************)
(* The stages of a /run request that ask Gemini, and the pool of API keys   *)
(* that all requests of a process share.  A stage whose call fails is       *)
(* replaced by what the extraction alone yields.                            *)
(*   backend/app/agent_orchestration/providers/gemini_pool.py   the pool    *)
(*   backend/app/agent_orchestration/graph.py                   the stages  *)
(*   backend/app/agent_orchestration/semantic_normalization.py              *)
(*   backend/app/agent_orchestration/providers/gemini_demo_fixtures.py      *)
(* Keys are the indices of _configured_key_entries().  Requests run in      *)
(* threads of their own: between the look at the cooldown of a key and the  *)
(* refusal that starts one, others may do the same.                         *)
(***************************************************************************)
EXTENDS Naturals, Sequences, FiniteSets

CONSTANTS Runs,      \* /run requests
          NumKeys    \* distinct configured API keys

ASSUME PoolAssumption == IsFiniteSet(Runs) /\ NumKeys \in Nat \ {0}

Keys == 1 .. NumKeys
Stages == <<"gemini_dynamic_schema_discovery", "gemini_document_understanding",
            "gemini_field_normalization", "gemini_credential_grouping">>

VARIABLES config,    \* what the environment of the process says
          cooling,   \* keys whose _COOLDOWN_UNTIL is in the future
          rotation,  \* _POOL_ROTATION_INDEX, modulo the number of keys
          stage,     \* the stage of each run, as an index into Stages
          order,     \* keys its pool call has not tried yet
          pc,        \* where each run is
          limited,   \* rate_limited_slots of its pool call, as keys
          named,     \* the extraction or Gemini named claims
          fallback,  \* gemini_fallback_used
          quota,     \* GEMINI_QUOTA_EXHAUSTED is among the ai_warnings
          replaced,  \* why something took the place of Gemini's answers (history)
          refusals   \* refusals of each key since its last cooldown (history)

poolVars == <<cooling, rotation>>
runVars == <<stage, order, pc, limited, named, fallback, quota, replaced>>
vars == <<config, cooling, rotation, stage, order, pc, limited, named,
          fallback, quota, replaced, refusals>>

Environments == [enabled : BOOLEAN, round_robin : BOOLEAN]

Init ==
    /\ config \in Environments
    /\ cooling = {}
    /\ rotation = 0
    /\ stage = [r \in Runs |-> 1]
    /\ order = [r \in Runs |-> <<>>]
    /\ pc = [r \in Runs |-> "begin"]
    /\ limited = [r \in Runs |-> {}]
    /\ named \in [Runs -> BOOLEAN]
    /\ fallback = [r \in Runs |-> FALSE]
    /\ quota = [r \in Runs |-> FALSE]
    /\ replaced = [r \in Runs |-> {}]
    /\ refusals = [k \in Keys |-> 0]

-----------------------------------------------------------------------------
(* The pool.                                                               *)

From(first) == [i \in Keys |-> ((first + i - 1) % NumKeys) + 1]

\* _stage_preferred_key_order(): discovery prefers none, which is the primary.
Preferred(s) == IF Stages[s] = "gemini_field_normalization" /\ NumKeys > 1 THEN 2 ELSE 1

KeyOrder(s) ==
    IF config.round_robin THEN From(rotation)
    ELSE <<Preferred(s)>> \o SelectSeq(From(0), LAMBDA k : k # Preferred(s))

\* _next_rotating_index(): two threads may read one index, and one += be lost.
Rotate ==
    IF config.round_robin /\ NumKeys > 1
    THEN rotation' \in {rotation, (rotation + 1) % NumKeys}
    ELSE UNCHANGED rotation

Key(r) == Head(order[r])
Advance(r) == order' = [order EXCEPT ![r] = Tail(@)]

\* Mutant: a key that refused is put at the end of the order.
TryAgainLater(r) == order' = [order EXCEPT ![r] = Append(Tail(@), Head(@))]

\* The next entry of the loop, after a refusal.
NextKey(r) == Advance(r)

\* Mutant: the cooldown of a key is not noted.
ForgetCooldown(k) == UNCHANGED cooling

MarkCoolingDown(k) == cooling' = cooling \cup {k}

\* Cooldowns pass, each in its own time.
CooldownPasses(k) ==
    /\ k \in cooling
    /\ cooling' = cooling \ {k}
    /\ refusals' = [refusals EXCEPT ![k] = 0]
    /\ UNCHANGED <<config, rotation, runVars>>

-----------------------------------------------------------------------------
(* The stages.                                                             *)

\* An answer that could not be had or used, or one that names no claims, or no groups.
Reasons == {"call", "claims", "groups"}

Replaced(r, why) == replaced' = [replaced EXCEPT ![r] = @ \cup {why}]

\* Mutant: an answer that does not fit the schema is replaced without the flag.
FallBackUnflagged(r, why) ==
    /\ fallback' = [fallback EXCEPT ![r] = @ \/ why # "invalid"]
    /\ quota' = [quota EXCEPT ![r] = @ \/ (why = "limited" /\ stage[r] \in {2, 4})]
    /\ Replaced(r, "call")
    /\ UNCHANGED named

\* A stage that cannot use an answer of Gemini's, by why it cannot: a demo
\* fixture, or what the extraction alone yields, takes its place.
FallBack(r, why) ==
    /\ fallback' = [fallback EXCEPT ![r] = TRUE]
    /\ quota' = [quota EXCEPT ![r] = @ \/ (why = "limited" /\ stage[r] \in {2, 4})]
    /\ Replaced(r, "call")
    /\ UNCHANGED named

\* When Gemini names no claim, those of the fields are taken, without a warning.
Discovered(r) ==
    \/ /\ named' = [named EXCEPT ![r] = TRUE]
       /\ UNCHANGED <<fallback, quota, replaced>>
    \/ /\ named[r]
       /\ Replaced(r, "claims")
       /\ UNCHANGED <<named, fallback, quota>>
    \/ /\ ~named[r]
       /\ FallBack(r, "empty")

\* Gemini's claims, unless there are none; the demo fixture has none.
Normalized(r) ==
    \/ UNCHANGED <<named, fallback, quota, replaced>>
    \/ FallBack(r, "empty")

\* Gemini's groups; when it makes none there are no tasks, and the planner's own take
\* their place, without a warning.
Grouped(r) ==
    /\ \/ Replaced(r, "groups")
       \/ UNCHANGED replaced
    /\ UNCHANGED <<named, fallback, quota>>

Accepted(r) ==
    \/ stage[r] = 1 /\ Discovered(r)
    \/ stage[r] = 2 /\ UNCHANGED <<named, fallback, quota, replaced>>
    \/ stage[r] = 3 /\ Normalized(r)
    \/ stage[r] = 4 /\ Grouped(r)

NextStage(r) ==
    /\ stage' = [stage EXCEPT ![r] = @ + 1]
    /\ pc' = [pc EXCEPT ![r] = IF stage[r] = Len(Stages) THEN "done" ELSE "begin"]
    /\ order' = [order EXCEPT ![r] = <<>>]
    /\ limited' = [limited EXCEPT ![r] = {}]

\* A document without an evidence graph has no schema to discover.
SkipDiscovery(r) ==
    /\ pc[r] = "begin"
    /\ stage[r] = 1
    /\ NextStage(r)
    /\ UNCHANGED <<config, poolVars, named, fallback, quota, replaced, refusals>>

CanAsk(r) == config.enabled /\ (stage[r] = 3 => named[r])

StageWithoutGemini(r) ==
    /\ pc[r] = "begin"
    /\ ~CanAsk(r)
    /\ FallBack(r, "unavailable")
    /\ NextStage(r)
    /\ UNCHANGED <<config, poolVars, refusals>>

\* invoke_gemini_balanced()
BeginCall(r) ==
    /\ pc[r] = "begin"
    /\ CanAsk(r)
    /\ order' = [order EXCEPT ![r] = KeyOrder(stage[r])]
    /\ Rotate
    /\ pc' = [pc EXCEPT ![r] = "key"]
    /\ UNCHANGED <<config, cooling, stage, limited, named, fallback,
                   quota, replaced, refusals>>

SkipCoolingKey(r) ==
    /\ pc[r] = "key"
    /\ order[r] # <<>>
    /\ Key(r) \in cooling
    /\ limited' = [limited EXCEPT ![r] = @ \cup {Key(r)}]
    /\ Advance(r)
    /\ UNCHANGED <<config, poolVars, stage, pc, named, fallback,
                   quota, replaced, refusals>>

AskKey(r) ==
    /\ pc[r] = "key"
    /\ order[r] # <<>>
    /\ Key(r) \notin cooling
    /\ pc' = [pc EXCEPT ![r] = "asking"]
    /\ UNCHANGED <<config, poolVars, stage, order, limited, named,
                   fallback, quota, replaced, refusals>>

Answered(r) ==
    /\ pc[r] = "asking"
    /\ Accepted(r) \/ FallBack(r, "invalid")
    /\ NextStage(r)
    /\ UNCHANGED <<config, poolVars, refusals>>

\* Any other error, the timeout of the client included, ends the call.
CallFails(r) ==
    /\ pc[r] = "asking"
    /\ FallBack(r, "error")
    /\ NextStage(r)
    /\ UNCHANGED <<config, poolVars, refusals>>

RateLimited(r) ==
    /\ pc[r] = "asking"
    /\ MarkCoolingDown(Key(r))
    /\ refusals' = [refusals EXCEPT ![Key(r)] = @ + 1]
    /\ limited' = [limited EXCEPT ![r] = @ \cup {Key(r)}]
    /\ NextKey(r)
    /\ pc' = [pc EXCEPT ![r] = "key"]
    /\ UNCHANGED <<config, rotation, stage, named, fallback, quota, replaced>>

Exhausted(r) == order[r] = <<>>

\* GeminiPoolRateLimitError, with or without a demonstration fixture.
PoolExhausted(r) ==
    /\ pc[r] = "key"
    /\ Exhausted(r)
    /\ FallBack(r, "limited")
    /\ NextStage(r)
    /\ UNCHANGED <<config, poolVars, refusals>>

Step(r) ==
    \/ SkipDiscovery(r) \/ StageWithoutGemini(r)
    \/ BeginCall(r) \/ SkipCoolingKey(r) \/ AskKey(r)
    \/ Answered(r) \/ CallFails(r) \/ RateLimited(r) \/ PoolExhausted(r)

Next ==
    \/ \E r \in Runs : Step(r)
    \/ \E k \in Keys : CooldownPasses(k)

Spec == Init /\ [][Next]_vars

\* A request goes on: its client has a timeout, its own steps wait for nobody.
FairSpec == Spec /\ \A r \in Runs : WF_vars(Step(r))

-----------------------------------------------------------------------------
agent_run_status(r) == IF fallback[r] THEN "FALLBACK" ELSE "READY"

(***************************************************************************)
(* A key that is out of quota is not hammered: until its cooldown ends each *)
(* request meets at most the refusal of a call that was already under way.  *)
(***************************************************************************)
RefusalsBounded == \A k \in Keys : refusals[k] <= Cardinality(Runs)

(***************************************************************************)
(* agent_run_status READY means that every stage that asks Gemini had an     *)
(* answer it could use: no stage papers over a failed call, a refusal or an *)
(* answer outside the schema, whichever stages follow it.  What READY lets  *)
(* pass is a discovery not asked for want of evidence, or answered without  *)
(* claims, and a grouping answered without groups.                          *)
(***************************************************************************)
ReadyMeansServed ==
    \A r \in Runs : pc[r] = "done" /\ agent_run_status(r) = "READY" =>
        "call" \notin replaced[r]

(***************************************************************************)
(* "No silent provider fallback that hides warnings or policy decisions"    *)
(* (agent_orchestration/SKILL.md:21): in a run that is READY nothing else    *)
(* took the place of an answer of Gemini's.  The code does not keep this, as *)
(* an answer without claims or without groups is replaced all the same       *)
(* (graph.py:199-203, 383-398): TLC refutes it.                             *)
(***************************************************************************)
NoSilentFallback ==
    \A r \in Runs : pc[r] = "done" /\ agent_run_status(r) = "READY" =>
        replaced[r] = {}

(***************************************************************************)
(* "deterministic/demo-safe fallback must keep the session moving"          *)
(* (docs/shared_contracts_phase1.md:29): whatever the pool answers, every   *)
(* stage of every request ends.                                             *)
(***************************************************************************)
StagesEnd == \A r \in Runs : <>(pc[r] = "done")

=============================================================================
