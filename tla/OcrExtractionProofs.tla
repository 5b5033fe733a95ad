-------------------------- MODULE OcrExtractionProofs --------------------------
(***************************************************************************)
(* Proofs about OcrExtraction, for any number of threads, pages, documents  *)
(* and keys: no engine in use is closed and none is forgotten, every        *)
(* configured stage was asked or is warned of, and its answers are kept.    *)
(*                                                                          *)
(* Two inductive invariants, as the engine and the stages do not meet.       *)
(* EngineInv divides the open engines between the cache and the threads:    *)
(* those that have an engine of their own have different ones, and none of  *)
(* them is the cache's.  StageInv says at each place which stages are over.  *)
(***************************************************************************)
EXTENDS OcrExtraction, TLAPS

Places == {"idle", "config", "make", "store", "render", "visual", "vector", "mllm", "chat",
           "leave", "close", "fields", "ended"}

-----------------------------------------------------------------------------
(* The engines                                                             *)

\* The thread has to close the engine, or cache it.
HasOwn(t) == pc[t] = "store" \/ (Extracting(t) /\ ~cached_engine[t])

EngineTypes ==
    /\ made \in Nat
    /\ open \subseteq 1 .. made
    /\ pc \in [Threads -> Places]
    /\ engine \in [Threads -> Nat]
    /\ cached_engine \in [Threads -> BOOLEAN]

EngineOK(t) ==
    /\ pc[t] \in {"idle", "config", "make", "store"} => ~cached_engine[t]
    /\ HasOwn(t) => engine[t] \in open /\ engine[t] # cache
    /\ Extracting(t) /\ cached_engine[t] => engine[t] = cache /\ cache # None

EngineInv ==
    /\ EngineTypes
    /\ cache # None => cache \in open
    /\ \A t \in Threads : EngineOK(t)
    /\ \A t, u \in Threads : HasOwn(t) /\ HasOwn(u) /\ engine[t] = engine[u] => t = u
    /\ \A e \in open : e = cache \/ \E t \in Threads : HasOwn(t) /\ engine[t] = e

\* A thread goes on, and no other moves.
LEMMA Moves ==
  ASSUME EngineTypes, NEW t \in Threads, NEW place \in Places, Goto(t, place)
  PROVE  /\ pc' \in [Threads -> Places]
         /\ pc'[t] = place
         /\ \A u \in Threads : u # t => pc'[u] = pc[u]
  BY DEF EngineTypes, Goto

\* A step that leaves the engines alone, and the thread with the engine it had.
LEMMA EngineFrame ==
  ASSUME EngineInv, NEW t \in Threads, NEW place \in Places, Goto(t, place),
         UNCHANGED <<cache, made, open, engine, cached_engine>>,
         \/ /\ Extracting(t)
            /\ place \in {"render", "visual", "vector", "mllm", "chat", "leave", "close"}
         \/ /\ pc[t] \in {"idle", "config", "make", "fields", "ended"}
            /\ place \in {"config", "make", "fields", "ended"}
            /\ place \in {"config", "make"} => pc[t] \in {"idle", "config"}
  PROVE  EngineInv'
<1>1. /\ pc' \in [Threads -> Places]
      /\ pc'[t] = place
      /\ \A u \in Threads : u # t => pc'[u] = pc[u]
  BY Moves DEF EngineInv
<1>2. \A u \in Threads : HasOwn(u)' <=> HasOwn(u)
  BY <1>1 DEF HasOwn, Extracting
<1>3. \A u \in Threads : Extracting(u)' <=> Extracting(u)
  BY <1>1 DEF Extracting
<1>4. \A u \in Threads : EngineOK(u)'
  <2> SUFFICES ASSUME NEW u \in Threads PROVE EngineOK(u)'
    OBVIOUS
  <2>1. pc'[u] \in {"idle", "config", "make", "store"}
           => pc[u] \in {"idle", "config", "make", "store"}
    BY <1>1
  <2> QED
    BY <1>2, <1>3, <2>1 DEF EngineInv, EngineOK
<1> QED
  BY <1>1, <1>2, <1>4 DEF EngineInv, EngineTypes

LEMMA EngineInvInitially ==
  ASSUME Init PROVE EngineInv
  BY DEF Init, EngineInv, EngineTypes, EngineOK, HasOwn, Extracting, None, Places

\* Engines are numbered from 1.
LEMMA OpenNumbered ==
  ASSUME EngineTypes
  PROVE  \A e \in open : e \in Nat /\ e # None
  BY DEF EngineTypes, None

\* The cache's engine is taken as it is.
LEMMA LookUpKeepsEngines ==
  ASSUME EngineInv, NEW t \in Threads, LookUp(t)
  PROVE  EngineInv'
<1>1. CASE ~(config.valid /\ config.cache_engine /\ cache # None)
  <2>1. UNCHANGED <<engine, cached_engine>>
    BY <1>1 DEF LookUp
  <2>2. PICK place \in {"ended", "make"} : Goto(t, place)
    BY <1>1 DEF LookUp
  <2> QED
    BY <2>1, <2>2, EngineFrame DEF LookUp, shared, Places
<1>2. CASE config.valid /\ config.cache_engine /\ cache # None
  <2>a. /\ engine' = [engine EXCEPT ![t] = cache]
        /\ cached_engine' = [cached_engine EXCEPT ![t] = TRUE]
        /\ Goto(t, "render")
    BY <1>2 DEF LookUp
  <2>b. cache \in Nat
    BY <1>2, OpenNumbered DEF EngineInv
  <2>1. /\ pc' \in [Threads -> Places]
        /\ pc'[t] = "render" /\ pc[t] = "config"
        /\ \A u \in Threads : u # t => pc'[u] = pc[u]
    BY <2>a, Moves DEF EngineInv, LookUp, Places
  <2>2. /\ engine' \in [Threads -> Nat] /\ engine'[t] = cache
        /\ cached_engine' \in [Threads -> BOOLEAN] /\ cached_engine'[t]
        /\ \A u \in Threads : u # t =>
              engine'[u] = engine[u] /\ cached_engine'[u] = cached_engine[u]
    BY <2>a, <2>b DEF EngineInv, EngineTypes
  <2>3. UNCHANGED <<cache, made, open>>
    BY DEF LookUp, shared
  <2>4. ~HasOwn(t) /\ ~HasOwn(t)' /\ \A u \in Threads : HasOwn(u)' <=> HasOwn(u)
    BY <2>1, <2>2 DEF HasOwn, Extracting
  <2>5. \A u \in Threads : EngineOK(u)'
    BY <1>2, <2>1, <2>2, <2>3, <2>4 DEF EngineInv, EngineOK, Extracting
  <2>6. \A e \in open : e = cache \/ \E u \in Threads : HasOwn(u)' /\ engine'[u] = e
    BY <2>2, <2>4 DEF EngineInv
  <2> QED
    BY <2>1, <2>2, <2>3, <2>4, <2>5, <2>6 DEF EngineInv, EngineTypes
<1> QED
  BY <1>1, <1>2

\* A new engine is nobody else's.
LEMMA MakeKeepsEngines ==
  ASSUME EngineInv, NEW t \in Threads, MakeEngine(t)
  PROVE  EngineInv'
<1>1. CASE UNCHANGED <<made, open, engine>> /\ Goto(t, "ended")
  BY <1>1, EngineFrame DEF MakeEngine, Places
<1>2. CASE /\ made' = made + 1
           /\ open' = open \cup {made + 1}
           /\ engine' = [engine EXCEPT ![t] = made + 1]
           /\ Goto(t, IF config.cache_engine THEN "store" ELSE "render")
  <2>1. /\ pc' \in [Threads -> Places]
        /\ pc'[t] \in {"store", "render"} /\ pc[t] = "make"
        /\ \A u \in Threads : u # t => pc'[u] = pc[u]
    BY <1>2, Moves DEF EngineInv, MakeEngine, Places
  <2>2. /\ engine' \in [Threads -> Nat] /\ engine'[t] = made + 1
        /\ \A u \in Threads : u # t => engine'[u] = engine[u]
    BY <1>2 DEF EngineInv, EngineTypes
  <2>3. UNCHANGED <<cache, cached_engine>> /\ ~cached_engine[t]
    BY <2>1 DEF MakeEngine, EngineInv, EngineOK
  <2>4. /\ HasOwn(t)' /\ ~HasOwn(t)
        /\ \A u \in Threads : u # t => (HasOwn(u)' <=> HasOwn(u))
    BY <2>1, <2>3 DEF HasOwn, Extracting
  <2>5. made + 1 \notin open /\ cache # made + 1 /\ open' \subseteq 1 .. made'
    BY <1>2 DEF EngineInv, EngineTypes, None
  <2>6. \A u \in Threads : EngineOK(u)'
    BY <1>2, <2>1, <2>2, <2>3, <2>4, <2>5 DEF EngineInv, EngineOK, Extracting
  <2>7. \A u, w \in Threads : HasOwn(u)' /\ HasOwn(w)' /\ engine'[u] = engine'[w] => u = w
    BY <2>2, <2>4, <2>5 DEF EngineInv, EngineOK
  <2>8. \A e \in open' : e = cache \/ \E u \in Threads : HasOwn(u)' /\ engine'[u] = e
    BY <1>2, <2>2, <2>4 DEF EngineInv
  <2> QED
    BY <1>2, <2>1, <2>2, <2>3, <2>5, <2>6, <2>7, <2>8 DEF EngineInv, EngineTypes
<1> QED
  BY <1>1, <1>2 DEF MakeEngine

\* The first engine becomes the cache's, a later one is closed.
LEMMA StoreKeepsEngines ==
  ASSUME EngineInv, NEW t \in Threads, StoreEngine(t)
  PROVE  EngineInv'
<1>1. /\ pc' \in [Threads -> Places]
      /\ pc'[t] = "render" /\ pc[t] = "store"
      /\ \A u \in Threads : u # t => pc'[u] = pc[u]
  BY Moves DEF EngineInv, StoreEngine, Places
<1>2. /\ HasOwn(t) /\ engine[t] \in open /\ engine[t] # cache /\ engine[t] # None
      /\ made' = made
  BY <1>1 DEF EngineInv, EngineTypes, EngineOK, HasOwn, None, StoreEngine
<1>3. cache' \in Nat /\ cache' # None /\ cache' \in open'
  <2>1. CASE cache = None
    BY <1>2, <2>1 DEF StoreEngine, CloseLoser, EngineInv, EngineTypes
  <2>2. CASE cache # None
    <3>1. cache' = cache /\ open' = open \ {engine[t]}
      BY <2>2 DEF StoreEngine, CloseLoser
    <3>2. cache \in open /\ cache \in Nat
      BY <2>2, OpenNumbered DEF EngineInv
    <3> QED
      BY <1>2, <2>2, <3>1, <3>2
  <2> QED
    BY <2>1, <2>2
<1>4. /\ engine' \in [Threads -> Nat] /\ engine'[t] = cache'
      /\ cached_engine' \in [Threads -> BOOLEAN] /\ cached_engine'[t]
      /\ \A u \in Threads : u # t =>
            engine'[u] = engine[u] /\ cached_engine'[u] = cached_engine[u]
  BY <1>3 DEF EngineInv, EngineTypes, StoreEngine
<1>5. ~HasOwn(t)' /\ \A u \in Threads : u # t => (HasOwn(u)' <=> HasOwn(u))
  BY <1>1, <1>4 DEF HasOwn, Extracting
<1>6. /\ open' \subseteq open
      /\ \A e \in open : e = engine[t] \/ e \in open'
      /\ cache # None => cache' = cache /\ engine[t] \notin open'
      /\ cache = None => cache' = engine[t]
  BY DEF StoreEngine, CloseLoser
<1>7. \A u \in Threads : u # t /\ HasOwn(u) =>
         /\ engine[u] # engine[t]
         /\ engine[u] \in open'
         /\ engine[u] # cache'
  BY <1>2, <1>6 DEF EngineInv, EngineOK
<1>8. \A u \in Threads : EngineOK(u)'
  <2>1. EngineOK(t)'
    BY <1>1, <1>3, <1>4, <1>5 DEF EngineOK, Extracting
  <2>2. ASSUME NEW u \in Threads, u # t PROVE EngineOK(u)'
    <3>1. Extracting(u) /\ cached_engine[u] => cache # None
      BY DEF EngineInv, EngineOK
    <3> QED
      BY <1>1, <1>4, <1>5, <1>6, <1>7, <2>2, <3>1 DEF EngineInv, EngineOK, Extracting
  <2> QED
    BY <2>1, <2>2
<1>9. \A u, w \in Threads : HasOwn(u)' /\ HasOwn(w)' /\ engine'[u] = engine'[w] => u = w
  BY <1>4, <1>5 DEF EngineInv
<1>10. \A e \in open' : e = cache' \/ \E u \in Threads : HasOwn(u)' /\ engine'[u] = e
  <2> SUFFICES ASSUME NEW e \in open', e # cache'
               PROVE  \E u \in Threads : HasOwn(u)' /\ engine'[u] = e
    OBVIOUS
  <2>1. e \in open /\ e # engine[t] /\ e # cache
    <3>1. e \in open
      BY <1>6
    <3>2. e # engine[t]
      BY <1>6
    <3>3. e # cache
      BY <1>6, <3>1 DEF EngineInv, EngineTypes, None
    <3> QED
      BY <3>1, <3>2, <3>3
  <2>2. PICK u \in Threads : HasOwn(u) /\ engine[u] = e
    BY <2>1 DEF EngineInv
  <2>3. u # t
    BY <2>1, <2>2
  <2> QED
    BY <1>4, <1>5, <2>2, <2>3
<1> QED
  BY <1>1, <1>2, <1>3, <1>4, <1>6, <1>8, <1>9, <1>10 DEF EngineInv, EngineTypes

\* Only an engine of one's own is closed.
LEMMA CloseKeepsEngines ==
  ASSUME EngineInv, NEW t \in Threads, CloseEngine(t)
  PROVE  EngineInv'
<1>1. /\ pc' \in [Threads -> Places]
      /\ pc'[t] \in {"ended", "fields"} /\ pc[t] = "close"
      /\ \A u \in Threads : u # t => pc'[u] = pc[u]
  BY Moves DEF EngineInv, CloseEngine, Places
<1>2. UNCHANGED <<cache, made, engine, cached_engine>>
  BY DEF CloseEngine, own
<1>3. ~HasOwn(t)' /\ \A u \in Threads : u # t => (HasOwn(u)' <=> HasOwn(u))
  BY <1>1, <1>2 DEF HasOwn, Extracting
<1>4. /\ open' \subseteq open
      /\ \A e \in open : e \in open' \/ (HasOwn(t) /\ e = engine[t])
      /\ HasOwn(t) => engine[t] \notin open' /\ engine[t] # cache
  BY <1>1 DEF CloseEngine, Closed, HasOwn, Extracting, EngineInv, EngineOK
<1>5. cache # None => cache \in open'
  BY <1>4 DEF EngineInv
<1>6. \A u \in Threads : EngineOK(u)'
  <2>1. ASSUME NEW u \in Threads, u # t, HasOwn(u) PROVE engine[u] \in open'
    BY <1>4, <2>1 DEF EngineInv, EngineOK
  <2> QED
    BY <1>1, <1>2, <1>3, <2>1 DEF EngineInv, EngineOK, Extracting
<1>7. \A e \in open' : e = cache \/ \E u \in Threads : HasOwn(u)' /\ engine'[u] = e
  <2> SUFFICES ASSUME NEW e \in open', e # cache
               PROVE  \E u \in Threads : HasOwn(u)' /\ engine'[u] = e
    OBVIOUS
  <2>1. PICK u \in Threads : HasOwn(u) /\ engine[u] = e
    BY <1>4 DEF EngineInv
  <2>2. u # t
    BY <1>4, <2>1
  <2> QED
    BY <1>2, <1>3, <2>1, <2>2
<1>8. open' \subseteq 1 .. made
  BY <1>4 DEF EngineInv, EngineTypes
<1>9. \A u, w \in Threads : HasOwn(u)' /\ HasOwn(w)' /\ engine'[u] = engine'[w] => u = w
  BY <1>2, <1>3 DEF EngineInv
<1> QED
  BY <1>1, <1>2, <1>5, <1>6, <1>7, <1>8, <1>9 DEF EngineInv, EngineTypes

\* The next document has no engine yet.
LEMMA NextDocumentKeepsEngines ==
  ASSUME EngineInv, NEW t \in Threads, NextDocument(t)
  PROVE  EngineInv'
<1>1. /\ pc' \in [Threads -> Places]
      /\ pc'[t] = "idle" /\ pc[t] = "ended"
      /\ \A u \in Threads : u # t => pc'[u] = pc[u]
  BY Moves DEF EngineInv, NextDocument, Places
<1>2. /\ engine' \in [Threads -> Nat]
      /\ cached_engine' \in [Threads -> BOOLEAN] /\ ~cached_engine'[t]
      /\ \A u \in Threads : u # t =>
            engine'[u] = engine[u] /\ cached_engine'[u] = cached_engine[u]
  BY DEF EngineInv, EngineTypes, NextDocument, None
<1>3. UNCHANGED <<cache, made, open>>
  BY DEF NextDocument, shared
<1>4. ~HasOwn(t) /\ ~HasOwn(t)' /\ \A u \in Threads : HasOwn(u)' <=> HasOwn(u)
  BY <1>1, <1>2 DEF HasOwn, Extracting
<1>5. \A u \in Threads : EngineOK(u)'
  BY <1>1, <1>2, <1>3, <1>4 DEF EngineInv, EngineOK, Extracting
<1>6. \A e \in open : e = cache \/ \E u \in Threads : HasOwn(u)' /\ engine'[u] = e
  BY <1>2, <1>4 DEF EngineInv
<1>7. \A u, w \in Threads : HasOwn(u)' /\ HasOwn(w)' /\ engine'[u] = engine'[w] => u = w
  BY <1>2, <1>4 DEF EngineInv
<1> QED
  BY <1>1, <1>2, <1>3, <1>5, <1>6, <1>7 DEF EngineInv, EngineTypes

LEMMA StepKeepsEngines ==
  ASSUME EngineInv, [Next]_vars
  PROVE  EngineInv'
<1> USE DEF shared, inputs, answers, own, Places
<1>1. CASE UNCHANGED vars
  BY <1>1 DEF vars, EngineInv, EngineTypes, EngineOK, HasOwn, Extracting
<1>2. ASSUME NEW t \in Threads, Gate(t) PROVE EngineInv'
  <2>1. PICK place \in {"config", "ended"} : Goto(t, place)
    BY <1>2 DEF Gate
  <2> QED
    BY <1>2, <2>1, EngineFrame DEF Gate
<1>3. ASSUME NEW t \in Threads, Render(t) PROVE EngineInv'
  <2>1. PICK place \in {"visual", "leave"} : Goto(t, place)
    BY <1>3 DEF Render
  <2> QED
    BY <1>3, <2>1, EngineFrame DEF Render, Extracting
<1>4. ASSUME NEW t \in Threads, VisualPredict(t) PROVE EngineInv'
  <2>1. PICK place \in {"vector", "mllm", "leave"} : Goto(t, place)
    BY <1>4 DEF VisualPredict, AfterVisual
  <2> QED
    BY <1>4, <2>1, EngineFrame DEF VisualPredict, Extracting
<1>5. ASSUME NEW t \in Threads, BuildVector(t) PROVE EngineInv'
  <2>1. PICK place \in {"mllm", "chat"} : Goto(t, place)
    BY <1>5 DEF BuildVector, AfterVector
  <2> QED
    BY <1>5, <2>1, EngineFrame DEF BuildVector, Extracting
<1>6. ASSUME NEW t \in Threads, PredictPage(t) PROVE EngineInv'
  <2>1. PICK place \in {"mllm", "chat", "leave"} : Goto(t, place)
    BY <1>6 DEF PredictPage, AfterMllm
  <2> QED
    BY <1>6, <2>1, EngineFrame DEF PredictPage, Extracting
<1>7. ASSUME NEW t \in Threads, Chat(t) PROVE EngineInv'
  BY <1>7, EngineFrame DEF Chat, Extracting
<1>8. ASSUME NEW t \in Threads, LeaveInputs(t) PROVE EngineInv'
  BY <1>8, EngineFrame DEF LeaveInputs, Extracting
<1>9. ASSUME NEW t \in Threads, Publish(t) PROVE EngineInv'
  <2>1. pc[t] = "fields" /\ Goto(t, "ended")
    BY <1>9 DEF Publish
  <2>2. UNCHANGED <<cache, made, open, engine, cached_engine>>
    BY <1>9 DEF Publish
  <2> QED
    BY <2>1, <2>2, EngineFrame
<1> QED
  BY <1>1, <1>2, <1>3, <1>4, <1>5, <1>6, <1>7, <1>8, <1>9, LookUpKeepsEngines,
     MakeKeepsEngines, StoreKeepsEngines, CloseKeepsEngines, NextDocumentKeepsEngines
  DEF Next

\* EngineInv is an invariant.
THEOREM EngineInvAlways == Spec => []EngineInv
<1>1. Init => EngineInv
  BY EngineInvInitially
<1>2. EngineInv /\ [Next]_vars => EngineInv'
  BY StepKeepsEngines
<1> QED
  BY <1>1, <1>2, PTL DEF Spec

(***************************************************************************)
(* No thread closes an engine another one extracts with                     *)
(* (_get_pp_chatocr_engine, run_pp_chatocr_v4_extraction).         *)
(***************************************************************************)
THEOREM EngineInUseOpenAlways == Spec => []EngineInUseOpen
<1>1. EngineInv => EngineInUseOpen
  BY DEF EngineInv, EngineOK, HasOwn, EngineInUseOpen
<1> QED
  BY <1>1, EngineInvAlways, PTL

(***************************************************************************)
(* Every open engine is the cache's or that of a thread that will close or  *)
(* cache it, in whatever order threads make engines and fail.                *)
(***************************************************************************)
THEOREM NoEngineLostAlways == Spec => []NoEngineLost
<1>1. EngineInv => NoEngineLost
  BY DEF EngineInv, HasOwn, NoEngineLost
<1> QED
  BY <1>1, EngineInvAlways, PTL

-----------------------------------------------------------------------------
(* The stages                                                              *)

Codes == {"vector", "mllm", "chat"}

Results == [reason : {"none", "refused", "failed"}, fields : SUBSET Field,
            warnings : SUBSET (Codes \cup {"bbox"})]

StageTypes ==
    /\ pc \in [Threads -> Places]
    /\ pages \in [Threads -> Nat]
    /\ vector_info \in [Threads -> BOOLEAN]
    /\ asked \in [Threads -> Nat]
    /\ mllm_res \in [Threads -> Seq([Keys -> Said])]
    /\ chat_res \in [Threads -> SUBSET (Keys \cup {NoAnswer})]
    /\ warnings \in [Threads -> SUBSET Codes]
    /\ result \in [Threads -> Results]

\* A stage has been asked all it was to be asked, or the warnings say that it has not.
VectorDone(t, codes) == config.chat => vector_info[t] \/ "vector" \in codes
ChatDone(t, codes) == config.chat => NoAnswer \notin chat_res[t] \/ "chat" \in codes
MllmDone(t, codes) == config.mllm => asked[t] = pages[t] \/ "mllm" \in codes
Done(t, codes) == VectorDone(t, codes) /\ ChatDone(t, codes) /\ MllmDone(t, codes)

\* The answers are in the fields.
Kept(t) ==
    \A key \in Keys :
        /\ key \in chat_res[t] => IsField(t, key, "chat")
        /\ Says(t, key, "value") => IsField(t, key, "mllm") \/ Says(t, key, "hollow")

StageOK(t) ==
    /\ pc[t] \in {"mllm", "chat"} => VectorDone(t, warnings[t])
    /\ pc[t] = "chat" => MllmDone(t, warnings[t])
    /\ pc[t] \in {"leave", "close"} => result[t].reason = "failed" \/ Done(t, warnings[t])
    /\ pc[t] = "fields" => Done(t, warnings[t])
    /\ pc[t] = "ended" => result[t].reason # "none" \/ (Done(t, result[t].warnings) /\ Kept(t))

StageInv == StageTypes /\ \A t \in Threads : StageOK(t)

OthersStay(t) ==
    \A u \in Threads \ {t} :
        /\ pc'[u] = pc[u] /\ pages'[u] = pages[u]
        /\ vector_info'[u] = vector_info[u]
        /\ asked'[u] = asked[u] /\ mllm_res'[u] = mllm_res[u]
        /\ chat_res'[u] = chat_res[u] /\ warnings'[u] = warnings[u]
        /\ result'[u] = result[u]

\* Going on, failing and warning keep the types.
LEMMA GotoTyped ==
  ASSUME StageTypes, NEW t \in Threads, NEW place \in Places, Goto(t, place)
  PROVE  pc' \in [Threads -> Places]
  BY DEF StageTypes, Goto

LEMMA FailsTyped ==
  ASSUME StageTypes, NEW t \in Threads, NEW reason \in {"refused", "failed"}, Fails(t, reason)
  PROVE  result' \in [Threads -> Results]
<1>1. [result[t] EXCEPT !.reason = reason] \in Results
  BY DEF StageTypes, Results
<1> QED
  BY <1>1 DEF StageTypes, Fails

LEMMA WarnTyped ==
  ASSUME StageTypes, NEW t \in Threads, NEW code \in Codes, Warn(t, code)
  PROVE  warnings' \in [Threads -> SUBSET Codes]
<1>1. warnings[t] \cup {code} \in SUBSET Codes
  BY DEF StageTypes
<1> QED
  BY <1>1 DEF StageTypes, Warn

LEMMA OneThread ==
  ASSUME StageInv, StageTypes', UNCHANGED config,
         NEW t \in Threads, OthersStay(t), StageOK(t)'
  PROVE  StageInv'
<1>1. ASSUME NEW u \in Threads, u # t PROVE StageOK(u)'
  BY <1>1 DEF StageInv, StageOK, OthersStay, Done, VectorDone, ChatDone, MllmDone,
              Kept, IsField, Says
<1> QED
  BY <1>1 DEF StageInv

LEMMA StageInvInitially ==
  ASSUME Init PROVE StageInv
  BY DEF Init, StageInv, StageTypes, StageOK, Results, Places, NoResult, Codes, NoAnswer, None

\* The steps before the stages, and after them, of a thread that fails or goes on.
LEMMA OuterSteps ==
  ASSUME StageInv, NEW t \in Threads,
         \/ Gate(t) \/ LookUp(t) \/ MakeEngine(t) \/ StoreEngine(t)
         \/ LeaveInputs(t) \/ CloseEngine(t) \/ NextDocument(t)
  PROVE  StageInv'
<1> USE DEF shared, inputs, answers, own
<1>1. ASSUME Gate(t) PROVE StageInv'
  <2>1. StageTypes'
    BY <1>1, FailsTyped, GotoTyped DEF Gate, StageInv, StageTypes, Places
  <2>2. OthersStay(t)
    BY <1>1 DEF Gate, Goto, Fails, StageInv, StageTypes, OthersStay
  <2>3. StageOK(t)'
    BY <1>1 DEF Gate, Goto, Fails, StageInv, StageTypes, StageOK, Results
  <2> QED
    BY <1>1, <2>1, <2>2, <2>3, OneThread DEF Gate
<1>2. ASSUME LookUp(t) PROVE StageInv'
  <2>1. StageTypes'
    BY <1>2, FailsTyped, GotoTyped DEF LookUp, StageInv, StageTypes, Places
  <2>2. OthersStay(t)
    BY <1>2 DEF LookUp, Goto, Fails, StageInv, StageTypes, OthersStay
  <2>3. StageOK(t)'
    BY <1>2 DEF LookUp, Goto, Fails, StageInv, StageTypes, StageOK, Results
  <2> QED
    BY <1>2, <2>1, <2>2, <2>3, OneThread DEF LookUp
<1>3. ASSUME MakeEngine(t) PROVE StageInv'
  <2>1. StageTypes'
    BY <1>3, FailsTyped, GotoTyped DEF MakeEngine, StageInv, StageTypes, Places
  <2>2. OthersStay(t)
    BY <1>3 DEF MakeEngine, Goto, Fails, StageInv, StageTypes, OthersStay
  <2>3. StageOK(t)'
    BY <1>3 DEF MakeEngine, Goto, Fails, StageInv, StageTypes, StageOK, Results
  <2> QED
    BY <1>3, <2>1, <2>2, <2>3, OneThread DEF MakeEngine
<1>4. ASSUME StoreEngine(t) PROVE StageInv'
  <2>1. StageTypes'
    BY <1>4 DEF StoreEngine, Goto, StageInv, StageTypes, Places
  <2>2. OthersStay(t)
    BY <1>4 DEF StoreEngine, Goto, StageInv, StageTypes, OthersStay
  <2>3. StageOK(t)'
    BY <1>4 DEF StoreEngine, Goto, StageInv, StageTypes, StageOK
  <2> QED
    BY <1>4, <2>1, <2>2, <2>3, OneThread DEF StoreEngine
<1>5. ASSUME LeaveInputs(t) PROVE StageInv'
  <2>1. StageTypes'
    BY <1>5 DEF LeaveInputs, Goto, StageInv, StageTypes, Places
  <2>2. OthersStay(t)
    BY <1>5 DEF LeaveInputs, Goto, StageInv, StageTypes, OthersStay
  <2>3. StageOK(t)'
    BY <1>5 DEF LeaveInputs, Goto, StageInv, StageTypes, StageOK,
                Done, VectorDone, ChatDone, MllmDone
  <2> QED
    BY <1>5, <2>1, <2>2, <2>3, OneThread DEF LeaveInputs
<1>6. ASSUME CloseEngine(t) PROVE StageInv'
  <2>1. StageTypes'
    BY <1>6 DEF CloseEngine, Goto, StageInv, StageTypes, Places
  <2>2. OthersStay(t)
    BY <1>6 DEF CloseEngine, Goto, StageInv, StageTypes, OthersStay
  <2>3. StageOK(t)'
    BY <1>6 DEF CloseEngine, Goto, StageInv, StageTypes, StageOK,
                Done, VectorDone, ChatDone, MllmDone
  <2> QED
    BY <1>6, <2>1, <2>2, <2>3, OneThread DEF CloseEngine
<1>7. ASSUME NextDocument(t) PROVE StageInv'
  <2>1. StageTypes'
    BY <1>7 DEF NextDocument, Goto, StageInv, StageTypes, Results, Places, NoResult
  <2>2. OthersStay(t)
    BY <1>7 DEF NextDocument, Goto, StageInv, StageTypes, OthersStay
  <2>3. StageOK(t)'
    BY <1>7 DEF NextDocument, Goto, StageInv, StageTypes, StageOK
  <2> QED
    BY <1>7, <2>1, <2>2, <2>3, OneThread DEF NextDocument
<1> QED
  BY <1>1, <1>2, <1>3, <1>4, <1>5, <1>6, <1>7

\* The stages: each is over, or warned of, when its place is left.
LEMMA StageSteps ==
  ASSUME StageInv, NEW t \in Threads,
         Render(t) \/ VisualPredict(t) \/ BuildVector(t) \/ PredictPage(t) \/ Chat(t)
  PROVE  StageInv'
<1> USE DEF shared, inputs, answers, own
<1>1. ASSUME Render(t) PROVE StageInv'
  <2>1. PICK n \in Nat : pages' = [pages EXCEPT ![t] = n]
    <3>1. 1 .. MaxPages \subseteq Nat
      BY ExtractionAssumption
    <3> QED
      BY <1>1, <3>1 DEF Render
  <2>2. StageTypes'
    BY <1>1, <2>1, FailsTyped, GotoTyped DEF Render, StageInv, StageTypes, Places
  <2>3. OthersStay(t)
    BY <1>1, <2>1 DEF Render, Goto, Fails, StageInv, StageTypes, OthersStay
  <2>4. StageOK(t)'
    BY <1>1 DEF Render, Goto, Fails, StageInv, StageTypes, StageOK, Results
  <2> QED
    BY <1>1, <2>2, <2>3, <2>4, OneThread DEF Render
<1>2. ASSUME VisualPredict(t) PROVE StageInv'
  <2>1. StageTypes'
    BY <1>2, FailsTyped, GotoTyped DEF VisualPredict, AfterVisual, StageInv, StageTypes, Places
  <2>2. OthersStay(t)
    BY <1>2 DEF VisualPredict, Goto, Fails, StageInv, StageTypes, OthersStay
  <2>3. StageOK(t)'
    BY <1>2 DEF VisualPredict, AfterVisual, Goto, Fails, StageInv, StageTypes, StageOK, Results,
                Done, VectorDone, ChatDone, MllmDone
  <2> QED
    BY <1>2, <2>1, <2>2, <2>3, OneThread DEF VisualPredict
<1>3. ASSUME BuildVector(t) PROVE StageInv'
  <2>1. StageTypes'
    BY <1>3, WarnTyped, GotoTyped DEF BuildVector, AfterVector, StageInv, StageTypes, Places, Codes
  <2>2. OthersStay(t)
    BY <1>3 DEF BuildVector, Warn, Goto, StageInv, StageTypes, OthersStay
  <2>3. StageOK(t)'
    BY <1>3 DEF BuildVector, AfterVector, Warn, Goto, StageInv, StageTypes, StageOK,
                VectorDone, MllmDone
  <2> QED
    BY <1>3, <2>1, <2>2, <2>3, OneThread DEF BuildVector
<1>4. ASSUME PredictPage(t) PROVE StageInv'
  <2>1. pc'[t] \in {"mllm", AfterMllm(t)} /\ pc[t] = "mllm" /\ AfterMllm(t) \in {"chat", "leave"}
    BY <1>4 DEF PredictPage, Goto, AfterMllm, StageInv, StageTypes
  <2>2. StageTypes'
    <3>1. mllm_res' \in [Threads -> Seq([Keys -> Said])]
      <4>1. \A answer \in [Keys -> Said] : Append(mllm_res[t], answer) \in Seq([Keys -> Said])
        BY DEF StageInv, StageTypes
      <4> QED
        BY <1>4, <4>1 DEF PredictPage, StageInv, StageTypes
    <3>4. asked' \in [Threads -> Nat]
      BY <1>4 DEF PredictPage, StageInv, StageTypes
    <3>2. warnings' \in [Threads -> SUBSET Codes]
      BY <1>4, WarnTyped DEF PredictPage, StageInv, StageTypes, Codes
    <3>3. pc' \in [Threads -> Places]
      BY <1>4, <2>1 DEF PredictPage, Goto, AfterMllm, StageInv, StageTypes, Places
    <3> QED
      BY <1>4, <3>1, <3>2, <3>3, <3>4 DEF PredictPage, StageInv, StageTypes
  <2>3. OthersStay(t)
    BY <1>4 DEF PredictPage, Warn, Goto, StageInv, StageTypes, OthersStay
  <2>4. VectorDone(t, warnings[t])'
    BY <1>4 DEF PredictPage, Warn, StageInv, StageTypes, StageOK, VectorDone
  <2>5. pc'[t] # "mllm" => MllmDone(t, warnings[t])'
    <3>1. CASE warnings' = warnings
      BY <1>4, <3>1 DEF PredictPage, Goto, Warn, StageInv, StageTypes, MllmDone
    <3>2. CASE Warn(t, "mllm")
      BY <3>2 DEF Warn, StageInv, StageTypes, MllmDone
    <3> QED
      BY <1>4, <3>1, <3>2 DEF PredictPage
  <2>6. pc'[t] = "leave" => ~config.chat
    BY <1>4, <2>1 DEF PredictPage, Goto, AfterMllm, StageInv, StageTypes
  <2>7. StageOK(t)'
    BY <1>4, <2>1, <2>4, <2>5, <2>6 DEF PredictPage, StageOK, Done, ChatDone
  <2> QED
    BY <1>4, <2>2, <2>3, <2>7, OneThread DEF PredictPage
<1>5. ASSUME Chat(t) PROVE StageInv'
  <2>1. StageTypes'
    <3>1. warnings' \in [Threads -> SUBSET Codes]
      BY <1>5, WarnTyped DEF Chat, StageInv, StageTypes, Codes
    <3>2. chat_res' \in [Threads -> SUBSET (Keys \cup {NoAnswer})]
      BY <1>5 DEF Chat, StageInv, StageTypes
    <3> QED
      BY <1>5, <3>1, <3>2, GotoTyped DEF Chat, StageInv, StageTypes, Places
  <2>2. OthersStay(t)
    BY <1>5 DEF Chat, Warn, Goto, StageInv, StageTypes, OthersStay
  <2>3. pc'[t] = "leave" /\ VectorDone(t, warnings[t])' /\ MllmDone(t, warnings[t])'
    BY <1>5 DEF Chat, Warn, Goto, StageInv, StageTypes, StageOK, VectorDone, MllmDone
  <2>4. ChatDone(t, warnings[t])'
    BY <1>5, ExtractionAssumption DEF Chat, Warn, StageInv, StageTypes, ChatDone, NoAnswer
  <2>5. StageOK(t)'
    BY <2>3, <2>4 DEF StageOK, Done
  <2> QED
    BY <1>5, <2>1, <2>2, <2>5, OneThread DEF Chat
<1> QED
  BY <1>1, <1>2, <1>3, <1>4, <1>5

\* What the models answered are keys, of one of the stages.
LEMMA PredictionsTyped ==
  ASSUME StageTypes, NEW t \in Threads
  PROVE  Predictions(t) \subseteq (Keys \cup {"text"}) \X {"chat", "mllm", "visual"}
<1>1. MergedPages(t) \subseteq Keys
  BY DEF StageTypes, MergedPages
<1>2. chat_res[t] \ {NoAnswer} \subseteq Keys
  BY DEF StageTypes
<1> QED
  BY <1>1, <1>2 DEF Predictions, VisualFields

\* A key with a value is predicted, unless a page says of it a structure without one.
LEMMA AnswersPredicted ==
  ASSUME NEW t \in Threads, NEW key \in Keys
  PROVE  /\ key \in chat_res[t] => <<key, "chat">> \in Predictions(t)
         /\ Says(t, key, "value") => <<key, "mllm">> \in Predictions(t) \/ Says(t, key, "hollow")
<1>1. key # NoAnswer
  BY ExtractionAssumption DEF NoAnswer
<1>2. Says(t, key, "value") /\ ~Says(t, key, "hollow") => key \in MergedPages(t)
  BY DEF MergedPages, SpoiltFirst, Says
<1> QED
  BY <1>1, <1>2 DEF Predictions

\* The result has the warnings of its stages, and all that they answered.
LEMMA PublishKeepsStages ==
  ASSUME StageInv, NEW t \in Threads, Publish(t)
  PROVE  StageInv'
<1> USE DEF shared, inputs, answers, own
<1>1. PICK region \in [Predictions(t) -> RegionsOf(t)] :
        result' = [result EXCEPT ![t] =
          [reason |-> "none",
           fields |-> {[key |-> p[1], stage |-> p[2], region |-> region[p]] : p \in Predictions(t)},
           warnings |-> warnings[t]
             \cup Unplaced({[key |-> p[1], stage |-> p[2], region |-> region[p]] : p \in Predictions(t)})]]
  BY DEF Publish
<1> DEFINE Fields ==
      {[key |-> p[1], stage |-> p[2], region |-> region[p]] : p \in Predictions(t)}
<1>2. Fields \in SUBSET Field
  <2>1. RegionsOf(t) \subseteq Regions
    BY DEF RegionsOf, Regions
  <2>2. ASSUME NEW p \in Predictions(t)
        PROVE  [key |-> p[1], stage |-> p[2], region |-> region[p]] \in Field
    <3>1. p[1] \in Keys \cup {"text"} /\ p[2] \in {"chat", "mllm", "visual"}
      BY PredictionsTyped DEF StageInv
    <3>2. region[p] \in Regions
      BY <2>1
    <3> QED
      BY <3>1, <3>2 DEF Field
  <2> QED
    BY <2>2
<1>3. Unplaced(Fields) \subseteq {"bbox"}
  BY DEF Unplaced
<1> HIDE DEF Fields
<1>4. result' = [result EXCEPT ![t] =
         [reason |-> "none", fields |-> Fields, warnings |-> warnings[t] \cup Unplaced(Fields)]]
  BY <1>1 DEF Fields
<1>5. StageTypes'
  BY <1>2, <1>3, <1>4 DEF Publish, Goto, StageInv, StageTypes, Results, Places
<1>6. OthersStay(t)
  BY <1>4 DEF Publish, Goto, StageInv, StageTypes, OthersStay
<1>7. StageOK(t)'
  <2>1. pc[t] = "fields" /\ pc'[t] = "ended" /\ Done(t, warnings[t])
    BY DEF Publish, Goto, StageInv, StageTypes, StageOK
  <2>2. warnings[t] \subseteq result'[t].warnings
    BY <1>4 DEF StageInv, StageTypes, Results
  <2>3. Done(t, result[t].warnings)'
    BY <2>1, <2>2 DEF Publish, Done, VectorDone, ChatDone, MllmDone
  <2>4. \A key, stage : <<key, stage>> \in Predictions(t) => IsField(t, key, stage)'
    <3>1. result'[t].fields = Fields
      BY <1>4 DEF StageInv, StageTypes
    <3>2. ASSUME NEW key, NEW stage, <<key, stage>> \in Predictions(t)
          PROVE  \E f \in Fields : f.key = key /\ f.stage = stage
      <4> DEFINE f == [key |-> key, stage |-> stage, region |-> region[<<key, stage>>]]
      <4>1. f \in Fields
        BY <3>2 DEF Fields
      <4> QED
        BY <4>1
    <3> QED
      BY <3>1, <3>2 DEF IsField
  <2>5. UNCHANGED <<chat_res, mllm_res>>
    BY DEF Publish
  <2>6. Kept(t)'
    BY <2>4, <2>5, AnswersPredicted DEF Kept, Says
  <2> QED
    BY <2>1, <2>3, <2>6 DEF StageOK
<1> QED
  BY <1>5, <1>6, <1>7, OneThread DEF Publish

\* StageInv is an invariant.
THEOREM StageInvAlways == Spec => []StageInv
<1>1. Init => StageInv
  BY StageInvInitially
<1>2. StageInv /\ [Next]_vars => StageInv'
  <2> SUFFICES ASSUME StageInv, [Next]_vars PROVE StageInv'
    OBVIOUS
  <2>1. CASE UNCHANGED vars
    BY <2>1 DEF vars, shared, inputs, answers, own, StageInv, StageTypes, StageOK,
                Done, VectorDone, ChatDone, MllmDone, Kept, IsField, Says
  <2>2. CASE Next
    BY <2>2, OuterSteps, StageSteps, PublishKeepsStages DEF Next
  <2> QED
    BY <2>1, <2>2
<1> QED
  BY <1>1, <1>2, PTL DEF Spec

(***************************************************************************)
(* For a result without a failure every configured stage was asked, for     *)
(* every page, or the result warns of it, whichever stages fail at whichever *)
(* page; and what the models had a value for before they failed is a field.  *)
(***************************************************************************)
THEOREM StagesAccountedForAlways == Spec => []StagesAccountedFor
<1>1. StageInv => StagesAccountedFor
  BY DEF StageInv, StageOK, Done, VectorDone, ChatDone, MllmDone, Kept, StagesAccountedFor
<1> QED
  BY <1>1, StageInvAlways, PTL

=============================================================================
