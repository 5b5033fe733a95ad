----------------------------- MODULE OcrExtraction -----------------------------
(***************************************************************************)
(* The extraction of a document: the safety gate, the PP-ChatOCR engine,    *)
(* which the threads of a process share through a cache, its stages, each   *)
(* of which may fail, and the result that says which of them did.           *)
(*   extraction/pipeline.py, extraction/security_gate.py                    *)
(*   extraction/ocr/pp_chatocr_v4.py, extraction/evidence_graph.py          *)
(* The text of a document is left out: a stage says for each key whether it *)
(* has a value, and a field is a key, the stage it is from and how its      *)
(* region was found.                                                        *)
(***************************************************************************)
EXTENDS Naturals, Sequences, FiniteSets

CONSTANTS Threads,       \* threads that extract: of a worker, or of the API's pool
          Keys,          \* what the chat models are asked for
          MaxPages,      \* bound: pages of a document
          MaxDocuments   \* bound: extractions of the process

ASSUME ExtractionAssumption ==
    /\ MaxPages \in Nat \ {0}
    /\ MaxDocuments \in Nat
    /\ "none" \notin Keys

VARIABLES config,        \* _load_config(): the environment of the process
          cache,         \* _ENGINE_CACHE: an engine, or None
          made,          \* engines made so far; they are numbered
          open,          \* engines that are not closed
          documents,     \* documents taken so far
          pc,
          engine,        \* engine, and
          cached_engine, \* whether it is the cache's
          pages,         \* pages of the document
          images,        \* whether images of them are on disk
          visual,        \* whether normalized has layout blocks or table cells
          asked,         \* pages the multimodal model was asked about, and
          mllm_res,      \* mllm_results: those of its answers that can be used
          vector_info, chat_res,  \* what the other stages answered
          warnings,      \* codes
          result         \* ExtractionResult: reason_code, fields and warnings

shared == <<config, cache, made, open, documents>>
inputs == <<pages, images, visual>>
answers == <<asked, vector_info, mllm_res, chat_res, warnings>>
own == <<engine, cached_engine, inputs, answers, result>>
vars == <<shared, pc, own>>

None == 0
NoAnswer == "none"
Configs == [valid : BOOLEAN, cache_engine : BOOLEAN, chat : BOOLEAN, mllm : BOOLEAN]
Regions == {"found", "layout", "nowhere"}
Field == [key : Keys \cup {"text"}, stage : {"chat", "mllm", "visual"}, region : Regions]
\* What an answer says of a key: nothing, a value, or a structure without a value.
Said == {"nothing", "value", "hollow"}
NoResult == [reason |-> "none", fields |-> {}, warnings |-> {}]

Extracting(t) == pc[t] \in {"render", "visual", "vector", "mllm", "chat", "leave", "close"}

Init ==
    /\ config \in Configs
    /\ cache = None
    /\ made = 0
    /\ open = {}
    /\ documents = 0
    /\ pc = [t \in Threads |-> "idle"]
    /\ engine = [t \in Threads |-> None]
    /\ cached_engine = [t \in Threads |-> FALSE]
    /\ pages = [t \in Threads |-> 0]
    /\ images = [t \in Threads |-> FALSE]
    /\ visual = [t \in Threads |-> FALSE]
    /\ vector_info = [t \in Threads |-> FALSE]
    /\ asked = [t \in Threads |-> 0]
    /\ mllm_res = [t \in Threads |-> <<>>]
    /\ chat_res = [t \in Threads |-> {NoAnswer}]
    /\ warnings = [t \in Threads |-> {}]
    /\ result = [t \in Threads |-> NoResult]

Goto(t, label) == pc' = [pc EXCEPT ![t] = label]
Fails(t, reason) == result' = [result EXCEPT ![t].reason = reason]

-----------------------------------------------------------------------------
(* The gate and the engine.                                                *)

\* validate_document_intake(): the first check that fails refuses the document.
Gate(t) ==
    /\ pc[t] = "idle"
    /\ documents < MaxDocuments
    /\ documents' = documents + 1
    /\ \/ Goto(t, "config") /\ UNCHANGED result
       \/ Goto(t, "ended") /\ Fails(t, "refused")
    /\ UNCHANGED <<config, cache, made, open, engine, cached_engine, inputs, answers>>

LookUp(t) ==
    /\ pc[t] = "config"
    /\ IF ~config.valid
       THEN Goto(t, "ended") /\ Fails(t, "failed") /\ UNCHANGED <<engine, cached_engine>>
       ELSE /\ UNCHANGED result
            /\ IF config.cache_engine /\ cache # None
               THEN /\ engine' = [engine EXCEPT ![t] = cache]
                    /\ cached_engine' = [cached_engine EXCEPT ![t] = TRUE]
                    /\ Goto(t, "render")
               ELSE Goto(t, "make") /\ UNCHANGED <<engine, cached_engine>>
    /\ UNCHANGED <<shared, inputs, answers>>

\* PPChatOCRv4Doc(): outside the lock, so that two threads may make one each.
MakeEngine(t) ==
    /\ pc[t] = "make"
    /\ \/ /\ made' = made + 1
          /\ open' = open \cup {made + 1}
          /\ engine' = [engine EXCEPT ![t] = made + 1]
          /\ Goto(t, IF config.cache_engine THEN "store" ELSE "render")
          /\ UNCHANGED result
       \/ Goto(t, "ended") /\ Fails(t, "failed") /\ UNCHANGED <<made, open, engine>>
    /\ UNCHANGED <<config, cache, documents, cached_engine, inputs, answers>>

\* Mutant: the engine that came second is dropped as it is.
DropLoser(t) == open

\* The engine that came second is closed.
CloseLoser(t) == IF cache # None THEN open \ {engine[t]} ELSE open

StoreEngine(t) ==
    /\ pc[t] = "store"
    /\ open' = CloseLoser(t)
    /\ cache' = IF cache # None THEN cache ELSE engine[t]
    /\ engine' = [engine EXCEPT ![t] = cache']
    /\ cached_engine' = [cached_engine EXCEPT ![t] = TRUE]
    /\ Goto(t, "render")
    /\ UNCHANGED <<config, made, documents, inputs, answers, result>>

-----------------------------------------------------------------------------
(* The stages.  An image of each page is there while they run.             *)

AfterVisual == IF config.chat THEN "vector" ELSE IF config.mllm THEN "mllm" ELSE "leave"
AfterVector == IF config.mllm THEN "mllm" ELSE "chat"

\* Mutant: the stages that are left are skipped when this one failed.
SkipChat(t) == IF config.chat /\ asked'[t] = pages[t] THEN "chat" ELSE "leave"

AfterMllm(t) == IF config.chat THEN "chat" ELSE "leave"

\* _rasterize_pdf_to_images() may fail after some of the pages.
Render(t) ==
    /\ pc[t] = "render"
    /\ \E n \in 1 .. MaxPages : pages' = [pages EXCEPT ![t] = n]
    /\ images' = [images EXCEPT ![t] = TRUE]
    /\ \/ Goto(t, "visual") /\ UNCHANGED result
       \/ Goto(t, "leave") /\ Fails(t, "failed")
    /\ UNCHANGED <<shared, engine, cached_engine, visual, answers>>

\* _normalize_visual_results(): whether any layout block or table cell has a region.
Layouts == BOOLEAN

\* visual_predict() for every page; without a line of text that has a box it is an error.
VisualPredict(t) ==
    /\ pc[t] = "visual"
    /\ \/ /\ \E layout \in Layouts : visual' = [visual EXCEPT ![t] = layout]
          /\ Goto(t, AfterVisual)
          /\ UNCHANGED result
       \/ Goto(t, "leave") /\ Fails(t, "failed") /\ UNCHANGED visual
    /\ UNCHANGED <<shared, engine, cached_engine, pages, images, answers>>

Warn(t, code) == warnings' = [warnings EXCEPT ![t] = @ \cup {code}]

\* The chat model does without the vector of a stage that failed.
BuildVector(t) ==
    /\ pc[t] = "vector"
    /\ \/ vector_info' = [vector_info EXCEPT ![t] = TRUE] /\ UNCHANGED warnings
       \/ Warn(t, "vector") /\ UNCHANGED vector_info
    /\ Goto(t, AfterVector)
    /\ UNCHANGED <<shared, engine, cached_engine, inputs, asked, mllm_res, chat_res, result>>

\* What the pages before a failure answered is kept.  An answer that cannot be used is
\* passed over, and nothing tells.
PredictPage(t) ==
    /\ pc[t] = "mllm"
    /\ \/ /\ asked' = [asked EXCEPT ![t] = @ + 1]
          /\ \/ \E answer \in [Keys -> Said] : mllm_res' = [mllm_res EXCEPT ![t] = Append(@, answer)]
             \/ UNCHANGED mllm_res
          /\ Goto(t, IF asked'[t] = pages[t] THEN AfterMllm(t) ELSE "mllm")
          /\ UNCHANGED warnings
       \/ UNCHANGED <<asked, mllm_res>> /\ Warn(t, "mllm") /\ Goto(t, AfterMllm(t))
    /\ UNCHANGED <<shared, engine, cached_engine, inputs, vector_info, chat_res, result>>

\* The keys that the chat model has a value for: none, in an answer that cannot be used.
Chat(t) ==
    /\ pc[t] = "chat"
    /\ \/ /\ \E answer \in SUBSET Keys : chat_res' = [chat_res EXCEPT ![t] = answer]
          /\ UNCHANGED warnings
       \/ Warn(t, "chat") /\ UNCHANGED chat_res
    /\ Goto(t, "leave")
    /\ UNCHANGED <<shared, engine, cached_engine, inputs, asked, vector_info, mllm_res, result>>

\* _PreparedPPInputs.__exit__(), or the finalizer of its directory.
ImagesLeft(t) == FALSE

LeaveInputs(t) ==
    /\ pc[t] = "leave"
    /\ images' = [images EXCEPT ![t] = ImagesLeft(t)]
    /\ Goto(t, "close")
    /\ UNCHANGED <<shared, engine, cached_engine, pages, visual, answers, result>>

\* Mutant: the engine is closed whoever else may use it.
ClosedAlways(t) == {engine[t]}

Closed(t) == IF cached_engine[t] THEN {} ELSE {engine[t]}

CloseEngine(t) ==
    /\ pc[t] = "close"
    /\ open' = open \ Closed(t)
    /\ Goto(t, IF result[t].reason = "failed" THEN "ended" ELSE "fields")
    /\ UNCHANGED <<config, cache, made, documents, own>>

-----------------------------------------------------------------------------
(* The result.                                                             *)

\* _build_field_candidates(): a value that no text has is put on the first layout block.
RegionsOf(t) == {"found", IF visual[t] THEN "layout" ELSE "nowhere"}
Unplaced(fields) == IF \E f \in fields : f.region \in {"layout", "nowhere"} THEN {"bbox"} ELSE {}

\* _prediction_fields_from_visual_ocr(): labelled values of its lines and rows, or
\* else the lines themselves; there is at least one.
VisualFields == {<<"text", "visual">>}

\* Some page's answer says this of the key.
Says(t, key, what) == \E p \in DOMAIN mllm_res[t] : mllm_res[t][p][key] = what

\* What the first page to speak of a key says of it stands, even without a value.
SpoiltFirst(t, key) ==
    \E p \in DOMAIN mllm_res[t] :
        mllm_res[t][p][key] = "hollow" /\ \A q \in 1 .. p - 1 : mllm_res[t][q][key] = "nothing"

MergedPages(t) == {key \in Keys : Says(t, key, "value") /\ ~SpoiltFirst(t, key)}

\* Both models may answer a key, which then makes two fields.
Predictions(t) ==
    LET answered == ((chat_res[t] \ {NoAnswer}) \X {"chat"}) \cup (MergedPages(t) \X {"mllm"})
    IN IF answered # {} THEN answered ELSE VisualFields

Publish(t) ==
    /\ pc[t] = "fields"
    /\ \E region \in [Predictions(t) -> RegionsOf(t)] :
          LET fields == {[key |-> p[1], stage |-> p[2], region |-> region[p]] : p \in Predictions(t)}
          IN result' = [result EXCEPT ![t] =
                [reason |-> "none", fields |-> fields, warnings |-> warnings[t] \cup Unplaced(fields)]]
    /\ Goto(t, "ended")
    /\ UNCHANGED <<shared, engine, cached_engine, inputs, answers>>

\* The thread takes another document.
NextDocument(t) ==
    /\ pc[t] = "ended"
    /\ Goto(t, "idle")
    /\ engine' = [engine EXCEPT ![t] = None]
    /\ cached_engine' = [cached_engine EXCEPT ![t] = FALSE]
    /\ pages' = [pages EXCEPT ![t] = 0]
    /\ visual' = [visual EXCEPT ![t] = FALSE]
    /\ vector_info' = [vector_info EXCEPT ![t] = FALSE]
    /\ asked' = [asked EXCEPT ![t] = 0]
    /\ mllm_res' = [mllm_res EXCEPT ![t] = <<>>]
    /\ chat_res' = [chat_res EXCEPT ![t] = {NoAnswer}]
    /\ warnings' = [warnings EXCEPT ![t] = {}]
    /\ result' = [result EXCEPT ![t] = NoResult]
    /\ UNCHANGED <<shared, images>>

Next == \E t \in Threads :
    \/ Gate(t) \/ LookUp(t) \/ MakeEngine(t) \/ StoreEngine(t)
    \/ Render(t) \/ VisualPredict(t) \/ BuildVector(t) \/ PredictPage(t) \/ Chat(t)
    \/ LeaveInputs(t) \/ CloseEngine(t) \/ Publish(t) \/ NextDocument(t)

Spec == Init /\ [][Next]_vars

-----------------------------------------------------------------------------
(***************************************************************************)
(* No thread closes the engine that another one is extracting with: not     *)
(* when both made one for the cache, and not when one of them fails.        *)
(***************************************************************************)
EngineInUseOpen == \A t \in Threads : Extracting(t) => engine[t] \in open

(***************************************************************************)
(* An engine, which holds models in memory, is the cached one or in the     *)
(* hands of a thread that will close or cache it: whatever fails, and in    *)
(* whatever order threads make engines, none is forgotten.                  *)
(***************************************************************************)
NoEngineLost ==
    \A e \in open : e = cache \/ \E t \in Threads :
        engine[t] = e /\ (Extracting(t) \/ pc[t] = "store")

(***************************************************************************)
(* When a document has been extracted, every configured stage has been      *)
(* asked, the multimodal one for every page, or the result warns that it    *)
(* has not; and what a stage did answer before it failed is not lost: a key *)
(* that the chat model or a page has a value for is a field of that stage,  *)
(* unless a page gave the key a structure without a value.  (An answer that *)
(* cannot be used is an answer: nothing warns of it.)                       *)
(***************************************************************************)
IsField(t, key, stage) == \E f \in result[t].fields : f.key = key /\ f.stage = stage

StagesAccountedFor ==
    \A t \in Threads : pc[t] = "ended" /\ result[t].reason = "none" =>
        /\ config.chat => vector_info[t] \/ "vector" \in result[t].warnings
        /\ config.chat => NoAnswer \notin chat_res[t] \/ "chat" \in result[t].warnings
        /\ config.mllm => asked[t] = pages[t] \/ "mllm" \in result[t].warnings
        /\ \A key \in Keys :
              /\ key \in chat_res[t] => IsField(t, key, "chat")
              /\ Says(t, key, "value") => IsField(t, key, "mllm") \/ Says(t, key, "hollow")

=============================================================================
