------------------------ MODULE AdapterServingProofs ------------------------
(***************************************************************************)
(* Proofs about the application over the OpenAI-compatible adapter, for    *)
(* any requests, models, chunks and size of the connection pool.           *)
(***************************************************************************)
EXTENDS AdapterServingProperties, ServingProofs, FiniteSetTheorems

\* A text is at most one word, so what generate() returns can be counted.
LEMMA TextCounted ==
  ASSUME NEW fields \in Texts
  PROVE  Cardinality(_extract_completion_content(fields)) \in TokenCounts
<1>1. _extract_completion_content(fields)
        \in {{}, {"content"}, {"reasoning_content"}}
  BY DEF Texts, Fields, _extract_completion_content, _first_text_value
<1>2. Cardinality({}) = 0 /\ Cardinality({"content"}) = 1
      /\ Cardinality({"reasoning_content"}) = 1
  BY FS_EmptySet, FS_Singleton
<1>3. QED  BY <1>1, <1>2, TokensAssumption

\* Every step of a request over the adapter is a step of Serving, or is the
\* adapter's own.
LEMMA RequestStepServes ==
  ASSUME NEW r \in Requests, AdapterRequestStep(r)
  PROVE  RequestStep(r) \/ UNCHANGED vars
<1>1. CASE ApplicationStep(r)
  BY <1>1 DEF ApplicationStep, RequestStep, HandlerStep, StreamStep, Teardown
<1>2. CASE BeginCall(r)
  BY <1>2 DEF BeginCall, RequestStep, HandlerStep
<1>3. CASE NextChunk(r)
  BY <1>3 DEF NextChunk, RequestStep, StreamStep
<1>4. CASE CallReturns(r)
  <2>1. BackendReply(r)
    BY <1>4, TextCounted DEF CallReturns, BackendReply
  <2>2. QED  BY <2>1 DEF RequestStep
<1>5. CASE CallFails(r)
  BY <1>5 DEF CallFails, BackendRaises, RequestStep, BackendReply, StreamStep
<1>6. ASSUME NEW fields \in Texts, ReadLine(r, fields)
      PROVE  RequestStep(r) \/ UNCHANGED vars
  BY <1>6 DEF ReadLine, RequestStep, StreamStep
<1>7. CASE EndOfBody(r)
  BY <1>7 DEF EndOfBody, RequestStep, StreamStep
<1>8. CASE CallCancelled(r)
  BY <1>8 DEF CallCancelled, RequestStep, Teardown
<1>9. CASE Connect(r) \/ StreamOpens(r) \/ FinaliseStream(r)
  BY <1>9 DEF Connect, StreamOpens, FinaliseStream
<1>10. QED
  BY <1>1, <1>2, <1>3, <1>4, <1>5, <1>6, <1>7, <1>8, <1>9
     DEF AdapterRequestStep, CallStep

\* A step of the composition is one of the application, or none.
LEMMA StepServes ==
  ASSUME [AdapterNext]_adapterVars
  PROVE  [Next]_vars
<1>1. CASE UNCHANGED adapterVars
  BY <1>1 DEF adapterVars
<1>2. CASE CloseClient
  BY <1>2 DEF CloseClient, Next, ServerStep
<1>3. CASE Load \/ LoadFails \/ BeginDrain \/ UpstreamFlips \/ Stopped
  BY <1>3 DEF Next, ServerStep
<1>4. ASSUME NEW r \in Requests, AdapterRequestStep(r)
      PROVE  [Next]_vars
  BY <1>4, RequestStepServes DEF Next
<1>5. QED  BY <1>1, <1>2, <1>3, <1>4 DEF AdapterNext

\* Over the adapter the application takes only the steps that Serving allows
\* with a backend of which nothing is known but that it answers or raises: all
\* that is proved of Serving holds of it.
THEOREM AdapterImplementsServing == AdapterSpec => Spec
<1>1. AdapterInit => Init
  BY DEF AdapterInit
<1>2. [AdapterNext]_adapterVars => [Next]_vars
  BY StepServes
<1>3. QED  BY <1>1, <1>2, PTL DEF AdapterSpec, Spec

\* So types and generators are as in Serving.
LEMMA AdapterKeepsServing == AdapterSpec => [](TypeOK /\ GeneratorAtLastEvent)
BY AdapterImplementsServing, ServingTypeCorrect, PTL
-----------------------------------------------------------------------------
(* Calls and their callers.                                                *)

CallAsCaller(r) ==
  /\ call[r] \in {"connecting", "sent", "reading"}
       <=> pc[r] = "awaiting" \/ gen[r] = "waiting"
  /\ call[r] = "suspended" => \/ gen[r] = "content"
                              \/ gen[r] = "ended" /\ client[r] = "dropped"
  /\ pc[r] = "awaiting" => req[r].kind # "stream"

\* Inductive: only a stream has a generator, so no request is awaited by its
\* handler and by its generator.
CallInv ==
  /\ call \in [Requests -> Phases]
  /\ \A r \in Requests : CallAsCaller(r)

\* Nobody calls the server at first.
LEMMA CallInit == AdapterInit => CallInv
BY DEF AdapterInit, Init, CallInv, CallAsCaller, Phases, NoPayload

\* A request is not affected by the steps of another.
LEMMA OtherCalls ==
  ASSUME CallInv, NEW r \in Requests, call' \in [Requests -> Phases],
         \A q \in Requests \ {r} :
           /\ call'[q] = call[q] /\ pc'[q] = pc[q] /\ gen'[q] = gen[q]
           /\ client'[q] = client[q] /\ req'[q] = req[q],
         CallAsCaller(r)'
  PROVE  CallInv'
BY DEF CallInv, CallAsCaller

\* The variables of the application that say where a caller is are functions.
CallerTyped ==
  /\ pc \in [Requests -> Places]
  /\ gen \in [Requests -> Generators]
  /\ client \in [Requests -> {"connected", "stalled", "left", "dropped"}]
  /\ req \in [Requests -> Payloads]

\* What the calls need of the types of the requests.
LEMMA CallerTypes == TypeOK => CallerTyped
BY DEF TypeOK, CallerTyped

\* What an answer without the backend and its recording do to a request.
LEMMA Answered ==
  ASSUME NEW r \in Requests,
         \/ AnswerLocally(r) \/ AnswerUnrouted(r) \/ AnswerWrongMethod(r)
         \/ RejectUndecodable(r) \/ RejectInvalid(r)
         \/ RefuseModel(r) \/ RecordResponse(r)
  PROVE  /\ pc[r] \in {"routing", "answering"}
         /\ \E place \in {"answering", "recorded"} : pc' = [pc EXCEPT ![r] = place]
         /\ UNCHANGED <<req, gen, client>>
BY DEF AnswerLocally, AnswerUnrouted, AnswerWrongMethod, RejectUndecodable,
   RejectInvalid, RefuseModel, RecordResponse, Answer, Goto, streamVars

\* The steps of the application alone.
LEMMA ApplicationCalls ==
  ASSUME TypeOK, GeneratorAtLastEvent, CallInv, NEW r \in Requests,
         ApplicationStep(r)
  PROVE  CallInv'
<1>0. /\ AtLastEvent(r) /\ CallAsCaller(r) /\ call' = call
      /\ CallerTyped
  BY CallerTypes DEF GeneratorAtLastEvent, CallInv, ApplicationStep
<1> USE <1>0 DEF CallerTyped
<1>1. \A q \in Requests \ {r} :
        /\ pc'[q] = pc[q] /\ gen'[q] = gen[q]
        /\ client'[q] = client[q] /\ req'[q] = req[q]
  <2>1. CASE \E kind \in Kinds, model \in Models \cup {NoModel} : Arrive(r, kind, model)
    BY <2>1 DEF Arrive, streamVars
  <2>2. CASE \/ AnswerLocally(r) \/ AnswerUnrouted(r) \/ AnswerWrongMethod(r)
             \/ RejectUndecodable(r) \/ RejectInvalid(r)
             \/ RefuseModel(r) \/ RecordResponse(r)
    BY <2>2, Answered
  <2>3. CASE OpenStream(r)
    BY <2>3 DEF OpenStream, Answer, Goto
  <2>4. CASE YieldRole(r) \/ YieldDone(r) \/ Exhaust(r)
    BY <2>4 DEF YieldRole, YieldDone, Yield, Exhaust, streamFrame
  <2>5. CASE ClientStep(r) \/ DropGenerator(r) \/ FinaliseGenerator(r)
    BY <2>5, ClientFrame DEF DropGenerator, FinaliseGenerator, Goto
  <2>6. QED  BY <2>1, <2>2, <2>3, <2>4, <2>5 DEF ApplicationStep
<1>2. CallAsCaller(r)'
  <2>1. ASSUME NEW kind \in Kinds, NEW model \in Models \cup {NoModel},
               Arrive(r, kind, model)
        PROVE  CallAsCaller(r)'
    BY <2>1 DEF Arrive, CallAsCaller, streamVars
  <2>2. CASE \/ AnswerLocally(r) \/ AnswerUnrouted(r) \/ AnswerWrongMethod(r)
             \/ RejectUndecodable(r) \/ RejectInvalid(r)
             \/ RefuseModel(r) \/ RecordResponse(r)
    <3>1. /\ pc[r] \in {"routing", "answering"}
          /\ \E place \in {"answering", "recorded"} : pc' = [pc EXCEPT ![r] = place]
          /\ UNCHANGED <<req, gen, client>>
      BY <2>2, Answered
    <3>2. QED  BY <3>1 DEF CallAsCaller
  <2>3. CASE OpenStream(r)
    BY <2>3 DEF OpenStream, Answer, Goto, CallAsCaller, AtLastEvent
  <2>4. CASE YieldRole(r) \/ YieldDone(r) \/ Exhaust(r)
    <3>1. /\ gen[r] \in {"created", "stop", "error", "done"} /\ client[r] # "dropped"
          /\ \E place \in {"role", "done", "ended"} : gen' = [gen EXCEPT ![r] = place]
          /\ UNCHANGED <<pc, client, req>>
      BY <2>4 DEF YieldRole, YieldDone, Yield, Exhaust, Resumed, streamFrame
    <3>2. call[r] # "suspended"
      BY <3>1 DEF CallAsCaller
    <3>3. QED  BY <3>1, <3>2 DEF CallAsCaller
  <2>5. CASE ClientStep(r)
    BY <2>5, ClientFrame DEF CallAsCaller
  <2>6. CASE DropGenerator(r)
    BY <2>6 DEF DropGenerator, Goto, CallAsCaller
  <2>7. CASE FinaliseGenerator(r)
    BY <2>7 DEF FinaliseGenerator, CallAsCaller, AtLastEvent
  <2>8. QED
    BY <2>1, <2>2, <2>3, <2>4, <2>5, <2>6, <2>7 DEF ApplicationStep
<1>3. QED  BY <1>1, <1>2, OtherCalls DEF CallInv

\* The steps in which a call begins, moves on or ends.
LEMMA AdapterCalls ==
  ASSUME TypeOK, GeneratorAtLastEvent, CallInv, NEW r \in Requests,
         \/ BeginCall(r) \/ NextChunk(r) \/ CallStep(r)
         \/ CallCancelled(r) \/ FinaliseStream(r)
  PROVE  CallInv'
<1>0. /\ AtLastEvent(r) /\ CallAsCaller(r) /\ call \in [Requests -> Phases]
      /\ CallerTyped
  BY CallerTypes DEF GeneratorAtLastEvent, CallInv
<1> USE <1>0 DEF CallerTyped, Move, Phases
<1>1. ASSUME UNCHANGED <<pc, gen, client, req>>,
             \/ Move(r, {"connecting"}, "sent") \/ Move(r, {"sent"}, "reading")
             \/ Move(r, {"reading"}, "reading") \/ Move(r, {"suspended"}, "ended")
      PROVE  CallInv'
  <2>1. CallAsCaller(r)'
    BY <1>1 DEF CallAsCaller
  <2>2. QED  BY <1>1, <2>1, OtherCalls
<1>2. CASE BeginCall(r)
  <2>1. CallAsCaller(r)'
    BY <1>2 DEF BeginCall, AskBackend, Generate, Goto, CallAsCaller, streamVars
  <2>2. QED
    BY <1>2, <2>1, OtherCalls DEF BeginCall, AskBackend, Generate, Goto, streamVars
<1>3. CASE NextChunk(r)
  <2>1. /\ gen[r] \in {"role", "content"} /\ gen' = [gen EXCEPT ![r] = "waiting"]
        /\ UNCHANGED <<pc, client, req>>
        /\ \E phase \in {"connecting", "reading"} : call' = [call EXCEPT ![r] = phase]
    BY <1>3 DEF NextChunk, AwaitChunk, Resumed, streamFrame
  <2>2. CallAsCaller(r)'
    BY <2>1 DEF CallAsCaller
  <2>3. QED  BY <2>1, <2>2, OtherCalls
<1>4. ASSUME BackendReply(r),
             Move(r, {"connecting", "sent", "reading"}, "ended")
      PROVE  CallInv'
  <2>1. /\ pc[r] = "awaiting" /\ UNCHANGED <<req, gen, client>>
        /\ \E place \in {"answering", "unhandled"} : pc' = [pc EXCEPT ![r] = place]
    BY <1>4 DEF BackendReply, BackendIsReady, BackendNotReady, ListModelsReturns,
       ListModelsRaises, GenerateReturns, GenerateRaises, Answer, Goto, streamVars
  <2>2. gen[r] # "waiting"
    BY <2>1 DEF CallAsCaller, AtLastEvent
  <2>3. CallAsCaller(r)'
    BY <1>4, <2>1, <2>2 DEF CallAsCaller
  <2>4. QED  BY <1>4, <2>1, <2>3, OtherCalls
<1>5. ASSUME YieldStop(r) \/ YieldError(r),
             Move(r, {"connecting", "sent", "reading"}, "ended")
      PROVE  CallInv'
  <2>1. /\ gen[r] = "waiting" /\ UNCHANGED <<pc, req, client>>
        /\ \E event \in {"stop", "error"} : gen' = [gen EXCEPT ![r] = event]
    BY <1>5 DEF YieldStop, YieldError, Yield, Resumed, streamFrame
  <2>2. CallAsCaller(r)'
    BY <1>5, <2>1 DEF CallAsCaller, AtLastEvent
  <2>3. QED  BY <1>5, <2>1, <2>2, OtherCalls
<1>6. CASE CallReturns(r)
  BY <1>6, <1>4, TextCounted DEF CallReturns, BackendReply
<1>7. CASE CallFails(r)
  BY <1>7, <1>4, <1>5 DEF CallFails, BackendRaises, BackendReply
<1>8. CASE EndOfBody(r)
  BY <1>8, <1>5 DEF EndOfBody
<1>9. ASSUME NEW fields \in Texts, ReadLine(r, fields)
      PROVE  CallInv'
  <2>1. CASE Move(r, {"reading"}, "suspended") /\ YieldContent(r)
    <3>1. /\ gen[r] = "waiting" /\ UNCHANGED <<pc, req, client>>
          /\ gen' = [gen EXCEPT ![r] = "content"]
      BY <2>1 DEF YieldContent, Yield, Resumed, streamFrame
    <3>2. CallAsCaller(r)'
      BY <2>1, <3>1 DEF CallAsCaller, AtLastEvent
    <3>3. QED  BY <2>1, <3>1, <3>2, OtherCalls
  <2>2. CASE Move(r, {"reading"}, "reading") /\ UNCHANGED vars
    BY <2>2, <1>1 DEF vars
  <2>3. QED  BY <1>9, <2>1, <2>2 DEF ReadLine
<1>10. CASE CallCancelled(r)
  <2>1. /\ gen[r] = "waiting" /\ UNCHANGED <<pc, req>>
        /\ gen' = [gen EXCEPT ![r] = "ended"]
        /\ client' = [client EXCEPT ![r] = "dropped"]
        /\ Move(r, {"connecting", "sent", "reading"}, "ended")
    BY <1>10 DEF CallCancelled, CancelAwait
  <2>2. CallAsCaller(r)'
    BY <2>1 DEF CallAsCaller, AtLastEvent
  <2>3. QED  BY <2>1, <2>2, OtherCalls
<1>11. CASE Connect(r) \/ StreamOpens(r) \/ FinaliseStream(r)
  BY <1>11, <1>1 DEF Connect, StreamOpens, FinaliseStream, vars
<1>12. QED
  BY <1>2, <1>3, <1>6, <1>7, <1>8, <1>9, <1>10, <1>11 DEF CallStep

\* A call follows its caller through every step.
LEMMA CallNext ==
  ASSUME TypeOK, GeneratorAtLastEvent, CallInv, [AdapterNext]_adapterVars
  PROVE  CallInv'
<1>1. CASE UNCHANGED <<call, pc, gen, client, req>>
  BY <1>1 DEF CallInv, CallAsCaller
<1>2. CASE CloseClient
  <2>1. UNCHANGED <<pc, gen, client, req>>
    BY <1>2 DEF CloseClient, CloseBackend, requestVars
  <2>2. \A r \in Requests :
          call'[r] = IF call[r] = "suspended" THEN "ended" ELSE call[r]
    BY <1>2 DEF CloseClient
  <2>3. call' \in [Requests -> Phases]
    BY <1>2 DEF CloseClient, CallInv, Phases
  <2>4. QED  BY <2>1, <2>2, <2>3 DEF CallInv, CallAsCaller
<1>3. ASSUME NEW r \in Requests, AdapterRequestStep(r)
      PROVE  CallInv'
  BY <1>3, ApplicationCalls, AdapterCalls DEF AdapterRequestStep
<1>4. QED
  BY <1>1, <1>2, <1>3 DEF AdapterNext, adapterVars, vars, Load, LoadFails,
     BeginDrain, UpstreamFlips, Stopped, requestVars

\* No answer, failure, cancellation or abandoned generator leaves a call of the
\* adapter behind, for any number of requests and any size of the pool.
THEOREM CallsMatchCallers == AdapterSpec => []CallMatchesCaller
<1>1. CallInv => CallMatchesCaller
  BY DEF CallInv, CallAsCaller, CallMatchesCaller
<1>2. TypeOK /\ GeneratorAtLastEvent /\ CallInv /\ [AdapterNext]_adapterVars
        => CallInv'
  BY CallNext
<1>3. QED  BY <1>1, <1>2, CallInit, AdapterKeepsServing, PTL DEF AdapterSpec
-----------------------------------------------------------------------------
(* The text of a stream.                                                   *)

Contents(s) == {i \in DOMAIN s : s[i] = "content"}

\* A content event adds one to the contents of a stream, others add none.
LEMMA ContentGrows ==
  ASSUME NEW s \in Seq(Events), NEW event \in Events
  PROVE  /\ Cardinality(Contents(s)) \in Nat
         /\ Cardinality(Contents(Append(s, event)))
              = Cardinality(Contents(s)) + (IF event = "content" THEN 1 ELSE 0)
<1>1. IsFiniteSet(Contents(s))
  <2>1. IsFiniteSet(1 .. Len(s))
    BY FS_Interval
  <2>2. Contents(s) \subseteq 1 .. Len(s)
    BY DEF Contents
  <2>3. QED  BY <2>1, <2>2, FS_Subset
<1>2. Cardinality(Contents(s)) \in Nat
  BY <1>1, FS_CardinalityType
<1>3. CASE event = "content"
  <2>1. Contents(Append(s, event)) = Contents(s) \cup {Len(s) + 1}
    BY <1>3 DEF Contents
  <2>2. Len(s) + 1 \notin Contents(s)
    BY DEF Contents
  <2>3. QED  BY <1>1, <1>2, <1>3, <2>1, <2>2, FS_AddElement
<1>4. CASE event # "content"
  <2>1. Contents(Append(s, event)) = Contents(s)
    BY <1>4 DEF Contents
  <2>2. QED  BY <1>2, <1>4, <2>1
<1>5. QED  BY <1>2, <1>3, <1>4

TextAsHeard(r) ==
  /\ said[r]["content"] = heard[r]["content"]
  /\ heard[r]["content"] = 0 =>
       said[r]["reasoning_content"] = heard[r]["reasoning_content"]
  /\ said[r]["content"] + said[r]["reasoning_content"] = Content(r)
  /\ \A f \in Fields : heard[r][f] <= Content(r)
  /\ Content(r) <= MaxChunks

\* Inductive: every content is said, and reasoning unless content came with it.
TextInv ==
  /\ heard \in [Requests -> [Fields -> Nat]]
  /\ said \in [Requests -> [Fields -> Nat]]
  /\ \A r \in Requests : TextAsHeard(r)

\* Nothing has been heard or said at first.
LEMMA TextInit == AdapterInit => TextInv
<1> SUFFICES ASSUME AdapterInit PROVE TextInv  OBVIOUS
<1>1. \A r \in Requests : Content(r) = 0
  <2>1. \A r \in Requests : {i \in DOMAIN sent[r] : sent[r][i] = "content"} = {}
    BY DEF AdapterInit, Init
  <2>2. QED  BY <2>1, FS_EmptySet DEF Content
<1>2. QED  BY <1>1, BoundsAssumption DEF AdapterInit, TextInv, TextAsHeard, Fields

\* The steps of Serving other than YieldContent.
QuietStep(r) ==
  \/ \E kind \in Kinds, model \in Models \cup {NoModel} : Arrive(r, kind, model)
  \/ HandlerStep(r) \/ BackendReply(r)
  \/ YieldRole(r) \/ AwaitChunk(r) \/ YieldStop(r) \/ YieldError(r)
  \/ YieldDone(r) \/ Exhaust(r)
  \/ ClientStep(r) \/ Teardown(r)

\* They leave the contents of every stream as they are.
LEMMA ContentKept ==
  ASSUME TypeOK, NEW r \in Requests, QuietStep(r)
  PROVE  \A q \in Requests : Content(q)' = Content(q)
<1>1. CASE UNCHANGED sent
  BY <1>1 DEF Content
<1>2. ASSUME NEW event \in Events \ {"content"}, Yield(r, event)
      PROVE  \A q \in Requests : Content(q)' = Content(q)
  <2>1. sent[r] \in Seq(Events) /\ sent' = [sent EXCEPT ![r] = Append(@, event)]
    BY <1>2 DEF TypeOK, Yield
  <2>2. Cardinality(Contents(sent'[r])) = Cardinality(Contents(sent[r]))
    BY <2>1, ContentGrows DEF TypeOK
  <2>3. \A q \in Requests \ {r} : sent'[q] = sent[q]
    BY <2>1 DEF TypeOK
  <2>4. QED  BY <2>2, <2>3 DEF Content, Contents
<1>3. CASE YieldRole(r)
  BY <1>3, <1>2 DEF YieldRole, Events
<1>4. CASE YieldStop(r)
  BY <1>4, <1>2 DEF YieldStop, Events
<1>5. CASE YieldError(r)
  BY <1>5, <1>2 DEF YieldError, Events
<1>6. CASE YieldDone(r)
  BY <1>6, <1>2 DEF YieldDone, Events
<1>7. CASE ~(YieldRole(r) \/ YieldStop(r) \/ YieldError(r) \/ YieldDone(r))
  <2>1. UNCHANGED sent
    BY <1>7, ClientFrame DEF QuietStep, Arrive, HandlerStep, BackendReply, AnswerLocally,
       AnswerUnrouted, AnswerWrongMethod, RejectUndecodable, RejectInvalid, AskBackend,
       RefuseModel, Generate, OpenStream,
       RecordResponse, BackendIsReady, BackendNotReady, ListModelsReturns,
       ListModelsRaises, GenerateReturns, GenerateRaises, AwaitChunk, Exhaust,
       Teardown, CancelAwait, DropGenerator, FinaliseGenerator,
       streamVars
  <2>2. QED  BY <2>1, <1>1
<1>8. QED  BY <1>3, <1>4, <1>5, <1>6, <1>7

\* A line that is read keeps what was said in step with what was heard.
LEMMA LineText ==
  ASSUME TypeOK, TextInv, NEW r \in Requests, NEW fields \in Texts,
         ReadLine(r, fields)
  PROVE  TextInv'
<1> DEFINE text == _extract_sse_content(fields)
           one(f, set) == IF f \in set THEN 1 ELSE 0
<1>1. fields \in {{}, {"content"}, {"reasoning_content"}, Fields}
  BY DEF Texts, Fields
<1>2. text = IF "content" \in fields THEN {"content"} ELSE fields
  BY DEF _extract_sse_content, _first_text_value
<1>3. /\ heard' \in [Requests -> [Fields -> Nat]]
      /\ said' \in [Requests -> [Fields -> Nat]]
      /\ \A f \in Fields : /\ heard'[r][f] = heard[r][f] + one(f, fields)
                            /\ said'[r][f] = said[r][f] + one(f, text)
      /\ \A q \in Requests \ {r} : heard'[q] = heard[q] /\ said'[q] = said[q]
  <2>1. /\ heard' = [heard EXCEPT ![r] = [f \in Fields |-> @[f] + one(f, fields)]]
        /\ said' = [said EXCEPT ![r] = [f \in Fields |-> @[f] + one(f, text)]]
    BY DEF ReadLine
  <2>2. QED  BY <2>1 DEF TextInv
<1>4. /\ \A q \in Requests \ {r} : Content(q)' = Content(q)
      /\ Content(r) \in Nat
      /\ Content(r)' = Content(r) + (IF text = {} THEN 0 ELSE 1)
      /\ Content(r)' <= MaxChunks
  <2>1. sent[r] \in Seq(Events)
    BY DEF TypeOK
  <2>2. Content(r) \in Nat
    BY <2>1, ContentGrows DEF Content, Contents, Events
  <2>3. CASE text = {}
    <3>1. UNCHANGED sent
      BY <2>3 DEF ReadLine, vars
    <3>2. QED  BY <2>2, <2>3, <3>1 DEF Content, TextInv, TextAsHeard
  <2>4. CASE text # {}
    <3>1. YieldContent(r)
      BY <2>4 DEF ReadLine
    <3>2. /\ sent' = [sent EXCEPT ![r] = Append(@, "content")]
          /\ Content(r) < MaxChunks
      BY <3>1 DEF YieldContent, Yield
    <3>3. Content(r)' = Content(r) + 1
      <4>1. sent'[r] = Append(sent[r], "content")
        BY <3>2 DEF TypeOK
      <4>2. QED  BY <2>1, <4>1, ContentGrows DEF Content, Contents, Events
    <3>4. \A q \in Requests \ {r} : sent'[q] = sent[q]
      BY <3>2 DEF TypeOK
    <3>5. Content(r) + 1 <= MaxChunks
      BY <2>2, <3>2, BoundsAssumption
    <3>6. \A q \in Requests \ {r} : Content(q)' = Content(q)
      BY <3>4 DEF Content
    <3>7. QED  BY <2>2, <2>4, <3>3, <3>5, <3>6
  <2>5. QED  BY <2>3, <2>4
<1>5. \A q \in Requests \ {r} : TextAsHeard(q)'
  BY <1>3, <1>4 DEF TextInv, TextAsHeard
<1>6. TextAsHeard(r)'
  <2>1. TextAsHeard(r) /\ heard[r] \in [Fields -> Nat] /\ said[r] \in [Fields -> Nat]
    BY DEF TextInv
  <2>2. CASE "content" \in fields
    BY <1>1, <1>2, <1>3, <1>4, <2>1, <2>2 DEF TextAsHeard, Fields
  <2>3. CASE fields = {"reasoning_content"}
    BY <1>2, <1>3, <1>4, <2>1, <2>3 DEF TextAsHeard, Fields
  <2>4. CASE fields = {}
    BY <1>2, <1>3, <1>4, <2>1, <2>4 DEF TextAsHeard, Fields
  <2>5. QED  BY <1>1, <2>2, <2>3, <2>4 DEF Fields
<1>7. QED  BY <1>3, <1>5, <1>6 DEF TextInv

\* What is said follows what was heard through every step.
LEMMA TextNext ==
  ASSUME TypeOK, TextInv, [AdapterNext]_adapterVars
  PROVE  TextInv'
<1>1. ASSUME NEW r \in Requests, NEW fields \in Texts, ReadLine(r, fields)
      PROVE  TextInv'
  BY <1>1, LineText
<1>2. ASSUME UNCHANGED textVars, \A r \in Requests : Content(r)' = Content(r)
      PROVE  TextInv'
  BY <1>2 DEF textVars, TextInv, TextAsHeard
<1>3. ASSUME NEW r \in Requests, QuietStep(r), UNCHANGED textVars
      PROVE  TextInv'
  BY <1>2, <1>3, ContentKept
<1>4. ASSUME UNCHANGED <<sent, textVars>>
      PROVE  TextInv'
  BY <1>2, <1>4 DEF Content
<1>5. ASSUME NEW r \in Requests, ApplicationStep(r)
      PROVE  TextInv'
  BY <1>3, <1>5 DEF ApplicationStep, QuietStep, HandlerStep, Teardown
<1>6. ASSUME NEW r \in Requests, BeginCall(r) \/ NextChunk(r) \/ CallCancelled(r)
      PROVE  TextInv'
  BY <1>3, <1>6 DEF BeginCall, NextChunk, CallCancelled, QuietStep, HandlerStep,
                    Teardown
<1>7. ASSUME NEW r \in Requests, CallReturns(r)
      PROVE  TextInv'
  <2>1. BackendReply(r) /\ UNCHANGED textVars
    BY <1>7, TextCounted DEF CallReturns, BackendReply
  <2>2. QED  BY <2>1, <1>3 DEF QuietStep
<1>8. ASSUME NEW r \in Requests, CallFails(r) \/ EndOfBody(r)
      PROVE  TextInv'
  BY <1>3, <1>8 DEF CallFails, BackendRaises, EndOfBody, BackendReply, QuietStep
<1>9. ASSUME NEW r \in Requests, Connect(r) \/ StreamOpens(r) \/ FinaliseStream(r)
      PROVE  TextInv'
  BY <1>4, <1>9 DEF Connect, StreamOpens, FinaliseStream, vars
<1>10. ASSUME NEW r \in Requests, AdapterRequestStep(r)
       PROVE  TextInv'
  BY <1>1, <1>5, <1>6, <1>7, <1>8, <1>9, <1>10 DEF AdapterRequestStep, CallStep
<1>11. CASE CloseClient
  BY <1>4, <1>11 DEF CloseClient, CloseBackend, requestVars
<1>12. CASE /\ Load \/ LoadFails \/ BeginDrain \/ UpstreamFlips \/ Stopped
            /\ UNCHANGED <<call, textVars>>
  BY <1>4, <1>12 DEF Load, LoadFails, BeginDrain, UpstreamFlips, Stopped,
                     requestVars, vars
<1>13. CASE UNCHANGED adapterVars
  BY <1>4, <1>13 DEF adapterVars, vars, textVars
<1>14. QED  BY <1>10, <1>11, <1>12, <1>13 DEF AdapterNext

\* For any number of streams, lines and texts: what generate() would answer is
\* what stream() says in that field, and each chunk is one content event.
THEOREM StreamsContainAnswers == AdapterSpec => []StreamContainsAnswer
<1>1. TextInv => StreamContainsAnswer
  BY DEF TextInv, TextAsHeard, StreamContainsAnswer, Fields,
         _extract_completion_content, _first_text_value
<1>2. TypeOK /\ GeneratorAtLastEvent /\ TextInv /\ [AdapterNext]_adapterVars
        => TextInv'
  BY TextNext
<1>3. QED  BY <1>1, <1>2, TextInit, AdapterKeepsServing, PTL DEF AdapterSpec

\* The adapter's part of the state is well typed: no more texts of a field are
\* heard than chunks passed on.
THEOREM AdapterTypeCorrect == AdapterSpec => []AdapterTypeOK
<1>1. TypeOK /\ CallInv /\ TextInv => AdapterTypeOK
  <2> SUFFICES ASSUME TypeOK, CallInv, TextInv PROVE AdapterTypeOK  OBVIOUS
  <2>1. \A r \in Requests : Content(r) \in Nat
    BY DEF TextInv, TextAsHeard, Fields
  <2>2. \A r \in Requests, f \in Fields :
          heard[r][f] \in 0 .. MaxChunks /\ said[r][f] \in 0 .. MaxChunks
    BY <2>1, BoundsAssumption DEF TextInv, TextAsHeard, Fields
  <2>3. QED  BY <2>2 DEF AdapterTypeOK, CallInv, TextInv
<1>2. TypeOK /\ GeneratorAtLastEvent /\ CallInv /\ [AdapterNext]_adapterVars
        => CallInv'
  BY CallNext
<1>3. TypeOK /\ GeneratorAtLastEvent /\ TextInv /\ [AdapterNext]_adapterVars
        => TextInv'
  BY TextNext
<1>4. QED
  BY <1>1, <1>2, <1>3, CallInit, TextInit, AdapterKeepsServing, PTL DEF AdapterSpec
=============================================================================
