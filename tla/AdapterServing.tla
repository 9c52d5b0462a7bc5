--------------------------- MODULE AdapterServing ---------------------------
(***************************************************************************)
(* The application as cli.py builds it for a real model server: Serving    *)
(* over openai_compatible_backend.py.  Every step of Serving that calls    *)
(* the backend is joined with what the adapter does, and the adapter has   *)
(* steps of its own while the caller waits.                                *)
(*                                                                         *)
(* All calls share one httpx.AsyncClient, whose pool has PoolSize          *)
(* connections.  httpx and the model server are external: a connection may *)
(* be refused, time out or break at any step.  A completion, and a line of *)
(* a stream, is the set of the fields of its first choice that hold text.  *)
(* An object of an unexpected shape holds none, nor does a line that is no *)
(* "data: " with JSON behind it, "data: [DONE]" among them.  JSON that is  *)
(* no object at all makes payload.get raise, like a failure of httpx.      *)
(***************************************************************************)
EXTENDS ServingProperties

CONSTANT PoolSize  \* connections of the client's pool

ASSUME PoolAssumption == PoolSize \in Nat \ {0}
\* A text is one word, or none.
ASSUME TokensAssumption == {0, 1} \subseteq TokenCounts

VARIABLES
  call,   \* call[r]: where the adapter is with the call request r made
  heard,  \* heard[r][f]: lines of r's stream that held text in field f
  said    \* said[r][f]: chunks of r's stream that were the text of field f

adapterVars == <<vars, call, heard, said>>
textVars == <<heard, said>>

Fields == {"content", "reasoning_content"}
Texts == SUBSET Fields
Phases == {"none", "connecting", "sent", "reading", "suspended", "ended"}

\* The field a text is taken from; none if both are empty.
_first_text_value(fields) ==
  IF "content" \in fields THEN {"content"} ELSE fields

_extract_completion_content(fields) == _first_text_value(fields)

\* Mutant: a chunk of reasoning wins over one of content.
_extract_sse_reasoning(fields) ==
  IF "reasoning_content" \in fields THEN {"reasoning_content"} ELSE fields

_extract_sse_content(fields) == _first_text_value(fields)

Leased == {r \in Requests : call[r] \in {"sent", "reading", "suspended"}}

Move(r, from, to) == call[r] \in from /\ call' = [call EXCEPT ![r] = to]

AdapterInit ==
  /\ Init
  /\ call = [r \in Requests |-> "none"]
  /\ heard = [r \in Requests |-> [f \in Fields |-> 0]]
  /\ said = [r \in Requests |-> [f \in Fields |-> 0]]
-----------------------------------------------------------------------------
(* A call begins and gets its answer.                                      *)

\* ready(), list_models() and generate() await the client at once.
BeginCall(r) ==
  /\ AskBackend(r) \/ Generate(r)
  /\ Move(r, {"none"}, "connecting")
  /\ UNCHANGED textVars

\* The stream's `async for` calls stream(), later resumes it after its yield.
NextChunk(r) ==
  /\ AwaitChunk(r)
  /\ \/ Move(r, {"none"}, "connecting")
     \/ Move(r, {"suspended"}, "reading")
  /\ UNCHANGED textVars

\* A free connection carries the request to the model server.
Connect(r) ==
  /\ upstream
  /\ Cardinality(Leased) < PoolSize
  /\ Move(r, {"connecting"}, "sent")
  /\ UNCHANGED <<vars, textVars>>

\* Any httpx error (connection refused or broken, pool or read timeout), an error
\* status, and an answer that cannot be decoded.  ready() catches them.
BackendRaises(r) ==
  \/ BackendNotReady(r)
  \/ ListModelsRaises(r)
  \/ GenerateRaises(r)
  \/ YieldError(r)

\* Mutant: the wait for a connection has no timeout.
CallFailsOnceSent(r) ==
  /\ BackendRaises(r)
  /\ Move(r, {"sent", "reading"}, "ended")
  /\ UNCHANGED textVars

CallFails(r) ==
  /\ BackendRaises(r)
  /\ Move(r, {"connecting", "sent", "reading"}, "ended")
  /\ UNCHANGED textVars

\* The answer is decoded: models, of which list_models() finds none if they are
\* not a list, or a completion with the text of one of its fields, if any.
CallReturns(r) ==
  /\ \/ BackendIsReady(r)
     \/ \E models \in {{}, BackendModels} : ListModelsReturns(r, models)
     \/ \E fields \in Texts :
          GenerateReturns(r, Cardinality(_extract_completion_content(fields)))
  /\ Move(r, {"sent"}, "ended")
  /\ UNCHANGED textVars

-----------------------------------------------------------------------------
(* stream().                                                               *)

\* raise_for_status() does not raise.
StreamOpens(r) ==
  /\ req[r].kind = "stream"
  /\ upstream
  /\ Move(r, {"sent"}, "reading")
  /\ UNCHANGED <<vars, textVars>>

\* A line arrives; _extract_sse_content() finds a text, which is yielded, or
\* none, and the next line is awaited.
ReadLine(r, fields) ==
  /\ upstream
  /\ heard' = [heard EXCEPT ![r] =
       [f \in Fields |-> @[f] + (IF f \in fields THEN 1 ELSE 0)]]
  /\ LET text == _extract_sse_content(fields) IN
       /\ said' = [said EXCEPT ![r] =
            [f \in Fields |-> @[f] + (IF f \in text THEN 1 ELSE 0)]]
       /\ IF text = {}
          THEN Move(r, {"reading"}, "reading") /\ UNCHANGED vars
          ELSE Move(r, {"reading"}, "suspended") /\ YieldContent(r)

\* The body ends, with or without a [DONE]: the iterator ends.
EndOfBody(r) ==
  /\ YieldStop(r)
  /\ Move(r, {"reading"}, "ended")
  /\ UNCHANGED textVars

\* Mutant: a cancelled call keeps its connection.
CallCancelledLeased(r) == CancelAwait(r) /\ UNCHANGED <<call, textVars>>

\* CancelledError leaves the `async with` of a call, which closes the response.
CallCancelled(r) ==
  /\ CancelAwait(r)
  /\ Move(r, {"connecting", "sent", "reading"}, "ended")
  /\ UNCHANGED textVars

\* Mutant: only the generators of clients that left are closed.
FinaliseStreamIfLeft(r) ==
  /\ gen[r] = "ended"
  /\ client[r] = "left"
  /\ Move(r, {"suspended"}, "ended")
  /\ UNCHANGED <<vars, textVars>>

\* An `async for` that is left early does not close its iterator: the event
\* loop closes stream() after _stream_events, and with it the response.
FinaliseStream(r) ==
  /\ gen[r] = "ended"
  /\ Move(r, {"suspended"}, "ended")
  /\ UNCHANGED <<vars, textVars>>
-----------------------------------------------------------------------------
\* `await self._client.aclose()` closes every connection of the pool.
CloseClient ==
  /\ CloseBackend
  /\ call' = [r \in Requests |->
       IF call[r] = "suspended" THEN "ended" ELSE call[r]]
  /\ UNCHANGED textVars

\* Steps of the application in which no call begins or ends.
ApplicationStep(r) ==
  /\ \/ \E kind \in Kinds, model \in Models \cup {NoModel} :
          Arrive(r, kind, model)
     \/ AnswerLocally(r)
     \/ AnswerUnrouted(r)
     \/ AnswerWrongMethod(r)
     \/ RejectUndecodable(r)
     \/ RejectInvalid(r)
     \/ RefuseModel(r)
     \/ OpenStream(r)
     \/ RecordResponse(r)
     \/ YieldRole(r)
     \/ YieldDone(r)
     \/ Exhaust(r)
     \/ ClientStep(r)
     \/ DropGenerator(r)
     \/ FinaliseGenerator(r)
  /\ UNCHANGED <<call, textVars>>

CallStep(r) ==
  \/ Connect(r)
  \/ CallReturns(r)
  \/ CallFails(r)
  \/ StreamOpens(r)
  \/ \E fields \in Texts : ReadLine(r, fields)
  \/ EndOfBody(r)

AdapterRequestStep(r) ==
  \/ ApplicationStep(r)
  \/ BeginCall(r)
  \/ NextChunk(r)
  \/ CallStep(r)
  \/ CallCancelled(r)
  \/ FinaliseStream(r)

AdapterNext ==
  \/ (Load \/ LoadFails \/ BeginDrain \/ UpstreamFlips \/ Stopped)
     /\ UNCHANGED <<call, textVars>>
  \/ CloseClient
  \/ \E r \in Requests : AdapterRequestStep(r)

AdapterSpec == AdapterInit /\ [][AdapterNext]_adapterVars
=============================================================================
