---------------------- MODULE AdapterServingProperties ----------------------
(***************************************************************************)
(* What the adapter and the application over it promise together.          *)
(***************************************************************************)
EXTENDS AdapterServing

\* Type correctness of the adapter's part of the state.
AdapterTypeOK ==
  /\ TypeOK
  /\ call \in [Requests -> Phases]
  /\ heard \in [Requests -> [Fields -> 0 .. MaxChunks]]
  /\ said \in [Requests -> [Fields -> 0 .. MaxChunks]]

\* The adapter is inside a call exactly while the application awaits it, in a
\* handler or in a generator, and a stream is suspended only at a chunk its
\* application generator has passed on or was abandoned with: no answer,
\* failure or cancellation leaves a call, and its connection, behind.
CallMatchesCaller ==
  \A r \in Requests :
    /\ call[r] \in {"connecting", "sent", "reading"}
         <=> pc[r] = "awaiting" \/ gen[r] = "waiting"
    /\ call[r] = "suspended" => \/ gen[r] = "content"
                                \/ gen[r] = "ended" /\ client[r] = "dropped"

\* stream() says what generate() would answer for the same message, and each
\* text once: the field generate() takes is streamed completely, every chunk is
\* a content event, and more is said only where reasoning came without content
\* beside it (_extract_sse_content and _extract_completion_content).
StreamContainsAnswer ==
  \A r \in Requests :
    /\ \A f \in _extract_completion_content({g \in Fields : heard[r][g] > 0}) :
         said[r][f] = heard[r][f]
    /\ said[r]["content"] + said[r]["reasoning_content"] = Content(r)

\* Every connection returns to the pool: whatever fails, leaves or is
\* abandoned, the calls that hold one end, a stream at the latest when the event
\* loop closes the generator its `async for` left.  Only the stream of a client
\* that stops reading and stays keeps its connection for as long.
ConnectionsReturned ==
  \A r \in Requests : ReadsOn(r) => (r \in Leased ~> r \notin Leased)
-----------------------------------------------------------------------------
\* The event loop runs every task that is ready, also one whose client reads on
\* only now and then; a call of httpx returns or times out, so none waits for a
\* connection or an answer for ever.
AdapterFairness ==
  /\ WF_adapterVars((Load \/ LoadFails) /\ UNCHANGED <<call, textVars>>)
  /\ WF_adapterVars(CloseClient)
  /\ \A r \in Requests :
       /\ WF_adapterVars(HandlerStep(r) /\ (ApplicationStep(r) \/ BeginCall(r)))
       /\ SF_adapterVars(StreamStep(r) /\ (ApplicationStep(r) \/ NextChunk(r)))
       /\ WF_adapterVars(CallStep(r))
       /\ WF_adapterVars(Teardown(r) /\ (ApplicationStep(r) \/ CallCancelled(r)))
       /\ WF_adapterVars(FinaliseStream(r))

FairAdapterSpec == AdapterSpec /\ AdapterFairness

\* Over this adapter the application is the Serving whose backend is only
\* assumed: its calls answer or raise at some later step, and always do so in
\* the end, although they share a pool of connections.
ServingFairSpec == FairSpec
=============================================================================
