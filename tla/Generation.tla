----------------------------- MODULE Generation -----------------------------
(* generateWithEvidence of intelligence/generation: a model is asked for an   *)
(* answer over the evidence that was found, under a deadline and the caller's *)
(* signal.  Whatever comes of it, the caller keeps what it had.               *)
EXTENDS Integers, FiniteSets, Sequences

CONSTANTS Requests,   \* [enabled, provider, allowed, evidence, scope, maxItems, maxBytes, maxOutput]
          Responses,  \* [kind, citations, size], kind "answer", "failure", "refusal" or "garbage"
          Overhead    \* bytes a provider's request has besides the evidence

VARIABLES request,
          step,       \* checks, asked, received or ended
          signal,     \* the caller's signal, "open" or "aborted"
          timer,      \* none, armed, fired or cleared
          listening,  \* does the call listen to the signal
          response,   \* what was received
          overdue,    \* history: was the signal aborted before the end
          result      \* [status, reason, citations]

vars == <<request, step, signal, timer, listening, response, overdue, result>>

NoResponse == [kind |-> "none", citations |-> {}, size |-> 0]
NoResult   == [status |-> "none", reason |-> "none", citations |-> {}]

Init == /\ request \in Requests /\ signal \in {"open", "aborted"} /\ overdue = (signal = "aborted")
        /\ step = "checks" /\ timer = "none" /\ listening = FALSE
        /\ response = NoResponse /\ result = NoResult

(* The answer, and what the finally block undoes.                             *)
End(status, reason, citations) ==
    /\ step' = "ended"
    /\ timer' = IF timer = "armed" THEN "cleared" ELSE timer
    /\ listening' = FALSE
    /\ result' = [status |-> status, reason |-> reason, citations |-> citations]

Evidence == {request.evidence[n] : n \in DOMAIN request.evidence}

EvidenceIsUsable ==
    /\ request.allowed # {} /\ Evidence # {}
    /\ Cardinality({e.id : e \in Evidence}) = Len(request.evidence)
    /\ Len(request.evidence) <= request.maxItems
    /\ \A e \in Evidence : e.scope = request.scope /\ e.artifact \in request.allowed

(* serializedProviderRequest.                                                 *)
RequestBytes ==
    LET total[n \in 0 .. Len(request.evidence)] ==
          IF n = 0 THEN Overhead ELSE total[n - 1] + request.evidence[n].length
    IN total[Len(request.evidence)]

(* The checks and the start of the provider's call, in one turn.              *)
Check ==
    /\ step = "checks"
    /\ CASE ~request.enabled                  -> End("disabled", "generation_disabled", {})
         [] request.enabled /\ request.provider = "none" ->
                                                 End("unavailable", "generation_provider_unavailable", {})
         [] request.enabled /\ request.provider # "none" /\ ~EvidenceIsUsable ->
                                                 End("rejected", "generation_evidence_rejected", {})
         [] request.enabled /\ request.provider # "none" /\ EvidenceIsUsable ->
              IF RequestBytes > request.maxBytes THEN End("rejected", "generation_evidence_budget", {})
              ELSE IF signal = "aborted" THEN End("cancelled", "generation_cancelled", {})
              ELSE IF request.provider = "mute" THEN End("unavailable", "generation_provider_unavailable", {})
              ELSE step' = "asked" /\ timer' = "armed" /\ listening' = TRUE /\ UNCHANGED result
    /\ UNCHANGED <<request, signal, response, overdue>>

(* waitForProvider: an abort that comes first ends the call in its turn.      *)
TimeOut ==
    /\ step = "asked" /\ timer = "armed"
    /\ step' = "ended" /\ timer' = "fired" /\ listening' = FALSE
    /\ result' = [status |-> "timeout", reason |-> "generation_timeout", citations |-> {}]
    /\ UNCHANGED <<request, signal, response, overdue>>

Abort ==
    /\ signal = "open" /\ signal' = "aborted"
    /\ overdue' = (step # "ended")
    /\ IF step = "asked" THEN End("cancelled", "generation_cancelled", {})
       ELSE UNCHANGED <<step, timer, listening, result>>
    /\ UNCHANGED <<request, response>>

Receive ==
    /\ step = "asked"
    /\ step' = "received" /\ response' \in Responses
    /\ UNCHANGED <<request, signal, timer, listening, overdue, result>>

(* validateEvidence.                                                          *)
Supported(c) ==
    \E e \in Evidence : /\ e.id = c.id /\ e.artifact \in request.allowed
                        /\ c.from < c.to /\ c.to <= e.length

(* What a provider's call that has settled means.  A failure is unavailability*)
(* of an HTTP server and an error of an MCP client.                           *)
Settled ==
    CASE response.kind = "failure" ->
           IF request.provider = "http" THEN End("unavailable", "generation_provider_unavailable", {})
           ELSE End("failed", "generation_failed", {})
      [] response.kind = "refusal" ->
           IF request.provider = "http" THEN End("rejected", "generation_provider_rejected", {})
           ELSE End("failed", "generation_failed", {})
      [] response.kind = "garbage" \/ (response.kind = "answer" /\ response.citations = {}) ->
           End("rejected", "generation_response_malformed", {})
      [] response.kind = "answer" /\ response.citations # {} ->
           IF response.size > request.maxOutput THEN End("rejected", "generation_output_budget", {})
           ELSE IF \A c \in response.citations : Supported(c)
           THEN End("succeeded", "none", response.citations)
           ELSE End("rejected", "generation_citation_invalid", {})

(* Mutant: an answer that was received counts, whoever has given up.          *)
SettleRegardless ==
    /\ step = "received"
    /\ Settled
    /\ UNCHANGED <<request, signal, response, overdue>>

Settle ==
    /\ step = "received"
    /\ IF signal = "aborted" THEN End("cancelled", "generation_cancelled", {}) ELSE Settled
    /\ UNCHANGED <<request, signal, response, overdue>>

Ended == step = "ended" /\ UNCHANGED vars

Next == Check \/ TimeOut \/ Abort \/ Receive \/ Settle \/ Ended

Spec == Init /\ [][Next]_vars

-----------------------------------------------------------------------------
(* A generated answer rests on evidence of the request's own scope and corpus *)
(* and cites what is there; a caller that gave up in time gets none, and a    *)
(* call that has ended leaves neither timer nor listener behind.              *)
GenerationIsGrounded ==
    /\ result.citations # {} <=> result.status = "succeeded"
    /\ \A c \in result.citations : \E e \in Evidence :
          /\ e.id = c.id /\ e.scope = request.scope /\ e.artifact \in request.allowed
          /\ 0 <= c.from /\ c.from < c.to /\ c.to <= e.length
    /\ result.status = "succeeded" => request.enabled /\ ~overdue
    /\ step = "ended" => timer # "armed" /\ ~listening
    /\ result.status = "timeout" <=> timer = "fired"
=============================================================================
