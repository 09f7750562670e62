----------------------------- MODULE Streaming -----------------------------
(***************************************************************************)
(* internal/server/server_stream.go, server_tools.go, server_describe.go   *)
(* and the streaming half of the llama.cpp client: the requests that go    *)
(* to the backend without the queue.                                       *)
(*                                                                         *)
(* One request makes one call of the backend, or two with a round of tool  *)
(* calls between them.  A streamed call is modelled chunk by chunk; what   *)
(* happens inside a blocking call is the subject of VramBackend, here it   *)
(* is one step.  llama-server is shared: it may die at any time, also      *)
(* because another request restarts it, and it may hang.                   *)
(*                                                                         *)
(* The backend is vram.Backend and the writer a Flusher, as in main.go, so *)
(* the fall back to the blocking handlers is left out.  Requests refused   *)
(* on arrival (draining, malformed) change nothing and are left out too.   *)
(***************************************************************************)
EXTENDS Naturals, Sequences, FiniteSets

CONSTANTS Requests,
          Kinds,         \* the kinds each request may be of
          MaxParallel,   \* the slots of vram.Backend
          jobHistoryMax, \* entries kept of the job history
          MaxChunks,     \* bound on the chunks of one answer
          MaxToolCalls,  \* bound on the tool calls of one answer
          MaxCrashes     \* bound on crashes of llama-server

\* `format` says that response_format is set.
Kind == [what : {"stream", "toolStream", "tools", "describe"}, format : BOOLEAN]

ASSUME StreamingAssumption ==
    /\ Kinds \in [Requests -> SUBSET Kind]
    /\ MaxParallel \in Nat \ {0}
    /\ jobHistoryMax \in Nat \ {0}
    /\ {MaxChunks, MaxToolCalls, MaxCrashes} \subseteq Nat

VARIABLES h,       \* the handler of each request
          sent,    \* what it has written to its client
          over,    \* its context is done: client gone or deadline passed
          free,    \* free slots
          up,      \* llama-server is running
          crashes, \* crashes so far
          history  \* the job history, newest first

vars == <<h, sent, over, free, up, crashes, history>>

Codes == {"none", "ok", "timeout", "unavailable", "rejected", "internal_error",
          "reasoning_exhausted", "truncated", "deferred", "overloaded"}

PCs == {"idle", "slot", "select", "connect", "read", "restart", "infer", "returned",
        "tools", "settle", "end"}

\* The variables of the handler and of the two InferStream functions below it.
Handler ==
    [pc : PCs, kind : Kind, hop : 1..2, att : 1..2, cut : BOOLEAN, chunks : 0..MaxChunks,
     contentEmitted : BOOLEAN, reasoningEmitted : BOOLEAN,
     calls : 0..MaxToolCalls, made : Nat, code : Codes, lengthLimited : BOOLEAN]

NewHandler(k) ==
    [pc |-> "slot", kind |-> k, hop |-> 1, att |-> 1, cut |-> FALSE, chunks |-> 0,
     contentEmitted |-> FALSE, reasoningEmitted |-> FALSE,
     calls |-> 0, made |-> 0, code |-> "none", lengthLimited |-> FALSE]

\* An event of the response: a chunk of an answer, with the call and the attempt
\* that produced it, a notice of a tool call, or the end.
Event(what, r) == [what |-> what, hop |-> h[r].hop, att |-> h[r].att]

Events == [what : {"delta", "reasoning", "tool"} \cup Codes, hop : 1..2, att : 1..2]

TypeOK ==
    /\ h \in [Requests -> Handler]
    /\ sent \in [Requests -> Seq(Events)]
    /\ over \in [Requests -> BOOLEAN]
    /\ free \in 0..MaxParallel
    /\ up \in BOOLEAN
    /\ crashes \in 0..MaxCrashes
    /\ history \in Seq([req : Requests, status : {"queued", "done", "failed"}])
    /\ Len(history) <= jobHistoryMax

Init ==
    /\ \E k \in [Requests -> Kind] :
          /\ \A r \in Requests : k[r] \in Kinds[r]
          /\ h = [r \in Requests |-> [NewHandler(k[r]) EXCEPT !.pc = "idle"]]
    /\ sent = [r \in Requests |-> <<>>]
    /\ over = [r \in Requests |-> FALSE]
    /\ free = MaxParallel
    /\ up = FALSE
    /\ crashes = 0
    /\ history = <<>>
-----------------------------------------------------------------------------
At(r, pc) == h[r].pc = pc

What(r) == h[r].kind.what

Streamed(r) == What(r) \in {"stream", "toolStream"}

Goto(r, pc) == h' = [h EXCEPT ![r].pc = pc]

Write(r, what) == sent' = [sent EXCEPT ![r] = Append(@, Event(what, r))]

\* recordJob: prepend, then trim.
recordJob(r, status) ==
    LET longer == <<[req |-> r, status |-> status]>> \o history
    IN  history' = IF Len(longer) > jobHistoryMax THEN SubSeq(longer, 1, jobHistoryMax)
                   ELSE longer

\* handleInfer bounds the request and branches; handleDescribe starts likewise.
Arrive(r) ==
    /\ At(r, "idle")
    /\ Goto(r, "slot")
    /\ UNCHANGED <<sent, over, free, up, crashes, history>>

\* deferToRelay: 202 and a queued entry, or 503 when the relay cannot be reached.
deferToRelay(r) ==
    /\ At(r, "idle")
    /\ What(r) # "describe"
    /\ Goto(r, "end")
    /\ \/ Write(r, "deferred") /\ recordJob(r, "queued")
       \/ Write(r, "overloaded") /\ UNCHANGED history
    /\ over' = [over EXCEPT ![r] = TRUE]
    /\ UNCHANGED <<free, up, crashes>>

\* The client hangs up or the deadline passes.
ContextDone(r) ==
    /\ ~At(r, "idle") /\ ~At(r, "end")
    /\ ~over[r]
    /\ over' = [over EXCEPT ![r] = TRUE]
    /\ UNCHANGED <<h, sent, free, up, crashes, history>>
-----------------------------------------------------------------------------
(***************************************************************************)
(* One call of the backend                                                 *)
(***************************************************************************)

TakeSlot(r) ==
    /\ At(r, "slot")
    /\ free > 0
    /\ free' = free - 1
    /\ Goto(r, IF Streamed(r) THEN "select" ELSE "infer")
    /\ UNCHANGED <<sent, over, up, crashes, history>>

\* Slip: the deferred release runs although no slot was taken.
SlotTimeoutReleases(r) ==
    /\ At(r, "slot")
    /\ over[r]
    /\ free' = free + 1
    /\ h' = [h EXCEPT ![r].pc = "returned", ![r].code = "timeout"]
    /\ UNCHANGED <<sent, over, up, crashes, history>>

\* The context is done first.  When both are ready Go's select takes either.
SlotTimeout(r) ==
    /\ At(r, "slot")
    /\ over[r]
    /\ h' = [h EXCEPT ![r].pc = "returned", ![r].code = "timeout"]
    /\ UNCHANGED <<sent, over, free, up, crashes, history>>

\* The call is over, and its local variables with it.
Returned(r, code) ==
    [h[r] EXCEPT !.pc = "returned", !.code = code, !.att = 1, !.cut = FALSE, !.chunks = 0]

\* It returns and its slot is released ...
Return(r, code) ==
    /\ h' = [h EXCEPT ![r] = Returned(r, code)]
    /\ free' = free + 1

\* ... with n tool calls in the answer, perhaps cut short by its token budget.
ReturnAnswer(r, n) ==
    /\ \E limited \in BOOLEAN :
          h' = [h EXCEPT ![r] = [Returned(r, "ok") EXCEPT !.calls = n, !.made = @ + n,
                                                          !.lengthLimited = limited]]
    /\ free' = free + 1

\* Slip: every error of the first attempt is retried.
MayRetryAny(r, code) == h[r].att = 1

\* "One restart attempt on connection error, but only if nothing has been
\* streamed yet": `emitted` is a variable of this call alone.
MayRetry(r, code) == h[r].att = 1 /\ code = "unavailable" /\ h[r].chunks = 0

\* runCompleteStream failed: restart and try again, or give up.
AttemptFails(r, code) ==
    IF MayRetry(r, code) THEN Goto(r, "restart") /\ UNCHANGED free
    ELSE Return(r, code)

\* llama-server dies: every stream being read from it is cut.
Cut(g) == [r \in Requests |-> IF g[r].pc = "read" THEN [g[r] EXCEPT !.cut = TRUE] ELSE g[r]]

\* selectInner and ensureRunning: a live llama-server, which may have replaced the
\* one of another tier or mode, or an error.
Select(r) ==
    /\ At(r, "select")
    /\ \/ /\ \E g \in {[h EXCEPT ![r].pc = "connect"]} : h' = g \/ h' = Cut(g)
          /\ up' = TRUE
          /\ UNCHANGED free
       \/ \E code \in {"rejected", "unavailable"} \cup (IF over[r] THEN {"timeout"} ELSE {}) :
             Return(r, code) /\ UNCHANGED up
    /\ UNCHANGED <<sent, over, crashes, history>>

\* restartSubprocess: the old llama-server is stopped, whoever is reading from it,
\* and a new one is started, or not.
Restart(r) ==
    /\ At(r, "restart")
    /\ \/ /\ up' = TRUE
          /\ h' = Cut([h EXCEPT ![r].pc = "connect", ![r].att = 2])
          /\ UNCHANGED free
       \/ /\ up' = FALSE
          /\ h' = Cut([h EXCEPT ![r] = Returned(r, "unavailable")])
          /\ free' = free + 1
    /\ UNCHANGED <<sent, over, crashes, history>>

\* The POST is answered with a stream, or with a status other than 200, or fails:
\* no llama-server is up, or the one of this tier has just been stopped or replaced.
Connect(r) ==
    /\ At(r, "connect")
    /\ \/ /\ up /\ ~over[r]
          /\ h' = [h EXCEPT ![r].pc = "read", ![r].cut = FALSE, ![r].chunks = 0]
          /\ UNCHANGED free
       \/ up /\ ~over[r] /\ Return(r, "rejected")
       \/ ~over[r] /\ AttemptFails(r, "unavailable")
       \/ over[r] /\ AttemptFails(r, "timeout")
    /\ UNCHANGED <<sent, over, up, crashes, history>>

Reading(r) == At(r, "read") /\ ~h[r].cut

\* A delta of the answer or of the reasoning arrives and is passed on.
Chunk(r, what) ==
    /\ Reading(r)
    /\ h[r].chunks < MaxChunks
    /\ Write(r, what)
    /\ h' = [h EXCEPT ![r].chunks = @ + 1,
                      ![r].contentEmitted = @ \/ what = "delta",
                      ![r].reasoningEmitted = @ \/ what = "reasoning"]
    /\ UNCHANGED <<over, free, up, crashes, history>>

\* Slip: the second call offers the tools again.
OffersToolsAgain(r) == What(r) \in {"toolStream", "tools"}

\* Tools are offered on the first call only.
OffersTools(r) == What(r) \in {"toolStream", "tools"} /\ h[r].hop = 1

\* The tool calls of a complete answer.
CallsMade(r) == IF OffersTools(r) THEN 0..MaxToolCalls ELSE {0}

\* The answer is complete: [DONE], with the tool calls gathered from its
\* fragments and the finish reason.  A turn with tool calls has no content.
StreamEnds(r) ==
    /\ Reading(r)
    /\ \E n \in CallsMade(r) :
          /\ n > 0 => \A i \in DOMAIN sent[r] :
                         ~(sent[r][i].what = "delta" /\ sent[r][i].hop = h[r].hop)
          /\ ReturnAnswer(r, n)
    /\ UNCHANGED <<sent, over, up, crashes, history>>

\* Slip: the request to llama-server is built without the context.
StreamBreaksNoContext(r) ==
    /\ At(r, "read")
    /\ h[r].cut /\ AttemptFails(r, "internal_error")
    /\ UNCHANGED <<sent, over, up, crashes, history>>

\* Reading fails: llama-server is gone, or the context is done.
StreamBreaks(r) ==
    /\ At(r, "read")
    /\ \/ h[r].cut /\ ~over[r] /\ AttemptFails(r, "internal_error")
       \/ over[r] /\ AttemptFails(r, "timeout")
    /\ UNCHANGED <<sent, over, up, crashes, history>>

\* The scanner gives up on a line beyond its buffer, with llama-server alive.
LineTooLong(r) ==
    /\ Reading(r)
    /\ ~over[r]
    /\ AttemptFails(r, "internal_error")
    /\ UNCHANGED <<sent, over, up, crashes, history>>

\* A blocking call of Infer or Describe returns.
InferReturns(r) ==
    /\ At(r, "infer")
    /\ \/ \E n \in CallsMade(r) : ReturnAnswer(r, n)
       \/ \E code \in {"rejected", "unavailable", "internal_error"} \cup
                         (IF over[r] THEN {"timeout"} ELSE {}) : Return(r, code)
    /\ UNCHANGED <<sent, over, up, crashes, history>>

\* llama-server crashes, or is stopped by the eviction loop or by a blocking call.
Crash ==
    /\ up
    /\ crashes < MaxCrashes
    /\ up' = FALSE
    /\ h' = Cut(h)
    /\ crashes' = crashes + 1
    /\ UNCHANGED <<sent, over, free, history>>
-----------------------------------------------------------------------------
(***************************************************************************)
(* runWithTools, runWithToolsStream and the end of each handler            *)
(***************************************************************************)

\* The first call asked for tools.
RunTools(r) ==
    /\ At(r, "returned")
    /\ h[r].code = "ok" /\ h[r].hop = 1 /\ h[r].calls > 0
    /\ Goto(r, "tools")
    /\ UNCHANGED <<sent, over, free, up, crashes, history>>

\* Another tool call is to be resolved after this one.
MoreTools(r) == h[r].calls > 1

\* executeToolCall, whose failures only change what the model is told, and the
\* notice.  After the last one the backend is called again.
executeToolCall(r) ==
    /\ At(r, "tools")
    /\ IF What(r) = "toolStream" THEN Write(r, "tool") ELSE UNCHANGED sent
    /\ h' = [h EXCEPT ![r] =
                IF MoreTools(r) THEN [@ EXCEPT !.calls = h[r].calls - 1]
                ELSE [@ EXCEPT !.pc = "slot", !.hop = 2, !.calls = 0, !.lengthLimited = FALSE]]
    /\ UNCHANGED <<over, free, up, crashes, history>>

\* Slip: an answer that never came is taken for an answer.
EndCodeOfSilence(r) ==
    IF h[r].code # "ok" THEN h[r].code
    ELSE IF h[r].lengthLimited THEN "truncated" ELSE "ok"

(***************************************************************************)
(* How the response ends.  A stream that broke after content is salvaged   *)
(* unless it had to be JSON or came with tools; a stream without content   *)
(* is a failure.                                                           *)
(***************************************************************************)
EndCode(r) ==
    IF h[r].code # "ok"
    THEN IF What(r) = "stream" /\ h[r].contentEmitted /\ ~h[r].kind.format
         THEN "truncated" ELSE h[r].code
    ELSE IF Streamed(r) /\ ~h[r].contentEmitted
    THEN IF h[r].reasoningEmitted THEN "reasoning_exhausted" ELSE "internal_error"
    ELSE IF h[r].lengthLimited THEN "truncated" ELSE "ok"

\* Slip: a salvaged stream is entered as a failure.
StatusUnsalvaged(r) == IF h[r].code = "ok" /\ EndCode(r) \in {"ok", "truncated"} THEN "done" ELSE "failed"

Status(r) == IF EndCode(r) \in {"ok", "truncated"} THEN "done" ELSE "failed"

\* The history is written before the response, except by a stream that succeeded
\* and a tool request that failed.
RecordedFirst(r) ==
    CASE Streamed(r) -> ~(h[r].code = "ok" /\ h[r].contentEmitted)
      [] What(r) = "tools" -> h[r].code = "ok"
      [] What(r) = "describe" -> TRUE

Finished(r) == At(r, "returned") /\ ~(h[r].code = "ok" /\ h[r].hop = 1 /\ h[r].calls > 0)

\* The first of the two ...
Settle(r) ==
    /\ Finished(r)
    /\ Goto(r, "settle")
    /\ IF RecordedFirst(r) THEN recordJob(r, Status(r)) /\ UNCHANGED sent
       ELSE Write(r, EndCode(r)) /\ UNCHANGED history
    /\ UNCHANGED <<over, free, up, crashes>>

\* ... and the second.  The handler returns and its context is cancelled.
Close(r) ==
    /\ At(r, "settle")
    /\ h' = [h EXCEPT ![r] = [NewHandler(@.kind) EXCEPT !.pc = "end", !.code = h[r].code,
                                                        !.made = h[r].made]]
    /\ IF RecordedFirst(r) THEN Write(r, EndCode(r)) /\ UNCHANGED history
       ELSE recordJob(r, Status(r)) /\ UNCHANGED sent
    /\ over' = [over EXCEPT ![r] = TRUE]
    /\ UNCHANGED <<free, up, crashes>>
-----------------------------------------------------------------------------
\* What the server does by itself, whatever llama-server does.
ServerStep(r) ==
    \/ TakeSlot(r) \/ SlotTimeout(r) \/ Select(r) \/ Restart(r) \/ Connect(r)
    \/ StreamBreaks(r) \/ InferReturns(r) \/ RunTools(r) \/ executeToolCall(r)
    \/ Settle(r) \/ Close(r)

Next ==
    \/ \E r \in Requests :
          \/ Arrive(r) \/ deferToRelay(r) \/ ContextDone(r) \/ ServerStep(r)
          \/ Chunk(r, "delta") \/ Chunk(r, "reasoning") \/ StreamEnds(r) \/ LineTooLong(r)
    \/ Crash

Spec == Init /\ [][Next]_vars

(***************************************************************************)
(* The deadline of handleInfer passes; the server's goroutines run.        *)
(* llama-server need not answer.  A slot waited for may be taken by others *)
(* a finite number of times, after which weak fairness suffices.           *)
(***************************************************************************)
FairSpec ==
    /\ Spec
    /\ \A r \in Requests : WF_vars(ServerStep(r)) /\ WF_vars(ContextDone(r))
-----------------------------------------------------------------------------
(***************************************************************************)
(* Properties                                                              *)
(***************************************************************************)

IsChunk(e) == e.what \in {"delta", "reasoning"}

\* What a client receives of one answer comes from one attempt, through crashes,
\* restarts by this request or by others, and evictions (llamacpp/backend.go:
\* "restarting mid-stream would duplicate tokens").
NoSplicedAnswer ==
    \A r \in Requests : \A i, j \in DOMAIN sent[r] :
        IsChunk(sent[r][i]) /\ IsChunk(sent[r][j]) /\ sent[r][i].hop = sent[r][j].hop
            => sent[r][i].att = sent[r][j].att

\* The number of tool notices among the first n events.
Notices(r, n) == Cardinality({i \in 1..n : sent[r][i].what = "tool"})

\* Every tool call the model made is resolved, each once, before the answer built
\* on them begins, and no answer is taken for final with a call in it
\* (runWithToolsStream and StreamChunk.ToolCall: "after the first hop resolves and
\* before the second hop's Delta/Reasoning chunks").
ToolsResolved ==
    \A r \in Requests : What(r) = "toolStream" =>
        /\ \A i \in DOMAIN sent[r] :
              IsChunk(sent[r][i]) /\ sent[r][i].hop = 2 => Notices(r, i) = h[r].made
        /\ At(r, "end") /\ h[r].code = "ok" => Notices(r, Len(sent[r])) = h[r].made

Ends(r) == {i \in DOMAIN sent[r] : sent[r][i].what \in Codes}

\* hisclient's InferStream reads up to the first chunk that is done and returns it;
\* a response that is no stream, or has an error in that chunk, becomes an
\* APIError.  A stream that just stops is no error to it.
Told(r) ==
    IF Ends(r) = {} THEN "none"
    ELSE sent[r][CHOOSE i \in Ends(r) : \A j \in Ends(r) : i <= j].what

\* What the client library returns tells its caller what to make of the chunks
\* before it: an answer that ends well has content, and content is declared
\* worthless only when it is cut JSON or came with tools (StreamChunk: Truncated
\* is "not a failed request", Error is).  Nothing follows it.
TruthfulEnd ==
    \A r \in Requests : At(r, "end") /\ Streamed(r) =>
        LET hasContent == \E i \in DOMAIN sent[r] : sent[r][i].what = "delta"
        IN  /\ Told(r) \in {"ok", "truncated"} => hasContent
            /\ hasContent /\ What(r) = "stream" /\ ~h[r].kind.format
                  => Told(r) \in {"ok", "truncated"}
            /\ \A i \in 1..Len(sent[r]) - 1 : IsChunk(sent[r][i]) \/ sent[r][i].what = "tool"

\* The job history, which the dashboard shows, agrees with what the client was
\* told, and has each request at most once.
HistoryAgrees ==
    \A i \in DOMAIN history :
        LET r == history[i].req
        IN  /\ At(r, "end") =>
                  history[i].status = CASE Told(r) \in {"ok", "truncated"} -> "done"
                                        [] Told(r) = "deferred" -> "queued"
                                        [] OTHER -> "failed"
            /\ \A j \in DOMAIN history \ {i} : history[j].req # r

\* Every request ends, also while llama-server hangs or crashes and restarts, and
\* in the end every slot has been given back (handleInfer: "Always bound the
\* request").
EveryRequestEnds ==
    /\ \A r \in Requests : ~At(r, "idle") ~> At(r, "end")
    /\ <>[](free = MaxParallel)
-----------------------------------------------------------------------------
(***************************************************************************)
(* The inductive invariant behind the safety properties                    *)
(***************************************************************************)

\* r holds a slot of the backend; free counts the others.
Busy(r) == h[r].pc \in {"select", "connect", "read", "restart", "infer"}

Holders == {r \in Requests : Busy(r)}

SlotsCounted ==
    /\ IsFiniteSet(Holders)
    /\ Cardinality(Holders) <= MaxParallel
    /\ free = MaxParallel - Cardinality(Holders)

\* The chunks sent in the call that is running are those of its present attempt, and
\* a call that may still be retried has sent none.
CallChunks ==
    \A r \in Requests :
        /\ ~At(r, "read") => h[r].chunks = 0
        /\ Busy(r) \/ At(r, "slot") =>
              \A i \in DOMAIN sent[r] :
                  IsChunk(sent[r][i]) /\ sent[r][i].hop = h[r].hop =>
                      h[r].chunks > 0 /\ sent[r][i].att = h[r].att
        /\ ~At(r, "end") => \A i \in DOMAIN sent[r] : sent[r][i].hop <= h[r].hop

\* The tool calls made are those announced and those still to be resolved.
ToolsCounted ==
    \A r \in Requests :
        /\ h[r].calls > 0 => h[r].pc \in {"returned", "tools"} /\ h[r].hop = 1 /\ h[r].code = "ok"
        /\ At(r, "tools") => h[r].calls > 0
        /\ What(r) = "toolStream" /\ ~At(r, "end") =>
              h[r].made = Notices(r, Len(sent[r])) + h[r].calls

\* The end of the response of r has been written.
EndSent(r) == At(r, "end") \/ (At(r, "settle") /\ ~RecordedFirst(r))

\* It is the last event, it says EndCode, and the handler's flags say what went before.
EndWritten ==
    \A r \in Requests :
        /\ h[r].code \in {"none", "ok", "timeout", "unavailable", "rejected", "internal_error"}
        /\ At(r, "idle") => sent[r] = <<>>
        /\ \A i \in DOMAIN sent[r] : sent[r][i].what \in Codes <=> EndSent(r) /\ i = Len(sent[r])
        /\ EndSent(r) => sent[r] # <<>>
        /\ EndSent(r) /\ At(r, "settle") => sent[r][Len(sent[r])].what = EndCode(r)
        /\ ~At(r, "end") => (h[r].contentEmitted <=>
                                \E i \in DOMAIN sent[r] : sent[r][i].what = "delta")

\* A request is in the history when it is over, or when it recorded before it wrote.
Filed ==
    \A i \in DOMAIN history :
        LET r == history[i].req
        IN  At(r, "end") \/ (At(r, "settle") /\ RecordedFirst(r) /\ history[i].status = Status(r))

StreamIInv ==
    /\ TypeOK /\ SlotsCounted /\ CallChunks /\ ToolsCounted /\ EndWritten /\ Filed
    /\ NoSplicedAnswer /\ ToolsResolved /\ TruthfulEnd /\ HistoryAgrees
=============================================================================
