----------------------------- MODULE PromptPath -----------------------------
(***************************************************************************)
(* What the model is shown of what a caller sent: the sources picked for   *)
(* an app's question (internal/apps), the translation of a request         *)
(* (internal/server), the shape a tier gives it and the messages on the    *)
(* wire (internal/backend/llamacpp), the second request of a tool call,    *)
(* and the hosted model that stands in for the PC (internal/hosted).       *)
(*                                                                         *)
(* A text is a sequence of pieces and joining texts is concatenation.  A   *)
(* document is its size, its score for the question and its always flag.   *)
(***************************************************************************)
EXTENDS Integers, Sequences, FiniteSets

Sq == INSTANCE SequencesExt

CONSTANTS SourceBudget,
          MaxSources,
          DocSizes,  \* the sizes of documents, after trimText
          Scores,    \* their BM25 scores; 0 has no term of the question
          MaxDocs,   \* bound on documents
          MaxTurns   \* bound on the messages of a request

ASSUME PromptAssumption ==
    /\ {SourceBudget, MaxSources, MaxDocs, MaxTurns} \subseteq Nat
    /\ DocSizes \subseteq Nat \ {0}
    /\ Scores \subseteq Nat

VARIABLES stage,      \* where the request is
          docs,       \* the app's documents (none for another client's request)
          asked,      \* the api.InferRequest
          backendReq, \* the backend.Request
          wire        \* what the model server was last sent

promptVars == <<stage, docs, asked, backendReq, wire>>

SystemText == <<"system", 0>>
PromptText == <<"prompt", 0>>
VisionText == <<"vision", 0>>
ToolText == <<"tool", 0>>

Documents == [always : BOOLEAN, size : DocSizes, score : Scores]

Roles == {"system", "user", "assistant"}

Message(role, text) == [role |-> role, text |-> text, image |-> FALSE]

\* Requests as clients send them, well-formed or not.
Conversations ==
    {[i \in DOMAIN roles |-> Message(roles[i], << <<"turn", i>> >>)] :
        roles \in Sq!BoundedSeq(Roles, MaxTurns)}

Requests ==
    [modality : {"text", "vision"},
     system : {<<>>, <<SystemText>>},
     prompt : {<<>>, <<PromptText>>},
     messages : Conversations,
     vision : {"none", "image", "undecodable"}, \* vision_input and its base64 data
     tools : BOOLEAN]

NoRequest == [modality |-> "", system |-> <<>>, prompt |-> <<>>, messages |-> <<>>,
              vision |-> "none", tools |-> FALSE]

NoBackendReq == [system |-> <<>>, prompt |-> <<>>, messages |-> <<>>, image |-> FALSE,
                 tools |-> FALSE]

NoWire == [endpoint |-> "none", messages |-> <<>>]

PromptInit ==
    /\ stage = "idle"
    /\ docs = <<>>
    /\ asked = NoRequest
    /\ backendReq = NoBackendReq
    /\ wire = NoWire
-----------------------------------------------------------------------------
(***************************************************************************)
(* internal/apps: the sources and the request of a question                *)
(***************************************************************************)
SizeOf(ds, picked) ==
    LET used[n \in 0..Len(picked)] == IF n = 0 THEN 0 ELSE used[n - 1] + ds[picked[n]].size
    IN  used[Len(picked)]

AlwaysDocs(ds) ==
    LET out[n \in 0..Len(ds)] ==
            IF n = 0 THEN <<>>
            ELSE IF ds[n].always THEN Append(out[n - 1], n) ELSE out[n - 1]
    IN  out[Len(ds)]

\* sort.SliceStable by score: a document's place is the number of those before it.
Before(ds, i, j) ==
    \/ ds[i].score > ds[j].score
    \/ ds[i].score = ds[j].score /\ i < j

Scored(ds) == {i \in DOMAIN ds : ~ds[i].always /\ ds[i].score > 0}

Place(ds, i) == Cardinality({j \in Scored(ds) : Before(ds, j, i)}) + 1

Ranked(ds) ==
    [n \in 1..Cardinality(Scored(ds)) |-> CHOOSE i \in Scored(ds) : Place(ds, i) = n]

Fits(ds, picked, i) ==
    Len(picked) < MaxSources /\ SizeOf(ds, picked) + ds[i].size <= SourceBudget

\* Slip: the first document that does not fit ends the search.
RetrieveStopsEarly(ds) ==
    Sq!FoldLeft(LAMBDA s, i : IF s.more /\ Fits(ds, s.picked, i)
                              THEN [s EXCEPT !.picked = Append(@, i)]
                              ELSE [s EXCEPT !.more = FALSE],
                [picked |-> AlwaysDocs(ds), more |-> TRUE], Ranked(ds)).picked

\* Retrieve: the always-documents, then the best others that fit; one that does
\* not is skipped.
Retrieve(ds) ==
    LET ranked == Ranked(ds)
        out[n \in 0..Len(ranked)] ==
            IF n = 0 THEN AlwaysDocs(ds)
            ELSE IF Fits(ds, out[n - 1], ranked[n]) THEN Append(out[n - 1], ranked[n])
            ELSE out[n - 1]
    IN  out[Len(ranked)]

\* The numbered sources as pieces of the system prompt.
SourceTexts(picked) == [n \in DOMAIN picked |-> <<"source", picked[n]>>]

\* BuildRequest: rules and sources are the system prompt, the framed question is
\* a plain prompt.
BuildRequest(picked) ==
    [NoRequest EXCEPT !.modality = "text",
                      !.system = <<SystemText>> \o SourceTexts(picked),
                      !.prompt = <<PromptText>>]
-----------------------------------------------------------------------------
(***************************************************************************)
(* internal/server                                                         *)
(***************************************************************************)
\* handleInfer's checks.  A tools request names a tier with a tool grammar.
Valid(req) ==
    /\ req.modality = "text" => req.prompt # <<>> \/ req.messages # <<>>
    /\ req.modality = "vision" => req.vision # "none"
    /\ req.tools => req.modality # "vision" /\ req.messages # <<>>

HasSystem(msgs) == \E i \in DOMAIN msgs : msgs[i].role = "system"

translateMessages(msgs, system) ==
    (IF system # <<>> /\ ~HasSystem(msgs) THEN <<Message("system", system)>> ELSE <<>>) \o msgs

\* A vision_input replaces the prompt; data that does not decode is dropped.
TranslateInferRequest(req) ==
    [system |-> req.system,
     messages |-> IF req.messages = <<>> THEN <<>>
                  ELSE translateMessages(req.messages, req.system),
     prompt |-> IF req.vision # "none" THEN <<VisionText>>
                ELSE IF req.messages = <<>> /\ req.prompt # <<>> THEN req.system \o req.prompt
                ELSE <<>>,
     image |-> req.vision = "image",
     tools |-> req.tools]
-----------------------------------------------------------------------------
(***************************************************************************)
(* internal/backend/llamacpp                                               *)
(***************************************************************************)
\* Slip: the prompt is wrapped although there are messages.
chatShapeAlways(req, forceTemplate) ==
    IF ~(req.image \/ forceTemplate) THEN req
    ELSE [req EXCEPT !.messages = <<Message("system", req.system), Message("user", req.prompt)>>]

chatShape(req, forceTemplate) ==
    IF req.messages # <<>> \/ ~(req.image \/ forceTemplate) THEN req
    ELSE [req EXCEPT !.messages =
             (IF req.system # <<>> THEN <<Message("system", req.system)>> ELSE <<>>)
                 \o <<Message("user", req.prompt)>>]

\* The image goes to the last user turn, or nowhere.
toChatMessages(req) ==
    LET lastUser == Sq!SelectLastInSeq(req.messages, LAMBDA m : m.role = "user")
    IN  IF req.image /\ lastUser > 0
        THEN [req.messages EXCEPT ![lastUser].image = TRUE]
        ELSE req.messages

\* runComplete and runCompleteStream: chat-completions for messages, else the
\* plain completion endpoint, which takes the prompt alone.
runComplete(req, forceTemplate) ==
    LET shaped == chatShape(req, forceTemplate)
    IN  IF shaped.messages # <<>>
        THEN [endpoint |-> "chat", messages |-> toChatMessages(shaped)]
        ELSE [endpoint |-> "completion", messages |-> <<Message("prompt", req.prompt)>>]

\* runWithTools: the model's calls and their results follow the messages.
WithToolResults(req) ==
    [req EXCEPT !.messages = @ \o <<Message("assistant", <<>>), Message("tool", <<ToolText>>)>>,
                !.tools = FALSE]
-----------------------------------------------------------------------------
\* A client posts a request.
PostInfer ==
    /\ stage = "idle"
    /\ asked' \in Requests
    /\ IF Valid(asked')
       THEN stage' = "accepted" /\ backendReq' = TranslateInferRequest(asked')
       ELSE stage' = "refused" /\ UNCHANGED backendReq
    /\ UNCHANGED <<docs, wire>>

\* A visitor asks an app's question, which the relay queues for the PC ...
PostQuestion ==
    /\ stage = "idle"
    /\ docs' \in Sq!BoundedSeq(Documents, MaxDocs)
    /\ asked' = BuildRequest(Retrieve(docs'))
    /\ backendReq' = TranslateInferRequest(asked')
    /\ stage' = "question"
    /\ UNCHANGED wire

\* ... or, while the PC is offline, sends to the hosted model.
AnswerHosted ==
    /\ stage = "question"
    /\ wire' = [endpoint |-> "hosted",
                messages |-> <<Message("system", asked.system), Message("user", asked.prompt)>>]
    /\ stage' = "answered"
    /\ UNCHANGED <<docs, asked, backendReq>>

\* A tier is sent the request: one whose descriptor forces the chat template, or
\* one with a tool grammar, which does not.  A request that was sent before, to a
\* process that died or in the first hop of a tool call, may meet either.
Infer ==
    /\ stage \in {"accepted", "question", "sent"}
    /\ \E forceTemplate \in BOOLEAN :
          /\ backendReq.tools => ~forceTemplate
          /\ wire' = runComplete(backendReq, forceTemplate)
    /\ stage' = "sent"
    /\ UNCHANGED <<docs, asked, backendReq>>

\* The model asks for a tool.
ToolCalls ==
    /\ stage = "sent"
    /\ backendReq.tools
    /\ backendReq' = WithToolResults(backendReq)
    /\ UNCHANGED <<stage, docs, asked, wire>>

\* The next request.
PromptDone ==
    /\ stage \in {"sent", "answered", "refused"}
    /\ stage' = "idle"
    /\ docs' = <<>>
    /\ asked' = NoRequest
    /\ backendReq' = NoBackendReq
    /\ wire' = NoWire

PromptNext ==
    \/ PostInfer \/ PostQuestion \/ AnswerHosted \/ Infer \/ ToolCalls \/ PromptDone

PromptSpec == PromptInit /\ [][PromptNext]_promptVars
-----------------------------------------------------------------------------
(***************************************************************************)
(* Properties                                                              *)
(***************************************************************************)
\* The text of messages.
Text(msgs) == Sq!FlattenSeq([i \in DOMAIN msgs |-> msgs[i].text])

PromptTypeOK ==
    /\ stage \in {"idle", "accepted", "question", "refused", "sent", "answered"}
    /\ \A i \in DOMAIN docs : docs[i] \in Documents
    /\ wire.endpoint \in {"none", "chat", "completion", "hosted"}
    /\ stage \in {"sent", "answered"} <=> wire # NoWire

\* What request.go asks for: exactly one input, matching the modality; and image
\* data that decodes.
WellFormed(req) ==
    \/ req.modality = "text" /\ req.vision = "none" /\ (req.prompt = <<>> \/ req.messages = <<>>)
    \/ req.modality = "vision" /\ req.vision = "image" /\ req.prompt = <<>> /\ req.messages = <<>>

\* What the caller said, in order.
Said(req) ==
    IF req.vision # "none" THEN <<VisionText>>
    ELSE req.prompt \o Text(req.messages)

\* A bare prompt that a tier wraps in its chat template.
Wrapped(req, w) == req.messages = <<>> /\ req.vision = "none" /\ w.endpoint = "chat"

\* What may come before what the caller said.
Preambles(req, w) ==
    IF HasSystem(req.messages) THEN {<<>>}
    ELSE {req.system} \cup (IF Wrapped(req, w) THEN {req.system \o req.system} ELSE {})

\* The model is shown everything the caller said, once, in order and in one piece,
\* whichever tiers and endpoints serve it, in both requests of a tool call, resent
\* or covered by the hosted model.  Before it comes the system prompt once, unless
\* the caller's messages have one (a bare prompt wrapped in a chat template may have
\* it twice, where request.go promises one system message); after it the results of its tools; nothing else; and an image is with
\* the last thing the user said (chatShape, translateMessages, toChatMessages,
\* runWithTools).
SaidIsShown ==
    wire # NoWire /\ WellFormed(asked) =>
        LET after == {<<>>} \cup (IF asked.tools THEN {<<ToolText>>} ELSE {})
            pictured == {i \in DOMAIN wire.messages : wire.messages[i].image}
        IN  /\ \E b \in Preambles(asked, wire), a \in after :
                   Text(wire.messages) = b \o Said(asked) \o a
            /\ IF asked.vision = "image"
               THEN /\ pictured = {Len(wire.messages)}
                    /\ wire.messages[Len(wire.messages)].role = "user"
               ELSE pictured = {}

\* The size of a set of documents.
TotalSize(ds, S) ==
    LET total[n \in 0..Len(ds)] ==
            IF n = 0 THEN 0 ELSE total[n - 1] + IF n \in S THEN ds[n].size ELSE 0
    IN  total[Len(ds)]

\* The best documents are the ones sent: one that matches the question is left out
\* only when those that rank above it, with the always-documents, leave no room
\* for it (retrieve.go: "then the best-scoring others while they fit").
BestSources ==
    LET picked == Sq!Range(Retrieve(docs))
        above(i) == {j \in picked : docs[j].always \/ Before(docs, j, i)}
    IN  \A i \in DOMAIN docs :
            i \in picked <=>
                \/ docs[i].always
                \/ /\ docs[i].score > 0
                   /\ Cardinality(above(i)) < MaxSources
                   /\ TotalSize(docs, above(i)) + docs[i].size <= SourceBudget
=============================================================================
