-------------------------- MODULE StreamingProofs --------------------------
(***************************************************************************)
(* The streaming handlers, for any requests, slots, lengths of answers,    *)
(* tool calls and crashes of llama-server: what a client received of one   *)
(* answer is of one attempt, every tool call is resolved before the answer *)
(* built on it, and the end and the job history say what happened.         *)
(***************************************************************************)
EXTENDS Streaming, FiniteSetTheorems, SequenceTheorems, TLAPS

\* The bounds are numbers.
LEMMA Bounds ==
    /\ MaxParallel \in Nat /\ jobHistoryMax \in Nat /\ jobHistoryMax >= 1
    /\ MaxChunks \in Nat /\ MaxToolCalls \in Nat /\ MaxCrashes \in Nat
  BY StreamingAssumption

\* What the invariant says of request q, part by part.
ChunksOK(q) ==
    /\ ~At(q, "read") => h[q].chunks = 0
    /\ Busy(q) \/ At(q, "slot") =>
          \A i \in DOMAIN sent[q] :
              IsChunk(sent[q][i]) /\ sent[q][i].hop = h[q].hop =>
                  h[q].chunks > 0 /\ sent[q][i].att = h[q].att
    /\ ~At(q, "end") => \A i \in DOMAIN sent[q] : sent[q][i].hop <= h[q].hop

SplicedOK(q) ==
    \A i, j \in DOMAIN sent[q] :
        IsChunk(sent[q][i]) /\ IsChunk(sent[q][j]) /\ sent[q][i].hop = sent[q][j].hop
            => sent[q][i].att = sent[q][j].att

ToolsOK(q) ==
    /\ h[q].calls > 0 => h[q].pc \in {"returned", "tools"} /\ h[q].hop = 1 /\ h[q].code = "ok"
    /\ At(q, "tools") => h[q].calls > 0
    /\ What(q) = "toolStream" /\ ~At(q, "end") =>
          h[q].made = Notices(q, Len(sent[q])) + h[q].calls

ResolvedOK(q) ==
    What(q) = "toolStream" =>
        /\ \A i \in DOMAIN sent[q] :
              IsChunk(sent[q][i]) /\ sent[q][i].hop = 2 => Notices(q, i) = h[q].made
        /\ At(q, "end") /\ h[q].code = "ok" => Notices(q, Len(sent[q])) = h[q].made

EndOK(q) ==
    /\ h[q].code \in {"none", "ok", "timeout", "unavailable", "rejected", "internal_error"}
    /\ At(q, "idle") => sent[q] = <<>>
    /\ \A i \in DOMAIN sent[q] : sent[q][i].what \in Codes <=> EndSent(q) /\ i = Len(sent[q])
    /\ EndSent(q) => sent[q] # <<>>
    /\ EndSent(q) /\ At(q, "settle") => sent[q][Len(sent[q])].what = EndCode(q)
    /\ ~At(q, "end") => (h[q].contentEmitted <=>
                            \E i \in DOMAIN sent[q] : sent[q][i].what = "delta")

HasContent(q) == \E i \in DOMAIN sent[q] : sent[q][i].what = "delta"

TruthOK(q) ==
    At(q, "end") /\ Streamed(q) =>
        /\ Told(q) \in {"ok", "truncated"} => HasContent(q)
        /\ HasContent(q) /\ What(q) = "stream" /\ ~h[q].kind.format => Told(q) \in {"ok", "truncated"}
        /\ \A i \in 1..Len(sent[q]) - 1 : IsChunk(sent[q][i]) \/ sent[q][i].what = "tool"

RequestOK(q) ==
    ChunksOK(q) /\ SplicedOK(q) /\ ToolsOK(q) /\ ResolvedOK(q) /\ EndOK(q) /\ TruthOK(q)

\* What it says of the job history.
ToldStatus(q) ==
    CASE Told(q) \in {"ok", "truncated"} -> "done"
      [] Told(q) = "deferred" -> "queued"
      [] OTHER -> "failed"

FiledOK(q, status) ==
    \/ At(q, "end") /\ status = ToldStatus(q)
    \/ At(q, "settle") /\ RecordedFirst(q) /\ status = Status(q)

HistoryOK ==
    \A i \in DOMAIN history :
        /\ FiledOK(history[i].req, history[i].status)
        /\ \A j \in DOMAIN history \ {i} : history[j].req # history[i].req

Entry == [req : Requests, status : {"queued", "done", "failed"}]

\* The types, but for the slots.
Base ==
    /\ h \in [Requests -> Handler]
    /\ sent \in [Requests -> Seq(Events)]
    /\ over \in [Requests -> BOOLEAN]
    /\ up \in BOOLEAN
    /\ crashes \in 0..MaxCrashes
    /\ history \in Seq(Entry)
    /\ Len(history) <= jobHistoryMax

Inv == Base /\ SlotsCounted /\ HistoryOK /\ \A q \in Requests : RequestOK(q)

\* It implies the invariant of the model, and with it what the run checks.
LEMMA InvImplies ==
    ASSUME Inv
    PROVE  /\ StreamIInv
           /\ TypeOK /\ NoSplicedAnswer /\ ToolsResolved /\ TruthfulEnd /\ HistoryAgrees
  <1>1. TypeOK
    <2>1. Cardinality(Holders) \in Nat
      BY FS_CardinalityType DEF Inv, SlotsCounted
    <2>2. free \in 0..MaxParallel
      BY <2>1, Bounds DEF Inv, SlotsCounted
    <2> QED BY <2>2 DEF Inv, Base, TypeOK, Entry
  <1>2. NoSplicedAnswer
    BY DEF Inv, RequestOK, SplicedOK, NoSplicedAnswer
  <1>3. ToolsResolved
    BY DEF Inv, RequestOK, ResolvedOK, ToolsResolved
  <1>4. TruthfulEnd
    <2> SUFFICES ASSUME NEW r \in Requests, At(r, "end"), Streamed(r)
                 PROVE  /\ Told(r) \in {"ok", "truncated"} => HasContent(r)
                        /\ HasContent(r) /\ What(r) = "stream" /\ ~h[r].kind.format
                              => Told(r) \in {"ok", "truncated"}
                        /\ \A i \in 1..Len(sent[r]) - 1 :
                              IsChunk(sent[r][i]) \/ sent[r][i].what = "tool"
      BY DEF TruthfulEnd, HasContent
    <2> QED BY DEF Inv, RequestOK, TruthOK
  <1>5. HistoryAgrees
    <2> SUFFICES ASSUME NEW i \in DOMAIN history
                 PROVE  /\ At(history[i].req, "end") => history[i].status = ToldStatus(history[i].req)
                        /\ \A j \in DOMAIN history \ {i} : history[j].req # history[i].req
      BY DEF HistoryAgrees, ToldStatus
    <2>1. FiledOK(history[i].req, history[i].status)
      BY DEF Inv, HistoryOK
    <2> QED BY <2>1 DEF Inv, HistoryOK, FiledOK, At
  <1>6. CallChunks /\ ToolsCounted
    BY DEF Inv, RequestOK, CallChunks, ChunksOK, ToolsCounted, ToolsOK
  <1>7. EndWritten
    BY DEF Inv, RequestOK, EndWritten, EndOK
  <1>8. Filed
    BY DEF Inv, HistoryOK, Filed, FiledOK
  <1>9. SlotsCounted
    BY DEF Inv
  <1> QED BY <1>1, <1>2, <1>3, <1>4, <1>5, <1>6, <1>7, <1>8, <1>9 DEF StreamIInv
-----------------------------------------------------------------------------
(***************************************************************************)
(* The other requests                                                      *)
(***************************************************************************)

\* Two handlers that differ in `cut` at most.
Alike(f, g) ==
    /\ f.pc = g.pc /\ f.kind = g.kind /\ f.hop = g.hop /\ f.att = g.att /\ f.chunks = g.chunks
    /\ f.contentEmitted = g.contentEmitted /\ f.reasoningEmitted = g.reasoningEmitted
    /\ f.calls = g.calls /\ f.made = g.made /\ f.code = g.code
    /\ f.lengthLimited = g.lengthLimited

Untouched(q) == Alike(h'[q], h[q]) /\ sent'[q] = sent[q]

\* The model's operators see no difference.
LEMMA SameTerms ==
    ASSUME NEW q, Untouched(q)
    PROVE  /\ Busy(q)' = Busy(q) /\ What(q)' = What(q) /\ Streamed(q)' = Streamed(q)
           /\ EndCode(q)' = EndCode(q) /\ RecordedFirst(q)' = RecordedFirst(q)
           /\ Status(q)' = Status(q) /\ EndSent(q)' = EndSent(q)
           /\ Told(q)' = Told(q) /\ ToldStatus(q)' = ToldStatus(q) /\ HasContent(q)' = HasContent(q)
           /\ \A n : Notices(q, n)' = Notices(q, n)
           /\ \A p : At(q, p)' = At(q, p)
  <1>1. Busy(q)' = Busy(q) /\ What(q)' = What(q) /\ \A p : At(q, p)' = At(q, p)
    BY DEF Untouched, Alike, Busy, What, At
  <1>2. Streamed(q)' = Streamed(q)
    BY <1>1 DEF Streamed
  <1>3. EndCode(q)' = EndCode(q)
    BY <1>1, <1>2 DEF EndCode, Untouched, Alike
  <1>4. RecordedFirst(q)' = RecordedFirst(q)
    BY <1>1, <1>2 DEF RecordedFirst, Untouched, Alike
  <1>5. Status(q)' = Status(q)
    BY <1>3 DEF Status
  <1>6. EndSent(q)' = EndSent(q)
    BY <1>1, <1>4 DEF EndSent
  <1>7. Ends(q)' = Ends(q)
    BY DEF Ends, Untouched
  <1>8. Told(q)' = Told(q)
    BY <1>7 DEF Told, Untouched
  <1>9. ToldStatus(q)' = ToldStatus(q)
    BY <1>8 DEF ToldStatus
  <1>10. HasContent(q)' = HasContent(q)
    BY DEF HasContent, Untouched
  <1>11. \A n : Notices(q, n)' = Notices(q, n)
    BY DEF Notices, Untouched
  <1> QED BY <1>1, <1>2, <1>3, <1>4, <1>5, <1>6, <1>8, <1>9, <1>10, <1>11

\* So what the invariant says of q still holds.
LEMMA OthersKeep == ASSUME NEW q, Untouched(q), RequestOK(q) PROVE RequestOK(q)'
  <1>1. ChunksOK(q)'
    BY SameTerms DEF RequestOK, ChunksOK, Untouched, Alike
  <1>2. SplicedOK(q)'
    BY DEF RequestOK, SplicedOK, Untouched
  <1>3. ToolsOK(q)'
    BY SameTerms DEF RequestOK, ToolsOK, Untouched, Alike
  <1>4. ResolvedOK(q)'
    BY SameTerms DEF RequestOK, ResolvedOK, Untouched, Alike
  <1>5. EndOK(q)'
    BY SameTerms DEF RequestOK, EndOK, Untouched, Alike
  <1>6. TruthOK(q)'
    BY SameTerms DEF RequestOK, TruthOK, Untouched, Alike
  <1> QED BY <1>1, <1>2, <1>3, <1>4, <1>5, <1>6 DEF RequestOK
-----------------------------------------------------------------------------
(***************************************************************************)
(* Steps that write nothing                                                *)
(***************************************************************************)

Sane == {"none", "ok", "timeout", "unavailable", "rejected", "internal_error"}

\* The handler of r is now g; of the others' at most `cut` changed.
Becomes(r, g) ==
    /\ h' \in [Requests -> Handler]
    /\ Alike(h'[r], g)
    /\ \A q \in Requests : q # r => Alike(h'[q], h[q])

\* Setting one handler, with or without cutting the streams, is such a change.
LEMMA HandlerSet ==
    ASSUME Base, NEW r \in Requests, NEW g \in Handler,
           h' = [h EXCEPT ![r] = g] \/ h' = Cut([h EXCEPT ![r] = g])
    PROVE  Becomes(r, g)
  <1> DEFINE k == [h EXCEPT ![r] = g]
  <1>1. /\ k \in [Requests -> Handler] /\ k[r] = g
        /\ \A q \in Requests : q # r => k[q] = h[q]
    BY DEF Base
  <1> HIDE DEF k
  <1>2. \A f \in Handler : [f EXCEPT !.cut = TRUE] \in Handler /\ Alike([f EXCEPT !.cut = TRUE], f)
    BY DEF Handler, Alike
  <1>3. \A f \in Handler : Alike(f, f)
    BY DEF Alike
  <1>4. CASE h' = k
    BY <1>1, <1>3, <1>4 DEF Becomes, Base
  <1>5. CASE h' = Cut(k)
    <2>1. ASSUME NEW q \in Requests PROVE h'[q] \in Handler /\ Alike(h'[q], k[q])
      BY <1>1, <1>2, <1>3, <1>5 DEF Cut
    <2>2. h' = [q \in Requests |-> h'[q]]
      BY <1>5 DEF Cut
    <2>3. h' \in [Requests -> Handler]
      BY <2>1, <2>2
    <2> QED BY <1>1, <2>1, <2>3 DEF Becomes
  <1> QED BY <1>4, <1>5 DEF k

\* A move of r that writes nothing and keeps its part of the invariant.
Quiet(r, g) ==
    /\ g \in Handler /\ Becomes(r, g) /\ UNCHANGED <<sent, history>>
    /\ h[r].pc \notin {"settle", "end"} /\ g.pc \notin {"idle", "settle", "end"}
    /\ g.kind = h[r].kind /\ g.contentEmitted = h[r].contentEmitted
    /\ g.code \in Sane
    /\ g.hop >= h[r].hop
    /\ g.pc # "read" => g.chunks = 0
    /\ g.pc \in {"slot", "select", "connect", "read", "restart", "infer"} =>
          \A i \in DOMAIN sent[r] :
              IsChunk(sent[r][i]) /\ sent[r][i].hop = g.hop =>
                  g.chunks > 0 /\ sent[r][i].att = g.att
    /\ g.calls > 0 => g.pc \in {"returned", "tools"} /\ g.hop = 1 /\ g.code = "ok"
    /\ g.pc = "tools" => g.calls > 0
    /\ What(r) = "toolStream" => g.made + h[r].calls = h[r].made + g.calls
    /\ g.made = h[r].made \/ h[r].hop = 1

\* What has been written, and what has been recorded.
LEMMA SentTyped ==
    ASSUME Base, NEW r \in Requests
    PROVE  /\ sent[r] \in Seq(Events) /\ Len(sent[r]) \in Nat /\ DOMAIN sent[r] = 1..Len(sent[r])
           /\ \A i \in DOMAIN sent[r] :
                 /\ sent[r][i] \in Events
                 /\ sent[r][i].hop \in 1..2 /\ sent[r][i].att \in 1..2
                 /\ sent[r][i].what \in {"delta", "reasoning", "tool"} \cup Codes
  <1>1. sent[r] \in Seq(Events)
    BY DEF Base
  <1>2. \A i \in 1..Len(sent[r]) : sent[r][i] \in Events
    BY <1>1, ElementOfSeq
  <1>3. \A e \in Events : /\ e.hop \in 1..2 /\ e.att \in 1..2
                          /\ e.what \in {"delta", "reasoning", "tool"} \cup Codes
    BY DEF Events
  <1> HIDE DEF Events
  <1> QED BY <1>1, <1>2, <1>3

\* An entry of the history is of a request.
LEMMA HistoryTyped ==
    ASSUME Base
    PROVE  /\ Len(history) \in Nat /\ DOMAIN history = 1..Len(history)
           /\ \A i \in DOMAIN history : history[i] \in Entry /\ history[i].req \in Requests
  <1>1. history \in Seq(Entry)
    BY DEF Base
  <1>2. \A i \in 1..Len(history) : history[i] \in Entry
    BY <1>1, ElementOfSeq
  <1> QED BY <1>1, <1>2 DEF Entry

\* Who is in the history is at its end, or has recorded and not written yet.
LEMMA NotFiled ==
    ASSUME Inv, NEW r \in Requests, NEW i \in DOMAIN history, history[i].req = r
    PROVE  At(r, "end") \/ (At(r, "settle") /\ RecordedFirst(r))
  BY DEF Inv, HistoryOK, FiledOK

\* The history of the others.
LEMMA FiledKeeps ==
    ASSUME NEW q, NEW s, FiledOK(q, s), Untouched(q)
    PROVE  FiledOK(q, s)'
  BY SameTerms DEF FiledOK

\* It keeps the whole invariant, if it keeps the types and the slots.
LEMMA QuietKeeps ==
    ASSUME Inv, NEW r \in Requests, NEW g, Quiet(r, g), Base', SlotsCounted'
    PROVE  Inv'
  <1>0. /\ RequestOK(r) /\ sent'[r] = sent[r] /\ h'[r] \in Handler /\ h[r] \in Handler
        /\ sent[r] \in Seq(Events)
    BY DEF Inv, Quiet, Becomes, Base
  <1>1. Alike(h'[r], g)
    BY DEF Quiet, Becomes
  <1>2. ASSUME NEW q \in Requests, q # r PROVE Untouched(q)
    BY <1>2 DEF Quiet, Becomes, Untouched
  <1>3. ~EndSent(r) /\ ~EndSent(r)' /\ ~At(r, "end") /\ ~At(r, "end")' /\ ~At(r, "settle")
        /\ ~At(r, "idle")'
    BY <1>1 DEF Quiet, Alike, EndSent, At
  <1>4. ChunksOK(r)'
    <2>1. g.pc # "read" => g.chunks = 0
      BY DEF Quiet
    <2>2. \A i \in DOMAIN sent[r] : sent[r][i].hop <= g.hop
      <3>1. \A i \in DOMAIN sent[r] : sent[r][i].hop <= h[r].hop
        BY <1>0, <1>3 DEF RequestOK, ChunksOK
      <3>2. \A i \in DOMAIN sent[r] : sent[r][i].hop \in Nat
        BY SentTyped DEF Inv
      <3>3. g.hop \in Nat /\ h[r].hop \in Nat /\ g.hop >= h[r].hop
        BY <1>0 DEF Quiet, Handler
      <3> QED BY <3>1, <3>2, <3>3
    <2>3. Busy(r)' \/ At(r, "slot")' =>
             \A i \in DOMAIN sent[r] :
                IsChunk(sent[r][i]) /\ sent[r][i].hop = g.hop =>
                    g.chunks > 0 /\ sent[r][i].att = g.att
      BY <1>1 DEF Quiet, Busy, At, Alike
    <2> QED BY <1>0, <1>1, <1>3, <2>1, <2>2, <2>3 DEF ChunksOK, Alike, At
  <1>5. SplicedOK(r)'
    BY <1>0 DEF RequestOK, SplicedOK
  <1>n. \A n : Notices(r, n)' = Notices(r, n)
    BY <1>0 DEF Notices
  <1>w. What(r)' = What(r)
    BY <1>1 DEF What, Alike, Quiet
  <1>6. ToolsOK(r)'
    <2>1. Notices(r, Len(sent[r])) \in Nat
      <3>1. IsFiniteSet({i \in 1..Len(sent[r]) : sent[r][i].what = "tool"})
        BY <1>0, FS_Interval, FS_Subset
      <3> QED BY <3>1, FS_CardinalityType DEF Notices
    <2>2. What(r) = "toolStream" => h[r].made = Notices(r, Len(sent[r])) + h[r].calls
      BY <1>0, <1>3 DEF RequestOK, ToolsOK
    <2>3. What(r) = "toolStream" => g.made + h[r].calls = h[r].made + g.calls
      BY DEF Quiet
    <2>4. h[r].calls \in Nat /\ h[r].made \in Nat /\ g.calls \in Nat /\ g.made \in Nat
      BY <1>0, Bounds DEF Quiet, Handler
    <2>5. What(r) = "toolStream" => g.made = Notices(r, Len(sent[r])) + g.calls
      BY <2>1, <2>2, <2>3, <2>4
    <2>6. /\ g.calls > 0 => g.pc \in {"returned", "tools"} /\ g.hop = 1 /\ g.code = "ok"
          /\ g.pc = "tools" => g.calls > 0
      BY DEF Quiet
    <2> QED BY <1>0, <1>1, <1>n, <1>w, <2>5, <2>6 DEF ToolsOK, Alike, At
  <1>7. ResolvedOK(r)'
    <2>1. ASSUME NEW i \in DOMAIN sent[r], sent[r][i].hop = 2 PROVE g.made = h[r].made
      <3>1. sent[r][i].hop <= h[r].hop
        BY <1>0, <1>3 DEF RequestOK, ChunksOK
      <3> QED BY <2>1, <3>1 DEF Quiet
    <2> QED BY <1>0, <1>1, <1>3, <1>n, <1>w, <2>1 DEF RequestOK, ResolvedOK, Alike
  <1>8. EndOK(r)'
    BY <1>0, <1>1, <1>3 DEF RequestOK, EndOK, Alike, Quiet, Sane
  <1>9. TruthOK(r)'
    BY <1>3 DEF TruthOK
  <1>10. HistoryOK'
    <2> SUFFICES ASSUME NEW i \in DOMAIN history
                 PROVE  /\ FiledOK(history[i].req, history[i].status)'
                        /\ \A j \in DOMAIN history \ {i} : history[j].req # history[i].req
      BY DEF HistoryOK, Quiet
    <2>1. history[i].req \in Requests
      BY HistoryTyped DEF Inv
    <2>2. history[i].req # r
      BY <1>3, NotFiled
    <2> QED BY <1>2, <2>1, <2>2, FiledKeeps DEF Inv, HistoryOK, Quiet
  <1>11. ASSUME NEW q \in Requests PROVE RequestOK(q)'
    <2>1. CASE q = r
      BY <1>4, <1>5, <1>6, <1>7, <1>8, <1>9, <2>1 DEF RequestOK
    <2>2. CASE q # r
      BY <1>2, <2>2, OthersKeep DEF Inv
    <2> QED BY <2>1, <2>2
  <1> QED BY <1>10, <1>11 DEF Inv

\* A step that touches no request, but for `cut` and `over`.
LEMMA AllUntouched ==
    ASSUME Inv, Base', SlotsCounted', history' = history, \A q \in Requests : Untouched(q)
    PROVE  Inv'
  <1>1. ASSUME NEW q \in Requests PROVE RequestOK(q)'
    BY OthersKeep DEF Inv
  <1>2. HistoryOK'
    BY HistoryTyped, FiledKeeps DEF Inv, HistoryOK
  <1> QED BY <1>1, <1>2 DEF Inv

\* The slots: none taken or given back, one taken, one given back.
LEMMA SlotsSame ==
    ASSUME Inv, free' = free, \A q \in Requests : Busy(q)' = Busy(q)
    PROVE  SlotsCounted'
  <1>1. Holders' = Holders
    BY DEF Holders
  <1> QED BY <1>1 DEF Inv, SlotsCounted

\* A request that takes a slot is one more that is busy.
LEMMA SlotTaken ==
    ASSUME Inv, NEW r \in Requests, free > 0, free' = free - 1, ~Busy(r), Busy(r)',
           \A q \in Requests : q # r => Busy(q)' = Busy(q)
    PROVE  SlotsCounted'
  <1>1. Holders' = Holders \cup {r} /\ r \notin Holders
    BY DEF Holders
  <1>2. /\ IsFiniteSet(Holders) /\ Cardinality(Holders) \in Nat
        /\ free = MaxParallel - Cardinality(Holders)
    BY FS_CardinalityType DEF Inv, SlotsCounted
  <1>3. IsFiniteSet(Holders') /\ Cardinality(Holders') = Cardinality(Holders) + 1
    BY <1>1, <1>2, FS_AddElement
  <1> QED BY <1>2, <1>3, Bounds DEF SlotsCounted

\* One that gives its slot back is one fewer.
LEMMA SlotReleased ==
    ASSUME Inv, NEW r \in Requests, free' = free + 1, Busy(r), ~Busy(r)',
           \A q \in Requests : q # r => Busy(q)' = Busy(q)
    PROVE  SlotsCounted'
  <1>1. Holders' = Holders \ {r} /\ r \in Holders
    BY DEF Holders
  <1>2. /\ IsFiniteSet(Holders) /\ Cardinality(Holders) \in Nat
        /\ free = MaxParallel - Cardinality(Holders) /\ Cardinality(Holders) <= MaxParallel
    BY FS_CardinalityType DEF Inv, SlotsCounted
  <1>3. /\ IsFiniteSet(Holders') /\ Cardinality(Holders') = Cardinality(Holders) - 1
        /\ Cardinality(Holders') \in Nat
    BY <1>1, <1>2, FS_RemoveElement, FS_CardinalityType
  <1> QED BY <1>2, <1>3, Bounds DEF SlotsCounted

\* The others are as busy as before.
LEMMA OthersBusy ==
    ASSUME NEW r, NEW g, Becomes(r, g)
    PROVE  /\ \A q \in Requests : q # r => Busy(q)' = Busy(q)
           /\ Busy(r)' = (g.pc \in {"select", "connect", "read", "restart", "infer"})
  BY DEF Becomes, Alike, Busy

\* The same from what a step does to r.
LEMMA SlotsKept ==
    ASSUME Inv, NEW r \in Requests, NEW g, Becomes(r, g), free' = free,
           Busy(r) <=> g.pc \in {"select", "connect", "read", "restart", "infer"}
    PROVE  SlotsCounted'
  <1>1. Busy(r)' = Busy(r)
    BY OthersBusy DEF Busy
  <1>2. \A q \in Requests : Busy(q)' = Busy(q)
    BY <1>1, OthersBusy
  <1> QED BY <1>2, SlotsSame

\* The types after a step that writes and records nothing.
LEMMA BaseQuiet ==
    ASSUME Base, NEW r, NEW g, Becomes(r, g), UNCHANGED <<sent, history, crashes>>,
           over' \in [Requests -> BOOLEAN], up' \in BOOLEAN
    PROVE  Base'
  BY DEF Base, Becomes

\* A handler's place is set.
LEMMA PcSet ==
    ASSUME NEW f \in Handler, NEW p \in PCs
    PROVE  LET g == [f EXCEPT !.pc = p]
           IN  /\ g \in Handler /\ g.pc = p
               /\ g.kind = f.kind /\ g.hop = f.hop /\ g.att = f.att /\ g.chunks = f.chunks
               /\ g.contentEmitted = f.contentEmitted /\ g.reasoningEmitted = f.reasoningEmitted
               /\ g.calls = f.calls /\ g.made = f.made /\ g.code = f.code
               /\ g.lengthLimited = f.lengthLimited
  BY DEF Handler

\* The places of a handler.
LEMMA Places ==
    /\ "idle" \in PCs /\ "slot" \in PCs /\ "select" \in PCs /\ "connect" \in PCs
    /\ "read" \in PCs /\ "restart" \in PCs /\ "infer" \in PCs /\ "returned" \in PCs
    /\ "tools" \in PCs /\ "settle" \in PCs /\ "end" \in PCs
  BY DEF PCs

\* Goto sets only the place.
LEMMA GotoBecomes ==
    ASSUME Base, NEW r \in Requests, NEW p \in PCs, Goto(r, p)
    PROVE  Becomes(r, [h[r] EXCEPT !.pc = p])
  <1>1. h[r] \in Handler /\ [h[r] EXCEPT !.pc = p] \in Handler
    BY PcSet DEF Base
  <1>2. h' = [h EXCEPT ![r] = [h[r] EXCEPT !.pc = p]]
    BY DEF Goto
  <1> QED BY <1>1, <1>2, HandlerSet

\* A handler in the middle of a call moves on within it, with the lock it has.
LEMMA GoesOn ==
    ASSUME Inv, NEW r \in Requests, NEW p \in PCs, Becomes(r, [h[r] EXCEPT !.pc = p]),
           \/ h[r].pc = "slot" /\ p \in {"select", "infer"}
           \/ h[r].pc = "idle" /\ p = "slot"
           \/ h[r].pc = "select" /\ p = "connect"
           \/ h[r].pc = "connect" /\ p = "restart"
           \/ h[r].pc = "returned" /\ p = "tools" /\ h[r].calls > 0,
           UNCHANGED <<sent, history, crashes, over>>, up' \in BOOLEAN, SlotsCounted'
    PROVE  Inv'
  <1> DEFINE g == [h[r] EXCEPT !.pc = p]
  <1>1. Base /\ RequestOK(r) /\ h[r] \in Handler
    BY DEF Inv, Base
  <1>2. /\ g \in Handler /\ g.pc = p
        /\ g.kind = h[r].kind /\ g.hop = h[r].hop /\ g.att = h[r].att /\ g.chunks = h[r].chunks
        /\ g.contentEmitted = h[r].contentEmitted
        /\ g.calls = h[r].calls /\ g.made = h[r].made /\ g.code = h[r].code
    BY <1>1, PcSet
  <1>3. Becomes(r, g)
    OBVIOUS
  <1> HIDE DEF g
  <1>4. Base'
    BY <1>1, <1>3, BaseQuiet DEF Base
  <1>5. h[r].hop \in Nat /\ h[r].calls \in Nat /\ h[r].made \in Nat
    BY <1>1, Bounds DEF Handler
  <1>6. g.pc # "read" => g.chunks = 0
    BY <1>1, <1>2 DEF RequestOK, ChunksOK, At
  <1>7. g.pc \in {"slot", "select", "connect", "read", "restart", "infer"} =>
          \A i \in DOMAIN sent[r] :
              IsChunk(sent[r][i]) /\ sent[r][i].hop = g.hop =>
                  g.chunks > 0 /\ sent[r][i].att = g.att
    <2>1. CASE h[r].pc = "idle"
      BY <1>1, <2>1 DEF RequestOK, EndOK, At
    <2>2. CASE h[r].pc # "idle"
      BY <1>1, <1>2, <2>2 DEF RequestOK, ChunksOK, Busy, At
    <2> QED BY <2>1, <2>2
  <1>8. /\ g.calls > 0 => g.pc \in {"returned", "tools"} /\ g.hop = 1 /\ g.code = "ok"
        /\ g.pc = "tools" => g.calls > 0
    BY <1>1, <1>2 DEF RequestOK, ToolsOK
  <1>9. g.code \in Sane
    BY <1>1, <1>2 DEF RequestOK, EndOK, Sane
  <1>10. h[r].pc \notin {"settle", "end"} /\ g.pc \notin {"idle", "settle", "end"}
    BY <1>2
  <1>11. Quiet(r, g)
    BY <1>2, <1>3, <1>5, <1>6, <1>7, <1>8, <1>9, <1>10 DEF Quiet
  <1> QED BY <1>4, <1>11, QuietKeeps

\* What Returned makes of a handler.
LEMMA ReturnedFields ==
    ASSUME Base, NEW r \in Requests, NEW c \in Codes
    PROVE  LET f == h[r]
               g == Returned(r, c)
           IN  /\ g \in Handler /\ g.pc = "returned" /\ g.code = c /\ g.chunks = 0
               /\ g.kind = f.kind /\ g.hop = f.hop
               /\ g.contentEmitted = f.contentEmitted /\ g.reasoningEmitted = f.reasoningEmitted
               /\ g.calls = f.calls /\ g.made = f.made /\ g.lengthLimited = f.lengthLimited
  <1> DEFINE f == h[r]
             f1 == [f EXCEPT !.pc = "returned", !.code = c]
             f0 == [f1 EXCEPT !.att = 1]
             f2 == [f0 EXCEPT !.cut = FALSE]
             g == [f2 EXCEPT !.chunks = 0]
  <1>1. f \in Handler
    BY DEF Base
  <1> HIDE DEF f
  <1>2. /\ f1 \in Handler /\ f1.pc = "returned" /\ f1.code = c
        /\ f1.kind = f.kind /\ f1.hop = f.hop
        /\ f1.contentEmitted = f.contentEmitted /\ f1.reasoningEmitted = f.reasoningEmitted
        /\ f1.calls = f.calls /\ f1.made = f.made /\ f1.lengthLimited = f.lengthLimited
    BY <1>1, Places DEF Handler
  <1> HIDE DEF f1
  <1>0. /\ f0 \in Handler /\ f0.pc = f1.pc /\ f0.code = f1.code
        /\ f0.kind = f1.kind /\ f0.hop = f1.hop
        /\ f0.contentEmitted = f1.contentEmitted /\ f0.reasoningEmitted = f1.reasoningEmitted
        /\ f0.calls = f1.calls /\ f0.made = f1.made /\ f0.lengthLimited = f1.lengthLimited
    BY <1>2 DEF Handler
  <1> HIDE DEF f0
  <1>3. /\ f2 \in Handler /\ f2.pc = f0.pc /\ f2.code = f0.code
        /\ f2.kind = f0.kind /\ f2.hop = f0.hop
        /\ f2.contentEmitted = f0.contentEmitted /\ f2.reasoningEmitted = f0.reasoningEmitted
        /\ f2.calls = f0.calls /\ f2.made = f0.made /\ f2.lengthLimited = f0.lengthLimited
    BY <1>0 DEF Handler
  <1> HIDE DEF f2
  <1>4. 0 \in 0..MaxChunks
    BY Bounds
  <1>5. /\ g \in Handler /\ g.pc = f2.pc /\ g.code = f2.code /\ g.chunks = 0
        /\ g.kind = f2.kind /\ g.hop = f2.hop
        /\ g.contentEmitted = f2.contentEmitted /\ g.reasoningEmitted = f2.reasoningEmitted
        /\ g.calls = f2.calls /\ g.made = f2.made /\ g.lengthLimited = f2.lengthLimited
    BY <1>3, <1>4 DEF Handler
  <1> HIDE DEF g
  <1>6. Returned(r, c) = g
    BY <1>1 DEF Returned, g, f2, f0, f1, f
  <1> QED BY <1>0, <1>2, <1>3, <1>5, <1>6 DEF f

\* A call of the backend comes back with an error; with Cut, llama-server is gone too.
LEMMA ReturnKeeps ==
    ASSUME Inv, NEW r \in Requests, NEW c \in {"timeout", "unavailable", "rejected", "internal_error"},
           Busy(r),
           \/ h' = [h EXCEPT ![r] = Returned(r, c)]
           \/ h' = Cut([h EXCEPT ![r] = Returned(r, c)]),
           free' = free + 1, UNCHANGED <<sent, history, crashes, over>>, up' \in BOOLEAN
    PROVE  Inv'
  <1> DEFINE g == Returned(r, c)
  <1>1. Base /\ RequestOK(r) /\ h[r] \in Handler /\ c \in Codes
    BY DEF Inv, Base, Codes
  <1>2. /\ g \in Handler /\ g.pc = "returned" /\ g.code = c /\ g.chunks = 0
        /\ g.kind = h[r].kind /\ g.hop = h[r].hop /\ g.contentEmitted = h[r].contentEmitted
        /\ g.calls = h[r].calls /\ g.made = h[r].made
    BY <1>1, ReturnedFields
  <1>3. Becomes(r, g)
    BY <1>1, <1>2, HandlerSet
  <1> HIDE DEF g
  <1>4. Base'
    BY <1>1, <1>3, BaseQuiet DEF Base
  <1>5. SlotsCounted'
    BY <1>2, <1>3, OthersBusy, SlotReleased
  <1>6. h[r].calls = 0 /\ h[r].hop \in Nat
    <2>1. h[r].calls \in Nat /\ h[r].hop \in Nat
      BY <1>1, Bounds DEF Handler
    <2>2. ~(h[r].calls > 0)
      BY <1>1 DEF RequestOK, ToolsOK, Busy
    <2> QED BY <2>1, <2>2
  <1>7. h[r].pc \notin {"settle", "end"} /\ g.pc \notin {"idle", "settle", "end"}
    BY <1>2 DEF Busy
  <1>8. g.code \in Sane
    BY <1>2 DEF Sane
  <1>9. Quiet(r, g)
    BY <1>2, <1>3, <1>6, <1>7, <1>8 DEF Quiet
  <1> QED BY <1>4, <1>5, <1>9, QuietKeeps

\* A call comes back with an answer.  Only a first call that offers tools has tool calls.
LEMMA AnswerKeeps ==
    ASSUME Inv, NEW r \in Requests, NEW n \in CallsMade(r), ReturnAnswer(r, n), Busy(r),
           UNCHANGED <<sent, history, crashes, over, up>>
    PROVE  Inv'
  <1>1. Base /\ RequestOK(r) /\ h[r] \in Handler /\ "ok" \in Codes
    BY DEF Inv, Base, Codes
  <1>2. PICK limited \in BOOLEAN :
          h' = [h EXCEPT ![r] = [Returned(r, "ok") EXCEPT !.calls = n, !.made = @ + n,
                                                          !.lengthLimited = limited]]
    BY DEF ReturnAnswer
  <1> DEFINE f == Returned(r, "ok")
             g == [f EXCEPT !.calls = n, !.made = @ + n, !.lengthLimited = limited]
  <1>3. /\ f \in Handler /\ f.pc = "returned" /\ f.code = "ok" /\ f.chunks = 0
        /\ f.kind = h[r].kind /\ f.hop = h[r].hop /\ f.contentEmitted = h[r].contentEmitted
        /\ f.calls = h[r].calls /\ f.made = h[r].made
    BY <1>1, ReturnedFields
  <1>4. /\ n \in 0..MaxToolCalls /\ n \in Nat
        /\ n > 0 => h[r].hop = 1
    BY Bounds DEF CallsMade, OffersTools
  <1> HIDE DEF f
  <1>5. f.made \in Nat
    BY <1>3 DEF Handler
  <1>6. f.made + n \in Nat
    BY <1>4, <1>5
  <1>7. /\ g \in Handler /\ g.pc = "returned" /\ g.code = "ok" /\ g.chunks = 0
        /\ g.kind = f.kind /\ g.hop = f.hop /\ g.contentEmitted = f.contentEmitted
        /\ g.calls = n /\ g.made = f.made + n
    <2> DEFINE f1 == [f EXCEPT !.calls = n]
               f2 == [f1 EXCEPT !.made = f.made + n]
               f3 == [f2 EXCEPT !.lengthLimited = limited]
    <2>1. /\ f1 \in Handler /\ f1.pc = f.pc /\ f1.code = f.code /\ f1.chunks = f.chunks
          /\ f1.kind = f.kind /\ f1.hop = f.hop /\ f1.contentEmitted = f.contentEmitted
          /\ f1.calls = n
      BY <1>3, <1>4 DEF Handler
    <2> HIDE DEF f1
    <2>2. /\ f2 \in Handler /\ f2.pc = f1.pc /\ f2.code = f1.code /\ f2.chunks = f1.chunks
          /\ f2.kind = f1.kind /\ f2.hop = f1.hop /\ f2.contentEmitted = f1.contentEmitted
          /\ f2.calls = f1.calls /\ f2.made = f.made + n
      BY <1>6, <2>1 DEF Handler
    <2> HIDE DEF f2
    <2>3. /\ f3 \in Handler /\ f3.pc = f2.pc /\ f3.code = f2.code /\ f3.chunks = f2.chunks
          /\ f3.kind = f2.kind /\ f3.hop = f2.hop /\ f3.contentEmitted = f2.contentEmitted
          /\ f3.calls = f2.calls /\ f3.made = f2.made
      BY <2>2 DEF Handler
    <2> HIDE DEF f3
    <2>4. g = f3
      BY <1>3 DEF f3, f2, f1, Handler
    <2> QED BY <1>3, <2>1, <2>2, <2>3, <2>4
  <1>8. h' = [h EXCEPT ![r] = g]
    BY <1>2 DEF f
  <1> HIDE DEF g
  <1>9. Becomes(r, g)
    BY <1>1, <1>7, <1>8, HandlerSet
  <1>10. Base'
    BY <1>1, <1>9, BaseQuiet DEF Base
  <1>11. SlotsCounted'
    BY <1>7, <1>9, OthersBusy, SlotReleased DEF ReturnAnswer
  <1>12. h[r].calls = 0 /\ h[r].hop \in 1..2 /\ h[r].made \in Nat
    <2>1. h[r].calls \in Nat /\ h[r].hop \in 1..2 /\ h[r].made \in Nat
      BY <1>1, Bounds DEF Handler
    <2>2. ~(h[r].calls > 0)
      BY <1>1 DEF RequestOK, ToolsOK, Busy
    <2> QED BY <2>1, <2>2
  <1>13. h[r].pc \notin {"settle", "end"} /\ g.pc \notin {"idle", "settle", "end"}
    BY <1>7 DEF Busy
  <1>14. g.code \in Sane
    BY <1>7 DEF Sane
  <1>15. /\ g.calls > 0 => g.hop = 1
         /\ g.made + h[r].calls = h[r].made + g.calls
         /\ g.made = h[r].made \/ h[r].hop = 1
    BY <1>3, <1>4, <1>7, <1>12
  <1>16. Quiet(r, g)
    BY <1>3, <1>7, <1>9, <1>12, <1>13, <1>14, <1>15 DEF Quiet
  <1> QED BY <1>10, <1>11, <1>16, QuietKeeps
-----------------------------------------------------------------------------
(***************************************************************************)
(* The calls of the backend                                                *)
(***************************************************************************)

\* The invariant through the steps of a request: it arrives ...
LEMMA ArriveStep == ASSUME Inv, NEW r \in Requests, Arrive(r) PROVE Inv'
  <1>1. Base /\ up' \in BOOLEAN
    BY DEF Inv, Base, Arrive
  <1>2. Becomes(r, [h[r] EXCEPT !.pc = "slot"]) /\ h[r] \in Handler
    BY <1>1, Places, GotoBecomes DEF Arrive, Base
  <1>3. [h[r] EXCEPT !.pc = "slot"].pc = "slot"
    BY <1>2, PcSet, Places
  <1>f. free' = free /\ ~Busy(r)
    BY DEF Arrive, At, Busy
  <1>4. SlotsCounted'
    BY <1>2, <1>3, <1>f, SlotsKept
  <1> QED BY <1>1, <1>2, <1>4, Places, GoesOn DEF Arrive, At

\* ... takes a slot ...
LEMMA TakeSlotStep == ASSUME Inv, NEW r \in Requests, TakeSlot(r) PROVE Inv'
  <1> DEFINE p == IF Streamed(r) THEN "select" ELSE "infer"
  <1>1. Base /\ up' \in BOOLEAN /\ p \in PCs /\ p \in {"select", "infer"}
    BY Places DEF Inv, Base, TakeSlot
  <1>2. Goto(r, p)
    BY DEF TakeSlot
  <1> HIDE DEF p
  <1>3. Becomes(r, [h[r] EXCEPT !.pc = p]) /\ h[r] \in Handler
    BY <1>1, <1>2, GotoBecomes DEF Base
  <1>4. [h[r] EXCEPT !.pc = p].pc = p
    BY <1>1, <1>3, PcSet
  <1>6. ~Busy(r) /\ Busy(r)' /\ \A q \in Requests : q # r => Busy(q)' = Busy(q)
    <2>1. Busy(r)' /\ \A q \in Requests : q # r => Busy(q)' = Busy(q)
      BY <1>1, <1>3, <1>4, OthersBusy
    <2> QED BY <2>1 DEF TakeSlot, At, Busy
  <1>5. SlotsCounted'
    BY <1>6, SlotTaken DEF TakeSlot
  <1>7. h[r].pc = "slot" /\ UNCHANGED <<sent, history, crashes, over>>
    BY DEF TakeSlot, At
  <1> QED BY <1>1, <1>3, <1>5, <1>7, GoesOn

\* ... or gives up waiting for one ...
LEMMA SlotTimeoutStep == ASSUME Inv, NEW r \in Requests, SlotTimeout(r) PROVE Inv'
  <1> DEFINE g == [h[r] EXCEPT !.pc = "returned", !.code = "timeout"]
  <1>1. Base /\ RequestOK(r) /\ h[r] \in Handler /\ "timeout" \in Codes /\ h[r].pc = "slot"
    BY DEF Inv, Base, Codes, SlotTimeout, At
  <1>2. /\ g \in Handler /\ g.pc = "returned" /\ g.code = "timeout" /\ g.chunks = h[r].chunks
        /\ g.kind = h[r].kind /\ g.hop = h[r].hop /\ g.contentEmitted = h[r].contentEmitted
        /\ g.calls = h[r].calls /\ g.made = h[r].made
    BY <1>1, Places DEF Handler
  <1>3. h' = [h EXCEPT ![r] = g]
    BY DEF SlotTimeout
  <1> HIDE DEF g
  <1>4. Becomes(r, g)
    BY <1>1, <1>2, <1>3, HandlerSet
  <1>5. Base'
    BY <1>1, <1>4, BaseQuiet DEF Base, SlotTimeout
  <1>f. free' = free /\ ~Busy(r)
    BY <1>1 DEF SlotTimeout, Busy
  <1>6. SlotsCounted'
    BY <1>2, <1>4, <1>f, SlotsKept
  <1>7. h[r].calls = 0 /\ h[r].hop \in Nat /\ h[r].made \in Nat /\ h[r].chunks = 0
    <2>1. h[r].calls \in Nat /\ h[r].hop \in Nat /\ h[r].made \in Nat
      BY <1>1, Bounds DEF Handler
    <2>2. ~(h[r].calls > 0) /\ h[r].chunks = 0
      BY <1>1 DEF RequestOK, ToolsOK, ChunksOK, At
    <2> QED BY <2>1, <2>2
  <1>8. h[r].pc \notin {"settle", "end"} /\ g.pc \notin {"idle", "settle", "end"} /\ g.code \in Sane
    BY <1>1, <1>2 DEF Sane
  <1>9. UNCHANGED <<sent, history>>
    BY DEF SlotTimeout
  <1>10. Quiet(r, g)
    BY <1>2, <1>4, <1>7, <1>8, <1>9 DEF Quiet
  <1> QED BY <1>5, <1>6, <1>10, QuietKeeps

\* selectInner: the shared llama-server may be replaced, and the streams read from it cut.
LEMMA SelectStep == ASSUME Inv, NEW r \in Requests, Select(r) PROVE Inv'
  <1>1. Base /\ h[r] \in Handler /\ h[r].pc = "select" /\ Busy(r)
    BY DEF Inv, Base, Select, At, Busy
  <1>2. CASE /\ \/ h' = [h EXCEPT ![r].pc = "connect"]
                \/ h' = Cut([h EXCEPT ![r].pc = "connect"])
             /\ up' = TRUE /\ UNCHANGED free
    <2> DEFINE g == [h[r] EXCEPT !.pc = "connect"]
    <2>1. g \in Handler /\ g.pc = "connect"
      BY <1>1, PcSet, Places
    <2>2. h' = [h EXCEPT ![r] = g] \/ h' = Cut([h EXCEPT ![r] = g])
      BY <1>2
    <2>3. Becomes(r, g)
      BY <1>1, <2>1, <2>2, HandlerSet
    <2>4. SlotsCounted'
      BY <1>1, <1>2, <2>1, <2>3, SlotsKept
    <2>5. UNCHANGED <<sent, history, crashes, over>> /\ up' \in BOOLEAN
      BY <1>2 DEF Select
    <2> QED BY <1>1, <2>3, <2>4, <2>5, Places, GoesOn
  <1>3. ASSUME NEW c \in {"rejected", "unavailable", "timeout"}, Return(r, c), UNCHANGED up
        PROVE  Inv'
    <2>1. UNCHANGED <<sent, history, crashes, over>> /\ up' \in BOOLEAN
      BY <1>1, <1>3 DEF Select, Base
    <2> QED BY <1>1, <1>3, <2>1, ReturnKeeps DEF Return
  <1> QED BY <1>2, <1>3 DEF Select

\* restartSubprocess: nothing was passed on, so the next attempt starts the answer.
LEMMA RestartStep == ASSUME Inv, NEW r \in Requests, Restart(r) PROVE Inv'
  <1>1. Base /\ RequestOK(r) /\ h[r] \in Handler /\ h[r].pc = "restart" /\ Busy(r)
    BY DEF Inv, Base, Restart, At, Busy
  <1>2. CASE up' = TRUE /\ h' = Cut([h EXCEPT ![r].pc = "connect", ![r].att = 2]) /\ UNCHANGED free
    <2> DEFINE f == [h[r] EXCEPT !.pc = "connect"]
               g == [f EXCEPT !.att = 2]
    <2>1. /\ f \in Handler /\ f.pc = "connect" /\ f.code = h[r].code /\ f.chunks = h[r].chunks
          /\ f.kind = h[r].kind /\ f.hop = h[r].hop /\ f.contentEmitted = h[r].contentEmitted
          /\ f.calls = h[r].calls /\ f.made = h[r].made
      BY <1>1, PcSet, Places
    <2> HIDE DEF f
    <2>2. /\ g \in Handler /\ g.pc = f.pc /\ g.code = f.code /\ g.chunks = f.chunks
          /\ g.kind = f.kind /\ g.hop = f.hop /\ g.contentEmitted = f.contentEmitted
          /\ g.calls = f.calls /\ g.made = f.made
      BY <2>1 DEF Handler
    <2> HIDE DEF g
    <2>3. h' = Cut([h EXCEPT ![r] = g])
      BY <1>2 DEF g, f
    <2>4. Becomes(r, g)
      BY <1>1, <2>2, <2>3, HandlerSet
    <2>5. UNCHANGED <<sent, history, crashes, over>> /\ up' \in BOOLEAN
      BY <1>2 DEF Restart
    <2>6. Base'
      BY <1>1, <2>4, <2>5, BaseQuiet DEF Base
    <2>7. SlotsCounted'
      BY <1>1, <1>2, <2>1, <2>2, <2>4, SlotsKept
    <2>8. h[r].calls = 0 /\ h[r].hop \in Nat /\ h[r].made \in Nat /\ h[r].chunks = 0
      <3>1. h[r].calls \in Nat /\ h[r].hop \in Nat /\ h[r].made \in Nat
        BY <1>1, Bounds DEF Handler
      <3>2. ~(h[r].calls > 0) /\ h[r].chunks = 0
        BY <1>1 DEF RequestOK, ToolsOK, ChunksOK, At
      <3> QED BY <3>1, <3>2
    <2>9. \A i \in DOMAIN sent[r] : ~(IsChunk(sent[r][i]) /\ sent[r][i].hop = h[r].hop)
      BY <1>1, <2>8 DEF RequestOK, ChunksOK
    <2>10. /\ h[r].pc \notin {"settle", "end"} /\ g.pc \notin {"idle", "settle", "end"}
           /\ g.code \in Sane
      BY <1>1, <2>1, <2>2 DEF Sane, RequestOK, EndOK
    <2>11. Quiet(r, g)
      BY <2>1, <2>2, <2>4, <2>5, <2>8, <2>9, <2>10 DEF Quiet
    <2> QED BY <2>6, <2>7, <2>11, QuietKeeps
  <1>3. CASE /\ up' = FALSE /\ h' = Cut([h EXCEPT ![r] = Returned(r, "unavailable")])
             /\ free' = free + 1
    BY <1>1, <1>3, ReturnKeeps DEF Restart
  <1> QED BY <1>2, <1>3 DEF Restart

\* runCompleteStream's error: the retry is possible only before the first chunk.
LEMMA AttemptFailsKeeps ==
    ASSUME Inv, NEW r \in Requests, NEW c \in {"timeout", "unavailable", "internal_error"},
           h[r].pc = "connect" \/ (h[r].pc = "read" /\ c # "unavailable"),
           AttemptFails(r, c), UNCHANGED <<sent, history, crashes, over, up>>
    PROVE  Inv'
  <1>1. Base /\ h[r] \in Handler /\ Busy(r) /\ up' \in BOOLEAN
    BY DEF Inv, Base, Busy
  <1>2. CASE MayRetry(r, c)
    <2>1. h[r].pc = "connect" /\ Goto(r, "restart") /\ free' = free
      BY <1>2 DEF MayRetry, AttemptFails
    <2>2. Becomes(r, [h[r] EXCEPT !.pc = "restart"])
      BY <1>1, <2>1, Places, GotoBecomes
    <2>3. [h[r] EXCEPT !.pc = "restart"].pc = "restart"
      BY <1>1, PcSet, Places
    <2>4. SlotsCounted'
      BY <1>1, <2>1, <2>2, <2>3, SlotsKept
    <2> QED BY <1>1, <2>1, <2>2, <2>4, Places, GoesOn
  <1>3. CASE ~MayRetry(r, c)
    BY <1>1, <1>3, ReturnKeeps DEF AttemptFails, Return
  <1> QED BY <1>2, <1>3

\* The POST: an attempt starts with no chunk.
LEMMA ConnectStep == ASSUME Inv, NEW r \in Requests, Connect(r) PROVE Inv'
  <1>1. Base /\ RequestOK(r) /\ h[r] \in Handler /\ h[r].pc = "connect" /\ Busy(r) /\ up' \in BOOLEAN
    BY DEF Inv, Base, Connect, At, Busy
  <1>u. UNCHANGED <<sent, history, crashes, over, up>>
    BY DEF Connect
  <1>2. CASE h' = [h EXCEPT ![r].pc = "read", ![r].cut = FALSE, ![r].chunks = 0] /\ UNCHANGED free
    <2> DEFINE f == [h[r] EXCEPT !.pc = "read"]
               f1 == [f EXCEPT !.cut = FALSE]
               g == [f1 EXCEPT !.chunks = 0]
    <2>1. /\ f \in Handler /\ f.pc = "read" /\ f.code = h[r].code /\ f.att = h[r].att
          /\ f.kind = h[r].kind /\ f.hop = h[r].hop /\ f.contentEmitted = h[r].contentEmitted
          /\ f.calls = h[r].calls /\ f.made = h[r].made
      BY <1>1, PcSet, Places
    <2> HIDE DEF f
    <2>2. /\ f1 \in Handler /\ f1.pc = f.pc /\ f1.code = f.code /\ f1.att = f.att
          /\ f1.kind = f.kind /\ f1.hop = f.hop /\ f1.contentEmitted = f.contentEmitted
          /\ f1.calls = f.calls /\ f1.made = f.made
      BY <2>1 DEF Handler
    <2> HIDE DEF f1
    <2>0. 0 \in 0..MaxChunks
      BY Bounds
    <2>3. /\ g \in Handler /\ g.pc = f1.pc /\ g.code = f1.code /\ g.att = f1.att /\ g.chunks = 0
          /\ g.kind = f1.kind /\ g.hop = f1.hop /\ g.contentEmitted = f1.contentEmitted
          /\ g.calls = f1.calls /\ g.made = f1.made
      BY <2>0, <2>2 DEF Handler
    <2> HIDE DEF g
    <2>4. h' = [h EXCEPT ![r] = g]
      BY <1>2 DEF g, f1, f
    <2>5. Becomes(r, g)
      BY <1>1, <2>3, <2>4, HandlerSet
    <2>6. Base'
      BY <1>1, <1>u, <2>5, BaseQuiet DEF Base
    <2>7. SlotsCounted'
      BY <1>1, <1>2, <2>1, <2>2, <2>3, <2>5, SlotsKept
    <2>8. h[r].calls = 0 /\ h[r].hop \in Nat /\ h[r].made \in Nat /\ h[r].chunks = 0
      <3>1. h[r].calls \in Nat /\ h[r].hop \in Nat /\ h[r].made \in Nat
        BY <1>1, Bounds DEF Handler
      <3>2. ~(h[r].calls > 0) /\ h[r].chunks = 0
        BY <1>1 DEF RequestOK, ToolsOK, ChunksOK, At
      <3> QED BY <3>1, <3>2
    <2>9. \A i \in DOMAIN sent[r] : ~(IsChunk(sent[r][i]) /\ sent[r][i].hop = h[r].hop)
      BY <1>1, <2>8 DEF RequestOK, ChunksOK
    <2>10. /\ h[r].pc \notin {"settle", "end"} /\ g.pc \notin {"idle", "settle", "end"}
           /\ g.code \in Sane
      BY <1>1, <2>1, <2>2, <2>3 DEF Sane, RequestOK, EndOK
    <2>11. Quiet(r, g)
      BY <1>u, <2>1, <2>2, <2>3, <2>5, <2>8, <2>9, <2>10 DEF Quiet
    <2> QED BY <2>6, <2>7, <2>11, QuietKeeps
  <1>3. CASE Return(r, "rejected")
    BY <1>1, <1>u, <1>3, ReturnKeeps DEF Return
  <1>4. CASE AttemptFails(r, "unavailable") \/ AttemptFails(r, "timeout")
    BY <1>1, <1>u, <1>4, AttemptFailsKeeps
  <1> QED BY <1>2, <1>3, <1>4 DEF Connect

\* ... its stream ends ...
LEMMA StreamEndsStep == ASSUME Inv, NEW r \in Requests, StreamEnds(r) PROVE Inv'
  <1>1. Busy(r) /\ UNCHANGED <<sent, history, crashes, over, up>>
    BY DEF StreamEnds, Reading, At, Busy
  <1> QED BY <1>1, AnswerKeeps DEF StreamEnds

\* ... or breaks, to be tried again or not ...
LEMMA StreamBreaksStep == ASSUME Inv, NEW r \in Requests, StreamBreaks(r) PROVE Inv'
  <1>1. h[r].pc = "read" /\ UNCHANGED <<sent, history, crashes, over, up>>
    BY DEF StreamBreaks, At
  <1> QED BY <1>1, AttemptFailsKeeps DEF StreamBreaks

LEMMA LineTooLongStep == ASSUME Inv, NEW r \in Requests, LineTooLong(r) PROVE Inv'
  <1>1. h[r].pc = "read" /\ UNCHANGED <<sent, history, crashes, over, up>>
    BY DEF LineTooLong, Reading, At
  <1> QED BY <1>1, AttemptFailsKeeps DEF LineTooLong

\* ... a blocking call returns ...
LEMMA InferReturnsStep == ASSUME Inv, NEW r \in Requests, InferReturns(r) PROVE Inv'
  <1>1. Busy(r) /\ UNCHANGED <<sent, history, crashes, over, up>> /\ up' \in BOOLEAN
    BY DEF InferReturns, At, Busy, Inv, Base
  <1>2. ASSUME NEW n \in CallsMade(r), ReturnAnswer(r, n) PROVE Inv'
    BY <1>1, <1>2, AnswerKeeps
  <1>3. ASSUME NEW c \in {"rejected", "unavailable", "internal_error", "timeout"}, Return(r, c)
        PROVE  Inv'
    BY <1>1, <1>3, ReturnKeeps DEF Return
  <1> QED BY <1>2, <1>3 DEF InferReturns

\* ... and its tools are run.
LEMMA RunToolsStep == ASSUME Inv, NEW r \in Requests, RunTools(r) PROVE Inv'
  <1>1. Base /\ up' \in BOOLEAN /\ h[r].pc = "returned" /\ h[r].calls > 0
    BY DEF Inv, Base, RunTools, At
  <1>2. Becomes(r, [h[r] EXCEPT !.pc = "tools"]) /\ h[r] \in Handler
    BY <1>1, Places, GotoBecomes DEF RunTools, Base
  <1>3. [h[r] EXCEPT !.pc = "tools"].pc = "tools"
    BY <1>2, PcSet, Places
  <1>f. free' = free /\ ~Busy(r)
    BY <1>1 DEF RunTools, Busy
  <1>4. SlotsCounted'
    BY <1>2, <1>3, <1>f, SlotsKept
  <1> QED BY <1>1, <1>2, <1>4, Places, GoesOn DEF RunTools

\* The client hangs up, or llama-server crashes.
LEMMA OutsideSteps ==
    ASSUME Inv, (\E r \in Requests : ContextDone(r)) \/ Crash
    PROVE  Inv'
  <1>1. Base /\ h \in [Requests -> Handler]
    BY DEF Inv, Base
  <1>2. h' \in [Requests -> Handler] /\ \A q \in Requests : Untouched(q)
    <2>1. CASE h' = h /\ sent' = sent
      BY <1>1, <2>1 DEF Untouched, Alike
    <2>2. CASE h' = Cut(h) /\ sent' = sent
      <3>1. \A f \in Handler : /\ [f EXCEPT !.cut = TRUE] \in Handler
                               /\ Alike([f EXCEPT !.cut = TRUE], f) /\ Alike(f, f)
        BY DEF Handler, Alike
      <3>2. ASSUME NEW q \in Requests PROVE h'[q] \in Handler /\ Alike(h'[q], h[q])
        BY <1>1, <2>2, <3>1 DEF Cut
      <3>3. h' = [q \in Requests |-> h'[q]]
        BY <2>2 DEF Cut
      <3>4. h' \in [Requests -> Handler]
        BY <3>2, <3>3
      <3> QED BY <2>2, <3>2, <3>4 DEF Untouched
    <2> QED BY <2>1, <2>2 DEF ContextDone, Crash
  <1>3. Base'
    <2>1. over' \in [Requests -> BOOLEAN] /\ UNCHANGED <<sent, history>>
      BY <1>1 DEF ContextDone, Crash, Base
    <2>2. up' \in BOOLEAN /\ crashes' \in 0..MaxCrashes
      <3>1. up \in BOOLEAN /\ crashes \in 0..MaxCrashes
        BY <1>1 DEF Base
      <3>2. \/ up' = up /\ crashes' = crashes
            \/ up' = FALSE /\ crashes' = crashes + 1 /\ crashes < MaxCrashes
        BY DEF ContextDone, Crash
      <3>3. crashes' \in 0..MaxCrashes
        BY <3>1, <3>2, Bounds
      <3>4. up' \in BOOLEAN
        BY <3>1, <3>2
      <3> QED BY <3>3, <3>4
    <2> QED BY <1>1, <1>2, <2>1, <2>2 DEF Base
  <1>4. SlotsCounted'
    BY <1>2, SameTerms, SlotsSame DEF ContextDone, Crash
  <1> QED BY <1>2, <1>3, <1>4, AllUntouched DEF ContextDone, Crash
-----------------------------------------------------------------------------
(***************************************************************************)
(* Steps that write to the client                                          *)
(***************************************************************************)

\* What has been written stays, and the event is added at the end.
LEMMA Writes ==
    ASSUME Base, NEW r \in Requests, NEW w \in {"delta", "reasoning", "tool"} \cup Codes, Write(r, w)
    PROVE  LET n == Len(sent[r])
           IN  /\ sent' \in [Requests -> Seq(Events)]
               /\ \A q \in Requests : q # r => sent'[q] = sent[q]
               /\ n \in Nat /\ Len(sent'[r]) = n + 1
               /\ DOMAIN sent[r] = 1..n /\ DOMAIN sent'[r] = 1..(n + 1)
               /\ \A i \in 1..n : sent'[r][i] = sent[r][i]
               /\ sent'[r][n + 1].what = w
               /\ sent'[r][n + 1].hop = h[r].hop
               /\ sent'[r][n + 1].att = h[r].att
  <1> DEFINE e == Event(w, r)
             n == Len(sent[r])
  <1>1. h[r].hop \in 1..2 /\ h[r].att \in 1..2
    BY DEF Base, Handler
  <1>2. e \in Events /\ e.what = w /\ e.hop = h[r].hop /\ e.att = h[r].att
    BY <1>1 DEF Event, Events
  <1> HIDE DEF e
  <1>3. sent[r] \in Seq(Events) /\ n \in Nat
    BY SentTyped
  <1>4. sent' = [sent EXCEPT ![r] = Append(sent[r], e)]
    BY DEF Write, e
  <1>5. /\ sent'[r] = Append(sent[r], e) /\ \A q \in Requests : q # r => sent'[q] = sent[q]
    BY <1>4 DEF Base
  <1>6. Append(sent[r], e) \in Seq(Events)
    BY <1>2, <1>3
  <1>7. sent' \in [Requests -> Seq(Events)]
    BY <1>4, <1>6 DEF Base
  <1>8. /\ Len(sent'[r]) = n + 1 /\ sent'[r][n + 1] = e
        /\ \A i \in 1..n : sent'[r][i] = sent[r][i]
        /\ DOMAIN sent[r] = 1..n /\ DOMAIN sent'[r] = 1..(n + 1)
    BY <1>2, <1>3, <1>5, <1>6
  <1> QED BY <1>2, <1>3, <1>5, <1>7, <1>8

\* The notices are counted.
LEMMA NoticesCounted ==
    ASSUME Base, NEW r \in Requests, NEW w \in {"delta", "reasoning", "tool"} \cup Codes, Write(r, w)
    PROVE  LET n == Len(sent[r])
           IN  /\ Notices(r, n) \in Nat
               /\ \A k \in 1..n : Notices(r, k)' = Notices(r, k)
               /\ Notices(r, Len(sent[r]))' = Notices(r, n) + IF w = "tool" THEN 1 ELSE 0
               /\ \A k \in Nat : k = n + 1 => Notices(r, k)' = Notices(r, Len(sent[r]))'
  <1> DEFINE n == Len(sent[r])
             T == {i \in 1..n : sent[r][i].what = "tool"}
             U == {i \in 1..(n + 1) : sent'[r][i].what = "tool"}
  <1>1. n \in Nat /\ sent'[r][n + 1].what = w /\ Len(sent'[r]) = n + 1
        /\ \A i \in 1..n : sent'[r][i] = sent[r][i]
    BY Writes
  <1>2. IsFiniteSet(T)
    <2>1. IsFiniteSet(1..n)
      BY <1>1, FS_Interval
    <2> QED BY <2>1, FS_Subset
  <1>3. Cardinality(T) \in Nat
    BY <1>2, FS_CardinalityType
  <1>4. Notices(r, n) = Cardinality(T) /\ Notices(r, Len(sent[r]))' = Cardinality(U)
    BY <1>1 DEF Notices
  <1>8. \A k \in Nat : k = n + 1 => Notices(r, k)' = Cardinality(U)
    BY DEF Notices
  <1> HIDE DEF T, U
  <1>5. ASSUME NEW k \in 1..n PROVE Notices(r, k)' = Notices(r, k)
    <2>1. \A i \in 1..k : i \in 1..n
      BY <1>1
    <2>2. {i \in 1..k : sent'[r][i].what = "tool"} = {i \in 1..k : sent[r][i].what = "tool"}
      BY <1>1, <2>1
    <2> QED BY <2>2 DEF Notices
  <1>6. CASE w # "tool"
    <2>1. U = T
      BY <1>1, <1>6 DEF T, U
    <2> QED BY <1>3, <1>4, <1>5, <1>6, <1>8, <2>1
  <1>7. CASE w = "tool"
    <2>1. U = T \cup {n + 1} /\ n + 1 \notin T
      BY <1>1, <1>7 DEF T, U
    <2>2. Cardinality(U) = Cardinality(T) + 1
      BY <1>2, <2>1, FS_AddElement
    <2> QED BY <1>3, <1>4, <1>5, <1>7, <1>8, <2>2
  <1> QED BY <1>6, <1>7

\* A chunk of the answer being read, or the notice of a tool call.
Speaks(r, g, w) ==
    /\ g \in Handler /\ Becomes(r, g) /\ Write(r, w) /\ UNCHANGED history
    /\ g.kind = h[r].kind /\ g.code = h[r].code /\ g.made = h[r].made
    /\ g.contentEmitted <=> h[r].contentEmitted \/ w = "delta"
    /\ \/ /\ w \in {"delta", "reasoning"}
          /\ h[r].pc = "read" /\ g.pc = "read"
          /\ g.hop = h[r].hop /\ g.att = h[r].att /\ g.calls = h[r].calls
          /\ g.chunks = h[r].chunks + 1
       \/ /\ w = "tool"
          /\ h[r].pc = "tools" /\ g.chunks = 0 /\ g.calls = h[r].calls - 1
          /\ \/ g.pc = "tools" /\ g.hop = h[r].hop /\ g.calls > 0
             \/ g.pc = "slot" /\ g.hop = 2 /\ g.calls = 0

\* It keeps the invariant: the new event is of the attempt that is running.
LEMMA SpeaksKeeps ==
    ASSUME Inv, NEW r \in Requests, NEW g, NEW w, Speaks(r, g, w), Base', SlotsCounted'
    PROVE  Inv'
  <1> DEFINE n == Len(sent[r])
  <1>w. w \in {"delta", "reasoning", "tool"} /\ w \notin Codes
    BY DEF Speaks, Codes
  <1>0. Base /\ RequestOK(r) /\ h[r] \in Handler /\ g \in Handler /\ Write(r, w)
    BY DEF Inv, Base, Speaks
  <1>1. Alike(h'[r], g)
    BY DEF Speaks, Becomes
  <1>s. /\ \A q \in Requests : q # r => sent'[q] = sent[q]
        /\ n \in Nat /\ Len(sent'[r]) = n + 1
        /\ DOMAIN sent[r] = 1..n /\ DOMAIN sent'[r] = 1..(n + 1)
        /\ \A i \in 1..n : sent'[r][i] = sent[r][i]
        /\ sent'[r][n + 1].what = w
        /\ sent'[r][n + 1].hop = h[r].hop
        /\ sent'[r][n + 1].att = h[r].att
    BY <1>0, <1>w, Writes
  <1>n. /\ Notices(r, n) \in Nat
        /\ \A k \in 1..n : Notices(r, k)' = Notices(r, k)
        /\ Notices(r, Len(sent[r]))' = Notices(r, n) + IF w = "tool" THEN 1 ELSE 0
        /\ \A k \in Nat : k = n + 1 => Notices(r, k)' = Notices(r, Len(sent[r]))'
    BY <1>0, <1>w, NoticesCounted
  <1>t. \A i \in 1..n : /\ sent[r][i].hop \in 1..2
                        /\ sent[r][i].what \in {"delta", "reasoning", "tool"} \cup Codes
    BY <1>0, <1>s, SentTyped
  <1> HIDE DEF n
  <1>d. \A i \in DOMAIN sent'[r] : i \in 1..n \/ i = n + 1
    BY <1>s
  <1>2. ASSUME NEW q \in Requests, q # r PROVE Untouched(q)
    BY <1>2, <1>s DEF Speaks, Becomes, Untouched
  <1>p. h[r].pc \in {"read", "tools"} /\ g.pc \in {"read", "tools", "slot"}
    BY DEF Speaks
  <1>3. ~EndSent(r) /\ ~EndSent(r)' /\ ~At(r, "end") /\ ~At(r, "end")' /\ ~At(r, "settle")
        /\ ~At(r, "idle")' /\ ~At(r, "settle")'
    BY <1>1, <1>p DEF Alike, EndSent, At
  <1>k. /\ h[r].calls \in Nat /\ h[r].made \in Nat /\ g.calls \in Nat /\ g.made \in Nat
        /\ h[r].hop \in 1..2 /\ g.hop \in 1..2 /\ h[r].chunks \in Nat /\ g.chunks \in Nat
    BY <1>0, Bounds DEF Handler
  <1>h. /\ w = "tool" => h[r].hop = 1 /\ h[r].calls > 0
        /\ w # "tool" => h[r].calls = 0
    <2>1. /\ h[r].calls > 0 => h[r].pc \in {"returned", "tools"} /\ h[r].hop = 1
          /\ h[r].pc = "tools" => h[r].calls > 0
      BY <1>0 DEF RequestOK, ToolsOK, At
    <2>2. w = "tool" <=> h[r].pc = "tools"
      BY DEF Speaks
    <2>3. w # "tool" => h[r].pc = "read"
      BY DEF Speaks
    <2> QED BY <1>k, <2>1, <2>2, <2>3
  <1>c. w # "tool" => \A i \in 1..n :
            IsChunk(sent[r][i]) /\ sent[r][i].hop = h[r].hop => sent[r][i].att = h[r].att
    BY <1>0, <1>s DEF RequestOK, ChunksOK, Busy, Speaks
  <1>o. \A i \in 1..n : sent[r][i].hop <= h[r].hop
    BY <1>0, <1>s, <1>3 DEF RequestOK, ChunksOK
  <1>4. ChunksOK(r)'
    <2>1. g.pc # "read" => g.chunks = 0
      BY DEF Speaks
    <2>2. \A i \in DOMAIN sent'[r] : sent'[r][i].hop <= g.hop
      <3>1. h[r].hop <= g.hop
        BY <1>k DEF Speaks
      <3> SUFFICES ASSUME NEW i \in DOMAIN sent'[r] PROVE sent'[r][i].hop <= g.hop
        OBVIOUS
      <3>2. CASE i \in 1..n
        <4>1. sent'[r][i].hop = sent[r][i].hop /\ sent[r][i].hop \in 1..2 /\ sent[r][i].hop <= h[r].hop
          BY <1>o, <1>s, <1>t, <3>2
        <4> QED BY <1>k, <3>1, <4>1
      <3>3. CASE i = n + 1
        BY <1>s, <3>1, <3>3
      <3> QED BY <1>d, <3>2, <3>3
    <2>3. ASSUME NEW i \in DOMAIN sent'[r], g.pc # "tools",
                 IsChunk(sent'[r][i]), sent'[r][i].hop = g.hop
          PROVE  g.chunks > 0 /\ sent'[r][i].att = g.att
      <3>1. CASE w = "tool"
        <4>1. g.hop = 2 /\ h[r].hop = 1
          BY <1>h, <2>3, <3>1 DEF Speaks
        <4>2. i \in 1..n
          BY <1>d, <1>s, <2>3, <3>1 DEF IsChunk
        <4> QED BY <1>o, <1>s, <2>3, <4>1, <4>2
      <3>2. CASE w # "tool"
        <4>1. g.hop = h[r].hop /\ g.att = h[r].att /\ g.chunks > 0
          BY <1>k, <3>2 DEF Speaks
        <4> QED BY <1>c, <1>d, <1>s, <2>3, <3>2, <4>1
      <3> QED BY <3>1, <3>2
    <2>4. h'[r].pc = g.pc /\ h'[r].chunks = g.chunks /\ h'[r].hop = g.hop /\ h'[r].att = g.att
      BY <1>1 DEF Alike
    <2>5. Busy(r)' \/ At(r, "slot")' => g.pc # "tools"
      BY <2>4 DEF Busy, At
    <2> QED BY <2>1, <2>2, <2>3, <2>4, <2>5 DEF ChunksOK, At
  <1>5. SplicedOK(r)'
    <2> SUFFICES ASSUME NEW i \in DOMAIN sent'[r], NEW j \in DOMAIN sent'[r],
                        IsChunk(sent'[r][i]), IsChunk(sent'[r][j]),
                        sent'[r][i].hop = sent'[r][j].hop
                 PROVE  sent'[r][i].att = sent'[r][j].att
      BY DEF SplicedOK
    <2>1. CASE i \in 1..n /\ j \in 1..n
      <3>1. sent'[r][i] = sent[r][i] /\ sent'[r][j] = sent[r][j]
        BY <1>s, <2>1
      <3>2. SplicedOK(r) /\ i \in DOMAIN sent[r] /\ j \in DOMAIN sent[r]
        BY <1>0, <1>s, <2>1 DEF RequestOK
      <3> QED BY <3>1, <3>2 DEF SplicedOK
    <2>2. CASE i = n + 1 \/ j = n + 1
      <3>1. w # "tool"
        BY <1>s, <2>2 DEF IsChunk
      <3>2. ASSUME NEW k \in DOMAIN sent'[r], IsChunk(sent'[r][k]), sent'[r][k].hop = h[r].hop
            PROVE  sent'[r][k].att = h[r].att
        <4>1. CASE k \in 1..n
          BY <1>c, <1>s, <3>1, <3>2, <4>1
        <4>2. CASE k = n + 1
          BY <1>s, <4>2
        <4> QED BY <1>d, <4>1, <4>2
      <3>3. sent'[r][i].hop = h[r].hop /\ sent'[r][j].hop = h[r].hop
        BY <1>s, <2>2
      <3> QED BY <3>2, <3>3
    <2> QED BY <1>d, <2>1, <2>2
  <1>x. What(r)' = What(r) /\ h'[r].made = h[r].made /\ h'[r].code = h[r].code
        /\ h'[r].calls = g.calls /\ h'[r].pc = g.pc /\ h'[r].hop = g.hop
    BY <1>1 DEF What, Alike, Speaks
  <1>6. ToolsOK(r)'
    <2>1. What(r) = "toolStream" => h[r].made = Notices(r, n) + h[r].calls
      BY <1>0, <1>3 DEF RequestOK, ToolsOK, n
    <2>2. /\ w # "tool" => g.calls = h[r].calls
          /\ w = "tool" => g.calls = h[r].calls - 1
      BY DEF Speaks
    <2>3. What(r) = "toolStream" => h[r].made = Notices(r, Len(sent[r]))' + g.calls
      <3>1. /\ w = "tool" => Notices(r, Len(sent[r]))' = Notices(r, n) + 1
            /\ w # "tool" => Notices(r, Len(sent[r]))' = Notices(r, n)
        BY <1>n
      <3>2. Notices(r, n) \in Nat /\ h[r].calls \in Nat
        BY <1>n, <1>k
      <3>3. CASE w = "tool"
        BY <2>1, <2>2, <3>1, <3>2, <3>3
      <3>4. CASE w # "tool"
        BY <2>1, <2>2, <3>1, <3>2, <3>4
      <3> QED BY <3>3, <3>4
    <2>4. What(r)' = "toolStream" => h'[r].made = Notices(r, Len(sent[r]))' + h'[r].calls
      BY <1>s, <1>x, <2>3
    <2>5. /\ g.calls > 0 => g.pc \in {"returned", "tools"} /\ g.hop = 1
          /\ g.pc = "tools" => g.calls > 0
      BY <1>h, <1>k DEF Speaks
    <2>6. g.calls > 0 => h[r].code = "ok"
      <3>1. g.calls > 0 => h[r].calls > 0
        BY <1>k, <2>2
      <3> QED BY <1>0, <3>1 DEF RequestOK, ToolsOK
    <2> QED BY <1>x, <2>4, <2>5, <2>6 DEF ToolsOK, At
  <1>7. ResolvedOK(r)'
    <2> SUFFICES ASSUME What(r) = "toolStream", NEW i \in DOMAIN sent'[r],
                        IsChunk(sent'[r][i]), sent'[r][i].hop = 2
                 PROVE  Notices(r, i)' = h[r].made
      BY <1>3, <1>x DEF ResolvedOK
    <2>1. CASE i \in 1..n
      BY <1>0, <1>n, <1>s, <2>1 DEF RequestOK, ResolvedOK
    <2>2. CASE i = n + 1
      <3>1. w # "tool"
        BY <1>s, <2>2 DEF IsChunk
      <3>2. h[r].made = Notices(r, n) + h[r].calls
        BY <1>0, <1>3 DEF RequestOK, ToolsOK, n
      <3>3. Notices(r, i)' = Notices(r, n) /\ h[r].calls = 0
        BY <1>h, <1>n, <1>s, <2>2, <3>1
      <3> QED BY <1>n, <3>2, <3>3
    <2> QED BY <1>d, <2>1, <2>2
  <1>8. EndOK(r)'
    <2>1. \A i \in DOMAIN sent'[r] : sent'[r][i].what \notin Codes
      BY <1>0, <1>3, <1>d, <1>s, <1>w DEF RequestOK, EndOK
    <2>2. h[r].contentEmitted <=> \E i \in 1..n : sent[r][i].what = "delta"
      BY <1>0, <1>3, <1>s DEF RequestOK, EndOK
    <2>3. (\E i \in DOMAIN sent'[r] : sent'[r][i].what = "delta")
             <=> (\E i \in 1..n : sent[r][i].what = "delta") \/ w = "delta"
      <3>1. n + 1 \in DOMAIN sent'[r] /\ 1..n \subseteq DOMAIN sent'[r]
        BY <1>s
      <3> QED BY <1>d, <1>s, <3>1
    <2>4. h'[r].contentEmitted <=> h[r].contentEmitted \/ w = "delta"
      BY <1>1 DEF Alike, Speaks
    <2>5. (h[r].contentEmitted <=> \E i \in DOMAIN sent[r] : sent[r][i].what = "delta")'
      BY <2>2, <2>3, <2>4
    <2>6. h[r].code \in Sane
      BY <1>0 DEF RequestOK, EndOK, Sane
    <2> QED BY <1>3, <1>x, <2>1, <2>5, <2>6 DEF EndOK, Sane
  <1>9. TruthOK(r)'
    BY <1>3 DEF TruthOK
  <1>10. HistoryOK'
    <2> SUFFICES ASSUME NEW i \in DOMAIN history
                 PROVE  /\ FiledOK(history[i].req, history[i].status)'
                        /\ \A j \in DOMAIN history \ {i} : history[j].req # history[i].req
      BY DEF HistoryOK, Speaks
    <2>1. history[i].req \in Requests
      BY HistoryTyped DEF Inv
    <2>2. history[i].req # r
      BY <1>3, NotFiled
    <2> QED BY <1>2, <2>1, <2>2, FiledKeeps DEF Inv, HistoryOK, Speaks
  <1>11. ASSUME NEW q \in Requests PROVE RequestOK(q)'
    <2>1. CASE q = r
      BY <1>4, <1>5, <1>6, <1>7, <1>8, <1>9, <2>1 DEF RequestOK
    <2>2. CASE q # r
      BY <1>2, <2>2, OthersKeep DEF Inv
    <2> QED BY <2>1, <2>2
  <1> QED BY <1>10, <1>11 DEF Inv

\* The types after a step that writes.
LEMMA BaseWrites ==
    ASSUME Base, NEW r \in Requests, NEW g, Becomes(r, g),
           NEW w \in {"delta", "reasoning", "tool"} \cup Codes, Write(r, w),
           UNCHANGED <<history, crashes, up>>, over' \in [Requests -> BOOLEAN]
    PROVE  Base'
  <1>1. sent' \in [Requests -> Seq(Events)]
    BY Writes
  <1> QED BY <1>1 DEF Base, Becomes

\* A chunk joins the others of its attempt.
LEMMA ChunkStep ==
    ASSUME Inv, NEW r \in Requests, NEW w \in {"delta", "reasoning"}, Chunk(r, w)
    PROVE  Inv'
  <1> DEFINE b == h[r].contentEmitted \/ w = "delta"
             d == h[r].reasoningEmitted \/ w = "reasoning"
             f1 == [h[r] EXCEPT !.chunks = h[r].chunks + 1]
             f2 == [f1 EXCEPT !.contentEmitted = b]
             g == [f2 EXCEPT !.reasoningEmitted = d]
  <1>1. Base /\ RequestOK(r) /\ h[r] \in Handler /\ h[r].pc = "read"
    BY DEF Inv, Base, Chunk, Reading, At
  <1>2. b \in BOOLEAN /\ d \in BOOLEAN /\ (b <=> h[r].contentEmitted \/ w = "delta")
    OBVIOUS
  <1>3. h[r].chunks + 1 \in 0..MaxChunks
    <2>1. h[r].chunks \in 0..MaxChunks
      BY <1>1 DEF Handler
    <2> QED BY <2>1, Bounds DEF Chunk
  <1>4. h' = [h EXCEPT ![r].chunks = @ + 1, ![r].contentEmitted = b, ![r].reasoningEmitted = d]
    BY DEF Chunk
  <1>5. h' = [h EXCEPT ![r] = g]
    BY <1>4
  <1> HIDE DEF b, d
  <1>6. /\ f1 \in Handler /\ f1.pc = h[r].pc /\ f1.kind = h[r].kind /\ f1.code = h[r].code
        /\ f1.made = h[r].made /\ f1.hop = h[r].hop /\ f1.att = h[r].att
        /\ f1.calls = h[r].calls /\ f1.chunks = h[r].chunks + 1
    BY <1>1, <1>3 DEF Handler
  <1> HIDE DEF f1
  <1>7. /\ f2 \in Handler /\ f2.pc = f1.pc /\ f2.kind = f1.kind /\ f2.code = f1.code
        /\ f2.made = f1.made /\ f2.hop = f1.hop /\ f2.att = f1.att
        /\ f2.calls = f1.calls /\ f2.chunks = f1.chunks /\ f2.contentEmitted = b
    BY <1>2, <1>6 DEF Handler
  <1> HIDE DEF f2
  <1>8. /\ g \in Handler /\ g.pc = f2.pc /\ g.kind = f2.kind /\ g.code = f2.code
        /\ g.made = f2.made /\ g.hop = f2.hop /\ g.att = f2.att
        /\ g.calls = f2.calls /\ g.chunks = f2.chunks /\ g.contentEmitted = f2.contentEmitted
    BY <1>2, <1>7 DEF Handler
  <1> HIDE DEF g
  <1>9. Becomes(r, g)
    BY <1>1, <1>5, <1>8, HandlerSet
  <1>10. Write(r, w) /\ UNCHANGED <<over, free, up, crashes, history>>
    BY DEF Chunk
  <1>11. Base'
    BY <1>1, <1>9, <1>10, BaseWrites DEF Base
  <1>12. SlotsCounted'
    BY <1>1, <1>6, <1>7, <1>8, <1>9, <1>10, SlotsKept DEF Busy
  <1>13. g.contentEmitted <=> h[r].contentEmitted \/ w = "delta"
    BY <1>2, <1>7, <1>8
  <1>14. Speaks(r, g, w)
    BY <1>1, <1>6, <1>7, <1>8, <1>9, <1>10, <1>13 DEF Speaks
  <1> QED BY <1>11, <1>12, <1>14, SpeaksKeeps

\* Each notice moves one call from those to resolve to those announced.
LEMMA executeToolCallStep == ASSUME Inv, NEW r \in Requests, executeToolCall(r) PROVE Inv'
  <1> DEFINE f == h[r]
             g == IF MoreTools(r) THEN [f EXCEPT !.calls = f.calls - 1]
                  ELSE [f EXCEPT !.pc = "slot", !.hop = 2, !.calls = 0, !.lengthLimited = FALSE]
  <1>1. Base /\ RequestOK(r) /\ f \in Handler /\ f.pc = "tools"
    BY DEF Inv, Base, executeToolCall, At
  <1>2. /\ f.calls \in 0..MaxToolCalls /\ f.calls > 0 /\ f.hop = 1 /\ f.code = "ok"
        /\ f.made \in Nat /\ f.chunks = 0
    <2>1. f.calls \in 0..MaxToolCalls /\ f.made \in Nat
      BY <1>1 DEF Handler
    <2> QED BY <1>1, <2>1 DEF RequestOK, ToolsOK, ChunksOK, At
  <1>3. h' = [h EXCEPT ![r] = g]
    BY DEF executeToolCall
  <1>m. MoreTools(r) <=> f.calls > 1
    BY DEF MoreTools
  <1>v. /\ UNCHANGED <<over, free, up, crashes, history>>
        /\ What(r) = "toolStream" => Write(r, "tool")
        /\ What(r) # "toolStream" => UNCHANGED sent
    BY DEF executeToolCall
  <1>o. \A i \in DOMAIN sent[r] : sent[r][i].hop # 2
    <2>1. \A i \in DOMAIN sent[r] : sent[r][i].hop <= 1
      BY <1>1, <1>2 DEF RequestOK, ChunksOK, At
    <2> QED BY <2>1
  <1>w. What(r) = f.kind.what
    BY DEF What
  <1> HIDE DEF f
  <1>4. /\ g \in Handler /\ g.kind = f.kind /\ g.contentEmitted = f.contentEmitted
        /\ g.code = f.code /\ g.made = f.made /\ g.chunks = f.chunks /\ g.calls = f.calls - 1
        /\ \/ g.pc = "tools" /\ g.hop = 1 /\ g.calls > 0
           \/ g.pc = "slot" /\ g.hop = 2 /\ g.calls = 0
    <2>1. CASE MoreTools(r)
      <3>1. f.calls - 1 \in 0..MaxToolCalls /\ f.calls - 1 > 0
        BY <1>2, <1>m, <2>1, Bounds
      <3>2. g = [f EXCEPT !.calls = f.calls - 1]
        BY <2>1
      <3> HIDE DEF g
      <3> QED BY <1>1, <1>2, <3>1, <3>2 DEF Handler
    <2>2. CASE ~MoreTools(r)
      <3>1. f.calls = 1 /\ 0 \in 0..MaxToolCalls
        BY <1>2, <1>m, <2>2, Bounds
      <3> DEFINE f1 == [f EXCEPT !.pc = "slot"]
                 f2 == [f1 EXCEPT !.hop = 2]
                 f3 == [f2 EXCEPT !.calls = 0]
                 f4 == [f3 EXCEPT !.lengthLimited = FALSE]
      <3>2. g = f4
        BY <1>1, <2>2 DEF Handler
      <3> HIDE DEF g
      <3>3. /\ f1 \in Handler /\ f1.kind = f.kind /\ f1.contentEmitted = f.contentEmitted
            /\ f1.code = f.code /\ f1.made = f.made /\ f1.chunks = f.chunks /\ f1.pc = "slot"
        BY <1>1, PcSet, Places
      <3> HIDE DEF f1
      <3>4. /\ f2 \in Handler /\ f2.kind = f1.kind /\ f2.contentEmitted = f1.contentEmitted
            /\ f2.code = f1.code /\ f2.made = f1.made /\ f2.chunks = f1.chunks /\ f2.pc = f1.pc
            /\ f2.hop = 2
        BY <3>3 DEF Handler
      <3> HIDE DEF f2
      <3>5. /\ f3 \in Handler /\ f3.kind = f2.kind /\ f3.contentEmitted = f2.contentEmitted
            /\ f3.code = f2.code /\ f3.made = f2.made /\ f3.chunks = f2.chunks /\ f3.pc = f2.pc
            /\ f3.hop = f2.hop /\ f3.calls = 0
        BY <3>1, <3>4 DEF Handler
      <3> HIDE DEF f3
      <3>6. /\ f4 \in Handler /\ f4.kind = f3.kind /\ f4.contentEmitted = f3.contentEmitted
            /\ f4.code = f3.code /\ f4.made = f3.made /\ f4.chunks = f3.chunks /\ f4.pc = f3.pc
            /\ f4.hop = f3.hop /\ f4.calls = f3.calls
        BY <3>5 DEF Handler
      <3> HIDE DEF f4
      <3> QED BY <3>1, <3>2, <3>3, <3>4, <3>5, <3>6
    <2> QED BY <2>1, <2>2
  <1> HIDE DEF g
  <1>5. Becomes(r, g)
    BY <1>1, <1>3, <1>4, HandlerSet
  <1>6. SlotsCounted'
    <2>1. ~Busy(r)
      BY <1>1 DEF Busy, f
    <2> QED BY <1>4, <1>5, <1>v, <2>1, SlotsKept
  <1>7. CASE What(r) = "toolStream"
    <2>1. Base'
      BY <1>1, <1>5, <1>7, <1>v, BaseWrites DEF Base
    <2>2. Speaks(r, g, "tool")
      BY <1>1, <1>2, <1>4, <1>5, <1>7, <1>v DEF Speaks, f
    <2> QED BY <1>6, <2>1, <2>2, SpeaksKeeps
  <1>8. CASE What(r) # "toolStream"
    <2>1. Base'
      BY <1>1, <1>5, <1>8, <1>v, BaseQuiet DEF Base
    <2>2. /\ h[r].pc \notin {"settle", "end"} /\ g.pc \notin {"idle", "settle", "end"}
          /\ g.code \in Sane
      BY <1>1, <1>2, <1>4 DEF Sane, f
    <2>3. g.hop >= h[r].hop
      BY <1>2, <1>4 DEF f
    <2>4. Quiet(r, g)
      BY <1>2, <1>4, <1>5, <1>8, <1>o, <1>v, <2>2, <2>3 DEF Quiet, f
    <2> QED BY <1>6, <2>1, <2>4, QuietKeeps
  <1> QED BY <1>7, <1>8
-----------------------------------------------------------------------------
(***************************************************************************)
(* The end of a request                                                    *)
(***************************************************************************)

\* The new entry comes first, the others move up, the oldest may fall out.
LEMMA Records ==
    ASSUME Base, NEW r \in Requests, NEW s \in {"queued", "done", "failed"}, recordJob(r, s)
    PROVE  /\ history' \in Seq(Entry) /\ Len(history') <= jobHistoryMax
           /\ \A i \in DOMAIN history' :
                 /\ i \in Nat
                 /\ \/ i = 1 /\ history'[i].req = r /\ history'[i].status = s
                    \/ i # 1 /\ i - 1 \in DOMAIN history /\ history'[i] = history[i - 1]
  <1> DEFINE e == [req |-> r, status |-> s]
             longer == <<e>> \o history
  <1>1. history \in Seq(Entry) /\ Len(history) \in Nat /\ DOMAIN history = 1..Len(history)
    BY HistoryTyped DEF Base
  <1>2. e \in Entry /\ e.req = r /\ e.status = s
    BY DEF Entry
  <1>3. history' = IF Len(longer) > jobHistoryMax THEN SubSeq(longer, 1, jobHistoryMax) ELSE longer
    BY DEF recordJob
  <1> HIDE DEF e
  <1>4. <<e>> \in Seq(Entry) /\ Len(<<e>>) = 1 /\ <<e>>[1] = e
    BY <1>2
  <1>5. /\ longer \in Seq(Entry) /\ Len(longer) = Len(history) + 1
        /\ longer[1] = e /\ \A i \in 2..(Len(history) + 1) : longer[i] = history[i - 1]
    <2>1. longer \in Seq(Entry) /\ Len(longer) = 1 + Len(history)
      BY <1>1, <1>4, ConcatProperties
    <2>2. \A i \in 1..(1 + Len(history)) :
             longer[i] = IF i <= 1 THEN <<e>>[i] ELSE history[i - 1]
      BY <1>1, <1>4, ConcatProperties
    <2>3. longer[1] = e
      BY <1>1, <1>4, <2>2
    <2>4. \A i \in 2..(Len(history) + 1) : longer[i] = history[i - 1]
      BY <1>1, <2>2
    <2> QED BY <1>1, <2>1, <2>3, <2>4
  <1> HIDE DEF longer
  <1>6. /\ history' \in Seq(Entry) /\ Len(history') <= jobHistoryMax
        /\ Len(history') \in Nat /\ Len(history') <= Len(longer)
        /\ \A i \in 1..Len(history') : history'[i] = longer[i]
    <2>1. CASE Len(longer) > jobHistoryMax
      <3>1. history' = SubSeq(longer, 1, jobHistoryMax)
        BY <1>3, <2>1
      <3>2. /\ jobHistoryMax \in 1..Len(longer) /\ 1 \in 1..Len(longer) + 1
        BY <1>1, <1>5, <2>1, Bounds
      <3>3. /\ SubSeq(longer, 1, jobHistoryMax) \in Seq(Entry)
            /\ Len(SubSeq(longer, 1, jobHistoryMax)) = jobHistoryMax
            /\ \A i \in 1..jobHistoryMax : SubSeq(longer, 1, jobHistoryMax)[i] = longer[i]
        BY <1>5, <3>2, Bounds
      <3> QED BY <1>1, <1>5, <2>1, <3>1, <3>3, Bounds
    <2>2. CASE ~(Len(longer) > jobHistoryMax)
      <3>1. history' = longer
        BY <1>3, <2>2
      <3> QED BY <1>1, <1>5, <2>2, <3>1, Bounds
    <2> QED BY <2>1, <2>2
  <1>7. DOMAIN history' = 1..Len(history')
    BY <1>6
  <1>8. ASSUME NEW i \in 1..Len(history')
        PROVE  /\ i \in Nat
               /\ \/ i = 1 /\ history'[i].req = r /\ history'[i].status = s
                  \/ i # 1 /\ i - 1 \in DOMAIN history /\ history'[i] = history[i - 1]
    <2>1. i \in 1..(Len(history) + 1) /\ history'[i] = longer[i]
      BY <1>1, <1>5, <1>6, <1>8
    <2>2. CASE i = 1
      BY <1>2, <1>5, <2>1, <2>2
    <2>3. CASE i # 1
      <3>1. i \in 2..(Len(history) + 1) /\ i - 1 \in 1..Len(history)
        BY <1>1, <2>1, <2>3
      <3> QED BY <1>1, <1>5, <2>1, <2>3, <3>1
    <2> QED BY <2>2, <2>3
  <1> QED BY <1>6, <1>7, <1>8

\* A request enters the history once.
LEMMA RecordedOK ==
    ASSUME Inv, NEW r \in Requests, NEW s \in {"queued", "done", "failed"}, recordJob(r, s),
           \A q \in Requests : q # r => Untouched(q),
           FiledOK(r, s)', ~At(r, "end"), ~(At(r, "settle") /\ RecordedFirst(r))
    PROVE  HistoryOK'
  <1>1. \A i \in DOMAIN history' :
           /\ i \in Nat
           /\ \/ i = 1 /\ history'[i].req = r /\ history'[i].status = s
              \/ i # 1 /\ i - 1 \in DOMAIN history /\ history'[i] = history[i - 1]
    BY Records DEF Inv
  <1>2. \A i \in DOMAIN history : history[i].req # r /\ history[i].req \in Requests
    BY NotFiled, HistoryTyped DEF Inv
  <1>3. \A i \in DOMAIN history : /\ FiledOK(history[i].req, history[i].status)
                                  /\ \A j \in DOMAIN history \ {i} : history[j].req # history[i].req
    BY DEF Inv, HistoryOK
  <1>4. \A q, t : q \in Requests /\ q # r /\ FiledOK(q, t) => FiledOK(q, t)'
    BY FiledKeeps
  <1>5. ASSUME NEW i \in DOMAIN history' PROVE FiledOK(history[i].req, history[i].status)'
    <2>1. ASSUME NEW q, NEW t, q = history'[i].req, t = history'[i].status, FiledOK(q, t)'
          PROVE  FiledOK(history[i].req, history[i].status)'
      BY <2>1 DEF FiledOK, At, RecordedFirst, Status, EndCode, ToldStatus, Told, Ends, What, Streamed
    <2>2. CASE i = 1
      BY <1>1, <2>1, <2>2
    <2>3. CASE i # 1
      <3>1. i - 1 \in DOMAIN history /\ history'[i] = history[i - 1]
        BY <1>1, <2>3
      <3>2. PICK q, t : q = history[i - 1].req /\ t = history[i - 1].status
        OBVIOUS
      <3>3. FiledOK(q, t) /\ q # r /\ q \in Requests
        BY <1>2, <1>3, <3>1, <3>2
      <3>4. FiledOK(q, t)'
        BY <1>4, <3>3
      <3> QED BY <2>1, <3>1, <3>2, <3>4
    <2> QED BY <2>2, <2>3
  <1>6. ASSUME NEW i \in DOMAIN history', NEW j \in DOMAIN history', i # j
        PROVE  history'[j].req # history'[i].req
    <2>1. CASE i = 1 \/ j = 1
      BY <1>1, <1>2, <1>6, <2>1
    <2>2. CASE i # 1 /\ j # 1
      <3>1. /\ i - 1 \in DOMAIN history /\ history'[i] = history[i - 1]
            /\ j - 1 \in DOMAIN history /\ history'[j] = history[j - 1]
            /\ i - 1 # j - 1
        BY <1>1, <1>6, <2>2
      <3> QED BY <1>3, <3>1
    <2> QED BY <2>1, <2>2
  <1> QED BY <1>5, <1>6 DEF HistoryOK

\* Who is in the history stays, when r still agrees with its entry.
LEMMA UnrecordedOK ==
    ASSUME Inv, NEW r \in Requests, history' = history,
           \A q \in Requests : q # r => Untouched(q),
           \A s : FiledOK(r, s) => FiledOK(r, s)'
    PROVE  HistoryOK'
  <1> SUFFICES ASSUME NEW i \in DOMAIN history
               PROVE  /\ FiledOK(history[i].req, history[i].status)'
                      /\ \A j \in DOMAIN history \ {i} : history[j].req # history[i].req
    BY DEF HistoryOK
  <1>1. PICK q, t : q = history[i].req /\ t = history[i].status
    OBVIOUS
  <1>2. q \in Requests /\ FiledOK(q, t)
    BY <1>1, HistoryTyped DEF Inv, HistoryOK
  <1>3. FiledOK(q, t)'
    BY <1>2, FiledKeeps
  <1>4. FiledOK(history[i].req, history[i].status)'
    BY <1>1, <1>3, ZenonT(40) DEF FiledOK, At, RecordedFirst, Status, EndCode, ToldStatus, Told, Ends, What, Streamed
  <1> QED BY <1>4 DEF Inv, HistoryOK

\* The response of r is complete: its last event, and no other, is an end, and says w.
LastSays(r, w) ==
    /\ Len(sent'[r]) \in Nat /\ Len(sent'[r]) >= 1 /\ DOMAIN sent'[r] = 1..Len(sent'[r])
    /\ \A i \in DOMAIN sent'[r] :
          /\ sent'[r][i].what \in {"delta", "reasoning", "tool"} \cup Codes
          /\ sent'[r][i].what \in Codes <=> i = Len(sent'[r])
    /\ sent'[r][Len(sent'[r])].what = w
    /\ (\E i \in DOMAIN sent'[r] : sent'[r][i].what = "delta") <=> h[r].contentEmitted
    /\ SplicedOK(r)'
    /\ What(r) = "toolStream" =>
          /\ \A i \in DOMAIN sent'[r] :
                IsChunk(sent'[r][i]) /\ sent'[r][i].hop = 2 => Notices(r, i)' = h[r].made
          /\ Notices(r, Len(sent[r]))' = h[r].made

\* The end is written ...
LEMMA LastWritten ==
    ASSUME Inv, NEW r \in Requests, NEW w \in Codes, Write(r, w), ~EndSent(r), ~At(r, "end"),
           h[r].calls = 0
    PROVE  LastSays(r, w)
  <1> DEFINE n == Len(sent[r])
  <1>0. Base /\ RequestOK(r) /\ h[r] \in Handler
    BY DEF Inv, Base
  <1>w. w \notin {"delta", "reasoning", "tool"}
    BY DEF Codes
  <1>s. /\ n \in Nat /\ Len(sent'[r]) = n + 1
        /\ DOMAIN sent[r] = 1..n /\ DOMAIN sent'[r] = 1..(n + 1)
        /\ \A i \in 1..n : sent'[r][i] = sent[r][i]
        /\ sent'[r][n + 1].what = w
    BY <1>0, Writes
  <1>n. /\ Notices(r, n) \in Nat
        /\ \A k \in 1..n : Notices(r, k)' = Notices(r, k)
        /\ Notices(r, Len(sent[r]))' = Notices(r, n)
    <2>1. /\ Notices(r, n) \in Nat
          /\ \A k \in 1..n : Notices(r, k)' = Notices(r, k)
          /\ Notices(r, Len(sent[r]))' = Notices(r, n) + IF w = "tool" THEN 1 ELSE 0
      BY <1>0, NoticesCounted
    <2>2. Notices(r, Len(sent[r]))' = Notices(r, n) + 0
      BY <1>w, <2>1
    <2> QED BY <2>1, <2>2
  <1>t. \A i \in 1..n : sent[r][i].what \in {"delta", "reasoning", "tool"} \cup Codes
    BY <1>0, <1>s, SentTyped
  <1>m. What(r) = "toolStream" => h[r].made = Notices(r, n)
    BY <1>0, <1>n DEF RequestOK, ToolsOK
  <1> HIDE DEF n
  <1>d. \A i \in DOMAIN sent'[r] : i \in 1..n \/ i = n + 1
    BY <1>s
  <1>c. \A i \in 1..n : sent[r][i].what \notin Codes
    BY <1>0, <1>s DEF RequestOK, EndOK
  <1>1. \A i \in DOMAIN sent'[r] :
          /\ sent'[r][i].what \in {"delta", "reasoning", "tool"} \cup Codes
          /\ sent'[r][i].what \in Codes <=> i = n + 1
    <2>1. \A i \in 1..n : i # n + 1
      BY <1>s
    <2> QED BY <1>c, <1>d, <1>s, <1>t, <2>1
  <1>2. (\E i \in DOMAIN sent'[r] : sent'[r][i].what = "delta") <=> h[r].contentEmitted
    <2>1. h[r].contentEmitted <=> \E i \in 1..n : sent[r][i].what = "delta"
      BY <1>0, <1>s DEF RequestOK, EndOK
    <2>2. (\E i \in DOMAIN sent'[r] : sent'[r][i].what = "delta")
             <=> (\E i \in 1..n : sent[r][i].what = "delta")
      <3>1. 1..n \subseteq DOMAIN sent'[r]
        BY <1>s
      <3> QED BY <1>d, <1>s, <1>w, <3>1
    <2> QED BY <2>1, <2>2
  <1>3. SplicedOK(r)'
    <2>1. ASSUME NEW i \in DOMAIN sent'[r], IsChunk(sent'[r][i]) PROVE i \in 1..n
      BY <1>d, <1>s, <1>w, <2>1 DEF IsChunk
    <2> QED BY <1>0, <1>s, <2>1 DEF RequestOK, SplicedOK
  <1>4. ASSUME What(r) = "toolStream", NEW i \in DOMAIN sent'[r], IsChunk(sent'[r][i]),
               sent'[r][i].hop = 2
        PROVE  Notices(r, i)' = h[r].made
    <2>1. i \in 1..n
      BY <1>d, <1>s, <1>w, <1>4 DEF IsChunk
    <2> QED BY <1>0, <1>n, <1>s, <1>4, <2>1 DEF RequestOK, ResolvedOK
  <1>5. What(r) = "toolStream" => Notices(r, Len(sent[r]))' = h[r].made
    BY <1>m, <1>n
  <1> QED BY <1>1, <1>2, <1>3, <1>4, <1>5, <1>s DEF LastSays

\* ... or has been before.
LEMMA LastKept ==
    ASSUME Inv, NEW r \in Requests, EndSent(r), At(r, "settle"), sent'[r] = sent[r]
    PROVE  LastSays(r, EndCode(r))
  <1>0. Base /\ RequestOK(r) /\ h[r] \in Handler
    BY DEF Inv, Base
  <1>1. /\ Len(sent[r]) \in Nat /\ DOMAIN sent[r] = 1..Len(sent[r]) /\ sent[r] \in Seq(Events)
        /\ \A i \in DOMAIN sent[r] : sent[r][i].what \in {"delta", "reasoning", "tool"} \cup Codes
    BY <1>0, SentTyped
  <1>2. sent[r] # <<>> /\ sent[r][Len(sent[r])].what = EndCode(r)
        /\ \A i \in DOMAIN sent[r] : sent[r][i].what \in Codes <=> i = Len(sent[r])
    BY <1>0 DEF RequestOK, EndOK
  <1>3. Len(sent[r]) >= 1
    BY <1>1, <1>2
  <1>4. (\E i \in DOMAIN sent[r] : sent[r][i].what = "delta") <=> h[r].contentEmitted
    BY <1>0 DEF RequestOK, EndOK, At
  <1>5. SplicedOK(r)'
    BY <1>0 DEF RequestOK, SplicedOK
  <1>6. \A n : Notices(r, n)' = Notices(r, n)
    BY DEF Notices
  <1>7. Notices(r, Len(sent[r]))' = Notices(r, Len(sent[r]))
    BY DEF Notices
  <1>8. h[r].calls = 0
    <2>1. h[r].calls \in Nat
      BY <1>0, Bounds DEF Handler
    <2> QED BY <1>0, <2>1 DEF RequestOK, ToolsOK, At
  <1>9. Notices(r, Len(sent[r])) \in Nat
    <2>0. IsFiniteSet(1..Len(sent[r]))
      BY <1>1, FS_Interval
    <2>1. IsFiniteSet({i \in 1..Len(sent[r]) : sent[r][i].what = "tool"})
      BY <2>0, FS_Subset
    <2> QED BY <2>1, FS_CardinalityType DEF Notices
  <1>10. What(r) = "toolStream" =>
            /\ \A i \in DOMAIN sent[r] :
                  IsChunk(sent[r][i]) /\ sent[r][i].hop = 2 => Notices(r, i) = h[r].made
            /\ Notices(r, Len(sent[r])) = h[r].made
    BY <1>0, <1>8, <1>9 DEF RequestOK, ResolvedOK, ToolsOK, At
  <1> QED BY <1>1, <1>2, <1>3, <1>4, <1>5, <1>6, <1>7, <1>10 DEF LastSays

\* The client is told the one end there is.
LEMMA ToldLast ==
    ASSUME NEW r \in Requests, NEW w, LastSays(r, w)
    PROVE  Told(r)' = w
  <1> DEFINE n == Len(sent'[r])
  <1>1. n \in DOMAIN sent'[r] /\ n \in Nat
    BY DEF LastSays
  <1>2. Ends(r)' = {n}
    BY <1>1 DEF Ends, LastSays
  <1>3. \A i : i \in {n} => i = n
    OBVIOUS
  <1>4. (CHOOSE i \in {n} : \A j \in {n} : i <= j) = n
    BY <1>1
  <1>5. sent'[r][n].what = w
    BY DEF LastSays
  <1> HIDE DEF n
  <1> QED BY <1>2, <1>4, <1>5 DEF Told

\* What the response may say.
LEMMA EndCodes ==
    ASSUME Inv, NEW r \in Requests
    PROVE  /\ EndCode(r) \in Sane \cup {"truncated", "reasoning_exhausted"}
           /\ EndCode(r) \in Codes /\ Status(r) \in {"queued", "done", "failed"}
           /\ EndCode(r) \notin {"deferred", "overloaded"}
  <1>1. h[r].code \in Sane
    BY DEF Inv, RequestOK, EndOK, Sane
  <1>2. EndCode(r) \in Sane \cup {"truncated", "reasoning_exhausted"}
    BY <1>1 DEF EndCode, Sane
  <1> QED BY <1>2 DEF Sane, Codes, Status

\* The handler has returned.
Ended(r, g, w) ==
    /\ g \in Handler /\ Becomes(r, g) /\ LastSays(r, w)
    /\ g.pc = "end" /\ g.kind = h[r].kind /\ g.code = h[r].code /\ g.made = h[r].made
    /\ g.calls = 0 /\ g.chunks = 0
    /\ \/ h[r].pc = "idle" /\ w \in {"deferred", "overloaded"}
       \/ h[r].pc = "settle" /\ w = EndCode(r)

\* What the invariant says of r then holds: the flags and EndCode agree with the events.
LEMMA EndedOK ==
    ASSUME Inv, NEW r \in Requests, NEW g, NEW w, Ended(r, g, w)
    PROVE  RequestOK(r)'
  <1>0. Base /\ RequestOK(r) /\ h[r] \in Handler
    BY DEF Inv, Base
  <1>1. /\ h'[r].pc = "end" /\ h'[r].kind = h[r].kind /\ h'[r].code = h[r].code
        /\ h'[r].made = h[r].made /\ h'[r].calls = 0 /\ h'[r].chunks = 0
    BY DEF Ended, Becomes, Alike
  <1>2. LastSays(r, w)
    BY DEF Ended
  <1>3. At(r, "end")' /\ EndSent(r)' /\ ~At(r, "settle")' /\ ~At(r, "idle")' /\ ~Busy(r)'
        /\ ~At(r, "slot")' /\ ~At(r, "tools")' /\ ~At(r, "read")'
    BY <1>1 DEF At, EndSent, Busy
  <1>4. What(r)' = What(r) /\ Streamed(r)' = Streamed(r)
    BY <1>1 DEF What, Streamed
  <1>5. ChunksOK(r)'
    BY <1>1, <1>3 DEF ChunksOK
  <1>6. SplicedOK(r)'
    BY <1>2 DEF LastSays
  <1>7. ToolsOK(r)'
    BY <1>1, <1>3 DEF ToolsOK
  <1>8. ResolvedOK(r)'
    BY <1>1, <1>2, <1>4 DEF ResolvedOK, LastSays
  <1>9. EndOK(r)'
    <2>1. h[r].code \in Sane
      BY <1>0 DEF RequestOK, EndOK, Sane
    <2>2. sent'[r] # <<>>
      BY <1>2 DEF LastSays
    <2>3. \A i \in DOMAIN sent'[r] : sent'[r][i].what \in Codes <=> i = Len(sent'[r])
      BY <1>2 DEF LastSays
    <2> QED BY <1>1, <1>3, <2>1, <2>2, <2>3 DEF EndOK, Sane
  <1>10. TruthOK(r)'
    <2>1. Told(r)' = w
      BY <1>2, ToldLast
    <2>2. HasContent(r)' <=> h[r].contentEmitted
      BY <1>2 DEF LastSays, HasContent
    <2>3. \A i \in 1..(Len(sent'[r]) - 1) : IsChunk(sent'[r][i]) \/ sent'[r][i].what = "tool"
      <3>1. \A i \in 1..(Len(sent'[r]) - 1) : i \in DOMAIN sent'[r] /\ i # Len(sent'[r])
        BY <1>2 DEF LastSays
      <3> QED BY <1>2, <3>1 DEF LastSays, IsChunk
    <2>4. ASSUME Streamed(r)
          PROVE  /\ w \in {"ok", "truncated"} => h[r].contentEmitted
                 /\ h[r].contentEmitted /\ What(r) = "stream" /\ ~h[r].kind.format
                       => w \in {"ok", "truncated"}
      <3>1. CASE h[r].pc = "idle"
        <4>1. sent[r] = <<>>
          BY <1>0, <3>1 DEF RequestOK, EndOK, At
        <4>2. ~h[r].contentEmitted
          BY <1>0, <3>1, <4>1 DEF RequestOK, EndOK, At
        <4>3. w \in {"deferred", "overloaded"}
          BY <3>1 DEF Ended
        <4> QED BY <4>2, <4>3
      <3>2. CASE h[r].pc # "idle"
        <4>1. w = EndCode(r)
          BY <3>2 DEF Ended
        <4>2. h[r].code \in Sane
          BY <1>0 DEF RequestOK, EndOK, Sane
        <4> QED BY <2>4, <4>1, <4>2 DEF EndCode, Sane
      <3> QED BY <3>1, <3>2
    <2>5. h'[r].kind.format = h[r].kind.format
      BY <1>1
    <2> QED BY <1>4, <2>1, <2>2, <2>3, <2>4, <2>5 DEF TruthOK
  <1> QED BY <1>5, <1>6, <1>7, <1>8, <1>9, <1>10 DEF RequestOK

\* The types after a step that ends a request.
LEMMA EndedBase ==
    ASSUME Inv, NEW r \in Requests, NEW g, Becomes(r, g),
           sent' \in [Requests -> Seq(Events)], UNCHANGED <<up, crashes>>,
           over' \in [Requests -> BOOLEAN],
           \/ history' = history
           \/ \E s \in {"queued", "done", "failed"} : recordJob(r, s)
    PROVE  Base'
  <1>1. Base
    BY DEF Inv
  <1>2. history' \in Seq(Entry) /\ Len(history') <= jobHistoryMax
    BY <1>1, Records DEF Base
  <1> QED BY <1>1, <1>2 DEF Base, Becomes

\* A request that is deferred or turned away ends without a call.
LEMMA deferToRelayStep == ASSUME Inv, NEW r \in Requests, deferToRelay(r) PROVE Inv'
  <1> DEFINE g == [h[r] EXCEPT !.pc = "end"]
  <1>1. Base /\ RequestOK(r) /\ h[r] \in Handler /\ h[r].pc = "idle" /\ ~EndSent(r) /\ ~Busy(r)
    BY DEF Inv, Base, deferToRelay, At, EndSent, Busy
  <1>2. PICK w \in {"deferred", "overloaded"} :
            /\ Write(r, w)
            /\ \/ w = "deferred" /\ recordJob(r, "queued")
               \/ w = "overloaded" /\ history' = history
    BY DEF deferToRelay
  <1>3. Becomes(r, g)
    BY <1>1, Places, GotoBecomes DEF deferToRelay
  <1>4. /\ g \in Handler /\ g.pc = "end" /\ g.kind = h[r].kind /\ g.code = h[r].code
        /\ g.made = h[r].made /\ g.calls = h[r].calls /\ g.chunks = h[r].chunks
    BY <1>1, PcSet, Places
  <1> HIDE DEF g
  <1>5. h[r].calls = 0 /\ h[r].chunks = 0
    <2>1. h[r].calls \in Nat
      BY <1>1, Bounds DEF Handler
    <2> QED BY <1>1, <2>1 DEF RequestOK, ToolsOK, ChunksOK, At
  <1>6. w \in Codes
    BY DEF Codes
  <1>7. LastSays(r, w)
    BY <1>1, <1>2, <1>5, <1>6, LastWritten DEF At
  <1>8. RequestOK(r)'
    <2>1. Ended(r, g, w)
      BY <1>1, <1>3, <1>4, <1>5, <1>7 DEF Ended
    <2> QED BY <2>1, EndedOK
  <1>9. sent' \in [Requests -> Seq(Events)] /\ \A q \in Requests : q # r => sent'[q] = sent[q]
    BY <1>1, <1>2, <1>6, Writes
  <1>10. ASSUME NEW q \in Requests, q # r PROVE Untouched(q)
    BY <1>3, <1>9, <1>10 DEF Untouched, Becomes
  <1>11. Base'
    <2>1. over' \in [Requests -> BOOLEAN] /\ UNCHANGED <<up, crashes>>
      BY <1>1 DEF deferToRelay, Base
    <2> QED BY <1>2, <1>3, <1>9, <2>1, EndedBase
  <1>12. SlotsCounted'
    <2>1. free' = free
      BY DEF deferToRelay
    <2> QED BY <1>1, <1>3, <1>4, <2>1, SlotsKept
  <1>13. HistoryOK'
    <2>1. CASE w = "deferred" /\ recordJob(r, "queued")
      <3>1. Told(r)' = "deferred"
        BY <1>7, <2>1, ToldLast
      <3>2. ToldStatus(r)' = "queued"
        BY <3>1 DEF ToldStatus
      <3>3. At(r, "end")'
        BY <1>3, <1>4 DEF Becomes, Alike, At
      <3>4. FiledOK(r, "queued")'
        BY <3>2, <3>3 DEF FiledOK
      <3> QED BY <1>1, <1>10, <2>1, <3>4, RecordedOK DEF At
    <2>2. CASE history' = history
      <3>1. \A s : ~FiledOK(r, s)
        BY <1>1 DEF FiledOK, At
      <3> QED BY <1>10, <2>2, <3>1, UnrecordedOK
    <2> QED BY <1>2, <2>1, <2>2
  <1>14. ASSUME NEW q \in Requests PROVE RequestOK(q)'
    BY <1>8, <1>10, OthersKeep DEF Inv
  <1> QED BY <1>11, <1>12, <1>13, <1>14 DEF Inv

\* The second of the two writes: the history and the client have heard the same.
LEMMA CloseStep == ASSUME Inv, NEW r \in Requests, Close(r) PROVE Inv'
  <1> DEFINE k == NewHandler(h[r].kind)
             f == [k EXCEPT !.pc = "end"]
             f1 == [f EXCEPT !.code = h[r].code]
             g == [f1 EXCEPT !.made = h[r].made]
  <1>1. Base /\ RequestOK(r) /\ h[r] \in Handler /\ h[r].pc = "settle" /\ ~Busy(r)
    BY DEF Inv, Base, Close, At, Busy
  <1>2. h[r].kind \in Kind /\ h[r].code \in Codes /\ h[r].made \in Nat
    BY <1>1 DEF Handler
  <1>3. k \in Handler /\ k.kind = h[r].kind /\ k.calls = 0 /\ k.chunks = 0
    <2>1. /\ 0 \in 0..MaxChunks /\ 0 \in 0..MaxToolCalls /\ "none" \in Codes /\ 0 \in Nat
          /\ 1 \in 1..2
      BY Bounds DEF Codes
    <2> QED BY <1>2, <2>1, Places DEF NewHandler, Handler
  <1>4. h' = [h EXCEPT ![r] = [k EXCEPT !.pc = "end", !.code = h[r].code, !.made = h[r].made]]
    BY DEF Close
  <1> HIDE DEF k
  <1>5. h' = [h EXCEPT ![r] = g]
    BY <1>3, <1>4 DEF Handler
  <1>6. f \in Handler /\ f.pc = "end" /\ f.kind = k.kind /\ f.calls = k.calls /\ f.chunks = k.chunks
    BY <1>3, PcSet, Places
  <1> HIDE DEF f
  <1>7. /\ f1 \in Handler /\ f1.pc = f.pc /\ f1.kind = f.kind /\ f1.calls = f.calls
        /\ f1.chunks = f.chunks /\ f1.code = h[r].code
    BY <1>2, <1>6 DEF Handler
  <1> HIDE DEF f1
  <1>8. /\ g \in Handler /\ g.pc = f1.pc /\ g.kind = f1.kind /\ g.calls = f1.calls
        /\ g.chunks = f1.chunks /\ g.code = f1.code /\ g.made = h[r].made
    BY <1>2, <1>7 DEF Handler
  <1> HIDE DEF g
  <1>9. Becomes(r, g)
    BY <1>1, <1>5, <1>8, HandlerSet
  <1>10. EndCode(r) \in Codes /\ Status(r) \in {"queued", "done", "failed"}
         /\ EndCode(r) # "deferred"
    BY EndCodes
  <1>11. h[r].calls = 0
    <2>1. h[r].calls \in Nat
      BY <1>1, Bounds DEF Handler
    <2> QED BY <1>1, <2>1 DEF RequestOK, ToolsOK
  <1>12. /\ LastSays(r, EndCode(r))
         /\ sent' \in [Requests -> Seq(Events)] /\ \A q \in Requests : q # r => sent'[q] = sent[q]
    <2>1. CASE RecordedFirst(r)
      <3>1. Write(r, EndCode(r)) /\ ~EndSent(r) /\ ~At(r, "end")
        BY <1>1, <2>1 DEF Close, EndSent, At
      <3> QED BY <1>1, <1>10, <1>11, <3>1, LastWritten, Writes
    <2>2. CASE ~RecordedFirst(r)
      <3>1. sent' = sent /\ EndSent(r) /\ At(r, "settle")
        BY <1>1, <2>2 DEF Close, EndSent, At
      <3> QED BY <1>1, <3>1, LastKept DEF Base
    <2> QED BY <2>1, <2>2
  <1>13. RequestOK(r)'
    <2>1. Ended(r, g, EndCode(r))
      BY <1>1, <1>3, <1>6, <1>7, <1>8, <1>9, <1>12 DEF Ended
    <2> QED BY <2>1, EndedOK
  <1>14. ASSUME NEW q \in Requests, q # r PROVE Untouched(q)
    BY <1>9, <1>12, <1>14 DEF Untouched, Becomes
  <1>15. Base'
    <2>1. over' \in [Requests -> BOOLEAN] /\ UNCHANGED <<up, crashes>>
      BY <1>1 DEF Close, Base
    <2>2. history' = history \/ recordJob(r, Status(r))
      BY DEF Close
    <2> QED BY <1>9, <1>10, <1>12, <2>1, <2>2, EndedBase
  <1>16. SlotsCounted'
    <2>1. free' = free
      BY DEF Close
    <2> QED BY <1>1, <1>6, <1>7, <1>8, <1>9, <2>1, SlotsKept
  <1>17. HistoryOK'
    <2>1. At(r, "end")' /\ ToldStatus(r)' = Status(r)
      <3>1. Told(r)' = EndCode(r)
        BY <1>12, ToldLast
      <3>2. At(r, "end")'
        BY <1>6, <1>7, <1>8, <1>9 DEF Becomes, Alike, At
      <3> QED BY <1>10, <3>1, <3>2 DEF ToldStatus, Status
    <2>2. CASE RecordedFirst(r)
      <3>1. \A s : FiledOK(r, s) => s = Status(r)
        BY <1>1 DEF FiledOK, At
      <3>2. \A s : s = Status(r) => FiledOK(r, s)'
        BY <2>1 DEF FiledOK
      <3>3. history' = history
        BY <2>2 DEF Close
      <3> QED BY <1>14, <3>1, <3>2, <3>3, UnrecordedOK
    <2>3. CASE ~RecordedFirst(r)
      <3>1. PICK s : s = Status(r)
        OBVIOUS
      <3>2. recordJob(r, s)
        BY <2>3, <3>1 DEF Close
      <3>3. FiledOK(r, s)'
        BY <2>1, <3>1 DEF FiledOK
      <3> QED BY <1>1, <1>10, <1>14, <2>3, <3>1, <3>2, <3>3, RecordedOK DEF At
    <2> QED BY <2>2, <2>3
  <1>18. ASSUME NEW q \in Requests PROVE RequestOK(q)'
    BY <1>13, <1>14, OthersKeep DEF Inv
  <1> QED BY <1>15, <1>16, <1>17, <1>18 DEF Inv

\* The first of the two: the other one is still to come, and its verdict cannot change.
LEMMA SettleStep == ASSUME Inv, NEW r \in Requests, Settle(r) PROVE Inv'
  <1> DEFINE g == [h[r] EXCEPT !.pc = "settle"]
  <1>1. /\ Base /\ RequestOK(r) /\ h[r] \in Handler /\ h[r].pc = "returned" /\ ~EndSent(r)
        /\ ~At(r, "end") /\ ~Busy(r)
    BY DEF Inv, Base, Settle, Finished, At, EndSent, Busy
  <1>2. Becomes(r, g)
    BY <1>1, Places, GotoBecomes DEF Settle
  <1>3. /\ g.pc = "settle" /\ g.kind = h[r].kind /\ g.hop = h[r].hop /\ g.chunks = h[r].chunks
        /\ g.contentEmitted = h[r].contentEmitted /\ g.reasoningEmitted = h[r].reasoningEmitted
        /\ g.calls = h[r].calls /\ g.made = h[r].made /\ g.code = h[r].code
        /\ g.lengthLimited = h[r].lengthLimited
    BY <1>1, PcSet, Places
  <1> HIDE DEF g
  <1>4. /\ h'[r].pc = "settle" /\ h'[r].kind = h[r].kind /\ h'[r].hop = h[r].hop
        /\ h'[r].chunks = h[r].chunks /\ h'[r].contentEmitted = h[r].contentEmitted
        /\ h'[r].reasoningEmitted = h[r].reasoningEmitted /\ h'[r].calls = h[r].calls
        /\ h'[r].made = h[r].made /\ h'[r].code = h[r].code
        /\ h'[r].lengthLimited = h[r].lengthLimited
    BY <1>2, <1>3 DEF Becomes, Alike
  <1>5. /\ What(r)' = What(r) /\ EndCode(r)' = EndCode(r)
        /\ RecordedFirst(r)' = RecordedFirst(r) /\ Status(r)' = Status(r)
    <2>1. What(r)' = What(r)
      BY <1>4 DEF What
    <2>2. Streamed(r)' = Streamed(r)
      BY <2>1 DEF Streamed
    <2>3. EndCode(r)' = EndCode(r)
      BY <1>4, <2>1, <2>2 DEF EndCode
    <2>4. RecordedFirst(r)' = RecordedFirst(r)
      BY <1>4, <2>1, <2>2 DEF RecordedFirst
    <2>5. Status(r)' = Status(r)
      BY <2>3 DEF Status
    <2> QED BY <2>1, <2>3, <2>4, <2>5
  <1>6. At(r, "settle")' /\ ~At(r, "end")' /\ ~At(r, "idle")' /\ ~Busy(r)' /\ ~At(r, "slot")'
        /\ ~At(r, "tools")' /\ ~At(r, "read")'
    BY <1>4 DEF At, Busy
  <1>7. h[r].calls = 0 /\ h[r].chunks = 0 /\ h[r].hop \in 1..2
    <2>1. h[r].calls \in Nat /\ h[r].hop \in 1..2
      BY <1>1, Bounds DEF Handler
    <2>2. ~(h[r].calls > 0)
      BY <1>1 DEF RequestOK, ToolsOK, Settle, Finished
    <2>3. h[r].chunks = 0
      BY <1>1 DEF RequestOK, ChunksOK, At
    <2> QED BY <2>1, <2>2, <2>3
  <1>8. EndCode(r) \in Codes /\ Status(r) \in {"queued", "done", "failed"}
    BY EndCodes
  <1>9. h[r].code \in Sane
    BY <1>1 DEF RequestOK, EndOK, Sane
  <1>10. free' = free /\ UNCHANGED <<over, up, crashes>>
    BY DEF Settle
  <1>11. over' \in [Requests -> BOOLEAN]
    BY <1>1, <1>10 DEF Base
  <1>12. SlotsCounted'
    BY <1>1, <1>2, <1>3, <1>10, SlotsKept
  <1>13. CASE RecordedFirst(r)
    <2>1. recordJob(r, Status(r)) /\ sent' = sent
      BY <1>13 DEF Settle
    <2>2. ~EndSent(r)'
      BY <1>5, <1>6, <1>13 DEF EndSent
    <2>3. ASSUME NEW q \in Requests, q # r PROVE Untouched(q)
      BY <1>2, <2>1, <2>3 DEF Untouched, Becomes
    <2>4. Base'
      BY <1>1, <1>2, <1>8, <1>10, <1>11, <2>1, EndedBase DEF Base
    <2>5. HistoryOK'
      <3>1. PICK s : s = Status(r)
        OBVIOUS
      <3>2. FiledOK(r, s)'
        BY <1>5, <1>6, <1>13, <3>1 DEF FiledOK
      <3> QED BY <1>1, <1>8, <2>1, <2>3, <3>1, <3>2, RecordedOK DEF At
    <2>6. ChunksOK(r)'
      BY <1>1, <1>4, <1>6, <1>7, <2>1 DEF ChunksOK, RequestOK
    <2>7. SplicedOK(r)'
      BY <1>1, <2>1 DEF SplicedOK, RequestOK
    <2>8. \A n : Notices(r, n)' = Notices(r, n)
      BY <2>1 DEF Notices
    <2>9. Notices(r, Len(sent[r]))' = Notices(r, Len(sent[r]))
      BY <2>1 DEF Notices
    <2>10. ToolsOK(r)'
      BY <1>1, <1>4, <1>5, <1>6, <1>7, <2>9 DEF ToolsOK, RequestOK
    <2>11. ResolvedOK(r)'
      BY <1>1, <1>4, <1>5, <1>6, <2>1, <2>8 DEF ResolvedOK, RequestOK
    <2>12. EndOK(r)'
      BY <1>1, <1>4, <1>6, <1>9, <2>1, <2>2 DEF EndOK, RequestOK, Sane
    <2>13. TruthOK(r)'
      BY <1>6 DEF TruthOK
    <2>14. ASSUME NEW q \in Requests PROVE RequestOK(q)'
      <3>1. CASE q = r
        BY <2>6, <2>7, <2>10, <2>11, <2>12, <2>13, <3>1 DEF RequestOK
      <3>2. CASE q # r
        BY <2>3, <3>2, OthersKeep DEF Inv
      <3> QED BY <3>1, <3>2
    <2> QED BY <1>12, <2>4, <2>5, <2>14 DEF Inv
  <1>14. CASE ~RecordedFirst(r)
    <2>1. Write(r, EndCode(r)) /\ history' = history
      BY <1>14 DEF Settle
    <2>2. EndSent(r)'
      BY <1>5, <1>6, <1>14 DEF EndSent
    <2>3. LastSays(r, EndCode(r))
      BY <1>1, <1>7, <1>8, <2>1, LastWritten
    <2>4. /\ sent' \in [Requests -> Seq(Events)] /\ \A q \in Requests : q # r => sent'[q] = sent[q]
      BY <1>1, <1>8, <2>1, Writes
    <2>5. ASSUME NEW q \in Requests, q # r PROVE Untouched(q)
      BY <1>2, <2>4, <2>5 DEF Untouched, Becomes
    <2>6. Base'
      BY <1>2, <1>10, <1>11, <2>1, <2>4, EndedBase
    <2>7. HistoryOK'
      <3>1. \A s : ~FiledOK(r, s)
        BY <1>1 DEF FiledOK, At
      <3> QED BY <2>1, <2>5, <3>1, UnrecordedOK
    <2>8. ChunksOK(r)'
      <3> DEFINE n == Len(sent[r])
      <3>1. /\ n \in Nat /\ DOMAIN sent[r] = 1..n /\ DOMAIN sent'[r] = 1..(n + 1)
            /\ \A i \in 1..n : sent'[r][i] = sent[r][i]
            /\ sent'[r][n + 1].hop = h[r].hop
        BY <1>1, <1>8, <2>1, Writes
      <3>2. \A i \in 1..n : sent[r][i].hop <= h[r].hop
        BY <1>1, <3>1 DEF RequestOK, ChunksOK
      <3> HIDE DEF n
      <3>3. \A i \in DOMAIN sent'[r] : i \in 1..n \/ i = n + 1
        BY <3>1
      <3>4. \A i \in DOMAIN sent'[r] : sent'[r][i].hop <= h[r].hop
        BY <1>7, <3>1, <3>2, <3>3
      <3> QED BY <1>4, <1>6, <1>7, <3>4 DEF ChunksOK
    <2>9. SplicedOK(r)'
      BY <2>3 DEF LastSays
    <2>10. ToolsOK(r)'
      <3>1. What(r) = "toolStream" => Notices(r, Len(sent[r]))' = h[r].made
        BY <2>3 DEF LastSays
      <3>2. h[r].made \in Nat
        BY <1>1 DEF Handler
      <3>3. What(r)' = "toolStream" => h'[r].made = Notices(r, Len(sent[r]))' + h'[r].calls
        BY <1>4, <1>5, <1>7, <3>1, <3>2
      <3> QED BY <1>4, <1>6, <1>7, <3>3 DEF ToolsOK
    <2>11. ResolvedOK(r)'
      BY <1>4, <1>5, <1>6, <2>3 DEF ResolvedOK, LastSays
    <2>12. EndOK(r)'
      <3>1. sent'[r] # <<>> /\ sent'[r][Len(sent'[r])].what = EndCode(r)'
        BY <1>5, <2>3 DEF LastSays
      <3>2. \A i \in DOMAIN sent'[r] : sent'[r][i].what \in Codes <=> i = Len(sent'[r])
        BY <2>3 DEF LastSays
      <3>3. h'[r].contentEmitted <=> \E i \in DOMAIN sent'[r] : sent'[r][i].what = "delta"
        BY <1>4, <2>3 DEF LastSays
      <3> QED BY <1>4, <1>6, <1>9, <2>2, <3>1, <3>2, <3>3 DEF EndOK, Sane
    <2>13. TruthOK(r)'
      BY <1>6 DEF TruthOK
    <2>14. ASSUME NEW q \in Requests PROVE RequestOK(q)'
      <3>1. CASE q = r
        BY <2>8, <2>9, <2>10, <2>11, <2>12, <2>13, <3>1 DEF RequestOK
      <3>2. CASE q # r
        BY <2>5, <3>2, OthersKeep DEF Inv
      <3> QED BY <3>1, <3>2
    <2> QED BY <1>12, <2>6, <2>7, <2>14 DEF Inv
  <1> QED BY <1>13, <1>14
-----------------------------------------------------------------------------
(***************************************************************************)
(* The theorems                                                            *)
(***************************************************************************)

\* The invariant holds at the start ...
LEMMA StreamInit == ASSUME Init PROVE Inv
  <1>1. PICK k \in [Requests -> Kind] :
           h = [r \in Requests |-> [NewHandler(k[r]) EXCEPT !.pc = "idle"]]
    BY DEF Init
  <1>2. ASSUME NEW m \in Kind
        PROVE  LET f == [NewHandler(m) EXCEPT !.pc = "idle"]
               IN  /\ f \in Handler /\ f.pc = "idle" /\ f.chunks = 0 /\ f.calls = 0
                   /\ f.made = 0 /\ f.code = "none" /\ ~f.contentEmitted
    <2>1. /\ 0 \in 0..MaxChunks /\ 0 \in 0..MaxToolCalls /\ "none" \in Codes /\ 0 \in Nat
          /\ 1 \in 1..2
      BY Bounds DEF Codes
    <2>2. NewHandler(m) \in Handler
      BY <2>1, Places DEF NewHandler, Handler
    <2>3. /\ NewHandler(m).chunks = 0 /\ NewHandler(m).calls = 0 /\ NewHandler(m).made = 0
          /\ NewHandler(m).code = "none" /\ ~NewHandler(m).contentEmitted
      BY DEF NewHandler
    <2> QED BY <2>2, <2>3, PcSet, Places
  <1>3. ASSUME NEW r \in Requests
        PROVE  /\ h[r] \in Handler /\ h[r].pc = "idle" /\ h[r].chunks = 0 /\ h[r].calls = 0
               /\ h[r].made = 0 /\ h[r].code = "none" /\ ~h[r].contentEmitted
               /\ sent[r] = <<>> /\ DOMAIN sent[r] = {} /\ Len(sent[r]) = 0
    <2>1. h[r] = [NewHandler(k[r]) EXCEPT !.pc = "idle"] /\ k[r] \in Kind
      BY <1>1
    <2>2. sent[r] = <<>>
      BY DEF Init
    <2>3. DOMAIN sent[r] = {} /\ Len(sent[r]) = 0
      BY <2>2
    <2> QED BY <1>2, <2>1, <2>2, <2>3
  <1>4. Base
    <2>1. h \in [Requests -> Handler]
      BY <1>1, <1>3
    <2>2. sent \in [Requests -> Seq(Events)]
      BY DEF Init
    <2>3. history \in Seq(Entry) /\ Len(history) <= jobHistoryMax
      BY Bounds DEF Init
    <2>4. over \in [Requests -> BOOLEAN] /\ up \in BOOLEAN
      BY DEF Init
    <2>5. crashes \in 0..MaxCrashes
      BY Bounds DEF Init
    <2> QED BY <2>1, <2>2, <2>3, <2>4, <2>5 DEF Base
  <1>5. SlotsCounted
    <2>1. Holders = {}
      BY <1>3 DEF Holders, Busy
    <2>2. IsFiniteSet({}) /\ Cardinality({}) = 0
      BY FS_EmptySet
    <2> QED BY <2>1, <2>2, Bounds DEF SlotsCounted, Init
  <1>6. HistoryOK
    <2>1. DOMAIN history = {}
      BY DEF Init
    <2> QED BY <2>1 DEF HistoryOK
  <1>7. ASSUME NEW r \in Requests PROVE RequestOK(r)
    <2>1. Notices(r, Len(sent[r])) = 0
      <3>1. {i \in 1..0 : sent[r][i].what = "tool"} = {}
        OBVIOUS
      <3> QED BY <1>3, <3>1, FS_EmptySet DEF Notices
    <2>2. ChunksOK(r) /\ SplicedOK(r)
      BY <1>3 DEF ChunksOK, SplicedOK, At, Busy
    <2>3. ToolsOK(r) /\ ResolvedOK(r)
      BY <1>3, <2>1 DEF ToolsOK, ResolvedOK, At
    <2>4. EndOK(r) /\ TruthOK(r)
      BY <1>3 DEF EndOK, TruthOK, EndSent, At
    <2> QED BY <2>2, <2>3, <2>4 DEF RequestOK
  <1> QED BY <1>4, <1>5, <1>6, <1>7 DEF Inv

\* ... and every step keeps it.
LEMMA StreamStep == ASSUME Inv, [Next]_vars PROVE Inv'
  <1>1. CASE UNCHANGED vars
    <2>1. Base' /\ SlotsCounted' /\ history' = history
      BY <1>1 DEF vars, Inv, Base, SlotsCounted, Holders, Busy
    <2>2. \A q \in Requests : Untouched(q)
      BY <1>1 DEF vars, Untouched, Alike
    <2> QED BY <2>1, <2>2, AllUntouched
  <1>2. CASE Crash
    BY <1>2, OutsideSteps
  <1>3. ASSUME NEW r \in Requests,
               \/ Arrive(r) \/ deferToRelay(r) \/ ContextDone(r) \/ ServerStep(r)
               \/ Chunk(r, "delta") \/ Chunk(r, "reasoning") \/ StreamEnds(r)
               \/ LineTooLong(r)
        PROVE  Inv'
    <2>1. CASE ServerStep(r)
      BY <2>1, TakeSlotStep, SlotTimeoutStep, SelectStep, RestartStep, ConnectStep, StreamBreaksStep,
         InferReturnsStep, RunToolsStep, executeToolCallStep, SettleStep, CloseStep DEF ServerStep
    <2> QED BY <1>3, <2>1, ArriveStep, deferToRelayStep, OutsideSteps, ChunkStep, StreamEndsStep,
               LineTooLongStep
  <1> QED BY <1>1, <1>2, <1>3 DEF Next

\* The invariant holds throughout.
LEMMA StreamingSafe == Spec => []Inv
  BY StreamInit, StreamStep, PTL DEF Spec

\* Type correctness: the handlers' variables, the events of a response, the free slots and
\* the length of the job history stay in their ranges.  The slots are the hard part: a slot
\* is returned exactly once for each time it is taken, on every path out of InferStream.
THEOREM StreamTypeCorrect == Spec => []TypeOK
  BY StreamingSafe, InvImplies, PTL

\* The chunks of one answer come from one attempt of the llama.cpp client, whatever crashes
\* and whoever restarts llama-server: a retry happens only while nothing was passed on.
THEOREM OneAttemptPerAnswer == Spec => []NoSplicedAnswer
  BY StreamingSafe, InvImplies, PTL

\* runWithToolsStream announces every tool call of the first answer, each once, before
\* the second answer begins and before the response ends well.
THEOREM ToolsAreResolved == Spec => []ToolsResolved
  BY StreamingSafe, InvImplies, PTL

\* What hisclient's InferStream tells its caller agrees with the content it passed on.
THEOREM EndsTruthfully == Spec => []TruthfulEnd
  BY StreamingSafe, InvImplies, PTL

\* The job history has a request once, with the status its client was told, in whichever
\* order the handler writes the two.
THEOREM HistoryIsTrue == Spec => []HistoryAgrees
  BY StreamingSafe, InvImplies, PTL
=============================================================================
