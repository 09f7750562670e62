---------------------------- MODULE VramBackend ----------------------------
(***************************************************************************)
(* internal/backend/vram: the request path (Infer, InferStream,            *)
(* selectInner, selectAndLoad), the eviction loop and the orphan reaper,   *)
(* running concurrently over the per-tier backends of LlamaCpp.            *)
(*                                                                         *)
(* One action is one critical section of b.mu or one slow operation        *)
(* outside it (a VRAM query, a subprocess stop).  loadMu is held across    *)
(* several actions.  A VRAM reading is any value of AvailReadings: what    *)
(* the readings mean is the subject of Admission.  Time is abstracted: an  *)
(* idle timeout may elapse whenever no request is in flight.  The          *)
(* OOMSimulator hook is set by tests only and left out, and with it the    *)
(* retry loop around loadModel.                                            *)
(***************************************************************************)
EXTENDS LlamaCpp

CONSTANTS Requests,      \* concurrent callers of Infer and InferStream
          Tokenizers,    \* concurrent callers of Tokenize
          Evictor,       \* the eviction goroutine
          ReqKinds,      \* what a request may ask for
          AvailReadings, \* what AvailableMB may return; negative: no NVML
          QueryMayFail,  \* TRUE: AvailableMB may return an error
          UseReaper,     \* TRUE: opts.Reaper is set
          MaxArrivals    \* bound on requests and token counts started

ReqKind == [vision : BOOLEAN, pin : Tiers \cup {NoTier},
            min : TierLabel \cup {""}, stream : BOOLEAN, floor : BOOLEAN,
            chat : BOOLEAN] \* sent as a chat, and without max_tokens

ASSUME ConcurrencyAssumption ==
    /\ Actors = Requests \cup Tokenizers \cup {Evictor}
    /\ NoActor \notin Actors
    /\ Evictor \notin Requests \cup Tokenizers
    /\ Requests \cap Tokenizers = {}
    /\ ReqKinds \subseteq ReqKind
    /\ AvailReadings \subseteq Int
    /\ {SlowAnswers, StopMayFail, QueryMayFail, UseReaper} \subseteq BOOLEAN
    /\ {MaxPid, MaxArrivals} \subseteq Nat

VARIABLES loaded,    \* b.loadedTier, loadedLayers and loadedVision
          inflight,  \* b.inflight
          loadMu,    \* holder of b.loadMu
          rq,        \* the request path of each caller
          evict,     \* what the eviction goroutine is doing
          sweep,     \* the reaper sweep in progress
          arrivals   \* requests and token counts started so far

outerVars == <<loaded, inflight, loadMu, rq, evict, sweep, arrivals>>

vars == <<innerVars, call, outerVars>>

Load == [tier : Tiers \cup {NoTier}, layers : Int, vision : BOOLEAN]

NotLoaded == [tier |-> NoTier, layers |-> 0, vision |-> FALSE]

NoKind == [vision |-> FALSE, pin |-> NoTier, min |-> "", stream |-> FALSE, floor |-> FALSE,
           chat |-> FALSE]

IdleRequest == [pc |-> "idle", kind |-> NoKind, forced |-> NoTier,
                pick |-> NotLoaded, then |-> "idle"]

RequestPCs == {"idle", "sem", "select", "reuse", "choose", "load", "record",
               "selected", "infer", "evicting", "finish"}

TypeOK ==
    /\ InnerTypeOK
    /\ loaded \in Load
    /\ inflight \in 0..MaxParallel
    /\ loadMu \in Requests \cup {NoActor}
    /\ rq \in [Requests -> [pc : RequestPCs, kind : ReqKinds \cup {NoKind},
                            forced : Tiers \cup {NoTier}, pick : Load,
                            then : RequestPCs]]
    /\ evict \in {"tick", "pressure", "idleStop", "pressureStop"}
    /\ sweep \in [step : {"off", "owned", "ports"}, owned : SUBSET (0..MaxPid),
                  todo : SUBSET Tiers]
    /\ arrivals \in 0..MaxArrivals

NoSweep == [step |-> "off", owned |-> {}, todo |-> {}]

Init ==
    /\ InnerInit
    /\ loaded = NotLoaded
    /\ inflight = 0
    /\ loadMu = NoActor
    /\ rq = [r \in Requests |-> IdleRequest]
    /\ evict = "tick"
    /\ sweep = NoSweep
    /\ arrivals = 0
-----------------------------------------------------------------------------
Kind(r) == rq[r].kind

At2(r, p) == rq[r].pc = p

RGoto(r, p) == rq' = [rq EXCEPT ![r].pc = p]

\* A process number the reaper remembers is not used again meanwhile.
Held == sweep.owned

HoldsSlot(r) == rq[r].pc \notin {"idle", "sem"}

Unlock(r) == loadMu' = IF loadMu = r THEN NoActor ELSE loadMu

\* evictLocked followed by the call of stopInner, whose own steps come later.
EvictLocked(a) ==
    /\ loaded' = NotLoaded
    /\ call' = IF loaded.tier = NoTier THEN call
               ELSE [call EXCEPT ![a] = ShutdownCall(loaded.tier)]

\* The request evicts what is loaded and continues at `next` (at once when
\* nothing was loaded).
EvictThen(r, next, req) ==
    /\ EvictLocked(r)
    /\ rq' = [rq EXCEPT ![r] =
                 [req EXCEPT !.pc = IF loaded.tier = NoTier THEN next ELSE "evicting",
                             !.then = IF loaded.tier = NoTier THEN "idle" ELSE next]]
-----------------------------------------------------------------------------
(***************************************************************************)
(* Infer and InferStream                                                   *)
(***************************************************************************)

Arrive(r) ==
    /\ At2(r, "idle")
    /\ arrivals < MaxArrivals
    /\ \E k \in ReqKinds : rq' = [rq EXCEPT ![r].pc = "sem", ![r].kind = k]
    /\ arrivals' = arrivals + 1
    /\ UNCHANGED <<innerVars, call, loaded, inflight, loadMu, evict, sweep>>

\* A slot of b.sem, b.inflight++, and selectInner's validation of the pin.
AcquireSlot(r) ==
    /\ At2(r, "sem")
    /\ Cardinality({q \in Requests : HoldsSlot(q)}) < MaxParallel
    /\ inflight' = inflight + 1
    /\ rq' = [rq EXCEPT ![r].forced = Kind(r).pin, ![r].pc =
                 IF Kind(r).pin # NoTier /\ Kind(r).vision /\ ~HasVision(Kind(r).pin)
                 THEN "finish" ELSE "select"]
    /\ UNCHANGED <<innerVars, call, loaded, loadMu, evict, sweep, arrivals>>

\* Slip: the deferred b.inflight-- also runs for a caller that never got a slot.
CancelWaitCounted(r) ==
    /\ At2(r, "sem")
    /\ inflight' = inflight - 1
    /\ rq' = [rq EXCEPT ![r] = IdleRequest]
    /\ UNCHANGED <<innerVars, call, loaded, loadMu, evict, sweep, arrivals>>

\* The caller gives up before a slot is free.
CancelWait(r) ==
    /\ At2(r, "sem")
    /\ rq' = [rq EXCEPT ![r] = IdleRequest]
    /\ UNCHANGED <<innerVars, call, loaded, inflight, loadMu, evict, sweep, arrivals>>

\* Slip: the decision is not serialised by loadMu.
SelectCheckUnlocked(r) ==
    /\ At2(r, "select")
    /\ IF loaded.tier = NoTier
       THEN RGoto(r, "choose") /\ UNCHANGED <<loaded, call>>
       ELSE IF loaded.vision # Kind(r).vision
       THEN EvictThen(r, "choose", rq[r])
       ELSE RGoto(r, "choose") /\ UNCHANGED <<loaded, call>>
    /\ UNCHANGED <<innerVars, inflight, loadMu, evict, sweep, arrivals>>

\* Slip: the mode the model was loaded in is not part of its identity.
SelectCheckAnyMode(r) ==
    /\ At2(r, "select")
    /\ loadMu = NoActor
    /\ loadMu' = r
    /\ IF loaded.tier # NoTier /\ rq[r].forced \in {NoTier, loaded.tier}
       THEN /\ rq' = [rq EXCEPT ![r].pc = "reuse", ![r].pick = loaded]
            /\ UNCHANGED <<loaded, call>>
       ELSE RGoto(r, "choose") /\ UNCHANGED <<loaded, call>>
    /\ UNCHANGED <<innerVars, inflight, evict, sweep, arrivals>>

\* selectAndLoad takes loadMu and looks at what is loaded: usable, loaded in
\* the wrong mode (evict before measuring), or neither.
SelectCheck(r) ==
    /\ At2(r, "select")
    /\ loadMu = NoActor
    /\ loadMu' = r
    /\ IF loaded.tier = NoTier
       THEN RGoto(r, "choose") /\ UNCHANGED <<loaded, call>>
       ELSE IF loaded.vision # Kind(r).vision
       THEN EvictThen(r, "choose", rq[r])
       ELSE IF rq[r].forced \in {NoTier, loaded.tier}
       THEN /\ rq' = [rq EXCEPT ![r].pc = "reuse", ![r].pick = loaded]
            /\ UNCHANGED <<loaded, call>>
       ELSE RGoto(r, "choose") /\ UNCHANGED <<loaded, call>>
    /\ UNCHANGED <<innerVars, inflight, evict, sweep, arrivals>>

QueryFails(r) ==
    /\ At2(r, "reuse") \/ At2(r, "choose")
    /\ QueryMayFail
    /\ RGoto(r, "finish")
    /\ Unlock(r)
    /\ UNCHANGED <<innerVars, call, loaded, inflight, evict, sweep, arrivals>>

\* Does the loaded model still fit?  If not, evict whatever is loaded by now.
ReuseRead(r) ==
    /\ At2(r, "reuse")
    /\ \E avail \in AvailReadings :
          IF avail < 0 \/ HeadroomFits(rq[r].pick.tier, rq[r].pick.layers,
                                       Kind(r).vision, avail)
          THEN RGoto(r, "selected") /\ Unlock(r) /\ UNCHANGED <<loaded, call>>
          ELSE /\ EvictThen(r, "choose", [rq[r] EXCEPT !.pick = NotLoaded])
               /\ UNCHANGED loadMu
    /\ UNCHANGED <<innerVars, inflight, evict, sweep, arrivals>>

\* Pick a tier for a fresh reading and evict the old one.
ChooseTier(r) ==
    /\ At2(r, "choose")
    /\ \E avail \in AvailReadings :
          LET chosen == Admissible(avail, rq[r].forced, Kind(r).vision)
          IN  \/ /\ chosen = {}
                 /\ RGoto(r, "finish")
                 /\ Unlock(r)
                 /\ UNCHANGED <<loaded, call>>
              \/ \E c \in chosen :
                    LET pick == [tier |-> c.tier, layers |-> c.layers,
                                 vision |-> Kind(r).vision]
                    IN  IF loaded.tier = c.tier /\ loaded.vision = Kind(r).vision
                        THEN /\ rq' = [rq EXCEPT ![r].pc = "selected", ![r].pick = loaded]
                             /\ Unlock(r)
                             /\ UNCHANGED <<loaded, call>>
                        ELSE /\ EvictThen(r, "load", [rq[r] EXCEPT !.pick = pick])
                             /\ UNCHANGED loadMu
    /\ UNCHANGED <<innerVars, inflight, evict, sweep, arrivals>>

\* loadModel pushes the mode to the tier's backend, under the backend's lock ...
LoadModel(r) ==
    /\ At2(r, "load")
    /\ SetNextNeedsVision(rq[r].pick.tier, rq[r].pick.vision)
    /\ RGoto(r, "record")
    /\ UNCHANGED <<proc, ready, runningWithVision, restarting, startMu, port, call,
                   loaded, inflight, loadMu, evict, sweep, arrivals>>

\* ... and records the choice under b.mu.  Nothing is started yet.
RecordLoad(r) ==
    /\ At2(r, "record")
    /\ loaded' = rq[r].pick
    /\ RGoto(r, "selected")
    /\ Unlock(r)
    /\ UNCHANGED <<innerVars, call, inflight, evict, sweep, arrivals>>

BeginInfer(r) ==
    LET op == IF Kind(r).stream THEN "stream" ELSE "infer"
        t == rq[r].pick.tier
    IN  /\ RGoto(r, "infer")
        /\ call' = [call EXCEPT ![r] = IF Kind(r).chat THEN NewChat(op, t) ELSE NewCall(op, t)]

(***************************************************************************)
(* The rest of selectInner: the min_tier check, then the speed floor.  A   *)
(* request with a floor may find the tier too slow and drop to the next    *)
(* one; it is served where it is when pinned, when no lower tier is        *)
(* allowed, or when the tier is fast enough or has no samples yet.         *)
(***************************************************************************)
AfterSelect(r) ==
    LET next == SpeedFloorNext(rq[r].pick.tier, Kind(r).vision)
    IN  /\ At2(r, "selected")
        /\ \/ /\ ~MinTierOK(rq[r].pick.tier, Kind(r).min)
              /\ RGoto(r, "finish")
              /\ UNCHANGED call
           \/ /\ MinTierOK(rq[r].pick.tier, Kind(r).min)
              /\ Kind(r).floor /\ Kind(r).pin = NoTier
              /\ next # NoTier /\ MinTierOK(next, Kind(r).min)
              /\ rq' = [rq EXCEPT ![r].pc = "select", ![r].forced = next,
                                  ![r].pick = NotLoaded]
              /\ UNCHANGED call
           \/ MinTierOK(rq[r].pick.tier, Kind(r).min) /\ BeginInfer(r)
        /\ UNCHANGED <<innerVars, loaded, inflight, loadMu, evict, sweep, arrivals>>

Fallback(r) ==
    IF Kind(r).stream \/ call[r].code = "ok" THEN NoTier
    ELSE oomFallbackTier(rq[r].pick.tier, call[r].code, Kind(r).pin, Kind(r).min)

\* The tier's backend returned: answer, or evict and try the next-smaller tier.
\* This eviction does not hold loadMu.
InferReturns(r) ==
    /\ At2(r, "infer")
    /\ At(r, "ret")
    /\ IF Fallback(r) = NoTier
       THEN /\ RGoto(r, "finish")
            /\ call' = [call EXCEPT ![r] = NoCall]
            /\ UNCHANGED loaded
       ELSE /\ loaded' = NotLoaded
            /\ call' = [call EXCEPT ![r] = IF loaded.tier = NoTier THEN NoCall
                                           ELSE ShutdownCall(loaded.tier)]
            /\ rq' = [rq EXCEPT ![r].forced = Fallback(r), ![r].pick = NotLoaded,
                         ![r].pc = IF loaded.tier = NoTier THEN "select" ELSE "evicting",
                         ![r].then = IF loaded.tier = NoTier THEN "idle" ELSE "select"]
    /\ UNCHANGED <<innerVars, inflight, loadMu, evict, sweep, arrivals>>

\* stopInner returned to a request; its error is only logged.
RequestStopped(r) ==
    /\ At2(r, "evicting")
    /\ At(r, "ret")
    /\ rq' = [rq EXCEPT ![r].pc = rq[r].then, ![r].then = "idle"]
    /\ call' = [call EXCEPT ![r] = NoCall]
    /\ UNCHANGED <<innerVars, loaded, inflight, loadMu, evict, sweep, arrivals>>

\* The deferred b.inflight-- and the release of the slot.
Finish(r) ==
    /\ At2(r, "finish")
    /\ inflight' = inflight - 1
    /\ rq' = [rq EXCEPT ![r] = IdleRequest]
    /\ UNCHANGED <<innerVars, call, loaded, loadMu, evict, sweep, arrivals>>
-----------------------------------------------------------------------------
(***************************************************************************)
(* Tokenize: not counted in inflight, bounded by no semaphore              *)
(***************************************************************************)

TokenizeBegin(k) ==
    /\ At(k, "none")
    /\ arrivals < MaxArrivals
    /\ loaded.tier # NoTier
    /\ call' = [call EXCEPT ![k] = NewCall("tokenize", loaded.tier)]
    /\ arrivals' = arrivals + 1
    /\ UNCHANGED <<innerVars, loaded, inflight, loadMu, rq, evict, sweep>>

TokenizeReturns(k) ==
    /\ At(k, "ret")
    /\ call' = [call EXCEPT ![k] = NoCall]
    /\ UNCHANGED <<innerVars, outerVars>>
-----------------------------------------------------------------------------
(***************************************************************************)
(* runEviction and the reaper                                              *)
(***************************************************************************)

\* CompareAndSwap on `sweeping`: at most one sweep at a time.
StartSweep == IF UseReaper /\ sweep.step = "off"
              THEN [NoSweep EXCEPT !.step = "owned"] ELSE sweep

\* A tick finds the model idle past EvictionIdleTimeout.
EvictIdle ==
    /\ evict = "tick"
    /\ loaded.tier # NoTier
    /\ inflight = 0
    /\ EvictLocked(Evictor)
    /\ evict' = "idleStop"
    /\ UNCHANGED <<innerVars, inflight, loadMu, rq, sweep, arrivals>>

\* A tick sees external pressure on the model it found loaded.
EvictTick ==
    /\ evict = "tick"
    /\ loaded.tier # NoTier
    /\ inflight = 0
    /\ \E avail \in AvailReadings :
          /\ avail >= 0
          /\ ~HeadroomFits(loaded.tier, loaded.layers, loaded.vision, avail)
          /\ avail < externalPressureFloorMB
    /\ evict' = "pressure"
    /\ UNCHANGED <<innerVars, call, loaded, inflight, loadMu, rq, sweep, arrivals>>

\* The re-check under b.mu, then the eviction.
EvictPressure ==
    /\ evict = "pressure"
    /\ IF loaded.tier # NoTier /\ inflight = 0 /\ ~restarting[loaded.tier]
       THEN EvictLocked(Evictor) /\ evict' = "pressureStop"
       ELSE evict' = "tick" /\ UNCHANGED <<loaded, call>>
    /\ UNCHANGED <<innerVars, inflight, loadMu, rq, sweep, arrivals>>

\* stopInner returned; an idle eviction always asks for a sweep, a pressure
\* eviction only after an incomplete teardown.
EvictStopped ==
    /\ evict \in {"idleStop", "pressureStop"}
    /\ At(Evictor, "ret")
    /\ sweep' = IF evict = "idleStop" \/ call[Evictor].code = "incomplete"
                THEN StartSweep ELSE sweep
    /\ evict' = "tick"
    /\ call' = [call EXCEPT ![Evictor] = NoCall]
    /\ UNCHANGED <<innerVars, loaded, inflight, loadMu, rq, arrivals>>

\* Every sixth tick with nothing loaded.
IdleSweep ==
    /\ evict = "tick"
    /\ loaded.tier = NoTier
    /\ UseReaper
    /\ sweep.step = "off"
    /\ sweep' = StartSweep
    /\ UNCHANGED <<innerVars, call, loaded, inflight, loadMu, rq, evict, arrivals>>

\* Reaper.Sweep: the tracked processes are read first ...
SweepOwned ==
    /\ sweep.step = "owned"
    /\ sweep' = [step |-> "ports", owned |-> {proc[t] : t \in Tiers} \ {NoPid}, todo |-> Tiers]
    /\ UNCHANGED <<innerVars, call, loaded, inflight, loadMu, rq, evict, arrivals>>

\* Slip: a port with nothing to reap ends the sweep.
SweepPortReturns ==
    /\ sweep.step = "ports"
    /\ \E t \in sweep.todo :
          /\ \A u \in sweep.todo : t <= u
          /\ port' = IF port[t].pid \in sweep.owned THEN port ELSE [port EXCEPT ![t] = Closed]
          /\ sweep' = IF sweep.todo = {t} \/ port[t].pid \in sweep.owned \cup {NoPid} THEN NoSweep
                      ELSE [sweep EXCEPT !.todo = sweep.todo \ {t}]
    /\ UNCHANGED <<proc, ready, runningWithVision, nextNeedsVision, restarting, startMu,
                   call, loaded, inflight, loadMu, rq, evict, arrivals>>

\* ... then each port is looked at, smallest tier first.  The reaper has the right to
\* kill what it finds (reaper.go: a kill that fails "shouldn't happen").
SweepPort ==
    /\ sweep.step = "ports"
    /\ \E t \in sweep.todo :
          /\ \A u \in sweep.todo : t <= u
          /\ port' = IF port[t].pid \in sweep.owned THEN port ELSE [port EXCEPT ![t] = Closed]
          /\ sweep' = IF sweep.todo = {t} THEN NoSweep
                      ELSE [sweep EXCEPT !.todo = sweep.todo \ {t}]
    /\ UNCHANGED <<proc, ready, runningWithVision, nextNeedsVision, restarting, startMu,
                   call, loaded, inflight, loadMu, rq, evict, arrivals>>
-----------------------------------------------------------------------------
BackendStep(a) == InnerStep(a, Held) /\ UNCHANGED outerVars

RequestStep(r) ==
    \/ AcquireSlot(r) \/ SelectCheck(r) \/ QueryFails(r) \/ ReuseRead(r)
    \/ ChooseTier(r) \/ LoadModel(r) \/ RecordLoad(r) \/ AfterSelect(r)
    \/ InferReturns(r) \/ RequestStopped(r) \/ Finish(r) \/ BackendStep(r)

TokenizerStep(k) == TokenizeReturns(k) \/ BackendStep(k)

EvictorStep == EvictIdle \/ EvictPressure \/ EvictStopped \/ BackendStep(Evictor)

SweepStep == SweepOwned \/ SweepPort

Next ==
    \/ \E r \in Requests : Arrive(r) \/ CancelWait(r) \/ RequestStep(r)
    \/ \E k \in Tokenizers : TokenizeBegin(k) \/ TokenizerStep(k)
    \/ EvictorStep \/ EvictTick \/ IdleSweep \/ SweepStep
    \/ \E t \in Tiers : (ResidentMB(t) \/ Crash(t)) /\ UNCHANGED outerVars

(***************************************************************************)
(* Goroutines run; llama-server answers or the caller's deadline passes;   *)
(* the ticker ticks and, while nothing runs, the idle timeout elapses.     *)
(* Arrivals, cancellations, pressure, crashes and the dashboard need not   *)
(* act.  A mutex waited for is free from some point on, because arrivals   *)
(* are bounded: weak fairness of the waiting step suffices.                *)
(***************************************************************************)
Fairness ==
    /\ \A r \in Requests : WF_vars(RequestStep(r))
    /\ \A k \in Tokenizers : WF_vars(TokenizerStep(k))
    /\ WF_vars(EvictorStep)
    /\ WF_vars(IdleSweep)
    /\ WF_vars(SweepStep)

Spec == Init /\ [][Next]_vars

FairSpec == Spec /\ Fairness
-----------------------------------------------------------------------------
(***************************************************************************)
(* Properties                                                              *)
(***************************************************************************)

\* However a request reached the tier it runs on (reuse, speed-floor cascade,
\* load-failure cascade), it is the pinned tier, not below min_tier, and one
\* with vision when the request carries an image (selectInner's contract).
ServedAsAsked ==
    \A r \in Requests : At2(r, "infer") =>
        /\ call[r].tier = rq[r].pick.tier
        /\ Kind(r).pin \in {NoTier, call[r].tier}
        /\ MinTierOK(call[r].tier, Kind(r).min)
        /\ Kind(r).vision => HasVision(call[r].tier)

\* An answer comes from a subprocess in the mode the request needs, with
\* --mmproj exactly when it carries an image (vram.go: the mode is pushed "so
\* the subprocess that starts actually matches").  Does not hold: two requests
\* on one tier share nextNeedsVision.
AnsweredInRightMode ==
    \A r \in Requests :
        At2(r, "infer") /\ At(r, "ret") /\ call[r].code = "ok"
            => call[r].vision = Kind(r).vision

\* The mode recorded for the loaded model is the one its next spawn will use,
\* across every eviction and reload (loadModel and SetNextNeedsVision).
ModeAgreement ==
    loaded.tier # NoTier => nextNeedsVision[loaded.tier] = loaded.vision

\* Every request gets a slot and returns, even one whose caller never gives
\* up: no error path, cascade, crash or concurrent eviction blocks it for ever.
EveryRequestFinishes == \A r \in Requests : ~At2(r, "idle") ~> At2(r, "idle")

\* Once requests stop coming, every subprocess still running is one its backend
\* has the handle of, whatever a failed stop, a dropped handle or an abandoned
\* start left on a port (eviction.go and reaper.go: the sweeps reap the orphans).
OrphansReaped ==
    <>[](\A t \in Tiers : port[t] # Closed => port[t].pid = proc[t])

\* Once requests stop coming, no subprocess is left running (README: "the model
\* unloads and VRAM goes back to zero").  Does not hold: a start that ends after
\* its tier was evicted is adopted, by a second request or a token count, and
\* neither the eviction loop, for which nothing is loaded, nor the reaper, for
\* which it is owned, stops it.
VRAMReturned == <>[](\A t \in Tiers : port[t] = Closed)
-----------------------------------------------------------------------------
(***************************************************************************)
(* The inductive invariant behind ServedAsAsked and ModeAgreement          *)
(***************************************************************************)

\* inflight counts the requests that hold a slot of b.sem.
Holders == {r \in Requests : HoldsSlot(r)}

SlotsCounted ==
    IsFiniteSet(Holders) /\ inflight = Cardinality(Holders) /\ inflight <= MaxParallel

\* A method in progress runs on a tier of the roster.
CallsPlaced == \A a \in Actors : call[a].step # "none" => call[a].tier \in Tiers

\* r has decided to load its pick and has not recorded it yet.
Loading(r) == rq[r].pc \in {"load", "record"} \/ (At2(r, "evicting") /\ rq[r].then = "load")

\* r is inside selectAndLoad's critical section of loadMu.
Selecting(r) ==
    \/ Loading(r) \/ rq[r].pc \in {"reuse", "choose"}
    \/ At2(r, "evicting") /\ rq[r].then = "choose"

\* A request that selects holds loadMu; so nothing is recorded as loaded from its
\* eviction to its own record, and the mode it pushed is still there.
LoadsAlone ==
    \A r \in Requests :
        /\ At2(r, "evicting") => rq[r].then \in {"choose", "load", "select"}
        /\ Selecting(r) => loadMu = r
        /\ Loading(r) => loaded.tier = NoTier
        /\ At2(r, "record") => nextNeedsVision[rq[r].pick.tier] = rq[r].pick.vision

\* From its choice on, a request's pick is a tier it may be served on.
PicksAsAsked ==
    \A r \in Requests :
        /\ HoldsSlot(r) => Kind(r).pin \in {NoTier, rq[r].forced}
        /\ Loading(r) \/ rq[r].pc \in {"reuse", "selected", "infer"} =>
              /\ rq[r].pick.tier \in Tiers
              /\ rq[r].pick.vision = Kind(r).vision
              /\ Kind(r).vision => HasVision(rq[r].pick.tier)
              /\ rq[r].forced \in {NoTier, rq[r].pick.tier}

LoadedCan == loaded.tier # NoTier /\ loaded.vision => HasVision(loaded.tier)

VramIInv ==
    /\ TypeOK /\ SlotsCounted /\ CallsPlaced /\ LoadsAlone /\ PicksAsAsked /\ LoadedCan
    /\ ServedAsAsked /\ ModeAgreement
=============================================================================
