----------------------------- MODULE VramProofs -----------------------------
(***************************************************************************)
(* The concurrent request path of vram.Backend, for any roster, readings,  *)
(* requests, slots and subprocess faults: a request is served on a tier it *)
(* may be served on, and the mode recorded for the loaded model is the one *)
(* its backend will spawn.                                                 *)
(***************************************************************************)
EXTENDS VramBackend, FiniteSetTheorems, TLAPS

\* The bounds, and who is an actor.
LEMMA Constants ==
    /\ MaxPid \in Nat /\ MaxArrivals \in Nat /\ MaxParallel \in Nat /\ MaxParallel >= 1
    /\ Requests \subseteq Actors /\ Tokenizers \subseteq Actors /\ Evictor \in Actors
    /\ \A r \in Requests : r # Evictor /\ r # NoActor /\ r \notin Tokenizers
    /\ \A k \in ReqKinds \cup {NoKind} : k \in ReqKind
  <1>1. MaxPid \in Nat /\ MaxArrivals \in Nat
    BY ConcurrencyAssumption
  <1>2. MaxParallel \in Nat /\ MaxParallel >= 1
    BY SlotAssumption
  <1>3. NoKind \in ReqKind
    BY DEF NoKind, ReqKind
  <1> QED BY <1>1, <1>2, <1>3, ConcurrencyAssumption

\* The tiers are the numbers from 1; none is NoTier.
LEMMA TierRange ==
    /\ Len(Roster) \in Nat
    /\ Tiers = 1..Len(Roster)
    /\ NoTier \notin Tiers
    /\ \A t \in Tiers : t \in Nat
  <1>1. Len(Roster) \in Nat /\ Tiers = 1..Len(Roster)
    BY RosterAssumption DEF Tiers
  <1> QED BY <1>1 DEF NoTier

\* A layer count is a whole number.
LEMMA LayersInt ==
    ASSUME NEW i \in Tiers, NEW avail \in Int, NEW v \in BOOLEAN
    PROVE  TierLayers(i, avail, v) \in Int
  <1> DEFINE d == Roster[i].spec
             w == WeightMB(d, v)
             kv == TierKV(i, v)
             n == LayerTotal(d.TotalLayers)
             budget == WeightBudget(kv, avail, BufferPct)
  <1>0. Roster[i] \in RosterEntry
    BY RosterAssumption DEF Tiers
  <1>1. d \in Descriptor
    BY <1>0 DEF RosterEntry
  <1>2. w \in Int /\ d.TotalLayers \in Int
    BY <1>1 DEF WeightMB, Descriptor
  <1>3. kv \in Nat
    <2>1. AtLeastOne(MaxParallel) \in Nat
      BY SlotAssumption DEF AtLeastOne
    <2>2. ASSUME NEW c \in Nat, NEW f \in Nat PROVE c * AtLeastOne(MaxParallel) + f \in Nat
      BY <2>1
    <2> QED BY <1>1, <2>2 DEF TierKV, ScaledKVOverheadMB, KVParts, VisionKVParts, Descriptor
  <1>4. n \in Int
    BY <1>2 DEF LayerTotal, defaultTotalLayers
  <1>5. budget \in Int
    <2>1. 100 + BufferPct \in Nat /\ 100 + BufferPct > 0
      BY BufferAssumption
    <2>2. (avail * 100) \div (100 + BufferPct) \in Int
      BY <2>1
    <2> QED BY <1>3, <2>2 DEF WeightBudget
  <1>6. ASSUME w > 0 PROVE (budget * n) \div w \in Int
    <2>1. budget * n \in Int
      BY <1>4, <1>5
    <2> HIDE DEF budget, n, w
    <2> QED BY <1>2, <1>6, <2>1
  <1> HIDE DEF w
  <1>7. FitLayers(w, kv, avail, d.TotalLayers, BufferPct) \in Int
    BY <1>2, <1>6 DEF FitLayers
  <1> QED BY <1>7 DEF TierLayers, w

\* What selectAndLoad picks is a tier that the request may be served on.
LEMMA AdmissibleTier ==
    ASSUME NEW avail \in Int, NEW forced, NEW v \in BOOLEAN, NEW c \in Admissible(avail, forced, v)
    PROVE  /\ c.tier \in Tiers /\ c.layers \in Int
           /\ v => HasVision(c.tier)
           /\ forced \in {NoTier, c.tier}
  <1>1. PICK i \in Tiers :
          /\ Matches(i, forced, v)
          /\ \/ c = [tier |-> i, layers |-> -1]
             \/ c = [tier |-> i, layers |-> TierLayers(i, avail, v)]
             \/ c = [tier |-> i, layers |-> 0]
    BY DEF Admissible
  <1>2. TierLayers(i, avail, v) \in Int
    BY LayersInt
  <1> QED BY <1>1, <1>2 DEF Matches

\* The speed floor's next tier, if any, is a tier with vision if that is needed.
LEMMA SpeedFloorTier ==
    ASSUME NEW i, NEW v, SpeedFloorNext(i, v) # NoTier
    PROVE  SpeedFloorNext(i, v) \in Tiers
  <1> DEFINE below == {j \in Tiers : j < i /\ (v => HasVision(j))}
             gaps == {Len(Roster) - j : j \in below}
  <1>1. below # {}
    BY DEF SpeedFloorNext
  <1>2. gaps \subseteq Nat /\ gaps # {}
    BY <1>1, TierRange
  <1>3. PICK g \in gaps : \A x \in gaps : ~(x < g)
    <2>1. PICK g \in gaps : \A x \in gaps : <<x, g>> \notin OpToRel(<, Nat)
      BY <1>2, NatLessThanWellFounded, WFMin
    <2> QED BY <1>2, <2>1 DEF OpToRel
  <1>4. PICK j \in below : g = Len(Roster) - j
    BY <1>3
  <1>5. \A k \in below : k <= j
    <2> SUFFICES ASSUME NEW k \in below PROVE k <= j
      OBVIOUS
    <2>1. Len(Roster) - k \in gaps /\ k \in Nat /\ j \in Nat
      BY <1>4, TierRange
    <2>2. ~(Len(Roster) - k < Len(Roster) - j)
      BY <1>3, <1>4, <2>1
    <2> QED BY <2>1, <2>2, TierRange
  <1> HIDE DEF gaps
  <1>6. (CHOOSE k \in below : \A l \in below : l <= k) \in below
    BY <1>4, <1>5
  <1> QED BY <1>1, <1>6 DEF SpeedFloorNext
-----------------------------------------------------------------------------
(***************************************************************************)
(* The tiers' backends                                                     *)
(***************************************************************************)

\* The method of actor a goes on, on the tier it was called on.
GoesOn(a) ==
    /\ call' \in [Actors -> Frame]
    /\ \A b \in Actors : b # a => call'[b] = call[b]
    /\ call'[a].tier = call[a].tier

\* What a method finds on its tier.
LEMMA OnTier ==
    ASSUME InnerTypeOK, CallsPlaced, NEW a \in Actors, call[a].step # "none"
    PROVE  /\ call[a] \in Frame /\ T(a) \in Tiers
           /\ proc[T(a)] \in 0..MaxPid
           /\ port[T(a)].pid \in 0..MaxPid /\ port[T(a)].vision \in BOOLEAN
           /\ nextNeedsVision[T(a)] \in BOOLEAN
           /\ call[a].handle \in 0..MaxPid /\ call[a].vision \in BOOLEAN
           /\ NoPid \in 0..MaxPid /\ Closed \in [pid : 0..MaxPid, vision : BOOLEAN]
  <1>1. call[a] \in Frame /\ T(a) \in Tiers
    BY DEF InnerTypeOK, CallsPlaced, T
  <1>2. port[T(a)] \in [pid : 0..MaxPid, vision : BOOLEAN]
    BY <1>1 DEF InnerTypeOK
  <1>3. NoPid \in 0..MaxPid
    BY Constants DEF NoPid
  <1> QED BY <1>1, <1>2, <1>3 DEF InnerTypeOK, Frame, Closed

\* A field of a frame is set.
LEMMA FrameFields ==
    ASSUME NEW f \in Frame
    PROVE  /\ \A s \in Steps :
                 [f EXCEPT !.step = s] \in Frame /\ [f EXCEPT !.step = s].tier = f.tier
           /\ \A c \in Codes :
                 [f EXCEPT !.code = c] \in Frame /\ [f EXCEPT !.code = c].tier = f.tier
           /\ \A p \in 0..MaxPid :
                 /\ [f EXCEPT !.handle = p] \in Frame /\ [f EXCEPT !.handle = p].tier = f.tier
                 /\ [f EXCEPT !.conn = p] \in Frame /\ [f EXCEPT !.conn = p].tier = f.tier
           /\ \A v \in BOOLEAN :
                 /\ [f EXCEPT !.vision = v] \in Frame /\ [f EXCEPT !.vision = v].tier = f.tier
                 /\ [f EXCEPT !.retried = v] \in Frame /\ [f EXCEPT !.retried = v].tier = f.tier
           /\ \A n \in {"no", "due", "asking"} :
                 [f EXCEPT !.nctx = n] \in Frame /\ [f EXCEPT !.nctx = n].tier = f.tier
  BY DEF Frame

\* An actor's frame becomes another one on the same tier.
LEMMA FrameGoes ==
    ASSUME InnerTypeOK, NEW a \in Actors, NEW f \in Frame, f.tier = call[a].tier,
           call' = [call EXCEPT ![a] = f]
    PROVE  GoesOn(a)
  <1> HIDE DEF Frame
  <1> QED BY DEF GoesOn, InnerTypeOK

\* The usual ways a method's frame changes.
LEMMA FrameSteps ==
    ASSUME InnerTypeOK, CallsPlaced, NEW a \in Actors, call[a].step # "none"
    PROVE  /\ \A s \in Steps : Goto(a, s) => GoesOn(a)
           /\ \A c \in Codes : Return(a, c) => GoesOn(a)
           /\ Unavailable(a) => GoesOn(a)
           /\ \A s \in Steps, p \in 0..MaxPid :
                 call' = [call EXCEPT ![a].step = s, ![a].handle = p] => GoesOn(a)
  <1>1. /\ call[a] \in Frame
        /\ NoPid \in 0..MaxPid
    BY OnTier
  <1>2. ASSUME NEW s \in Steps, Goto(a, s) PROVE GoesOn(a)
    <2> DEFINE f == [call[a] EXCEPT !.step = s]
    <2>1. f \in Frame /\ f.tier = call[a].tier
      BY <1>1, FrameFields
    <2>2. call' = [call EXCEPT ![a] = f]
      BY <1>2 DEF Goto
    <2> QED BY <2>1, <2>2, FrameGoes
  <1>3. ASSUME NEW c \in Codes, Return(a, c) PROVE GoesOn(a)
    <2> DEFINE f1 == [call[a] EXCEPT !.step = "ret"]
               f2 == [f1 EXCEPT !.code = c]
               f3 == [f2 EXCEPT !.handle = NoPid]
               f4 == [f3 EXCEPT !.conn = NoPid]
               f5 == [f4 EXCEPT !.vision = FALSE]
               f6 == [f5 EXCEPT !.retried = FALSE]
               f == [f6 EXCEPT !.nctx = "no"]
    <2>0. "ret" \in Steps
      BY DEF Steps
    <2>1. f1 \in Frame /\ f1.tier = call[a].tier
      BY <1>1, <2>0, FrameFields
    <2> HIDE DEF f1
    <2>2. f2 \in Frame /\ f2.tier = f1.tier
      BY <2>1, FrameFields
    <2> HIDE DEF f2
    <2>3. f3 \in Frame /\ f3.tier = f2.tier
      BY <1>1, <2>2, FrameFields
    <2> HIDE DEF f3
    <2>4. f4 \in Frame /\ f4.tier = f3.tier
      BY <1>1, <2>3, FrameFields
    <2> HIDE DEF f4
    <2>5. f5 \in Frame /\ f5.tier = f4.tier
      BY <2>4, FrameFields
    <2> HIDE DEF f5
    <2>6. f6 \in Frame /\ f6.tier = f5.tier
      BY <2>5, FrameFields
    <2> HIDE DEF f6
    <2>8. f \in Frame /\ f.tier = f6.tier
      BY <2>6, FrameFields
    <2> HIDE DEF f
    <2>7. call' = [call EXCEPT ![a] = f]
      <3>1. call \in [Actors -> Frame]
        BY DEF InnerTypeOK
      <3> QED BY <1>3, <3>1 DEF Return, f, f6, f5, f4, f3, f2, f1
    <2> QED BY <2>1, <2>2, <2>3, <2>4, <2>5, <2>6, <2>7, <2>8, FrameGoes
  <1>4. ASSUME Unavailable(a) PROVE GoesOn(a)
    <2>1. CASE call[a].retried
      BY <1>3, <1>4, <2>1 DEF Unavailable, Codes
    <2>2. CASE ~call[a].retried
      <3> DEFINE f1 == [call[a] EXCEPT !.conn = NoPid]
                 f2 == [f1 EXCEPT !.nctx = Unasked(a)]
                 f == [f2 EXCEPT !.step = IF call[a].op = "tokenize" THEN "tokReset" ELSE "restart"]
      <3>1. f1 \in Frame /\ f1.tier = call[a].tier
        BY <1>1, FrameFields
      <3> HIDE DEF f1
      <3>5. Unasked(a) \in {"no", "due", "asking"}
        BY DEF Unasked
      <3>6. f2 \in Frame /\ f2.tier = f1.tier
        BY <3>1, <3>5, FrameFields
      <3> HIDE DEF f2
      <3>4. (IF call[a].op = "tokenize" THEN "tokReset" ELSE "restart") \in Steps
        BY DEF Steps
      <3>2. f \in Frame /\ f.tier = f2.tier
        BY <3>4, <3>6, FrameFields
      <3> HIDE DEF f
      <3>3. call' = [call EXCEPT ![a] = f]
        <4>1. call \in [Actors -> Frame]
          BY DEF InnerTypeOK
        <4> QED BY <1>4, <2>2, <4>1 DEF Unavailable, f, f2, f1
      <3> QED BY <3>1, <3>2, <3>3, <3>6, FrameGoes
    <2> QED BY <2>1, <2>2
  <1>5. ASSUME NEW s \in Steps, NEW p \in 0..MaxPid,
               call' = [call EXCEPT ![a].step = s, ![a].handle = p]
        PROVE  GoesOn(a)
    <2> DEFINE f1 == [call[a] EXCEPT !.step = s]
               f == [f1 EXCEPT !.handle = p]
    <2>1. f1 \in Frame /\ f1.tier = call[a].tier
      BY <1>1, FrameFields
    <2> HIDE DEF f1
    <2>2. f \in Frame /\ f.tier = f1.tier
      BY <2>1, FrameFields
    <2> HIDE DEF f
    <2>3. call' = [call EXCEPT ![a] = f]
      BY <1>5 DEF f, f1
    <2> QED BY <2>1, <2>2, <2>3, FrameGoes
  <1> QED BY <1>2, <1>3, <1>4, <1>5

\* A start that ended, well or badly, inside ensureRunning.
LEMMA StartedGoes ==
    ASSUME InnerTypeOK, CallsPlaced, NEW a \in Actors, call[a].step # "none",
           call' = [call EXCEPT ![a].step = "connect", ![a].handle = NoPid, ![a].vision = FALSE]
    PROVE  GoesOn(a)
  <1> DEFINE f1 == [call[a] EXCEPT !.step = "connect"]
             f2 == [f1 EXCEPT !.handle = NoPid]
             f == [f2 EXCEPT !.vision = FALSE]
  <1>0. call \in [Actors -> Frame] /\ call[a] \in Frame
    BY DEF InnerTypeOK
  <1>1. /\ "connect" \in Steps
        /\ NoPid \in 0..MaxPid
        /\ FALSE \in BOOLEAN
    BY OnTier DEF Steps
  <1>2. f1 \in Frame /\ f1.tier = call[a].tier
    BY <1>0, <1>1, FrameFields
  <1> HIDE DEF f1
  <1>3. f2 \in Frame /\ f2.tier = f1.tier
    BY <1>1, <1>2, FrameFields
  <1> HIDE DEF f2
  <1>4. f \in Frame /\ f.tier = f2.tier
    BY <1>1, <1>3, FrameFields
  <1> HIDE DEF f
  <1>5. call' = [call EXCEPT ![a] = f]
    BY <1>0 DEF f, f2, f1
  <1> QED BY <1>2, <1>3, <1>4, <1>5, FrameGoes

\* A failed start ends the method, or only NCtx.
LEMMA StartErrorGoes ==
    ASSUME InnerTypeOK, CallsPlaced, NEW a \in Actors, call[a].step # "none", StartError(a)
    PROVE  GoesOn(a)
  <1>1. CASE call[a].nctx = "asking"
    BY <1>1, StartedGoes DEF StartError
  <1>2. CASE call[a].nctx # "asking"
    BY <1>2, FrameSteps DEF StartError, Codes
  <1> QED BY <1>1, <1>2

\* The usual ways a backend's fields change.
LEMMA FieldSteps ==
    ASSUME InnerTypeOK, CallsPlaced, NEW a \in Actors, call[a].step # "none"
    PROVE  /\ EndRestart(a) => restarting' \in [Tiers -> BOOLEAN]
           /\ ClearHandle(a) => proc' \in [Tiers -> 0..MaxPid] /\ ready' \in [Tiers -> BOOLEAN]
           /\ \A p : /\ Killed(T(a), p) \in [Tiers -> [pid : 0..MaxPid, vision : BOOLEAN]]
                     /\ StopProcess(T(a), p) => port' \in [Tiers -> [pid : 0..MaxPid, vision : BOOLEAN]]
           /\ \A c \in Codes : LoadFailed(a) =>
                 /\ GoesOn(a) /\ startMu' \in [Tiers -> Actors \cup {NoActor}]
                 /\ restarting' \in [Tiers -> BOOLEAN]
  <1>1. EndRestart(a) => restarting' \in [Tiers -> BOOLEAN]
    BY DEF EndRestart, InnerTypeOK
  <1>2. ClearHandle(a) => proc' \in [Tiers -> 0..MaxPid] /\ ready' \in [Tiers -> BOOLEAN]
    BY OnTier DEF ClearHandle, InnerTypeOK
  <1>3. \A p : Killed(T(a), p) \in [Tiers -> [pid : 0..MaxPid, vision : BOOLEAN]]
    BY OnTier DEF Killed, InnerTypeOK
  <1>4. \A p : StopProcess(T(a), p) => port' \in [Tiers -> [pid : 0..MaxPid, vision : BOOLEAN]]
    BY <1>3 DEF StopProcess, InnerTypeOK
  <1>5. LoadFailed(a) => /\ GoesOn(a) /\ startMu' \in [Tiers -> Actors \cup {NoActor}]
                         /\ restarting' \in [Tiers -> BOOLEAN]
    BY <1>1, StartErrorGoes DEF LoadFailed, InnerTypeOK
  <1> QED BY <1>1, <1>2, <1>3, <1>4, <1>5

\* A step of a backend's method keeps the types, moves nobody else's call and
\* never changes the mode of the next spawn.
LEMMA InnerMoves ==
    ASSUME InnerTypeOK, CallsPlaced, NEW a \in Actors, NEW held, InnerStep(a, held)
    PROVE  /\ InnerTypeOK' /\ CallsPlaced'
           /\ GoesOn(a)
           /\ nextNeedsVision' = nextNeedsVision
  <1>1. call[a].step # "none"
    BY DEF InnerStep, EnsureRunning, ModeStop, ModeClear, ProbeHealthy, ProbeClear, StartLock,
           Spawn, StartReady, StartTimeout, SizePrompt, Connect, Complete, ConnectionLost, RequestFails,
           Restart, RestartStop, TokenizeReset, ShutdownDetach, ShutdownStop, At
  <1>2. nextNeedsVision' = nextNeedsVision
    BY DEF InnerStep, EnsureRunning, ModeStop, ModeClear, ProbeHealthy, ProbeClear, StartLock,
           Spawn, StartReady, StartTimeout, SizePrompt, Connect, Complete, ConnectionLost, RequestFails,
           Restart, RestartStop, TokenizeReset, ShutdownDetach, ShutdownStop, innerVars
  <1> SUFFICES GoesOn(a) /\ InnerTypeOK'
    BY <1>1, <1>2 DEF CallsPlaced, GoesOn
  <1>0. call \in [Actors -> Frame] /\ call[a] \in Frame
    BY DEF InnerTypeOK
  <1>3. CASE EnsureRunning(a)
    <2>1. GoesOn(a)
      BY <1>1, <1>3, FrameSteps, OnTier DEF EnsureRunning, Steps
    <2>2. restarting' \in [Tiers -> BOOLEAN]
      BY <1>1, <1>3, FieldSteps DEF EnsureRunning, InnerTypeOK
    <2> QED BY <1>3, <2>1, <2>2 DEF EnsureRunning, InnerTypeOK, GoesOn
  <1>4. CASE ModeStop(a) \/ RestartStop(a)
    <2>1. GoesOn(a)
      BY <1>1, <1>4, FrameSteps, OnTier DEF ModeStop, RestartStop, Steps
    <2>2. port' \in [Tiers -> [pid : 0..MaxPid, vision : BOOLEAN]]
      BY <1>1, <1>4, FieldSteps DEF ModeStop, RestartStop
    <2> QED BY <1>4, <2>1, <2>2 DEF ModeStop, RestartStop, InnerTypeOK, GoesOn
  <1>5. CASE ModeClear(a) \/ ProbeClear(a)
    <2>1. GoesOn(a)
      BY <1>1, <1>5, FrameSteps DEF ModeClear, ProbeClear, Steps
    <2>2. proc' \in [Tiers -> 0..MaxPid] /\ ready' \in [Tiers -> BOOLEAN]
      BY <1>1, <1>5, FieldSteps DEF ModeClear, ProbeClear
    <2> QED BY <1>5, <2>1, <2>2 DEF ModeClear, ProbeClear, InnerTypeOK, GoesOn
  <1>6. CASE ProbeHealthy(a)
    <2>1. GoesOn(a)
      BY <1>1, <1>6, FrameSteps DEF ProbeHealthy, Steps
    <2>2. restarting' \in [Tiers -> BOOLEAN]
      BY <1>1, <1>6, FieldSteps DEF ProbeHealthy, InnerTypeOK
    <2> QED BY <1>6, <2>1, <2>2 DEF ProbeHealthy, InnerTypeOK, GoesOn
  <1>7. CASE StartLock(a)
    <2>1. GoesOn(a)
      <3>1. Goto(a, "connect") => GoesOn(a)
        BY <1>1, FrameSteps DEF Steps
      <3>2. call' = [call EXCEPT ![a].step = "spawn", ![a].vision = nextNeedsVision[T(a)]] => GoesOn(a)
        <4> SUFFICES ASSUME call' = [call EXCEPT ![a].step = "spawn",
                                                 ![a].vision = nextNeedsVision[T(a)]]
                     PROVE  GoesOn(a)
          OBVIOUS
        <4> DEFINE f1 == [call[a] EXCEPT !.step = "spawn"]
                   f == [f1 EXCEPT !.vision = nextNeedsVision[T(a)]]
        <4>1. /\ "spawn" \in Steps
              /\ nextNeedsVision[T(a)] \in BOOLEAN
          BY <1>1, OnTier DEF Steps, Codes
        <4>2. f1 \in Frame /\ f1.tier = call[a].tier
          BY <1>0, <4>1, FrameFields
        <4> HIDE DEF f1
        <4>3. f \in Frame /\ f.tier = f1.tier
          BY <1>0, <4>1, <4>2, FrameFields
        <4> HIDE DEF f
        <4>4. call' = [call EXCEPT ![a] = f]
          BY <1>0 DEF f, f1
        <4> QED BY <4>2, <4>3, <4>4, FrameGoes
      <3> QED BY <1>7, <3>1, <3>2 DEF StartLock
    <2>2. restarting' \in [Tiers -> BOOLEAN]
      BY <1>1, <1>7, FieldSteps DEF StartLock, InnerTypeOK
    <2>3. startMu' \in [Tiers -> Actors \cup {NoActor}]
      BY <1>7 DEF StartLock, InnerTypeOK
    <2> QED BY <1>7, <2>1, <2>2, <2>3 DEF StartLock, InnerTypeOK, GoesOn
  <1>8. CASE Spawn(a, held)
    <2>1. ASSUME NEW p \in 1..MaxPid,
                 port' = IF port[T(a)] = Closed
                         THEN [port EXCEPT ![T(a)] = [pid |-> p, vision |-> call[a].vision]]
                         ELSE port,
                 call' = [call EXCEPT ![a].step = "poll", ![a].handle = p]
          PROVE  GoesOn(a) /\ port' \in [Tiers -> [pid : 0..MaxPid, vision : BOOLEAN]]
      <3>1. p \in 0..MaxPid
        BY Constants
      <3>2. GoesOn(a)
        BY <1>1, <2>1, <3>1, FrameSteps DEF Steps
      <3>3. [pid |-> p, vision |-> call[a].vision] \in [pid : 0..MaxPid, vision : BOOLEAN]
        BY <1>1, <3>1, OnTier
      <3> QED BY <2>1, <3>2, <3>3 DEF InnerTypeOK
    <2>2. CASE LoadFailed(a) /\ UNCHANGED port
      BY <1>1, <1>8, <2>2, FieldSteps DEF Spawn, InnerTypeOK, GoesOn, Codes
    <2>3. CASE \E p \in 1..MaxPid :
            /\ port' = IF port[T(a)] = Closed
                       THEN [port EXCEPT ![T(a)] = [pid |-> p, vision |-> call[a].vision]]
                       ELSE port
            /\ call' = [call EXCEPT ![a].step = "poll", ![a].handle = p]
            /\ UNCHANGED <<startMu, restarting>>
      BY <1>8, <2>1, <2>3 DEF Spawn, InnerTypeOK, GoesOn
    <2> QED BY <1>8, <2>2, <2>3 DEF Spawn
  <1>9. CASE StartReady(a)
    <2>1. GoesOn(a)
      BY <1>1, <1>9, StartedGoes DEF StartReady
    <2>2. /\ proc' \in [Tiers -> 0..MaxPid] /\ ready' \in [Tiers -> BOOLEAN]
          /\ runningWithVision' \in [Tiers -> BOOLEAN]
          /\ startMu' \in [Tiers -> Actors \cup {NoActor}]
      BY <1>1, <1>9, OnTier DEF StartReady, InnerTypeOK
    <2>3. restarting' \in [Tiers -> BOOLEAN]
      BY <1>1, <1>9, FieldSteps DEF StartReady
    <2> QED BY <1>9, <2>1, <2>2, <2>3 DEF StartReady, InnerTypeOK, GoesOn
  <1>10. CASE StartTimeout(a)
    <2>1. port' \in [Tiers -> [pid : 0..MaxPid, vision : BOOLEAN]]
      BY <1>1, <1>10, FieldSteps DEF StartTimeout
    <2>2. /\ GoesOn(a) /\ startMu' \in [Tiers -> Actors \cup {NoActor}]
          /\ restarting' \in [Tiers -> BOOLEAN]
      BY <1>1, <1>10, FieldSteps DEF StartTimeout, Codes
    <2> QED BY <1>10, <2>1, <2>2 DEF StartTimeout, InnerTypeOK, GoesOn
  <1>11. CASE SizePrompt(a) \/ Connect(a) \/ Complete(a) \/ ConnectionLost(a) \/ RequestFails(a)
    <2>1. UNCHANGED innerVars
      BY <1>11 DEF SizePrompt, Connect, Complete, ConnectionLost, RequestFails
    <2>2. GoesOn(a)
      <3>1. CASE Unavailable(a) \/ \E c \in Codes : Return(a, c)
        BY <1>1, <3>1, FrameSteps
      <3>2. CASE call' = [call EXCEPT ![a].step = "run", ![a].conn = port[T(a)].pid,
                                         ![a].nctx = Unasked(a)]
        <4> DEFINE f1 == [call[a] EXCEPT !.step = "run"]
                   f2 == [f1 EXCEPT !.conn = port[T(a)].pid]
                   f == [f2 EXCEPT !.nctx = Unasked(a)]
        <4>0. Unasked(a) \in {"no", "due", "asking"}
          BY DEF Unasked
        <4>1. /\ "run" \in Steps
              /\ port[T(a)].pid \in 0..MaxPid
          BY <1>1, OnTier DEF Steps, Codes
        <4>2. f1 \in Frame /\ f1.tier = call[a].tier
          BY <1>0, <4>1, FrameFields
        <4> HIDE DEF f1
        <4>3. f2 \in Frame /\ f2.tier = f1.tier
          BY <1>0, <4>1, <4>2, FrameFields
        <4> HIDE DEF f2
        <4>5. f \in Frame /\ f.tier = f2.tier
          BY <4>0, <4>3, FrameFields
        <4> HIDE DEF f
        <4>4. call' = [call EXCEPT ![a] = f]
          BY <1>0, <3>2 DEF f, f2, f1
        <4> QED BY <4>2, <4>3, <4>4, <4>5, FrameGoes
      <3>3. CASE call' = [call EXCEPT ![a].step = "ret", ![a].code = "ok", ![a].conn = NoPid,
                            ![a].retried = FALSE, ![a].nctx = "no",
                            ![a].vision = port[T(a)].vision]
        <4> DEFINE f1 == [call[a] EXCEPT !.step = "ret"]
                   f2 == [f1 EXCEPT !.code = "ok"]
                   f3 == [f2 EXCEPT !.conn = NoPid]
                   f4 == [f3 EXCEPT !.retried = FALSE]
                   f5 == [f4 EXCEPT !.nctx = "no"]
                   f == [f5 EXCEPT !.vision = port[T(a)].vision]
        <4>1. /\ "ret" \in Steps
              /\ "ok" \in Codes
              /\ NoPid \in 0..MaxPid
              /\ FALSE \in BOOLEAN
              /\ port[T(a)].vision \in BOOLEAN
          BY <1>1, OnTier DEF Steps, Codes
        <4>2. f1 \in Frame /\ f1.tier = call[a].tier
          BY <1>0, <4>1, FrameFields
        <4> HIDE DEF f1
        <4>3. f2 \in Frame /\ f2.tier = f1.tier
          BY <1>0, <4>1, <4>2, FrameFields
        <4> HIDE DEF f2
        <4>4. f3 \in Frame /\ f3.tier = f2.tier
          BY <1>0, <4>1, <4>3, FrameFields
        <4> HIDE DEF f3
        <4>5. f4 \in Frame /\ f4.tier = f3.tier
          BY <1>0, <4>1, <4>4, FrameFields
        <4> HIDE DEF f4
        <4>8. f5 \in Frame /\ f5.tier = f4.tier
          BY <4>5, FrameFields
        <4> HIDE DEF f5
        <4>6. f \in Frame /\ f.tier = f5.tier
          BY <4>1, <4>8, FrameFields
        <4> HIDE DEF f
        <4>7. call' = [call EXCEPT ![a] = f]
          BY <1>0, <3>3 DEF f, f5, f4, f3, f2, f1
        <4> QED BY <4>2, <4>3, <4>4, <4>5, <4>6, <4>7, <4>8, FrameGoes
      <3>4. CASE SizePrompt(a)
        <4> DEFINE f1 == [call[a] EXCEPT !.step = "ensure"]
                   f == [f1 EXCEPT !.nctx = "asking"]
        <4>1. "ensure" \in Steps
          BY DEF Steps
        <4>2. f1 \in Frame /\ f1.tier = call[a].tier
          BY <1>0, <4>1, FrameFields
        <4> HIDE DEF f1
        <4>3. f \in Frame /\ f.tier = f1.tier
          BY <4>2, FrameFields
        <4> HIDE DEF f
        <4>4. call' = [call EXCEPT ![a] = f]
          BY <1>0, <3>4 DEF SizePrompt, f, f1
        <4> QED BY <4>2, <4>3, <4>4, FrameGoes
      <3> QED BY <1>11, <3>1, <3>2, <3>3, <3>4 DEF Connect, Complete, ConnectionLost, RequestFails, Codes
    <2> QED BY <2>1, <2>2 DEF InnerTypeOK, GoesOn, innerVars
  <1>12. CASE Restart(a)
    <2>1. GoesOn(a)
      <3> DEFINE f1 == [call[a] EXCEPT !.step = "restartStop"]
                 f2 == [f1 EXCEPT !.retried = TRUE]
                 f == [f2 EXCEPT !.handle = proc[T(a)]]
      <3>1. /\ "restartStop" \in Steps
            /\ TRUE \in BOOLEAN
            /\ proc[T(a)] \in 0..MaxPid
        BY <1>1, OnTier DEF Steps, Codes
      <3>2. f1 \in Frame /\ f1.tier = call[a].tier
        BY <1>0, <3>1, FrameFields
      <3> HIDE DEF f1
      <3>3. f2 \in Frame /\ f2.tier = f1.tier
        BY <1>0, <3>1, <3>2, FrameFields
      <3> HIDE DEF f2
      <3>4. f \in Frame /\ f.tier = f2.tier
        BY <1>0, <3>1, <3>3, FrameFields
      <3> HIDE DEF f
      <3>5. call' = [call EXCEPT ![a] = f]
        BY <1>0, <1>12 DEF Restart, f, f2, f1
      <3> QED BY <3>2, <3>3, <3>4, <3>5, FrameGoes
    <2>2. /\ proc' \in [Tiers -> 0..MaxPid] /\ ready' \in [Tiers -> BOOLEAN]
          /\ restarting' \in [Tiers -> BOOLEAN]
      BY <1>1, <1>12, FieldSteps DEF Restart, InnerTypeOK
    <2> QED BY <1>12, <2>1, <2>2 DEF Restart, InnerTypeOK, GoesOn
  <1>13. CASE TokenizeReset(a)
    <2>1. GoesOn(a)
      <3> DEFINE f1 == [call[a] EXCEPT !.step = "ensure"]
                 f == [f1 EXCEPT !.retried = TRUE]
      <3>1. /\ "ensure" \in Steps
            /\ TRUE \in BOOLEAN
        BY <1>1, OnTier DEF Steps, Codes
      <3>2. f1 \in Frame /\ f1.tier = call[a].tier
        BY <1>0, <3>1, FrameFields
      <3> HIDE DEF f1
      <3>3. f \in Frame /\ f.tier = f1.tier
        BY <1>0, <3>1, <3>2, FrameFields
      <3> HIDE DEF f
      <3>4. call' = [call EXCEPT ![a] = f]
        BY <1>0, <1>13 DEF TokenizeReset, f, f1
      <3> QED BY <3>2, <3>3, <3>4, FrameGoes
    <2>2. proc' \in [Tiers -> 0..MaxPid] /\ ready' \in [Tiers -> BOOLEAN]
      BY <1>1, <1>13, FieldSteps DEF TokenizeReset
    <2> QED BY <1>13, <2>1, <2>2 DEF TokenizeReset, InnerTypeOK, GoesOn
  <1>14. CASE ShutdownDetach(a)
    <2>1. GoesOn(a)
      BY <1>1, <1>14, FrameSteps, OnTier DEF ShutdownDetach, Steps, Codes
    <2>2. proc' \in [Tiers -> 0..MaxPid] /\ ready' \in [Tiers -> BOOLEAN]
      BY <1>1, <1>14, FieldSteps DEF ShutdownDetach
    <2> QED BY <1>14, <2>1, <2>2 DEF ShutdownDetach, InnerTypeOK, GoesOn
  <1>15. CASE ShutdownStop(a)
    <2>1. GoesOn(a)
      BY <1>1, <1>15, FrameSteps DEF ShutdownStop, Codes
    <2>2. port' \in [Tiers -> [pid : 0..MaxPid, vision : BOOLEAN]]
      BY <1>1, <1>15, FieldSteps DEF ShutdownStop, InnerTypeOK
    <2> QED BY <1>15, <2>1, <2>2 DEF ShutdownStop, InnerTypeOK, GoesOn
  <1> QED
    BY <1>3, <1>4, <1>5, <1>6, <1>7, <1>8, <1>9, <1>10, <1>11, <1>12, <1>13, <1>14, <1>15
       DEF InnerStep
-----------------------------------------------------------------------------
(***************************************************************************)
(* One request                                                             *)
(***************************************************************************)

Request == [pc : RequestPCs, kind : ReqKinds \cup {NoKind}, forced : Tiers \cup {NoTier},
            pick : Load, then : RequestPCs]

\* What the invariant says of request q.
RequestOK(q) ==
    /\ At2(q, "evicting") => rq[q].then \in {"choose", "load", "select"}
    /\ Selecting(q) => loadMu = q
    /\ Loading(q) => loaded.tier = NoTier
    /\ At2(q, "record") => nextNeedsVision[rq[q].pick.tier] = rq[q].pick.vision
    /\ HoldsSlot(q) => Kind(q).pin \in {NoTier, rq[q].forced}
    /\ Loading(q) \/ rq[q].pc \in {"reuse", "selected", "infer"} =>
          /\ rq[q].pick.tier \in Tiers
          /\ rq[q].pick.vision = Kind(q).vision
          /\ Kind(q).vision => HasVision(rq[q].pick.tier)
          /\ rq[q].forced \in {NoTier, rq[q].pick.tier}
    /\ At2(q, "infer") =>
          /\ call[q].tier = rq[q].pick.tier
          /\ MinTierOK(call[q].tier, Kind(q).min)

\* What it says of the rest.
Base ==
    /\ InnerTypeOK /\ CallsPlaced
    /\ loaded \in Load
    /\ loadMu \in Requests \cup {NoActor}
    /\ rq \in [Requests -> Request]
    /\ evict \in {"tick", "pressure", "idleStop", "pressureStop"}
    /\ sweep \in [step : {"off", "owned", "ports"}, owned : SUBSET (0..MaxPid),
                  todo : SUBSET Tiers]
    /\ arrivals \in 0..MaxArrivals
    /\ LoadedCan /\ ModeAgreement

\* The invariant, request by request.
LEMMA ByRequest == VramIInv <=> Base /\ SlotsCounted /\ \A q \in Requests : RequestOK(q)
  <1>1. ASSUME VramIInv PROVE Base /\ SlotsCounted
    BY <1>1 DEF VramIInv, TypeOK, Base, Request
  <1>2. ASSUME VramIInv, NEW q \in Requests PROVE RequestOK(q)
    BY <1>2 DEF VramIInv, LoadsAlone, PicksAsAsked, ServedAsAsked, RequestOK
  <1>3. ASSUME Base, SlotsCounted, \A q \in Requests : RequestOK(q) PROVE VramIInv
    <2>1. TypeOK
      <3>1. Cardinality(Holders) \in Nat
        BY <1>3, FS_CardinalityType DEF SlotsCounted
      <3>2. inflight \in 0..MaxParallel
        BY <1>3, <3>1, Constants DEF SlotsCounted
      <3> QED BY <1>3, <3>2 DEF Base, TypeOK, Request
    <2>2. LoadsAlone
      BY <1>3 DEF LoadsAlone, RequestOK
    <2>3. PicksAsAsked
      BY <1>3 DEF PicksAsAsked, RequestOK
    <2>4. ServedAsAsked
      <3> SUFFICES ASSUME NEW r \in Requests, At2(r, "infer")
                   PROVE  /\ call[r].tier = rq[r].pick.tier
                          /\ Kind(r).pin \in {NoTier, call[r].tier}
                          /\ MinTierOK(call[r].tier, Kind(r).min)
                          /\ Kind(r).vision => HasVision(call[r].tier)
        BY DEF ServedAsAsked
      <3>1. HoldsSlot(r) /\ rq[r].pc \in {"reuse", "selected", "infer"} /\ RequestOK(r)
        BY <1>3 DEF At2, HoldsSlot
      <3> QED BY <3>1 DEF RequestOK
    <2> QED BY <1>3, <2>1, <2>2, <2>3, <2>4 DEF VramIInv, Base
  <1> QED BY <1>1, <1>2, <1>3

\* A step of actor a, as the other requests see it.
Apart(a) ==
    /\ \A q \in Requests : q # a => rq'[q] = rq[q] /\ call'[q] = call[q]
    /\ loadMu' = loadMu \/ loadMu \in {NoActor, a}
    /\ loaded' \in {loaded, NotLoaded} \/ loadMu = a
    /\ nextNeedsVision' = nextNeedsVision \/ loadMu = a

\* loadMu keeps the others' selections apart from a's.
LEMMA OthersKeep ==
    ASSUME NEW a, a # NoActor, Apart(a), NEW q \in Requests, q # a, RequestOK(q)
    PROVE  RequestOK(q)'
  <1>0. q # NoActor
    BY Constants
  <1>1. rq'[q] = rq[q] /\ call'[q] = call[q]
    BY DEF Apart
  <1>2. Selecting(q)' = Selecting(q) /\ Loading(q)' = Loading(q) /\ HoldsSlot(q)' = HoldsSlot(q)
    BY <1>1 DEF Selecting, Loading, HoldsSlot, At2
  <1>3. Loading(q) => Selecting(q)
    BY DEF Selecting
  <1>4. Selecting(q) => /\ loadMu' = q
                        /\ loaded' \in {loaded, NotLoaded}
                        /\ nextNeedsVision' = nextNeedsVision
    BY <1>0 DEF Apart, RequestOK
  <1>5. At2(q, "record") => Loading(q)
    BY DEF Loading, At2
  <1>6. Loading(q) => loaded'.tier = NoTier
    BY <1>3, <1>4 DEF RequestOK, NotLoaded
  <1> QED BY <1>1, <1>2, <1>3, <1>4, <1>5, <1>6 DEF RequestOK, At2, Kind

\* The places of a request that the steps name.
LEMMA PCs ==
    /\ "idle" \in RequestPCs /\ "sem" \in RequestPCs /\ "select" \in RequestPCs
    /\ "reuse" \in RequestPCs /\ "choose" \in RequestPCs /\ "load" \in RequestPCs
    /\ "record" \in RequestPCs /\ "selected" \in RequestPCs /\ "infer" \in RequestPCs
    /\ "evicting" \in RequestPCs /\ "finish" \in RequestPCs
  BY DEF RequestPCs

\* A request's record.
Rec(p, k, f, w, n) == [pc |-> p, kind |-> k, forced |-> f, pick |-> w, then |-> n]

\* Request r is now at p, with kind k, forced tier f and pick w, to continue at n.
Becomes(r, p, k, f, w, n) ==
    /\ rq' \in [Requests -> Request]
    /\ \A q \in Requests : q # r => rq'[q] = rq[q]
    /\ rq'[r].pc = p /\ rq'[r].kind = k /\ rq'[r].forced = f
    /\ rq'[r].pick = w /\ rq'[r].then = n

\* The fields of a request's record.
LEMMA RequestFields ==
    ASSUME Base, NEW r \in Requests
    PROVE  /\ rq[r] = Rec(rq[r].pc, rq[r].kind, rq[r].forced, rq[r].pick, rq[r].then)
           /\ rq[r].pc \in RequestPCs /\ rq[r].kind \in ReqKinds \cup {NoKind}
           /\ rq[r].forced \in Tiers \cup {NoTier} /\ rq[r].pick \in Load
           /\ rq[r].then \in RequestPCs
  <1>1. rq[r] \in Request
    BY DEF Base
  <1> QED BY <1>1 DEF Request, Rec

\* A request's record is rewritten.
LEMMA Rewritten ==
    ASSUME Base, NEW r \in Requests, NEW p \in RequestPCs,
           NEW k \in ReqKinds \cup {NoKind}, NEW f \in Tiers \cup {NoTier},
           NEW w \in Load, NEW n \in RequestPCs,
           rq' = [rq EXCEPT ![r] = Rec(p, k, f, w, n)]
    PROVE  Becomes(r, p, k, f, w, n)
  <1> DEFINE x == Rec(p, k, f, w, n)
  <1>1. x \in Request
    BY DEF Request, Rec
  <1>2. x.pc = p /\ x.kind = k /\ x.forced = f /\ x.pick = w /\ x.then = n
    BY DEF Rec
  <1> HIDE DEF x
  <1>3. rq' = [rq EXCEPT ![r] = x]
    BY DEF x
  <1>4. rq' \in [Requests -> Request] /\ rq'[r] = x /\ \A q \in Requests : q # r => rq'[q] = rq[q]
    BY <1>1, <1>3 DEF Base
  <1> QED BY <1>2, <1>4 DEF Becomes

\* A request moves on.
LEMMA RequestGoes ==
    ASSUME Base, NEW r \in Requests, NEW p \in RequestPCs, RGoto(r, p)
    PROVE  Becomes(r, p, rq[r].kind, rq[r].forced, rq[r].pick, rq[r].then)
  <1>1. RGoto(r, p) =>
           rq' = [rq EXCEPT ![r] = Rec(p, rq[r].kind, rq[r].forced, rq[r].pick, rq[r].then)]
    BY RequestFields, ZenonT(40) DEF RGoto, Rec
  <1> QED BY <1>1, RequestFields, Rewritten

\* EvictThen: the request evicts what is loaded, and Shutdown runs before it goes on.
LEMMA RequestEvicts ==
    ASSUME Base, NEW r \in Requests, NEW next \in RequestPCs, NEW w \in Load,
           \/ EvictThen(r, next, rq[r]) /\ w = rq[r].pick
           \/ EvictThen(r, next, [rq[r] EXCEPT !.pick = w])
    PROVE  /\ loaded.tier = NoTier => Becomes(r, next, rq[r].kind, rq[r].forced, w, "idle")
           /\ loaded.tier # NoTier => Becomes(r, "evicting", rq[r].kind, rq[r].forced, w, next)
           /\ loaded' = NotLoaded
           /\ call' = IF loaded.tier = NoTier THEN call
                      ELSE [call EXCEPT ![r] = ShutdownCall(loaded.tier)]
  <1> DEFINE p == IF loaded.tier = NoTier THEN next ELSE "evicting"
             n == IF loaded.tier = NoTier THEN "idle" ELSE next
  <1>1. EvictThen(r, next, rq[r]) =>
           rq' = [rq EXCEPT ![r] = Rec(p, rq[r].kind, rq[r].forced, rq[r].pick, n)]
    BY RequestFields DEF EvictThen, Rec
  <1>2. EvictThen(r, next, [rq[r] EXCEPT !.pick = w]) =>
           rq' = [rq EXCEPT ![r] = Rec(p, rq[r].kind, rq[r].forced, w, n)]
    BY RequestFields, ZenonT(40) DEF EvictThen, Rec
  <1>3. rq' = [rq EXCEPT ![r] = Rec(p, rq[r].kind, rq[r].forced, w, n)]
    BY <1>1, <1>2
  <1>4. p \in RequestPCs /\ n \in RequestPCs
    BY DEF RequestPCs
  <1> HIDE DEF p, n
  <1>5. Becomes(r, p, rq[r].kind, rq[r].forced, w, n)
    BY <1>3, <1>4, RequestFields, Rewritten
  <1> QED BY <1>5 DEF p, n, EvictThen, EvictLocked

\* What the steps preserve: the invariant, request by request.
Inv == Base /\ SlotsCounted /\ \A q \in Requests : RequestOK(q)

\* A step of request r keeps it once r itself and the rest are seen to.
LEMMA Assemble ==
    ASSUME Inv, NEW r \in Requests, Apart(r), Base', RequestOK(r)', SlotsCounted'
    PROVE  Inv'
  <1>1. ASSUME NEW q \in Requests PROVE RequestOK(q)'
    BY Constants, OthersKeep DEF Inv
  <1> QED BY <1>1 DEF Inv

\* The rest, when nothing new is loaded.
LEMMA BaseQuiet ==
    ASSUME Base, InnerTypeOK', CallsPlaced', rq' \in [Requests -> Request],
           loaded' \in {loaded, NotLoaded}, nextNeedsVision' = nextNeedsVision,
           loadMu' \in Requests \cup {NoActor}, arrivals' \in 0..MaxArrivals,
           evict' = evict, sweep' = sweep
    PROVE  Base'
  <1>1. NotLoaded \in Load /\ NotLoaded.tier = NoTier
    BY DEF NotLoaded, Load
  <1>2. loaded' \in Load
    BY <1>1 DEF Base
  <1>3. LoadedCan' /\ ModeAgreement'
    BY <1>1 DEF Base, LoadedCan, ModeAgreement
  <1> QED BY <1>2, <1>3 DEF Base

\* A step outside the llama.cpp backends leaves their part alone.
LEMMA InnerSame ==
    ASSUME Base, UNCHANGED <<innerVars, call>>
    PROVE  /\ InnerTypeOK' /\ CallsPlaced' /\ nextNeedsVision' = nextNeedsVision
           /\ \A q : call'[q] = call[q]
  BY DEF Base, InnerTypeOK, CallsPlaced, innerVars

\* The slots in use do not change.
LEMMA SlotsSame ==
    ASSUME Inv, NEW r, HoldsSlot(r)' = HoldsSlot(r), inflight' = inflight,
           \A q \in Requests : q # r => rq'[q] = rq[q]
    PROVE  SlotsCounted'
  <1>1. Holders' = Holders
    BY DEF Holders, HoldsSlot
  <1> QED BY <1>1 DEF Inv, SlotsCounted

\* Frames of a new call.
LEMMA NewFrames ==
    /\ NoCall \in Frame /\ NoCall.step = "none"
    /\ \A t \in Tiers : ShutdownCall(t) \in Frame /\ ShutdownCall(t).tier = t
    /\ \A t \in Tiers, op \in {"infer", "stream", "tokenize"} :
          /\ NewCall(op, t) \in Frame /\ NewCall(op, t).tier = t
          /\ NewChat(op, t) \in Frame /\ NewChat(op, t).tier = t
  <1>1. NoPid \in 0..MaxPid
    BY Constants DEF NoPid
  <1>2. NoCall \in Frame /\ NoCall.step = "none"
    BY <1>1 DEF NoCall, Frame, Steps, Codes
  <1>3. ASSUME NEW op \in {"infer", "stream", "tokenize", "shutdown"}, NEW t \in Tiers,
               NEW s \in {"detach", "ensure"}
        PROVE  /\ [NoCall EXCEPT !.op = op, !.tier = t, !.step = s] \in Frame
               /\ [NoCall EXCEPT !.op = op, !.tier = t, !.step = s].tier = t
    <2> DEFINE f1 == [NoCall EXCEPT !.op = op]
               f2 == [f1 EXCEPT !.tier = t]
               f == [f2 EXCEPT !.step = s]
    <2>1. f1 \in Frame
      BY <1>2 DEF Frame
    <2> HIDE DEF f1
    <2>2. f2 \in Frame /\ f2.tier = t
      BY <2>1 DEF Frame
    <2> HIDE DEF f2
    <2>3. s \in Steps
      BY DEF Steps
    <2>4. f \in Frame /\ f.tier = t
      BY <2>2, <2>3 DEF Frame
    <2> HIDE DEF f
    <2>5. [NoCall EXCEPT !.op = op, !.tier = t, !.step = s] = f
      BY DEF f, f2, f1
    <2> QED BY <2>4, <2>5
  <1>4. \A t \in Tiers : ShutdownCall(t) \in Frame /\ ShutdownCall(t).tier = t
    BY <1>3 DEF ShutdownCall
  <1>5. \A t \in Tiers, op \in {"infer", "stream", "tokenize"} :
          NewCall(op, t) \in Frame /\ NewCall(op, t).tier = t
    BY <1>3 DEF NewCall
  <1>6. \A t \in Tiers, op \in {"infer", "stream", "tokenize"} :
          NewChat(op, t) \in Frame /\ NewChat(op, t).tier = t
    <2> SUFFICES ASSUME NEW t \in Tiers, NEW op \in {"infer", "stream", "tokenize"}
                 PROVE  NewChat(op, t) \in Frame /\ NewChat(op, t).tier = t
      OBVIOUS
    <2> DEFINE f == NewCall(op, t)
    <2>1. f \in Frame /\ f.tier = t /\ NewChat(op, t) = [f EXCEPT !.nctx = "due"]
      BY <1>5 DEF NewChat
    <2> HIDE DEF f
    <2>2. [f EXCEPT !.nctx = "due"] \in Frame
      BY <2>1, FrameFields
    <2>3. [f EXCEPT !.nctx = "due"].tier = f.tier
      BY <2>1 DEF Frame
    <2> QED BY <2>1, <2>2, <2>3
  <1> QED BY <1>2, <1>4, <1>5, <1>6

\* An actor's call is replaced.
LEMMA CallSet ==
    ASSUME Base, NEW a \in Actors, NEW c \in Frame, c.step = "none" \/ c.tier \in Tiers,
           UNCHANGED innerVars, call' = [call EXCEPT ![a] = c]
    PROVE  /\ InnerTypeOK' /\ CallsPlaced' /\ nextNeedsVision' = nextNeedsVision
           /\ \A b \in Actors : b # a => call'[b] = call[b]
           /\ call'[a] = c
  <1> HIDE DEF Frame
  <1>1. call \in [Actors -> Frame]
    BY DEF Base, InnerTypeOK
  <1>2. /\ call' \in [Actors -> Frame] /\ call'[a] = c
        /\ \A b \in Actors : b # a => call'[b] = call[b]
    BY <1>1
  <1>3. InnerTypeOK' /\ nextNeedsVision' = nextNeedsVision
    BY <1>2 DEF Base, InnerTypeOK, innerVars
  <1>4. CallsPlaced'
    BY <1>2 DEF Base, CallsPlaced
  <1> QED BY <1>2, <1>3, <1>4
-----------------------------------------------------------------------------
(***************************************************************************)
(* The steps of Infer and InferStream                                      *)
(***************************************************************************)

\* The invariant through the steps of a request: it arrives ...
LEMMA ArriveStep == ASSUME Inv, NEW r \in Requests, Arrive(r) PROVE Inv'
  <1>0. Base
    BY DEF Inv
  <1>1. PICK k \in ReqKinds : rq' = [rq EXCEPT ![r].pc = "sem", ![r].kind = k]
    BY DEF Arrive
  <1>2. rq' = [rq EXCEPT ![r].pc = "sem", ![r].kind = k] =>
           rq' = [rq EXCEPT ![r] = Rec("sem", k, rq[r].forced, rq[r].pick, rq[r].then)]
    BY <1>0, RequestFields DEF Rec
  <1>3. Becomes(r, "sem", k, rq[r].forced, rq[r].pick, rq[r].then)
    BY <1>0, <1>1, <1>2, RequestFields, Rewritten, PCs
  <1>4. InnerTypeOK' /\ CallsPlaced' /\ nextNeedsVision' = nextNeedsVision /\ \A q : call'[q] = call[q]
    BY <1>0, InnerSame DEF Arrive
  <1>5. Apart(r)
    BY <1>3, <1>4 DEF Apart, Arrive, Becomes
  <1>6. arrivals' \in 0..MaxArrivals
    BY Constants DEF Arrive, Inv, Base
  <1>7. Base'
    BY <1>0, <1>3, <1>4, <1>6, BaseQuiet DEF Arrive, Base, Becomes
  <1>8. RequestOK(r)'
    BY <1>3 DEF RequestOK, Becomes, At2, Selecting, Loading, HoldsSlot
  <1>9. SlotsCounted'
    BY <1>3, SlotsSame DEF Arrive, Becomes, HoldsSlot, At2
  <1> QED BY <1>5, <1>7, <1>8, <1>9, Assemble

\* A request takes the kind's values.
LEMMA KindFields ==
    ASSUME Base, NEW r \in Requests
    PROVE  /\ Kind(r).pin \in Tiers \cup {NoTier}
           /\ Kind(r).vision \in BOOLEAN /\ Kind(r).stream \in BOOLEAN
  BY RequestFields, Constants DEF Kind, ReqKind

\* ... takes a slot ...
LEMMA AcquireSlotStep == ASSUME Inv, NEW r \in Requests, AcquireSlot(r) PROVE Inv'
  <1> DEFINE p == IF Kind(r).pin # NoTier /\ Kind(r).vision /\ ~HasVision(Kind(r).pin)
                  THEN "finish" ELSE "select"
  <1>0. Base
    BY DEF Inv
  <1>1. AcquireSlot(r) => rq' = [rq EXCEPT ![r].forced = Kind(r).pin, ![r].pc = p]
    BY DEF AcquireSlot
  <1>p. p \in RequestPCs /\ p \in {"finish", "select"}
    BY PCs
  <1> HIDE DEF p
  <1>2. rq' = [rq EXCEPT ![r].forced = Kind(r).pin, ![r].pc = p] =>
           rq' = [rq EXCEPT ![r] = Rec(p, rq[r].kind, Kind(r).pin, rq[r].pick, rq[r].then)]
    BY <1>0, RequestFields DEF Rec
  <1>3. Becomes(r, p, rq[r].kind, Kind(r).pin, rq[r].pick, rq[r].then)
    BY <1>0, <1>1, <1>2, <1>p, RequestFields, KindFields, Rewritten
  <1>4. InnerTypeOK' /\ CallsPlaced' /\ nextNeedsVision' = nextNeedsVision /\ \A q : call'[q] = call[q]
    BY <1>0, InnerSame DEF AcquireSlot
  <1>5. Apart(r)
    BY <1>3, <1>4 DEF Apart, AcquireSlot, Becomes
  <1>7. Base'
    BY <1>0, <1>3, <1>4, BaseQuiet DEF AcquireSlot, Base, Becomes
  <1>8. RequestOK(r)'
    BY <1>3, <1>p DEF RequestOK, Becomes, At2, Selecting, Loading, HoldsSlot, Kind
  <1>9. SlotsCounted'
    <2>1. Holders' = Holders \cup {r} /\ r \notin Holders
      BY <1>3, <1>p DEF Becomes, Holders, HoldsSlot, AcquireSlot, At2
    <2>2. /\ IsFiniteSet(Holders) /\ inflight = Cardinality(Holders)
          /\ Cardinality(Holders) \in Nat /\ Cardinality(Holders) < MaxParallel
      BY FS_CardinalityType DEF Inv, SlotsCounted, AcquireSlot, Holders
    <2>3. IsFiniteSet(Holders') /\ Cardinality(Holders') = Cardinality(Holders) + 1
      BY <2>1, <2>2, FS_AddElement
    <2>4. inflight' = inflight + 1
      BY DEF AcquireSlot
    <2> QED BY <2>2, <2>3, <2>4, Constants DEF SlotsCounted
  <1> QED BY <1>5, <1>7, <1>8, <1>9, Assemble

\* A request goes back to idle.
LEMMA BackToIdle ==
    ASSUME Base, NEW r \in Requests, rq' = [rq EXCEPT ![r] = IdleRequest]
    PROVE  Becomes(r, "idle", NoKind, NoTier, NotLoaded, "idle")
  <1>1. IdleRequest = Rec("idle", NoKind, NoTier, NotLoaded, "idle")
    BY DEF IdleRequest, Rec
  <1>2. NotLoaded \in Load
    BY DEF NotLoaded, Load
  <1> QED BY <1>1, <1>2, PCs, Rewritten

\* ... or stops waiting for one ...
LEMMA CancelWaitStep == ASSUME Inv, NEW r \in Requests, CancelWait(r) PROVE Inv'
  <1>0. Base
    BY DEF Inv
  <1>3. Becomes(r, "idle", NoKind, NoTier, NotLoaded, "idle")
    BY <1>0, BackToIdle DEF CancelWait
  <1>4. InnerTypeOK' /\ CallsPlaced' /\ nextNeedsVision' = nextNeedsVision /\ \A q : call'[q] = call[q]
    BY <1>0, InnerSame DEF CancelWait
  <1>5. Apart(r)
    BY <1>3, <1>4 DEF Apart, CancelWait, Becomes
  <1>7. Base'
    BY <1>0, <1>3, <1>4, BaseQuiet DEF CancelWait, Base, Becomes
  <1>8. RequestOK(r)'
    BY <1>3 DEF RequestOK, Becomes, At2, Selecting, Loading, HoldsSlot
  <1>9. SlotsCounted'
    BY <1>3, SlotsSame DEF CancelWait, Becomes, HoldsSlot, At2
  <1> QED BY <1>5, <1>7, <1>8, <1>9, Assemble

\* ... and gives it back when it is done.
LEMMA FinishStep == ASSUME Inv, NEW r \in Requests, Finish(r) PROVE Inv'
  <1>0. Base
    BY DEF Inv
  <1>3. Becomes(r, "idle", NoKind, NoTier, NotLoaded, "idle")
    BY <1>0, BackToIdle DEF Finish
  <1>4. InnerTypeOK' /\ CallsPlaced' /\ nextNeedsVision' = nextNeedsVision /\ \A q : call'[q] = call[q]
    BY <1>0, InnerSame DEF Finish
  <1>5. Apart(r)
    BY <1>3, <1>4 DEF Apart, Finish, Becomes
  <1>7. Base'
    BY <1>0, <1>3, <1>4, BaseQuiet DEF Finish, Base, Becomes
  <1>8. RequestOK(r)'
    BY <1>3 DEF RequestOK, Becomes, At2, Selecting, Loading, HoldsSlot
  <1>9. SlotsCounted'
    <2>1. Holders' = Holders \ {r} /\ r \in Holders
      BY <1>3 DEF Becomes, Holders, HoldsSlot, Finish, At2
    <2>2. /\ IsFiniteSet(Holders) /\ inflight = Cardinality(Holders)
          /\ Cardinality(Holders) \in Nat /\ inflight <= MaxParallel
      BY FS_CardinalityType DEF Inv, SlotsCounted
    <2>3. IsFiniteSet(Holders') /\ Cardinality(Holders') = Cardinality(Holders) - 1
      BY <2>1, <2>2, FS_RemoveElement
    <2>4. inflight' = inflight - 1
      BY DEF Finish
    <2> QED BY <2>2, <2>3, <2>4, Constants DEF SlotsCounted
  <1> QED BY <1>5, <1>7, <1>8, <1>9, Assemble

\* The free VRAM is not known.
LEMMA QueryFailsStep == ASSUME Inv, NEW r \in Requests, QueryFails(r) PROVE Inv'
  <1>0. Base
    BY DEF Inv
  <1>3. Becomes(r, "finish", rq[r].kind, rq[r].forced, rq[r].pick, rq[r].then)
    BY <1>0, RequestGoes, PCs DEF QueryFails
  <1>4. InnerTypeOK' /\ CallsPlaced' /\ nextNeedsVision' = nextNeedsVision /\ \A q : call'[q] = call[q]
    BY <1>0, InnerSame DEF QueryFails
  <1>5. Apart(r)
    BY <1>3, <1>4 DEF Apart, QueryFails, Becomes, Unlock
  <1>6. loadMu' \in Requests \cup {NoActor}
    BY <1>0 DEF QueryFails, Unlock, Base
  <1>7. Base'
    BY <1>0, <1>3, <1>4, <1>6, BaseQuiet DEF QueryFails, Base, Becomes
  <1>h. HoldsSlot(r) /\ RequestOK(r)
    BY DEF QueryFails, At2, HoldsSlot, Inv
  <1>8. RequestOK(r)'
    BY <1>3, <1>h DEF RequestOK, Becomes, At2, Selecting, Loading, HoldsSlot, Kind
  <1>9. SlotsCounted'
    BY <1>3, <1>h, SlotsSame DEF QueryFails, Becomes, HoldsSlot
  <1> QED BY <1>5, <1>7, <1>8, <1>9, Assemble

\* evictLocked, and the call of Shutdown it leads to.
LEMMA EvictCall ==
    ASSUME Base, NEW a \in Actors, UNCHANGED innerVars,
           call' = IF loaded.tier = NoTier THEN call
                   ELSE [call EXCEPT ![a] = ShutdownCall(loaded.tier)]
    PROVE  /\ InnerTypeOK' /\ CallsPlaced' /\ nextNeedsVision' = nextNeedsVision
           /\ \A b \in Actors : b # a => call'[b] = call[b]
  <1>1. CASE loaded.tier = NoTier
    BY <1>1, InnerSame
  <1>2. CASE loaded.tier # NoTier
    <2>1. loaded.tier \in Tiers
      BY <1>2 DEF Base, Load
    <2>2. ShutdownCall(loaded.tier) \in Frame /\ ShutdownCall(loaded.tier).tier \in Tiers
      BY <2>1, NewFrames
    <2>3. call' = [call EXCEPT ![a] = ShutdownCall(loaded.tier)]
      BY <1>2
    <2> QED BY <2>2, <2>3, CallSet
  <1> QED BY <1>1, <1>2

\* A request inside selectAndLoad evicts what is loaded.
LEMMA SelectEvicts ==
    ASSUME Inv, NEW r \in Requests, NEW next \in {"choose", "load"}, NEW w \in Load,
           \/ EvictThen(r, next, rq[r]) /\ w = rq[r].pick
           \/ EvictThen(r, next, [rq[r] EXCEPT !.pick = w]),
           loadMu \in {NoActor, r}, loadMu' = r, HoldsSlot(r),
           next = "load" => /\ w.tier \in Tiers /\ w.vision = Kind(r).vision
                            /\ Kind(r).vision => HasVision(w.tier)
                            /\ rq[r].forced \in {NoTier, w.tier},
           UNCHANGED <<innerVars, inflight, evict, sweep, arrivals>>
    PROVE  Inv'
  <1>0. Base
    BY DEF Inv
  <1>n. next \in RequestPCs
    BY PCs
  <1>1. /\ loaded.tier = NoTier => Becomes(r, next, rq[r].kind, rq[r].forced, w, "idle")
        /\ loaded.tier # NoTier => Becomes(r, "evicting", rq[r].kind, rq[r].forced, w, next)
        /\ loaded' = NotLoaded
        /\ call' = IF loaded.tier = NoTier THEN call
                   ELSE [call EXCEPT ![r] = ShutdownCall(loaded.tier)]
    BY <1>0, <1>n, RequestEvicts
  <1>2. NotLoaded.tier = NoTier
    BY DEF NotLoaded
  <1>3. /\ rq' \in [Requests -> Request]
        /\ \A q \in Requests : q # r => rq'[q] = rq[q]
        /\ \/ rq'[r].pc = next
           \/ rq'[r].pc = "evicting" /\ rq'[r].then = next
        /\ rq'[r].kind = rq[r].kind /\ rq'[r].forced = rq[r].forced /\ rq'[r].pick = w
    BY <1>1 DEF Becomes
  <1>4. /\ InnerTypeOK' /\ CallsPlaced' /\ nextNeedsVision' = nextNeedsVision
        /\ \A b \in Actors : b # r => call'[b] = call[b]
    BY <1>0, <1>1, EvictCall, Constants
  <1>5. Apart(r)
    BY <1>1, <1>3, <1>4, Constants DEF Apart
  <1>7. Base'
    BY <1>0, <1>1, <1>3, <1>4, BaseQuiet DEF Base
  <1>8. RequestOK(r)'
    <2>1. RequestOK(r)
      BY DEF Inv
    <2> QED BY <1>1, <1>2, <1>3, <2>1
            DEF RequestOK, At2, Selecting, Loading, HoldsSlot, Kind
  <1>9. SlotsCounted'
    BY <1>3, SlotsSame DEF HoldsSlot
  <1> QED BY <1>5, <1>7, <1>8, <1>9, Assemble

\* A request that selects goes on; nothing else changes but the lock.
LEMMA SelectGoes ==
    ASSUME Inv, NEW r \in Requests, NEW p \in {"reuse", "choose", "selected", "finish"},
           NEW w \in Load, HoldsSlot(r),
           Becomes(r, p, rq[r].kind, rq[r].forced, w, rq[r].then),
           loadMu \in {NoActor, r}, loadMu' \in {NoActor, r},
           p \in {"reuse", "choose"} => loadMu' = r,
           p \in {"reuse", "selected"} => /\ w.tier \in Tiers /\ w.vision = Kind(r).vision
                                          /\ Kind(r).vision => HasVision(w.tier)
                                          /\ rq[r].forced \in {NoTier, w.tier},
           UNCHANGED <<innerVars, call, loaded, inflight, evict, sweep, arrivals>>
    PROVE  Inv'
  <1>0. Base
    BY DEF Inv
  <1>4. InnerTypeOK' /\ CallsPlaced' /\ nextNeedsVision' = nextNeedsVision /\ \A q : call'[q] = call[q]
    BY <1>0, InnerSame
  <1>5. Apart(r)
    BY <1>4 DEF Apart, Becomes
  <1>7. Base'
    BY <1>0, <1>4, BaseQuiet DEF Base, Becomes
  <1>8. RequestOK(r)'
    <2>1. RequestOK(r)
      BY DEF Inv
    <2> QED BY <2>1 DEF RequestOK, Becomes, At2, Selecting, Loading, HoldsSlot, Kind
  <1>9. SlotsCounted'
    BY SlotsSame DEF HoldsSlot, Becomes
  <1> QED BY <1>5, <1>7, <1>8, <1>9, Assemble

\* The loaded tier is checked for reuse.
LEMMA SelectCheckStep == ASSUME Inv, NEW r \in Requests, SelectCheck(r) PROVE Inv'
  <1>0. Base /\ RequestOK(r) /\ HoldsSlot(r) /\ rq[r].pick \in Load /\ loaded \in Load
    BY RequestFields DEF Inv, Base, SelectCheck, At2, HoldsSlot
  <1>1. loadMu = NoActor /\ loadMu' = r
    BY DEF SelectCheck
  <1>2. CASE RGoto(r, "choose") /\ UNCHANGED <<loaded, call>>
    <2>1. Becomes(r, "choose", rq[r].kind, rq[r].forced, rq[r].pick, rq[r].then)
      BY <1>0, <1>2, RequestGoes, PCs
    <2> QED BY <1>0, <1>1, <1>2, <2>1, SelectGoes DEF SelectCheck
  <1>3. CASE EvictThen(r, "choose", rq[r])
    BY <1>0, <1>1, <1>3, SelectEvicts DEF SelectCheck
  <1>4. CASE /\ loaded.tier # NoTier /\ loaded.vision = Kind(r).vision
             /\ rq[r].forced \in {NoTier, loaded.tier}
             /\ rq' = [rq EXCEPT ![r].pc = "reuse", ![r].pick = loaded]
             /\ UNCHANGED <<loaded, call>>
    <2>1. rq' = [rq EXCEPT ![r].pc = "reuse", ![r].pick = loaded] =>
             rq' = [rq EXCEPT ![r] = Rec("reuse", rq[r].kind, rq[r].forced, loaded, rq[r].then)]
      BY <1>0, RequestFields DEF Rec
    <2>2. Becomes(r, "reuse", rq[r].kind, rq[r].forced, loaded, rq[r].then)
      BY <1>0, <1>4, <2>1, RequestFields, PCs, Rewritten
    <2>3. loaded.tier \in Tiers /\ (Kind(r).vision => HasVision(loaded.tier))
      BY <1>0, <1>4 DEF Load, Base, LoadedCan
    <2> QED BY <1>0, <1>1, <1>4, <2>2, <2>3, SelectGoes DEF SelectCheck
  <1> QED BY <1>2, <1>3, <1>4 DEF SelectCheck

\* The loaded model is used again, or evicted for another.
LEMMA ReuseReadStep == ASSUME Inv, NEW r \in Requests, ReuseRead(r) PROVE Inv'
  <1>0. Base /\ RequestOK(r) /\ HoldsSlot(r) /\ rq[r].pick \in Load /\ At2(r, "reuse")
    BY RequestFields DEF Inv, Base, ReuseRead, At2, HoldsSlot
  <1>1. loadMu = r
    BY <1>0 DEF RequestOK, Selecting, At2
  <1>2. CASE RGoto(r, "selected") /\ Unlock(r) /\ UNCHANGED <<loaded, call>>
    <2>1. Becomes(r, "selected", rq[r].kind, rq[r].forced, rq[r].pick, rq[r].then)
      BY <1>0, <1>2, RequestGoes, PCs
    <2>2. /\ rq[r].pick.tier \in Tiers /\ rq[r].pick.vision = Kind(r).vision
          /\ Kind(r).vision => HasVision(rq[r].pick.tier)
          /\ rq[r].forced \in {NoTier, rq[r].pick.tier}
      BY <1>0 DEF RequestOK, At2
    <2> QED BY <1>0, <1>1, <1>2, <2>1, <2>2, SelectGoes DEF ReuseRead, Unlock
  <1>3. CASE EvictThen(r, "choose", [rq[r] EXCEPT !.pick = NotLoaded]) /\ UNCHANGED loadMu
    <2>1. NotLoaded \in Load
      BY DEF NotLoaded, Load
    <2> QED BY <1>0, <1>1, <1>3, <2>1, SelectEvicts DEF ReuseRead
  <1> QED BY <1>2, <1>3 DEF ReuseRead

\* A tier is chosen under loadMu, and it is one the request may be served on.
LEMMA ChooseTierStep == ASSUME Inv, NEW r \in Requests, ChooseTier(r) PROVE Inv'
  <1>0. /\ Base /\ RequestOK(r) /\ HoldsSlot(r) /\ rq[r].pick \in Load /\ At2(r, "choose")
        /\ loaded \in Load /\ Kind(r).vision \in BOOLEAN
    BY RequestFields, KindFields DEF Inv, Base, ChooseTier, At2, HoldsSlot
  <1>1. loadMu = r
    BY <1>0 DEF RequestOK, Selecting, At2
  <1>2. CASE RGoto(r, "finish") /\ Unlock(r) /\ UNCHANGED <<loaded, call>>
    <2>1. Becomes(r, "finish", rq[r].kind, rq[r].forced, rq[r].pick, rq[r].then)
      BY <1>0, <1>2, RequestGoes, PCs
    <2> QED BY <1>0, <1>1, <1>2, <2>1, SelectGoes DEF ChooseTier, Unlock
  <1>3. ASSUME NEW avail \in AvailReadings, NEW c \in Admissible(avail, rq[r].forced, Kind(r).vision),
               loaded.tier = c.tier, loaded.vision = Kind(r).vision,
               rq' = [rq EXCEPT ![r].pc = "selected", ![r].pick = loaded],
               Unlock(r), UNCHANGED <<loaded, call>>
        PROVE  Inv'
    <2>1. rq' = [rq EXCEPT ![r].pc = "selected", ![r].pick = loaded] =>
             rq' = [rq EXCEPT ![r] = Rec("selected", rq[r].kind, rq[r].forced, loaded, rq[r].then)]
      BY <1>0, RequestFields DEF Rec
    <2>2. Becomes(r, "selected", rq[r].kind, rq[r].forced, loaded, rq[r].then)
      BY <1>0, <1>3, <2>1, RequestFields, PCs, Rewritten
    <2>3. /\ loaded.tier \in Tiers /\ (Kind(r).vision => HasVision(loaded.tier))
          /\ rq[r].forced \in {NoTier, loaded.tier}
      BY <1>0, <1>3, AdmissibleTier, ConcurrencyAssumption
    <2> QED BY <1>0, <1>1, <1>3, <2>2, <2>3, SelectGoes DEF ChooseTier, Unlock
  <1>4. ASSUME NEW avail \in AvailReadings, NEW c \in Admissible(avail, rq[r].forced, Kind(r).vision),
               EvictThen(r, "load", [rq[r] EXCEPT !.pick = [tier |-> c.tier, layers |-> c.layers,
                                                            vision |-> Kind(r).vision]]),
               UNCHANGED loadMu
        PROVE  Inv'
    <2> DEFINE w == [tier |-> c.tier, layers |-> c.layers, vision |-> Kind(r).vision]
    <2>1. /\ c.tier \in Tiers /\ c.layers \in Int /\ (Kind(r).vision => HasVision(c.tier))
          /\ rq[r].forced \in {NoTier, c.tier}
      BY <1>0, AdmissibleTier, ConcurrencyAssumption
    <2>2. w \in Load /\ w.tier = c.tier /\ w.vision = Kind(r).vision
      BY <1>0, <2>1 DEF Load
    <2>3. EvictThen(r, "load", [rq[r] EXCEPT !.pick = w])
      BY <1>4
    <2> HIDE DEF w
    <2> QED BY <1>0, <1>1, <1>4, <2>1, <2>2, <2>3, SelectEvicts DEF ChooseTier
  <1> QED BY <1>2, <1>3, <1>4 DEF ChooseTier

\* The mode is pushed under loadMu, while nothing is recorded as loaded.
LEMMA LoadModelStep == ASSUME Inv, NEW r \in Requests, LoadModel(r) PROVE Inv'
  <1>0. Base /\ RequestOK(r) /\ HoldsSlot(r) /\ At2(r, "load") /\ rq[r].pick \in Load
    BY RequestFields DEF Inv, LoadModel, At2, HoldsSlot
  <1>1. loadMu = r /\ loaded.tier = NoTier
    BY <1>0 DEF RequestOK, Selecting, Loading, At2
  <1>2. /\ rq[r].pick.tier \in Tiers /\ rq[r].pick.vision \in BOOLEAN
    BY <1>0 DEF RequestOK, Loading, At2, Load
  <1>3. Becomes(r, "record", rq[r].kind, rq[r].forced, rq[r].pick, rq[r].then)
    BY <1>0, RequestGoes, PCs DEF LoadModel
  <1>4. /\ nextNeedsVision' \in [Tiers -> BOOLEAN]
        /\ nextNeedsVision'[rq[r].pick.tier] = rq[r].pick.vision
    BY <1>0, <1>2 DEF LoadModel, SetNextNeedsVision, Base, InnerTypeOK
  <1>5. Apart(r)
    BY <1>1, <1>3 DEF Apart, LoadModel, Becomes
  <1>6. InnerTypeOK' /\ CallsPlaced'
    BY <1>0, <1>4 DEF Base, InnerTypeOK, CallsPlaced, LoadModel
  <1>7. Base'
    BY <1>0, <1>1, <1>3, <1>6 DEF LoadModel, Base, Becomes, LoadedCan, ModeAgreement
  <1>8. RequestOK(r)'
    BY <1>0, <1>1, <1>3, <1>4
       DEF RequestOK, Becomes, At2, Selecting, Loading, HoldsSlot, Kind, LoadModel
  <1>9. SlotsCounted'
    BY <1>0, <1>3, SlotsSame DEF HoldsSlot, Becomes, LoadModel
  <1> QED BY <1>5, <1>7, <1>8, <1>9, Assemble

\* The load is recorded with the mode that was pushed before it.
LEMMA RecordLoadStep == ASSUME Inv, NEW r \in Requests, RecordLoad(r) PROVE Inv'
  <1>0. Base /\ RequestOK(r) /\ HoldsSlot(r) /\ At2(r, "record") /\ rq[r].pick \in Load
    BY RequestFields DEF Inv, RecordLoad, At2, HoldsSlot
  <1>1. loadMu = r /\ loadMu' = NoActor /\ loaded' = rq[r].pick
    BY <1>0 DEF RequestOK, Selecting, Loading, At2, RecordLoad, Unlock
  <1>2. /\ rq[r].pick.tier \in Tiers /\ rq[r].pick.vision = Kind(r).vision
        /\ Kind(r).vision => HasVision(rq[r].pick.tier)
        /\ rq[r].forced \in {NoTier, rq[r].pick.tier}
        /\ nextNeedsVision[rq[r].pick.tier] = rq[r].pick.vision
    BY <1>0 DEF RequestOK, Loading, At2
  <1>3. Becomes(r, "selected", rq[r].kind, rq[r].forced, rq[r].pick, rq[r].then)
    BY <1>0, RequestGoes, PCs DEF RecordLoad
  <1>4. InnerTypeOK' /\ CallsPlaced' /\ nextNeedsVision' = nextNeedsVision /\ \A q : call'[q] = call[q]
    BY <1>0, InnerSame DEF RecordLoad
  <1>5. Apart(r)
    BY <1>1, <1>3, <1>4 DEF Apart, Becomes
  <1>6. loaded' \in Load /\ LoadedCan' /\ ModeAgreement'
    BY <1>0, <1>1, <1>2, <1>4 DEF LoadedCan, ModeAgreement
  <1>7. Base'
    BY <1>0, <1>1, <1>3, <1>4, <1>6 DEF RecordLoad, Base, Becomes
  <1>8. RequestOK(r)'
    BY <1>0, <1>2, <1>3 DEF RequestOK, Becomes, At2, Selecting, Loading, HoldsSlot, Kind
  <1>9. SlotsCounted'
    BY <1>0, <1>3, SlotsSame DEF HoldsSlot, Becomes, RecordLoad
  <1> QED BY <1>5, <1>7, <1>8, <1>9, Assemble

\* A tier is selected, or none.
LEMMA AfterSelectStep == ASSUME Inv, NEW r \in Requests, AfterSelect(r) PROVE Inv'
  <1> DEFINE next == SpeedFloorNext(rq[r].pick.tier, Kind(r).vision)
  <1>0. Base /\ RequestOK(r) /\ HoldsSlot(r) /\ At2(r, "selected") /\ rq[r].pick \in Load
    BY RequestFields DEF Inv, AfterSelect, At2, HoldsSlot
  <1>1. /\ rq[r].pick.tier \in Tiers /\ rq[r].pick.vision = Kind(r).vision
        /\ Kind(r).vision => HasVision(rq[r].pick.tier)
        /\ rq[r].forced \in {NoTier, rq[r].pick.tier}
    BY <1>0 DEF RequestOK, At2
  <1>2. CASE RGoto(r, "finish") /\ UNCHANGED call
    <2>3. Becomes(r, "finish", rq[r].kind, rq[r].forced, rq[r].pick, rq[r].then)
      BY <1>0, <1>2, RequestGoes, PCs
    <2>4. InnerTypeOK' /\ CallsPlaced' /\ nextNeedsVision' = nextNeedsVision /\ \A q : call'[q] = call[q]
      BY <1>0, <1>2, InnerSame DEF AfterSelect
    <2>5. Apart(r)
      BY <2>3, <2>4 DEF Apart, AfterSelect, Becomes
    <2>7. Base'
      BY <1>0, <2>3, <2>4, BaseQuiet DEF AfterSelect, Base, Becomes
    <2>8. RequestOK(r)'
      BY <1>0, <2>3 DEF RequestOK, Becomes, At2, Selecting, Loading, HoldsSlot, Kind
    <2>9. SlotsCounted'
      BY <1>0, <2>3, SlotsSame DEF HoldsSlot, Becomes, AfterSelect
    <2> QED BY <2>5, <2>7, <2>8, <2>9, Assemble
  <1>3. CASE /\ Kind(r).pin = NoTier /\ next # NoTier
             /\ rq' = [rq EXCEPT ![r].pc = "select", ![r].forced = next, ![r].pick = NotLoaded]
             /\ UNCHANGED call
    <2>1. next \in Tiers /\ NotLoaded \in Load
      BY <1>3, SpeedFloorTier DEF NotLoaded, Load
    <2> HIDE DEF next
    <2>2. rq' = [rq EXCEPT ![r].pc = "select", ![r].forced = next, ![r].pick = NotLoaded] =>
             rq' = [rq EXCEPT ![r] = Rec("select", rq[r].kind, next, NotLoaded, rq[r].then)]
      BY <1>0, RequestFields DEF Rec
    <2>3. Becomes(r, "select", rq[r].kind, next, NotLoaded, rq[r].then)
      BY <1>0, <1>3, <2>1, <2>2, RequestFields, PCs, Rewritten
    <2>4. InnerTypeOK' /\ CallsPlaced' /\ nextNeedsVision' = nextNeedsVision /\ \A q : call'[q] = call[q]
      BY <1>0, <1>3, InnerSame DEF AfterSelect
    <2>5. Apart(r)
      BY <2>3, <2>4 DEF Apart, AfterSelect, Becomes
    <2>7. Base'
      BY <1>0, <2>3, <2>4, BaseQuiet DEF AfterSelect, Base, Becomes
    <2>8. RequestOK(r)'
      BY <1>3, <2>3 DEF RequestOK, Becomes, At2, Selecting, Loading, HoldsSlot, Kind
    <2>9. SlotsCounted'
      BY <1>0, <2>3, SlotsSame DEF HoldsSlot, Becomes, AfterSelect
    <2> QED BY <2>5, <2>7, <2>8, <2>9, Assemble
  <1>4. CASE MinTierOK(rq[r].pick.tier, Kind(r).min) /\ BeginInfer(r)
    <2> DEFINE op == IF Kind(r).stream THEN "stream" ELSE "infer"
               c == IF Kind(r).chat THEN NewChat(op, rq[r].pick.tier)
                    ELSE NewCall(op, rq[r].pick.tier)
    <2>1. c \in Frame /\ c.tier = rq[r].pick.tier
      BY <1>1, NewFrames
    <2>2. call' = [call EXCEPT ![r] = c]
      BY <1>4 DEF BeginInfer
    <2> HIDE DEF c
    <2>3. Becomes(r, "infer", rq[r].kind, rq[r].forced, rq[r].pick, rq[r].then)
      BY <1>0, <1>4, RequestGoes, PCs DEF BeginInfer
    <2>4. /\ InnerTypeOK' /\ CallsPlaced' /\ nextNeedsVision' = nextNeedsVision
          /\ \A b \in Actors : b # r => call'[b] = call[b]
          /\ call'[r].tier = rq[r].pick.tier
      <3>1. r \in Actors /\ c.tier \in Tiers /\ UNCHANGED innerVars
        BY <1>0, <1>1, <2>1, Constants DEF AfterSelect
      <3>2. /\ InnerTypeOK' /\ CallsPlaced' /\ nextNeedsVision' = nextNeedsVision
            /\ \A b \in Actors : b # r => call'[b] = call[b]
            /\ call'[r] = c
        BY <1>0, <2>1, <2>2, <3>1, CallSet
      <3> QED BY <2>1, <3>2
    <2>5. Apart(r)
      BY <2>3, <2>4, Constants DEF Apart, AfterSelect, Becomes
    <2>7. Base'
      BY <1>0, <2>3, <2>4, BaseQuiet DEF AfterSelect, Base, Becomes
    <2>8. RequestOK(r)'
      BY <1>0, <1>1, <1>4, <2>3, <2>4 DEF RequestOK, Becomes, At2, Selecting, Loading, HoldsSlot, Kind
    <2>9. SlotsCounted'
      BY <1>0, <2>3, SlotsSame DEF HoldsSlot, Becomes, AfterSelect
    <2> QED BY <2>5, <2>7, <2>8, <2>9, Assemble
  <1> QED BY <1>2, <1>3, <1>4 DEF AfterSelect

\* The load-failure cascade goes to a smaller tier, and only without a pin.
LEMMA FallbackTier ==
    ASSUME NEW r, rq[r].pick.tier \in Tiers, Fallback(r) # NoTier
    PROVE  Fallback(r) \in Tiers /\ Kind(r).pin = NoTier
  BY TierRange DEF Fallback, oomFallbackTier, tierBelow, NoTier

\* The model has answered, or its process has failed.
LEMMA InferReturnsStep == ASSUME Inv, NEW r \in Requests, InferReturns(r) PROVE Inv'
  <1>0. Base /\ RequestOK(r) /\ HoldsSlot(r) /\ At2(r, "infer") /\ loaded \in Load
    BY DEF Inv, Base, InferReturns, At2, HoldsSlot
  <1>1. rq[r].pick.tier \in Tiers
    BY <1>0 DEF RequestOK, At2
  <1>2. CASE Fallback(r) = NoTier
    <2>3. Becomes(r, "finish", rq[r].kind, rq[r].forced, rq[r].pick, rq[r].then)
      BY <1>0, <1>2, RequestGoes, PCs DEF InferReturns
    <2>4. /\ InnerTypeOK' /\ CallsPlaced' /\ nextNeedsVision' = nextNeedsVision
          /\ \A b \in Actors : b # r => call'[b] = call[b]
      BY <1>0, <1>2, NewFrames, CallSet, Constants DEF InferReturns
    <2>5. Apart(r)
      BY <1>2, <2>3, <2>4, Constants DEF Apart, InferReturns, Becomes
    <2>7. Base'
      BY <1>0, <1>2, <2>3, <2>4, BaseQuiet DEF InferReturns, Base, Becomes
    <2>8. RequestOK(r)'
      BY <1>0, <2>3 DEF RequestOK, Becomes, At2, Selecting, Loading, HoldsSlot, Kind
    <2>9. SlotsCounted'
      BY <1>0, <2>3, SlotsSame DEF HoldsSlot, Becomes, InferReturns
    <2> QED BY <2>5, <2>7, <2>8, <2>9, Assemble
  <1>3. CASE Fallback(r) # NoTier
    <2> DEFINE c == IF loaded.tier = NoTier THEN NoCall ELSE ShutdownCall(loaded.tier)
               p == IF loaded.tier = NoTier THEN "select" ELSE "evicting"
               n == IF loaded.tier = NoTier THEN "idle" ELSE "select"
               f == Fallback(r)
    <2>1. /\ f \in Tiers /\ Kind(r).pin = NoTier /\ NotLoaded \in Load
          /\ p \in RequestPCs /\ n \in RequestPCs
          /\ p = "select" \/ (p = "evicting" /\ n = "select")
      BY <1>1, <1>3, FallbackTier, PCs DEF NotLoaded, Load
    <2>2. c \in Frame /\ (c.step = "none" \/ c.tier \in Tiers)
      BY <1>0, NewFrames DEF Load
    <2>m. /\ call' = [call EXCEPT ![r] = c] /\ loaded' = NotLoaded
          /\ rq' = [rq EXCEPT ![r].forced = f, ![r].pick = NotLoaded, ![r].pc = p, ![r].then = n]
      BY <1>3 DEF InferReturns
    <2> HIDE DEF c, p, n, f
    <2>r. rq' = [rq EXCEPT ![r].forced = f, ![r].pick = NotLoaded, ![r].pc = p, ![r].then = n] =>
             rq' = [rq EXCEPT ![r] = Rec(p, rq[r].kind, f, NotLoaded, n)]
      BY <1>0, RequestFields DEF Rec
    <2>3. Becomes(r, p, rq[r].kind, f, NotLoaded, n)
      BY <1>0, <2>1, <2>m, <2>r, RequestFields, Rewritten
    <2>4. /\ InnerTypeOK' /\ CallsPlaced' /\ nextNeedsVision' = nextNeedsVision
          /\ \A b \in Actors : b # r => call'[b] = call[b]
      BY <1>0, <2>2, <2>m, CallSet, Constants DEF InferReturns
    <2>5. Apart(r)
      BY <2>3, <2>4, <2>m, Constants DEF Apart, InferReturns, Becomes
    <2>7. Base'
      BY <1>0, <2>3, <2>4, <2>m, BaseQuiet DEF InferReturns, Base, Becomes
    <2>8. RequestOK(r)'
      BY <2>1, <2>3 DEF RequestOK, Becomes, At2, Selecting, Loading, HoldsSlot, Kind
    <2>9. SlotsCounted'
      BY <1>0, <2>1, <2>3, SlotsSame DEF HoldsSlot, Becomes, InferReturns
    <2> QED BY <2>5, <2>7, <2>8, <2>9, Assemble
  <1> QED BY <1>2, <1>3

\* The model that a request evicts has been stopped.
LEMMA RequestStoppedStep == ASSUME Inv, NEW r \in Requests, RequestStopped(r) PROVE Inv'
  <1> DEFINE p == rq[r].then
  <1>0. Base /\ RequestOK(r) /\ HoldsSlot(r) /\ At2(r, "evicting")
    BY DEF Inv, RequestStopped, At2, HoldsSlot
  <1>1. p \in RequestPCs /\ p \in {"choose", "load", "select"}
    BY <1>0, RequestFields DEF RequestOK
  <1>m. rq' = [rq EXCEPT ![r].pc = p, ![r].then = "idle"]
    BY DEF RequestStopped
  <1>2. rq' = [rq EXCEPT ![r].pc = p, ![r].then = "idle"] =>
           rq' = [rq EXCEPT ![r] = Rec(p, rq[r].kind, rq[r].forced, rq[r].pick, "idle")]
    BY <1>0, RequestFields DEF Rec
  <1>3. Becomes(r, p, rq[r].kind, rq[r].forced, rq[r].pick, "idle")
    BY <1>0, <1>1, <1>2, <1>m, RequestFields, PCs, Rewritten
  <1>4. /\ InnerTypeOK' /\ CallsPlaced' /\ nextNeedsVision' = nextNeedsVision
        /\ \A b \in Actors : b # r => call'[b] = call[b]
    <2>1. /\ r \in Actors /\ UNCHANGED innerVars
          /\ call' = [call EXCEPT ![r] = NoCall]
      BY Constants DEF RequestStopped
    <2>2. NoCall \in Frame /\ NoCall.step = "none"
      BY NewFrames
    <2> QED BY <1>0, <2>1, <2>2, CallSet
  <1>5. Apart(r)
    BY <1>3, <1>4, Constants DEF Apart, RequestStopped, Becomes
  <1>7. Base'
    BY <1>0, <1>3, <1>4, BaseQuiet DEF RequestStopped, Base, Becomes
  <1>8. RequestOK(r)'
    BY <1>0, <1>1, <1>3
       DEF RequestOK, Becomes, At2, Selecting, Loading, HoldsSlot, Kind, RequestStopped
  <1>9. SlotsCounted'
    BY <1>0, <1>1, <1>3, SlotsSame DEF HoldsSlot, Becomes, RequestStopped
  <1> QED BY <1>5, <1>7, <1>8, <1>9, Assemble
-----------------------------------------------------------------------------
(***************************************************************************)
(* The backends' own steps, Tokenize, the eviction loop and the reaper     *)
(***************************************************************************)

\* A step inside a llama.cpp backend, whoever makes the call.
LEMMA BackendStepStep == ASSUME Inv, NEW a \in Actors, BackendStep(a) PROVE Inv'
  <1>1. InnerTypeOK' /\ CallsPlaced' /\ GoesOn(a) /\ nextNeedsVision' = nextNeedsVision
    BY InnerMoves DEF BackendStep, Inv, Base
  <1>2. UNCHANGED <<loaded, inflight, loadMu, rq, evict, sweep, arrivals>>
    BY DEF BackendStep, outerVars
  <1>3. Base'
    BY <1>1, <1>2, BaseQuiet DEF Inv, Base
  <1>4. SlotsCounted'
    BY <1>2, SlotsSame DEF HoldsSlot
  <1>5. ASSUME NEW q \in Requests PROVE RequestOK(q)'
    <2>1. call'[q].tier = call[q].tier
      BY <1>1, Constants DEF GoesOn
    <2>2. RequestOK(q)
      BY DEF Inv
    <2> QED BY <1>1, <1>2, <2>1, <2>2 DEF RequestOK, At2, Selecting, Loading, HoldsSlot, Kind
  <1> QED BY <1>3, <1>4, <1>5 DEF Inv

\* A step of another goroutine keeps the invariant once the rest is seen to.
LEMMA AssembleOther ==
    ASSUME Inv, Base', UNCHANGED <<rq, inflight, loadMu>>,
           \A q \in Requests : call'[q] = call[q],
           loaded' \in {loaded, NotLoaded}, nextNeedsVision' = nextNeedsVision
    PROVE  Inv'
  <1>1. Apart(Evictor) /\ Evictor # NoActor
    BY ConcurrencyAssumption DEF Apart
  <1>2. ASSUME NEW q \in Requests PROVE RequestOK(q)'
    BY <1>1, Constants, OthersKeep DEF Inv
  <1>3. SlotsCounted'
    BY SlotsSame DEF HoldsSlot
  <1> QED BY <1>2, <1>3 DEF Inv

\* A token count begins and returns.
LEMMA TokenizeStep ==
    ASSUME Inv, NEW k \in Tokenizers, TokenizeBegin(k) \/ TokenizeReturns(k)
    PROVE  Inv'
  <1>0. Base /\ k \in Actors /\ loaded \in Load
    BY Constants DEF Inv, Base
  <1>1. PICK c \in Frame : /\ c.step = "none" \/ c.tier \in Tiers
                           /\ call' = [call EXCEPT ![k] = c]
    <2>1. CASE TokenizeBegin(k)
      <3>1. loaded.tier \in Tiers
        BY <1>0, <2>1 DEF TokenizeBegin, Load
      <3>2. NewCall("tokenize", loaded.tier) \in Frame /\ NewCall("tokenize", loaded.tier).tier \in Tiers
        BY <3>1, NewFrames
      <3> QED BY <2>1, <3>2 DEF TokenizeBegin
    <2>2. CASE TokenizeReturns(k)
      BY <2>2, NewFrames DEF TokenizeReturns
    <2> QED BY <2>1, <2>2
  <1>2. /\ InnerTypeOK' /\ CallsPlaced' /\ nextNeedsVision' = nextNeedsVision
        /\ \A b \in Actors : b # k => call'[b] = call[b]
    BY <1>0, <1>1, CallSet DEF TokenizeBegin, TokenizeReturns
  <1>3. /\ UNCHANGED <<loaded, inflight, loadMu, rq, evict, sweep>>
        /\ arrivals' \in 0..MaxArrivals
    BY <1>0, Constants DEF TokenizeBegin, TokenizeReturns, outerVars, Base
  <1>4. Base'
    BY <1>0, <1>2, <1>3, BaseQuiet DEF Base
  <1> QED BY <1>2, <1>3, <1>4, AssembleOther, Constants

\* The eviction loop forgets the load before it stops the process.
LEMMA EvictorSteps ==
    ASSUME Inv, EvictIdle \/ EvictTick \/ EvictPressure \/ EvictStopped
    PROVE  Inv'
  <1>0. Base /\ Evictor \in Actors /\ sweep \in [step : {"off", "owned", "ports"},
                                                 owned : SUBSET (0..MaxPid), todo : SUBSET Tiers]
    BY Constants DEF Inv, Base
  <1>1. CASE EvictLocked(Evictor) /\ (EvictIdle \/ EvictPressure)
    <2>1. /\ InnerTypeOK' /\ CallsPlaced' /\ nextNeedsVision' = nextNeedsVision
          /\ \A b \in Actors : b # Evictor => call'[b] = call[b]
      BY <1>0, <1>1, EvictCall DEF EvictLocked, EvictIdle, EvictPressure
    <2>2. loaded' = NotLoaded /\ NotLoaded \in Load /\ NotLoaded.tier = NoTier
      BY <1>1 DEF EvictLocked, NotLoaded, Load
    <2>3. evict' \in {"tick", "pressure", "idleStop", "pressureStop"}
      BY <1>1 DEF EvictIdle, EvictPressure
    <2>4. UNCHANGED <<rq, inflight, loadMu, sweep, arrivals>>
      BY <1>1 DEF EvictIdle, EvictPressure
    <2>5. Base'
      BY <1>0, <2>1, <2>2, <2>3, <2>4 DEF Base, LoadedCan, ModeAgreement
    <2> QED BY <2>1, <2>2, <2>4, <2>5, AssembleOther, Constants
  <1>2. CASE UNCHANGED <<loaded, call>> /\ (EvictTick \/ EvictPressure)
    <2>1. InnerTypeOK' /\ CallsPlaced' /\ nextNeedsVision' = nextNeedsVision /\ \A q : call'[q] = call[q]
      BY <1>0, <1>2, InnerSame DEF EvictTick, EvictPressure
    <2>2. evict' \in {"tick", "pressure", "idleStop", "pressureStop"}
      BY <1>2 DEF EvictTick, EvictPressure
    <2>3. UNCHANGED <<rq, inflight, loadMu, sweep, arrivals>>
      BY <1>2 DEF EvictTick, EvictPressure
    <2>4. Base'
      BY <1>0, <1>2, <2>1, <2>2, <2>3 DEF Base, LoadedCan, ModeAgreement
    <2> QED BY <1>2, <2>1, <2>3, <2>4, AssembleOther
  <1>3. CASE EvictStopped
    <2>1. /\ InnerTypeOK' /\ CallsPlaced' /\ nextNeedsVision' = nextNeedsVision
          /\ \A b \in Actors : b # Evictor => call'[b] = call[b]
      BY <1>0, <1>3, NewFrames, CallSet DEF EvictStopped
    <2>2. StartSweep \in [step : {"off", "owned", "ports"},
                          owned : SUBSET (0..MaxPid), todo : SUBSET Tiers]
      BY <1>0 DEF StartSweep, NoSweep
    <2>3. sweep' \in [step : {"off", "owned", "ports"},
                      owned : SUBSET (0..MaxPid), todo : SUBSET Tiers]
      BY <1>0, <1>3, <2>2 DEF EvictStopped
    <2>4. UNCHANGED <<rq, inflight, loadMu, loaded, arrivals>> /\ evict' = "tick"
      BY <1>3 DEF EvictStopped
    <2>5. Base'
      BY <1>0, <2>1, <2>3, <2>4 DEF Base, LoadedCan, ModeAgreement
    <2> QED BY <2>1, <2>4, <2>5, AssembleOther, Constants
  <1> QED BY <1>1, <1>2, <1>3 DEF EvictIdle, EvictTick, EvictPressure

\* The eviction loop and the reaper.
LEMMA SweepSteps == ASSUME Inv, IdleSweep \/ SweepOwned \/ SweepPort PROVE Inv'
  <1> DEFINE Sweeps == [step : {"off", "owned", "ports"}, owned : SUBSET (0..MaxPid),
                        todo : SUBSET Tiers]
  <1>0. Base /\ sweep \in Sweeps
    BY DEF Inv, Base
  <1>1. CASE IdleSweep \/ SweepOwned
    <2>1. sweep' \in Sweeps
      <3>1. CASE IdleSweep
        BY <1>0, <3>1 DEF IdleSweep, StartSweep, NoSweep
      <3>2. CASE SweepOwned
        <4>1. {proc[t] : t \in Tiers} \ {NoPid} \in SUBSET (0..MaxPid)
          BY <1>0 DEF Base, InnerTypeOK
        <4> QED BY <3>2, <4>1 DEF SweepOwned
      <3> QED BY <1>1, <3>1, <3>2
    <2>2. InnerTypeOK' /\ CallsPlaced' /\ nextNeedsVision' = nextNeedsVision /\ \A q : call'[q] = call[q]
      BY <1>0, <1>1, InnerSame DEF IdleSweep, SweepOwned
    <2>3. UNCHANGED <<rq, inflight, loadMu, loaded, arrivals, evict>>
      BY <1>1 DEF IdleSweep, SweepOwned
    <2>4. Base'
      BY <1>0, <2>1, <2>2, <2>3 DEF Base, LoadedCan, ModeAgreement
    <2> QED BY <2>2, <2>3, <2>4, AssembleOther
  <1>2. CASE SweepPort
    <2>0. PICK t \in sweep.todo :
            /\ port' = IF port[t].pid \in sweep.owned THEN port ELSE [port EXCEPT ![t] = Closed]
            /\ sweep' = IF sweep.todo = {t} THEN NoSweep
                        ELSE [sweep EXCEPT !.todo = sweep.todo \ {t}]
      BY <1>2 DEF SweepPort
    <2>1. sweep' \in Sweeps
      BY <1>0, <2>0 DEF NoSweep
    <2>2. port' \in [Tiers -> [pid : 0..MaxPid, vision : BOOLEAN]]
      <3>1. Closed \in [pid : 0..MaxPid, vision : BOOLEAN]
        BY Constants DEF Closed, NoPid
      <3> QED BY <1>0, <2>0, <3>1 DEF Base, InnerTypeOK
    <2>3. /\ UNCHANGED <<proc, ready, runningWithVision, nextNeedsVision, restarting, startMu, call>>
          /\ UNCHANGED <<rq, inflight, loadMu, loaded, arrivals, evict>>
      BY <1>2 DEF SweepPort
    <2>4. InnerTypeOK' /\ CallsPlaced'
      BY <1>0, <2>2, <2>3 DEF Base, InnerTypeOK, CallsPlaced
    <2>5. Base'
      BY <1>0, <2>1, <2>3, <2>4 DEF Base, LoadedCan, ModeAgreement
    <2> QED BY <2>3, <2>5, AssembleOther
  <1> QED BY <1>1, <1>2

\* What is seen of processes, and their crashes.
LEMMA OutsideSteps ==
    ASSUME Inv, NEW t \in Tiers, ResidentMB(t) \/ Crash(t), UNCHANGED outerVars
    PROVE  Inv'
  <1>0. Base
    BY DEF Inv
  <1>1. UNCHANGED <<loaded, inflight, loadMu, rq, evict, sweep, arrivals>>
    BY DEF outerVars
  <1>2. UNCHANGED <<proc, runningWithVision, nextNeedsVision, restarting, startMu, call>>
    BY DEF ResidentMB, Crash
  <1>3. ready' \in [Tiers -> BOOLEAN] /\ port' \in [Tiers -> [pid : 0..MaxPid, vision : BOOLEAN]]
    <2>1. Closed \in [pid : 0..MaxPid, vision : BOOLEAN]
      BY Constants DEF Closed, NoPid
    <2>2. ready \in [Tiers -> BOOLEAN] /\ port \in [Tiers -> [pid : 0..MaxPid, vision : BOOLEAN]]
      BY <1>0 DEF Base, InnerTypeOK
    <2>3. CASE ResidentMB(t)
      BY <2>2, <2>3 DEF ResidentMB
    <2>4. CASE Crash(t)
      BY <2>1, <2>2, <2>4 DEF Crash
    <2> QED BY <2>3, <2>4
  <1>4. InnerTypeOK' /\ CallsPlaced'
    BY <1>0, <1>2, <1>3 DEF Base, InnerTypeOK, CallsPlaced
  <1>5. Base'
    BY <1>0, <1>1, <1>2, <1>4, BaseQuiet DEF Base
  <1> QED BY <1>1, <1>2, <1>5, AssembleOther
-----------------------------------------------------------------------------
\* The invariant holds at the start ...
LEMMA VramInit == Init => Inv
  <1> SUFFICES ASSUME Init PROVE Inv
    OBVIOUS
  <1>1. NotLoaded \in Load /\ NotLoaded.tier = NoTier
    BY DEF NotLoaded, Load
  <1>2. InnerTypeOK /\ CallsPlaced
    <2>1. NoPid \in 0..MaxPid /\ Closed \in [pid : 0..MaxPid, vision : BOOLEAN]
      BY Constants DEF NoPid, Closed
    <2>2. call \in [Actors -> Frame] /\ \A a \in Actors : call[a].step = "none"
      BY NewFrames DEF Init, InnerInit
    <2> QED BY <2>1, <2>2 DEF Init, InnerInit, InnerTypeOK, CallsPlaced
  <1>3. \A q \in Requests : rq[q] = IdleRequest
    BY DEF Init
  <1>4. rq \in [Requests -> Request]
    <2>1. IdleRequest \in Request
      BY <1>1, PCs DEF IdleRequest, Request
    <2> QED BY <2>1 DEF Init
  <1>5. Base
    <2>1. sweep \in [step : {"off", "owned", "ports"}, owned : SUBSET (0..MaxPid),
                     todo : SUBSET Tiers]
      BY DEF Init, NoSweep
    <2> QED BY <1>1, <1>2, <1>4, <2>1, Constants DEF Init, Base, LoadedCan, ModeAgreement
  <1>6. \A q \in Requests : rq[q].pc = "idle"
    BY <1>3 DEF IdleRequest
  <1>7. SlotsCounted
    <2>1. Holders = {}
      BY <1>6 DEF Holders, HoldsSlot
    <2> QED BY <2>1, FS_EmptySet, Constants DEF SlotsCounted, Init
  <1>8. ASSUME NEW q \in Requests PROVE RequestOK(q)
    BY <1>6 DEF RequestOK, At2, Selecting, Loading, HoldsSlot
  <1> QED BY <1>5, <1>7, <1>8 DEF Inv

\* ... and every step keeps it.
LEMMA VramStep == Inv /\ [Next]_vars => Inv'
  <1> SUFFICES ASSUME Inv, [Next]_vars PROVE Inv'
    OBVIOUS
  <1>1. ASSUME NEW r \in Requests, Arrive(r) \/ CancelWait(r) \/ RequestStep(r) PROVE Inv'
    BY <1>1, ArriveStep, CancelWaitStep, AcquireSlotStep, SelectCheckStep, QueryFailsStep,
       ReuseReadStep, ChooseTierStep, LoadModelStep, RecordLoadStep, AfterSelectStep,
       InferReturnsStep, RequestStoppedStep, FinishStep, BackendStepStep, Constants
       DEF RequestStep
  <1>2. ASSUME NEW k \in Tokenizers, TokenizeBegin(k) \/ TokenizerStep(k) PROVE Inv'
    BY <1>2, TokenizeStep, BackendStepStep, Constants DEF TokenizerStep
  <1>3. CASE EvictorStep \/ EvictTick \/ IdleSweep \/ SweepStep
    BY <1>3, EvictorSteps, SweepSteps, BackendStepStep, Constants DEF EvictorStep, SweepStep
  <1>4. ASSUME NEW t \in Tiers, ResidentMB(t) \/ Crash(t), UNCHANGED outerVars PROVE Inv'
    BY <1>4, OutsideSteps
  <1>5. CASE UNCHANGED vars
    <2>1. UNCHANGED <<innerVars, call>> /\ UNCHANGED <<loaded, inflight, loadMu, rq, evict, sweep, arrivals>>
      BY <1>5 DEF vars, outerVars
    <2>2. InnerTypeOK' /\ CallsPlaced' /\ nextNeedsVision' = nextNeedsVision /\ \A q : call'[q] = call[q]
      BY <2>1, InnerSame DEF Inv
    <2>3. Base'
      BY <2>1, <2>2, BaseQuiet DEF Inv, Base
    <2> QED BY <2>1, <2>2, <2>3, AssembleOther
  <1> QED BY <1>1, <1>2, <1>3, <1>4, <1>5 DEF Next

\* Every state the program reaches satisfies the invariant, whatever requests,
\* readings, crashes and failed stops happen.
LEMMA VramInvariant == Spec => []VramIInv
  <1>1. Inv => VramIInv
    BY ByRequest DEF Inv
  <1> QED BY <1>1, VramInit, VramStep, PTL DEF Spec

\* Every variable of vram.Backend and of its llama.cpp backends keeps its type;
\* in particular inflight never exceeds the MaxParallel slots of b.sem nor goes
\* below zero, so an eviction is never blocked by a leaked count.
THEOREM BackendTypeCorrect == Spec => []TypeOK
  <1>1. VramIInv => TypeOK
    BY DEF VramIInv
  <1> QED BY <1>1, VramInvariant, PTL

\* However a request came to its tier (Infer and InferStream: reuse, fresh load,
\* speed-floor cascade, load-failure cascade), that tier is the pinned one, not
\* below min_tier, and one with vision when the request carries an image.
THEOREM ServedAsRequested == Spec => []ServedAsAsked
  <1>1. VramIInv => ServedAsAsked
    BY DEF VramIInv
  <1> QED BY <1>1, VramInvariant, PTL

\* The mode recorded for the loaded model (b.loadedVision) is the mode its tier's
\* backend will spawn in (nextNeedsVision), across evictions and reloads that race.
THEOREM ModeIsKept == Spec => []ModeAgreement
  <1>1. VramIInv => ModeAgreement
    BY DEF VramIInv
  <1> QED BY <1>1, VramInvariant, PTL
=============================================================================
