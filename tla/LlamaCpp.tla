------------------------------ MODULE LlamaCpp ------------------------------
(***************************************************************************)
(* internal/backend/llamacpp: one backend per tier, each managing one      *)
(* llama-server subprocess on the tier's port.  Callers (inference         *)
(* requests, token counts, evictions) run the methods of backend.go        *)
(* concurrently; a method in progress is a frame in call[a], and one       *)
(* action is one critical section of b.mu or one slow operation outside    *)
(* it.  The operating system is reduced to what the code observes: which   *)
(* process listens on a port.  A process that cannot bind its port exits.  *)
(* The GPU layer split is data and left out; the --mmproj mode is kept.    *)
(***************************************************************************)
EXTENDS TierSelect

CONSTANTS Actors,      \* everything that may call a backend's methods
          NoActor,     \* owner of a free mutex
          MaxPid,      \* bound: process handles distinguishable at a time
          SlowAnswers, \* TRUE: a live process may miss the short probe deadlines
          StopMayFail  \* TRUE: a process may survive Stop ("survived stop+kill")

VARIABLES proc,        \* b.proc: the handle, NoPid = nil
          ready,       \* b.ready
          runningWithVision,
          nextNeedsVision,
          restarting,  \* b.restarting
          startMu,     \* holder of b.startMu
          port,        \* the process listening on the tier's port, and its mode
          call         \* the method each actor is executing

innerVars == <<proc, ready, runningWithVision, nextNeedsVision, restarting, startMu, port>>

NoPid == 0

Closed == [pid |-> NoPid, vision |-> FALSE]

Steps == {"none", "ensure", "modeStop", "modeClear", "probe", "probeClear",
          "startLock", "spawn", "poll", "connect", "run", "restart",
          "restartStop", "tokReset", "detach", "stop", "ret"}

Codes == {"", "ok", "timeout", "unavailable", "model_load_failed",
          "internal_error", "incomplete"}

Frame == [op : {"none", "infer", "stream", "tokenize", "shutdown"},
          tier : Tiers \cup {NoTier}, step : Steps, handle : 0..MaxPid,
          conn : 0..MaxPid, vision : BOOLEAN, retried : BOOLEAN,
          nctx : {"no", "due", "asking"}, code : Codes]

NoCall == [op |-> "none", tier |-> NoTier, step |-> "none", handle |-> NoPid,
           conn |-> NoPid, vision |-> FALSE, retried |-> FALSE, nctx |-> "no", code |-> ""]

\* A call of an inference or tokenize method, about to enter ensureRunning.
NewCall(op, t) == [NoCall EXCEPT !.op = op, !.tier = t, !.step = "ensure"]

\* The same for a chat without max_tokens, which will ask for the context size.
NewChat(op, t) == [NewCall(op, t) EXCEPT !.nctx = "due"]

\* stopInner(inner): a call of Shutdown.
ShutdownCall(t) == [NoCall EXCEPT !.op = "shutdown", !.tier = t, !.step = "detach"]

InnerTypeOK ==
    /\ proc \in [Tiers -> 0..MaxPid]
    /\ ready \in [Tiers -> BOOLEAN]
    /\ runningWithVision \in [Tiers -> BOOLEAN]
    /\ nextNeedsVision \in [Tiers -> BOOLEAN]
    /\ restarting \in [Tiers -> BOOLEAN]
    /\ startMu \in [Tiers -> Actors \cup {NoActor}]
    /\ port \in [Tiers -> [pid : 0..MaxPid, vision : BOOLEAN]]
    /\ call \in [Actors -> Frame]

InnerInit ==
    /\ proc = [t \in Tiers |-> NoPid]
    /\ ready = [t \in Tiers |-> FALSE]
    /\ runningWithVision = [t \in Tiers |-> FALSE]
    /\ nextNeedsVision = [t \in Tiers |-> FALSE]
    /\ restarting = [t \in Tiers |-> FALSE]
    /\ startMu = [t \in Tiers |-> NoActor]
    /\ port = [t \in Tiers |-> Closed]
    /\ call = [a \in Actors |-> NoCall]
-----------------------------------------------------------------------------
At(a, s) == call[a].step = s

T(a) == call[a].tier

Goto(a, s) == call' = [call EXCEPT ![a].step = s]

Return(a, c) ==
    call' = [call EXCEPT ![a].step = "ret", ![a].code = c,
                         ![a].handle = NoPid, ![a].conn = NoPid,
                         ![a].vision = FALSE, ![a].retried = FALSE, ![a].nctx = "no"]

\* Process numbers nobody refers to any more are used again.
Referenced(held) ==
    held \cup {proc[t] : t \in Tiers} \cup {port[t].pid : t \in Tiers}
         \cup {call[a].handle : a \in Actors} \cup {call[a].conn : a \in Actors}

IsFreshPid(p, held) ==
    /\ p \notin Referenced(held)
    /\ \A q \in 1..MaxPid : q < p => q \in Referenced(held)

\* The process behind handle p is gone; a handle to a dead process stops nothing.
Killed(t, p) ==
    IF p # NoPid /\ port[t].pid = p THEN [port EXCEPT ![t] = Closed] ELSE port

\* process.Stop: the process is verified dead, or survives and Stop says so.
StopProcess(t, p) ==
    \/ port' = Killed(t, p)
    \/ StopMayFail /\ port' = port

\* restartSubprocess' deferred reset: it runs when the nested ensureRunning ends
\* (NCtx's is none of its concern).
EndRestart(a) ==
    restarting' = IF call[a].retried /\ call[a].nctx # "asking" /\ call[a].op \in {"infer", "stream"}
                  THEN [restarting EXCEPT ![T(a)] = FALSE] ELSE restarting
-----------------------------------------------------------------------------
(***************************************************************************)
(* ensureRunning                                                           *)
(***************************************************************************)

\* The first critical section: is there a subprocess to reuse?
EnsureRunning(a) ==
    /\ At(a, "ensure")
    /\ IF ~ready[T(a)] THEN Goto(a, "startLock") /\ UNCHANGED restarting
       ELSE IF runningWithVision[T(a)] # nextNeedsVision[T(a)]
       THEN /\ call' = [call EXCEPT ![a].step = "modeStop", ![a].handle = proc[T(a)]]
            /\ UNCHANGED restarting
       ELSE IF proc[T(a)] = NoPid
       THEN Goto(a, "connect") /\ EndRestart(a)
       ELSE Goto(a, "probe") /\ UNCHANGED restarting
    /\ UNCHANGED <<proc, ready, runningWithVision, nextNeedsVision, startMu, port>>

\* Spawned in the wrong mode: stop it with b.mu released ...
ModeStop(a) ==
    /\ At(a, "modeStop")
    /\ StopProcess(T(a), call[a].handle)
    /\ call' = [call EXCEPT ![a].step = "modeClear", ![a].handle = NoPid]
    /\ UNCHANGED <<proc, ready, runningWithVision, nextNeedsVision, restarting, startMu>>

ClearHandle(a) ==
    /\ ready' = [ready EXCEPT ![T(a)] = FALSE]
    /\ proc' = [proc EXCEPT ![T(a)] = NoPid]

\* ... then forget the handle, whichever one is there by now.
ModeClear(a) ==
    /\ At(a, "modeClear")
    /\ ClearHandle(a)
    /\ Goto(a, "startLock")
    /\ UNCHANGED <<runningWithVision, nextNeedsVision, restarting, startMu, port>>

\* probeHealthy, outside b.mu.
ProbeHealthy(a) ==
    /\ At(a, "probe")
    /\ \/ /\ port[T(a)] # Closed
          /\ Goto(a, "connect")
          /\ EndRestart(a)
       \/ /\ port[T(a)] = Closed \/ SlowAnswers
          /\ Goto(a, "probeClear")
          /\ UNCHANGED restarting
    /\ UNCHANGED <<proc, ready, runningWithVision, nextNeedsVision, startMu, port>>

\* The probe failed: drop the handle without stopping anything.
ProbeClear(a) ==
    /\ At(a, "probeClear")
    /\ ClearHandle(a)
    /\ Goto(a, "startLock")
    /\ UNCHANGED <<runningWithVision, nextNeedsVision, restarting, startMu, port>>

\* Take startMu and look again; the mode to spawn is read here.
StartLock(a) ==
    /\ At(a, "startLock")
    /\ startMu[T(a)] = NoActor
    /\ \/ /\ ready[T(a)]
          /\ runningWithVision[T(a)] = nextNeedsVision[T(a)]
          /\ Goto(a, "connect")
          /\ EndRestart(a)
          /\ UNCHANGED startMu
       \/ /\ ~(ready[T(a)] /\ runningWithVision[T(a)] = nextNeedsVision[T(a)])
          /\ startMu' = [startMu EXCEPT ![T(a)] = a]
          /\ call' = [call EXCEPT ![a].step = "spawn",
                                  ![a].vision = nextNeedsVision[T(a)]]
          /\ UNCHANGED restarting
    /\ UNCHANGED <<proc, ready, runningWithVision, nextNeedsVision, port>>

\* The start failed: ensureRunning's error is the call's, but NCtx's is dropped
\* and the chat goes on with the default max_tokens.
StartError(a) ==
    IF call[a].nctx = "asking"
    THEN call' = [call EXCEPT ![a].step = "connect", ![a].handle = NoPid, ![a].vision = FALSE]
    ELSE Return(a, "model_load_failed")

\* Slip: startMu is not released when the start fails.
LoadFailedLocked(a) ==
    /\ StartError(a)
    /\ EndRestart(a)
    /\ UNCHANGED startMu

\* Start failed: startMu is released and the error returned.
LoadFailed(a) ==
    /\ StartError(a)
    /\ startMu' = [startMu EXCEPT ![T(a)] = NoActor]
    /\ EndRestart(a)

\* process.Start, first half: exec.  If the port is taken the new process exits.
\* `held` are process numbers remembered outside this module.
Spawn(a, held) ==
    /\ At(a, "spawn")
    /\ \/ \E p \in 1..MaxPid :
            /\ IsFreshPid(p, held)
            /\ port' = IF port[T(a)] = Closed
                       THEN [port EXCEPT ![T(a)] = [pid |-> p, vision |-> call[a].vision]]
                       ELSE port
            /\ call' = [call EXCEPT ![a].step = "poll", ![a].handle = p]
            /\ UNCHANGED <<startMu, restarting>>
       \/ LoadFailed(a) /\ UNCHANGED port
    /\ UNCHANGED <<proc, ready, runningWithVision, nextNeedsVision>>

\* The health poll succeeds on whatever answers at the port; the handle is
\* adopted without asking whether the backend was shut down meanwhile.
StartReady(a) ==
    /\ At(a, "poll")
    /\ port[T(a)] # Closed
    /\ proc' = [proc EXCEPT ![T(a)] = call[a].handle]
    /\ ready' = [ready EXCEPT ![T(a)] = TRUE]
    /\ runningWithVision' = [runningWithVision EXCEPT ![T(a)] = call[a].vision]
    /\ startMu' = [startMu EXCEPT ![T(a)] = NoActor]
    /\ call' = [call EXCEPT ![a].step = "connect", ![a].handle = NoPid,
                            ![a].vision = FALSE]
    /\ EndRestart(a)
    /\ UNCHANGED <<nextNeedsVision, port>>

\* 120 s passed or the caller gave up: kill what was spawned, which may survive.
StartTimeout(a) ==
    /\ At(a, "poll")
    /\ StopProcess(T(a), call[a].handle)
    /\ LoadFailed(a)
    /\ UNCHANGED <<proc, ready, runningWithVision, nextNeedsVision>>
-----------------------------------------------------------------------------
(***************************************************************************)
(* Infer, InferStream and Tokenize once the subprocess is there            *)
(***************************************************************************)

\* An attempt that follows asks for the context size anew.
Unasked(a) == IF call[a].nctx = "no" THEN "no" ELSE "due"

\* The one retry: requests go through restartSubprocess, token counts just
\* forget the handle.
Unavailable(a) ==
    IF call[a].retried THEN Return(a, "unavailable")
    ELSE call' = [call EXCEPT ![a].conn = NoPid, ![a].nctx = Unasked(a),
                    ![a].step = IF call[a].op = "tokenize" THEN "tokReset" ELSE "restart"]

\* resolveChatMaxTokens asks NCtx for the context size, unless it is remembered
\* from an earlier call: ensureRunning is entered once more before the request is
\* sent, and whatever comes of it the request is sent.
SizePrompt(a) ==
    /\ At(a, "connect")
    /\ call[a].nctx = "due"
    /\ call' = [call EXCEPT ![a].step = "ensure", ![a].nctx = "asking"]
    /\ UNCHANGED innerVars

\* The request is sent.
Connect(a) ==
    /\ At(a, "connect")
    /\ \/ /\ port[T(a)] # Closed
          /\ call' = [call EXCEPT ![a].step = "run", ![a].conn = port[T(a)].pid,
                                  ![a].nctx = Unasked(a)]
       \/ port[T(a)] = Closed /\ Unavailable(a)
    /\ UNCHANGED innerVars

\* The answer arrives; vision records which mode produced it.
Complete(a) ==
    /\ At(a, "run")
    /\ port[T(a)].pid = call[a].conn
    /\ call' = [call EXCEPT ![a].step = "ret", ![a].code = "ok", ![a].conn = NoPid,
                            ![a].retried = FALSE, ![a].nctx = "no",
                            ![a].vision = port[T(a)].vision]
    /\ UNCHANGED innerVars

\* The process the request was talking to is gone.  A stream that has already
\* emitted something does not restart.
ConnectionLost(a) ==
    /\ At(a, "run")
    /\ port[T(a)].pid # call[a].conn
    /\ \/ Unavailable(a)
       \/ call[a].op = "stream" /\ Return(a, "internal_error")
    /\ UNCHANGED innerVars

\* A non-200 answer, an undecodable one, or the caller's deadline.  A token
\* count has a short deadline of its own, which it reports as "unavailable".
RequestFails(a) ==
    /\ At(a, "run")
    /\ \/ \E c \in {"model_load_failed", "internal_error"} : Return(a, c)
       \/ call[a].op # "tokenize" /\ Return(a, "timeout")
       \/ call[a].op = "tokenize" /\ SlowAnswers /\ Unavailable(a)
    /\ UNCHANGED innerVars

\* restartSubprocess: detach the old process and mark the backend ...
Restart(a) ==
    /\ At(a, "restart")
    /\ ClearHandle(a)
    /\ restarting' = [restarting EXCEPT ![T(a)] = TRUE]
    /\ call' = [call EXCEPT ![a].step = "restartStop", ![a].retried = TRUE,
                            ![a].handle = proc[T(a)]]
    /\ UNCHANGED <<runningWithVision, nextNeedsVision, startMu, port>>

\* ... stop it, then ensureRunning again.
RestartStop(a) ==
    /\ At(a, "restartStop")
    /\ StopProcess(T(a), call[a].handle)
    /\ call' = [call EXCEPT ![a].step = "ensure", ![a].handle = NoPid]
    /\ UNCHANGED <<proc, ready, runningWithVision, nextNeedsVision, restarting, startMu>>

TokenizeReset(a) ==
    /\ At(a, "tokReset")
    /\ ClearHandle(a)
    /\ call' = [call EXCEPT ![a].step = "ensure", ![a].retried = TRUE]
    /\ UNCHANGED <<runningWithVision, nextNeedsVision, restarting, startMu, port>>
-----------------------------------------------------------------------------
(***************************************************************************)
(* Shutdown, the accessors that change state, and the environment          *)
(***************************************************************************)

\* Shutdown takes the handle under b.mu ...
ShutdownDetach(a) ==
    /\ At(a, "detach")
    /\ ClearHandle(a)
    /\ IF proc[T(a)] = NoPid THEN Return(a, "ok")
       ELSE call' = [call EXCEPT ![a].step = "stop", ![a].handle = proc[T(a)]]
    /\ UNCHANGED <<runningWithVision, nextNeedsVision, restarting, startMu, port>>

\* ... and stops the process after releasing it.
ShutdownStop(a) ==
    /\ At(a, "stop")
    /\ \/ port' = Killed(T(a), call[a].handle) /\ Return(a, "ok")
       \/ StopMayFail /\ port' = port /\ Return(a, "incomplete")
    /\ UNCHANGED <<proc, ready, runningWithVision, nextNeedsVision, restarting, startMu>>

\* The dashboard's ResidentMB notices a dead process (or one whose Stop has
\* begun) and clears ready.
ResidentMB(t) ==
    /\ ready[t]
    /\ proc[t] # NoPid
    /\ \/ port[t].pid # proc[t]
       \/ \E a \in Actors : At(a, "modeStop") /\ call[a].handle = proc[t]
    /\ ready' = [ready EXCEPT ![t] = FALSE]
    /\ UNCHANGED <<proc, runningWithVision, nextNeedsVision, restarting, startMu, port, call>>

\* SetNextNeedsVision
SetNextNeedsVision(t, v) == nextNeedsVision' = [nextNeedsVision EXCEPT ![t] = v]

\* A subprocess dies by itself.
Crash(t) ==
    /\ port[t] # Closed
    /\ port' = [port EXCEPT ![t] = Closed]
    /\ UNCHANGED <<proc, ready, runningWithVision, nextNeedsVision, restarting, startMu, call>>

InnerStep(a, held) ==
    \/ EnsureRunning(a) \/ ModeStop(a) \/ ModeClear(a)
    \/ ProbeHealthy(a) \/ ProbeClear(a) \/ StartLock(a)
    \/ Spawn(a, held) \/ StartReady(a) \/ StartTimeout(a)
    \/ SizePrompt(a) \/ Connect(a) \/ Complete(a) \/ ConnectionLost(a) \/ RequestFails(a)
    \/ Restart(a) \/ RestartStop(a) \/ TokenizeReset(a)
    \/ ShutdownDetach(a) \/ ShutdownStop(a)
=============================================================================
