------------------------------ MODULE Admission ------------------------------
(***************************************************************************)
(* The VRAM accounting loop of vram.Backend, one request at a time: free   *)
(* VRAM as NVML reports it depends on what other programs hold and on the  *)
(* model the backend itself has loaded; admission, the reuse check and the *)
(* eviction loop's pressure check all read it.  selectAndLoad is one step  *)
(* here; VramBackend models its interleavings.                             *)
(***************************************************************************)
EXTENDS TierSelect

CONSTANTS TotalMB,         \* VRAM of the card
          ExternalLevels,  \* amounts of VRAM other programs may hold
          NVML             \* FALSE: AvailableMB answers -1, "unlimited"

ASSUME CardAssumption ==
    /\ TotalMB \in Nat
    /\ ExternalLevels \subseteq 0..TotalMB
    /\ 0 \in ExternalLevels
    /\ NVML \in BOOLEAN

VARIABLES external,  \* VRAM held by other programs
          loaded,    \* loadedTier, loadedLayers, loadedVision; tier NoTier = nil
          extAtLoad  \* history: external when the current model was admitted

vars == <<external, loaded, extAtLoad>>

None == [tier |-> NoTier, layers |-> 0, vision |-> FALSE]

\* Layer counts go up to the roster's largest, or to the assumed default.
LoadState == [tier : Tiers \cup {NoTier}, layers : Int, vision : BOOLEAN]

Resident(l) ==
    IF l.tier = NoTier THEN 0 ELSE TierResident(l.tier, l.layers, l.vision)

Free(l) == TotalMB - external - Resident(l)

Reading(l) == IF NVML THEN Free(l) ELSE -1

StillFits(l) == Reading(l) < 0 \/ HeadroomFits(l.tier, l.layers, l.vision, Free(l))

TypeOK ==
    /\ external \in ExternalLevels
    /\ loaded \in LoadState
    /\ extAtLoad \in ExternalLevels

Init ==
    /\ external \in ExternalLevels
    /\ loaded = None
    /\ extAtLoad = external

\* The loaded model is in the request's mode and nothing forces another tier.
Reusable(forced, needsVision) ==
    /\ loaded.tier # NoTier
    /\ loaded.vision = needsVision
    /\ forced \in {NoTier, loaded.tier}

WrongMode(needsVision) == loaded.tier # NoTier /\ loaded.vision # needsVision

\* Early return: the warm model serves the request.
ReuseLoaded(forced, needsVision) ==
    /\ Reusable(forced, needsVision)
    /\ StillFits(loaded)
    /\ UNCHANGED vars

\* What is still resident when selectAndLoad reads VRAM to choose: a model that
\* no longer fits or is in the wrong mode has been evicted by then, a model that
\* a forced tier is about to replace has not.
ResidentAtChoice(forced, needsVision) ==
    IF Reusable(forced, needsVision) \/ WrongMode(needsVision) THEN None ELSE loaded

\* Choose and load.  Nothing fits: "overloaded", and what was evicted stays out.
SelectAndLoad(forced, needsVision) ==
    /\ ~(Reusable(forced, needsVision) /\ StillFits(loaded))
    /\ LET kept == ResidentAtChoice(forced, needsVision)
           choices == Admissible(Reading(kept), forced, needsVision)
       IN  \/ /\ choices = {}
              /\ loaded' = kept
              /\ UNCHANGED extAtLoad
           \/ \E c \in choices :
                /\ loaded' = [tier |-> c.tier, layers |-> c.layers,
                              vision |-> needsVision]
                /\ extAtLoad' = external
    /\ UNCHANGED external

\* AvailableMB fails: on the reuse check's read nothing changes, on the read
\* before the choice the eviction that preceded it stays done.
QueryFails(forced, needsVision) ==
    /\ \/ Reusable(forced, needsVision) /\ loaded' = loaded
       \/ /\ ~(Reusable(forced, needsVision) /\ StillFits(loaded))
          /\ loaded' = ResidentAtChoice(forced, needsVision)
    /\ UNCHANGED <<external, extAtLoad>>

\* The eviction loop: idle for EvictionIdleTimeout.
IdleEvict ==
    /\ loaded.tier # NoTier
    /\ loaded' = None
    /\ UNCHANGED <<external, extAtLoad>>

\* The eviction loop: the model would not fit again and free VRAM collapsed.
PressureEvict ==
    /\ loaded.tier # NoTier
    /\ Reading(loaded) >= 0
    /\ ~HeadroomFits(loaded.tier, loaded.layers, loaded.vision, Free(loaded))
    /\ Free(loaded) < externalPressureFloorMB
    /\ loaded' = None
    /\ UNCHANGED <<external, extAtLoad>>

\* Another program takes or returns VRAM; it can only take what is free.
ExternalChange(x) ==
    /\ x + Resident(loaded) <= TotalMB
    /\ external' = x
    /\ UNCHANGED <<loaded, extAtLoad>>

Request(forced, needsVision) ==
    \/ ReuseLoaded(forced, needsVision)
    \/ SelectAndLoad(forced, needsVision)
    \/ QueryFails(forced, needsVision)

Next ==
    \/ \E forced \in Tiers \cup {NoTier}, needsVision \in BOOLEAN :
          Request(forced, needsVision)
    \/ IdleEvict
    \/ PressureEvict
    \/ \E x \in ExternalLevels : ExternalChange(x)

Spec == Init /\ [][Next]_vars
-----------------------------------------------------------------------------
(***************************************************************************)
(* Safety                                                                  *)
(***************************************************************************)

\* What selectAndLoad admits fits on the card with its buffer: the resident
\* estimate of the loaded split plus BufferPct% was free when it was admitted.
\* FitLayers shrinks the free VRAM, fitsWithBuffer grows the footprint; rounding
\* in the two must not disagree for any split.
AdmittedFits ==
    NVML /\ loaded.tier # NoTier
        => fitsWithBuffer(Resident(loaded), TotalMB - extAtLoad, BufferPct)

\* No load/evict/reload storm: as long as other programs hold no more VRAM than
\* when the model was admitted, the reuse check of selectAndLoad and the
\* eviction loop's pressure check both find that the model still fits, although
\* its own allocation is missing from the free VRAM they read.
NoSelfPressure ==
    loaded.tier # NoTier /\ external <= extAtLoad => StillFits(loaded)

\* Our own allocation never drives the card past its capacity.
WithinCard == NVML => external + Resident(loaded) <= TotalMB

\* The inductive invariant behind the three.
IInv == TypeOK /\ AdmittedFits /\ WithinCard
=============================================================================
