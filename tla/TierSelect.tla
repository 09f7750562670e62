----------------------------- MODULE TierSelect -----------------------------
(***************************************************************************)
(* Which tier of the roster a request is served on: the pure decisions of  *)
(* internal/backend/vram/vram.go, above the arithmetic of LayerFit.  A     *)
(* tier is its index in the roster, which New sorts from small to large;   *)
(* 0 is Go's nil descriptor.                                               *)
(***************************************************************************)
EXTENDS LayerFit, Sequences, FiniteSets

CONSTANTS Roster,      \* sequence of descriptors with a TierLabel, small to large
          MaxParallel, \* --parallel N: inference slots, also the KV multiplier
          BufferPct    \* safety margin in percent

TierLabel == {"weak", "mid", "strong"}

RosterEntry == [TierLabel : TierLabel, spec : Descriptor]

ASSUME RosterAssumption ==
    /\ Roster \in Seq(RosterEntry)
    /\ Len(Roster) > 0
    \* every model has weights, in each mode it can be loaded in
    /\ \A i \in DOMAIN Roster :
          /\ Roster[i].spec.RequiredVRAMMB > 0
          /\ Roster[i].spec.HasVision => Roster[i].spec.VisionRequiredVRAMMB > 0

ASSUME SlotAssumption == MaxParallel \in Nat \ {0}

ASSUME BufferAssumption == BufferPct \in Nat

Tiers == DOMAIN Roster

NoTier == 0

HasVision(i) == Roster[i].spec.HasVision

tierRank(label) ==
    IF label = "strong" THEN 2 ELSE IF label = "mid" THEN 1 ELSE 0

\* The next-smaller roster entry, NoTier below the smallest.
tierBelow(i) == IF i = NoTier THEN NoTier ELSE i - 1

\* Candidates of selectAndLoad: the vision restriction and the forced tier.
Matches(i, forced, needsVision) ==
    /\ needsVision => HasVision(i)
    /\ forced \in {NoTier, i}

TierKV(i, needsVision) == ScaledKVOverheadMB(Roster[i].spec, MaxParallel, needsVision)

TierLayers(i, avail, needsVision) ==
    FitLayers(WeightMB(Roster[i].spec, needsVision), TierKV(i, needsVision),
              avail, Roster[i].spec.TotalLayers, BufferPct)

TierResident(i, layers, needsVision) ==
    ResidentOf(Roster[i].spec, layers, needsVision, MaxParallel)

HeadroomFits(i, layers, needsVision, availRaw) ==
    effectiveHeadroomFits(Roster[i].spec, layers, needsVision, MaxParallel,
                          availRaw, BufferPct)

\* Slip: the roster walked one entry too far.
AdmissibleOffByOne(avail, forced, needsVision) ==
    {[tier |-> i + 1, layers |-> TierLayers(i, avail, needsVision)] :
        i \in {j \in Tiers : Matches(j, forced, needsVision)}}

(***************************************************************************)
(* The tier and layer split selectAndLoad picks for a free-VRAM reading:   *)
(* a set with at most one element, empty when the code answers             *)
(* "overloaded".  avail < 0 means NVML is unavailable and VRAM is treated  *)
(* as unlimited.  Pass 1 takes the largest tier with any GPU offload,      *)
(* pass 2 the smallest one whose overhead alone fits.                      *)
(***************************************************************************)
Admissible(avail, forced, needsVision) ==
    LET candidates == {i \in Tiers : Matches(i, forced, needsVision)}
        onGPU == {i \in candidates : TierLayers(i, avail, needsVision) # 0}
        onCPU == {i \in candidates :
                     fitsWithBuffer(TierKV(i, needsVision), avail, BufferPct)}
        largest(S)  == {i \in S : \A j \in S : j <= i}
        smallest(S) == {i \in S : \A j \in S : i <= j}
    IN  IF avail < 0
        THEN {[tier |-> i, layers |-> -1] : i \in largest(candidates)}
        ELSE IF onGPU # {}
        THEN {[tier |-> i, layers |-> TierLayers(i, avail, needsVision)] :
                 i \in largest(onGPU)}
        ELSE {[tier |-> i, layers |-> 0] : i \in smallest(onCPU)}

\* Free VRAM below which the eviction loop may blame other programs.
externalPressureFloorMB == 800

\* min_tier: "" is no floor.
MinTierOK(i, minTier) ==
    \/ minTier = ""
    \/ tierRank(Roster[i].TierLabel) >= tierRank(minTier)

\* Where the speed-floor cascade of selectInner goes from tier i: the next
\* smaller tier, for a vision request the next smaller one with vision.
SpeedFloorNext(i, needsVision) ==
    LET below == {j \in Tiers : j < i /\ (needsVision => HasVision(j))}
    IN  IF below = {} THEN NoTier ELSE CHOOSE j \in below : \A k \in below : k <= j

\* Where Infer goes after tier i failed to load, NoTier when it gives up.
oomFallbackTier(i, code, preferredTier, minTier) ==
    IF /\ code \in {"model_load_failed", "oom"}
       /\ preferredTier = NoTier
       /\ tierBelow(i) # NoTier
       /\ MinTierOK(tierBelow(i), minTier)
    THEN tierBelow(i)
    ELSE NoTier
=============================================================================
