------------------------------ MODULE LayerFit ------------------------------
(***************************************************************************)
(* The VRAM arithmetic that tier admission, the reuse check and the        *)
(* eviction loop share: internal/backend/vram/layers.go, the two fit       *)
(* predicates of vram.go and the descriptor accessors of types/model.go.   *)
(* All quantities are whole MB, as in the code; Go's integer division of   *)
(* non-negative operands is \div.  A layer count of -1 means "every layer  *)
(* on the GPU", 0 means "CPU only".                                        *)
(***************************************************************************)
EXTENDS Integers

defaultTotalLayers == 32

\* A model descriptor, reduced to the fields the arithmetic reads.
Descriptor ==
    [RequiredVRAMMB       : Int,      \* weights, text mode
     KVCacheMB            : Nat,      \* KV cache of one slot, text mode
     KVFixedMB            : Nat,      \* overhead independent of the slots
     KVOverheadMB         : Nat,      \* unsplit overhead, used when both are 0
     HasVision            : BOOLEAN,  \* MMProjPath # ""
     VisionRequiredVRAMMB : Int,
     VisionKVCacheMB      : Nat,
     VisionKVFixedMB      : Nat,
     TotalLayers          : Int]

AtLeastOne(n) == IF n < 1 THEN 1 ELSE n

\* Per-slot KV cache and fixed overhead of a text-mode load.
KVParts(d) ==
    IF d.KVCacheMB > 0 \/ d.KVFixedMB > 0
    THEN [cache |-> d.KVCacheMB, fixed |-> d.KVFixedMB]
    ELSE [cache |-> d.KVOverheadMB, fixed |-> 0]

VisionKVParts(d) == [cache |-> d.VisionKVCacheMB, fixed |-> d.VisionKVFixedMB]

WeightMB(d, needsVision) ==
    IF needsVision /\ d.HasVision THEN d.VisionRequiredVRAMMB
                                  ELSE d.RequiredVRAMMB

\* Non-weight VRAM of a load that serves `slots` requests at once.
ScaledKVOverheadMB(d, slots, needsVision) ==
    LET parts == IF needsVision /\ d.HasVision THEN VisionKVParts(d) ELSE KVParts(d)
    IN  parts.cache * AtLeastOne(slots) + parts.fixed

LayerTotal(totalLayers) ==
    IF totalLayers <= 0 THEN defaultTotalLayers ELSE totalLayers

\* Slip: the safety margin forgotten.
WeightBudgetNoBuffer(kvOverheadMB, availableMB, bufferPct) ==
    availableMB - kvOverheadMB

\* Slip: the KV and compute overhead not charged.
WeightBudgetNoKV(kvOverheadMB, availableMB, bufferPct) ==
    (availableMB * 100) \div (100 + bufferPct)

\* Free VRAM shrunk by the buffer, minus the overhead that is always resident.
WeightBudget(kvOverheadMB, availableMB, bufferPct) ==
    (availableMB * 100) \div (100 + bufferPct) - kvOverheadMB

\* The largest layer count whose resident footprint fits with the buffer.
FitLayers(weightMB, kvOverheadMB, availableMB, totalLayers, bufferPct) ==
    LET total  == LayerTotal(totalLayers)
        budget == WeightBudget(kvOverheadMB, availableMB, bufferPct)
        layers == (budget * total) \div weightMB
    IN  IF weightMB <= 0 \/ availableMB < 0 THEN -1
        ELSE IF budget >= weightMB THEN -1
        ELSE IF budget <= 0 THEN 0
        ELSE IF layers < 1 THEN 0
        ELSE IF layers >= total THEN -1
        ELSE layers

\* VRAM a load with this GPU/CPU split occupies.
GPUResidentMB(weightMB, kvOverheadMB, gpuLayers, totalLayers) ==
    LET total   == LayerTotal(totalLayers)
        clipped == IF gpuLayers > total THEN total ELSE gpuLayers
    IN  IF gpuLayers < 0 THEN weightMB + kvOverheadMB
        ELSE IF gpuLayers = 0 THEN kvOverheadMB
        ELSE (weightMB * clipped) \div total + kvOverheadMB

fitsWithBuffer(resident, avail, pct) ==
    resident + (resident * pct) \div 100 <= avail

\* Resident footprint of descriptor d loaded with `layers` layers on the GPU.
ResidentOf(d, layers, needsVision, slots) ==
    GPUResidentMB(WeightMB(d, needsVision),
                  ScaledKVOverheadMB(d, slots, needsVision),
                  layers, d.TotalLayers)

\* Slip: the model's own allocation not added back to the free VRAM.
effectiveHeadroomRaw(d, layers, needsVision, slots, availRaw, bufferPct) ==
    fitsWithBuffer(ResidentOf(d, layers, needsVision, slots), availRaw, bufferPct)

\* Would the loaded model still fit if it were reloaded now?  availRaw already
\* excludes the model's own allocation, so that is added back.
effectiveHeadroomFits(d, layers, needsVision, slots, availRaw, bufferPct) ==
    LET resident == ResidentOf(d, layers, needsVision, slots)
    IN  fitsWithBuffer(resident, availRaw + resident, bufferPct)
=============================================================================
