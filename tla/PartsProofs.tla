---------------------------- MODULE PartsProofs ----------------------------
(***************************************************************************)
(* Three of the parts of MCParts, for every value of the constants, and    *)
(* the five together.                                                      *)
(*                                                                         *)
(* VRAM admission: an admitted split fits with its buffer, and the model's *)
(* own allocation never makes it look starved.  The chat store: memory is  *)
(* on disk, what is deleted stays deleted, the cap is exceeded by no more  *)
(* than the faults, and only the least recently updated are evicted.  The  *)
(* rate limiter: no order of calls, rate changes and evictions of idle     *)
(* buckets lets more through than the rate.                                *)
(***************************************************************************)
EXTENDS MCParts, AskProofs, PromptProofs, TLAPS

(***************************************************************************)
(* VRAM admission                                                          *)
(***************************************************************************)

\* Integer division rounds down: the quotient times the divisor is within one
\* divisor of the dividend.
LEMMA DivBounds ==
    ASSUME NEW a \in Nat, NEW b \in Nat, b > 0
    PROVE  /\ a \div b \in Nat
           /\ (a \div b) * b <= a
           /\ a < (a \div b) * b + b
  BY SMT

\* Multiplying both sides of an inequality by a natural number keeps it.
LEMMA TimesMonotone ==
    ASSUME NEW x \in Int, NEW y \in Int, NEW n \in Nat, x <= y
    PROVE  x * n <= y * n
  BY SMT

\* A quotient is at most any number whose product with the divisor reaches the
\* dividend: rounding down never exceeds an integral bound.
LEMMA DivAtMost ==
    ASSUME NEW a \in Nat, NEW b \in Nat, b > 0, NEW c \in Int, a <= c * b
    PROVE  a \div b <= c
  <1>1. /\ a \div b \in Nat
        /\ (a \div b) * b <= a
    BY DivBounds
  <1>2. (a \div b) * b <= c * b
    BY <1>1
  <1>3. ASSUME a \div b >= c + 1 PROVE FALSE
    <2>1. (c + 1) * b <= (a \div b) * b
      BY <1>1, <1>3, TimesMonotone
    <2>2. QED
      BY <1>2, <2>1
  <1>4. QED
    BY <1>1, <1>3

\* fitsWithBuffer without its division: a footprint whose 100 + pct percent is
\* within 100 percent of the free VRAM fits with its buffer.
LEMMA FitsByProduct ==
    ASSUME NEW r \in Nat, NEW avail \in Nat, NEW pct \in Nat,
           r * (100 + pct) <= avail * 100
    PROVE  fitsWithBuffer(r, avail, pct)
  <1>1. r * pct \in Nat
    BY SMT
  <1>2. r * (100 + pct) = r * 100 + r * pct
    BY SMT
  <1>3. r * pct <= (avail - r) * 100
    BY <1>1, <1>2
  <1>4. (r * pct) \div 100 <= avail - r
    BY <1>1, <1>3, DivAtMost
  <1>5. (r * pct) \div 100 \in Nat
    BY <1>1, DivBounds
  <1>6. QED
    BY <1>4, <1>5 DEF fitsWithBuffer

\* Every split FitLayers hands out, full or partial, occupies a footprint that
\* fits with its buffer into the free VRAM it was computed for.
LEMMA FitLayersSound ==
    ASSUME NEW w \in Nat, w > 0, NEW kv \in Nat, NEW avail \in Nat,
           NEW total \in Int, NEW pct \in Nat,
           FitLayers(w, kv, avail, total, pct) # 0
    PROVE  LET l == FitLayers(w, kv, avail, total, pct)
           IN  /\ l \in Int
               /\ GPUResidentMB(w, kv, l, total) \in Nat
               /\ fitsWithBuffer(GPUResidentMB(w, kv, l, total), avail, pct)
  <1> DEFINE n == LayerTotal(total)
             shrunk == (avail * 100) \div (100 + pct)
             room == WeightBudget(kv, avail, pct)
             layers == (room * n) \div w
             l == FitLayers(w, kv, avail, total, pct)
  <1>1. n \in Nat /\ n > 0
    BY DEF LayerTotal, defaultTotalLayers
  <1>2. /\ shrunk \in Nat
        /\ shrunk * (100 + pct) <= avail * 100
    BY DivBounds
  <1>3. room \in Int /\ room = shrunk - kv
    BY <1>2 DEF WeightBudget
  <1>4. ASSUME NEW r \in Nat, r <= shrunk
        PROVE  fitsWithBuffer(r, avail, pct)
    <2>1. r * (100 + pct) <= shrunk * (100 + pct)
      BY <1>2, <1>4, TimesMonotone
    <2>2. QED
      <3>1. /\ r * (100 + pct) \in Int
            /\ shrunk * (100 + pct) \in Int
            /\ avail * 100 \in Int
        BY <1>2
      <3>2. r * (100 + pct) <= avail * 100
        BY <1>2, <2>1, <3>1
      <3>3. QED
        BY <3>2, FitsByProduct
  <1>5. CASE room >= w
    <2>1. l = -1
      BY <1>5 DEF FitLayers
    <2>2. GPUResidentMB(w, kv, l, total) = w + kv
      BY <2>1 DEF GPUResidentMB
    <2>3. QED
      BY <1>2, <1>3, <1>4, <1>5, <2>1, <2>2
  <1>6. CASE room < w
    <2>1. room > 0
      BY <1>3, <1>6 DEF FitLayers
    <2>2. room * n \in Nat
      BY <1>1, <1>3, <2>1
    <2>3. /\ layers \in Nat
          /\ layers * w <= room * n
      BY <2>2, DivBounds
    <2>4. layers < n
      <3>1. room * n <= (w - 1) * n
        BY <1>1, <1>3, <1>6, TimesMonotone
      <3>2. (w - 1) * n = w * n - n
        BY <1>1
      <3>3. ASSUME layers >= n PROVE FALSE
        <4>1. n * w <= layers * w
          BY <1>1, <2>3, <3>3, TimesMonotone
        <4>2. n * w = w * n
          BY <1>1
        <4>3. QED
          BY <1>1, <2>2, <2>3, <3>1, <3>2, <4>1, <4>2
      <3>4. QED
        BY <1>1, <2>3, <3>3
    <2>5. l = layers /\ layers >= 1
      BY <1>1, <1>3, <1>6, <2>1, <2>3, <2>4 DEF FitLayers
    <2>6. GPUResidentMB(w, kv, l, total) = (w * layers) \div n + kv
      BY <1>1, <2>3, <2>4, <2>5 DEF GPUResidentMB
    <2>7. w * layers \in Nat /\ w * layers <= room * n
      BY <2>3
    <2>8. /\ (w * layers) \div n \in Nat
          /\ (w * layers) \div n <= room
      BY <1>1, <1>3, <2>7, DivBounds, DivAtMost
    <2>9. QED
      BY <1>2, <1>3, <1>4, <2>3, <2>5, <2>6, <2>8
  <1>7. QED
    BY <1>3, <1>5, <1>6

\* What the assumptions say of one tier: positive weights and a natural overhead
\* in either mode.
LEMMA TierNumbers ==
    ASSUME NEW i \in Tiers, NEW v \in BOOLEAN
    PROVE  /\ Roster[i].spec \in Descriptor
           /\ WeightMB(Roster[i].spec, v) \in Nat
           /\ WeightMB(Roster[i].spec, v) > 0
           /\ TierKV(i, v) \in Nat
           /\ Roster[i].spec.TotalLayers \in Int
  <1> DEFINE d == Roster[i].spec
  <1>1. Roster[i] \in RosterEntry
    BY RosterAssumption DEF Tiers
  <1>2. d \in Descriptor
    BY <1>1 DEF RosterEntry
  <1>3. WeightMB(d, v) \in Nat /\ WeightMB(d, v) > 0
    <2>1. d.RequiredVRAMMB \in Int /\ d.VisionRequiredVRAMMB \in Int
      BY <1>2 DEF Descriptor
    <2>2. d.RequiredVRAMMB > 0 /\ (d.HasVision => d.VisionRequiredVRAMMB > 0)
      BY RosterAssumption DEF Tiers
    <2>3. QED
      BY <2>1, <2>2 DEF WeightMB
  <1>4. AtLeastOne(MaxParallel) \in Nat
    BY SlotAssumption DEF AtLeastOne
  <1>5. ASSUME NEW c \in Nat, NEW f \in Nat
        PROVE  c * AtLeastOne(MaxParallel) + f \in Nat
    BY <1>4
  <1>6. TierKV(i, v) \in Nat
    BY <1>2, <1>5 DEF TierKV, ScaledKVOverheadMB, KVParts, VisionKVParts, Descriptor
  <1>7. QED
    BY <1>2, <1>3, <1>6 DEF Descriptor

\* A loaded split, whatever its layer count, occupies a natural number of MB.
LEMMA ResidentNat ==
    ASSUME NEW l \in LoadState
    PROVE  /\ Resident(l) \in Nat
           /\ l.tier # NoTier => Resident(l) = TierResident(l.tier, l.layers, l.vision)
  <1>1. CASE l.tier = NoTier
    BY <1>1 DEF Resident
  <1>2. CASE l.tier # NoTier
    <2> DEFINE d == Roster[l.tier].spec
               w == WeightMB(d, l.vision)
               kv == TierKV(l.tier, l.vision)
               n == LayerTotal(d.TotalLayers)
               clipped == IF l.layers > n THEN n ELSE l.layers
    <2>1. l.tier \in Tiers /\ l.layers \in Int /\ l.vision \in BOOLEAN
      BY <1>2 DEF LoadState
    <2>2. w \in Nat /\ kv \in Nat /\ d.TotalLayers \in Int
      BY <2>1, TierNumbers
    <2>3. n \in Nat /\ n > 0
      BY <2>2 DEF LayerTotal, defaultTotalLayers
    <2>4. ASSUME l.layers > 0
          PROVE  (w * clipped) \div n \in Nat
      <3>1. clipped \in Nat
        BY <2>1, <2>3, <2>4
      <3>2. w * clipped \in Nat
        BY <2>2, <3>1
      <3>3. QED
        BY <2>3, <3>2, DivBounds
    <2>5. GPUResidentMB(w, kv, l.layers, d.TotalLayers) \in Nat
      BY <2>1, <2>2, <2>4 DEF GPUResidentMB
    <2>6. TierResident(l.tier, l.layers, l.vision) \in Nat
      BY <2>5 DEF TierResident, ResidentOf, TierKV
    <2>7. QED
      BY <1>2, <2>6 DEF Resident
  <1>3. QED
    BY <1>1, <1>2

\* Whatever tier and split selectAndLoad picks for a reading fits with its buffer
\* into that reading, on the GPU, split, or CPU-only.
LEMMA AdmissibleSound ==
    ASSUME NEW avail \in Nat, NEW forced, NEW v \in BOOLEAN,
           NEW c \in Admissible(avail, forced, v)
    PROVE  /\ c.tier \in Tiers
           /\ c.layers \in Int
           /\ fitsWithBuffer(TierResident(c.tier, c.layers, v), avail, BufferPct)
  <1>1. PICK i \in Tiers :
          \/ /\ c = [tier |-> i, layers |-> TierLayers(i, avail, v)]
             /\ TierLayers(i, avail, v) # 0
          \/ /\ c = [tier |-> i, layers |-> 0]
             /\ fitsWithBuffer(TierKV(i, v), avail, BufferPct)
    BY DEF Admissible
  <1> DEFINE d == Roster[i].spec
             w == WeightMB(d, v)
  <1>2. /\ w \in Nat /\ w > 0
        /\ TierKV(i, v) \in Nat
        /\ d.TotalLayers \in Int
    BY TierNumbers
  <1>3. CASE c = [tier |-> i, layers |-> TierLayers(i, avail, v)]
             /\ TierLayers(i, avail, v) # 0
    <2>1. FitLayers(w, TierKV(i, v), avail, d.TotalLayers, BufferPct) # 0
      BY <1>3 DEF TierLayers
    <2>2. LET l == FitLayers(w, TierKV(i, v), avail, d.TotalLayers, BufferPct)
          IN  /\ l \in Int
              /\ fitsWithBuffer(GPUResidentMB(w, TierKV(i, v), l, d.TotalLayers),
                                avail, BufferPct)
      BY <1>2, <2>1, BufferAssumption, FitLayersSound
    <2>3. QED
      BY <1>3, <2>2 DEF TierLayers, TierResident, ResidentOf, TierKV
  <1>4. CASE c = [tier |-> i, layers |-> 0]
             /\ fitsWithBuffer(TierKV(i, v), avail, BufferPct)
    <2>1. TierResident(i, 0, v) = TierKV(i, v)
      BY DEF TierResident, ResidentOf, GPUResidentMB, TierKV
    <2>2. QED
      BY <1>4, <2>1
  <1>5. QED
    BY <1>1, <1>3, <1>4

\* fitsWithBuffer is monotone in the free VRAM and leaves room for the footprint
\* itself.
LEMMA FitsMonotone ==
    ASSUME NEW r \in Nat, NEW a \in Int, NEW b \in Int, a <= b,
           fitsWithBuffer(r, a, BufferPct)
    PROVE  fitsWithBuffer(r, b, BufferPct) /\ r <= a
  <1>1. r * BufferPct \in Nat
    BY BufferAssumption
  <1>2. (r * BufferPct) \div 100 \in Nat
    BY <1>1, DivBounds
  <1>3. QED
    BY <1>2 DEF fitsWithBuffer
-----------------------------------------------------------------------------
\* The numbers of a state that satisfies TypeOK.
LEMMA StateNumbers ==
    ASSUME TypeOK
    PROVE  /\ TotalMB \in Nat
           /\ external \in Nat /\ external <= TotalMB
           /\ extAtLoad \in Nat /\ extAtLoad <= TotalMB
           /\ Resident(loaded) \in Nat
           /\ None \in LoadState
           /\ Resident(None) = 0
  BY CardAssumption, ResidentNat DEF TypeOK, None, LoadState, Resident

\* The invariant holds before anything is loaded.
LEMMA AdmitInitIInv == Init => IInv
  <1> SUFFICES ASSUME Init PROVE IInv
    OBVIOUS
  <1>1. TypeOK
    BY DEF Init, TypeOK, None, LoadState
  <1>2. loaded.tier = NoTier
    BY DEF Init, None
  <1>3. AdmittedFits
    BY <1>2 DEF AdmittedFits
  <1>4. WithinCard
    BY <1>1, <1>2, StateNumbers DEF WithinCard, Resident
  <1>5. QED
    BY <1>1, <1>3, <1>4 DEF IInv

\* Loading what Admissible picked keeps the invariant: the footprint fits into
\* the reading, and the reading is at most what other programs leave.
LEMMA LoadKeepsIInv ==
    ASSUME IInv,
           NEW kept \in {None, loaded}, NEW forced, NEW v \in BOOLEAN,
           NEW c \in Admissible(Reading(kept), forced, v),
           loaded' = [tier |-> c.tier, layers |-> c.layers, vision |-> v],
           extAtLoad' = external,
           external' = external
    PROVE  IInv'
  <1>1. TypeOK
    BY DEF IInv
  <1>2. NVML \in BOOLEAN
    BY CardAssumption
  <1>3. kept \in LoadState
    BY <1>1, StateNumbers DEF TypeOK
  <1>4. CASE ~NVML
    <2>1. Reading(kept) = -1
      BY <1>4 DEF Reading
    <2>2. c.tier \in Tiers /\ c.layers \in Int
      BY <2>1 DEF Admissible
    <2>3. loaded' \in LoadState
      BY <2>2 DEF LoadState
    <2>4. TypeOK'
      BY <1>1, <2>3 DEF TypeOK
    <2>5. QED
      BY <1>4, <2>4 DEF IInv, AdmittedFits, WithinCard
  <1>5. CASE NVML
    <2>1. Resident(kept) \in Nat /\ external + Resident(kept) <= TotalMB
      BY <1>1, <1>5, StateNumbers DEF IInv, WithinCard
    <2>2. Reading(kept) = TotalMB - external - Resident(kept)
      BY <1>5 DEF Reading, Free
    <2>3. Reading(kept) \in Nat /\ Reading(kept) <= TotalMB - external
      BY <1>1, <2>1, <2>2, StateNumbers
    <2>4. /\ c.tier \in Tiers
          /\ c.layers \in Int
          /\ fitsWithBuffer(TierResident(c.tier, c.layers, v), Reading(kept), BufferPct)
      BY <2>3, AdmissibleSound
    <2>5. loaded' \in LoadState
      BY <2>4 DEF LoadState
    <2>6. c.tier # NoTier
      BY <2>4, RosterAssumption DEF Tiers, NoTier
    <2>7. Resident(loaded') = TierResident(c.tier, c.layers, v)
      BY <2>6 DEF Resident
    <2>8. Resident(loaded') \in Nat
      BY <2>5, ResidentNat
    <2>9. /\ fitsWithBuffer(Resident(loaded'), TotalMB - external, BufferPct)
          /\ Resident(loaded') <= Reading(kept)
      BY <1>1, <2>3, <2>4, <2>7, <2>8, FitsMonotone, StateNumbers
    <2>10. TypeOK'
      BY <1>1, <2>5 DEF TypeOK
    <2>11. AdmittedFits'
      BY <2>9 DEF AdmittedFits, Resident
    <2>12. WithinCard'
      BY <1>1, <2>3, <2>8, <2>9, StateNumbers DEF WithinCard, Resident
    <2>13. QED
      BY <2>10, <2>11, <2>12 DEF IInv
  <1>6. QED
    BY <1>2, <1>4, <1>5

\* Evicting, or leaving the model where it is, keeps the invariant.
LEMMA EvictKeepsIInv ==
    ASSUME IInv, loaded' \in {None, loaded},
           external' = external, extAtLoad' = extAtLoad
    PROVE  IInv'
  <1>1. TypeOK
    BY DEF IInv
  <1>2. TypeOK'
    BY <1>1, StateNumbers DEF TypeOK
  <1>3. CASE loaded' = loaded
    BY <1>2, <1>3 DEF IInv, AdmittedFits, WithinCard, Resident
  <1>4. CASE loaded' = None
    <2>1. loaded'.tier = NoTier /\ Resident(loaded') = 0
      BY <1>4 DEF None, Resident
    <2>2. AdmittedFits'
      BY <2>1 DEF AdmittedFits
    <2>3. WithinCard'
      BY <1>1, <2>1, StateNumbers DEF WithinCard, Resident
    <2>4. QED
      BY <1>2, <2>2, <2>3 DEF IInv
  <1>5. QED
    BY <1>3, <1>4

\* Every step of the accounting loop keeps the invariant.
LEMMA AdmitNextIInv == IInv /\ [Next]_vars => IInv'
  <1> SUFFICES ASSUME IInv, [Next]_vars PROVE IInv'
    OBVIOUS
  <1>1. ASSUME NEW forced \in Tiers \cup {NoTier}, NEW v \in BOOLEAN,
               SelectAndLoad(forced, v)
        PROVE  IInv'
    <2> DEFINE kept == ResidentAtChoice(forced, v)
    <2>1. kept \in {None, loaded}
      BY DEF ResidentAtChoice
    <2>2. CASE Admissible(Reading(kept), forced, v) = {} /\ loaded' = kept
               /\ extAtLoad' = extAtLoad
      BY <1>1, <2>1, <2>2, EvictKeepsIInv DEF SelectAndLoad
    <2>3. CASE \E c \in Admissible(Reading(kept), forced, v) :
                 /\ loaded' = [tier |-> c.tier, layers |-> c.layers, vision |-> v]
                 /\ extAtLoad' = external
      BY <1>1, <2>1, <2>3, LoadKeepsIInv DEF SelectAndLoad
    <2>4. QED
      BY <1>1, <2>2, <2>3 DEF SelectAndLoad
  <1>2. ASSUME NEW forced \in Tiers \cup {NoTier}, NEW v \in BOOLEAN,
               QueryFails(forced, v)
        PROVE  IInv'
    BY <1>2, EvictKeepsIInv DEF QueryFails, ResidentAtChoice
  <1>3. CASE IdleEvict \/ PressureEvict
    BY <1>3, EvictKeepsIInv DEF IdleEvict, PressureEvict
  <1>4. ASSUME NEW x \in ExternalLevels, ExternalChange(x)
        PROVE  IInv'
    BY <1>4 DEF ExternalChange, IInv, TypeOK, AdmittedFits, WithinCard, Resident
  <1>5. CASE UNCHANGED vars
    BY <1>5, EvictKeepsIInv DEF vars
  <1>6. QED
    BY <1>1, <1>2, <1>3, <1>4, <1>5 DEF Next, Request, ReuseLoaded

\* Type correctness and admission within the buffer, for every roster, card,
\* buffer percentage and slot count.
THEOREM AdmissionSafe == Spec => [](TypeOK /\ AdmittedFits)
  <1>1. IInv => TypeOK /\ AdmittedFits
    BY DEF IInv
  <1>2. QED
    BY <1>1, AdmitInitIInv, AdmitNextIInv, PTL DEF Spec

\* What selectAndLoad loads beside what other programs hold never exceeds the
\* card, also while a forced tier is chosen with the old model still resident.
THEOREM CardNeverExceeded == Spec => []WithinCard
  <1>1. IInv => WithinCard
    BY DEF IInv
  <1>2. QED
    BY <1>1, AdmitInitIInv, AdmitNextIInv, PTL DEF Spec

\* The absence of a load/evict/reload storm: the model's own allocation never
\* makes the reuse check or the pressure check find it starved.
THEOREM NoReloadStorm == Spec => []NoSelfPressure
  <1>1. IInv => NoSelfPressure
    <2> SUFFICES ASSUME IInv, loaded.tier # NoTier, external <= extAtLoad
                 PROVE  StillFits(loaded)
      BY DEF NoSelfPressure
    <2>1. CASE ~NVML
      BY <2>1 DEF StillFits, Reading
    <2>2. CASE NVML
      <3>1. TypeOK /\ AdmittedFits
        BY DEF IInv
      <3>2. fitsWithBuffer(Resident(loaded), TotalMB - extAtLoad, BufferPct)
        BY <2>2, <3>1 DEF AdmittedFits
      <3>3. fitsWithBuffer(Resident(loaded), TotalMB - external, BufferPct)
        BY <3>1, <3>2, StateNumbers, FitsMonotone
      <3>4. Resident(loaded) = TierResident(loaded.tier, loaded.layers, loaded.vision)
        BY <3>1, ResidentNat DEF TypeOK
      <3>5. Free(loaded) + Resident(loaded) = TotalMB - external
        BY <3>1, StateNumbers DEF Free
      <3>6. HeadroomFits(loaded.tier, loaded.layers, loaded.vision, Free(loaded))
        BY <3>3, <3>4, <3>5 DEF HeadroomFits, effectiveHeadroomFits, TierResident
      <3>7. QED
        BY <3>6 DEF StillFits
    <2>3. QED
      BY <2>1, <2>2, CardAssumption
  <1>2. QED
    BY <1>1, AdmitInitIInv, AdmitNextIInv, PTL DEF Spec
-----------------------------------------------------------------------------
(***************************************************************************)
(* The chat store                                                          *)
(***************************************************************************)

\* Sets of conversations are finite, and a part is no larger than the whole.
LEMMA ChatSets ==
    ASSUME NEW S \in SUBSET Chats
    PROVE  /\ IsFiniteSet(S)
           /\ Cardinality(S) \in Nat
           /\ \A T \in SUBSET S : IsFiniteSet(T) /\ Cardinality(T) <= Cardinality(S)
  BY ChatAssumption, FS_Subset, FS_CardinalityType

\* Two sets together hold at most the sum of the two.
LEMMA UnionSize ==
    ASSUME NEW S \in SUBSET Chats, NEW T \in SUBSET Chats
    PROVE  Cardinality(S \cup T) <= Cardinality(S) + Cardinality(T)
  <1>1. IsFiniteSet(S) /\ IsFiniteSet(T)
    BY ChatSets
  <1>2. Cardinality(S \cup T) = Cardinality(S) + Cardinality(T) - Cardinality(S \cap T)
    BY <1>1, FS_Union
  <1>3. /\ Cardinality(S) \in Nat
        /\ Cardinality(T) \in Nat
        /\ Cardinality(S \cap T) \in Nat
    BY ChatSets
  <1>4. QED
    BY <1>2, <1>3

\* The conversation a Save holds the mutex for.
LEMMA SavedOne ==
    ASSUME ChatTypeOK, ~Unlocked
    PROVE  \E c \in Chats : saving.ids = {c}
  BY DEF ChatTypeOK, Unlocked

\* Every conversation in memory is in a file: a Save in its last step has already
\* written its own.
LEMMA StoredOnDisk ==
    ASSUME ChatTypeOK, SavingOK, InStep
    PROVE  Stored \subseteq OnDisk
  <1> SUFFICES ASSUME NEW c \in Stored, files[c] = Absent PROVE FALSE
    BY DEF Stored, OnDisk
  <1>1. c \in Chats /\ convs[c] # Absent
    BY DEF Stored
  <1>2. Storing(c) /\ files[c] = saving.conv
    BY <1>1 DEF InStep
  <1>3. saving.conv.UpdatedAt = chatClock /\ chatClock # 0
    BY <1>2 DEF Storing, SavingOK, Unlocked, ChatTypeOK
  <1>4. QED
    BY <1>2, <1>3 DEF Absent

\* The times in play are natural numbers.
LEMMA TimesAreNat == ChatTimes \subseteq Nat /\ Absent \in Conversation
  BY ChatAssumption DEF ChatTimes, Absent, Conversation
-----------------------------------------------------------------------------
\* An empty directory satisfies the invariant.
LEMMA ChatInitIInv == ChatInit => ChatIInv
  <1> SUFFICES ASSUME ChatInit PROVE ChatIInv
    OBVIOUS
  <1>1. ChatTypeOK
    BY TimesAreNat, ChatAssumption DEF ChatInit, ChatTypeOK, NotSaving, ChatTimes
  <1>2. SavingOK /\ InStep /\ GoneForGood /\ FileTimes /\ RecentKept
    BY ChatAssumption
    DEF ChatInit, SavingOK, InStep, GoneForGood, FileTimes, RecentKept, Unlocked,
        NotSaving, Storing
  <1>3. OnDisk = {} /\ leftBehind = {} /\ fileFaults = 0 /\ saving.pc = "idle"
    BY DEF ChatInit, OnDisk, NotSaving
  <1>4. RoomOnDisk
    BY <1>3, FS_EmptySet, ChatAssumption DEF RoomOnDisk
  <1>5. QED
    BY <1>1, <1>2, <1>4 DEF ChatIInv

\* A Save takes the mutex: it evicts when the store is full, and otherwise there
\* is room for its file, which is there already or fits under the cap.
LEMMA SaveBeginKeeps ==
    ASSUME ChatIInv, NEW c \in Chats, SaveBegin(c)
    PROVE  ChatIInv'
  <1>1. /\ ChatTypeOK /\ SavingOK /\ InStep /\ GoneForGood /\ RoomOnDisk
        /\ FileTimes /\ RecentKept
    BY DEF ChatIInv
  <1> DEFINE new == convs[c] = Absent
             created == IF new THEN chatClock ELSE convs[c].CreatedAt
  <1>2. /\ Unlocked
        /\ saving' = [pc |-> IF new /\ AtCap THEN "evict" ELSE "write", ids |-> {c},
                      conv |-> [CreatedAt |-> created, UpdatedAt |-> chatClock]]
        /\ UNCHANGED <<convs, files, chatClock, fileFaults, reopens,
                       written, wanted, deleted, leftBehind>>
    BY DEF SaveBegin, histVars
  <1>3. Stored' = Stored /\ OnDisk' = OnDisk
    BY <1>2 DEF Stored, OnDisk
  <1>4. ChatTypeOK'
    <2>1. [CreatedAt |-> created, UpdatedAt |-> chatClock] \in Conversation
      BY <1>1, ChatAssumption DEF ChatTypeOK, Conversation, ChatTimes
    <2>2. QED
      BY <1>1, <1>2, <2>1 DEF ChatTypeOK
  <1>5. SavingOK'
    BY <1>2, <1>3 DEF SavingOK, Unlocked, AtCap
  <1>6. \A d \in Chats : ~Storing(d) /\ ~Storing(d)'
    BY <1>2 DEF Storing, Unlocked
  <1>7. InStep' /\ GoneForGood' /\ RecentKept' /\ FileTimes'
    <2>1. InStep'
      BY <1>1, <1>2, <1>6 DEF InStep
    <2>2. GoneForGood'
      BY <1>1, <1>2, <1>6 DEF GoneForGood, ChatTypeOK
    <2>3. RecentKept'
      BY <1>1, <1>2, <1>6 DEF RecentKept, ChatTypeOK
    <2>4. FileTimes'
      BY <1>1, <1>2 DEF FileTimes
    <2>5. QED
      BY <2>1, <2>2, <2>3, <2>4
  <1>8. RoomOnDisk'
    <2>1. /\ Cardinality(OnDisk) \in Nat /\ Cardinality(OnDisk \ {c}) \in Nat
          /\ Cardinality(Stored) \in Nat /\ Cardinality(leftBehind) \in Nat
          /\ Cardinality(OnDisk \ {c}) <= Cardinality(OnDisk)
          /\ fileFaults \in Nat /\ MaxConversations \in Nat
      <3>1. OnDisk \subseteq Chats /\ Stored \subseteq Chats /\ leftBehind \subseteq Chats
        BY <1>1 DEF OnDisk, Stored, ChatTypeOK
      <3>2. QED
        BY <1>1, <3>1, ChatSets, ChatAssumption DEF ChatTypeOK
    <2>2. CASE ~new
      <3>1. c \in OnDisk
        BY <1>1, <1>6, <2>2 DEF InStep, OnDisk
      <3>2. Cardinality(OnDisk \ {c}) = Cardinality(OnDisk) - 1
        <4>1. IsFiniteSet(OnDisk)
          BY ChatSets DEF OnDisk
        <4>2. QED
          BY <3>1, <4>1, FS_RemoveElement
      <3>3. QED
        BY <1>1, <1>2, <1>3, <2>1, <3>2 DEF RoomOnDisk
    <2>3. CASE new /\ ~AtCap
      <3>1. OnDisk \subseteq Stored \cup leftBehind
        BY <1>1, <1>6 DEF InStep, OnDisk, Stored
      <3>2. Cardinality(OnDisk) <= Cardinality(Stored \cup leftBehind)
        <4>1. Stored \cup leftBehind \in SUBSET Chats
          BY <1>1 DEF Stored, ChatTypeOK
        <4>2. QED
          BY <3>1, <4>1, ChatSets
      <3>3. /\ Cardinality(Stored \cup leftBehind) <= Cardinality(Stored) + Cardinality(leftBehind)
            /\ Cardinality(Stored \cup leftBehind) \in Nat
        <4>1. Stored \in SUBSET Chats /\ leftBehind \in SUBSET Chats
          BY <1>1 DEF Stored, ChatTypeOK
        <4>2. QED
          BY <4>1, UnionSize, ChatSets
      <3>4. Cardinality(Stored) < MaxConversations
        BY <2>1, <2>3 DEF AtCap
      <3>5. QED
        BY <1>1, <1>2, <1>3, <2>1, <3>2, <3>3, <3>4 DEF RoomOnDisk
    <2>4. CASE new /\ AtCap
      BY <1>1, <1>2, <1>3, <2>4 DEF RoomOnDisk
    <2>5. QED
      BY <2>2, <2>3, <2>4
  <1>9. QED
    BY <1>4, <1>5, <1>7, <1>8 DEF ChatIInv

\* A conversation leaves memory and its file is removed, or left behind at the
\* price of a fault: either way there is room for one more file.
LEMMA RemovalKeeps ==
    ASSUME ChatTypeOK, InStep, GoneForGood, FileTimes, RoomOnDisk,
           NEW v \in Chats, v \in OnDisk,
           convs' = [convs EXCEPT ![v] = Absent], RemoveFile(v),
           deleted' \subseteq deleted \cup {v}, deleted' \subseteq Chats,
           written' = written, chatClock' = chatClock,
           \A d \in Chats : ~Storing(d) /\ ~Storing(d)'
    PROVE  /\ convs' \in [Chats -> Conversation] /\ files' \in [Chats -> Conversation]
           /\ fileFaults' \in 0..MaxFileFaults /\ leftBehind' \in SUBSET Chats
           /\ InStep' /\ GoneForGood' /\ FileTimes'
           /\ Cardinality(leftBehind') <= fileFaults'
           /\ Cardinality(OnDisk') < MaxConversations + fileFaults'
  <1>1. /\ convs' \in [Chats -> Conversation] /\ files' \in [Chats -> Conversation]
        /\ fileFaults' \in 0..MaxFileFaults /\ leftBehind' \in SUBSET Chats
    BY TimesAreNat, ChatAssumption DEF ChatTypeOK, RemoveFile, FileFault
  <1>2. /\ convs'[v] = Absent
        /\ files'[v] = Absent \/ v \in leftBehind'
        /\ \A d \in Chats \ {v} : /\ convs'[d] = convs[d]
                                  /\ files'[d] = files[d]
                                  /\ d \in leftBehind' <=> d \in leftBehind
        /\ files'[v] \in {Absent, files[v]}
    BY DEF ChatTypeOK, RemoveFile
  <1>3. InStep'
    BY <1>2 DEF InStep
  <1>4. GoneForGood'
    BY <1>2 DEF GoneForGood
  <1>5. FileTimes'
    BY <1>2 DEF FileTimes
  <1>6. /\ IsFiniteSet(OnDisk) /\ Cardinality(OnDisk) \in Nat
        /\ IsFiniteSet(leftBehind) /\ Cardinality(leftBehind) \in Nat
    BY ChatSets DEF OnDisk, ChatTypeOK
  <1>7. fileFaults \in Nat /\ MaxConversations \in Nat
    BY ChatAssumption DEF ChatTypeOK
  <1>8. CASE /\ files' = [files EXCEPT ![v] = Absent]
             /\ leftBehind' = leftBehind \ {v}
             /\ fileFaults' = fileFaults
    <2>1. OnDisk' = OnDisk \ {v}
      BY <1>8 DEF OnDisk, ChatTypeOK
    <2>2. Cardinality(OnDisk \ {v}) = Cardinality(OnDisk) - 1
      BY <1>6, FS_RemoveElement
    <2>3. Cardinality(leftBehind') \in Nat /\ Cardinality(leftBehind') <= Cardinality(leftBehind)
      <3>1. leftBehind \in SUBSET Chats /\ leftBehind' \in SUBSET leftBehind
        BY <1>8 DEF ChatTypeOK
      <3>2. QED
        BY <1>1, <3>1, ChatSets
    <2>4. QED
      BY <1>1, <1>3, <1>4, <1>5, <1>6, <1>7, <1>8, <2>1, <2>2, <2>3 DEF RoomOnDisk
  <1>9. CASE /\ FileFault
             /\ leftBehind' = leftBehind \cup {v}
             /\ files' = files
    <2>1. OnDisk' = OnDisk
      BY <1>9 DEF OnDisk
    <2>2. /\ Cardinality(leftBehind') \in Nat
          /\ Cardinality(leftBehind') <= Cardinality(leftBehind) + 1
      <3>1. Cardinality(leftBehind \cup {v}) =
              IF v \in leftBehind THEN Cardinality(leftBehind) ELSE Cardinality(leftBehind) + 1
        BY <1>6, FS_AddElement
      <3>2. QED
        BY <1>6, <1>9, <3>1
    <2>3. fileFaults' = fileFaults + 1
      BY <1>9 DEF FileFault
    <2>4. QED
      BY <1>1, <1>3, <1>4, <1>5, <1>6, <1>7, <2>1, <2>2, <2>3 DEF RoomOnDisk
  <1>10. QED
    BY <1>8, <1>9 DEF RemoveFile

\* A Save evicts: at least a cap's worth of conversations is stored, and none of
\* them was written before the victim.
LEMMA EvictKeeps ==
    ASSUME ChatIInv, evictOldestLocked
    PROVE  ChatIInv'
  <1>1. /\ ChatTypeOK /\ SavingOK /\ InStep /\ GoneForGood /\ RoomOnDisk
        /\ FileTimes /\ RecentKept
    BY DEF ChatIInv
  <1>2. PICK v \in EvictionVictims : convs' = [convs EXCEPT ![v] = Absent] /\ RemoveFile(v)
    BY DEF evictOldestLocked
  <1>3. /\ saving.pc = "evict" /\ saving' = [saving EXCEPT !.pc = "write"]
        /\ UNCHANGED <<chatClock, reopens, written, wanted, deleted>>
    BY DEF evictOldestLocked
  <1>4. saving'.pc = "write" /\ saving'.ids = saving.ids /\ saving'.conv = saving.conv
    BY <1>1, <1>3 DEF ChatTypeOK
  <1>5. \A d \in Chats : ~Storing(d) /\ ~Storing(d)'
    BY <1>3, <1>4 DEF Storing
  <1>6. v \in Chats /\ v \in Stored /\ v \in OnDisk
    BY <1>1, StoredOnDisk DEF EvictionVictims, Stored
  <1>7. /\ convs' \in [Chats -> Conversation] /\ files' \in [Chats -> Conversation]
        /\ fileFaults' \in 0..MaxFileFaults /\ leftBehind' \in SUBSET Chats
        /\ InStep' /\ GoneForGood' /\ FileTimes'
        /\ Cardinality(leftBehind') <= fileFaults'
        /\ Cardinality(OnDisk') < MaxConversations + fileFaults'
    <2>1. deleted' \subseteq deleted \cup {v} /\ deleted' \subseteq Chats
      BY <1>1, <1>3 DEF ChatTypeOK
    <2>2. QED
      BY <1>1, <1>2, <1>3, <1>5, <1>6, <2>1, RemovalKeeps
  <1>8. ChatTypeOK'
    BY <1>1, <1>3, <1>4, <1>7 DEF ChatTypeOK
  <1>9. SavingOK'
    BY <1>1, <1>3, <1>4 DEF SavingOK, Unlocked
  <1>10. RoomOnDisk'
    <2>1. /\ Cardinality(OnDisk') \in Nat
          /\ Cardinality(OnDisk' \ saving'.ids) \in Nat
          /\ Cardinality(OnDisk' \ saving'.ids) <= Cardinality(OnDisk')
      <3>1. OnDisk' \in SUBSET Chats
        BY DEF OnDisk
      <3>2. OnDisk' \ saving'.ids \in SUBSET OnDisk'
        OBVIOUS
      <3>3. QED
        BY <3>1, <3>2, ChatSets
    <2>2. fileFaults' \in Nat /\ MaxConversations \in Nat
      BY <1>7, ChatAssumption
    <2>3. QED
      BY <1>7, <2>1, <2>2 DEF RoomOnDisk
  <1>11. RecentKept'
    <2> DEFINE Later(c) == {o \in Chats \ {c} : written[o] >= written[c]}
    <2> SUFFICES ASSUME NEW c \in wanted, convs'[c] = Absent
                 PROVE  Cardinality(Later(c)) >= MaxConversations - 1
      BY <1>3 DEF RecentKept
    <2>1. CASE c # v
      <3>1. c \in Chats
        BY <1>1 DEF ChatTypeOK
      <3>2. convs[c] = Absent
        BY <1>1, <1>2, <2>1, <3>1 DEF ChatTypeOK
      <3>3. QED
        BY <1>1, <1>5, <3>1, <3>2 DEF RecentKept
    <2>2. CASE c = v
      <3>1. \A o \in Stored : written[o] = convs[o].UpdatedAt
        BY <1>1, <1>5 DEF InStep, FileTimes, Stored
      <3>2. \A o \in Stored : convs[v].UpdatedAt <= convs[o].UpdatedAt
        BY <1>2 DEF EvictionVictims
      <3>3. \A o \in Stored : written[o] \in Nat /\ o \in Chats
        BY <1>1, TimesAreNat DEF ChatTypeOK, Stored
      <3>4. Stored \ {v} \subseteq Later(v)
        BY <1>6, <3>1, <3>2, <3>3
      <3>5. Cardinality(Stored \ {v}) = Cardinality(Stored) - 1
        <4>1. IsFiniteSet(Stored)
          BY ChatSets DEF Stored
        <4>2. QED
          BY <1>6, <4>1, FS_RemoveElement
      <3>6. /\ Cardinality(Later(v)) \in Nat
            /\ Cardinality(Stored) \in Nat
            /\ Cardinality(Stored \ {v}) <= Cardinality(Later(v))
        <4>1. Later(v) \in SUBSET Chats /\ Stored \in SUBSET Chats
          BY DEF Stored
        <4>2. QED
          BY <3>4, <4>1, ChatSets
      <3>7. Cardinality(Stored) >= MaxConversations
        BY <1>1, <1>3 DEF SavingOK, AtCap
      <3>8. QED
        BY <2>2, <3>5, <3>6, <3>7, ChatAssumption
    <2>3. QED
      BY <2>1, <2>2
  <1>12. QED
    BY <1>7, <1>8, <1>9, <1>10, <1>11 DEF ChatIInv

\* A file operation of the Save fails and the mutex is released: what was in
\* memory and on disk stays.
LEMMA SaveFailsKeeps ==
    ASSUME ChatIInv, SaveFails, saving.pc \in {"write", "rename"}
    PROVE  ChatIInv'
  <1>1. /\ ChatTypeOK /\ SavingOK /\ InStep /\ GoneForGood /\ RoomOnDisk
        /\ FileTimes /\ RecentKept
    BY DEF ChatIInv
  <1>2. /\ fileFaults' = fileFaults + 1 /\ fileFaults < MaxFileFaults
        /\ saving' = NotSaving
        /\ UNCHANGED <<convs, files, chatClock, reopens, written, wanted, deleted, leftBehind>>
    BY DEF SaveFails, FileFault, histVars
  <1>3. \A d \in Chats : ~Storing(d) /\ ~Storing(d)'
    BY <1>2 DEF Storing, NotSaving
  <1>4. ChatTypeOK'
    BY <1>1, <1>2, TimesAreNat, ChatAssumption DEF ChatTypeOK, NotSaving
  <1>5. SavingOK'
    BY <1>2 DEF SavingOK, Unlocked, NotSaving
  <1>6. InStep' /\ GoneForGood' /\ FileTimes' /\ RecentKept'
    <2>1. InStep' /\ FileTimes'
      BY <1>1, <1>2, <1>3 DEF InStep, FileTimes
    <2>2. GoneForGood'
      BY <1>1, <1>2, <1>3 DEF GoneForGood, ChatTypeOK
    <2>3. RecentKept'
      BY <1>1, <1>2, <1>3 DEF RecentKept, ChatTypeOK
    <2>4. QED
      BY <2>1, <2>2, <2>3
  <1>7. RoomOnDisk'
    <2>1. OnDisk' = OnDisk
      BY <1>2 DEF OnDisk
    <2>2. Cardinality(OnDisk) \in Nat /\ Cardinality(leftBehind) \in Nat
      BY <1>1, ChatSets DEF OnDisk, ChatTypeOK
    <2>3. fileFaults \in Nat /\ MaxConversations \in Nat
      BY <1>1, ChatAssumption DEF ChatTypeOK
    <2>4. QED
      BY <1>1, <1>2, <2>1, <2>2, <2>3 DEF RoomOnDisk, NotSaving
  <1>8. QED
    BY <1>4, <1>5, <1>6, <1>7 DEF ChatIInv

\* The temporary file is written, which Open does not look at.
LEMMA WriteTmpKeeps ==
    ASSUME ChatIInv, WriteTmp
    PROVE  ChatIInv'
  <1>1. /\ ChatTypeOK /\ SavingOK /\ InStep /\ GoneForGood /\ RoomOnDisk
        /\ FileTimes /\ RecentKept
    BY DEF ChatIInv
  <1>2. saving.pc = "write"
    BY DEF WriteTmp
  <1>3. CASE SaveFails
    BY <1>2, <1>3, SaveFailsKeeps
  <1>4. CASE /\ saving' = [saving EXCEPT !.pc = "rename"]
             /\ UNCHANGED <<convs, files, chatClock, fileFaults, reopens, histVars>>
    <2>1. UNCHANGED <<convs, files, chatClock, fileFaults, reopens,
                      written, wanted, deleted, leftBehind>>
      BY <1>4 DEF histVars
    <2>2. saving'.pc = "rename" /\ saving'.ids = saving.ids /\ saving'.conv = saving.conv
      BY <1>1, <1>4 DEF ChatTypeOK
    <2>3. \A d \in Chats : ~Storing(d) /\ ~Storing(d)'
      BY <1>2, <2>2 DEF Storing
    <2>4. ChatTypeOK'
      BY <1>1, <1>2, <1>4, <2>1, <2>2 DEF ChatTypeOK
    <2>5. SavingOK'
      BY <1>1, <1>2, <2>1, <2>2 DEF SavingOK, Unlocked
    <2>6. InStep' /\ FileTimes'
      BY <1>1, <2>1, <2>3 DEF InStep, FileTimes
    <2>7. GoneForGood'
      BY <1>1, <2>1, <2>3 DEF GoneForGood, ChatTypeOK
    <2>8. RecentKept'
      BY <1>1, <2>1, <2>3 DEF RecentKept, ChatTypeOK
    <2>9. OnDisk' = OnDisk
      BY <2>1 DEF OnDisk
    <2>10. RoomOnDisk'
      BY <1>1, <1>2, <2>1, <2>2, <2>9 DEF RoomOnDisk
    <2>11. QED
      BY <2>4, <2>5, <2>6, <2>7, <2>8, <2>10 DEF ChatIInv
  <1>5. QED
    BY <1>3, <1>4 DEF WriteTmp

\* The file of the conversation is replaced.  It is the newest now, so that every
\* conversation lost earlier still has as many later ones.
LEMMA RenameTmpKeeps ==
    ASSUME ChatIInv, RenameTmp
    PROVE  ChatIInv'
  <1>1. /\ ChatTypeOK /\ SavingOK /\ InStep /\ GoneForGood /\ RoomOnDisk
        /\ FileTimes /\ RecentKept
    BY DEF ChatIInv
  <1>2. saving.pc = "rename"
    BY DEF RenameTmp
  <1>3. CASE SaveFails
    BY <1>2, <1>3, SaveFailsKeeps
  <1>4. CASE ~SaveFails
    <2>1. /\ files' = [c \in Chats |-> IF c \in saving.ids THEN saving.conv ELSE files[c]]
          /\ written' = [c \in Chats |-> IF c \in saving.ids THEN saving.conv.UpdatedAt
                                         ELSE written[c]]
          /\ wanted' = wanted \cup saving.ids
          /\ deleted' = deleted \ saving.ids
          /\ leftBehind' = leftBehind \ saving.ids
          /\ saving' = [saving EXCEPT !.pc = "store"]
          /\ UNCHANGED <<convs, chatClock, fileFaults, reopens>>
      BY <1>4 DEF RenameTmp
    <2>2. PICK s \in Chats : saving.ids = {s}
      BY <1>1, <1>2, SavedOne DEF Unlocked
    <2>3. saving'.pc = "store" /\ saving'.ids = {s} /\ saving'.conv = saving.conv
      BY <1>1, <2>1, <2>2 DEF ChatTypeOK
    <2>4. /\ \A d \in Chats : ~Storing(d) /\ (Storing(d)' <=> d = s)
      BY <1>2, <2>3 DEF Storing
    <2>5. saving.conv \in Conversation /\ saving.conv.UpdatedAt = chatClock
      BY <1>1, <1>2 DEF ChatTypeOK, SavingOK, Unlocked
    <2>6. ChatTypeOK'
      <3>1. saving.conv.UpdatedAt \in ChatTimes
        BY <2>5 DEF Conversation
      <3>2. /\ files' \in [Chats -> Conversation]
            /\ written' \in [Chats -> ChatTimes]
            /\ {wanted', deleted', leftBehind'} \subseteq SUBSET Chats
        BY <1>1, <2>1, <2>5, <3>1 DEF ChatTypeOK
      <3>3. saving' \in [pc : {"idle", "evict", "write", "rename", "store"},
                         ids : SUBSET Chats, conv : Conversation]
        BY <1>1, <2>1 DEF ChatTypeOK
      <3>4. QED
        BY <1>1, <2>1, <2>2, <2>3, <3>2, <3>3 DEF ChatTypeOK
    <2>7. SavingOK'
      BY <2>1, <2>3, <2>5 DEF SavingOK, Unlocked
    <2>8. InStep'
      BY <1>1, <2>1, <2>2, <2>3, <2>4 DEF InStep
    <2>9. GoneForGood'
      BY <1>1, <2>1, <2>2, <2>4 DEF GoneForGood, ChatTypeOK
    <2>10. FileTimes'
      BY <1>1, <2>1, <2>2, <2>5, ChatAssumption DEF FileTimes, ChatTypeOK
    <2>11. RecentKept'
      <3> SUFFICES ASSUME NEW c \in wanted', convs'[c] = Absent, ~Storing(c)'
                   PROVE  Cardinality({o \in Chats \ {c} : written'[o] >= written'[c]})
                            >= MaxConversations - 1
        BY DEF RecentKept
      <3>1. c \in Chats /\ c # s /\ c \in wanted
        BY <1>1, <2>1, <2>2, <2>4 DEF ChatTypeOK
      <3>2. Cardinality({o \in Chats \ {c} : written[o] >= written[c]})
              >= MaxConversations - 1
        BY <1>1, <2>1, <2>4, <3>1 DEF RecentKept
      <3>3. \A o \in Chats : written'[o] >= written[o] /\ written[o] \in Nat
                             /\ written'[o] \in Nat
        BY <1>1, <2>1, <2>5, TimesAreNat DEF FileTimes, ChatTypeOK, Conversation
      <3>4. written'[c] = written[c]
        BY <2>1, <2>2, <3>1
      <3>5. {o \in Chats \ {c} : written[o] >= written[c]}
              \in SUBSET {o \in Chats \ {c} : written'[o] >= written'[c]}
        BY <3>1, <3>3, <3>4
      <3>6. QED
        <4>1. {o \in Chats \ {c} : written'[o] >= written'[c]} \in SUBSET Chats
          OBVIOUS
        <4>2. {o \in Chats \ {c} : written[o] >= written[c]} \in SUBSET Chats
          OBVIOUS
        <4> QED
          BY <3>2, <3>5, <4>1, <4>2, ChatSets, ChatAssumption
    <2>12. RoomOnDisk'
      <3>1. OnDisk' \in SUBSET ((OnDisk \ {s}) \cup {s})
        BY <2>1, <2>2 DEF OnDisk
      <3>2. /\ IsFiniteSet(OnDisk \ {s}) /\ Cardinality(OnDisk \ {s}) \in Nat
            /\ leftBehind \in SUBSET Chats /\ Cardinality(leftBehind) \in Nat
        BY <1>1, ChatSets DEF OnDisk, ChatTypeOK
      <3>3. /\ Cardinality((OnDisk \ {s}) \cup {s}) = Cardinality(OnDisk \ {s}) + 1
            /\ IsFiniteSet((OnDisk \ {s}) \cup {s})
        BY <3>2, FS_AddElement
      <3>4. Cardinality(OnDisk') <= Cardinality(OnDisk \ {s}) + 1
        BY <3>1, <3>3, FS_Subset
      <3>5. Cardinality(OnDisk') \in Nat
        BY ChatSets DEF OnDisk
      <3>6. /\ Cardinality(leftBehind') \in Nat
            /\ Cardinality(leftBehind') <= Cardinality(leftBehind)
        BY <2>1, <3>2, ChatSets
      <3>7. fileFaults \in Nat /\ MaxConversations \in Nat
        BY <1>1, ChatAssumption DEF ChatTypeOK
      <3>8. Cardinality(OnDisk \ {s}) < MaxConversations + fileFaults
        BY <1>1, <1>2, <2>2 DEF RoomOnDisk
      <3>9. QED
        BY <1>1, <2>1, <2>3, <3>2, <3>4, <3>5, <3>6, <3>7, <3>8 DEF RoomOnDisk
    <2>13. QED
      BY <2>6, <2>7, <2>8, <2>9, <2>10, <2>11, <2>12 DEF ChatIInv
  <1>5. QED
    BY <1>3, <1>4

\* The Save enters in memory what it has written and returns.
LEMMA SaveStoreKeeps ==
    ASSUME ChatIInv, SaveStore
    PROVE  ChatIInv'
  <1>1. /\ ChatTypeOK /\ SavingOK /\ InStep /\ GoneForGood /\ RoomOnDisk
        /\ FileTimes /\ RecentKept
    BY DEF ChatIInv
  <1>2. /\ saving.pc = "store" /\ saving' = NotSaving
        /\ convs' = [c \in Chats |-> IF c \in saving.ids THEN saving.conv ELSE convs[c]]
        /\ UNCHANGED <<files, chatClock, fileFaults, reopens,
                       written, wanted, deleted, leftBehind>>
    BY DEF SaveStore, histVars
  <1>3. PICK s \in Chats : saving.ids = {s}
    BY <1>1, <1>2, SavedOne DEF Unlocked
  <1>4. \A d \in Chats : ~Storing(d)' /\ (Storing(d) <=> d = s)
    BY <1>2, <1>3 DEF Storing, NotSaving
  <1>5. /\ saving.conv \in Conversation
        /\ saving.conv.UpdatedAt = chatClock /\ saving.conv # Absent
    BY <1>1, <1>2 DEF ChatTypeOK, SavingOK, Unlocked, Absent
  <1>6. ChatTypeOK'
    BY <1>1, <1>2, <1>5, TimesAreNat DEF ChatTypeOK, NotSaving
  <1>7. SavingOK'
    BY <1>2 DEF SavingOK, Unlocked, NotSaving
  <1>8. InStep' /\ FileTimes'
    BY <1>1, <1>2, <1>3, <1>4, <1>5 DEF InStep, FileTimes
  <1>9. GoneForGood'
    BY <1>1, <1>2, <1>4 DEF GoneForGood, ChatTypeOK
  <1>10. RecentKept'
    BY <1>1, <1>2, <1>3, <1>4, <1>5 DEF RecentKept, ChatTypeOK
  <1>11. OnDisk' = OnDisk
    BY <1>2 DEF OnDisk
  <1>12. RoomOnDisk'
    BY <1>1, <1>2, <1>11 DEF RoomOnDisk, NotSaving
  <1>13. QED
    BY <1>6, <1>7, <1>8, <1>9, <1>10, <1>12 DEF ChatIInv

\* A Delete that finds nothing in memory: a file can only be one left behind.
LEMMA DeleteMissingKeeps ==
    ASSUME ChatIInv, NEW c \in Chats, DeleteMissing(c)
    PROVE  ChatIInv'
  <1>1. /\ ChatTypeOK /\ SavingOK /\ InStep /\ GoneForGood /\ RoomOnDisk
        /\ FileTimes /\ RecentKept
    BY DEF ChatIInv
  <1>2. /\ Unlocked /\ convs[c] = Absent
        /\ wanted' = wanted \ {c} /\ deleted' = deleted \cup {c}
        /\ UNCHANGED <<convs, files, saving, chatClock, fileFaults, reopens, written, leftBehind>>
    BY DEF DeleteMissing
  <1>3. \A d \in Chats : ~Storing(d)' /\ ~Storing(d)
    BY <1>2 DEF Storing, Unlocked
  <1>4. ChatTypeOK'
    BY <1>1, <1>2 DEF ChatTypeOK
  <1>5. Stored' = Stored /\ OnDisk' = OnDisk
    BY <1>2 DEF Stored, OnDisk
  <1>6. SavingOK' /\ RoomOnDisk'
    BY <1>1, <1>2, <1>5 DEF SavingOK, Unlocked, AtCap, RoomOnDisk
  <1>7. InStep' /\ FileTimes'
    BY <1>1, <1>2, <1>3 DEF InStep, FileTimes
  <1>8. GoneForGood'
    BY <1>1, <1>2, <1>3 DEF GoneForGood, InStep, ChatTypeOK
  <1>9. RecentKept'
    BY <1>1, <1>2, <1>3 DEF RecentKept, ChatTypeOK
  <1>10. QED
    BY <1>4, <1>6, <1>7, <1>8, <1>9 DEF ChatIInv

\* A Delete of a conversation in memory, whether or not its file goes.
LEMMA DeleteStoredKeeps ==
    ASSUME ChatIInv, NEW c \in Chats, DeleteStored(c)
    PROVE  ChatIInv'
  <1>1. /\ ChatTypeOK /\ SavingOK /\ InStep /\ GoneForGood /\ RoomOnDisk
        /\ FileTimes /\ RecentKept
    BY DEF ChatIInv
  <1>2. /\ Unlocked /\ convs[c] # Absent
        /\ convs' = [convs EXCEPT ![c] = Absent] /\ RemoveFile(c)
        /\ wanted' = wanted \ {c} /\ deleted' \in {deleted, deleted \cup {c}}
        /\ UNCHANGED <<saving, chatClock, reopens, written>>
    BY DEF DeleteStored
  <1>3. \A d \in Chats : ~Storing(d) /\ ~Storing(d)'
    BY <1>2 DEF Storing, Unlocked
  <1>4. c \in OnDisk
    BY <1>1, <1>2, <1>3 DEF InStep, OnDisk
  <1>5. deleted' \subseteq deleted \cup {c} /\ deleted' \subseteq Chats
    BY <1>1, <1>2 DEF ChatTypeOK
  <1>6. /\ convs' \in [Chats -> Conversation] /\ files' \in [Chats -> Conversation]
        /\ fileFaults' \in 0..MaxFileFaults /\ leftBehind' \in SUBSET Chats
        /\ InStep' /\ GoneForGood' /\ FileTimes'
        /\ Cardinality(leftBehind') <= fileFaults'
        /\ Cardinality(OnDisk') < MaxConversations + fileFaults'
    BY <1>1, <1>2, <1>3, <1>4, <1>5, RemovalKeeps
  <1>7. ChatTypeOK'
    BY <1>1, <1>2, <1>5, <1>6 DEF ChatTypeOK
  <1>8. SavingOK'
    BY <1>1, <1>2 DEF SavingOK, Unlocked
  <1>9. Cardinality(OnDisk') \in Nat /\ fileFaults' \in Nat
    BY <1>6, ChatSets, ChatAssumption DEF OnDisk
  <1>10. RoomOnDisk'
    BY <1>2, <1>6, <1>9, ChatAssumption DEF RoomOnDisk, Unlocked
  <1>11. RecentKept'
    BY <1>1, <1>2, <1>3 DEF RecentKept, ChatTypeOK
  <1>12. QED
    BY <1>6, <1>7, <1>8, <1>10, <1>11 DEF ChatIInv

\* The process is killed at any point and started again: memory becomes what the
\* files hold, without the ones that cannot be read.
LEMMA ReopenKeeps ==
    ASSUME ChatIInv, Reopen
    PROVE  ChatIInv'
  <1>1. /\ ChatTypeOK /\ SavingOK /\ InStep /\ GoneForGood /\ RoomOnDisk
        /\ FileTimes /\ RecentKept
    BY DEF ChatIInv
  <1>2. PICK unread \in SUBSET OnDisk :
          /\ fileFaults' = fileFaults + Cardinality(unread)
          /\ fileFaults' <= MaxFileFaults
          /\ convs' = [c \in Chats |-> IF c \in unread THEN Absent ELSE files[c]]
          /\ wanted' = wanted \ unread
          /\ leftBehind' = leftBehind \cup unread
    BY DEF Reopen, OnDisk
  <1>3. /\ reopens' = reopens + 1 /\ reopens < MaxReopens
        /\ saving' = NotSaving
        /\ UNCHANGED <<files, chatClock, written, deleted>>
    BY DEF Reopen
  <1>4. /\ unread \in SUBSET Chats /\ Cardinality(unread) \in Nat
        /\ leftBehind \in SUBSET Chats /\ Cardinality(leftBehind) \in Nat
        /\ fileFaults \in Nat /\ MaxConversations \in Nat
    <2>1. unread \in SUBSET Chats /\ leftBehind \in SUBSET Chats
      BY <1>1 DEF OnDisk, ChatTypeOK
    <2>2. QED
      BY <1>1, <2>1, ChatSets, ChatAssumption DEF ChatTypeOK
  <1>5. \A d \in Chats : ~Storing(d)'
    BY <1>3 DEF Storing, NotSaving
  <1>6. ChatTypeOK'
    <2>1. fileFaults' \in 0..MaxFileFaults /\ reopens' \in 0..MaxReopens
      BY <1>1, <1>2, <1>3, <1>4, ChatAssumption DEF ChatTypeOK
    <2>2. convs' \in [Chats -> Conversation] /\ {wanted', leftBehind'} \subseteq SUBSET Chats
      BY <1>1, <1>2, <1>4, TimesAreNat DEF ChatTypeOK
    <2>3. QED
      BY <1>1, <1>3, <2>1, <2>2, TimesAreNat DEF ChatTypeOK, NotSaving
  <1>7. SavingOK'
    BY <1>3 DEF SavingOK, Unlocked, NotSaving
  <1>8. InStep'
    BY <1>2, <1>3, <1>5 DEF InStep
  <1>9. GoneForGood'
    BY <1>1, <1>2, <1>3, <1>5 DEF GoneForGood, ChatTypeOK
  <1>10. FileTimes'
    BY <1>1, <1>3 DEF FileTimes
  <1>11. RecentKept'
    <2> SUFFICES ASSUME NEW c \in wanted', convs'[c] = Absent
                 PROVE  Cardinality({o \in Chats \ {c} : written[o] >= written[c]})
                          >= MaxConversations - 1
      BY <1>3 DEF RecentKept
    <2>1. c \in Chats /\ c \in wanted /\ files[c] = Absent
      BY <1>1, <1>2 DEF ChatTypeOK
    <2>2. convs[c] = Absent
      BY <1>1, <2>1, StoredOnDisk DEF Stored, OnDisk
    <2>3. ~Storing(c)
      <3> SUFFICES ASSUME Storing(c) PROVE FALSE
        OBVIOUS
      <3>1. saving.conv = Absent /\ saving.conv.UpdatedAt = chatClock /\ chatClock # 0
        BY <1>1, <2>1 DEF InStep, Storing, SavingOK, Unlocked, ChatTypeOK
      <3>2. QED
        BY <3>1 DEF Absent
    <2>4. QED
      BY <1>1, <2>1, <2>2, <2>3 DEF RecentKept
  <1>12. RoomOnDisk'
    <2>1. OnDisk' = OnDisk
      BY <1>3 DEF OnDisk
    <2>2. Cardinality(leftBehind') <= Cardinality(leftBehind) + Cardinality(unread)
      BY <1>2, <1>4, UnionSize
    <2>3. Cardinality(leftBehind') \in Nat /\ Cardinality(OnDisk) \in Nat
      BY <1>2, <1>4, ChatSets DEF OnDisk
    <2>4. QED
      BY <1>1, <1>2, <1>3, <1>4, <2>1, <2>2, <2>3 DEF RoomOnDisk, NotSaving
  <1>13. QED
    BY <1>6, <1>7, <1>8, <1>9, <1>10, <1>11, <1>12 DEF ChatIInv

\* Time passes between operations only.
LEMMA ChatTickKeeps ==
    ASSUME ChatIInv, ChatTick
    PROVE  ChatIInv'
  <1>1. /\ ChatTypeOK /\ SavingOK /\ InStep /\ GoneForGood /\ RoomOnDisk
        /\ FileTimes /\ RecentKept
    BY DEF ChatIInv
  <1>2. /\ Unlocked /\ chatClock < MaxChatClock /\ chatClock' = chatClock + 1
        /\ UNCHANGED <<convs, files, saving, fileFaults, reopens,
                       written, wanted, deleted, leftBehind>>
    BY DEF ChatTick, histVars
  <1>3. \A d \in Chats : ~Storing(d)' /\ ~Storing(d)
    BY <1>2 DEF Storing, Unlocked
  <1>4. Stored' = Stored /\ OnDisk' = OnDisk
    BY <1>2 DEF Stored, OnDisk
  <1>5. ChatTypeOK'
    BY <1>1, <1>2, ChatAssumption DEF ChatTypeOK
  <1>6. SavingOK' /\ RoomOnDisk'
    BY <1>1, <1>2, <1>4 DEF SavingOK, Unlocked, AtCap, RoomOnDisk
  <1>7. InStep'
    BY <1>1, <1>2, <1>3 DEF InStep
  <1>8. GoneForGood' /\ RecentKept'
    BY <1>1, <1>2, <1>3 DEF GoneForGood, RecentKept, ChatTypeOK
  <1>9. FileTimes'
    <2>1. \A c \in Chats : written[c] \in Nat
      BY <1>1, TimesAreNat DEF ChatTypeOK
    <2>2. chatClock \in Nat
      BY <1>1 DEF ChatTypeOK
    <2>3. QED
      BY <1>1, <1>2, <2>1, <2>2 DEF FileTimes
  <1>10. QED
    BY <1>5, <1>6, <1>7, <1>8, <1>9 DEF ChatIInv

\* Every step of the store keeps the invariant.
LEMMA ChatNextIInv == ChatIInv /\ [ChatNext]_chatVars => ChatIInv'
  <1> SUFFICES ASSUME ChatIInv, [ChatNext]_chatVars PROVE ChatIInv'
    OBVIOUS
  <1>1. CASE UNCHANGED chatVars
    BY <1>1
    DEF chatVars, histVars, ChatIInv, ChatTypeOK, SavingOK, InStep, GoneForGood, RoomOnDisk,
        FileTimes, RecentKept, Unlocked, AtCap, Stored, OnDisk, Storing
  <1>2. QED
    BY <1>1, SaveBeginKeeps, EvictKeeps, WriteTmpKeeps, RenameTmpKeeps, SaveStoreKeeps,
       DeleteMissingKeeps, DeleteStoredKeeps, ReopenKeeps, ChatTickKeeps
    DEF ChatNext
-----------------------------------------------------------------------------
\* Save, Delete, Open and a crash between any two of their steps keep the store
\* well typed: one Save at a time holds the mutex, for one conversation.
THEOREM ChatTypeCorrect == ChatSpec => []ChatTypeOK
  <1>1. ChatIInv => ChatTypeOK
    BY DEF ChatIInv
  <1>2. QED
    BY <1>1, ChatInitIInv, ChatNextIInv, PTL DEF ChatSpec

\* A crash costs no conversation: what List and Get show is in its file, in the
\* same version, whatever writeFileLocked, os.Rename and os.Remove do.
THEOREM CrashLosesNothing == ChatSpec => []MemoryIsOnDisk
  <1>1. ChatIInv => MemoryIsOnDisk
    <2> SUFFICES ASSUME ChatIInv, NEW c \in Stored, files[c] # convs[c]
                 PROVE  saving.ids = {c}
      BY DEF MemoryIsOnDisk
    <2>1. Storing(c)
      BY DEF ChatIInv, InStep, Stored
    <2>2. QED
      BY <2>1, SavedOne DEF ChatIInv, Storing, Unlocked
  <1>2. QED
    BY <1>1, ChatInitIInv, ChatNextIInv, PTL DEF ChatSpec

\* evictOldestLocked loses only the least recently updated, at every cap and
\* through failing saves and restarts.
THEOREM RecentSurvive == ChatSpec => []KeepsRecent
  <1>1. ChatIInv => KeepsRecent
    BY DEF ChatIInv, RecentKept, KeepsRecent, Storing
  <1>2. QED
    BY <1>1, ChatInitIInv, ChatNextIInv, PTL DEF ChatSpec

\* Before a restart, Save evicts before it adds and every other step only takes
\* conversations away.
LEMMA MemoryKeepsRoom ==
    ASSUME ChatTypeOK, ChatTypeOK', SavingOK, RoomInMemory, [ChatNext]_chatVars
    PROVE  RoomInMemory'
  <1> DEFINE busy == saving.pc \in {"write", "rename", "store"}
  <1> SUFFICES ASSUME reopens' = 0
               PROVE  /\ Cardinality(Stored') <= MaxConversations
                      /\ busy' => Cardinality(Stored' \cup saving'.ids) <= MaxConversations
    BY DEF RoomInMemory
  <1>1. /\ Stored \in SUBSET Chats /\ Stored' \in SUBSET Chats
        /\ saving.ids \in SUBSET Chats /\ saving'.ids \in SUBSET Chats
        /\ Stored \cup saving.ids \in SUBSET Chats
        /\ Stored' \cup saving'.ids \in SUBSET Chats
        /\ MaxConversations \in Nat
    BY ChatAssumption DEF ChatTypeOK, Stored
  <1>2. /\ Cardinality(Stored) \in Nat /\ Cardinality(Stored') \in Nat
        /\ Cardinality(Stored \cup saving.ids) \in Nat
        /\ Cardinality(Stored' \cup saving'.ids) \in Nat
    BY <1>1, ChatSets
  <1>3. ASSUME UNCHANGED <<convs, saving, reopens>>
        PROVE  /\ Cardinality(Stored') <= MaxConversations
               /\ busy' => Cardinality(Stored' \cup saving'.ids) <= MaxConversations
    BY <1>3 DEF RoomInMemory, Stored
  <1>4. ASSUME Stored' \in SUBSET Stored, reopens = 0, saving'.pc = "idle"
        PROVE  /\ Cardinality(Stored') <= MaxConversations
               /\ busy' => Cardinality(Stored' \cup saving'.ids) <= MaxConversations
    <2>1. Cardinality(Stored') <= Cardinality(Stored)
      BY <1>1, <1>4, ChatSets
    <2>2. QED
      BY <1>1, <1>2, <1>4, <2>1 DEF RoomInMemory
  <1>5. ASSUME UNCHANGED <<convs, reopens>>, busy, saving'.ids = saving.ids
        PROVE  /\ Cardinality(Stored') <= MaxConversations
               /\ busy' => Cardinality(Stored' \cup saving'.ids) <= MaxConversations
    BY <1>5 DEF RoomInMemory, Stored
  <1>6. ASSUME NEW c \in Chats, SaveBegin(c)
        PROVE  /\ Cardinality(Stored') <= MaxConversations
               /\ busy' => Cardinality(Stored' \cup saving'.ids) <= MaxConversations
    <2>1. Stored' = Stored /\ saving'.ids = {c} /\ reopens = 0
      BY <1>6 DEF SaveBegin, Stored
    <2>2. Cardinality(Stored) <= MaxConversations
      BY <2>1 DEF RoomInMemory
    <2>3. CASE convs[c] # Absent
      <3>1. Stored \cup {c} = Stored
        BY <2>3 DEF Stored
      <3>2. QED
        BY <2>1, <2>2, <3>1
    <2>4. CASE convs[c] = Absent /\ AtCap
      BY <1>6, <2>1, <2>2, <2>4 DEF SaveBegin
    <2>5. CASE convs[c] = Absent /\ ~AtCap
      <3>1. Cardinality(Stored) < MaxConversations
        BY <1>1, <1>2, <2>5 DEF AtCap
      <3>2. Cardinality(Stored \cup {c}) <= Cardinality(Stored) + 1
        <4>1. Cardinality({c}) = 1
          BY FS_Singleton
        <4>2. QED
          BY <1>1, <4>1, UnionSize
      <3>3. Cardinality(Stored \cup {c}) \in Nat
        BY <1>2, <2>1
      <3>4. QED
        BY <1>1, <1>2, <2>1, <2>2, <3>1, <3>2, <3>3
    <2>6. QED
      BY <2>3, <2>4, <2>5
  <1>7. ASSUME evictOldestLocked
        PROVE  /\ Cardinality(Stored') <= MaxConversations
               /\ busy' => Cardinality(Stored' \cup saving'.ids) <= MaxConversations
    <2>1. PICK v \in EvictionVictims : convs' = [convs EXCEPT ![v] = Absent]
      BY <1>7 DEF evictOldestLocked
    <2>2. /\ reopens = 0 /\ saving.pc = "evict" /\ saving'.ids = saving.ids
      BY <1>7 DEF evictOldestLocked, ChatTypeOK
    <2>3. Stored' = Stored \ {v} /\ v \in Stored
      BY <2>1 DEF EvictionVictims, Stored, ChatTypeOK
    <2>4. Cardinality(Stored') = Cardinality(Stored) - 1
      <3>1. IsFiniteSet(Stored)
        BY <1>1, ChatSets
      <3>2. QED
        BY <2>3, <3>1, FS_RemoveElement
    <2>5. PICK c \in Chats : saving.ids = {c}
      BY <2>2, SavedOne DEF Unlocked
    <2>6. Cardinality(Stored' \cup {c}) <= Cardinality(Stored') + 1
      <3>1. Cardinality({c}) = 1
        BY FS_Singleton
      <3>2. QED
        BY <1>1, <3>1, UnionSize
    <2>7. Cardinality(Stored) <= MaxConversations
      BY <2>2 DEF RoomInMemory
    <2>8. Cardinality(Stored' \cup {c}) \in Nat
      BY <1>2, <2>2, <2>5
    <2>9. QED
      BY <1>1, <1>2, <2>2, <2>4, <2>5, <2>6, <2>7, <2>8
  <1>8. ASSUME SaveFails
        PROVE  Stored' \in SUBSET Stored /\ reopens = 0 /\ saving'.pc = "idle"
    BY <1>8 DEF SaveFails, NotSaving, Stored
  <1>9. ASSUME SaveStore
        PROVE  /\ Cardinality(Stored') <= MaxConversations
               /\ busy' => Cardinality(Stored' \cup saving'.ids) <= MaxConversations
    <2>1. Stored' \in SUBSET (Stored \cup saving.ids) /\ saving'.pc = "idle" /\ reopens = 0
      BY <1>9 DEF SaveStore, Stored, NotSaving
    <2>2. Cardinality(Stored \cup saving.ids) <= MaxConversations
      BY <1>9, <2>1 DEF SaveStore, RoomInMemory
    <2>3. Cardinality(Stored') <= Cardinality(Stored \cup saving.ids)
      BY <1>1, <2>1, ChatSets
    <2>4. QED
      BY <1>1, <1>2, <2>1, <2>2, <2>3
  <1>10. ASSUME NEW c \in Chats, DeleteMissing(c) \/ DeleteStored(c)
         PROVE  Stored' \in SUBSET Stored /\ reopens = 0 /\ saving'.pc = "idle"
    BY <1>10 DEF DeleteMissing, DeleteStored, Unlocked, Stored, ChatTypeOK
  <1>11. CASE WriteTmp
    <2>1. busy
      BY <1>11 DEF WriteTmp
    <2>2. CASE SaveFails
      BY <2>2, <1>8, <1>4
    <2>3. CASE ~SaveFails
      BY <1>11, <2>1, <2>3, <1>5 DEF WriteTmp, ChatTypeOK
    <2>4. QED
      BY <2>2, <2>3
  <1>12. CASE RenameTmp
    <2>1. busy
      BY <1>12 DEF RenameTmp
    <2>2. CASE SaveFails
      BY <2>2, <1>8, <1>4
    <2>3. CASE ~SaveFails
      BY <1>12, <2>1, <2>3, <1>5 DEF RenameTmp, ChatTypeOK
    <2>4. QED
      BY <2>2, <2>3
  <1>13. ~Reopen
    BY DEF Reopen, ChatTypeOK
  <1>14. CASE ChatTick \/ UNCHANGED chatVars
    BY <1>14, <1>3 DEF ChatTick, chatVars
  <1>15. QED
    BY <1>4, <1>6, <1>7, <1>9, <1>10, <1>11, <1>12, <1>13, <1>14 DEF ChatNext

\* MaxConversations is kept until the process is restarted, and exceeded after it by
\* no more than the file operations that failed (Save, evictOldestLocked, Open).
THEOREM CapHolds == ChatSpec => []CapOvershootBounded
  <1>1. ChatIInv /\ RoomInMemory => CapOvershootBounded
    <2> SUFFICES ASSUME ChatIInv, RoomInMemory
                 PROVE  Cardinality(Stored) <= MaxConversations + Overshoot
      BY DEF CapOvershootBounded
    <2>1. ChatTypeOK /\ SavingOK /\ InStep /\ RoomOnDisk
      BY DEF ChatIInv
    <2>2. Stored \in SUBSET OnDisk /\ OnDisk \in SUBSET Chats /\ Stored \in SUBSET Chats
      BY <2>1, StoredOnDisk DEF OnDisk, Stored
    <2>3. /\ Cardinality(Stored) \in Nat /\ Cardinality(OnDisk) \in Nat
          /\ Cardinality(Stored) <= Cardinality(OnDisk)
      BY <2>2, ChatSets
    <2>4. fileFaults \in Nat /\ MaxConversations \in Nat
      BY <2>1, ChatAssumption DEF ChatTypeOK
    <2>5. CASE reopens = 0
      BY <2>4, <2>5 DEF RoomInMemory, Overshoot
    <2>6. CASE reopens # 0
      BY <2>1, <2>3, <2>4, <2>6 DEF RoomOnDisk, Overshoot
    <2>7. QED
      BY <2>5, <2>6
  <1>2. ChatInit => RoomInMemory
    <2> SUFFICES ASSUME ChatInit PROVE RoomInMemory
      OBVIOUS
    <2>1. Stored = {} /\ saving.pc = "idle"
      BY DEF ChatInit, Stored, NotSaving
    <2>2. QED
      BY <2>1, FS_EmptySet, ChatAssumption DEF RoomInMemory
  <1>3. ChatIInv /\ ChatIInv' /\ RoomInMemory /\ [ChatNext]_chatVars => RoomInMemory'
    <2> SUFFICES ASSUME ChatIInv, ChatIInv', RoomInMemory, [ChatNext]_chatVars
                 PROVE  RoomInMemory'
      OBVIOUS
    <2>1. ChatTypeOK /\ SavingOK /\ ChatTypeOK'
      BY DEF ChatIInv
    <2>2. QED
      BY <2>1, MemoryKeepsRoom
  <1>4. QED
    BY <1>1, <1>2, <1>3, ChatInitIInv, ChatNextIInv, PTL DEF ChatSpec

\* A conversation whose Delete was acknowledged stays away through restarts,
\* unless a fault had left its file behind.
THEOREM DeleteIsFinal == ChatSpec => []DeletedStaysDeleted
  <1>1. ChatIInv => DeletedStaysDeleted
    <2> SUFFICES ASSUME ChatIInv, NEW c \in deleted, c \notin leftBehind
                 PROVE  convs[c] = Absent
      BY DEF DeletedStaysDeleted
    <2>1. c \in Chats /\ files[c] = Absent
      BY DEF ChatIInv, ChatTypeOK, GoneForGood
    <2>2. QED
      BY <2>1, StoredOnDisk DEF ChatIInv, Stored, OnDisk
  <1>2. QED
    BY <1>1, ChatInitIInv, ChatNextIInv, PTL DEF ChatSpec
-----------------------------------------------------------------------------
(***************************************************************************)
(* The rate limiter                                                        *)
(***************************************************************************)

\* A product of naturals grows with its first factor.
LEMMA ProductGrows ==
    ASSUME NEW a \in Nat, NEW b \in Nat, NEW c \in Nat, a <= b
    PROVE  a * c \in Nat /\ a * c <= b * c
  <1>1. b * c = a * c + (b - a) * c
    OBVIOUS
  <1>2. (b - a) * c \in Nat /\ a * c \in Nat
    OBVIOUS
  <1>3. QED
    BY <1>1, <1>2

\* Division by a positive number keeps the order.
LEMMA DivMonotone ==
    ASSUME NEW a \in Nat, NEW b \in Nat, NEW g \in Nat \ {0}, a <= b
    PROVE  a \div g \in Nat /\ a \div g <= b \div g
  <1>1. a \div g \in Nat /\ b \div g \in Nat
    OBVIOUS
  <1>2. (a \div g) * g <= a /\ b < (b \div g + 1) * g
    OBVIOUS
  <1>3. CASE a \div g >= b \div g + 1
    <2>1. (b \div g + 1) * g <= (a \div g) * g
      BY <1>1, <1>3, ProductGrows
    <2>2. QED
      BY <1>2, <2>1
  <1>4. QED
    BY <1>1, <1>3

\* A burst is at least one request, and no larger than the top rate's.
LEMMA BurstBounds ==
    ASSUME NEW r \in 0..TopRate
    PROVE  /\ Cost \in Nat
           /\ Burst(r) \in Nat
           /\ Cost <= Burst(r)
           /\ Burst(r) <= Burst(TopRate)
  <1>1. Cost \in Nat /\ TopRate \in Nat /\ r \in Nat /\ r <= TopRate
    BY RateAssumption DEF Cost
  <1>2. r \div Grain \in Nat /\ TopRate \div Grain \in Nat /\ r \div Grain <= TopRate \div Grain
    BY <1>1, DivMonotone, RateAssumption
  <1>3. /\ OneAtLeast(r \div Grain) \in Nat
        /\ OneAtLeast(TopRate \div Grain) \in Nat
        /\ 1 <= OneAtLeast(r \div Grain)
        /\ OneAtLeast(r \div Grain) <= OneAtLeast(TopRate \div Grain)
    BY <1>2 DEF OneAtLeast
  <1>4. 1 * Cost <= OneAtLeast(r \div Grain) * Cost
    BY <1>1, <1>3, ProductGrows
  <1>5. /\ OneAtLeast(r \div Grain) * Cost \in Nat
        /\ OneAtLeast(r \div Grain) * Cost <= OneAtLeast(TopRate \div Grain) * Cost
    BY <1>1, <1>3, ProductGrows
  <1>6. QED
    BY <1>1, <1>4, <1>5 DEF Burst

\* Facts about the constants that every step uses.
LEMMA RateConstants ==
    /\ TopRate \in Nat /\ IdleTicks \in Nat /\ Cost \in Nat
    /\ Burst(TopRate) \in Nat
    /\ Rates \cup {0} \subseteq 0..TopRate
  BY RateAssumption, BurstBounds, TopRate \in 0..TopRate

\* The relay starts with no bucket and a full budget.
LEMMA RateInitIInv == RateInit => RateIInv
  BY RateConstants DEF RateInit, RateIInv, RateTypeOK, RateKept, BucketWithinBudget

\* A call, whatever rate it is made at.
LEMMA AllowAtStep ==
    ASSUME RateIInv, NEW i \in Identities, NEW r \in Rates, AllowAt(i, r)
    PROVE  RateIInv'
  <1> DEFINE have == Held(i, r)
             spent == IF have >= Cost THEN Cost ELSE 0
  <1>1. RateTypeOK /\ RateKept /\ BucketWithinBudget
    BY DEF RateIInv
  <1>2. Burst(r) \in Nat /\ Burst(r) <= Burst(TopRate) /\ Cost \in Nat /\ Burst(TopRate) \in Nat
    BY RateConstants, BurstBounds
  <1>3. have \in Nat /\ have <= budget[i]
    BY <1>1, <1>2 DEF Held, AtMost, RateTypeOK, BucketWithinBudget
  <1>4. spent \in Nat /\ spent <= have
    BY <1>2, <1>3
  <1>5. have - spent \in Nat /\ budget[i] - spent \in Int /\ have - spent <= budget[i] - spent
        /\ budget[i] - spent >= 0 /\ budget[i] - spent <= Burst(TopRate)
    BY <1>1, <1>2, <1>3, <1>4 DEF RateTypeOK, BucketWithinBudget
  <1>6. /\ known' = known \cup {i}
        /\ tokens' = [tokens EXCEPT ![i] = have - spent]
        /\ limit' = [limit EXCEPT ![i] = r]
        /\ idle' = [idle EXCEPT ![i] = 0]
        /\ budget' = [budget EXCEPT ![i] = budget[i] - spent]
    BY DEF AllowAt
  <1> HIDE DEF have, spent
  <1>7. RateTypeOK'
    BY <1>1, <1>5, <1>6, RateConstants DEF RateTypeOK
  <1>8. 0 * TopRate = 0
    BY RateConstants
  <1>9. RateKept' /\ BucketWithinBudget'
    <2> SUFFICES ASSUME NEW k \in Identities
                 PROVE  /\ budget'[k] >= 0
                        /\ budget'[k] <= Burst(TopRate)
                        /\ k \in known' => tokens'[k] <= budget'[k]
                        /\ \/ budget'[k] = Burst(TopRate)
                           \/ k \in known' /\ budget'[k] >= idle'[k] * TopRate
      BY DEF RateKept, BucketWithinBudget
    <2>1. CASE k = i
      BY <1>1, <1>5, <1>6, <1>8, <2>1 DEF RateTypeOK
    <2>2. CASE k # i
      BY <1>1, <1>6, <2>2 DEF RateTypeOK, RateKept, BucketWithinBudget
    <2>3. QED
      BY <2>1, <2>2
  <1>10. QED
    BY <1>7, <1>9 DEF RateIInv

\* An eviction: the budget of a bucket that goes has refilled.
LEMMA EvictStep ==
    ASSUME RateIInv, evictIdle
    PROVE  RateIInv'
  <1>1. RateTypeOK /\ RateKept /\ BucketWithinBudget
    BY DEF RateIInv
  <1>2. RateTypeOK' /\ RateKept'
    BY <1>1 DEF evictIdle, RateTypeOK, RateKept
  <1>3. ASSUME NEW k \in known, idle[k] >= IdleTicks
        PROVE  budget[k] = Burst(TopRate)
    <2>1. idle[k] = IdleTicks /\ k \in Identities /\ budget[k] \in Int
      BY <1>1, <1>3, RateConstants DEF RateTypeOK
    <2>2. IdleTicks * TopRate >= Burst(TopRate) /\ IdleTicks * TopRate \in Nat
      BY RateAssumption, RateConstants
    <2>3. QED
      BY <1>1, <2>1, <2>2, RateConstants DEF BucketWithinBudget
  <1>4. BucketWithinBudget'
    BY <1>1, <1>3, RateConstants DEF evictIdle, BucketWithinBudget, RateTypeOK
  <1>5. QED
    BY <1>2, <1>4 DEF RateIInv

\* Time passing refills the budget at least as fast as the bucket.
LEMMA RateTickStep ==
    ASSUME RateIInv, RateTick
    PROVE  RateIInv'
  <1>1. RateTypeOK /\ RateKept /\ BucketWithinBudget
    BY DEF RateIInv
  <1>2. ASSUME NEW i \in Identities
        PROVE  /\ limit[i] \in Nat /\ limit[i] <= TopRate
               /\ Burst(limit[i]) \in Nat /\ Burst(limit[i]) <= Burst(TopRate)
    BY <1>1, RateConstants, BurstBounds DEF RateTypeOK
  <1>3. RateTypeOK'
    BY <1>1, <1>2, RateConstants DEF RateTick, AtMost, RateTypeOK
  <1>4. ASSUME NEW i \in Identities
        PROVE  /\ budget'[i] >= 0
               /\ budget'[i] <= Burst(TopRate)
               /\ i \in known' => tokens'[i] <= budget'[i]
               /\ \/ budget'[i] = Burst(TopRate)
                  \/ i \in known' /\ budget'[i] >= idle'[i] * TopRate
    <2>1. /\ budget[i] \in Int /\ budget[i] >= 0 /\ budget[i] <= Burst(TopRate)
          /\ tokens[i] \in Nat /\ idle[i] \in 0..IdleTicks /\ idle[i] \in Nat
          /\ i \in known => tokens[i] <= budget[i]
      BY <1>1, RateConstants DEF RateTypeOK, RateKept, BucketWithinBudget
    <2>2. /\ budget'[i] = AtMost(budget[i] + TopRate, Burst(TopRate))
          /\ idle'[i] = AtMost(idle[i] + 1, IdleTicks)
          /\ i \in known => tokens'[i] = AtMost(tokens[i] + limit[i], Burst(limit[i]))
          /\ known' = known
      BY DEF RateTick
    <2>3. budget'[i] >= 0 /\ budget'[i] <= Burst(TopRate)
      BY <2>1, <2>2, RateConstants DEF AtMost
    <2>4. i \in known' => tokens'[i] <= budget'[i]
      BY <1>2, <2>1, <2>2, RateConstants DEF AtMost
    <2>5. CASE budget[i] = Burst(TopRate)
      BY <2>1, <2>2, <2>3, <2>4, <2>5, RateConstants DEF AtMost
    <2>6. CASE i \in known /\ budget[i] >= idle[i] * TopRate
      <3>1. idle'[i] \in Nat /\ idle'[i] <= idle[i] + 1
        BY <2>1, <2>2, RateConstants DEF AtMost
      <3>2. idle'[i] * TopRate <= (idle[i] + 1) * TopRate
        BY <2>1, <3>1, ProductGrows, RateConstants
      <3>3. (idle[i] + 1) * TopRate = idle[i] * TopRate + TopRate
        BY <2>1, RateConstants
      <3>4. idle'[i] * TopRate \in Nat /\ idle[i] * TopRate \in Nat
        BY <2>1, <3>1, RateConstants
      <3>5. budget[i] + TopRate >= idle'[i] * TopRate
        BY <2>1, <2>6, <3>2, <3>3, <3>4, RateConstants
      <3>6. budget'[i] = Burst(TopRate) \/ budget'[i] >= idle'[i] * TopRate
        BY <2>2, <3>5 DEF AtMost
      <3>7. QED
        BY <2>2, <2>3, <2>4, <2>6, <3>6
    <2>7. QED
      BY <1>1, <2>5, <2>6 DEF BucketWithinBudget
  <1>5. QED
    BY <1>3, <1>4 DEF RateIInv, RateKept, BucketWithinBudget

\* Every step of the limiter keeps the invariant.
LEMMA RateNextIInv == RateIInv /\ [RateNext]_rateVars => RateIInv'
  <1> SUFFICES ASSUME RateIInv, [RateNext]_rateVars PROVE RateIInv'
    OBVIOUS
  <1>1. ASSUME NEW i \in Identities, NEW r \in Rates, AllowAt(i, r) PROVE RateIInv'
    BY <1>1, AllowAtStep
  <1>2. CASE evictIdle
    BY <1>2, EvictStep
  <1>3. CASE RateTick
    BY <1>3, RateTickStep
  <1>4. CASE UNCHANGED rateVars
    BY <1>4 DEF rateVars, RateIInv, RateTypeOK, RateKept, BucketWithinBudget
  <1>5. QED
    BY <1>1, <1>2, <1>3, <1>4 DEF RateNext

\* The rate limit holds for every behaviour: an identity never gets more than
\* its budget, through idle evictions and rate changes.
THEOREM RateLimitKept == RateSpec => [](RateTypeOK /\ RateKept)
  <1>1. RateIInv => RateTypeOK /\ RateKept
    BY DEF RateIInv
  <1>2. QED
    BY <1>1, RateInitIInv, RateNextIInv, PTL DEF RateSpec
-----------------------------------------------------------------------------
(***************************************************************************)
(* The five parts together                                                 *)
(***************************************************************************)

\* Side by side, each part behaves as it does alone: a step of one is no step of
\* another.
LEMMA PartsBehave == PartsSpec => Spec /\ AskSpec /\ ChatSpec /\ PromptSpec /\ RateSpec
  <1> DEFINE partsVars == <<focus, vars, askVars, chatVars, promptVars, rateVars>>
  <1>1. PartsInit => Init /\ AskInit /\ ChatInit /\ PromptInit /\ RateInit
    BY DEF PartsInit
  <1>2. [PartsNext]_partsVars => [Next]_vars
    BY DEF PartsNext, Admit, Ask, Chat, Prompt, Rate
  <1>3. [PartsNext]_partsVars => [AskNext]_askVars
    BY DEF PartsNext, Admit, Ask, Chat, Prompt, Rate
  <1>4. [PartsNext]_partsVars => [ChatNext]_chatVars
    BY DEF PartsNext, Admit, Ask, Chat, Prompt, Rate
  <1>5. [PartsNext]_partsVars => [PromptNext]_promptVars
    BY DEF PartsNext, Admit, Ask, Chat, Prompt, Rate
  <1>6. [PartsNext]_partsVars => [RateNext]_rateVars
    BY DEF PartsNext, Admit, Ask, Chat, Prompt, Rate
  <1>7. QED
    BY <1>1, <1>2, <1>3, <1>4, <1>5, <1>6, PTL
       DEF PartsSpec, Spec, AskSpec, ChatSpec, PromptSpec, RateSpec

\* Every part keeps its types (PartsTypeOK).
THEOREM PartsTypeCorrect == PartsSpec => []PartsTypeOK
  <1>1. TypeOK /\ AskTypeOK /\ ChatTypeOK /\ PromptTypeOK /\ RateTypeOK => PartsTypeOK
    BY DEF PartsTypeOK
  <1>2. QED
    BY <1>1, PartsBehave, AdmissionSafe, SlotsAreAccounted, ChatTypeCorrect, PromptTypeCorrect,
       RateLimitKept, PTL
=============================================================================
