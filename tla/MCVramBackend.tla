--------------------------- MODULE MCVramBackend ---------------------------
(***************************************************************************)
(* Two tiers, the smaller one with vision, and readings that let nothing,  *)
(* the small or the large tier fit.  Loaded strong (resident 4200) misfits *)
(* at 2000, above the pressure floor, and at 100, below it.                *)
(***************************************************************************)
EXTENDS VramBackend, TLC

MCRoster ==
    << [TierLabel |-> "weak",
        spec |-> [RequiredVRAMMB |-> 1000, KVCacheMB |-> 0, KVFixedMB |-> 200,
                  KVOverheadMB |-> 0, HasVision |-> TRUE,
                  VisionRequiredVRAMMB |-> 1000, VisionKVCacheMB |-> 0,
                  VisionKVFixedMB |-> 200, TotalLayers |-> 1]],
       [TierLabel |-> "strong",
        spec |-> [RequiredVRAMMB |-> 4000, KVCacheMB |-> 0, KVFixedMB |-> 200,
                  KVOverheadMB |-> 0, HasVision |-> FALSE,
                  VisionRequiredVRAMMB |-> 0, VisionKVCacheMB |-> 0,
                  VisionKVFixedMB |-> 0, TotalLayers |-> 1]] >>

Plain == NoKind
Image == [NoKind EXCEPT !.vision = TRUE]
ImageChat == [Image EXCEPT !.chat = TRUE]
Pinned(t) == [NoKind EXCEPT !.pin = t]

MCAllKinds ==
    { ImageChat, [Image EXCEPT !.pin = 2], Pinned(2),
      [Plain EXCEPT !.floor = TRUE],
      [Plain EXCEPT !.floor = TRUE, !.min = "strong"],
      [Plain EXCEPT !.stream = TRUE, !.chat = TRUE] }

MCTextAndImage == {Plain, Image}

MCPlain == {Plain}

MCPinnedWeak == {Pinned(1), Image}

MCReadings == {100, 2000, 6500}

MCPlenty == {6500}

Interchangeable == Permutations(Requests)

MCActors == Requests \cup Tokenizers \cup {Evictor}
=============================================================================
