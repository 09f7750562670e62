---------------------------- MODULE MCStreaming ----------------------------
(* A request of any kind beside a stream. *)
EXTENDS Streaming

MCRequests == {1, 2}

Of(what) == [what |-> what, format |-> FALSE]

MCKinds ==
    << {Of("stream"), [Of("stream") EXCEPT !.format = TRUE],
        Of("toolStream"), Of("tools"), Of("describe")},
       {Of("stream")} >>
=============================================================================
