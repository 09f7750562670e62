------------------------------ MODULE MCParts ------------------------------
(***************************************************************************)
(* Five parts that share no state, checked together: a behaviour picks one *)
(* of them, `focus`, and the others stand still.                           *)
(*                                                                         *)
(* Admission is on the default roster of cmd/server/main.go and an 8 GB    *)
(* card, with what other programs hold in steps of ExternalStepMB.  In     *)
(* AppsAsk one visitor asks every question.                                *)
(***************************************************************************)
EXTENDS Admission, AppsAsk, ChatStore, PromptPath, RateLimit, TLC

CONSTANT ExternalStepMB

VARIABLE focus

MCRoster ==
    << [TierLabel |-> "weak",
        spec |-> [RequiredVRAMMB |-> 1568, KVCacheMB |-> 40, KVFixedMB |-> 182,
                  KVOverheadMB |-> 0, HasVision |-> TRUE,
                  VisionRequiredVRAMMB |-> 1568, VisionKVCacheMB |-> 40,
                  VisionKVFixedMB |-> 982, TotalLayers |-> 30]],
       [TierLabel |-> "mid",
        spec |-> [RequiredVRAMMB |-> 2963, KVCacheMB |-> 450, KVFixedMB |-> 250,
                  KVOverheadMB |-> 0, HasVision |-> FALSE,
                  VisionRequiredVRAMMB |-> 0, VisionKVCacheMB |-> 0,
                  VisionKVFixedMB |-> 0, TotalLayers |-> 30]],
       [TierLabel |-> "strong",
        spec |-> [RequiredVRAMMB |-> 4747, KVCacheMB |-> 580, KVFixedMB |-> 320,
                  KVOverheadMB |-> 0, HasVision |-> FALSE,
                  VisionRequiredVRAMMB |-> 0, VisionKVCacheMB |-> 0,
                  VisionKVFixedMB |-> 0, TotalLayers |-> 34]] >>

MCExternalLevels == {ExternalStepMB * i : i \in 0..(TotalMB \div ExternalStepMB)}

MCVisitorOf == [q \in Questions |-> CHOOSE v \in Visitors : TRUE]

Interchangeable == Permutations(Questions)

\* Parts that are not in focus start, and stay, in one of their initial states.
PartsInit ==
    /\ focus \in {"admission", "ask", "chats", "prompts", "rates"}
    /\ Init /\ AskInit /\ ChatInit /\ PromptInit /\ RateInit
    /\ focus # "admission" => external = 0
    /\ focus # "ask" => fallback

Admit ==
    /\ focus = "admission" /\ Next
    /\ UNCHANGED <<focus, askVars, chatVars, promptVars, rateVars>>

Ask ==
    /\ focus = "ask" /\ AskNext
    /\ UNCHANGED <<focus, vars, chatVars, promptVars, rateVars>>

Chat ==
    /\ focus = "chats" /\ ChatNext
    /\ UNCHANGED <<focus, vars, askVars, promptVars, rateVars>>

Prompt ==
    /\ focus = "prompts" /\ PromptNext
    /\ UNCHANGED <<focus, vars, askVars, chatVars, rateVars>>

Rate ==
    /\ focus = "rates" /\ RateNext
    /\ UNCHANGED <<focus, vars, askVars, chatVars, promptVars>>

PartsNext == Admit \/ Ask \/ Chat \/ Prompt \/ Rate

PartsSpec ==
    PartsInit /\ [][PartsNext]_<<focus, vars, askVars, chatVars, promptVars, rateVars>>

\* Every part's type invariant.
PartsTypeOK == TypeOK /\ AskTypeOK /\ ChatTypeOK /\ PromptTypeOK /\ RateTypeOK
=============================================================================
