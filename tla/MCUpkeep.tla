------------------------------ MODULE MCUpkeep ------------------------------
(***************************************************************************)
(* Two parts of the relay that must keep going: the TTL sweeper and the    *)
(* recognition of members.  They share no state; a behaviour picks one of  *)
(* them, `focus`, and the other stands still.                              *)
(***************************************************************************)
EXTENDS TtlSweeper, MemberAuth, TLC

CONSTANTS c1, c2, k1, k2

VARIABLE focus

MCKidOf == c1 :> k1 @@ c2 :> k2

upkeepVars == <<focus, ttlVars, memberVars>>

UpkeepInit ==
    /\ focus \in {"ttl", "members"}
    /\ TtlInit /\ MemberInit
    /\ focus = "ttl" => published = Kids

Sweeping(A) == focus = "ttl" /\ A /\ UNCHANGED <<focus, memberVars>>

Asking(A) == focus = "members" /\ A /\ UNCHANGED <<focus, ttlVars>>

UpkeepNext == Sweeping(TtlNext) \/ Asking(MemberNext)

\* The fairness of TtlFairSpec and of MemberFairSpec.
UpkeepSpec ==
    /\ UpkeepInit
    /\ [][UpkeepNext]_upkeepVars
    /\ \A j \in Jobs : WF_upkeepVars(Sweeping(AckStep(j)))
    /\ WF_upkeepVars(Sweeping(SweepStep))
    /\ SF_upkeepVars(Sweeping(PurgeExpired /\ sweeper' = "lookup"))
    /\ WF_upkeepVars(Sweeping(ClockTick))
    /\ WF_upkeepVars(Asking(MemberTick))
    /\ \A c \in Callers : /\ WF_upkeepVars(Asking(RequestStep(c)))
                          /\ SF_upkeepVars(Asking(ServiceAnswers(c)))
                          /\ SF_upkeepVars(Asking(RefreshApplies(c)))
                          /\ SF_upkeepVars(Asking(CheckMember(c) /\ request'[c] # "failed"))

\* Both parts' type invariants.
UpkeepTypeOK == TtlTypeOK /\ MemberTypeOK

\* CurrentTokenAdmitted of MemberAuth, in the behaviours that exercise it: a member
\* whose key stays published is let in again and again.
MemberIsAdmitted == focus = "members" => CurrentTokenAdmitted
=============================================================================
