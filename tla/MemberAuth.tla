----------------------------- MODULE MemberAuth -----------------------------
(***************************************************************************)
(* How the relay recognises a member: resolveIdentity of auth.go, the      *)
(* cached key set of internal/stackauth/verifier.go and the invite list.   *)
(* Requests run at the same time and the verifier's lock is not held while *)
(* a key set is fetched, so answers are applied in any order.              *)
(*                                                                         *)
(* A token is the id of the key that signed it: its signature, issuer and  *)
(* expiry are taken to be good.  The auth service (external) publishes and *)
(* withdraws keys, and cmd/memberadd edits the invite list, at any time.   *)
(***************************************************************************)
EXTENDS Naturals

CONSTANTS Callers,
          Kids,
          KidOf,        \* the key that signed each caller's token
          MinRefresh,   \* Verifier.minRefre, in ticks
          FetchTimeout, \* the timeout of Verifier.http, in ticks
          MaxChanges    \* bound on changes of the keys and of the invite list

ASSUME MemberAssumption ==
    /\ KidOf \in [Callers -> Kids]
    /\ {MinRefresh, FetchTimeout, MaxChanges} \subseteq Nat

VARIABLES published,    \* the key set the auth service answers with
          members,      \* allowed_members
          changes,      \* changes of these two so far
          keys,         \* Verifier.keys
          sinceFetched, \* ticks since Verifier.fetched, up to MinRefresh + 1
          request,      \* where each caller's request is
          answer,       \* the key set its fetch was answered with
          fetchTicks,   \* how long its fetch has been under way
          withdrawn     \* history: ticks since a key was withdrawn

memberVars ==
    <<published, members, changes, keys, sinceFetched, request, answer, fetchTicks, withdrawn>>

\* Beyond this the history cannot matter to the properties.
Long == MinRefresh + FetchTimeout + 2

Ended == {"none", "admitted", "unauthorized", "forbidden", "failed"}

MemberTypeOK ==
    /\ {published, keys} \subseteq SUBSET Kids
    /\ members \subseteq Callers
    /\ changes \in 0..MaxChanges
    /\ sinceFetched \in 0..(MinRefresh + 1)
    /\ request \in [Callers -> Ended \cup {"fetch", "answered", "applied", "verified"}]
    /\ answer \in [Callers -> SUBSET Kids]
    /\ fetchTicks \in [Callers -> 0..FetchTimeout]
    /\ withdrawn \in [Kids -> 0..Long]

\* New: no keys, fetched at the zero time.
MemberInit ==
    /\ published \in SUBSET Kids \ {{}}
    /\ members = Callers
    /\ changes = 0
    /\ keys = {}
    /\ sinceFetched = MinRefresh + 1
    /\ request = [c \in Callers |-> "none"]
    /\ answer = [c \in Callers |-> {}]
    /\ fetchTicks = [c \in Callers |-> 0]
    /\ withdrawn = [k \in Kids |-> IF k \in published THEN 0 ELSE Long]
-----------------------------------------------------------------------------
verifierVars == <<keys, sinceFetched>>

fetchVars == <<answer, fetchTicks>>

worldVars == <<published, members, changes, withdrawn>>

GoTo(c, where) == request' = [request EXCEPT ![c] = where]

\* Slip: keys are fetched once and never again.
KeyLookupOnce(c) ==
    /\ request[c] \in Ended
    /\ GoTo(c, IF KidOf[c] \in keys THEN "verified"
               ELSE IF keys = {} THEN "fetch" ELSE "unauthorized")
    /\ fetchTicks' = [fetchTicks EXCEPT ![c] = 0]
    /\ UNCHANGED <<answer, verifierVars, worldVars>>

\* A request arrives.  keyForID, under the read lock: the cached key, or a
\* refresh unless the last one is recent.
KeyLookup(c) ==
    /\ request[c] \in Ended
    /\ GoTo(c, IF KidOf[c] \in keys THEN "verified"
               ELSE IF sinceFetched > MinRefresh THEN "fetch" ELSE "unauthorized")
    /\ fetchTicks' = [fetchTicks EXCEPT ![c] = 0]
    /\ UNCHANGED <<answer, verifierVars, worldVars>>

\* The auth service answers with the keys it has at that moment (external).
ServiceAnswers(c) ==
    /\ request[c] = "fetch"
    /\ answer' = [answer EXCEPT ![c] = published]
    /\ GoTo(c, "answered")
    /\ UNCHANGED <<fetchTicks, verifierVars, worldVars>>

\* refresh fails or times out, or the set has no usable key: the cache and its
\* age stay.
RefreshFails(c) ==
    /\ request[c] \in {"fetch", "answered"}
    /\ answer' = [answer EXCEPT ![c] = {}]
    /\ GoTo(c, "unauthorized")
    /\ UNCHANGED <<fetchTicks, verifierVars, worldVars>>

\* refresh stores the whole set it got.
RefreshApplies(c) ==
    /\ request[c] = "answered"
    /\ answer[c] # {}
    /\ keys' = answer[c]
    /\ sinceFetched' = 0
    /\ answer' = [answer EXCEPT ![c] = {}]
    /\ GoTo(c, "applied")
    /\ UNCHANGED <<fetchTicks, worldVars>>

\* keyForID looks again, in another critical section.
KeyLookupAgain(c) ==
    /\ request[c] = "applied"
    /\ GoTo(c, IF KidOf[c] \in keys THEN "verified" ELSE "unauthorized")
    /\ UNCHANGED <<fetchVars, verifierVars, worldVars>>

\* IsAllowedMember; the query may fail.
CheckMember(c) ==
    /\ request[c] = "verified"
    /\ \/ GoTo(c, IF c \in members THEN "admitted" ELSE "forbidden")
       \/ GoTo(c, "failed")
    /\ UNCHANGED <<fetchVars, verifierVars, worldVars>>
-----------------------------------------------------------------------------
Change == changes < MaxChanges /\ changes' = changes + 1

\* The auth service publishes a key, or withdraws one (external).
PublishKey(k) ==
    /\ Change
    /\ k \notin published
    /\ published' = published \cup {k}
    /\ withdrawn' = [withdrawn EXCEPT ![k] = 0]
    /\ UNCHANGED <<members, request, fetchVars, verifierVars>>

WithdrawKey(k) ==
    /\ Change
    /\ published # {k}
    /\ k \in published
    /\ published' = published \ {k}
    /\ UNCHANGED <<withdrawn, members, request, fetchVars, verifierVars>>

\* memberadd invites a caller, or removes one.
EditMembers(c) ==
    /\ Change
    /\ members' = IF c \in members THEN members \ {c} ELSE members \cup {c}
    /\ UNCHANGED <<published, withdrawn, request, fetchVars, verifierVars>>

Fetching(c) == request[c] \in {"fetch", "answered"}

UpTo(n, cap) == IF n > cap THEN cap ELSE n

\* Slip: a fetch may take any time.
MemberTickNoTimeout ==
    /\ sinceFetched' = UpTo(sinceFetched + 1, MinRefresh + 1)
    /\ withdrawn' = [k \in Kids |-> IF k \in published THEN 0 ELSE UpTo(withdrawn[k] + 1, Long)]
    /\ UNCHANGED <<published, members, changes, keys, request, answer, fetchTicks>>

\* Time passes, but no fetch outlives its timeout.
MemberTick ==
    /\ \A c \in Callers : Fetching(c) => fetchTicks[c] < FetchTimeout
    /\ sinceFetched' = UpTo(sinceFetched + 1, MinRefresh + 1)
    /\ fetchTicks' = [c \in Callers |-> IF Fetching(c) THEN fetchTicks[c] + 1 ELSE 0]
    /\ withdrawn' = [k \in Kids |-> IF k \in published THEN 0 ELSE UpTo(withdrawn[k] + 1, Long)]
    /\ UNCHANGED <<published, members, changes, keys, request, answer>>

RequestStep(c) ==
    KeyLookup(c) \/ ServiceAnswers(c) \/ RefreshFails(c) \/ RefreshApplies(c) \/ KeyLookupAgain(c)
        \/ CheckMember(c)

MemberNext ==
    \/ \E c \in Callers : RequestStep(c) \/ EditMembers(c)
    \/ \E k \in Kids : PublishKey(k) \/ WithdrawKey(k)
    \/ MemberTick

MemberSpec == MemberInit /\ [][MemberNext]_memberVars

\* Callers keep asking, requests run, the clock advances; a service or database
\* that is asked again and again answers in the end.
MemberFairSpec ==
    /\ MemberSpec
    /\ WF_memberVars(MemberTick)
    /\ \A c \in Callers : /\ WF_memberVars(RequestStep(c))
                          /\ SF_memberVars(ServiceAnswers(c))
                          /\ SF_memberVars(RefreshApplies(c))
                          /\ SF_memberVars(CheckMember(c) /\ request'[c] # "failed")
-----------------------------------------------------------------------------
(***************************************************************************)
(* Properties                                                              *)
(***************************************************************************)

\* Answers overtake each other, and an older one may replace a newer one: still
\* the key set in use is never older than its age plus one fetch, so a withdrawn
\* key is not brought back later than that (verifier.go refresh).
CacheFresh ==
    sinceFetched <= MinRefresh =>
        \A k \in keys \ published : withdrawn[k] <= sinceFetched + FetchTimeout

\* What a fetch was answered with is no older than the fetch.
AnswersFresh ==
    \A c \in Callers : request[c] = "answered" =>
        \A k \in answer[c] \ published : withdrawn[k] <= fetchTicks[c]

\* The inductive invariant behind CacheFresh: a key is withdrawn since it was
\* last published, and neither the cache nor an answer to come is too old.
MemberIInv ==
    /\ MemberTypeOK
    /\ \A k \in published : withdrawn[k] = 0
    /\ AnswersFresh
    /\ CacheFresh

\* A member whose key stays published is let in again and again, whatever was
\* cached, overwritten or failed before (verifier.go: "refreshes it on an
\* unknown key id").
CurrentTokenAdmitted ==
    \A c \in Callers :
        <>[](KidOf[c] \in published /\ c \in members) => []<>(request[c] = "admitted")
=============================================================================
