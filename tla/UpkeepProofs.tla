---------------------------- MODULE UpkeepProofs ----------------------------
(***************************************************************************)
(* What keeps going on the relay, for every value of the constants: the    *)
(* in-memory tracker of the TTL sweeper never loses a finished row, and    *)
(* the key set that recognises members is never older than it may be.      *)
(***************************************************************************)
EXTENDS MCUpkeep, TLAPS

\* Recording a time loses neither the noted one nor the new one.
LEMMA OlderCovers ==
    ASSUME NEW a \in Ages \cup {Unset}, NEW b \in Ages \cup {Unset}
    PROVE  /\ Older(a, b) \in Ages \cup {Unset}
           /\ Older(a, b) >= a
           /\ Older(a, b) >= b
  BY TTLAssumption DEF Older, Ages, Unset

\* Time passing keeps the order of two finish times.
LEMMA AgedMonotone ==
    ASSUME NEW a \in Ages \cup {Unset}, NEW b \in Ages
    PROVE  /\ Aged(b) \in Ages
           /\ a >= b => Aged(a) >= Aged(b)
  BY TTLAssumption DEF Aged, Ages, Unset

\* Time passing makes no finish time younger.
LEMMA AgedGrows ==
    ASSUME NEW a \in Ages \cup {Unset}
    PROVE  Aged(a) \in Ages \cup {Unset} /\ Aged(a) >= a
  BY TTLAssumption DEF Aged, Ages, Unset

\* The relay starts with an empty tracker and a startup check ahead of it.
LEMMA TtlInitIInv == TtlInit => TtlIInv
  BY TTLAssumption DEF TtlInit, TtlIInv, TtlTypeOK, Tracked, DueWhenPurging, Ages, Unset

\* Every step keeps the types.
LEMMA TtlTypeStep == TtlTypeOK /\ [TtlNext]_ttlVars => TtlTypeOK'
  <1> SUFFICES ASSUME TtlTypeOK, [TtlNext]_ttlVars PROVE TtlTypeOK'
    OBVIOUS
  <1>1. DueNow \in Ages /\ 0 \in Ages /\ Ages \subseteq Int
    BY TTLAssumption DEF DueNow, Ages
  <1>2. ASSUME NEW j \in Jobs, AckStamp(j) PROVE TtlTypeOK'
    BY <1>1, <1>2 DEF AckStamp, TtlTypeOK
  <1>3. ASSUME NEW j \in Jobs, AckUpdate(j) PROVE TtlTypeOK'
    BY <1>3 DEF AckUpdate, TtlTypeOK
  <1>4. ASSUME NEW j \in Jobs, AckRecord(j) PROVE TtlTypeOK'
    <2>1. tracker' \in Ages \cup {Unset}
      BY <1>4, OlderCovers DEF AckRecord, record, TtlTypeOK
    <2>2. QED
      BY <1>4, <2>1 DEF AckRecord, TtlTypeOK
  <1>5. CASE StartupLookup \/ SweepLookup
    <2>1. tracker' \in Ages \cup {Unset}
      BY <1>1, <1>5, OlderCovers DEF StartupLookup, SweepLookup, Lookup, record, TtlTypeOK
    <2>2. QED
      BY <1>5, <2>1 DEF StartupLookup, SweepLookup, Lookup, TtlTypeOK
  <1>6. CASE RecordFound
    <2>1. tracker' \in Ages \cup {Unset}
      BY <1>6, OlderCovers DEF RecordFound, record, TtlTypeOK
    <2>2. QED
      BY <1>6, <2>1 DEF RecordFound, TtlTypeOK
  <1>7. CASE SweepPeek
    BY <1>7 DEF SweepPeek, TtlTypeOK
  <1>8. CASE SweepTake
    BY <1>8 DEF SweepTake, TtlTypeOK
  <1>9. CASE PurgeExpired
    <2>1. tracker' \in Ages \cup {Unset}
      BY <1>9, OlderCovers DEF PurgeExpired, record, TtlTypeOK
    <2>2. QED
      BY <1>9, <2>1 DEF PurgeExpired, TtlTypeOK
  <1>10. CASE ClockTick
    <2>1. \A j \in Jobs : age'[j] \in Ages
      BY <1>10, AgedMonotone DEF ClockTick, TtlTypeOK
    <2>2. tracker' \in Ages \cup {Unset} /\ oldest' \in Ages \cup {Unset}
      BY <1>10, AgedGrows DEF ClockTick, TtlTypeOK
    <2>3. QED
      BY <1>10, <2>1, <2>2 DEF ClockTick, TtlTypeOK
  <1>11. CASE Restart
    BY <1>11, TTLAssumption DEF Restart, TtlTypeOK
  <1>12. CASE UNCHANGED ttlVars
    BY <1>12 DEF ttlVars, TtlTypeOK
  <1>13. QED
    BY <1>2, <1>3, <1>4, <1>5, <1>6, <1>7, <1>8, <1>9, <1>10, <1>11, <1>12
       DEF TtlNext, AckStep, SweepStep

\* Every step keeps finished rows covered, and a purge begins only when due.
LEMMA TrackedStep ==
    ASSUME TtlIInv, [TtlNext]_ttlVars
    PROVE  Tracked' /\ DueWhenPurging'
  <1>1. TtlTypeOK /\ Tracked /\ DueWhenPurging /\ TtlTypeOK'
    BY TtlTypeStep DEF TtlIInv
  <1>2. DueNow \in Ages /\ DueNow >= TTL
    BY TTLAssumption DEF DueNow, Ages
  <1>3. ASSUME NEW j \in Jobs, AckStamp(j) PROVE Tracked' /\ DueWhenPurging'
    BY <1>1, <1>3 DEF AckStamp, Tracked, DueWhenPurging, TtlTypeOK, Covers
  <1>4. ASSUME NEW j \in Jobs, AckUpdate(j) PROVE Tracked' /\ DueWhenPurging'
    BY <1>1, <1>4 DEF AckUpdate, Tracked, DueWhenPurging, TtlTypeOK, Covers
  <1>5. ASSUME NEW j \in Jobs, AckRecord(j) PROVE Tracked' /\ DueWhenPurging'
    <2>1. tracker' >= tracker /\ tracker' >= age[j]
      BY <1>1, <1>5, OlderCovers DEF AckRecord, record, TtlTypeOK
    <2>2. QED
      BY <1>1, <1>5, <2>1, TTLAssumption
         DEF AckRecord, Tracked, DueWhenPurging, TtlTypeOK, Covers, Ages, Unset
  <1>6. CASE StartupLookup \/ SweepLookup
    <2>1. CASE DBMayFail /\ record(DueNow) /\ sweeper' = "tick"
      <3>1. tracker' >= TTL
        BY <1>1, <1>2, <2>1, OlderCovers, TTLAssumption DEF record, TtlTypeOK, Ages, Unset
      <3>2. QED
        BY <2>1, <3>1 DEF Tracked, DueWhenPurging, Covers
    <2>2. CASE OldestFinishedAt(oldest') /\ sweeper' \in {"startupFound", "found"}
               /\ UNCHANGED <<row, age>>
      <3>1. ASSUME NEW k \in Jobs, row'[k] = "finished" PROVE age'[k] <= oldest'
        BY <2>2, <3>1 DEF OldestFinishedAt, Finished
      <3>2. ASSUME NEW k \in Jobs, row'[k] = "finished" PROVE oldest' >= age'[k]
        BY <1>1, <3>1, <3>2 DEF TtlTypeOK, Ages, Unset
      <3>3. QED
        BY <2>2, <3>2 DEF Tracked, DueWhenPurging, Covers
    <2>3. QED
      BY <1>6, <2>1, <2>2 DEF StartupLookup, SweepLookup, Lookup
  <1>7. CASE RecordFound
    <2>1. tracker' >= tracker /\ tracker' >= oldest
      BY <1>1, <1>7, OlderCovers DEF RecordFound, record, TtlTypeOK
    <2>2. QED
      BY <1>1, <1>7, <2>1, TTLAssumption
         DEF RecordFound, Tracked, DueWhenPurging, TtlTypeOK, Covers, Ages, Unset
  <1>8. CASE SweepPeek
    BY <1>1, <1>8 DEF SweepPeek, Tracked, DueWhenPurging, Covers
  <1>9. CASE SweepTake
    BY <1>1, <1>9 DEF SweepTake, Tracked, DueWhenPurging
  <1>10. CASE PurgeExpired
    <2>1. CASE sweeper' = "lookup"
      BY <2>1 DEF Tracked, DueWhenPurging
    <2>2. CASE DBMayFail /\ record(oldest) /\ sweeper' = "tick"
      <3>1. oldest >= TTL
        BY <1>1, <1>10 DEF PurgeExpired, DueWhenPurging
      <3>2. tracker' >= TTL
        BY <1>1, <2>2, <3>1, OlderCovers, TTLAssumption DEF record, TtlTypeOK, Ages, Unset
      <3>3. QED
        BY <2>2, <3>2 DEF Tracked, DueWhenPurging, Covers
    <2>3. QED
      BY <1>10, <2>1, <2>2 DEF PurgeExpired
  <1>11. CASE ClockTick
    <2>1. tracker' >= tracker /\ oldest' >= oldest
      BY <1>1, <1>11, AgedGrows DEF ClockTick, TtlTypeOK
    <2>2. ASSUME NEW k \in Jobs
          PROVE  /\ tracker >= age[k] => tracker' >= age'[k]
                 /\ oldest >= age[k] => oldest' >= age'[k]
      BY <1>1, <1>11, AgedMonotone DEF ClockTick, TtlTypeOK
    <2>3. /\ tracker \in Int /\ tracker' \in Int /\ oldest \in Int /\ oldest' \in Int
          /\ TTL \in Int
          /\ \A k \in Jobs : age[k] \in Int /\ age'[k] \in Int
          /\ row' = row /\ ack' = ack /\ sweeper' = sweeper
      BY <1>1, <1>11, TTLAssumption DEF ClockTick, TtlTypeOK, Ages, Unset
    <2>4. DueWhenPurging'
      BY <1>1, <2>1, <2>3 DEF DueWhenPurging
    <2>5. ASSUME NEW k \in Jobs PROVE Covers(tracker, k) => Covers(tracker, k)'
      BY <2>1, <2>2, <2>3 DEF Covers
    <2>6. ASSUME NEW k \in Jobs PROVE Covers(oldest, k) => Covers(oldest, k)'
      BY <2>1, <2>2, <2>3 DEF Covers
    <2>7. Tracked'
      BY <1>1, <2>3, <2>5, <2>6 DEF Tracked
    <2>8. QED
      BY <2>4, <2>7
  <1>12. CASE Restart
    BY <1>12 DEF Restart, Tracked, DueWhenPurging
  <1>13. CASE UNCHANGED ttlVars
    BY <1>1, <1>13 DEF ttlVars, Tracked, DueWhenPurging, Covers
  <1>14. QED
    BY <1>3, <1>4, <1>5, <1>6, <1>7, <1>8, <1>9, <1>10, <1>11, <1>12, <1>13
       DEF TtlNext, AckStep, SweepStep

\* No finished row is forgotten by the sweeper, for any set of jobs, any TTL and
\* any restarts and query failures; a row whose UPDATE committed with an error is
\* the exception Tracked names.
THEOREM NothingForgotten == TtlSpec => []Tracked
  <1>1. TtlIInv /\ [TtlNext]_ttlVars => TtlIInv'
    BY TtlTypeStep, TrackedStep DEF TtlIInv
  <1>2. TtlIInv => Tracked
    BY DEF TtlIInv
  <1>3. QED
    BY <1>1, <1>2, TtlInitIInv, PTL DEF TtlSpec
-----------------------------------------------------------------------------
\* The types and the sums of the clocks of MemberAuth.
LEMMA MemberNumbers ==
    /\ MinRefresh \in Nat /\ FetchTimeout \in Nat /\ MaxChanges \in Nat
    /\ Long \in Nat
  BY MemberAssumption DEF Long

\* A capped counter stays within its cap and never runs ahead of the clock.
LEMMA UpToBounds ==
    ASSUME NEW n \in Nat, NEW cap \in Nat
    PROVE  UpTo(n + 1, cap) \in 0..cap /\ UpTo(n + 1, cap) <= n + 1
  BY DEF UpTo

\* A relay that has just started has no keys and no answers.
LEMMA MemberInitIInv == MemberInit => MemberIInv
  <1> SUFFICES ASSUME MemberInit PROVE MemberIInv
    OBVIOUS
  <1>1. MemberTypeOK
    BY MemberNumbers DEF MemberInit, MemberTypeOK, Ended
  <1>2. \A k \in published : withdrawn[k] = 0
    BY DEF MemberInit
  <1>3. AnswersFresh /\ CacheFresh
    BY DEF MemberInit, AnswersFresh, CacheFresh
  <1>4. QED
    BY <1>1, <1>2, <1>3 DEF MemberIInv

\* Where a request goes keeps the invariant, if neither the cache nor the world
\* changes and only a request that has just been answered has an answer.
LEMMA RequestMoves ==
    ASSUME MemberIInv, NEW c \in Callers,
           NEW where \in Ended \cup {"fetch", "answered", "applied", "verified"},
           GoTo(c, where),
           answer' \in [Callers -> SUBSET Kids],
           fetchTicks' \in [Callers -> 0..FetchTimeout],
           \A d \in Callers \ {c} : answer'[d] = answer[d] /\ fetchTicks'[d] = fetchTicks[d],
           where = "answered" => answer'[c] \subseteq published,
           UNCHANGED <<published, members, changes, withdrawn, keys, sinceFetched>>
    PROVE  MemberIInv'
  <1>1. /\ MemberTypeOK /\ AnswersFresh /\ CacheFresh
        /\ \A k \in published : withdrawn[k] = 0
    BY DEF MemberIInv
  <1>2. MemberTypeOK'
    BY <1>1 DEF MemberTypeOK, GoTo
  <1>3. /\ request'[c] = where
        /\ \A d \in Callers \ {c} : request'[d] = request[d]
    BY <1>1 DEF MemberTypeOK, GoTo
  <1>4. AnswersFresh'
    BY <1>1, <1>3 DEF AnswersFresh
  <1>5. CacheFresh'
    BY <1>1 DEF CacheFresh
  <1>6. QED
    BY <1>1, <1>2, <1>4, <1>5 DEF MemberIInv

\* An answer is stored: it is no older than the fetch that asked for it.
LEMMA ApplyKeeps ==
    ASSUME MemberIInv, NEW c \in Callers, RefreshApplies(c)
    PROVE  MemberIInv'
  <1>1. /\ MemberTypeOK /\ AnswersFresh /\ CacheFresh
        /\ \A k \in published : withdrawn[k] = 0
    BY DEF MemberIInv
  <1>2. /\ request[c] = "answered" /\ keys' = answer[c] /\ sinceFetched' = 0
        /\ answer' = [answer EXCEPT ![c] = {}] /\ request' = [request EXCEPT ![c] = "applied"]
        /\ UNCHANGED <<fetchTicks, published, members, changes, withdrawn>>
    BY DEF RefreshApplies, GoTo, worldVars
  <1>3. MemberTypeOK'
    <2>1. sinceFetched' \in 0..(MinRefresh + 1)
      BY <1>2, MemberNumbers
    <2>2. QED
      BY <1>1, <1>2, <2>1 DEF MemberTypeOK
  <1>4. AnswersFresh'
    BY <1>1, <1>2 DEF AnswersFresh, MemberTypeOK
  <1>5. CacheFresh'
    <2>1. \A k \in answer[c] \ published : withdrawn[k] <= fetchTicks[c] /\ k \in Kids
      BY <1>1, <1>2 DEF AnswersFresh, MemberTypeOK
    <2>2. fetchTicks[c] \in Nat /\ fetchTicks[c] <= FetchTimeout
      BY <1>1, MemberNumbers DEF MemberTypeOK
    <2>3. \A k \in Kids : withdrawn[k] \in Nat
      BY <1>1, MemberNumbers DEF MemberTypeOK
    <2>4. QED
      BY <1>2, <2>1, <2>2, <2>3, MemberNumbers DEF CacheFresh
  <1>6. QED
    BY <1>1, <1>2, <1>3, <1>4, <1>5 DEF MemberIInv

\* The auth service publishes or withdraws a key, or memberadd edits the list: a
\* key that is withdrawn now was published until now.
LEMMA WorldKeeps ==
    ASSUME MemberIInv,
           \/ \E k \in Kids : PublishKey(k) \/ WithdrawKey(k)
           \/ \E c \in Callers : EditMembers(c)
    PROVE  MemberIInv'
  <1>1. /\ MemberTypeOK /\ AnswersFresh /\ CacheFresh
        /\ \A k \in published : withdrawn[k] = 0
    BY DEF MemberIInv
  <1>2. /\ changes' \in 0..MaxChanges
        /\ UNCHANGED <<request, answer, fetchTicks, keys, sinceFetched>>
    BY <1>1, MemberNumbers
    DEF PublishKey, WithdrawKey, EditMembers, Change, MemberTypeOK, fetchVars, verifierVars
  <1>3. /\ published' \subseteq Kids /\ members' \subseteq Callers
        /\ withdrawn' \in [Kids -> 0..Long]
    BY <1>1, MemberNumbers DEF PublishKey, WithdrawKey, EditMembers, MemberTypeOK
  <1>4. \A k \in Kids : /\ k \in published' => withdrawn'[k] = 0
                        /\ k \notin published' => \/ withdrawn'[k] = 0
                                                  \/ k \notin published /\ withdrawn'[k] = withdrawn[k]
    BY <1>1 DEF PublishKey, WithdrawKey, EditMembers, MemberTypeOK
  <1>5. MemberTypeOK'
    BY <1>1, <1>2, <1>3 DEF MemberTypeOK
  <1>6. AnswersFresh'
    <2> SUFFICES ASSUME NEW c \in Callers, request[c] = "answered",
                        NEW k \in answer[c], k \notin published'
                 PROVE  withdrawn'[k] <= fetchTicks[c]
      BY <1>2 DEF AnswersFresh
    <2>1. k \in Kids /\ fetchTicks[c] \in Nat
      BY <1>1, MemberNumbers DEF MemberTypeOK
    <2>2. QED
      BY <1>1, <1>4, <2>1 DEF AnswersFresh
  <1>7. CacheFresh'
    <2> SUFFICES ASSUME sinceFetched <= MinRefresh, NEW k \in keys, k \notin published'
                 PROVE  withdrawn'[k] <= sinceFetched + FetchTimeout
      BY <1>2 DEF CacheFresh
    <2>1. k \in Kids /\ sinceFetched \in Nat
      BY <1>1, MemberNumbers DEF MemberTypeOK
    <2>2. QED
      BY <1>1, <1>4, <2>1, MemberNumbers DEF CacheFresh
  <1>8. QED
    BY <1>3, <1>4, <1>5, <1>6, <1>7 DEF MemberIInv

\* Time passes for the cache, the fetches and the withdrawn keys alike.
LEMMA MemberTickKeeps ==
    ASSUME MemberIInv, MemberTick
    PROVE  MemberIInv'
  <1>1. /\ MemberTypeOK /\ AnswersFresh /\ CacheFresh
        /\ \A k \in published : withdrawn[k] = 0
    BY DEF MemberIInv
  <1>2. /\ \A c \in Callers : Fetching(c) => fetchTicks[c] < FetchTimeout
        /\ sinceFetched' = UpTo(sinceFetched + 1, MinRefresh + 1)
        /\ fetchTicks' = [c \in Callers |-> IF Fetching(c) THEN fetchTicks[c] + 1 ELSE 0]
        /\ withdrawn' = [k \in Kids |-> IF k \in published THEN 0
                                        ELSE UpTo(withdrawn[k] + 1, Long)]
        /\ UNCHANGED <<published, members, changes, keys, request, answer>>
    BY DEF MemberTick
  <1>3. \A k \in Kids : /\ withdrawn[k] \in Nat
                        /\ withdrawn'[k] \in 0..Long
                        /\ withdrawn'[k] <= withdrawn[k] + 1
                        /\ k \in published => withdrawn'[k] = 0
    <2> SUFFICES ASSUME NEW k \in Kids
                 PROVE  /\ withdrawn[k] \in Nat
                        /\ withdrawn'[k] \in 0..Long
                        /\ withdrawn'[k] <= withdrawn[k] + 1
                        /\ k \in published => withdrawn'[k] = 0
      OBVIOUS
    <2>1. withdrawn[k] \in Nat /\ withdrawn'[k] = IF k \in published THEN 0
                                                  ELSE UpTo(withdrawn[k] + 1, Long)
      BY <1>1, <1>2, MemberNumbers DEF MemberTypeOK
    <2>2. /\ UpTo(withdrawn[k] + 1, Long) \in 0..Long
          /\ UpTo(withdrawn[k] + 1, Long) <= withdrawn[k] + 1
      BY <2>1, UpToBounds, MemberNumbers
    <2>3. QED
      BY <2>1, <2>2, MemberNumbers
  <1>4. /\ sinceFetched \in Nat
        /\ sinceFetched' \in 0..(MinRefresh + 1)
        /\ sinceFetched' <= MinRefresh => sinceFetched' = sinceFetched + 1
    BY <1>1, <1>2, MemberNumbers DEF MemberTypeOK, UpTo
  <1>5. fetchTicks' \in [Callers -> 0..FetchTimeout]
    BY <1>1, <1>2, MemberNumbers DEF MemberTypeOK
  <1>6. MemberTypeOK'
    <2>1. withdrawn' \in [Kids -> 0..Long]
      BY <1>2, <1>3
    <2>2. QED
      BY <1>1, <1>2, <1>4, <1>5, <2>1 DEF MemberTypeOK
  <1>7. AnswersFresh'
    <2> SUFFICES ASSUME NEW c \in Callers, request[c] = "answered",
                        NEW k \in answer[c], k \notin published
                 PROVE  withdrawn'[k] <= fetchTicks'[c]
      BY <1>2 DEF AnswersFresh
    <2>1. k \in Kids /\ fetchTicks[c] \in Nat /\ withdrawn[k] <= fetchTicks[c]
      BY <1>1, MemberNumbers DEF MemberTypeOK, AnswersFresh
    <2>2. fetchTicks'[c] = fetchTicks[c] + 1
      BY <1>2 DEF Fetching
    <2>3. QED
      BY <1>3, <2>1, <2>2, MemberNumbers
  <1>8. CacheFresh'
    <2> SUFFICES ASSUME sinceFetched' <= MinRefresh, NEW k \in keys, k \notin published
                 PROVE  withdrawn'[k] <= sinceFetched' + FetchTimeout
      BY <1>2 DEF CacheFresh
    <2>1. k \in Kids /\ sinceFetched <= MinRefresh
      BY <1>1, <1>4, MemberNumbers DEF MemberTypeOK
    <2>2. withdrawn[k] <= sinceFetched + FetchTimeout
      BY <1>1, <2>1 DEF CacheFresh
    <2>3. QED
      BY <1>3, <1>4, <2>1, <2>2, MemberNumbers
  <1>9. \A k \in published' : withdrawn'[k] = 0
    BY <1>1, <1>2, <1>3 DEF MemberTypeOK
  <1>10. QED
    BY <1>6, <1>7, <1>8, <1>9 DEF MemberIInv

\* Every step of a request, the world or the clock keeps the invariant.
LEMMA MemberNextIInv == MemberIInv /\ [MemberNext]_memberVars => MemberIInv'
  <1> SUFFICES ASSUME MemberIInv, [MemberNext]_memberVars PROVE MemberIInv'
    OBVIOUS
  <1>1. MemberTypeOK
    BY DEF MemberIInv
  <1>2. ASSUME NEW c \in Callers, KeyLookup(c) PROVE MemberIInv'
    <2> DEFINE where == IF KidOf[c] \in keys THEN "verified"
                        ELSE IF sinceFetched > MinRefresh THEN "fetch" ELSE "unauthorized"
    <2>1. where \in Ended \cup {"fetch", "answered", "applied", "verified"} /\ where # "answered"
      BY DEF Ended
    <2>2. GoTo(c, where)
      BY <1>2 DEF KeyLookup
    <2>3. /\ answer' = answer /\ fetchTicks' = [fetchTicks EXCEPT ![c] = 0]
          /\ UNCHANGED <<published, members, changes, withdrawn, keys, sinceFetched>>
      BY <1>2 DEF KeyLookup, verifierVars, worldVars
    <2>4. /\ answer' \in [Callers -> SUBSET Kids] /\ fetchTicks' \in [Callers -> 0..FetchTimeout]
          /\ \A d \in Callers \ {c} : answer'[d] = answer[d] /\ fetchTicks'[d] = fetchTicks[d]
      BY <1>1, <2>3, MemberNumbers DEF MemberTypeOK
    <2> HIDE DEF where
    <2>5. QED
      BY <2>1, <2>2, <2>3, <2>4, RequestMoves
  <1>3. ASSUME NEW c \in Callers, ServiceAnswers(c) PROVE MemberIInv'
    <2>1. /\ answer' = [answer EXCEPT ![c] = published] /\ GoTo(c, "answered")
          /\ fetchTicks' = fetchTicks
          /\ UNCHANGED <<published, members, changes, withdrawn, keys, sinceFetched>>
      BY <1>3 DEF ServiceAnswers, verifierVars, worldVars
    <2>2. /\ answer' \in [Callers -> SUBSET Kids] /\ fetchTicks' \in [Callers -> 0..FetchTimeout]
          /\ \A d \in Callers \ {c} : answer'[d] = answer[d] /\ fetchTicks'[d] = fetchTicks[d]
          /\ answer'[c] \subseteq published
      BY <1>1, <2>1 DEF MemberTypeOK
    <2>3. QED
      BY <2>1, <2>2, RequestMoves
  <1>4. ASSUME NEW c \in Callers, RefreshFails(c) PROVE MemberIInv'
    <2>1. /\ answer' = [answer EXCEPT ![c] = {}] /\ GoTo(c, "unauthorized")
          /\ fetchTicks' = fetchTicks
          /\ UNCHANGED <<published, members, changes, withdrawn, keys, sinceFetched>>
      BY <1>4 DEF RefreshFails, verifierVars, worldVars
    <2>2. /\ answer' \in [Callers -> SUBSET Kids] /\ fetchTicks' \in [Callers -> 0..FetchTimeout]
          /\ \A d \in Callers \ {c} : answer'[d] = answer[d] /\ fetchTicks'[d] = fetchTicks[d]
      BY <1>1, <2>1 DEF MemberTypeOK
    <2>3. "unauthorized" \in Ended
      BY DEF Ended
    <2>4. QED
      BY <2>1, <2>2, <2>3, RequestMoves
  <1>5. ASSUME NEW c \in Callers, KeyLookupAgain(c) \/ CheckMember(c) PROVE MemberIInv'
    <2>1. /\ \E where \in Ended \cup {"verified"} : GoTo(c, where)
          /\ UNCHANGED <<answer, fetchTicks, published, members, changes, withdrawn,
                         keys, sinceFetched>>
      BY <1>5 DEF KeyLookupAgain, CheckMember, Ended, fetchVars, verifierVars, worldVars
    <2>2. PICK where \in Ended \cup {"verified"} : GoTo(c, where)
      BY <2>1
    <2>3. /\ where \in Ended \cup {"fetch", "answered", "applied", "verified"}
          /\ where # "answered"
      BY DEF Ended
    <2>4. answer' \in [Callers -> SUBSET Kids] /\ fetchTicks' \in [Callers -> 0..FetchTimeout]
      BY <1>1, <2>1 DEF MemberTypeOK
    <2>5. QED
      BY <2>1, <2>2, <2>3, <2>4, RequestMoves
  <1>6. CASE UNCHANGED memberVars
    BY <1>6 DEF memberVars, MemberIInv, MemberTypeOK, AnswersFresh, CacheFresh
  <1>7. QED
    BY <1>2, <1>3, <1>4, <1>5, <1>6, ApplyKeeps, WorldKeeps, MemberTickKeeps
    DEF MemberNext, RequestStep

\* Answers of the auth service overtake each other for any number of callers and
\* keys, and still the key set in use is never older than its age plus the
\* timeout of a fetch.
THEOREM KeySetIsFresh == MemberSpec => []CacheFresh
  <1>1. MemberIInv => CacheFresh
    BY DEF MemberIInv
  <1>2. QED
    BY <1>1, MemberInitIInv, MemberNextIInv, PTL DEF MemberSpec

\* The sweeper and the recognition of members keep their types side by side, as
\* the relay runs them.
THEOREM UpkeepTypeCorrect == UpkeepSpec => []UpkeepTypeOK
  <1>1. UpkeepInit => TtlIInv /\ MemberIInv
    BY TtlInitIInv, MemberInitIInv DEF UpkeepInit
  <1>2. TtlIInv /\ [TtlNext]_ttlVars => TtlIInv'
    BY TtlTypeStep, TrackedStep DEF TtlIInv
  <1>3. TtlIInv /\ MemberIInv /\ [UpkeepNext]_upkeepVars => TtlIInv' /\ MemberIInv'
    BY <1>2, MemberNextIInv DEF UpkeepNext, Sweeping, Asking, upkeepVars
  <1>4. TtlIInv /\ MemberIInv => UpkeepTypeOK
    BY DEF TtlIInv, MemberIInv, UpkeepTypeOK
  <1>5. QED
    BY <1>1, <1>3, <1>4, PTL DEF UpkeepSpec
=============================================================================
