----------------------------- MODULE AskProofs -----------------------------
(***************************************************************************)
(* For any number of questions, visitors, /enqueue calls and limits, the   *)
(* slots of an app are accounted for and its daily cap is overshot by no   *)
(* more than the calls between the check and the count.                    *)
(***************************************************************************)
EXTENDS AppsAsk, FiniteSetTheorems, TLAPS

\* 1 when x is in S.
One(x, S) == IF x \in S THEN 1 ELSE 0

\* The handler of q moves; nobody else does.
OnlyMoves(q) == \A p \in Questions : p # q => ask'[p].pc = ask[p].pc

\* Membership of one element decides how a set's cardinality changes.
LEMMA OneElement ==
    ASSUME NEW A, NEW B, NEW x, IsFiniteSet(A), A \ {x} = B \ {x}
    PROVE  /\ IsFiniteSet(B)
           /\ Cardinality(A) \in Nat
           /\ Cardinality(B) \in Nat
           /\ Cardinality(B) = Cardinality(A) - One(x, A) + One(x, B)
  <1> DEFINE C == A \ {x}
  <1>1. IsFiniteSet(C) /\ Cardinality(A) = Cardinality(C) + One(x, A)
    <2>1. IsFiniteSet(C) /\ Cardinality(C) = IF x \in A THEN Cardinality(A) - 1 ELSE Cardinality(A)
      BY FS_RemoveElement
    <2>2. Cardinality(A) \in Nat
      BY FS_CardinalityType
    <2> QED BY <2>1, <2>2 DEF One
  <1>2. IsFiniteSet(B) /\ Cardinality(B) = Cardinality(C) + One(x, B)
    <2>1. x \notin C
      OBVIOUS
    <2>2. CASE x \in B
      <3>1. B = C \cup {x}
        BY <2>2
      <3>2. IsFiniteSet(C \cup {x}) /\ Cardinality(C \cup {x}) = Cardinality(C) + 1
        BY <1>1, <2>1, FS_AddElement
      <3> QED BY <2>2, <3>1, <3>2 DEF One
    <2>3. CASE x \notin B
      <3>1. B = C
        BY <2>3
      <3>2. Cardinality(C) \in Nat
        BY <1>1, FS_CardinalityType
      <3> QED BY <1>1, <2>3, <3>1, <3>2 DEF One
    <2> QED BY <2>2, <2>3
  <1>3. Cardinality(A) \in Nat /\ Cardinality(B) \in Nat /\ Cardinality(C) \in Nat
    BY <1>1, <1>2, FS_CardinalityType
  <1> HIDE DEF C
  <1> QED BY <1>1, <1>2, <1>3 DEF One

\* The counts are those of finite sets, and whoever is between check and count
\* holds a slot.
CountsOK ==
    /\ IsFiniteSet(Holding) /\ Cardinality(Holding) \in Nat
    /\ IsFiniteSet(Window) /\ Cardinality(Window) \in Nat
    /\ IsFiniteSet(EnqueueWindow) /\ Cardinality(EnqueueWindow) \in Nat
    /\ Cardinality(Enqueues) \in Nat
    /\ Cardinality(Window) <= Cardinality(Holding)
    /\ Cardinality(EnqueueWindow) <= Cardinality(Enqueues)

\* The counts of inFlight and of the two windows are well defined in every state.
LEMMA Counts == CountsOK
  <1>1. Holding \in SUBSET Questions /\ EnqueueWindow \in SUBSET Enqueues
    BY DEF Holding, EnqueueWindow
  <1>2. Window \in SUBSET Holding
    BY DEF Window, Holding, WindowStates, SlotStates
  <1>3. IsFiniteSet(Holding)
    BY <1>1, AskAssumption, FS_Subset
  <1>4. IsFiniteSet(Window) /\ Cardinality(Window) <= Cardinality(Holding)
    BY <1>2, <1>3, FS_Subset
  <1>5. /\ IsFiniteSet(EnqueueWindow)
        /\ Cardinality(EnqueueWindow) <= Cardinality(Enqueues)
    BY <1>1, AskAssumption, FS_Subset
  <1> QED BY <1>3, <1>4, <1>5, AskAssumption, FS_CardinalityType DEF CountsOK

\* ... and so they are after every step.
LEMMA CountsNext == CountsOK'
  BY Counts, PTL

\* One handler's move changes the two counts by its own place only.
LEMMA Moved ==
    ASSUME NEW q \in Questions, OnlyMoves(q)
    PROVE  /\ Cardinality(Holding') = Cardinality(Holding)
                 - One(ask[q].pc, SlotStates) + One(ask'[q].pc, SlotStates)
           /\ Cardinality(Window') = Cardinality(Window)
                 - One(ask[q].pc, WindowStates) + One(ask'[q].pc, WindowStates)
  <1>1. Holding \ {q} = Holding' \ {q} /\ Window \ {q} = Window' \ {q}
    BY DEF OnlyMoves, Holding, Window
  <1>2. /\ One(q, Holding) = One(ask[q].pc, SlotStates)
        /\ One(q, Holding') = One(ask'[q].pc, SlotStates)
        /\ One(q, Window) = One(ask[q].pc, WindowStates)
        /\ One(q, Window') = One(ask'[q].pc, WindowStates)
    BY DEF One, Holding, Window
  <1>3. IsFiniteSet(Holding) /\ IsFiniteSet(Window)
    BY Counts DEF CountsOK
  <1>4. Cardinality(Holding') = Cardinality(Holding) - One(q, Holding) + One(q, Holding')
    BY <1>1, <1>3, OneElement
  <1>5. Cardinality(Window') = Cardinality(Window) - One(q, Window) + One(q, Window')
    BY <1>1, <1>3, OneElement
  <1> QED BY <1>2, <1>4, <1>5

\* A handler's step keeps the accounts when it takes or returns its slot as it
\* moves, and when it counts what it reserved or had read a usage under the cap.
LEMMA MoveAccounted ==
    ASSUME NEW q \in Questions, OnlyMoves(q), AskIInv, AskTypeOK', enq' = enq,
           running' = running - One(ask[q].pc, SlotStates) + One(ask'[q].pc, SlotStates),
           \/ usage' + One(ask'[q].pc, WindowStates) <= usage + One(ask[q].pc, WindowStates)
           \/ usage' = usage /\ usage < PerDay
    PROVE  AskIInv'
  <1>1. SlotsAccounted'
    BY Moved DEF AskIInv, SlotsAccounted
  <1>2. EnqueueWindow' = EnqueueWindow
    BY DEF EnqueueWindow
  <1>3. /\ usage \in Nat /\ usage' \in Nat /\ running' <= MaxConcurrent
        /\ PerDay \in Nat /\ MaxConcurrent \in Nat
    BY AskAssumption DEF AskIInv, AskTypeOK
  <1>4. OvershootReserved'
    <2>1. CASE usage' + One(ask'[q].pc, WindowStates) <= usage + One(ask[q].pc, WindowStates)
      BY <1>2, <1>3, <2>1, Moved, Counts, CountsNext
      DEF AskIInv, OvershootReserved, CountsOK, One
    <2>2. CASE usage' = usage /\ usage < PerDay
      BY <1>1, <1>2, <1>3, <2>2, CountsNext DEF OvershootReserved, SlotsAccounted, CountsOK
    <2> QED BY <2>1, <2>2
  <1> QED BY <1>1, <1>4 DEF AskIInv

\* Overwriting a handler's place and reply keeps its type.
LEMMA RecordEnds ==
    ASSUME NEW k \in AskRecords, NEW m \in Replies
    PROVE  [k EXCEPT !.pc = "end", !.reply = m] \in AskRecords
  BY DEF AskRecords, Places

\* Leaving the handler with a reply.
LEMMA ReplyMoves ==
    ASSUME NEW q \in Questions, AskTypeOK, NEW r \in Replies, Reply(q, r)
    PROVE  /\ ask' \in [Questions -> AskRecords]
           /\ ask'[q].pc = "end"
           /\ OnlyMoves(q)
  <1>1. ask \in [Questions -> AskRecords]
    BY DEF AskTypeOK
  <1>2. PICK m \in Replies :
            ask' = [ask EXCEPT ![q] = [ask[q] EXCEPT !.pc = "end", !.reply = m]]
    <2> DEFINE m == IF ask[q].left THEN "none" ELSE r
    <2>1. m \in Replies
      BY DEF Replies
    <2>2. ask' = [ask EXCEPT ![q] = [ask[q] EXCEPT !.pc = "end", !.reply = m]]
      BY <1>1 DEF Reply
    <2> HIDE DEF m
    <2> QED BY <2>1, <2>2
  <1>3. [ask[q] EXCEPT !.pc = "end", !.reply = m] \in AskRecords
    BY <1>1, RecordEnds
  <1>4. [ask[q] EXCEPT !.pc = "end", !.reply = m].pc = "end"
    BY <1>1 DEF AskRecords
  <1> QED BY <1>1, <1>2, <1>3, <1>4 DEF OnlyMoves

\* Going on to the next place of the handler.
LEMMA GotoMoves ==
    ASSUME NEW q \in Questions, AskTypeOK, NEW s \in Places, Goto(q, s)
    PROVE  /\ ask' \in [Questions -> AskRecords]
           /\ ask'[q].pc = s
           /\ OnlyMoves(q)
  <1>1. ask[q] \in AskRecords /\ [ask[q] EXCEPT !.pc = s] \in AskRecords
    BY DEF AskTypeOK, AskRecords
  <1> QED BY <1>1 DEF AskTypeOK, AskRecords, OnlyMoves, Goto

\* Who holds a slot is counted, so a release never takes the count below zero.
LEMMA HoldingCounted ==
    ASSUME NEW q \in Questions, AskIInv, ask[q].pc \in SlotStates
    PROVE  running >= 1 /\ running - 1 \in 0..MaxConcurrent
  <1>1. q \in Holding
    BY DEF Holding
  <1>2. Cardinality(Holding) # 0
    BY <1>1, Counts, FS_EmptySet DEF CountsOK
  <1> QED BY <1>2, Counts, AskAssumption DEF AskIInv, SlotsAccounted, CountsOK, AskTypeOK

\* A handler that ends gives its slot back.
LEMMA ReleaseKeepsIInv ==
    ASSUME NEW q \in Questions, AskIInv, NEW r \in Replies, ReplyRelease(q, r),
           ask[q].pc \in SlotStates,
           row' \in [Questions -> {"none", "pending", "processing", "done", "failed",
                                   "spent", "withdrawn"}],
           \/ usage' = usage
           \/ usage' = usage + 1 /\ ask[q].pc \in WindowStates,
           UNCHANGED <<enq, seen, env>>
    PROVE  AskIInv'
  <1>1. AskTypeOK /\ Reply(q, r) /\ running' = running - 1 /\ usage \in Nat
    BY DEF AskIInv, ReplyRelease, AskTypeOK
  <1>2. /\ ask' \in [Questions -> AskRecords]
        /\ ask'[q].pc = "end"
        /\ OnlyMoves(q)
    BY <1>1, ReplyMoves
  <1>3. AskTypeOK'
    BY <1>1, <1>2, HoldingCounted DEF AskTypeOK, env
  <1>4. running' = running - One(ask[q].pc, SlotStates) + One(ask'[q].pc, SlotStates)
    BY <1>1, <1>2 DEF One, SlotStates, AskTypeOK
  <1>5. usage' + One(ask'[q].pc, WindowStates) <= usage + One(ask[q].pc, WindowStates)
    BY <1>1, <1>2 DEF One, WindowStates
  <1> QED BY <1>2, <1>3, <1>4, <1>5, MoveAccounted

\* A handler that has no slot ends.
LEMMA RefusalKeepsIInv ==
    ASSUME NEW q \in Questions, AskIInv, NEW r \in Replies, Reply(q, r),
           ask[q].pc \notin SlotStates, ask[q].pc \notin WindowStates,
           know' \in {"absent", "fetching", "failed", "loaded"},
           UNCHANGED <<enq, row, usage, running, seen, online, fallback, day, restarts>>
    PROVE  AskIInv'
  <1>1. AskTypeOK /\ usage \in Nat /\ running \in Int
    BY DEF AskIInv, AskTypeOK
  <1>2. /\ ask' \in [Questions -> AskRecords]
        /\ ask'[q].pc = "end"
        /\ OnlyMoves(q)
    BY <1>1, ReplyMoves
  <1>3. AskTypeOK'
    BY <1>1, <1>2 DEF AskTypeOK
  <1>4. /\ running' = running - One(ask[q].pc, SlotStates) + One(ask'[q].pc, SlotStates)
        /\ usage' + One(ask'[q].pc, WindowStates) <= usage + One(ask[q].pc, WindowStates)
    BY <1>1, <1>2 DEF One, SlotStates, WindowStates
  <1> QED BY <1>2, <1>3, <1>4, MoveAccounted

\* A handler goes on without touching its slot or the app's usage.
LEMMA QuietMove ==
    ASSUME NEW q \in Questions, AskIInv, AskTypeOK', OnlyMoves(q),
           ask[q].pc \in SlotStates <=> ask'[q].pc \in SlotStates,
           ask'[q].pc \in WindowStates => ask[q].pc \in WindowStates,
           UNCHANGED <<enq, usage, running>>
    PROVE  AskIInv'
  <1>1. usage \in Nat /\ running \in Int
    BY DEF AskIInv, AskTypeOK
  <1>2. /\ running' = running - One(ask[q].pc, SlotStates) + One(ask'[q].pc, SlotStates)
        /\ usage' + One(ask'[q].pc, WindowStates) <= usage + One(ask[q].pc, WindowStates)
    BY <1>1 DEF One
  <1> QED BY <1>2, MoveAccounted

\* Every visitor's entry stays within the two daily allowances.
LEMMA AllowTypes ==
    ASSUME NEW q \in Questions, AskTypeOK, allow(q)
    PROVE  seen' \in [Visitors -> [day : Days \cup {NoDay}, pc : 0..VisitorPerDay,
                                   hosted : 0..HostedVisitorPerDay]]
  <1> DEFINE E == [day : Days \cup {NoDay}, pc : 0..VisitorPerDay,
                   hosted : 0..HostedVisitorPerDay]
             v == VisitorOf[q]
             d == ask[q].stamp
             e == CurrentEntry(v, d)
  <1>1. v \in Visitors /\ VisitorPerDay \in Nat /\ HostedVisitorPerDay \in Nat
    BY AskAssumption
  <1>2. d \in Days \cup {NoDay}
    BY DEF AskTypeOK, AskRecords
  <1>3. seen \in [Visitors -> E]
    BY DEF AskTypeOK
  <1>4. \A x \in Days \cup {NoDay} : NewVisitor(x) \in E
    BY <1>1 DEF NewVisitor
  <1>5. e \in E
    BY <1>1, <1>2, <1>3, <1>4 DEF CurrentEntry
  <1>6. Swept(d) \in [Visitors -> E]
    BY <1>3, <1>4 DEF Swept
  <1>7. UnderLimit(e, ask[q].path) => Counted(e, ask[q].path) \in E
    BY <1>1, <1>5 DEF UnderLimit, Counted
  <1>8. PICK base \in {seen, Swept(d)} :
            \/ UnderLimit(e, ask[q].path)
               /\ seen' = [base EXCEPT ![v] = Counted(e, ask[q].path)]
            \/ seen' = [base EXCEPT ![v] = e]
    BY DEF allow
  <1> HIDE DEF e, d, v
  <1> QED BY <1>1, <1>3, <1>5, <1>6, <1>7, <1>8

\* The actions of a handler before it has a slot.
LEMMA EarlySteps ==
    ASSUME NEW q \in Questions, AskIInv,
           AskStart(q) \/ AskLookup(q) \/ allow(q) \/ AskKnowledge(q) \/ AskAcquire(q)
    PROVE  AskIInv'
  <1> USE DEF At
  <1>0. /\ AskTypeOK /\ ask \in [Questions -> AskRecords] /\ ask[q] \in AskRecords
        /\ running \in Nat /\ MaxConcurrent \in Nat /\ usage \in Nat /\ day \in Days
        /\ know \in {"absent", "fetching", "failed", "loaded"}
    BY AskAssumption DEF AskIInv, AskTypeOK
  <1>1. CASE AskStart(q)
    <2>1. ASSUME NEW x \in Paths, ask' = [ask EXCEPT ![q].pc = "lookup", ![q].path = x]
          PROVE  AskIInv'
      <3>1. [ask[q] EXCEPT !.pc = "lookup", !.path = x] \in AskRecords
        BY <1>0 DEF AskRecords, Places
      <3>2. /\ ask' \in [Questions -> AskRecords]
            /\ ask'[q].pc = "lookup" /\ ask[q].pc = "new"
            /\ OnlyMoves(q)
        BY <1>0, <1>1, <2>1, <3>1 DEF AskStart, AskRecords, OnlyMoves
      <3>3. AskTypeOK'
        BY <1>0, <1>1, <3>2 DEF AskStart, AskTypeOK, env
      <3> QED BY <1>1, <3>2, <3>3, QuietMove DEF AskStart, SlotStates, WindowStates
    <2>2. CASE Reply(q, "refused")
      <3>1. ask[q].pc = "new" /\ "refused" \in Replies
        BY <1>1 DEF AskStart, Replies
      <3> QED BY <1>0, <1>1, <2>2, <3>1, RefusalKeepsIInv
          DEF AskStart, SlotStates, WindowStates, env
    <2>3. Paths = {"pc", "hosted"}
      BY DEF Paths
    <2> QED BY <1>1, <2>1, <2>2, <2>3 DEF AskStart
  <1>2. CASE AskLookup(q)
    <2>1. CASE ask' = [ask EXCEPT ![q].pc = "allow", ![q].stamp = day]
      <3>1. [ask[q] EXCEPT !.pc = "allow", !.stamp = day] \in AskRecords
        BY <1>0 DEF AskRecords, Places
      <3>2. /\ ask' \in [Questions -> AskRecords]
            /\ ask'[q].pc = "allow" /\ ask[q].pc = "lookup"
            /\ OnlyMoves(q)
        BY <1>0, <1>2, <2>1, <3>1 DEF AskLookup, AskRecords, OnlyMoves
      <3>3. AskTypeOK'
        BY <1>0, <1>2, <3>2 DEF AskLookup, AskTypeOK, env
      <3> QED BY <1>2, <3>2, <3>3, QuietMove DEF AskLookup, SlotStates, WindowStates
    <2>2. ASSUME NEW r \in {"refused", "error"}, Reply(q, r) PROVE AskIInv'
      <3>1. ask[q].pc = "lookup" /\ r \in Replies
        BY <1>2 DEF AskLookup, Replies
      <3> QED BY <1>0, <1>2, <2>2, <3>1, RefusalKeepsIInv
          DEF AskLookup, SlotStates, WindowStates, env
    <2> QED BY <1>2, <2>1, <2>2 DEF AskLookup
  <1>3. CASE allow(q)
    <2>1. PICK b \in BOOLEAN : b = (ask[q].stamp # day)
      OBVIOUS
    <2>2. PICK m \in Replies : m = IF ask[q].left THEN "none" ELSE "refused"
      BY DEF Replies
    <2>3. \/ ask' = [ask EXCEPT ![q] = [ask[q] EXCEPT !.pc = "knowledge", !.counted = TRUE,
                                                      !.late = b]]
          \/ ask' = [ask EXCEPT ![q] = [ask[q] EXCEPT !.pc = "end", !.late = b, !.reply = m]]
      BY <1>0, <1>3, <2>1, <2>2 DEF allow
    <2>4. ASSUME NEW k \in AskRecords
          PROVE  /\ [k EXCEPT !.pc = "knowledge", !.counted = TRUE, !.late = b] \in AskRecords
                 /\ [k EXCEPT !.pc = "end", !.late = b, !.reply = m] \in AskRecords
                 /\ [k EXCEPT !.pc = "knowledge", !.counted = TRUE, !.late = b].pc = "knowledge"
                 /\ [k EXCEPT !.pc = "end", !.late = b, !.reply = m].pc = "end"
      BY DEF AskRecords, Places
    <2>5. /\ ask' \in [Questions -> AskRecords]
          /\ ask'[q].pc \in {"knowledge", "end"}
          /\ OnlyMoves(q)
      <3>1. PICK n \in AskRecords : ask' = [ask EXCEPT ![q] = n] /\ n.pc \in {"knowledge", "end"}
        BY <1>0, <2>3, <2>4
      <3> QED BY <1>0, <3>1 DEF OnlyMoves
    <2>6. AskTypeOK'
      BY <1>0, <1>3, <2>5, AllowTypes DEF allow, AskTypeOK, env
    <2>7. ask[q].pc = "allow" /\ UNCHANGED <<enq, usage, running>>
      BY <1>3 DEF allow
    <2> QED BY <2>5, <2>6, <2>7, QuietMove DEF SlotStates, WindowStates
  <1>4. CASE AskKnowledge(q)
    <2>1. /\ ask[q].pc = "knowledge"
          /\ know' \in {"absent", "fetching", "failed", "loaded"}
          /\ UNCHANGED <<enq, row, usage, running, seen, online, fallback, day, restarts>>
      BY <1>0, <1>4 DEF AskKnowledge
    <2>2. CASE Goto(q, "acquire")
      <3>1. /\ ask' \in [Questions -> AskRecords]
            /\ ask'[q].pc = "acquire"
            /\ OnlyMoves(q)
        BY <1>0, <2>2, GotoMoves DEF Places
      <3>2. AskTypeOK'
        BY <1>0, <2>1, <3>1 DEF AskTypeOK
      <3> QED BY <2>1, <3>1, <3>2, QuietMove DEF SlotStates, WindowStates
    <2>3. CASE Reply(q, "refused")
      BY <2>1, <2>3, RefusalKeepsIInv DEF SlotStates, WindowStates, Replies
    <2>4. CASE UNCHANGED ask
      <3>1. AskTypeOK' /\ OnlyMoves(q)
        BY <1>0, <2>1, <2>4 DEF AskTypeOK, OnlyMoves
      <3> QED BY <2>1, <2>4, <3>1, QuietMove
    <2> QED BY <1>4, <2>2, <2>3, <2>4 DEF AskKnowledge
  <1>5. CASE AskAcquire(q)
    <2>1. CASE MayAcquire /\ Goto(q, "usage") /\ running' = running + 1
      <3>1. /\ ask' \in [Questions -> AskRecords]
            /\ ask'[q].pc = "usage" /\ ask[q].pc = "acquire"
            /\ OnlyMoves(q)
        BY <1>0, <1>5, <2>1, GotoMoves DEF Places, AskAcquire
      <3>2. running' \in 0..MaxConcurrent
        BY <1>0, <2>1 DEF MayAcquire
      <3>3. AskTypeOK' /\ enq' = enq /\ usage' = usage
        BY <1>0, <1>5, <3>1, <3>2 DEF AskTypeOK, AskAcquire, env
      <3>4. /\ running' = running - One(ask[q].pc, SlotStates) + One(ask'[q].pc, SlotStates)
            /\ usage' + One(ask'[q].pc, WindowStates) <= usage + One(ask[q].pc, WindowStates)
        BY <1>0, <2>1, <3>1, <3>3 DEF One, SlotStates, WindowStates
      <3> QED BY <3>1, <3>3, <3>4, MoveAccounted
    <2>2. CASE Reply(q, "refused") /\ UNCHANGED running
      <3>1. ask[q].pc = "acquire" /\ "refused" \in Replies
        BY <1>5 DEF AskAcquire, Replies
      <3> QED BY <1>0, <1>5, <2>2, <3>1, RefusalKeepsIInv
          DEF AskAcquire, SlotStates, WindowStates, env
    <2> QED BY <1>5, <2>1, <2>2 DEF AskAcquire
  <1> QED BY <1>1, <1>2, <1>3, <1>4, <1>5

\* The actions of a handler that holds a slot, and of a visitor who leaves.
LEMMA LateSteps ==
    ASSUME NEW q \in Questions, AskIInv,
           \/ AskUsage(q) \/ AskInsert(q) \/ AskCount(q) \/ AskResult(q) \/ AskGivesUp(q)
           \/ AskCancel(q) \/ HostedCount(q) \/ HostedAnswer(q) \/ VisitorLeaves(q)
    PROVE  AskIInv'
  <1> USE DEF At
  <1> DEFINE Rows == {"none", "pending", "processing", "done", "failed", "spent", "withdrawn"}
  <1>0. /\ AskTypeOK /\ ask \in [Questions -> AskRecords] /\ ask[q] \in AskRecords
        /\ running \in Nat /\ MaxConcurrent \in Nat /\ usage \in Nat /\ PerDay \in Nat
        /\ row \in [Questions -> Rows]
    BY AskAssumption DEF AskIInv, AskTypeOK
  <1>a. [row EXCEPT ![q] = "pending"] \in [Questions -> Rows]
        /\ [row EXCEPT ![q] = "withdrawn"] \in [Questions -> Rows]
    BY <1>0
  <1>b. /\ \A r \in {"refused", "error", "answered", "failed", "busy", "timeout", "unsure"} :
             r \in Replies
        /\ \A s \in {"insert", "hostedCount", "count", "wait", "cancel", "hosted"} :
             s \in Places /\ s \in SlotStates
    BY DEF Replies, Places, SlotStates
  <1>c. ASSUME NEW r \in Replies, ReplyRelease(q, r), ask[q].pc \in SlotStates,
               row' \in [Questions -> Rows], usage' = usage, UNCHANGED <<enq, seen, env>>
        PROVE  AskIInv'
    BY <1>c, ReleaseKeepsIInv
  <1>d. ASSUME NEW s \in {"insert", "hostedCount", "count", "wait", "cancel", "hosted"},
               Goto(q, s), row' \in [Questions -> Rows], usage' \in Nat, running' = running,
               UNCHANGED <<enq, seen, env>>
        PROVE  /\ ask'[q].pc = s
               /\ OnlyMoves(q)
               /\ AskTypeOK'
    <2>1. /\ ask' \in [Questions -> AskRecords]
          /\ ask'[q].pc = s
          /\ OnlyMoves(q)
      BY <1>0, <1>b, <1>d, GotoMoves
    <2> QED BY <1>0, <1>d, <2>1 DEF AskTypeOK, env
  <1>1. CASE AskUsage(q)
    <2>1. ask[q].pc = "usage" /\ UNCHANGED <<enq, row, usage, seen, env>>
      BY <1>1 DEF AskUsage
    <2>2. ASSUME UnderQuota, NEW s \in {"insert", "hostedCount"}, Goto(q, s), running' = running
          PROVE  AskIInv'
      <3>1. ask'[q].pc = s /\ OnlyMoves(q) /\ AskTypeOK'
        BY <1>0, <1>d, <2>1, <2>2
      <3>2. running' = running - One(ask[q].pc, SlotStates) + One(ask'[q].pc, SlotStates)
        BY <1>0, <2>1, <2>2, <3>1 DEF One, SlotStates
      <3> QED BY <2>1, <2>2, <3>1, <3>2, MoveAccounted DEF UnderQuota
    <2>3. ASSUME NEW r \in {"refused", "error"}, ReplyRelease(q, r) PROVE AskIInv'
      BY <1>0, <1>b, <1>c, <2>1, <2>3 DEF SlotStates
    <2> QED BY <1>1, <2>2, <2>3 DEF AskUsage
  <1>2. CASE AskInsert(q)
    <2>1. ask[q].pc = "insert" /\ UNCHANGED <<enq, usage, seen, env>>
      BY <1>2 DEF AskInsert
    <2>2. row' \in [Questions -> Rows]
      BY <1>0, <1>2, <1>a DEF AskInsert
    <2>3. CASE Goto(q, "count") /\ UNCHANGED running
      <3>1. ask'[q].pc = "count" /\ OnlyMoves(q) /\ AskTypeOK'
        BY <1>0, <1>d, <2>1, <2>2, <2>3
      <3> QED BY <2>1, <2>3, <3>1, QuietMove DEF SlotStates, WindowStates
    <2>4. CASE ReplyRelease(q, "error")
      BY <1>b, <1>c, <2>1, <2>2, <2>4 DEF SlotStates
    <2> QED BY <1>2, <2>3, <2>4 DEF AskInsert
  <1>3. ASSUME AskCount(q) \/ HostedCount(q) PROVE AskIInv'
    <2>1. /\ ask[q].pc \in {"count", "hostedCount"}
          /\ UNCHANGED <<enq, row, seen, env>>
          /\ usage' \in {usage, usage + 1}
      BY <1>3 DEF AskCount, HostedCount
    <2>2. ASSUME NEW s \in {"wait", "hosted"}, Goto(q, s), usage' = usage + 1, UNCHANGED running
          PROVE  AskIInv'
      <3>1. ask'[q].pc = s /\ OnlyMoves(q) /\ AskTypeOK'
        BY <1>0, <1>d, <2>1, <2>2
      <3>2. /\ running' = running - One(ask[q].pc, SlotStates) + One(ask'[q].pc, SlotStates)
            /\ usage' + One(ask'[q].pc, WindowStates) <= usage + One(ask[q].pc, WindowStates)
        BY <1>0, <2>1, <2>2, <3>1 DEF One, SlotStates, WindowStates
      <3> QED BY <2>1, <3>1, <3>2, MoveAccounted
    <2>3. CASE ReplyRelease(q, "error")
      <3>1. /\ ask[q].pc \in SlotStates /\ ask[q].pc \in WindowStates
            /\ usage' = usage \/ usage' = usage + 1
            /\ row' \in [Questions -> Rows]
        BY <1>0, <2>1 DEF SlotStates, WindowStates
      <3> QED BY <1>b, <2>1, <2>3, <3>1, ReleaseKeepsIInv
    <2> QED BY <1>3, <2>2, <2>3 DEF AskCount, HostedCount
  <1>4. CASE AskResult(q)
    BY <1>0, <1>4, <1>b, <1>c DEF AskResult, SlotStates
  <1>5. CASE AskGivesUp(q)
    <2>1. /\ ask[q].pc = "wait" /\ Goto(q, "cancel")
          /\ UNCHANGED <<enq, row, usage, running, seen, env>>
      BY <1>5 DEF AskGivesUp
    <2>2. ask'[q].pc = "cancel" /\ OnlyMoves(q) /\ AskTypeOK'
      BY <1>0, <1>d, <2>1
    <2> QED BY <2>1, <2>2, QuietMove DEF SlotStates, WindowStates
  <1>6. CASE AskCancel(q)
    <2>1. ask[q].pc = "cancel" /\ UNCHANGED <<enq, usage, seen, env>>
      BY <1>6 DEF AskCancel
    <2>2. row' \in [Questions -> Rows]
      BY <1>0, <1>6, <1>a DEF AskCancel, Withdrawn
    <2> QED BY <1>6, <1>b, <1>c, <2>1, <2>2 DEF AskCancel, SlotStates
  <1>7. CASE HostedAnswer(q)
    BY <1>0, <1>7, <1>b, <1>c DEF HostedAnswer, SlotStates
  <1>8. CASE VisitorLeaves(q)
    <2>1. [ask[q] EXCEPT !.left = TRUE] \in AskRecords
      BY <1>0 DEF AskRecords
    <2>2. ask' = [ask EXCEPT ![q] = [ask[q] EXCEPT !.left = TRUE]]
      BY <1>0, <1>8 DEF VisitorLeaves
    <2>3. [ask[q] EXCEPT !.left = TRUE].pc = ask[q].pc
      BY <1>0 DEF AskRecords
    <2>4. ask' \in [Questions -> AskRecords] /\ ask'[q].pc = ask[q].pc /\ OnlyMoves(q)
      BY <1>0, <2>1, <2>2, <2>3 DEF OnlyMoves
    <2>5. UNCHANGED <<enq, row, usage, running, seen, env>>
      BY <1>8 DEF VisitorLeaves
    <2>6. AskTypeOK'
      BY <1>0, <2>4, <2>5 DEF AskTypeOK, env
    <2> QED BY <2>4, <2>5, <2>6, QuietMove
  <1> QED BY <1>1, <1>2, <1>3, <1>4, <1>5, <1>6, <1>7, <1>8

\* A step that leaves every handler where it is.
LEMMA StillKeepsIInv ==
    ASSUME AskIInv, AskTypeOK', ask' = ask, running' = running,
           \/ enq' = enq /\ usage' <= usage
           \/ usage' + Cardinality(EnqueueWindow') <= usage + Cardinality(EnqueueWindow)
           \/ usage' = usage /\ usage < PerDay
    PROVE  AskIInv'
  <1>1. Holding' = Holding /\ Window' = Window
    BY DEF Holding, Window
  <1>2. /\ usage \in Nat /\ usage' \in Nat /\ running <= MaxConcurrent
        /\ PerDay \in Nat /\ MaxConcurrent \in Nat
    BY AskAssumption DEF AskIInv, AskTypeOK
  <1>3. SlotsAccounted'
    BY <1>1 DEF AskIInv, SlotsAccounted
  <1>4. enq' = enq => EnqueueWindow' = EnqueueWindow
    BY DEF EnqueueWindow
  <1>5. OvershootReserved'
    BY <1>1, <1>2, <1>3, <1>4, Counts, CountsNext
    DEF AskIInv, OvershootReserved, SlotsAccounted, CountsOK
  <1> QED BY <1>3, <1>5 DEF AskIInv

\* The /enqueue calls with the app's secret key.
LEMMA EnqueueSteps ==
    ASSUME NEW e \in Enqueues, AskIInv, EnqueueStep(e)
    PROVE  AskIInv'
  <1>0. /\ AskTypeOK /\ usage \in Nat /\ enq \in [Enqueues -> {"new", "insert", "count", "end"}]
    BY DEF AskIInv, AskTypeOK
  <1>1. PICK s \in {"insert", "count", "end"} : enq' = [enq EXCEPT ![e] = s]
    BY DEF EnqueueStep, EnqueueCheck, EnqueueInsert, EnqueueCount
  <1>2. /\ usage' \in {usage, usage + 1}
        /\ UNCHANGED <<ask, row, running, seen, env>>
    BY DEF EnqueueStep, EnqueueCheck, EnqueueInsert, EnqueueCount
  <1>3. AskTypeOK'
    BY <1>0, <1>1, <1>2 DEF AskTypeOK, env
  <1>4. Cardinality(EnqueueWindow') = Cardinality(EnqueueWindow)
            - One(e, EnqueueWindow) + One(e, EnqueueWindow')
    <2>1. EnqueueWindow \ {e} = EnqueueWindow' \ {e}
      BY <1>0, <1>1 DEF EnqueueWindow
    <2>2. IsFiniteSet(EnqueueWindow)
      BY Counts DEF CountsOK
    <2> QED BY <2>1, <2>2, OneElement
  <1>5. CASE EnqueueCheck(e)
    <2>1. CASE UnderQuota
      BY <1>2, <1>3, <1>5, <2>1, StillKeepsIInv DEF EnqueueCheck, UnderQuota
    <2>2. CASE enq' = [enq EXCEPT ![e] = "end"]
      <3>1. One(e, EnqueueWindow') = 0 /\ One(e, EnqueueWindow) = 0
        BY <1>0, <1>5, <2>2 DEF EnqueueCheck, EnqueueWindow, One
      <3>2. usage' + Cardinality(EnqueueWindow') <= usage + Cardinality(EnqueueWindow)
        BY <1>0, <1>4, <1>5, <3>1, Counts DEF EnqueueCheck, CountsOK
      <3> QED BY <1>2, <1>3, <3>2, StillKeepsIInv
    <2> QED BY <1>5, <2>1, <2>2 DEF EnqueueCheck
  <1>6. CASE EnqueueInsert(e)
    <2>1. One(e, EnqueueWindow) = 1 /\ One(e, EnqueueWindow') \in {0, 1} /\ usage' = usage
      BY <1>0, <1>6 DEF EnqueueInsert, EnqueueWindow, One
    <2>2. usage' + Cardinality(EnqueueWindow') <= usage + Cardinality(EnqueueWindow)
      BY <1>0, <1>4, <2>1, Counts DEF CountsOK
    <2> QED BY <1>2, <1>3, <2>2, StillKeepsIInv
  <1>7. CASE EnqueueCount(e)
    <2>1. One(e, EnqueueWindow) = 1 /\ One(e, EnqueueWindow') = 0
      BY <1>0, <1>7 DEF EnqueueCount, EnqueueWindow, One
    <2>2. usage' + Cardinality(EnqueueWindow') <= usage + Cardinality(EnqueueWindow)
      BY <1>0, <1>2, <1>4, <2>1, Counts DEF CountsOK
    <2> QED BY <1>2, <1>3, <2>2, StillKeepsIInv
  <1> QED BY <1>5, <1>6, <1>7 DEF EnqueueStep

\* The PC, the knowledge source and the calendar.
LEMMA WorldSteps ==
    ASSUME AskIInv, (\E q \in Questions : RowStep(q)) \/ Refresh \/ Presence \/ Midnight
    PROVE  AskIInv'
  <1>0. AskTypeOK /\ usage \in Nat
    BY DEF AskIInv, AskTypeOK
  <1>1. ASSUME NEW q \in Questions, RowStep(q) PROVE AskIInv'
    <2>1. AskTypeOK'
      BY <1>0, <1>1 DEF RowStep, Claim, Ack, Requeue, AskTypeOK, env
    <2>2. ask' = ask /\ running' = running /\ enq' = enq /\ usage' <= usage
      BY <1>0, <1>1 DEF RowStep, Claim, Ack, Requeue
    <2> QED BY <2>1, <2>2, StillKeepsIInv
  <1>2. CASE Refresh
    <2>1. AskTypeOK' /\ ask' = ask /\ running' = running /\ enq' = enq /\ usage' <= usage
      BY <1>0, <1>2 DEF Refresh, AskTypeOK
    <2> QED BY <2>1, StillKeepsIInv
  <1>3. CASE Presence
    <2>1. online' \in BOOLEAN
      BY <1>3 DEF Presence
    <2>2. /\ UNCHANGED <<ask, enq, row, usage, running, seen, know, fallback, day, restarts>>
      BY <1>3 DEF Presence
    <2>3. AskTypeOK'
      BY <1>0, <2>1, <2>2 DEF AskTypeOK
    <2> QED BY <1>0, <2>2, <2>3, StillKeepsIInv
  <1>4. CASE Midnight
    <2>1. day' \in Days
      BY <1>0, <1>4, AskAssumption DEF Midnight, AskTypeOK, Days
    <2>2. AskTypeOK' /\ ask' = ask /\ running' = running /\ enq' = enq /\ usage' <= usage
      BY <1>0, <1>4, <2>1 DEF Midnight, AskTypeOK
    <2> QED BY <2>2, StillKeepsIInv
  <1> QED BY <1>1, <1>2, <1>3, <1>4

\* A restart forgets the handlers and their slots together.
LEMMA RestartStep ==
    ASSUME AskIInv, Restart
    PROVE  AskIInv'
  <1>0. /\ AskTypeOK /\ ask \in [Questions -> AskRecords] /\ usage \in Nat
        /\ {PerDay, MaxConcurrent, VisitorPerDay, HostedVisitorPerDay, MaxRestarts} \subseteq Nat
        /\ restarts \in 0..MaxRestarts
    BY AskAssumption DEF AskIInv, AskTypeOK
  <1>1. \A k \in AskRecords :
           /\ [k EXCEPT !.pc = "end", !.stamp = NoDay, !.counted = FALSE] \in AskRecords
           /\ [k EXCEPT !.pc = "end", !.stamp = NoDay, !.counted = FALSE].pc = "end"
    BY DEF AskRecords, Places
  <1>2. /\ ask' \in [Questions -> AskRecords]
        /\ \A q \in Questions : ask'[q].pc \in {"new", "end"}
    BY <1>0, <1>1 DEF Restart, At
  <1>3. /\ enq' \in [Enqueues -> {"new", "insert", "count", "end"}]
        /\ \A e \in Enqueues : enq'[e] \in {"new", "end"}
    BY DEF Restart
  <1>4. seen' \in [Visitors -> [day : Days \cup {NoDay}, pc : 0..VisitorPerDay,
                                hosted : 0..HostedVisitorPerDay]]
    <2>1. seen' = [v \in Visitors |-> NewVisitor(NoDay)]
      BY Zenon DEF Restart
    <2> QED BY <1>0, <2>1 DEF NewVisitor
  <1>5. /\ running' = 0 /\ know' = "absent" /\ online' = FALSE
        /\ restarts' \in 0..MaxRestarts
        /\ UNCHANGED <<row, usage, fallback, day>>
    <2>1. /\ restarts < MaxRestarts /\ restarts' = restarts + 1
          /\ running' = 0 /\ know' = "absent" /\ online' = FALSE
          /\ UNCHANGED <<row, usage, fallback, day>>
      BY Zenon DEF Restart
    <2>2. restarts' \in 0..MaxRestarts
      BY <1>0, <2>1
    <2> QED BY <2>1, <2>2
  <1>6. AskTypeOK'
    <2>1. {online', fallback'} \subseteq BOOLEAN
      BY <1>0, <1>5, Zenon DEF AskTypeOK
    <2> QED BY <1>0, <1>2, <1>3, <1>4, <1>5, <2>1 DEF AskTypeOK
  <1>7. Holding' = {} /\ Window' = {} /\ EnqueueWindow' = {}
    BY <1>2, <1>3 DEF Holding, Window, EnqueueWindow, SlotStates, WindowStates
  <1>8. Cardinality(Holding') = 0 /\ Cardinality(Window') = 0 /\ Cardinality(EnqueueWindow') = 0
    BY <1>7, FS_EmptySet
  <1>9. SlotsAccounted' /\ OvershootReserved'
    BY <1>0, <1>5, <1>8, Counts DEF AskIInv, SlotsAccounted, OvershootReserved, CountsOK
  <1> QED BY <1>6, <1>9 DEF AskIInv

\* The relay starts with no question, no slot taken and nothing counted.
LEMMA InitIInv == AskInit => AskIInv
  <1> SUFFICES ASSUME AskInit PROVE AskIInv
    OBVIOUS
  <1>1. /\ {PerDay, MaxConcurrent} \subseteq Nat \ {0}
        /\ {VisitorPerDay, HostedVisitorPerDay, MaxDay, MaxRestarts} \subseteq Nat
    BY AskAssumption
  <1>2. NewAsk \in AskRecords /\ NewAsk.pc = "new"
    BY DEF NewAsk, AskRecords, Places, Paths, Replies
  <1>3. ask \in [Questions -> AskRecords] /\ \A q \in Questions : ask[q].pc = "new"
    BY <1>2 DEF AskInit
  <1>4. seen \in [Visitors -> [day : Days \cup {NoDay}, pc : 0..VisitorPerDay,
                               hosted : 0..HostedVisitorPerDay]]
    BY <1>1 DEF AskInit, NewVisitor
  <1>5. 0 \in Days
    BY <1>1 DEF Days
  <1>6. AskTypeOK
    <2>1. {online, fallback} \subseteq BOOLEAN
      BY Zenon DEF AskInit
    <2>2. /\ enq = [e \in Enqueues |-> "new"] /\ row = [q \in Questions |-> "none"]
          /\ usage = 0 /\ running = 0 /\ know = "absent" /\ day = 0 /\ restarts = 0
      BY DEF AskInit
    <2> QED BY <1>1, <1>3, <1>4, <1>5, <2>1, <2>2 DEF AskTypeOK
  <1>7. Holding = {} /\ Window = {} /\ EnqueueWindow = {}
    BY <1>3 DEF AskInit, Holding, Window, EnqueueWindow, SlotStates, WindowStates
  <1>8. SlotsAccounted /\ OvershootReserved
    BY <1>1, <1>7, FS_EmptySet, Counts DEF AskInit, SlotsAccounted, OvershootReserved, CountsOK
  <1> QED BY <1>6, <1>8 DEF AskIInv

\* Every step of the relay, the visitors and the PC keeps the invariant.
LEMMA NextIInv == AskIInv /\ [AskNext]_askVars => AskIInv'
  <1> SUFFICES ASSUME AskIInv, [AskNext]_askVars PROVE AskIInv'
    OBVIOUS
  <1>1. ASSUME NEW q \in Questions, AskStep(q) PROVE AskIInv'
    BY <1>1, EarlySteps, LateSteps DEF AskStep
  <1>2. ASSUME NEW e \in Enqueues, EnqueueStep(e) PROVE AskIInv'
    BY <1>2, EnqueueSteps
  <1>3. CASE (\E q \in Questions : RowStep(q)) \/ Refresh \/ Presence \/ Midnight
    BY <1>3, WorldSteps
  <1>4. CASE Restart
    BY <1>4, RestartStep
  <1>5. CASE UNCHANGED askVars
    <2>1. AskTypeOK' /\ ask' = ask /\ running' = running /\ enq' = enq /\ usage' <= usage
      BY <1>5 DEF askVars, AskIInv, AskTypeOK
    <2> QED BY <2>1, StillKeepsIInv
  <1> QED BY <1>1, <1>2, <1>3, <1>4, <1>5 DEF AskNext

\* Whatever the number of questions, /enqueue calls and limits, and across
\* failing statements, midnight and restarts, the usage of an app exceeds its
\* daily cap by at most the calls between handleAsk's check and its count
\* (bounded by max_concurrent) and the /enqueue calls.
THEOREM OvershootIsBounded == AskSpec => []QuotaOvershootBounded
  <1>1. AskIInv => QuotaOvershootBounded
    BY AskAssumption, Counts
    DEF AskIInv, AskTypeOK, OvershootReserved, QuotaOvershootBounded, CountsOK
  <1> QED BY <1>1, InitIInv, NextIInv, PTL DEF AskSpec

\* ... and every path out of handleAsk releases its slot exactly once: inFlight
\* counts the handlers that hold one and stays within max_concurrent.
THEOREM SlotsAreAccounted == AskSpec => [](AskTypeOK /\ SlotsAccounted)
  <1>1. AskIInv => AskTypeOK /\ SlotsAccounted
    BY DEF AskIInv
  <1> QED BY <1>1, InitIInv, NextIInv, PTL DEF AskSpec
-----------------------------------------------------------------------------
(***************************************************************************)
(* What a visitor is told                                                  *)
(***************************************************************************)

\* The handler of q goes to pc with reply m; the rest of it, and everybody else,
\* stays as it is.
Becomes(q, pc, m) ==
    /\ \A p \in Questions : p # q => ask'[p] = ask[p]
    /\ ask'[q].pc = pc /\ ask'[q].reply = m
    /\ ask'[q].path = ask[q].path /\ ask'[q].stamp = ask[q].stamp
    /\ ask'[q].late = ask[q].late /\ ask'[q].counted = ask[q].counted

\* Going on keeps the reply.
LEMMA GotoBecomes ==
    ASSUME AskTypeOK, NEW q \in Questions, NEW s, Goto(q, s)
    PROVE  Becomes(q, s, ask[q].reply)
  <1>1. ask \in [Questions -> AskRecords] /\ ask[q] \in AskRecords
    BY DEF AskTypeOK
  <1>2. ask'[q] = [ask[q] EXCEPT !.pc = s] /\ \A p \in Questions : p # q => ask'[p] = ask[p]
    BY <1>1 DEF Goto
  <1> QED BY <1>1, <1>2 DEF Becomes, AskRecords

\* A reply ends the handler; who has left reads nothing.
LEMMA ReplyBecomes ==
    ASSUME AskTypeOK, NEW q \in Questions, NEW r, Reply(q, r)
    PROVE  \E m \in {"none", r} : Becomes(q, "end", m)
  <1> DEFINE m == IF ask[q].left THEN "none" ELSE r
  <1>1. ask \in [Questions -> AskRecords] /\ ask[q] \in AskRecords
    BY DEF AskTypeOK
  <1>2. ask' = [ask EXCEPT ![q] = [ask[q] EXCEPT !.pc = "end", !.reply = m]]
    BY <1>1 DEF Reply
  <1>3. m \in {"none", r}
    OBVIOUS
  <1> HIDE DEF m
  <1>4. /\ ask'[q] = [ask[q] EXCEPT !.pc = "end", !.reply = m]
        /\ \A p \in Questions : p # q => ask'[p] = ask[p]
    BY <1>1, <1>2
  <1>5. Becomes(q, "end", m)
    BY <1>1, <1>4 DEF Becomes, AskRecords
  <1> QED BY <1>3, <1>5

\* A visitor who leaves changes nothing else.
LEMMA LeavesBecomes ==
    ASSUME AskTypeOK, NEW q \in Questions, VisitorLeaves(q)
    PROVE  Becomes(q, ask[q].pc, ask[q].reply)
  <1>1. ask \in [Questions -> AskRecords] /\ ask[q] \in AskRecords
    BY DEF AskTypeOK
  <1>2. ask'[q] = [ask[q] EXCEPT !.left = TRUE] /\ \A p \in Questions : p # q => ask'[p] = ask[p]
    BY <1>1 DEF VisitorLeaves
  <1> QED BY <1>1, <1>2 DEF Becomes, AskRecords

\* What reply m says of the job of q, after the step.
TruthOf(q, m) ==
    /\ m = "busy" => row'[q] = "withdrawn"
    /\ m = "answered" => row'[q] = "done"
    /\ m = "failed" => row'[q] = "failed"
    /\ m = "timeout" => row'[q] # "pending"

\* One handler's step keeps every reply true if its own is.
LEMMA TruthKept ==
    ASSUME ReplyWritten, ReplyAgreesWithJob,
           NEW q \in Questions, NEW s, NEW m, Becomes(q, s, m),
           \A p \in Questions : p # q => row'[p] = row[p],
           m # "none" => s = "end",
           s \in {"hostedCount", "hosted"} => ask[q].path = "hosted",
           ask[q].path = "pc" => TruthOf(q, m)
    PROVE  ReplyWritten' /\ ReplyAgreesWithJob'
  <1>1. ReplyWritten'
    BY DEF ReplyWritten, At, Becomes
  <1>2. ReplyAgreesWithJob'
    BY DEF ReplyAgreesWithJob, Becomes, TruthOf
  <1> QED BY <1>1, <1>2

\* Until a question has its slot it has no row, and is refused or fails.
LEMMA EarlyTruth ==
    ASSUME ReplyIInv, NEW q \in Questions,
           AskStart(q) \/ AskLookup(q) \/ allow(q) \/ AskKnowledge(q) \/ AskAcquire(q)
             \/ VisitorLeaves(q)
    PROVE  ReplyWritten' /\ ReplyAgreesWithJob'
  <1>1. AskTypeOK /\ ReplyWritten /\ ReplyAgreesWithJob
    BY DEF ReplyIInv, AskIInv
  <1>2. ask \in [Questions -> AskRecords] /\ ask[q] \in AskRecords
    BY <1>1 DEF AskTypeOK
  <1>3. row' = row
    BY DEF AskStart, AskLookup, allow, AskKnowledge, AskAcquire, VisitorLeaves
  <1>4. ASSUME \/ Reply(q, "refused") \/ Reply(q, "error")
        PROVE  ReplyWritten' /\ ReplyAgreesWithJob'
    <2>1. PICK m \in {"none", "refused", "error"} : Becomes(q, "end", m)
      BY <1>1, <1>4, ReplyBecomes
    <2>2. TruthOf(q, m)
      BY DEF TruthOf
    <2> QED BY <1>1, <1>3, <2>1, <2>2, TruthKept
  <1>5. ASSUME NEW s \in {"acquire", "usage"}, Goto(q, s),
               ask[q].pc \in {"knowledge", "acquire"}
        PROVE  ReplyWritten' /\ ReplyAgreesWithJob'
    <2>1. Becomes(q, s, ask[q].reply) /\ ask[q].reply = "none"
      BY <1>1, <1>5, GotoBecomes DEF ReplyWritten, At
    <2>2. TruthOf(q, ask[q].reply)
      BY <2>1 DEF TruthOf
    <2> QED BY <1>1, <1>3, <2>1, <2>2, TruthKept
  <1>6. ASSUME NEW r \in AskRecords, ask' = [ask EXCEPT ![q] = r],
               r.reply # "none" => r.pc = "end",
               r.reply \in {"none", "refused"},
               r.pc \notin {"hostedCount", "hosted"}
        PROVE  ReplyWritten' /\ ReplyAgreesWithJob'
    <2>1. ask'[q] = r /\ \A p \in Questions : p # q => ask'[p] = ask[p]
      BY <1>2, <1>6
    <2>2. ReplyWritten'
      BY <1>1, <1>6, <2>1 DEF ReplyWritten, At
    <2>3. ReplyAgreesWithJob'
      BY <1>1, <1>3, <1>6, <2>1 DEF ReplyAgreesWithJob
    <2> QED BY <2>2, <2>3
  <1>7. CASE AskStart(q)
    <2>1. CASE ask' = [ask EXCEPT ![q].pc = "lookup",
                                  ![q].path = IF online THEN "pc" ELSE "hosted"]
      <3> DEFINE path == IF online THEN "pc" ELSE "hosted"
                 r == [ask[q] EXCEPT !.pc = "lookup", !.path = path]
      <3>1. path \in Paths
        BY DEF Paths
      <3>2. ask[q].reply = "none"
        BY <1>1, <1>7 DEF ReplyWritten, AskStart, At
      <3>3. ask' = [ask EXCEPT ![q] = r]
        BY <1>2, <2>1
      <3> HIDE DEF path
      <3>4. r \in AskRecords /\ r.reply = "none" /\ r.pc = "lookup"
        BY <1>2, <3>1, <3>2 DEF AskRecords, Places
      <3> HIDE DEF r
      <3> QED BY <1>6, <3>3, <3>4
    <2> QED BY <1>4, <1>7, <2>1 DEF AskStart
  <1>8. CASE AskLookup(q)
    <2>1. CASE ask' = [ask EXCEPT ![q].pc = "allow", ![q].stamp = day]
      <3> DEFINE r == [ask[q] EXCEPT !.pc = "allow", !.stamp = day]
      <3>1. ask[q].reply = "none"
        BY <1>1, <1>8 DEF ReplyWritten, AskLookup, At
      <3>2. ask' = [ask EXCEPT ![q] = r]
        BY <1>2, <2>1
      <3>3. day \in Days
        BY <1>1 DEF AskTypeOK
      <3>4. r \in AskRecords /\ r.reply = "none" /\ r.pc = "allow"
        BY <1>2, <3>1, <3>3 DEF AskRecords, Places
      <3> HIDE DEF r
      <3> QED BY <1>6, <3>2, <3>4
    <2> QED BY <1>4, <1>8, <2>1 DEF AskLookup
  <1>9. CASE allow(q)
    <2> DEFINE late == ask[q].stamp # day
               let == [ask[q] EXCEPT !.pc = "knowledge", !.counted = TRUE, !.late = late]
               m == IF ask[q].left THEN "none" ELSE "refused"
               deny == [ask[q] EXCEPT !.pc = "end", !.late = late, !.reply = m]
    <2>1. ask[q].reply = "none"
      BY <1>1, <1>9 DEF ReplyWritten, allow, At
    <2>2. ask' = [ask EXCEPT ![q] = let] \/ ask' = [ask EXCEPT ![q] = deny]
      BY <1>2, <1>9 DEF allow
    <2>3. late \in BOOLEAN /\ m \in {"none", "refused"} /\ {"none", "refused"} \subseteq Replies
      BY DEF Replies
    <2> HIDE DEF late, m
    <2>4. let \in AskRecords /\ let.reply = "none" /\ let.pc = "knowledge"
      BY <1>2, <2>1, <2>3 DEF AskRecords, Places
    <2>5. deny \in AskRecords /\ deny.reply = m /\ deny.pc = "end"
      BY <1>2, <2>3 DEF AskRecords, Places
    <2> HIDE DEF let, deny
    <2> QED BY <1>6, <2>2, <2>3, <2>4, <2>5
  <1>10. CASE AskKnowledge(q)
    <2>1. CASE ask' = ask
      BY <1>1, <1>3, <2>1 DEF ReplyWritten, ReplyAgreesWithJob, At
    <2> QED BY <1>4, <1>5, <1>10, <2>1 DEF AskKnowledge, At
  <1>11. CASE AskAcquire(q)
    BY <1>4, <1>5, <1>11 DEF AskAcquire, At
  <1>12. CASE VisitorLeaves(q)
    <2>1. Becomes(q, ask[q].pc, ask[q].reply)
      BY <1>1, <1>12, LeavesBecomes
    <2>2. ask[q].path = "pc" => TruthOf(q, ask[q].reply)
      BY <1>1, <1>3 DEF ReplyAgreesWithJob, TruthOf
    <2> QED BY <1>1, <1>3, <2>1, <2>2, TruthKept DEF ReplyWritten, At
  <1> QED BY <1>7, <1>8, <1>9, <1>10, <1>11, <1>12

\* With a slot the reply follows the row: what the wait has read of it, or what
\* CancelPending found.
LEMMA LateTruth ==
    ASSUME ReplyIInv, NEW q \in Questions,
           AskUsage(q) \/ AskInsert(q) \/ AskCount(q) \/ AskResult(q) \/ AskGivesUp(q)
             \/ AskCancel(q) \/ HostedCount(q) \/ HostedAnswer(q)
    PROVE  ReplyWritten' /\ ReplyAgreesWithJob'
  <1>1. AskTypeOK /\ ReplyWritten /\ ReplyAgreesWithJob
    BY DEF ReplyIInv, AskIInv
  <1>2. /\ ask[q].reply = "none" /\ ask[q].path \in Paths
        /\ row \in [Questions -> {"none", "pending", "processing", "done", "failed",
                                  "spent", "withdrawn"}]
    <2>1. ask[q].pc # "end"
      BY DEF AskUsage, AskInsert, AskCount, AskResult, AskGivesUp, AskCancel, HostedCount,
             HostedAnswer, At
    <2> QED BY <1>1, <2>1 DEF ReplyWritten, At, AskTypeOK, AskRecords
  <1>3. \A p \in Questions : p # q => row'[p] = row[p]
    BY <1>2 DEF AskUsage, AskInsert, AskCount, AskResult, AskGivesUp, AskCancel, HostedCount,
                HostedAnswer, Withdrawn
  <1>4. ASSUME NEW s, Goto(q, s), s \in {"hostedCount", "hosted"} => ask[q].path = "hosted"
        PROVE  ReplyWritten' /\ ReplyAgreesWithJob'
    <2>1. Becomes(q, s, "none")
      BY <1>1, <1>2, <1>4, GotoBecomes
    <2>2. TruthOf(q, "none")
      BY DEF TruthOf
    <2> QED BY <1>1, <1>3, <1>4, <2>1, <2>2, TruthKept
  <1>5. ASSUME NEW r, ReplyRelease(q, r), ask[q].path = "pc" => TruthOf(q, r)
        PROVE  ReplyWritten' /\ ReplyAgreesWithJob'
    <2>1. PICK m \in {"none", r} : Becomes(q, "end", m)
      BY <1>1, <1>5, ReplyBecomes DEF ReplyRelease
    <2>2. ask[q].path = "pc" => TruthOf(q, m)
      BY <1>5 DEF TruthOf
    <2> QED BY <1>1, <1>3, <2>1, <2>2, TruthKept
  <1>6. TruthOf(q, "refused") /\ TruthOf(q, "error") /\ TruthOf(q, "unsure")
    BY DEF TruthOf
  <1>7. CASE AskUsage(q)
    <2>1. ASSUME UnderQuota, Goto(q, IF ask[q].path = "pc" THEN "insert" ELSE "hostedCount")
          PROVE  ReplyWritten' /\ ReplyAgreesWithJob'
      BY <1>2, <1>4, <2>1 DEF Paths
    <2> QED BY <1>5, <1>6, <1>7, <2>1 DEF AskUsage
  <1>8. CASE AskInsert(q)
    BY <1>4, <1>5, <1>6, <1>8 DEF AskInsert
  <1>9. CASE AskCount(q)
    BY <1>4, <1>5, <1>6, <1>9 DEF AskCount
  <1>10. CASE AskResult(q)
    <2>1. CASE row[q] = "done" /\ \E r \in {"answered", "error"} : ReplyRelease(q, r)
      <3>1. TruthOf(q, "answered")
        BY <1>10, <2>1 DEF AskResult, TruthOf
      <3> QED BY <1>5, <1>6, <2>1, <3>1
    <2>2. CASE row[q] = "failed" /\ ReplyRelease(q, "failed")
      <3>1. TruthOf(q, "failed")
        BY <1>10, <2>2 DEF AskResult, TruthOf
      <3> QED BY <1>5, <2>2, <3>1
    <2> QED BY <1>10, <2>1, <2>2 DEF AskResult
  <1>11. CASE AskGivesUp(q)
    BY <1>4, <1>11 DEF AskGivesUp
  <1>12. CASE AskCancel(q)
    <2>1. CASE row' = [row EXCEPT ![q] = "withdrawn"] /\ ReplyRelease(q, "busy")
      <3>1. TruthOf(q, "busy")
        BY <1>2, <2>1 DEF TruthOf
      <3> QED BY <1>5, <2>1, <3>1
    <2>2. CASE row[q] # "pending" /\ row' = row /\ ReplyRelease(q, "timeout")
      <3>1. TruthOf(q, "timeout")
        BY <2>2 DEF TruthOf
      <3> QED BY <1>5, <2>2, <3>1
    <2> QED BY <1>5, <1>6, <1>12, <2>1, <2>2 DEF AskCancel, Withdrawn
  <1>13. CASE HostedCount(q)
    <2>1. ask[q].path = "hosted"
      BY <1>1, <1>13 DEF HostedCount, At, ReplyWritten
    <2> QED BY <1>4, <1>5, <1>6, <1>13, <2>1 DEF HostedCount
  <1>14. CASE HostedAnswer(q)
    <2>1. ask[q].path = "hosted"
      BY <1>1, <1>14 DEF HostedAnswer, At, ReplyWritten
    <2> QED BY <1>5, <1>14, <2>1 DEF HostedAnswer
  <1> QED BY <1>7, <1>8, <1>9, <1>10, <1>11, <1>12, <1>13, <1>14

\* A visitor reads what became of the job: "busy" only for one that was withdrawn
\* and never runs, an answer or a failure only when the row says so, a timeout
\* never for one that still waits; for any questions, faults and restarts.
THEOREM RepliesAreTrue == AskSpec => []ReplyAgreesWithJob
  <1>1. AskInit => ReplyIInv
    <2> SUFFICES ASSUME AskInit PROVE ReplyIInv
      OBVIOUS
    <2>1. \A q \in Questions : ask[q] = NewAsk
      BY DEF AskInit
    <2>2. NewAsk.reply = "none" /\ NewAsk.pc = "new"
      BY DEF NewAsk
    <2> QED BY <2>1, <2>2, InitIInv DEF ReplyIInv, ReplyWritten, ReplyAgreesWithJob
  <1>2. ReplyIInv /\ [AskNext]_askVars => ReplyIInv'
    <2> SUFFICES ASSUME ReplyIInv, [AskNext]_askVars
                 PROVE  ReplyWritten' /\ ReplyAgreesWithJob'
      BY NextIInv DEF ReplyIInv
    <2>1. AskTypeOK /\ ReplyWritten /\ ReplyAgreesWithJob
      BY DEF ReplyIInv, AskIInv
    <2>2. CASE UNCHANGED <<ask, row>>
      BY <2>1, <2>2 DEF ReplyWritten, ReplyAgreesWithJob, At
    <2>3. ASSUME NEW q \in Questions, RowStep(q) PROVE ReplyWritten' /\ ReplyAgreesWithJob'
      <3>1. ask' = ask /\ row[q] \in {"pending", "processing"} /\ row'[q] # "pending"
            /\ \A p \in Questions : p # q => row'[p] = row[p]
        BY <2>1, <2>3 DEF RowStep, Claim, Ack, Requeue, AskTypeOK
      <3> QED BY <2>1, <3>1 DEF ReplyWritten, ReplyAgreesWithJob, At
    <2>4. CASE Restart
      <3>1. \A q \in Questions : /\ ask'[q].reply = ask[q].reply /\ ask'[q].path = ask[q].path
                                 /\ ask'[q].pc \in {"end", ask[q].pc}
        <4> SUFFICES ASSUME NEW q \in Questions
                     PROVE  /\ ask'[q].reply = ask[q].reply /\ ask'[q].path = ask[q].path
                            /\ ask'[q].pc \in {"end", ask[q].pc}
          OBVIOUS
        <4>1. /\ ask[q] \in AskRecords
              /\ ask'[q] = IF At(q, "new") THEN ask[q]
                           ELSE [ask[q] EXCEPT !.pc = "end", !.stamp = NoDay, !.counted = FALSE]
          BY <2>1, <2>4 DEF Restart, AskTypeOK
        <4> QED BY <4>1 DEF AskRecords
      <3>2. row' = row
        BY <2>4 DEF Restart
      <3> QED BY <2>1, <3>1, <3>2 DEF ReplyWritten, ReplyAgreesWithJob, At
    <2>5. ASSUME NEW e \in Enqueues, EnqueueStep(e) PROVE UNCHANGED <<ask, row>>
      BY <2>5 DEF EnqueueStep, EnqueueCheck, EnqueueInsert, EnqueueCount
    <2>6. Refresh \/ Presence \/ Midnight \/ UNCHANGED askVars => UNCHANGED <<ask, row>>
      BY DEF Refresh, Presence, Midnight, askVars
    <2> QED BY <2>2, <2>3, <2>4, <2>5, <2>6, EarlyTruth, LateTruth DEF AskNext, AskStep
  <1>3. ReplyIInv => ReplyAgreesWithJob
    BY DEF ReplyIInv
  <1> QED BY <1>1, <1>2, <1>3, PTL DEF AskSpec
-----------------------------------------------------------------------------
(***************************************************************************)
(* What a visitor gets                                                     *)
(***************************************************************************)

\* The questions let through are finitely many.
LEMMA AdmittedSets ==
    ASSUME NEW v, NEW d, NEW path
    PROVE  /\ IsFiniteSet(Admitted(v, d, path))
           /\ Cardinality(Admitted(v, d, path)) \in Nat
  <1>1. Admitted(v, d, path) \in SUBSET Questions
    BY DEF Admitted
  <1> QED BY <1>1, AskAssumption, FS_Subset, FS_CardinalityType

\* A visitor's entry holds no more than the two daily allowances.
LEMMA GrantedWithin ==
    ASSUME AskTypeOK, NEW v \in Visitors, NEW d
    PROVE  /\ Granted(v, d, "pc") \in 0..VisitorPerDay
           /\ Granted(v, d, "hosted") \in 0..HostedVisitorPerDay
  <1>1. /\ seen[v].pc \in 0..VisitorPerDay /\ seen[v].hosted \in 0..HostedVisitorPerDay
        /\ VisitorPerDay \in Nat /\ HostedVisitorPerDay \in Nat
    BY AskAssumption DEF AskTypeOK
  <1> QED BY <1>1 DEF Granted, NewVisitor

\* A step that lets nobody through, and leaves the entries and the day alone.
LEMMA NobodyAdmitted ==
    ASSUME StampsPast, WithinGrant, seen' = seen, day' = day,
           \A q \in Questions :
              /\ ask'[q].late = ask[q].late /\ ask'[q].counted = ask[q].counted
              /\ ask[q].counted => /\ ask'[q].stamp = ask[q].stamp
                                   /\ ask'[q].path = ask[q].path
              /\ ask'[q].stamp <= day
              /\ ask'[q].pc \in {"new", "lookup", "allow"}
                   => ask[q].pc \in {"new", "lookup", "allow"}
    PROVE  StampsPast' /\ WithinGrant'
  <1>1. StampsPast'
    BY DEF StampsPast
  <1>2. OnTime' <=> OnTime
    BY DEF OnTime
  <1>3. \A v, d, path : Admitted(v, d, path)' = Admitted(v, d, path)
    BY DEF Admitted
  <1>4. \A v, d, path : Granted(v, d, path)' = Granted(v, d, path)
    BY DEF Granted
  <1>5. WithinGrant'
    BY <1>2, <1>3, <1>4 DEF WithinGrant
  <1> QED BY <1>1, <1>5

\* A handler's step after allow, or out of the handler.
LEMMA MoveWithinGrant ==
    ASSUME StampsPast, WithinGrant, seen' = seen, day' = day,
           NEW q \in Questions, NEW s, NEW m, Becomes(q, s, m),
           s = ask[q].pc \/ s \notin {"new", "lookup", "allow"}
    PROVE  StampsPast' /\ WithinGrant'
  BY NobodyAdmitted DEF Becomes, StampsPast

\* Reading the presence of the PC and the clock, before a question is counted.
LEMMA StartWithinGrant ==
    ASSUME VisitorIInv, NEW q \in Questions, AskStart(q) \/ AskLookup(q)
    PROVE  StampsPast' /\ WithinGrant'
  <1>1. AskTypeOK /\ StampsPast /\ WithinGrant
    BY DEF VisitorIInv, AskIInv
  <1>2. ask \in [Questions -> AskRecords] /\ ask[q] \in AskRecords
    BY <1>1 DEF AskTypeOK
  <1>3. seen' = seen /\ day' = day
    BY DEF AskStart, AskLookup, env
  <1>4. ASSUME NEW r, Reply(q, r) PROVE StampsPast' /\ WithinGrant'
    <2>1. PICK m \in {"none", r} : Becomes(q, "end", m)
      BY <1>1, <1>4, ReplyBecomes
    <2> QED BY <1>1, <1>3, <2>1, MoveWithinGrant
  <1>5. ASSUME NEW r, ask' = [ask EXCEPT ![q] = r], ask[q].pc \in {"new", "lookup"},
               r.late = ask[q].late, r.counted = ask[q].counted, r.stamp <= day
        PROVE  StampsPast' /\ WithinGrant'
    <2>1. ask'[q] = r /\ \A p \in Questions : p # q => ask'[p] = ask[p]
      BY <1>2, <1>5
    <2>2. ~ask[q].counted
      BY <1>1, <1>5 DEF StampsPast
    <2> QED BY <1>1, <1>3, <1>5, <2>1, <2>2, NobodyAdmitted DEF StampsPast
  <1>6. CASE AskStart(q)
    <2>1. CASE ask' = [ask EXCEPT ![q].pc = "lookup",
                                  ![q].path = IF online THEN "pc" ELSE "hosted"]
      <3> DEFINE w == IF online THEN "pc" ELSE "hosted"
                 r == [ask[q] EXCEPT !.pc = "lookup", !.path = w]
      <3>1. ask' = [ask EXCEPT ![q] = r]
        BY <1>2, <2>1
      <3> HIDE DEF w
      <3>2. r.late = ask[q].late /\ r.counted = ask[q].counted /\ r.stamp = ask[q].stamp
        BY <1>2 DEF AskRecords
      <3>3. ask[q].stamp <= day /\ ask[q].pc = "new"
        BY <1>1, <1>6 DEF StampsPast, AskStart, At
      <3> HIDE DEF r
      <3> QED BY <1>5, <3>1, <3>2, <3>3
    <2> QED BY <1>4, <1>6, <2>1 DEF AskStart
  <1>7. CASE AskLookup(q)
    <2>1. CASE ask' = [ask EXCEPT ![q].pc = "allow", ![q].stamp = day]
      <3> DEFINE r == [ask[q] EXCEPT !.pc = "allow", !.stamp = day]
      <3>1. ask' = [ask EXCEPT ![q] = r]
        BY <1>2, <2>1
      <3>2. r.late = ask[q].late /\ r.counted = ask[q].counted /\ r.stamp = day
        BY <1>2 DEF AskRecords
      <3>3. day <= day /\ ask[q].pc = "lookup"
        BY <1>1, <1>7 DEF AskTypeOK, Days, AskLookup, At
      <3> HIDE DEF r
      <3> QED BY <1>5, <3>1, <3>2, <3>3
    <2> QED BY <1>4, <1>7, <2>1 DEF AskLookup
  <1> QED BY <1>6, <1>7

\* allow: the entry it stores covers the questions of the day, swept or not, the
\* one it lets through included.
LEMMA AllowWithinGrant ==
    ASSUME VisitorIInv, NEW q \in Questions, allow(q)
    PROVE  StampsPast' /\ WithinGrant'
  <1> DEFINE v == VisitorOf[q]
             d == ask[q].stamp
             e == CurrentEntry(v, d)
             mine == ask[q].path
  <1>1. AskTypeOK /\ StampsPast /\ WithinGrant
    BY DEF VisitorIInv, AskIInv
  <1>2. /\ ask \in [Questions -> AskRecords] /\ ask[q] \in AskRecords
        /\ v \in Visitors /\ ask[q].pc = "allow" /\ day' = day /\ mine \in Paths
        /\ d \in Days \cup {NoDay} /\ day \in Days
    BY <1>1, AskAssumption DEF AskTypeOK, allow, At, env, AskRecords
  <1>3. ~ask[q].counted /\ ~ask[q].late /\ d <= day
    BY <1>1, <1>2 DEF StampsPast
  <1>4. PICK base \in {seen, Swept(d)} :
          \/ /\ UnderLimit(e, mine)
             /\ seen' = [base EXCEPT ![v] = Counted(e, mine)]
             /\ ask' = [ask EXCEPT ![q].pc = "knowledge", ![q].counted = TRUE,
                                   ![q].late = (d # day)]
          \/ /\ seen' = [base EXCEPT ![v] = e]
             /\ ask' = [ask EXCEPT ![q].pc = "end", ![q].late = (d # day),
                          ![q].reply = IF ask[q].left THEN "none" ELSE "refused"]
    BY DEF allow
  <1> DEFINE Entry == [day : Days \cup {NoDay}, pc : Nat, hosted : Nat]
  <1>5. seen \in [Visitors -> Entry] /\ e \in Entry /\ e.day = d
        /\ base \in [Visitors -> Entry]
    <2>1. VisitorPerDay \in Nat /\ HostedVisitorPerDay \in Nat
      BY AskAssumption
    <2>2. seen \in [Visitors -> Entry]
      BY <1>1, <2>1 DEF AskTypeOK
    <2>3. NewVisitor(NoDay) \in Entry /\ NewVisitor(d) \in Entry /\ NewVisitor(d).day = d
      BY <1>2 DEF NewVisitor
    <2>4. e \in Entry /\ e.day = d
      BY <1>2, <2>2, <2>3 DEF CurrentEntry
    <2>5. Swept(d) \in [Visitors -> Entry]
      BY <2>2, <2>3 DEF Swept
    <2> QED BY <2>2, <2>4, <2>5
  <1>6. /\ \A p \in Questions : p # q => ask'[p] = ask[p]
        /\ ask'[q].stamp = d /\ ask'[q].path = mine /\ ask'[q].late = (d # day)
        /\ ask'[q].pc \in {"knowledge", "end"}
    <2> DEFINE late == d # day
               m == IF ask[q].left THEN "none" ELSE "refused"
               let == [ask[q] EXCEPT !.pc = "knowledge", !.counted = TRUE, !.late = late]
               deny == [ask[q] EXCEPT !.pc = "end", !.late = late, !.reply = m]
    <2>1. ask' = [ask EXCEPT ![q] = let] \/ ask' = [ask EXCEPT ![q] = deny]
      BY <1>2, <1>4
    <2>2. late = (d # day)
      OBVIOUS
    <2> HIDE DEF late, m
    <2>3. \A r \in {let, deny} : /\ r.stamp = d /\ r.path = mine /\ r.late = late
                                 /\ r.pc \in {"knowledge", "end"}
      BY <1>2 DEF AskRecords
    <2> HIDE DEF let, deny
    <2>4. ask'[q] \in {let, deny} /\ \A p \in Questions : p # q => ask'[p] = ask[p]
      BY <1>2, <2>1
    <2> QED BY <2>2, <2>3, <2>4
  <1>7. \/ /\ ask'[q].counted /\ seen' = [base EXCEPT ![v] = Counted(e, mine)]
        \/ /\ ~ask'[q].counted /\ seen' = [base EXCEPT ![v] = e]
    <2> DEFINE late == d # day
               m == IF ask[q].left THEN "none" ELSE "refused"
               let == [ask[q] EXCEPT !.pc = "knowledge", !.counted = TRUE, !.late = late]
               deny == [ask[q] EXCEPT !.pc = "end", !.late = late, !.reply = m]
    <2>1. let.counted /\ deny.counted = ask[q].counted
      BY <1>2 DEF AskRecords
    <2>2. CASE /\ seen' = [base EXCEPT ![v] = Counted(e, mine)]
               /\ ask' = [ask EXCEPT ![q].pc = "knowledge", ![q].counted = TRUE,
                                     ![q].late = (d # day)]
      <3>1. ask'[q] = let
        BY <1>2, <2>2
      <3> QED BY <2>1, <2>2, <3>1
    <2>3. CASE /\ seen' = [base EXCEPT ![v] = e]
               /\ ask' = [ask EXCEPT ![q].pc = "end", ![q].late = (d # day),
                            ![q].reply = IF ask[q].left THEN "none" ELSE "refused"]
      <3>1. ask'[q] = deny
        BY <1>2, <2>3
      <3> QED BY <1>3, <2>1, <2>3, <3>1
    <2> QED BY <1>4, <2>2, <2>3
  <1> HIDE DEF v, d, e, mine
  <1>8. /\ Counted(e, mine).day = d
        /\ Counted(e, mine).pc = IF mine = "hosted" THEN e.pc ELSE e.pc + 1
        /\ Counted(e, mine).hosted = IF mine = "hosted" THEN e.hosted + 1 ELSE e.hosted
    BY <1>5 DEF Counted
  <1>9. /\ seen'[v].day = d
        /\ \A w \in Visitors : w # v => seen'[w] = base[w]
        /\ ask'[q].counted => seen'[v] = Counted(e, mine)
        /\ ~ask'[q].counted => seen'[v] = e
    BY <1>2, <1>5, <1>7, <1>8
  <1>10. \A w \in Visitors : \/ base[w] = seen[w]
                             \/ seen[w].day # d /\ base[w] = NewVisitor(NoDay)
    BY DEF Swept
  <1>11. StampsPast'
    <2>1. \A w \in Visitors : seen'[w].day <= day
      <3> SUFFICES ASSUME NEW w \in Visitors PROVE seen'[w].day <= day
        OBVIOUS
      <3>1. NewVisitor(NoDay).day <= day
        BY <1>2, AskAssumption DEF NewVisitor, NoDay, Days
      <3>2. base[w].day <= day
        BY <1>1, <1>10, <3>1 DEF StampsPast
      <3> QED BY <1>3, <1>9, <3>2
    <2> QED BY <1>1, <1>2, <1>3, <1>6, <2>1 DEF StampsPast
  <1>12. WithinGrant'
    <2> SUFFICES ASSUME OnTime', NEW w \in Visitors, NEW dd \in Days, NEW path \in Paths
                 PROVE  Cardinality(Admitted(w, dd, path)') <= Granted(w, dd, path)'
      BY DEF WithinGrant
    <2>1. d = day /\ OnTime
      BY <1>3, <1>6 DEF OnTime
    <2>2. Cardinality(Admitted(w, dd, path)) <= Granted(w, dd, path)
      BY <1>1, <2>1 DEF WithinGrant
    <2>3. e = IF seen[v].day = day THEN seen[v] ELSE NewVisitor(day)
      BY <2>1 DEF e, CurrentEntry
    <2>4. CASE w = v /\ dd = day /\ path = mine /\ ask'[q].counted
      <3>1. Admitted(w, dd, path)' = Admitted(w, dd, path) \cup {q}
        BY <1>6, <2>1, <2>4 DEF Admitted, v
      <3>2. Cardinality(Admitted(w, dd, path)') <= Cardinality(Admitted(w, dd, path)) + 1
        <4>1. /\ IsFiniteSet(Admitted(w, dd, path))
              /\ Cardinality(Admitted(w, dd, path)) \in Nat
          BY AdmittedSets
        <4>2. Cardinality(Admitted(w, dd, path) \cup {q})
                = IF q \in Admitted(w, dd, path) THEN Cardinality(Admitted(w, dd, path))
                  ELSE Cardinality(Admitted(w, dd, path)) + 1
          BY <4>1, FS_AddElement
        <4> QED BY <3>1, <4>1, <4>2
      <3>3. Granted(w, dd, path)' = Granted(w, dd, path) + 1
        BY <1>2, <1>5, <1>8, <1>9, <2>1, <2>3, <2>4 DEF Granted, Paths
      <3>4. Granted(w, dd, path) \in Nat
        BY <1>5, <2>3, <2>4 DEF Granted
      <3>5. /\ Cardinality(Admitted(w, dd, path)) \in Nat
            /\ Cardinality(Admitted(w, dd, path)') \in Nat
        BY <3>1, AdmittedSets, AdmittedSets, FS_AddElement, FS_CardinalityType
      <3> QED BY <2>2, <3>2, <3>3, <3>4, <3>5
    <2>5. CASE ~(w = v /\ dd = day /\ path = mine /\ ask'[q].counted)
      <3>1. Admitted(w, dd, path)' = Admitted(w, dd, path)
        BY <1>3, <1>6, <2>1, <2>5 DEF Admitted, v
      <3>2. Granted(w, dd, path)' = Granted(w, dd, path)
        <4>1. CASE dd # day
          BY <1>2, <4>1 DEF Granted
        <4>2. CASE dd = day /\ w # v
          <5>1. NewVisitor(NoDay).day # day
            BY <1>2, AskAssumption DEF NewVisitor, NoDay, Days
          <5> QED BY <1>2, <1>9, <1>10, <2>1, <4>2, <5>1 DEF Granted
        <4>3. CASE dd = day /\ w = v /\ ~ask'[q].counted
          BY <1>2, <1>5, <1>9, <2>1, <2>3, <4>3 DEF Granted
        <4>4. CASE dd = day /\ w = v /\ ask'[q].counted /\ path # mine
          BY <1>2, <1>5, <1>8, <1>9, <2>1, <2>3, <4>4 DEF Granted, Paths
        <4> QED BY <2>5, <4>1, <4>2, <4>3, <4>4
      <3> QED BY <2>2, <3>1, <3>2
    <2> QED BY <2>4, <2>5
  <1> QED BY <1>11, <1>12

\* A new day: nothing has been let through on it, and the old day is within the
\* allowances.
LEMMA MidnightWithinGrant ==
    ASSUME VisitorIInv, Midnight
    PROVE  StampsPast' /\ WithinGrant'
  <1>1. AskTypeOK /\ StampsPast /\ WithinGrant
    BY DEF VisitorIInv, AskIInv
  <1>2. ask' = ask /\ seen' = seen /\ day' = day + 1 /\ day \in Nat
    BY <1>1, AskAssumption DEF Midnight, AskTypeOK, Days
  <1>3. /\ \A q \in Questions : ask[q].stamp \in Int
        /\ \A v \in Visitors : seen[v].day \in Int
    BY <1>1, AskAssumption DEF AskTypeOK, AskRecords, Days, NoDay
  <1>4. StampsPast'
    BY <1>1, <1>2, <1>3 DEF StampsPast
  <1>5. WithinGrant'
    <2> SUFFICES ASSUME OnTime', NEW v \in Visitors, NEW d \in Days, NEW path \in Paths
                 PROVE  Cardinality(Admitted(v, d, path)') <= Granted(v, d, path)'
      BY DEF WithinGrant
    <2>1. Admitted(v, d, path)' = Admitted(v, d, path)
      BY <1>2 DEF Admitted
    <2>2. Cardinality(Admitted(v, d, path)) <= Granted(v, d, path)
      BY <1>1, <1>2 DEF WithinGrant, OnTime
    <2>3. Cardinality(Admitted(v, d, path)) \in Nat
      BY AdmittedSets
    <2>4. CASE d = day + 1
      <3>1. Admitted(v, d, path) = {}
        BY <1>1, <1>2, <1>3, <2>4 DEF Admitted, StampsPast
      <3>2. seen[v].day # day + 1
        BY <1>1, <1>2, <1>3 DEF StampsPast
      <3>3. Granted(v, d, path)' = 0
        BY <1>2, <2>4, <3>2 DEF Granted, NewVisitor
      <3> QED BY <2>1, <3>1, <3>3, FS_EmptySet
    <2>5. CASE d # day + 1
      <3>1. Granted(v, d, path)' = IF path = "hosted" THEN HostedVisitorPerDay ELSE VisitorPerDay
        BY <1>2, <2>5 DEF Granted
      <3>2. Granted(v, d, path) <= IF path = "hosted" THEN HostedVisitorPerDay ELSE VisitorPerDay
        BY <1>1, GrantedWithin DEF Paths
      <3>3. Granted(v, d, path) \in Nat /\ VisitorPerDay \in Nat /\ HostedVisitorPerDay \in Nat
        BY <1>1, GrantedWithin, AskAssumption DEF Paths
      <3> QED BY <2>1, <2>2, <2>3, <3>1, <3>2, <3>3
    <2> QED BY <2>4, <2>5
  <1> QED BY <1>4, <1>5

\* A restarted relay has forgotten both the entries and the questions under way.
LEMMA RestartWithinGrant ==
    ASSUME VisitorIInv, Restart
    PROVE  StampsPast' /\ WithinGrant'
  <1>1. AskTypeOK /\ StampsPast
    BY DEF VisitorIInv, AskIInv
  <1>2. day' = day /\ seen' = [v \in Visitors |-> NewVisitor(NoDay)] /\ day \in Nat
    <2>1. day' = day /\ seen' = [v \in Visitors |-> NewVisitor(NoDay)]
      BY DEF Restart
    <2>2. day \in Nat
      BY <1>1, AskAssumption DEF AskTypeOK, Days
    <2> QED BY <2>1, <2>2
  <1>3. ASSUME NEW q \in Questions
        PROVE  /\ ~ask'[q].counted
               /\ ask'[q].stamp <= day
               /\ ask'[q].late => ask'[q].pc \notin {"new", "lookup", "allow"}
    <2>1. /\ ask[q] \in AskRecords
          /\ ask'[q] = IF At(q, "new") THEN ask[q]
                       ELSE [ask[q] EXCEPT !.pc = "end", !.stamp = NoDay, !.counted = FALSE]
      BY <1>1 DEF Restart, AskTypeOK
    <2>2. CASE At(q, "new")
      BY <1>1, <2>1, <2>2 DEF StampsPast, At
    <2>3. CASE ~At(q, "new")
      <3>1. ask'[q].pc = "end" /\ ask'[q].stamp = NoDay /\ ask'[q].counted = FALSE
        BY <2>1, <2>3 DEF AskRecords
      <3> QED BY <1>2, <3>1 DEF NoDay
    <2> QED BY <2>2, <2>3
  <1>4. \A v \in Visitors : seen'[v].day <= day
    BY <1>2 DEF NewVisitor, NoDay
  <1>5. StampsPast'
    BY <1>2, <1>3, <1>4 DEF StampsPast
  <1>6. ASSUME NEW v \in Visitors, NEW d \in Days, NEW path \in Paths
        PROVE  Cardinality(Admitted(v, d, path)') <= Granted(v, d, path)'
    <2>1. Admitted(v, d, path)' = {}
      BY <1>3 DEF Admitted
    <2>2. Granted(v, d, path)' >= 0
      BY <1>2, AskAssumption DEF Granted, NewVisitor, NoDay
    <2> QED BY <2>1, <2>2, FS_EmptySet
  <1>7. WithinGrant'
    BY <1>6 DEF WithinGrant
  <1> QED BY <1>5, <1>7

\* Every step keeps the grants.
LEMMA GrantStep == VisitorIInv /\ [AskNext]_askVars => VisitorIInv'
  <1> SUFFICES ASSUME VisitorIInv, [AskNext]_askVars PROVE StampsPast' /\ WithinGrant'
    BY NextIInv DEF VisitorIInv
  <1>1. AskTypeOK /\ StampsPast /\ WithinGrant
    BY DEF VisitorIInv, AskIInv
  <1>2. CASE UNCHANGED <<ask, seen, day>>
    BY <1>1, <1>2, NobodyAdmitted DEF StampsPast
  <1>3. ASSUME NEW q \in Questions, seen' = seen, day' = day,
               \/ \E s \in Places \ {"new", "lookup", "allow"} : Goto(q, s)
               \/ \E r \in Replies : Reply(q, r)
               \/ VisitorLeaves(q)
        PROVE  StampsPast' /\ WithinGrant'
    <2>1. CASE \E s \in Places \ {"new", "lookup", "allow"} : Goto(q, s)
      BY <1>1, <1>3, <2>1, GotoBecomes, MoveWithinGrant
    <2>2. CASE \E r \in Replies : Reply(q, r)
      <3>1. PICK m : Becomes(q, "end", m)
        BY <1>1, <2>2, ReplyBecomes
      <3> QED BY <1>1, <1>3, <3>1, MoveWithinGrant
    <2>3. CASE VisitorLeaves(q)
      BY <1>1, <1>3, <2>3, LeavesBecomes, MoveWithinGrant
    <2> QED BY <1>3, <2>1, <2>2, <2>3
  <1>4. ASSUME NEW q \in Questions,
               \/ AskKnowledge(q) \/ AskAcquire(q) \/ AskUsage(q) \/ AskInsert(q) \/ AskCount(q)
               \/ AskResult(q) \/ AskGivesUp(q) \/ AskCancel(q) \/ HostedCount(q)
               \/ HostedAnswer(q) \/ VisitorLeaves(q)
        PROVE  StampsPast' /\ WithinGrant'
    <2>1. seen' = seen /\ day' = day
      BY <1>4 DEF AskKnowledge, AskAcquire, AskUsage, AskInsert, AskCount, AskResult, AskGivesUp,
                  AskCancel, HostedCount, HostedAnswer, VisitorLeaves, env
    <2>2. \/ \E s \in Places \ {"new", "lookup", "allow"} : Goto(q, s)
          \/ \E r \in Replies : Reply(q, r)
          \/ VisitorLeaves(q)
          \/ ask' = ask
      BY <1>4
      DEF AskKnowledge, AskAcquire, AskUsage, AskInsert, AskCount, AskResult, AskGivesUp,
          AskCancel, HostedCount, HostedAnswer, ReplyRelease, Places, Replies
    <2> QED BY <1>2, <1>3, <2>1, <2>2
  <1>5. ASSUME NEW q \in Questions, RowStep(q) PROVE UNCHANGED <<ask, seen, day>>
    BY <1>5 DEF RowStep, Claim, Ack, Requeue, env
  <1>6. ASSUME NEW e \in Enqueues, EnqueueStep(e) PROVE UNCHANGED <<ask, seen, day>>
    BY <1>6 DEF EnqueueStep, EnqueueCheck, EnqueueInsert, EnqueueCount, env
  <1>7. Refresh \/ Presence \/ UNCHANGED askVars => UNCHANGED <<ask, seen, day>>
    BY DEF Refresh, Presence, askVars
  <1> QED
    BY <1>2, <1>4, <1>5, <1>6, <1>7, StartWithinGrant, AllowWithinGrant, MidnightWithinGrant,
       RestartWithinGrant
    DEF AskNext, AskStep

\* askVisitors.allow never lets a visitor beyond the two daily allowances, for any
\* number of questions at once, sweeps, days and restarts, as long as no question
\* is overtaken by midnight between reading the clock and counting.
THEOREM AllowancesKept == AskSpec => []VisitorCapped
  <1>1. AskInit => VisitorIInv
    <2> SUFFICES ASSUME AskInit PROVE StampsPast /\ WithinGrant
      BY InitIInv DEF VisitorIInv
    <2>1. \A q \in Questions : ask[q] = NewAsk
      BY DEF AskInit
    <2>2. NewAsk.stamp = NoDay /\ NewAsk.counted = FALSE /\ NewAsk.late = FALSE
      BY DEF NewAsk
    <2>3. day = 0 /\ \A v \in Visitors : seen[v] = NewVisitor(NoDay)
      BY DEF AskInit
    <2>4. StampsPast
      BY <2>1, <2>2, <2>3 DEF StampsPast, NewVisitor, NoDay
    <2>5. ASSUME NEW v \in Visitors, NEW d \in Days, NEW path \in Paths
          PROVE  Cardinality(Admitted(v, d, path)) <= Granted(v, d, path)
      <3>1. Admitted(v, d, path) = {}
        BY <2>1, <2>2 DEF Admitted
      <3>2. Granted(v, d, path) >= 0
        BY <2>3, AskAssumption DEF Granted, NewVisitor, NoDay
      <3> QED BY <3>1, <3>2, FS_EmptySet
    <2> QED BY <2>4, <2>5 DEF WithinGrant
  <1>2. VisitorIInv => VisitorCapped
    <2> SUFFICES ASSUME VisitorIInv, OnTime, NEW v \in Visitors, NEW d \in Days
                 PROVE  /\ Cardinality(Admitted(v, d, "pc")) <= VisitorPerDay
                        /\ Cardinality(Admitted(v, d, "hosted")) <= HostedVisitorPerDay
      BY DEF VisitorCapped, OnTime
    <2>1. AskTypeOK /\ WithinGrant
      BY DEF VisitorIInv, AskIInv
    <2>2. /\ Cardinality(Admitted(v, d, "pc")) <= Granted(v, d, "pc")
          /\ Cardinality(Admitted(v, d, "hosted")) <= Granted(v, d, "hosted")
      BY <2>1 DEF WithinGrant, Paths
    <2>3. /\ Cardinality(Admitted(v, d, "pc")) \in Nat
          /\ Cardinality(Admitted(v, d, "hosted")) \in Nat
      BY AdmittedSets
    <2>4. /\ Granted(v, d, "pc") \in 0..VisitorPerDay
          /\ Granted(v, d, "hosted") \in 0..HostedVisitorPerDay
          /\ VisitorPerDay \in Nat /\ HostedVisitorPerDay \in Nat
      BY <2>1, GrantedWithin, AskAssumption
    <2> QED BY <2>2, <2>3, <2>4
  <1> QED BY <1>1, <1>2, GrantStep, PTL DEF AskSpec
=============================================================================
