-------------------------- MODULE Settlement_proofs --------------------------
(***************************************************************************)
(* Proofs about Settlement, for any fixtures, processes, budgets, failures *)
(* and corrections.                                                        *)
(*                                                                         *)
(* Why it works: a row is made only from an answer that was published, and *)
(* the lock lets one run of the unit at a time, so the outcomes the unit   *)
(* has recorded when a run of it reads its list are those it finds when it *)
(* commits.                                                                *)
(***************************************************************************)
EXTENDS Settlement, TLAPS, FiniteSetTheorems

(* The rows a process holds are of published answers.                      *)
RowsArePublished ==
  \A s \in Settlers : \A r \in Rows(s) : <<r.fixture, r.answer>> \in published

(* The lock: one run of the unit at a time.                                *)
OneOfTheUnit ==
  \A s, r \in Locked : settler[s].pc # "off" /\ settler[r].pc # "off" => s = r

(* The loop asks once about each fixture of the list.                      *)
Done(s) == settler[s].list \ settler[s].left

RowsAreOfTheList ==
  \A s \in Settlers :
    /\ settler[s].reply # None =>
         /\ settler[s].reply.fixture \in Done(s)
         /\ \A r \in Rows(s) : r.fixture # settler[s].reply.fixture
    /\ \A r \in Rows(s) : r.fixture \in Done(s) /\ r.unit = (s \in Locked)
    /\ \A r, q \in Rows(s) : r.fixture = q.fixture => r = q

(* What a run of the unit has on its list, no run of the unit has settled. *)
ListsAreOpen ==
  \A s \in Locked : \A o \in db.outcomes : o.unit => o.fixture \notin settler[s].list

IInv ==
  /\ TypeOK
  /\ RowsArePublished
  /\ OutcomesAreEvidenced
  /\ OneOfTheUnit
  /\ RowsAreOfTheList
  /\ ListsAreOpen
  /\ TimersSettleOnce

-----------------------------------------------------------------------------
(* First chooses among the fixtures it is given.                           *)
LEMMA FirstIsPart ==
  ASSUME NEW n, NEW S PROVE First(n, S) \subseteq S
BY DEF First

LEMMA InitInv == Init => IInv
<1> SUFFICES ASSUME Init PROVE IInv
  OBVIOUS
<1>1. TypeOK
  BY SettlementAssumption, FirstIsPart
     DEF Init, TypeOK, Off, Memory, Plain, Answers, Kinds, RowOf, Asked
<1>2. RowsArePublished /\ OutcomesAreEvidenced /\ OneOfTheUnit
  BY SettlementAssumption
     DEF Init, RowsArePublished, OutcomesAreEvidenced, OneOfTheUnit, Rows, Off
<1>3. RowsAreOfTheList /\ ListsAreOpen /\ TimersSettleOnce
  BY SettlementAssumption
     DEF Init, RowsAreOfTheList, ListsAreOpen, TimersSettleOnce, Rows, Off, Done
<1> QED BY <1>1, <1>2, <1>3 DEF IInv

-----------------------------------------------------------------------------
(* The list of a run that begins.                                          *)
LEMMA PendingIsOpen ==
  ASSUME TypeOK
  PROVE  /\ Pending \subseteq due
         /\ \A o \in db.outcomes : o.fixture \notin Pending
BY FirstIsPart DEF Pending, Unsettled, Settled

LEMMA BeginInv ==
  ASSUME IInv, NEW s \in Settlers, Begin(s)
  PROVE  IInv'
<1> DEFINE memory == [Off EXCEPT !.pc = "asking", !.list = Pending,
                                 !.left = First(Budget, Pending)]
<1>1. settler' = [settler EXCEPT ![s] = memory]
  BY DEF Begin
<1>2. memory \in Memory
  BY PendingIsOpen, FirstIsPart DEF IInv, TypeOK, Memory, Off
<1>3. settler'[s] = memory /\ \A r \in Settlers \ {s} : settler'[r] = settler[r]
  BY <1>1 DEF IInv, TypeOK
<1>4. TypeOK'
  <2>1. memory.left = First(Budget, memory.list)
    BY DEF Off
  <2>2. \A r \in Settlers : settler'[r].left \subseteq First(Budget, settler'[r].list)
    <3> SUFFICES ASSUME NEW r \in Settlers
                 PROVE  settler'[r].left \subseteq First(Budget, settler'[r].list)
      OBVIOUS
    <3>1. CASE r = s
      <4> HIDE DEF memory
      <4> QED BY <1>3, <2>1, <3>1
    <3>2. CASE r # s
      BY <1>3, <3>2 DEF IInv, TypeOK, Asked
    <3> QED BY <3>1, <3>2
  <2> QED
    BY <1>1, <1>2, <1>3, <2>2, PendingIsOpen DEF IInv, TypeOK, Asked, Begin, world, Off
<1>5. (RowsArePublished /\ OutcomesAreEvidenced /\ RowsAreOfTheList)'
  BY <1>3 DEF IInv, RowsArePublished, OutcomesAreEvidenced, RowsAreOfTheList, Rows, Done,
              Begin, Off
<1>6. OneOfTheUnit'
  BY <1>3, SettlementAssumption DEF IInv, OneOfTheUnit, Begin, MayStart
<1>7. (ListsAreOpen /\ TimersSettleOnce)'
  BY <1>3, PendingIsOpen, SettlementAssumption
     DEF IInv, ListsAreOpen, TimersSettleOnce, Begin, Off
<1> QED BY <1>4, <1>5, <1>6, <1>7 DEF IInv

(* A process that ends or dies, with nothing recorded.                     *)
LEMMA GoneInv ==
  ASSUME IInv, NEW s \in Settlers, settler' = Gone(s), troubles' \in 0..MaxTroubles,
         UNCHANGED <<world, published, db>>
  PROVE  IInv'
<1>1. settler'[s] = Off /\ \A r \in Settlers \ {s} : settler'[r] = settler[r]
  BY DEF Gone, IInv, TypeOK
<1>2. TypeOK'
  <2>1. Off \in Memory
    BY DEF Off, Memory
  <2>2. \A r \in Settlers : settler'[r].left \subseteq First(Budget, settler'[r].list)
    BY <1>1 DEF IInv, TypeOK, Asked, Off
  <2> QED BY <1>1, <2>1, <2>2 DEF IInv, TypeOK, Asked, Gone, world, Off
<1>3. (RowsArePublished /\ OutcomesAreEvidenced /\ RowsAreOfTheList)'
  BY <1>1 DEF IInv, RowsArePublished, OutcomesAreEvidenced, RowsAreOfTheList, Rows, Done, Off
<1>4. OneOfTheUnit'
  BY <1>1, SettlementAssumption DEF IInv, OneOfTheUnit, Off
<1>5. (ListsAreOpen /\ TimersSettleOnce)'
  BY <1>1, SettlementAssumption DEF IInv, ListsAreOpen, TimersSettleOnce, Off
<1> QED BY <1>2, <1>3, <1>4, <1>5 DEF IInv

LEMMA Troubles ==
  ASSUME TypeOK, Trouble \/ Smooth
  PROVE  troubles' \in 0..MaxTroubles
BY SettlementAssumption DEF TypeOK, Trouble, Smooth

-----------------------------------------------------------------------------
(* What the loop does to the memory of a process that stays in it.         *)
LEMMA LoopInv ==
  ASSUME IInv, NEW s \in Settlers, NEW memory \in Memory,
         settler' = [settler EXCEPT ![s] = memory],
         settler[s].pc # "off", memory.pc # "off",
         memory.pc = "publishing" <=> memory.reply # None,
         memory.list = settler[s].list,
         memory.left \subseteq settler[s].left,
         memory.reply # None => memory.reply.fixture \in memory.list \ memory.left,
         \A r \in memory.rows :
           /\ r.fixture \in memory.list \ memory.left
           /\ r.unit = (s \in Locked)
           /\ <<r.fixture, r.answer>> \in published',
         \A r \in memory.rows : memory.reply # None => r.fixture # memory.reply.fixture,
         \A r, q \in memory.rows : r.fixture = q.fixture => r = q,
         published \subseteq published', published' \subseteq Fixtures \X Answers,
         troubles' \in 0..MaxTroubles,
         UNCHANGED <<world, db>>
  PROVE  IInv'
<1>1. settler'[s] = memory /\ \A r \in Settlers \ {s} : settler'[r] = settler[r]
  BY DEF IInv, TypeOK
<1>2. TypeOK'
  <2>1. \A r \in Settlers : settler'[r].left \subseteq First(Budget, settler'[r].list)
    BY <1>1 DEF IInv, TypeOK, Asked
  <2> QED BY <1>1, <2>1 DEF IInv, TypeOK, Asked, world
<1>3. (RowsArePublished /\ OutcomesAreEvidenced)'
  BY <1>1 DEF IInv, RowsArePublished, OutcomesAreEvidenced, Rows
<1>4. RowsAreOfTheList'
  <2> SUFFICES ASSUME NEW t \in Settlers
               PROVE  /\ settler'[t].reply # None =>
                           /\ settler'[t].reply.fixture \in settler'[t].list \ settler'[t].left
                           /\ \A r \in settler'[t].rows : r.fixture # settler'[t].reply.fixture
                      /\ \A r \in settler'[t].rows :
                           /\ r.fixture \in settler'[t].list \ settler'[t].left
                           /\ r.unit = (t \in Locked)
                      /\ \A r, q \in settler'[t].rows : r.fixture = q.fixture => r = q
    BY DEF RowsAreOfTheList, Rows, Done
  <2>1. CASE t = s
    BY <1>1, <2>1
  <2>2. CASE t # s
    BY <1>1, <2>2 DEF IInv, RowsAreOfTheList, Rows, Done
  <2> QED BY <2>1, <2>2
<1>5. OneOfTheUnit'
  BY <1>1, SettlementAssumption DEF IInv, OneOfTheUnit
<1>6. (ListsAreOpen /\ TimersSettleOnce)'
  BY <1>1, SettlementAssumption DEF IInv, ListsAreOpen, TimersSettleOnce
<1> QED BY <1>2, <1>3, <1>4, <1>5, <1>6 DEF IInv

LEMMA AskInv ==
  ASSUME IInv, NEW s \in Settlers, NEW f \in Fixtures, Ask(s, f)
  PROVE  IInv'
<1> DEFINE old == settler[s]
<1>0. /\ old \in Memory /\ old.pc = "asking" /\ old.reply = None
      /\ f \in old.left /\ old.left \subseteq old.list
      /\ UNCHANGED <<world, published, db>>
  <2>1. Asked(s) \subseteq old.list
    BY FirstIsPart DEF Asked
  <2> QED BY <2>1 DEF Ask, IsNext, IInv, TypeOK
<1>1. troubles' \in 0..MaxTroubles
  BY Troubles DEF Ask, IInv
<1>2. /\ \A r \in old.rows : /\ r.fixture \in old.list \ old.left
                             /\ r.unit = (s \in Locked)
                             /\ <<r.fixture, r.answer>> \in published
      /\ \A r, q \in old.rows : r.fixture = q.fixture => r = q
  BY DEF IInv, RowsAreOfTheList, RowsArePublished, Rows, Done
<1>3. published' = published /\ published \subseteq Fixtures \X Answers
  BY <1>0 DEF IInv, TypeOK
<1> HIDE DEF old
<1>4. CASE settler' = [settler EXCEPT ![s].left = @ \ {f}, ![s].unresolved = @ + 1]
  <2> DEFINE memory == [old EXCEPT !.left = @ \ {f}, !.unresolved = @ + 1]
  <2>1. settler' = [settler EXCEPT ![s] = memory]
    BY <1>4 DEF IInv, TypeOK, old
  <2>2. old.left \ {f} \in SUBSET Fixtures /\ old.unresolved + 1 \in Nat
    BY <1>0 DEF Memory
  <2>3. memory \in Memory
    BY <1>0, <2>2 DEF Memory
  <2>4. /\ memory.pc = "asking" /\ memory.reply = None
        /\ memory.list = old.list /\ memory.left = old.left \ {f} /\ memory.rows = old.rows
    BY <1>0 DEF Memory
  <2> HIDE DEF memory
  <2>5. \A r \in memory.rows : /\ r.fixture \in memory.list \ memory.left
                               /\ r.unit = (s \in Locked)
                               /\ <<r.fixture, r.answer>> \in published'
    BY <1>2, <1>3, <2>4
  <2> QED BY <1>0, <1>1, <1>2, <1>3, <2>1, <2>3, <2>4, <2>5, LoopInv DEF old
<1>5. CASE \E answer \in {course[f], Plain("EMPTY")} :
             settler' = [settler EXCEPT ![s].pc = "publishing", ![s].left = @ \ {f},
                                        ![s].reply = [fixture |-> f, answer |-> answer]]
  <2>0. PICK answer \in {course[f], Plain("EMPTY")} :
             settler' = [settler EXCEPT ![s].pc = "publishing", ![s].left = @ \ {f},
                                        ![s].reply = [fixture |-> f, answer |-> answer]]
    BY <1>5
  <2> DEFINE reply  == [fixture |-> f, answer |-> answer]
             memory == [old EXCEPT !.pc = "publishing", !.left = @ \ {f}, !.reply = reply]
  <2>1. settler' = [settler EXCEPT ![s] = memory]
    BY <2>0 DEF IInv, TypeOK, old
  <2>2. reply \in Replies /\ reply # None /\ reply.fixture = f
    <3>1. answer \in Answers
      BY SettlementAssumption DEF IInv, TypeOK, Plain, Answers, Kinds
    <3> QED BY <3>1, SettlementAssumption DEF Replies
  <2> HIDE DEF reply
  <2>3. memory \in Memory
    BY <1>0, <2>2 DEF Memory
  <2>4. /\ memory.pc = "publishing" /\ memory.reply = reply
        /\ memory.list = old.list /\ memory.left = old.left \ {f} /\ memory.rows = old.rows
    BY <1>0 DEF Memory
  <2> HIDE DEF memory
  <2>5. \A r \in memory.rows : /\ r.fixture \in memory.list \ memory.left
                               /\ r.unit = (s \in Locked)
                               /\ <<r.fixture, r.answer>> \in published'
                               /\ r.fixture # memory.reply.fixture
    BY <1>0, <1>2, <1>3, <2>2, <2>4
  <2>6. memory.reply.fixture \in memory.list \ memory.left
    BY <1>0, <2>2, <2>4
  <2>7. \A r, q \in memory.rows : r.fixture = q.fixture => r = q
    BY <1>2, <2>4
  <2>8. old.pc # "off" /\ memory.pc # "off" /\ memory.left \subseteq old.left
        /\ memory.pc = "publishing" /\ memory.reply # None
    BY <1>0, <2>2, <2>4
  <2>9. /\ \A r \in memory.rows : /\ r.fixture \in memory.list \ memory.left
                                  /\ r.unit = (s \in Locked)
                                  /\ <<r.fixture, r.answer>> \in published'
        /\ \A r \in memory.rows : memory.reply # None => r.fixture # memory.reply.fixture
    BY <2>5
  <2>10. /\ settler[s].pc # "off" /\ memory.list = settler[s].list
         /\ memory.left \subseteq settler[s].left
    BY <2>4, <2>8 DEF old
  <2>11. UNCHANGED <<world, db>>
    BY <1>0
  <2> HIDE DEF old
  <2> QED BY <2>11, <1>1, <1>3, <2>1, <2>3, <2>6, <2>7, <2>8, <2>9, <2>10, LoopInv
<1> QED BY <1>4, <1>5 DEF Ask

LEMMA PublishInv ==
  ASSUME IInv, NEW s \in Settlers, Publish(s)
  PROVE  IInv'
<1>1. troubles' \in 0..MaxTroubles
  BY Troubles DEF Publish, PublishFails, IInv
<1>2. CASE PublishFails(s) /\ published' = published
  BY <1>1, <1>2, GoneInv DEF Publish, PublishFails
<1>3. CASE /\ published' = published \union {<<Row(s).fixture, Row(s).answer>>}
           /\ settler' = Handled(s)
  <2> DEFINE old    == settler[s]
             kind   == old.reply.answer.kind
             row    == Row(s)
             memory == [old EXCEPT !.pc = "asking", !.reply = None,
                                   !.rows = @ \union {row},
                                   !.pending = @ + One(kind \in {"EMPTY", "NOT_TERMINAL"}),
                                   !.unresolved = @ + One(kind = "REJECTED")]
  <2>1. settler' = [settler EXCEPT ![s] = memory]
    BY <1>3 DEF Handled, IInv, TypeOK
  <2>2. /\ old \in Memory /\ old.pc = "publishing" /\ old.reply \in Replies
        /\ old.reply # None
        /\ UNCHANGED <<world, db>>
    BY DEF Publish, IInv, TypeOK, Memory
  <2>3. /\ old.reply.fixture \in old.list \ old.left
        /\ \A r \in old.rows : /\ r.fixture \in old.list \ old.left
                               /\ r.fixture # old.reply.fixture
                               /\ r.unit = (s \in Locked)
                               /\ <<r.fixture, r.answer>> \in published
        /\ \A r, q \in old.rows : r.fixture = q.fixture => r = q
    BY <2>2 DEF IInv, RowsAreOfTheList, RowsArePublished, Rows, Done
  <2>4. /\ row \in RowOf
        /\ row.fixture = old.reply.fixture /\ row.unit = (s \in Locked)
        /\ <<row.fixture, row.answer>> \in Fixtures \X Answers
    BY <2>2 DEF Row, RowOf, Replies
  <2>5. published' = published \union {<<row.fixture, row.answer>>}
    BY <1>3
  <2>6. published' \subseteq Fixtures \X Answers
    BY <2>4, <2>5 DEF IInv, TypeOK
  <2>7. /\ old.pending + One(kind \in {"EMPTY", "NOT_TERMINAL"}) \in Nat
        /\ old.unresolved + One(kind = "REJECTED") \in Nat
        /\ old.rows \union {row} \in SUBSET RowOf
    BY <2>2, <2>4 DEF Memory, One
  <2> HIDE DEF row, old, kind
  <2>8. memory \in Memory
    BY <2>2, <2>7 DEF Memory
  <2>9. /\ memory.pc = "asking" /\ memory.reply = None
        /\ memory.list = old.list /\ memory.left = old.left
        /\ memory.rows = old.rows \union {row}
    BY <2>2 DEF Memory
  <2> HIDE DEF memory
  <2>10. \A r \in memory.rows : /\ r.fixture \in memory.list \ memory.left
                                /\ r.unit = (s \in Locked)
                                /\ <<r.fixture, r.answer>> \in published'
    BY <2>3, <2>4, <2>5, <2>9
  <2>11. \A r, q \in memory.rows : r.fixture = q.fixture => r = q
    <3> SUFFICES ASSUME NEW r \in memory.rows, NEW q \in memory.rows, r.fixture = q.fixture
                 PROVE  r = q
      OBVIOUS
    <3>1. /\ r \in old.rows \/ r = row
          /\ q \in old.rows \/ q = row
      BY <2>9
    <3>2. \A o \in old.rows : o.fixture # row.fixture
      BY <2>3, <2>4
    <3>3. CASE r \in old.rows /\ q \in old.rows
      BY <3>3, <2>3
    <3>4. CASE r = row /\ q = row
      BY <3>4
    <3> QED BY <3>1, <3>2, <3>3, <3>4
  <2>12. published \subseteq published'
    BY <2>5
  <2> QED
    BY <1>1, <2>1, <2>2, <2>6, <2>8, <2>9, <2>10, <2>11, <2>12, LoopInv DEF old
<1> QED BY <1>2, <1>3 DEF Publish

-----------------------------------------------------------------------------
(* The transaction, when it succeeds.                                      *)
LEMMA CommitInv ==
  ASSUME IInv, NEW s \in Settlers, Commit(s)
  PROVE  IInv'
<1>1. troubles' \in 0..MaxTroubles
  BY Troubles DEF Commit, IInv
<1>2. settler' = Gone(s) /\ UNCHANGED <<world, published>>
  BY DEF Commit
<1>3. CASE db' = db
  BY <1>1, <1>2, <1>3, GoneInv
<1>4. CASE db' = [evidence |-> db.evidence \union Rows(s),
                  outcomes |-> db.outcomes \union OutcomeRows(s)]
  <2>1. settler'[s] = Off /\ \A r \in Settlers \ {s} : settler'[r] = settler[r]
    BY <1>2 DEF Gone, IInv, TypeOK
  <2>2. TypeOK'
    <3>1. Off \in Memory
      BY DEF Off, Memory
    <3>2. \A r \in Settlers : settler'[r].left \subseteq First(Budget, settler'[r].list)
      BY <2>1 DEF IInv, TypeOK, Asked, Off
    <3>3. Rows(s) \subseteq RowOf /\ OutcomeRows(s) \subseteq RowOf
      BY DEF IInv, TypeOK, Memory, Rows, OutcomeRows
    <3> QED BY <1>1, <1>2, <1>4, <2>1, <3>1, <3>2, <3>3
            DEF IInv, TypeOK, Asked, Gone, world, Off
  <2>3. (RowsArePublished /\ RowsAreOfTheList)'
    BY <1>2, <2>1 DEF IInv, RowsArePublished, RowsAreOfTheList, Rows, Done, Off
  <2>4. OutcomesAreEvidenced'
    BY <1>2, <1>4 DEF IInv, OutcomesAreEvidenced, RowsArePublished, OutcomeRows
  <2>5. OneOfTheUnit'
    BY <2>1, SettlementAssumption DEF IInv, OneOfTheUnit, Off
  <2>6. ListsAreOpen'
    <3> SUFFICES ASSUME NEW t \in Locked, NEW o \in db'.outcomes, o.unit
                 PROVE  o.fixture \notin settler'[t].list
      BY DEF ListsAreOpen
    <3>1. CASE settler'[t] = Off
      BY <3>1 DEF Off
    <3>2. CASE settler'[t] # Off
      <4>1. t # s /\ settler'[t] = settler[t] /\ settler[t].pc # "off"
        BY <2>1, <3>2, SettlementAssumption DEF IInv, TypeOK
      <4>2. o \notin OutcomeRows(s)
        BY <4>1, SettlementAssumption
           DEF OutcomeRows, IInv, RowsAreOfTheList, OneOfTheUnit, Commit, Rows
      <4> QED BY <1>4, <4>1, <4>2 DEF IInv, ListsAreOpen
    <3> QED BY <3>1, <3>2
  <2>7. TimersSettleOnce'
    <3> SUFFICES ASSUME NEW o \in db'.outcomes, NEW p \in db'.outcomes,
                        o.fixture = p.fixture, o.unit, p.unit
                 PROVE  o = p
      BY DEF TimersSettleOnce
    <3>1. ASSUME NEW n \in db.outcomes, n.unit, NEW r \in Rows(s), r.unit
          PROVE  n.fixture # r.fixture
      BY <3>1 DEF IInv, RowsAreOfTheList, ListsAreOpen, Done
    <3>2. OutcomeRows(s) \subseteq Rows(s)
      BY DEF OutcomeRows
    <3> QED BY <1>4, <3>1, <3>2 DEF IInv, TimersSettleOnce, RowsAreOfTheList
  <2> QED BY <2>2, <2>3, <2>4, <2>5, <2>6, <2>7 DEF IInv
<1> QED BY <1>3, <1>4 DEF Commit

(* Time and the provider change nothing that was read or recorded.         *)
LEMMA WorldInv ==
  ASSUME IInv, NEW f \in Fixtures, World(f)
  PROVE  IInv'
<1>1. TypeOK'
  <2>1. due \subseteq due' /\ due' \subseteq Fixtures
    BY DEF World, FallDue, Played, Moved, Corrected, Report, IInv, TypeOK
  <2>2. course' \in [Fixtures -> Answers]
    BY SettlementAssumption
       DEF World, FallDue, Played, Moved, Corrected, Report, Plain, Answers, Kinds, IInv, TypeOK
  <2> QED BY <2>1, <2>2 DEF World, IInv, TypeOK, Asked
<1> QED
  BY <1>1 DEF World, IInv, RowsArePublished, OutcomesAreEvidenced, OneOfTheUnit,
              RowsAreOfTheList, ListsAreOpen, TimersSettleOnce, Rows, Done

LEMMA StutterInv ==
  ASSUME IInv, UNCHANGED vars
  PROVE  IInv'
BY DEF vars, world, IInv, TypeOK, Asked, RowsArePublished, OutcomesAreEvidenced, OneOfTheUnit,
       RowsAreOfTheList, ListsAreOpen, TimersSettleOnce, Rows, Done

LEMMA NextInv == IInv /\ [Next]_vars => IInv'
<1> SUFFICES ASSUME IInv, [Next]_vars PROVE IInv'
  OBVIOUS
<1>1. ASSUME NEW s \in Settlers, Run(s) PROVE IInv'
  BY <1>1, BeginInv, AskInv, PublishInv, CommitInv DEF Run
<1>2. ASSUME NEW s \in Settlers, Crash(s) PROVE IInv'
  BY <1>2, Troubles, GoneInv DEF Crash, IInv
<1>3. ASSUME NEW f \in Fixtures, World(f) PROVE IInv'
  BY <1>3, WorldInv
<1> QED BY <1>1, <1>2, <1>3, StutterInv DEF Next

-----------------------------------------------------------------------------
(* What is typed stays typed: lists are of due fixtures, replies of the    *)
(* publishing ones, and no memory outlives its process.                    *)
THEOREM SettlementTypeCorrect == Spec => []TypeOK
<1>1. IInv => TypeOK
  BY DEF IInv
<1> QED BY <1>1, InitInv, NextInv, PTL DEF Spec

(* However runs fail, die or overlap, an outcome has an evidence row and   *)
(* its bytes in the evidence store (settle-pending.ts:107-146).            *)
THEOREM OutcomesShown == Spec => []OutcomesAreEvidenced
<1>1. IInv => OutcomesAreEvidenced
  BY DEF IInv
<1> QED BY <1>1, InitInv, NextInv, PTL DEF Spec

(* The lock of the unit and the query of settlePending settle each fixture *)
(* once, for any list, budget and corrections of the provider.             *)
THEOREM SettledOnce == Spec => []TimersSettleOnce
<1>1. IInv => TimersSettleOnce
  BY DEF IInv
<1> QED BY <1>1, InitInv, NextInv, PTL DEF Spec

-----------------------------------------------------------------------------
(* The books of a run: every fixture it has asked about is in them once.   *)

OutcomeRowsOf(m) == {r \in m.rows : r.answer.kind = "TERMINAL"}

Balanced(m) ==
  /\ IsFiniteSet(m.rows)
  /\ m.pending + m.unresolved + Cardinality(OutcomeRowsOf(m))
       + Cardinality(m.left) + One(m.pc = "publishing") = Cardinality(First(Budget, m.list))
  /\ Cardinality(m.rows) + Cardinality(m.left) + One(m.pc = "publishing")
       <= Cardinality(First(Budget, m.list))

Books ==
  /\ IInv
  /\ \A s \in Settlers : Balanced(settler[s])
  /\ RunAddsUp

LEMMA LargestElement ==
  ASSUME NEW T, T \subseteq Nat, IsFiniteSet(T), T # {}
  PROVE  \E m \in T : \A g \in T : g <= m
<1> DEFINE Above(f) == {g \in T : g > f}
           Tops     == {Above(f) : f \in T}
<1>1. IsWellFoundedOn(StrictSubsetOrdering(T), FiniteSubsetsOf(T))
  BY FS_StrictSubsetOrderingWellFounded
<1>2. Tops \subseteq SUBSET T /\ Tops # {}
  OBVIOUS
<1>3. Tops \subseteq FiniteSubsetsOf(T)
  BY <1>2, FS_FiniteSubsetsOfFinite
<1> HIDE DEF Tops
<1>4. PICK top \in Tops : \A other \in Tops : ~(<<other, top>> \in StrictSubsetOrdering(T))
  BY <1>1, <1>2, <1>3, WFMin
<1>5. PICK m \in T : top = Above(m)
  BY DEF Tops
<1>6. ASSUME NEW g \in T, g > m
      PROVE  FALSE
  <2>1. Above(g) \subseteq Above(m) /\ g \in Above(m) /\ g \notin Above(g)
    <3>1. g \in Nat /\ m \in Nat /\ ~(g > g)
      OBVIOUS
    <3>2. \A x \in T : x > g => x > m
      BY <1>6, <3>1
    <3>3. QED
      BY <1>6, <3>1, <3>2
  <2>2. Above(g) \in Tops /\ Above(g) \in SUBSET T /\ Above(m) \in SUBSET T
    BY DEF Tops
  <2> HIDE DEF Above
  <2>3. <<Above(g), Above(m)>> \in StrictSubsetOrdering(T)
    BY <2>1, <2>2 DEF StrictSubsetOrdering
  <2>4. QED
    BY <1>4, <1>5, <2>2, <2>3
<1>7. QED
  BY <1>6

(* First takes as many as it should, at most.                              *)
LEMMA FirstIsFew ==
  ASSUME NEW n \in Nat, NEW S, S \subseteq Nat, IsFiniteSet(S)
  PROVE  /\ IsFiniteSet(First(n, S)) /\ Cardinality(First(n, S)) \in Nat
         /\ Cardinality(First(n, S)) <= n
<1>1. First(n, S) \in SUBSET S
  BY FirstIsPart
<1>2. IsFiniteSet(First(n, S)) /\ Cardinality(First(n, S)) \in Nat
  BY <1>1, FS_Subset, FS_CardinalityType
<1>3. CASE First(n, S) = {}
  BY <1>2, <1>3, FS_EmptySet
<1>4. CASE First(n, S) # {}
  <2>1. PICK m \in First(n, S) : \A g \in First(n, S) : g <= m
    BY <1>1, <1>2, <1>4, LargestElement
  <2> DEFINE U == {g \in S : g <= m}
  <2>2. Cardinality(U) <= n
    BY DEF First
  <2>3. First(n, S) \in SUBSET U /\ U \in SUBSET S
    BY <1>1, <2>1
  <2> HIDE DEF U
  <2>4. IsFiniteSet(U) /\ Cardinality(U) \in Nat
    BY <2>3, FS_Subset, FS_CardinalityType
  <2>5. Cardinality(First(n, S)) <= Cardinality(U)
    BY <2>3, <2>4, FS_Subset
  <2>6. QED
    BY <1>2, <2>2, <2>4, <2>5
<1>5. QED
  BY <1>2, <1>3, <1>4

(* The parts of a memory are finite, and what was asked is within the      *)
(* budget.                                                                 *)
LEMMA Sizes ==
  ASSUME TypeOK, NEW s \in Settlers
  PROVE  /\ IsFiniteSet(settler[s].list) /\ Cardinality(settler[s].list) \in Nat
         /\ IsFiniteSet(settler[s].left) /\ Cardinality(settler[s].left) \in Nat
         /\ Cardinality(Asked(s)) \in Nat /\ Cardinality(Asked(s)) <= Budget
         /\ settler[s].pending \in Nat /\ settler[s].unresolved \in Nat
         /\ Budget \in Nat
<1>1. /\ settler[s].list \in SUBSET Fixtures /\ settler[s].left \in SUBSET Fixtures
      /\ settler[s].pending \in Nat /\ settler[s].unresolved \in Nat
  BY DEF TypeOK, Memory
<1>2. /\ IsFiniteSet(settler[s].list) /\ Cardinality(settler[s].list) \in Nat
      /\ IsFiniteSet(settler[s].left) /\ Cardinality(settler[s].left) \in Nat
  <2>1. IsFiniteSet(Fixtures)
    BY SettlementAssumption
  <2>2. \A S \in SUBSET Fixtures : IsFiniteSet(S) /\ Cardinality(S) \in Nat
    BY <2>1, FS_Subset, FS_CardinalityType
  <2>3. QED
    BY <1>1, <2>2
<1>3. Budget \in Nat /\ settler[s].list \subseteq Nat
  <2>1. Budget \in Nat /\ \A f \in Fixtures : f \in Nat
    BY SettlementAssumption
  <2>2. QED
    BY <1>1, <2>1
<1>4. Cardinality(Asked(s)) \in Nat /\ Cardinality(Asked(s)) <= Budget
  BY <1>2, <1>3, FirstIsFew DEF Asked
<1>5. QED
  BY <1>1, <1>2, <1>3, <1>4

LEMMA BalancedOff == Balanced(Off)
<1>1. /\ Off.rows = {} /\ Off.left = {} /\ Off.list = {} /\ Off.pending = 0
      /\ Off.unresolved = 0 /\ Off.pc # "publishing"
  BY DEF Off
<1>2. OutcomeRowsOf(Off) = {} /\ First(Budget, {}) = {}
  BY <1>1 DEF OutcomeRowsOf, First
<1>3. IsFiniteSet({}) /\ Cardinality({}) = 0
  BY FS_EmptySet
<1>4. QED
  BY <1>1, <1>2, <1>3 DEF Balanced, One

(* A run begins with all of its list to ask about that it will.            *)
LEMMA BalancedBegin ==
  ASSUME NEW memory, TypeOK, NEW S \in SUBSET Fixtures,
         memory = [Off EXCEPT !.pc = "asking", !.list = S, !.left = First(Budget, S)]
  PROVE  Balanced(memory)
<1>1. /\ memory.rows = {} /\ memory.left = First(Budget, S) /\ memory.list = S
      /\ memory.pending = 0 /\ memory.unresolved = 0 /\ memory.pc = "asking"
  BY DEF Off
<1>2. OutcomeRowsOf(memory) = {}
  BY <1>1 DEF OutcomeRowsOf
<1>3. Cardinality(First(Budget, S)) \in Nat
  <2>1. S \subseteq Nat /\ IsFiniteSet(S) /\ Budget \in Nat
    BY SettlementAssumption, FS_Subset
  <2>2. QED
    BY <2>1, FirstIsFew
<1>4. IsFiniteSet({}) /\ Cardinality({}) = 0
  BY FS_EmptySet
<1>5. QED
  BY <1>1, <1>2, <1>3, <1>4 DEF Balanced, One

(* A question: one less to ask, and a reply to keep or a warning.          *)
LEMMA BalancedAsk ==
  ASSUME TypeOK, NEW s \in Settlers, Balanced(settler[s]), NEW memory,
         settler[s].pc = "asking", NEW f \in settler[s].left,
         memory.left = settler[s].left \ {f}, memory.list = settler[s].list,
         memory.rows = settler[s].rows, memory.pending = settler[s].pending,
         \/ memory.pc = "asking" /\ memory.unresolved = settler[s].unresolved + 1
         \/ memory.pc = "publishing" /\ memory.unresolved = settler[s].unresolved
  PROVE  Balanced(memory)
<1> DEFINE old == settler[s]
<1>1. Cardinality(memory.left) = Cardinality(old.left) - 1
  BY Sizes, FS_RemoveElement
<1>2. OutcomeRowsOf(memory) = OutcomeRowsOf(old)
  BY DEF OutcomeRowsOf
<1>3. /\ IsFiniteSet(old.rows) /\ Cardinality(old.rows) \in Nat
      /\ Cardinality(OutcomeRowsOf(old)) \in Nat
  BY FS_Subset, FS_CardinalityType DEF Balanced, OutcomeRowsOf
<1>4. /\ old.pending \in Nat /\ old.unresolved \in Nat /\ Cardinality(old.left) \in Nat
      /\ Cardinality(First(Budget, old.list)) \in Nat
  BY Sizes DEF Asked
<1>5. /\ old.pending + old.unresolved + Cardinality(OutcomeRowsOf(old))
           + Cardinality(old.left) = Cardinality(First(Budget, old.list))
      /\ Cardinality(old.rows) + Cardinality(old.left) <= Cardinality(First(Budget, old.list))
  BY <1>3, <1>4 DEF Balanced, One
<1>6. QED
  BY <1>1, <1>2, <1>3, <1>4, <1>5 DEF Balanced, One

(* A reply that is kept: its row is new, and is counted by its kind.       *)
LEMMA BalancedPublish ==
  ASSUME Books, NEW s \in Settlers, settler[s].pc = "publishing", NEW memory,
         memory.pc = "asking", memory.left = settler[s].left,
         memory.list = settler[s].list, memory.rows = settler[s].rows \union {Row(s)},
         memory.pending = settler[s].pending
           + One(settler[s].reply.answer.kind \in {"EMPTY", "NOT_TERMINAL"}),
         memory.unresolved = settler[s].unresolved
           + One(settler[s].reply.answer.kind = "REJECTED")
  PROVE  Balanced(memory)
<1> DEFINE old  == settler[s]
           kind == old.reply.answer.kind
           row  == Row(s)
<1>1. old.reply \in Replies /\ old.reply # None
  BY DEF Books, IInv, TypeOK, Memory
<1>2. kind \in Kinds /\ row.answer.kind = kind /\ row.fixture = old.reply.fixture
  BY <1>1 DEF Replies, Answers, Row
<1>3. row \notin old.rows
  BY <1>1, <1>2 DEF Books, IInv, RowsAreOfTheList, Rows
<1> HIDE DEF row, kind
<1>4. /\ IsFiniteSet(old.rows) /\ Cardinality(old.rows) \in Nat
      /\ IsFiniteSet(OutcomeRowsOf(old)) /\ Cardinality(OutcomeRowsOf(old)) \in Nat
  BY FS_Subset, FS_CardinalityType DEF Books, Balanced, OutcomeRowsOf
<1>5. /\ IsFiniteSet(memory.rows)
      /\ Cardinality(memory.rows) = Cardinality(old.rows) + 1
  BY <1>3, <1>4, FS_AddElement DEF row
<1>6. Cardinality(OutcomeRowsOf(memory))
        = Cardinality(OutcomeRowsOf(old)) + One(kind = "TERMINAL")
  <2>1. CASE kind = "TERMINAL"
    <3>1. OutcomeRowsOf(memory) = OutcomeRowsOf(old) \union {row}
      BY <1>2, <2>1 DEF OutcomeRowsOf, row
    <3>2. row \notin OutcomeRowsOf(old)
      BY <1>3 DEF OutcomeRowsOf
    <3>3. QED
      BY <1>4, <2>1, <3>1, <3>2, FS_AddElement DEF One
  <2>2. CASE kind # "TERMINAL"
    <3>1. OutcomeRowsOf(memory) = OutcomeRowsOf(old)
      BY <1>2, <2>2 DEF OutcomeRowsOf, row
    <3>2. QED
      BY <1>4, <2>2, <3>1 DEF One
  <2>3. QED
    BY <2>1, <2>2
<1>7. One(kind \in {"EMPTY", "NOT_TERMINAL"}) + One(kind = "REJECTED")
        + One(kind = "TERMINAL") = 1
  BY <1>2 DEF Kinds, One
<1>8. /\ old.pending \in Nat /\ old.unresolved \in Nat /\ Cardinality(old.left) \in Nat
      /\ Cardinality(First(Budget, old.list)) \in Nat
  BY Sizes DEF Asked, Books, IInv
<1>9. /\ old.pending + old.unresolved + Cardinality(OutcomeRowsOf(old))
           + Cardinality(old.left) + 1 = Cardinality(First(Budget, old.list))
      /\ Cardinality(old.rows) + Cardinality(old.left) + 1
           <= Cardinality(First(Budget, old.list))
  BY <1>4, <1>8 DEF Books, Balanced, One
<1>10. /\ One(kind \in {"EMPTY", "NOT_TERMINAL"}) \in Nat /\ One(kind = "REJECTED") \in Nat
       /\ One(kind = "TERMINAL") \in Nat
  BY DEF One
<1>11. /\ memory.pending = old.pending + One(kind \in {"EMPTY", "NOT_TERMINAL"})
       /\ memory.unresolved = old.unresolved + One(kind = "REJECTED")
  BY DEF kind
<1>12. /\ memory.pending + memory.unresolved + Cardinality(OutcomeRowsOf(memory))
            + Cardinality(memory.left) = Cardinality(First(Budget, memory.list))
       /\ Cardinality(memory.rows) + Cardinality(memory.left)
            <= Cardinality(First(Budget, memory.list))
  BY <1>4, <1>5, <1>6, <1>7, <1>8, <1>9, <1>10, <1>11
<1>13. /\ One(memory.pc = "publishing") = 0 /\ Cardinality(memory.rows) \in Nat
       /\ Cardinality(OutcomeRowsOf(memory)) \in Nat /\ memory.pending \in Nat
       /\ memory.unresolved \in Nat /\ Cardinality(memory.left) \in Nat
  BY <1>4, <1>5, <1>6, <1>8, <1>10, <1>11 DEF One
<1>14. QED
  BY <1>5, <1>12, <1>13 DEF Balanced

LEMMA BooksSame ==
  ASSUME Books, IInv', NEW s \in Settlers, NEW memory,
         settler' = [settler EXCEPT ![s] = memory], Balanced(memory), RunAddsUp'
  PROVE  Books'
<1>1. \A r \in Settlers : settler'[r] = IF r = s THEN memory ELSE settler[r]
  BY DEF Books, IInv, TypeOK
<1>2. \A r \in Settlers : Balanced(settler'[r])
  BY <1>1 DEF Books
<1>3. QED
  BY <1>2 DEF Books

(* What a run records adds up, since its books do when nothing is left.    *)
LEMMA CommitAddsUp ==
  ASSUME Books, NEW s \in Settlers, settler[s].pc = "asking", settler[s].left = {},
         report' = [eligible   |-> Cardinality(settler[s].list),
                    made       |-> Cardinality(Asked(s)),
                    evidence   |-> Cardinality(Rows(s)),
                    outcomes   |-> Cardinality(OutcomeRows(s)),
                    pending    |-> settler[s].pending + NotAsked(s),
                    unresolved |-> settler[s].unresolved]
  PROVE  RunAddsUp'
<1> DEFINE m == settler[s]
<1>1. /\ IsFiniteSet(m.list) /\ Cardinality(m.list) \in Nat
      /\ Cardinality(Asked(s)) \in Nat /\ Cardinality(Asked(s)) <= Budget
      /\ m.pending \in Nat /\ m.unresolved \in Nat /\ Budget \in Nat
  BY Sizes DEF Books, IInv
<1>2. NotAsked(s) = Cardinality(m.list) - Cardinality(Asked(s))
  <2>1. m.list \intersect Asked(s) = Asked(s)
    BY FirstIsPart DEF Asked
  <2>2. Cardinality(m.list \ Asked(s)) = Cardinality(m.list) - Cardinality(m.list \intersect Asked(s))
    BY <1>1, FS_Difference
  <2>3. QED
    BY <2>1, <2>2 DEF NotAsked
<1>3. /\ IsFiniteSet(Rows(s)) /\ Cardinality(Rows(s)) \in Nat
      /\ OutcomeRows(s) \in SUBSET Rows(s)
  BY FS_CardinalityType DEF Books, Balanced, Rows, OutcomeRows
<1>4. Cardinality(OutcomeRows(s)) \in Nat /\ Cardinality(OutcomeRows(s)) <= Cardinality(Rows(s))
  BY <1>3, FS_Subset, FS_CardinalityType
<1>5. OutcomeRowsOf(m) = OutcomeRows(s)
  BY DEF OutcomeRowsOf, OutcomeRows, Rows
<1>6. Cardinality(m.left) = 0
  BY FS_EmptySet
<1>7. /\ m.pending + m.unresolved + Cardinality(OutcomeRows(s)) = Cardinality(Asked(s))
      /\ Cardinality(Rows(s)) <= Cardinality(Asked(s))
  <2>1. Balanced(m) /\ Asked(s) = First(Budget, m.list) /\ Rows(s) = m.rows
    BY DEF Books, Asked, Rows
  <2>2. One(m.pc = "publishing") = 0
    BY DEF One
  <2> HIDE DEF m
  <2>3. /\ m.pending + m.unresolved + Cardinality(OutcomeRows(s)) + 0 + 0
             = Cardinality(Asked(s))
        /\ Cardinality(Rows(s)) + 0 + 0 <= Cardinality(Asked(s))
    BY <1>5, <1>6, <2>1, <2>2 DEF Balanced
  <2>4. QED
    BY <1>1, <1>3, <1>4, <2>3
<1>8. /\ report'.eligible = Cardinality(m.list) /\ report'.made = Cardinality(Asked(s))
      /\ report'.evidence = Cardinality(Rows(s)) /\ report'.outcomes = Cardinality(OutcomeRows(s))
      /\ report'.pending = m.pending + NotAsked(s) /\ report'.unresolved = m.unresolved
  OBVIOUS
<1> HIDE DEF m
<1>9. QED
  BY <1>1, <1>2, <1>3, <1>4, <1>7, <1>8 DEF RunAddsUp

LEMMA BooksInit == Init => Books
<1> SUFFICES ASSUME Init PROVE Books
  OBVIOUS
<1>1. \A s \in Settlers : settler[s] = Off
  BY DEF Init
<1>2. RunAddsUp
  BY SettlementAssumption DEF Init, RunAddsUp, NoReport
<1>3. QED
  BY <1>1, <1>2, BalancedOff, InitInv DEF Books

LEMMA BooksStep ==
  ASSUME Books, [Next]_vars
  PROVE  Books'
<1>1. IInv' /\ IInv /\ TypeOK
  BY NextInv DEF Books, IInv
<1>2. report' = report => RunAddsUp'
  BY DEF Books, RunAddsUp
<1>3. ASSUME NEW s \in Settlers, settler' = Gone(s), RunAddsUp'
      PROVE  Books'
  BY <1>1, <1>3, BalancedOff, BooksSame DEF Gone
<1>4. ASSUME NEW s \in Settlers, Begin(s)
      PROVE  Books'
  <2> DEFINE memory == [Off EXCEPT !.pc = "asking", !.list = Pending,
                                   !.left = First(Budget, Pending)]
  <2>1. settler' = [settler EXCEPT ![s] = memory] /\ report' = report
    BY <1>4 DEF Begin
  <2>2. Pending \in SUBSET Fixtures
    BY <1>1, PendingIsOpen DEF TypeOK
  <2>3. Balanced(memory)
    BY <1>1, <2>2, BalancedBegin
  <2> HIDE DEF memory
  <2>4. QED
    BY <1>1, <1>2, <2>1, <2>3, BooksSame
<1>5. ASSUME NEW s \in Settlers, NEW f \in Fixtures, Ask(s, f)
      PROVE  Books'
  <2> DEFINE old == settler[s]
  <2>1. /\ old.pc = "asking" /\ f \in old.left /\ report' = report /\ Balanced(old)
        /\ old \in Memory
    BY <1>1, <1>5 DEF Ask, IsNext, Books, TypeOK
  <2>2. PICK memory : /\ settler' = [settler EXCEPT ![s] = memory]
                      /\ memory.left = old.left \ {f} /\ memory.list = old.list
                      /\ memory.rows = old.rows /\ memory.pending = old.pending
                      /\ \/ memory.pc = "asking" /\ memory.unresolved = old.unresolved + 1
                         \/ memory.pc = "publishing" /\ memory.unresolved = old.unresolved
    <3>1. CASE settler' = [settler EXCEPT ![s].left = @ \ {f}, ![s].unresolved = @ + 1]
      <4> DEFINE memory == [old EXCEPT !.left = @ \ {f}, !.unresolved = @ + 1]
      <4>1. settler' = [settler EXCEPT ![s] = memory]
        BY <1>1, <3>1 DEF TypeOK
      <4>2. /\ memory.left = old.left \ {f} /\ memory.list = old.list
            /\ memory.rows = old.rows /\ memory.pending = old.pending
            /\ memory.pc = "asking" /\ memory.unresolved = old.unresolved + 1
        BY <2>1 DEF Memory
      <4> HIDE DEF memory, old
      <4>3. QED
        BY <4>1, <4>2
    <3>2. ASSUME NEW answer,
                 settler' = [settler EXCEPT ![s].pc = "publishing", ![s].left = @ \ {f},
                                            ![s].reply = [fixture |-> f, answer |-> answer]]
          PROVE  \E memory : /\ settler' = [settler EXCEPT ![s] = memory]
                             /\ memory.left = old.left \ {f} /\ memory.list = old.list
                             /\ memory.rows = old.rows /\ memory.pending = old.pending
                             /\ memory.pc = "publishing"
                             /\ memory.unresolved = old.unresolved
      <4> DEFINE memory == [old EXCEPT !.pc = "publishing", !.left = @ \ {f},
                                       !.reply = [fixture |-> f, answer |-> answer]]
      <4>1. settler' = [settler EXCEPT ![s] = memory]
        BY <1>1, <3>2 DEF TypeOK
      <4>2. /\ memory.left = old.left \ {f} /\ memory.list = old.list
            /\ memory.rows = old.rows /\ memory.pending = old.pending
            /\ memory.pc = "publishing" /\ memory.unresolved = old.unresolved
        BY <2>1 DEF Memory
      <4> HIDE DEF memory, old
      <4>3. QED
        BY <4>1, <4>2
    <3>3. QED
      BY <1>5, <3>1, <3>2 DEF Ask
  <2>3. Balanced(memory)
    BY <1>1, <2>1, <2>2, BalancedAsk
  <2>4. QED
    BY <1>1, <1>2, <2>1, <2>2, <2>3, BooksSame
<1>6. ASSUME NEW s \in Settlers, Publish(s)
      PROVE  Books'
  <2>1. report' = report /\ settler[s].pc = "publishing" /\ settler[s] \in Memory
    BY <1>1, <1>6 DEF Publish, TypeOK
  <2>2. CASE settler' = Gone(s)
    BY <1>2, <1>3, <2>1, <2>2
  <2>3. CASE settler' = Handled(s)
    <3> DEFINE old    == settler[s]
               kind   == old.reply.answer.kind
               row    == Row(s)
               memory == [old EXCEPT !.pc = "asking", !.reply = None,
                                     !.rows = @ \union {row},
                                     !.pending = @ + One(kind \in {"EMPTY", "NOT_TERMINAL"}),
                                     !.unresolved = @ + One(kind = "REJECTED")]
    <3>1. settler' = [settler EXCEPT ![s] = memory]
      BY <1>1, <2>3 DEF Handled, TypeOK
    <3> HIDE DEF row, kind
    <3>2. /\ memory.pc = "asking" /\ memory.left = old.left /\ memory.list = old.list
          /\ memory.rows = old.rows \union {row}
          /\ memory.pending = old.pending + One(kind \in {"EMPTY", "NOT_TERMINAL"})
          /\ memory.unresolved = old.unresolved + One(kind = "REJECTED")
      BY <2>1 DEF Memory
    <3> HIDE DEF memory
    <3>3. Balanced(memory)
      BY <2>1, <3>2, BalancedPublish DEF row, kind
    <3>4. QED
      BY <1>1, <1>2, <2>1, <3>1, <3>3, BooksSame
  <2>4. QED
    BY <1>6, <2>2, <2>3 DEF Publish, PublishFails
<1>7. ASSUME NEW s \in Settlers, Commit(s)
      PROVE  Books'
  <2>1. /\ settler' = Gone(s) /\ settler[s].pc = "asking" /\ settler[s].left = {}
    BY <1>7 DEF Commit
  <2>2. CASE report' = report
    BY <1>2, <1>3, <2>1, <2>2
  <2>3. CASE report' # report
    <3>1. RunAddsUp'
      BY <1>7, <2>1, <2>3, CommitAddsUp DEF Commit
    <3>2. QED
      BY <1>3, <2>1, <3>1
  <2>4. QED
    BY <2>2, <2>3
<1>8. ASSUME NEW s \in Settlers, Crash(s)
      PROVE  Books'
  BY <1>2, <1>3, <1>8 DEF Crash
<1>9. ASSUME NEW f \in Fixtures, World(f)
      PROVE  Books'
  BY <1>1, <1>2, <1>9 DEF World, Books
<1>10. CASE UNCHANGED vars
  BY <1>1, <1>2, <1>10 DEF vars, Books
<1>11. QED
  BY <1>4, <1>5, <1>6, <1>7, <1>8, <1>9, <1>10 DEF Next, Run

(* The row of a run adds up, for any list, budget, answers and failures    *)
(* (settle-pending.ts:107-146): nothing that was asked is uncounted, and   *)
(* nothing is counted twice.                                               *)
THEOREM RowsAddUp == Spec => []RunAddsUp
<1>1. Books => RunAddsUp
  BY DEF Books
<1>2. QED
  BY <1>1, BooksInit, BooksStep, PTL DEF Spec
=============================================================================
