------------------------- MODULE EvidenceStore_proofs -------------------------
(***************************************************************************)
(* Proofs about EvidenceStore and StatareaCapture, the two places where    *)
(* what a provider answered is kept under its hash, for any number of      *)
(* calls, captures and processes, failing file systems and dying           *)
(* processes.                                                              *)
(*                                                                         *)
(* Why it works: of the calls under way in a process no two have the same  *)
(* ticket, so the file a call writes is the only one its name can lead to, *)
(* and it is whole when it is linked.  A leftover of a dead process may    *)
(* have the name of a later call, but then O_EXCL refuses that call.       *)
(*                                                                         *)
(* Of the captures, in the second part: a file that was verified is not    *)
(* written again, a number is given once, and of two captures that found   *)
(* no snapshot of their key the second is refused.                         *)
(***************************************************************************)
EXTENDS EvidenceStore, StatareaCapture, TLAPS, FiniteSetTheorems

Holding(c) == pc[c] \in {"opening", "writing", "linking", "cleaning"}
Decided(c) == pc[c] \in {"cleaning", "done", "dead"}

(* The tickets of the calls under way are given out by their store, once.  *)
TicketsDiffer ==
  /\ \A c \in Calls : Holding(c) => ticket[c] <= sequence[Process[c]]
  /\ \A c, d \in Calls :
       Holding(c) /\ Holding(d) /\ Process[c] = Process[d] /\ ticket[c] = ticket[d] => c = d

(* A file exists from the moment its call opened it.                       *)
FilesAreOpened ==
  \A i \in temporary : pc[i] \in {"writing", "linking", "cleaning", "done", "dead"}

(* The name of a call that writes or links leads to its own file.          *)
OwnFile ==
  \A c \in Calls :
    /\ pc[c] \in {"writing", "linking"} => Named(c) = {c}
    /\ pc[c] = "linking" => file[c] = "whole"

(* What calls were told, and what is at the addresses, agree.              *)
AnswersAgree ==
  \A c \in Calls :
    /\ ~Decided(c) => answer[c] = None
    /\ Decided(c) /\ answer[c] = "CREATED" => published[Content[c]] = c
    /\ Decided(c) /\ answer[c] = "REPLAYED" => published[Content[c]] \in Calls

AddressesAgree ==
  \A h \in Contents :
    /\ published[h] = Foreign <=> h \in Damaged
    /\ published[h] \in Calls =>
         /\ Content[published[h]] = h
         /\ Decided(published[h])
         /\ file[published[h]] = "whole"

IInv ==
  /\ TypeOK
  /\ TicketsDiffer
  /\ FilesAreOpened
  /\ OwnFile
  /\ AnswersAgree
  /\ AddressesAgree

-----------------------------------------------------------------------------
(* The content of a call is one of the contents, and its process a process.*)
LEMMA Places ==
  ASSUME NEW c \in Calls
  PROVE  Content[c] \in Contents /\ Process[c] \in Processes
BY EvidenceAssumption DEF Contents

(* The strengthened invariant holds before any call.                       *)
LEMMA InitHolds == Init => IInv
BY EvidenceAssumption DEF Init, IInv, TypeOK, Stages, TicketsDiffer, Holding, FilesAreOpened,
   OwnFile, AnswersAgree, Decided, AddressesAgree

(* A step that keeps the tickets and moves one call cannot make two calls  *)
(* share a name.                                                           *)
LEMMA StartHolds ==
  ASSUME IInv, NEW c \in Calls, Start(c)
  PROVE  IInv'
<1> USE DEF IInv, Start, Go, Reply
<1>1. TypeOK'
  BY DEF TypeOK, Stages, Dispositions
<1>2. TicketsDiffer'
  BY DEF TypeOK, TicketsDiffer, Holding
<1>3. FilesAreOpened'
  BY DEF TypeOK, FilesAreOpened
<1>4. OwnFile'
  BY DEF TypeOK, OwnFile, Named, Name
<1>5. AnswersAgree'
  BY DEF TypeOK, AnswersAgree, Decided
<1>6. AddressesAgree'
  BY EvidenceAssumption DEF TypeOK, AddressesAgree, Decided
<1>7. QED
  BY <1>1, <1>2, <1>3, <1>4, <1>5, <1>6

(* Looking gives the call a ticket nobody holds, or an answer that what is *)
(* at the address bears out.                                               *)
LEMMA LookHolds ==
  ASSUME IInv, NEW c \in Calls, Look(c)
  PROVE  IInv'
<1> USE Places DEF IInv, Look, Go, Reply, Found
<1>1. TypeOK'
  BY DEF TypeOK, Stages, Dispositions
<1>2. TicketsDiffer'
  BY DEF TypeOK, TicketsDiffer, Holding
<1>3. FilesAreOpened'
  BY DEF TypeOK, FilesAreOpened
<1>4. OwnFile'
  <2>1. c \notin temporary
    BY DEF FilesAreOpened
  <2>2. ASSUME NEW d \in Calls, d # c
        PROVE  Named(d)' = Named(d)
    BY <2>1, <2>2 DEF TypeOK, Named, Name
  <2>3. QED
    BY <2>2 DEF TypeOK, OwnFile
<1>5. AnswersAgree'
  BY EvidenceAssumption DEF TypeOK, AnswersAgree, Decided, Dispositions
<1>6. AddressesAgree'
  BY EvidenceAssumption DEF TypeOK, AddressesAgree, Decided
<1>7. QED
  BY <1>1, <1>2, <1>3, <1>4, <1>5, <1>6

(* A failure keeps the files and gives the call its answer.                *)
LEMMA FailHolds ==
  ASSUME IInv, NEW c \in Calls, NEW stage \in {"opening", "writing", "linking"},
         FailWhen(c, stage)
  PROVE  IInv'
<1> USE DEF IInv, FailWhen, Go, Reply
<1>1. TypeOK'
  BY DEF TypeOK, Stages, Dispositions
<1>2. TicketsDiffer'
  BY DEF TypeOK, TicketsDiffer, Holding
<1>3. FilesAreOpened'
  BY DEF TypeOK, FilesAreOpened
<1>4. OwnFile'
  BY DEF TypeOK, OwnFile, Named, Name
<1>5. AnswersAgree'
  BY DEF TypeOK, AnswersAgree, Decided
<1>6. AddressesAgree'
  BY EvidenceAssumption DEF TypeOK, AddressesAgree, Decided
<1>7. QED
  BY <1>1, <1>2, <1>3, <1>4, <1>5, <1>6

(* A file that O_EXCL creates is the only one of its name.                 *)
LEMMA OpenHolds ==
  ASSUME IInv, NEW c \in Calls, Open(c)
  PROVE  IInv'
<1>1. CASE FailWhen(c, "opening")
  BY <1>1, FailHolds
<1>2. CASE ~FailWhen(c, "opening")
  <2> USE <1>2 DEF IInv, Open, Go
  <2>1. TypeOK'
    BY DEF TypeOK, Stages
  <2>2. TicketsDiffer'
    BY DEF TypeOK, TicketsDiffer, Holding
  <2>3. FilesAreOpened'
    BY DEF TypeOK, FilesAreOpened
  <2>4. OwnFile'
    <3>1. Named(c)' = {c}
      BY DEF TypeOK, Named, Name
    <3>2. ASSUME NEW d \in Calls, d # c, pc[d] \in {"writing", "linking"}
          PROVE  Named(d)' = Named(d)
      <4>1. Name(c) # Name(d)
        BY <3>2 DEF TypeOK, TicketsDiffer, Holding, Name
      <4>2. QED
        BY <4>1 DEF TypeOK, Named, Name
    <3>3. QED
      BY <3>1, <3>2 DEF TypeOK, OwnFile
  <2>5. AnswersAgree'
    BY DEF TypeOK, AnswersAgree, Decided
  <2>6. AddressesAgree'
    BY EvidenceAssumption DEF TypeOK, AddressesAgree, Decided
  <2>7. QED
    BY <2>1, <2>2, <2>3, <2>4, <2>5, <2>6
<1>3. QED
  BY <1>1, <1>2

(* Writing completes the file of the call and touches no other.            *)
LEMMA WriteHolds ==
  ASSUME IInv, NEW c \in Calls, Write(c)
  PROVE  IInv'
<1>1. CASE FailWhen(c, "writing")
  BY <1>1, FailHolds
<1>2. CASE ~FailWhen(c, "writing")
  <2> USE <1>2 DEF IInv, Write, Go
  <2>1. TypeOK'
    BY DEF TypeOK, Stages
  <2>2. TicketsDiffer'
    BY DEF TypeOK, TicketsDiffer, Holding
  <2>3. FilesAreOpened'
    BY DEF TypeOK, FilesAreOpened
  <2>4. OwnFile'
    BY DEF TypeOK, OwnFile, Named, Name
  <2>5. AnswersAgree'
    BY DEF TypeOK, AnswersAgree, Decided
  <2>6. AddressesAgree'
    BY EvidenceAssumption DEF TypeOK, AddressesAgree, Decided
  <2>7. QED
    BY <2>1, <2>2, <2>3, <2>4, <2>5, <2>6
<1>3. QED
  BY <1>1, <1>2

(* What a link publishes is the whole file of the call that links it.      *)
LEMMA LinkHolds ==
  ASSUME IInv, NEW c \in Calls, Link(c)
  PROVE  IInv'
<1>1. CASE FailWhen(c, "linking")
  BY <1>1, FailHolds
<1>2. CASE ~FailWhen(c, "linking")
  <2> USE <1>2, Places DEF IInv, Link, Go, Reply, Found
  <2>0. Named(c) = {c} /\ file[c] = "whole"
    BY DEF OwnFile
  <2>1. TypeOK'
    BY <2>0 DEF TypeOK, Stages, Dispositions
  <2>2. TicketsDiffer'
    BY DEF TypeOK, TicketsDiffer, Holding
  <2>3. FilesAreOpened'
    BY DEF TypeOK, FilesAreOpened
  <2>4. OwnFile'
    BY DEF TypeOK, OwnFile, Named, Name
  <2>5. AnswersAgree'
    BY <2>0, EvidenceAssumption DEF TypeOK, AnswersAgree, Decided, Dispositions
  <2>6. AddressesAgree'
    BY <2>0, EvidenceAssumption DEF TypeOK, AddressesAgree, Decided
  <2>7. QED
    BY <2>1, <2>2, <2>3, <2>4, <2>5, <2>6
<1>3. QED
  BY <1>1, <1>2

(* Removing a file by its name spares the files of the calls under way.    *)
LEMMA CleanHolds ==
  ASSUME IInv, NEW c \in Calls, Clean(c)
  PROVE  IInv'
<1> USE DEF IInv, Clean, Go
<1>1. TypeOK'
  BY DEF TypeOK, Stages
<1>2. TicketsDiffer'
  BY DEF TypeOK, TicketsDiffer, Holding
<1>3. FilesAreOpened'
  BY DEF TypeOK, FilesAreOpened
<1>4. OwnFile'
  <2>1. ASSUME NEW d \in Calls, d # c, pc[d] \in {"writing", "linking"}
        PROVE  Named(d)' = Named(d)
    <3>1. Name(c) # Name(d)
      BY <2>1 DEF TypeOK, TicketsDiffer, Holding, Name
    <3>2. QED
      BY <3>1 DEF TypeOK, Named, Name
  <2>2. QED
    BY <2>1 DEF TypeOK, OwnFile
<1>5. AnswersAgree'
  BY DEF TypeOK, AnswersAgree, Decided
<1>6. AddressesAgree'
  BY EvidenceAssumption DEF TypeOK, AddressesAgree, Decided
<1>7. QED
  BY <1>1, <1>2, <1>3, <1>4, <1>5, <1>6

(* A dead process holds no ticket, so its store may count from the start.  *)
LEMMA CrashHolds ==
  ASSUME IInv, NEW p \in Processes, Crash(p)
  PROVE  IInv'
<1> USE DEF IInv, Crash, Underway
<1>1. TypeOK'
  BY EvidenceAssumption DEF TypeOK, Stages
<1>2. TicketsDiffer'
  BY Places DEF TypeOK, TicketsDiffer, Holding
<1>3. FilesAreOpened'
  BY DEF TypeOK, FilesAreOpened
<1>4. OwnFile'
  BY DEF TypeOK, OwnFile, Named, Name
<1>5. AnswersAgree'
  BY EvidenceAssumption DEF TypeOK, AnswersAgree, Decided, Stages, Dispositions
<1>6. AddressesAgree'
  BY EvidenceAssumption DEF TypeOK, AddressesAgree, Decided
<1>7. QED
  BY <1>1, <1>2, <1>3, <1>4, <1>5, <1>6

(* The strengthened invariant is inductive.                                *)
LEMMA NextHolds == IInv /\ [Next]_vars => IInv'
<1> SUFFICES ASSUME IInv, [Next]_vars PROVE IInv'
  OBVIOUS
<1>1. ASSUME NEW c \in Calls, CallStep(c) PROVE IInv'
  BY <1>1, StartHolds, LookHolds, OpenHolds, WriteHolds, LinkHolds, CleanHolds DEF CallStep
<1>2. ASSUME NEW p \in Processes, Crash(p) PROVE IInv'
  BY <1>2, CrashHolds
<1>3. CASE UNCHANGED vars
  BY <1>3 DEF vars, IInv, TypeOK, TicketsDiffer, Holding, FilesAreOpened, OwnFile, Named, Name,
     AnswersAgree, Decided, AddressesAgree
<1>4. QED
  BY <1>1, <1>2, <1>3 DEF Next, Finished

(* The strengthened invariant always holds.                                *)
LEMMA AlwaysIInv == Spec => []IInv
BY InitHolds, NextHolds, PTL DEF Spec

-----------------------------------------------------------------------------
(* The state of the store always has its shape.                            *)
THEOREM StoreTypeCorrect == Spec => []TypeOK
BY AlwaysIInv, PTL DEF IInv

(* No address ever shows part of a content, or another content, though     *)
(* calls race for it and processes die while they write.                   *)
THEOREM WholeContents == Spec => []PublishedIsWhole
<1>1. IInv => PublishedIsWhole
  BY DEF IInv, AddressesAgree, PublishedIsWhole
<1>2. QED
  BY <1>1, AlwaysIInv, PTL

(* A call that was told CREATED or REPLAYED finds its content at its       *)
(* address, for ever.                                                      *)
THEOREM AnswersKept == Spec => []AnsweredIsPublished
<1>1. IInv => AnsweredIsPublished
  BY DEF IInv, AnswersAgree, Decided, AnsweredIsPublished, Told
<1>2. QED
  BY <1>1, AlwaysIInv, PTL

(* Of the calls that publish one content at most one is told CREATED.      *)
THEOREM CreatedAtMostOnce == Spec => []CreatedOnce
<1>1. IInv => CreatedOnce
  BY DEF IInv, AnswersAgree, Decided, CreatedOnce, Told
<1>2. QED
  BY <1>1, AlwaysIInv, PTL

(* What a step may do to an address: a link puts something where nothing   *)
(* was, and every other step leaves the addresses alone.                   *)
LEMMA AddressesGrow ==
  ASSUME IInv, [Next]_vars, NEW h \in Contents, published[h] # None
  PROVE  published'[h] = published[h]
<1>1. ASSUME NEW c \in Calls, Link(c) PROVE published'[h] = published[h]
  BY <1>1, Places DEF Link, FailWhen, IInv, TypeOK
<1>2. ASSUME NEW c \in Calls, CallStep(c), ~Link(c) PROVE published'[h] = published[h]
  BY <1>2 DEF CallStep, Start, Look, Open, Write, Clean, FailWhen
<1>3. CASE \E p \in Processes : Crash(p)
  BY <1>3 DEF Crash
<1>4. CASE UNCHANGED vars
  BY <1>4 DEF vars
<1>5. QED
  BY <1>1, <1>2, <1>3, <1>4 DEF Next, Finished

(* A file whose call has decided is written to no more.                    *)
LEMMA FilesStay ==
  ASSUME IInv, [Next]_vars, NEW i \in Calls, Decided(i)
  PROVE  file'[i] = file[i]
<1>1. ASSUME NEW c \in Calls, CallStep(c) PROVE file'[i] = file[i]
  BY <1>1 DEF CallStep, Start, Look, Open, Write, Link, Clean, FailWhen, Go, Decided, IInv, TypeOK
<1>2. CASE \E p \in Processes : Crash(p)
  BY <1>2 DEF Crash
<1>3. CASE UNCHANGED vars
  BY <1>3 DEF vars
<1>4. QED
  BY <1>1, <1>2, <1>3 DEF Next, Finished

(* What is published is never replaced, removed or written to.             *)
THEOREM PublishedForGood == Spec => Immutable
<1>1. IInv /\ [Next]_vars =>
        \A h \in Contents : published[h] # None =>
          /\ published'[h] = published[h]
          /\ published[h] \in Calls => file'[published[h]] = file[published[h]]
  <2> SUFFICES ASSUME IInv, [Next]_vars, NEW h \in Contents, published[h] # None
               PROVE  /\ published'[h] = published[h]
                      /\ published[h] \in Calls => file'[published[h]] = file[published[h]]
    OBVIOUS
  <2>1. published'[h] = published[h]
    BY AddressesGrow
  <2>2. ASSUME published[h] \in Calls PROVE file'[published[h]] = file[published[h]]
    BY <2>2, FilesStay DEF IInv, AddressesAgree
  <2>3. QED
    BY <2>1, <2>2
<1>2. QED
  BY <1>1, AlwaysIInv, PTL DEF Spec, Immutable

-----------------------------------------------------------------------------
(* The contents that are kept.                                             *)
Held == {h \in Contents : published[h] \in Calls}

(* The log begins empty.                                                   *)
LEMMA LogBegins == Init => Log!Init
<1>1. ASSUME Init, NEW h \in Contents PROVE published[h] \notin Calls
  BY <1>1, EvidenceAssumption DEF Init
<1>2. QED
  BY <1>1 DEF Init, Log!Init

(* A step that leaves the addresses and the answers alone is none of the   *)
(* log's.                                                                  *)
LEMMA QuietStep ==
  ASSUME published' = published, answer' = answer
  PROVE  UNCHANGED Log!logVars
BY DEF Log!logVars

(* A step in which a call that was told nothing is told that it failed.    *)
LEMMA FailIsTold ==
  ASSUME NEW c \in Calls, answer[c] = None, Reply(c, "FAILED"), published' = published
  PROVE  Log!Next
BY DEF Reply, Log!Next, Log!Fail, Log!Tell

(* A step in which a call is told what is at its address.                  *)
LEMMA FoundIsTold ==
  ASSUME IInv, NEW c \in Calls, answer[c] = None, published[Content[c]] # None,
         Reply(c, Found(c)), published' = published
  PROVE  Log!Next
<1>1. CASE published[Content[c]] = Foreign
  <2>1. Content[c] \in Damaged
    BY <1>1, Places DEF IInv, AddressesAgree
  <2>2. Log!Refuse(c)
    BY <1>1, <2>1 DEF Reply, Found, Log!Refuse, Log!Tell
  <2>3. QED
    BY <2>2 DEF Log!Next
<1>2. CASE published[Content[c]] # Foreign
  <2>1. Content[c] \in Held
    BY <1>2, Places DEF Held, IInv, TypeOK
  <2>2. Log!Repeat(c)
    BY <1>2, <2>1 DEF Reply, Found, Held, Log!Repeat, Log!Tell
  <2>3. QED
    BY <2>2 DEF Log!Next
<1>3. QED
  BY <1>1, <1>2

(* A link that publishes keeps one more content.                           *)
LEMMA LinkIsTold ==
  ASSUME IInv, NEW c \in Calls, pc[c] = "linking", published[Content[c]] = None,
         NEW i \in Named(c), published' = [published EXCEPT ![Content[c]] = i],
         Reply(c, "CREATED")
  PROVE  Log!Next
<1>1. i = c
  BY DEF IInv, OwnFile
<1>2. answer[c] = None
  BY DEF IInv, AnswersAgree, Decided
<1>3. Content[c] \notin Held \union Damaged
  BY EvidenceAssumption, Places DEF Held, IInv, AddressesAgree
<1>4. Held' = Held \union {Content[c]}
  BY <1>1, Places DEF Held, IInv, TypeOK
<1>5. Log!Keep(c)
  BY <1>2, <1>3, <1>4 DEF Held, Reply, Log!Keep, Log!Tell
<1>6. QED
  BY <1>5 DEF Log!Next

(* Every step of the store is a step of the log, or none of its own.       *)
LEMMA StepIsLogged ==
  ASSUME IInv, [Next]_vars
  PROVE  [Log!Next]_(Log!logVars)
<1>1. ASSUME NEW c \in Calls, CallStep(c)
      PROVE  [Log!Next]_(Log!logVars)
  <2> USE <1>1
  <2>0. ~Decided(c) => answer[c] = None
    BY DEF IInv, AnswersAgree
  <2>1. CASE Start(c)
    BY <2>0, <2>1, FailIsTold, QuietStep DEF Start, Go, Decided
  <2>2. CASE Look(c)
    BY <2>0, <2>2, FailIsTold, FoundIsTold, QuietStep DEF Look, Go, Decided
  <2>3. ASSUME NEW stage \in {"opening", "writing", "linking"}, FailWhen(c, stage)
        PROVE  Log!Next
    BY <2>0, <2>3, FailIsTold DEF FailWhen, Go, Decided
  <2>4. CASE Open(c)
    BY <2>3, <2>4, QuietStep DEF Open
  <2>5. CASE Write(c)
    BY <2>3, <2>5, QuietStep DEF Write
  <2>6. CASE Link(c)
    BY <2>0, <2>3, <2>6, LinkIsTold, FoundIsTold DEF Link, Go, Decided
  <2>7. CASE Clean(c)
    BY <2>7, QuietStep DEF Clean
  <2>8. QED
    BY <2>1, <2>2, <2>4, <2>5, <2>6, <2>7 DEF CallStep
<1>2. CASE \E p \in Processes : Crash(p)
  BY <1>2, QuietStep DEF Crash
<1>3. CASE UNCHANGED vars
  BY <1>3, QuietStep DEF vars
<1>4. QED
  BY <1>1, <1>2, <1>3 DEF Next, Finished

(* The store implements the log it promises, for every number of calls and *)
(* processes.                                                              *)
THEOREM StoreImplementsLog == Spec => LogKept
<1>1. IInv /\ [Next]_vars => [Log!Next]_(Log!logVars)
  BY StepIsLogged
<1>2. QED
  BY <1>1, LogBegins, AlwaysIInv, PTL DEF Spec, LogKept, Log!Spec

-----------------------------------------------------------------------------
(* Proofs about StatareaCapture.                                           *)

Fields == {"pc", "id", "date", "followed", "hops", "answer", "error", "snapshot"}

Working(p) == process[p].pc # "off"

(* Where a capture knows that its page is whole, and that it has rows.     *)
Backed == {"receiving", "looking", "exporting", "completing", "creating"}
Parsing == Backed \ {"receiving"}

(* The types of the events of a capture.                                   *)
TypesOf(id) == {e.type : e \in {f \in events : f.capture = id}}

(* What a capture under way has told.                                      *)
Heard(m) ==
  {"CAPTURE_STARTED"}
    \union (IF \/ m.pc \in Parsing \union {"auditing", "closing"}
               \/ m.pc = "failing" /\ m.answer # Absent
            THEN {"RESPONSE_RECEIVED"} ELSE {})
    \union (IF m.pc = "closing" /\ m.snapshot = m.id THEN Creations ELSE {})

(* What a capture under way remembers, and what its memory rests on: its   *)
(* evidence and its export, the snapshot it names, and its trail.          *)
KnownMemory(m) ==
  /\ m.id \in 1 .. begins /\ m.date \in Dates /\ m.followed \in Dates
  /\ m.pc = "requesting" => m.answer = Absent
  /\ m.pc = "failing" => m.answer \in Responses \union {Absent}
  /\ m.pc \notin {"requesting", "failing"} => m.answer \in Responses

BackedMemory(m) ==
  /\ m.pc \in Backed => evidence[<<m.date, m.answer.page>>] = "WHOLE"
  /\ m.pc \in Parsing => Parse(m.answer.page.rows, m.date).rows # {}
  /\ m.pc = "completing" =>
       exports[m.id] = [part |-> "PART", date |-> m.date, page |-> m.answer.page]
  /\ m.pc = "creating" =>
       exports[m.id] = [part |-> "WHOLE", date |-> m.date, page |-> m.answer.page]

NamedMemory(m) ==
  /\ m.pc \in {"exporting", "completing", "creating", "auditing"} => m.snapshot = m.id
  /\ m.pc \in {"auditing", "closing"} =>
       \E s \in snapshots : s.id = m.snapshot /\ s.date = m.date /\ s.page = m.answer.page
  /\ \A s \in snapshots : s.id = m.id => m.pc \in {"auditing", "closing"}

ToldMemory(m) ==
  /\ \A a \in attempts : a.id # m.id
  /\ TypesOf(m.id) = Heard(m)

Sound(p) ==
  /\ DOMAIN process[p] = Fields
  /\ Working(p) =>
       /\ KnownMemory(process[p]) /\ BackedMemory(process[p])
       /\ NamedMemory(process[p]) /\ ToldMemory(process[p])

(* One number for each capture under way.                                  *)
Shape ==
  /\ begins \in Nat /\ begins <= MaxBegins
  /\ evidence = [key \in Dates \X Pages |-> evidence[key]]
  /\ exports = [id \in 1 .. MaxBegins |-> exports[id]]
  /\ process = [p \in Captures |-> process[p]]
  /\ \A p, q \in Captures :
       Working(p) /\ Working(q) /\ process[p].id = process[q].id => p = q

(* A snapshot is what its page and its date give, and has a number of its  *)
(* own.                                                                    *)
SoundRows ==
  /\ \A s \in snapshots :
       /\ s.id \in 1 .. begins /\ s.date \in Dates /\ s.page \in Pages
       /\ s.parsed = Parse(s.page.rows, s.date) /\ s.parsed.rows # {}
  /\ \A s, t \in snapshots : s.id = t.id => s = t
  /\ \A a \in attempts : a.id \in 1 .. begins
  /\ \A e \in events : e.capture \in 1 .. begins
  /\ SnapshotsAreKept /\ CapturesAreIdempotent /\ TrailsAreWhole

CaptureInv == Shape /\ SoundRows /\ \A p \in Captures : Sound(p)


-----------------------------------------------------------------------------
(* The page of a response is one of the pages.                             *)
LEMMA PageOf ==
  ASSUME NEW a \in Responses
  PROVE  a.page \in Pages /\ a # Absent /\ a.page # Absent
<1>1. a.page \in Pages
  BY DEF Responses, Replayed, Pages
<1>2. QED
  BY StatareaAssumption, <1>1

(* A step of one process that numbers what it adds.                        *)
Moves(p, n) ==
  /\ process' = [q \in Captures |-> process'[q]]
  /\ \A q \in Captures \ {p} : process'[q] = process[q]
  /\ begins' \in Nat /\ begins <= begins' /\ begins' <= MaxBegins
  /\ evidence' = [key \in Dates \X Pages |-> evidence'[key]]
  /\ \A key \in Dates \X Pages : evidence[key] = "WHOLE" => evidence'[key] = "WHOLE"
  /\ exports' = [id \in 1 .. MaxBegins |-> exports'[id]]
  /\ \A id \in 1 .. MaxBegins : id # n => exports'[id] = exports[id]
  /\ snapshots \subseteq snapshots' /\ \A s \in snapshots' \ snapshots : s.id = n
  /\ attempts \subseteq attempts' /\ \A a \in attempts' \ attempts : a.id = n
  /\ events \subseteq events' /\ \A e \in events' \ events : e.capture = n
  /\ \A q \in Captures \ {p} : Working(q) => process[q].id # n

(* It leaves what the other processes know and have told as it is.         *)
LEMMA OthersSound ==
  ASSUME CaptureInv, NEW p \in Captures, NEW n, Moves(p, n), NEW q \in Captures \ {p}
  PROVE  Sound(q)'
<1>1. Sound(q) /\ process'[q] = process[q] /\ begins \in Nat
      /\ begins <= MaxBegins
  BY DEF CaptureInv, Moves, Shape
<1>2. SUFFICES ASSUME Working(q)
               PROVE  (/\ KnownMemory(process[q]) /\ BackedMemory(process[q])
                       /\ NamedMemory(process[q]) /\ ToldMemory(process[q]))'
  BY <1>1 DEF Sound, Working
<1> DEFINE m == process[q]
<1>3. m' = m /\ m.id # n
  BY <1>1, <1>2 DEF Moves
<1>4. KnownMemory(m) /\ BackedMemory(m) /\ NamedMemory(m) /\ ToldMemory(m)
  BY <1>1, <1>2 DEF Sound
<1>5. KnownMemory(m)'
  BY StatareaAssumption, <1>1, <1>3, <1>4 DEF KnownMemory, Moves
<1>6. BackedMemory(m)'
  <2>1. m.id \in 1 .. MaxBegins /\ exports'[m.id] = exports[m.id]
    BY StatareaAssumption, <1>1, <1>3, <1>4 DEF KnownMemory, Moves
  <2>2. CASE m.pc \in Backed
    <3>1. <<m.date, m.answer.page>> \in Dates \X Pages
      BY <1>1, <1>4, <2>2, PageOf DEF KnownMemory, Backed
    <3>2. QED
      BY <1>3, <1>4, <2>1, <2>2, <3>1 DEF BackedMemory, Moves
  <2>3. CASE m.pc \notin Backed
    BY <1>3, <2>3 DEF BackedMemory, Backed, Parsing
  <2>4. QED
    BY <2>2, <2>3
<1>7. NamedMemory(m)'
  BY <1>3, <1>4 DEF NamedMemory, Moves
<1>8. ToldMemory(m)'
  <2>1. \A id : id # n =>
          {f \in events' : f.capture = id} = {f \in events : f.capture = id}
    BY DEF Moves
  <2>2. {f \in events' : f.capture = m.id} = {f \in events : f.capture = m.id}
    BY <1>3, <2>1
  <2>3. TypesOf(m.id)' = TypesOf(m.id) /\ Heard(m)' = Heard(m)
    BY <1>3, <2>2 DEF TypesOf, Heard
  <2>4. QED
    BY <1>3, <1>4, <2>3 DEF ToldMemory, Moves
<1>9. QED
  BY <1>3, <1>5, <1>6, <1>7, <1>8

(* With the process that moves and the rows, all is kept.                  *)
LEMMA InvKept ==
  ASSUME CaptureInv, NEW p \in Captures, NEW n, Moves(p, n), Sound(p)', SoundRows',
         process'[p].pc # "off" => process'[p].id = n
  PROVE  CaptureInv'
<1>1. \A q \in Captures : Sound(q)'
  BY OthersSound
<1>2. Shape'
  <2>1. Shape
    BY DEF CaptureInv, Shape
  <2>2. \A q, r \in Captures :
          process'[q].pc # "off" /\ process'[r].pc # "off" /\ process'[q].id = process'[r].id
            => q = r
    BY <2>1 DEF Moves, Shape, Working
  <2>3. QED
    BY <2>1, <2>2 DEF Moves, Shape, Working
<1>3. QED
  BY <1>1, <1>2 DEF CaptureInv

(* Rows that stay, with the exports of the snapshots.                      *)
LEMMA RowsKept ==
  ASSUME CaptureInv, NEW p \in Captures, NEW n, Moves(p, n), UNCHANGED rows,
         \A s \in snapshots : exports'[s.id] = exports[s.id]
  PROVE  SoundRows'
<1>1. SoundRows /\ begins \in Nat
  BY DEF CaptureInv, Shape
<1>2. SnapshotsAreKept'
  BY <1>1 DEF SoundRows, SnapshotsAreKept, Moves, rows
<1>3. CapturesAreIdempotent'
  BY <1>1 DEF SoundRows, CapturesAreIdempotent, rows
<1>4. TrailsAreWhole'
  BY <1>1 DEF SoundRows, TrailsAreWhole, rows
<1>5. QED
  BY <1>1, <1>2, <1>3, <1>4 DEF SoundRows, Moves, rows

(* A step that adds no rows.                                               *)
LEMMA CaptureQuietStep ==
  ASSUME CaptureInv, NEW p \in Captures, Working(p), Moves(p, process[p].id),
         UNCHANGED <<rows, begins>>,
         \A s \in snapshots : exports'[s.id] = exports[s.id],
         DOMAIN process'[p] = Fields,
         process'[p].pc # "off" =>
           /\ process'[p].id = process[p].id
           /\ (KnownMemory(process[p]) /\ BackedMemory(process[p]) /\ NamedMemory(process[p]))'
           /\ Heard(process'[p]) = Heard(process[p])
  PROVE  CaptureInv'
<1>1. Sound(p)
  BY DEF CaptureInv
<1>2. SoundRows'
  <2>1. \A n : n = process[p].id => Moves(p, n)
    OBVIOUS
  <2>2. PICK n : n = process[p].id
    OBVIOUS
  <2>3. QED
    BY <2>1, <2>2, RowsKept
<1>3. Sound(p)'
  <2>1. SUFFICES ASSUME process'[p].pc # "off" PROVE ToldMemory(process[p])'
    BY DEF Sound, Working
  <2>2. ToldMemory(process[p])
    BY <1>1 DEF Sound
  <2>3. TypesOf(process'[p].id) = Heard(process'[p])
    BY <2>1, <2>2 DEF ToldMemory
  <2>4. TypesOf(process[p].id)' = TypesOf(process'[p].id)
    BY DEF TypesOf, rows
  <2>5. Heard(process[p])' = Heard(process'[p])
    BY DEF Heard
  <2>6. QED
    BY <2>1, <2>2, <2>3, <2>4, <2>5 DEF ToldMemory, rows
<1>4. PICK n : n = process[p].id
  OBVIOUS
<1>5. Moves(p, n) /\ (process'[p].pc # "off" => process'[p].id = n)
  BY <1>4
<1>6. QED
  BY <1>2, <1>3, <1>5, InvKept

(* A step that only changes the memory of a capture under way.             *)
LEMMA MemoryMoves ==
  ASSUME CaptureInv, NEW p \in Captures, Working(p), UNCHANGED <<files, rows, begins>>,
         process' = [process EXCEPT ![p] = process'[p]]
  PROVE  Moves(p, process[p].id)
<1>1. Shape
  BY DEF CaptureInv
<1>2. QED
  BY <1>1 DEF Shape, Moves, files, rows, Working

(* A step of the capture that asks, compares or dies, changes its memory.  *)
LEMMA MemoryStep ==
  ASSUME CaptureInv, NEW p \in Captures, Working(p), UNCHANGED <<files, rows, begins>>,
         process' = [process EXCEPT ![p] = process'[p]],
         DOMAIN process'[p] = Fields,
         process'[p].pc # "off" =>
           /\ process'[p].id = process[p].id
           /\ (KnownMemory(process[p]) /\ BackedMemory(process[p]) /\ NamedMemory(process[p]))'
           /\ Heard(process'[p]) = Heard(process[p])
  PROVE  CaptureInv'
BY MemoryMoves, CaptureQuietStep DEF files

(* A capture that throws or dies leaves what it wrote.                     *)
LEMMA GoneHolds ==
  ASSUME CaptureInv, NEW p \in Captures, Working(p), UNCHANGED <<files, rows, begins>>, Gone(p)
  PROVE  CaptureInv'
<1>1. process' = [process EXCEPT ![p] = process'[p]] /\ process'[p] = Off
  BY DEF CaptureInv, Shape, Gone
<1>2. DOMAIN process'[p] = Fields /\ process'[p].pc = "off"
  BY <1>1 DEF Off, Fields
<1>3. QED
  BY <1>1, <1>2, MemoryStep

(* What the memory of a capture under way is known to be.                  *)
LEMMA MemoryIs ==
  ASSUME CaptureInv, NEW p \in Captures, Working(p)
  PROVE  /\ DOMAIN process[p] = Fields
         /\ process = [q \in Captures |-> process[q]]
         /\ KnownMemory(process[p]) /\ BackedMemory(process[p])
         /\ NamedMemory(process[p]) /\ ToldMemory(process[p])
BY DEF CaptureInv, Shape, Sound

(* Asking, as often as it is redirected.                                   *)
LEMMA RequestHolds ==
  ASSUME CaptureInv, NEW p \in Captures,
         Respond(p) \/ FailRequest(p) \/ \E date \in Dates : Redirect(p, date)
  PROVE  CaptureInv'
<1>1. Working(p) /\ process[p].pc = "requesting" /\ UNCHANGED <<files, rows, begins>>
  BY DEF Respond, FailRequest, Redirect, At, Working
<1> DEFINE m == process[p]
<1>2. /\ DOMAIN m = Fields
      /\ process = [q \in Captures |-> process[q]]
      /\ KnownMemory(m) /\ BackedMemory(m) /\ NamedMemory(m) /\ m.answer = Absent
  BY <1>1, MemoryIs DEF KnownMemory
<1>3. /\ process' = [process EXCEPT ![p] = process'[p]] /\ DOMAIN process'[p] = Fields
      /\ process'[p].id = m.id /\ process'[p].date = m.date /\ process'[p].followed \in Dates
      /\ \/ process'[p].pc = "preserving" /\ process'[p].answer \in Responses
         \/ process'[p].pc \in {"requesting", "failing"} /\ process'[p].answer = Absent
  <2>1. CASE Respond(p)
    <3>1. PICK a \in Answers[m.followed] :
            process' = [process EXCEPT ![p].pc = "preserving", ![p].answer = a]
      BY <2>1 DEF Respond
    <3>2. a \in Responses
      BY <1>2 DEF KnownMemory, Responses
    <3>3. QED
      BY <1>2, <3>1, <3>2 DEF KnownMemory, Fields
  <2>2. CASE FailRequest(p)
    BY <1>2, <2>2 DEF FailRequest, KnownMemory, Fields
  <2>3. CASE \E date \in Dates : Redirect(p, date)
    <3>1. PICK date \in Dates : Redirect(p, date)
      BY <2>3
    <3>2. CASE m.hops < MaxRedirects
      BY <1>1, <1>2, <3>1, <3>2 DEF Redirect, KnownMemory, Fields
    <3>3. CASE ~(m.hops < MaxRedirects)
      BY <1>1, <1>2, <3>1, <3>3 DEF Redirect, KnownMemory, Fields
    <3>4. QED
      BY <3>2, <3>3
  <2>4. QED
    BY <2>1, <2>2, <2>3
<1>4. KnownMemory(process[p])'
  BY <1>1, <1>2, <1>3 DEF KnownMemory
<1>5. BackedMemory(process[p])'
  BY <1>3 DEF BackedMemory, Backed, Parsing
<1>6. NamedMemory(process[p])'
  BY <1>1, <1>2, <1>3 DEF NamedMemory, rows
<1>7. Heard(process'[p]) = Heard(m)
  BY <1>1, <1>2, <1>3 DEF Heard, Parsing, Backed
<1>8. QED
  BY <1>1, <1>3, <1>4, <1>5, <1>6, <1>7, MemoryStep

(* A file that was verified is whole, whoever wrote it.                    *)
LEMMA VerifyHolds ==
  ASSUME CaptureInv, NEW p \in Captures, Verify(p)
  PROVE  CaptureInv'
<1>1. Working(p) /\ process[p].pc = "verifying" /\ UNCHANGED <<files, rows, begins>>
  BY DEF Verify, At, Working
<1> DEFINE m == process[p]
<1>2. /\ DOMAIN m = Fields /\ process = [q \in Captures |-> process[q]]
      /\ KnownMemory(m) /\ BackedMemory(m) /\ NamedMemory(m)
  BY <1>1, MemoryIs
<1>3. CASE Verified(p)
  <2>1. process' = [process EXCEPT ![p] = process'[p]] /\ process'[p] = [m EXCEPT !.pc = "receiving"]
    BY <1>2, <1>3 DEF Verify, Goes
  <2>2. /\ DOMAIN process'[p] = Fields /\ process'[p].pc = "receiving"
        /\ \A f \in Fields \ {"pc"} : process'[p][f] = m[f]
    BY <1>2, <2>1 DEF Fields
  <2>3. KnownMemory(process[p])' /\ BackedMemory(process[p])' /\ NamedMemory(process[p])'
    BY <1>1, <1>2, <1>3, <2>2 DEF KnownMemory, BackedMemory, NamedMemory, Fields, Parsing, Backed,
       Verified, EvidenceKey, Page, rows, files
  <2>4. Heard(process'[p]) = Heard(m)
    BY <1>1, <2>2 DEF Heard, Parsing, Backed, Fields
  <2>5. QED
    BY <1>1, <2>1, <2>2, <2>3, <2>4, MemoryStep DEF Fields
<1>4. CASE ~Verified(p)
  BY <1>1, <1>4, GoneHolds DEF Verify
<1>5. QED
  BY <1>3, <1>4

(* One that reuses a snapshot found one of its key.                        *)
LEMMA CaptureLookHolds ==
  ASSUME CaptureInv, NEW p \in Captures, Find(p)
  PROVE  CaptureInv'
<1>1. Working(p) /\ process[p].pc = "looking" /\ UNCHANGED <<files, rows, begins>>
  BY DEF Find, At, Working
<1> DEFINE m == process[p]
<1>2. /\ DOMAIN m = Fields /\ process = [q \in Captures |-> process[q]]
      /\ KnownMemory(m) /\ BackedMemory(m) /\ NamedMemory(m)
  BY <1>1, MemoryIs
<1>3. /\ process' = [process EXCEPT ![p] = process'[p]] /\ DOMAIN process'[p] = Fields
      /\ \A f \in Fields \ {"pc", "snapshot"} : process'[p][f] = m[f]
      /\ \/ process'[p].pc = "exporting" /\ process'[p].snapshot = m.id
         \/ /\ process'[p].pc = "closing" /\ process'[p].snapshot # m.id
            /\ \E s \in snapshots : /\ s.id = process'[p].snapshot
                                    /\ s.date = m.date /\ s.page = m.answer.page
  <2>1. CASE SameKey(p) = {}
    BY <1>2, <2>1 DEF Find, Fields
  <2>2. CASE SameKey(p) # {}
    <3>1. PICK s \in SameKey(p) :
            process' = [process EXCEPT ![p].pc = "closing", ![p].snapshot = s.id]
      BY <2>2 DEF Find
    <3>2. s \in snapshots /\ s.date = m.date /\ s.page = m.answer.page /\ s.id # m.id
      BY <1>1, <1>2 DEF SameKey, Page, NamedMemory
    <3>3. QED
      BY <1>2, <3>1, <3>2 DEF Fields
  <2>3. QED
    BY <2>1, <2>2
<1>4. KnownMemory(process[p])'
  BY <1>1, <1>2, <1>3 DEF KnownMemory, Fields
<1>5. BackedMemory(process[p])'
  BY <1>1, <1>2, <1>3 DEF BackedMemory, Fields, Parsing, Backed, files
<1>6. NamedMemory(process[p])'
  BY <1>1, <1>2, <1>3 DEF NamedMemory, Fields, rows
<1>7. Heard(process'[p]) = Heard(m)
  BY <1>1, <1>3 DEF Heard, Parsing, Backed, Fields
<1>8. QED
  BY <1>1, <1>3, <1>4, <1>5, <1>6, <1>7, MemoryStep DEF Fields

(* Writing the evidence, which leaves a whole file as it is.               *)
LEMMA EvidenceHolds ==
  ASSUME CaptureInv, NEW p \in Captures, Preserve(p) \/ FillEvidence(p)
  PROVE  CaptureInv'
<1>1. /\ Working(p) /\ process[p].pc \in {"preserving", "filling"}
      /\ UNCHANGED <<exports, rows, begins>>
  BY DEF Preserve, FillEvidence, At, Working
<1> DEFINE m == process[p]
<1>2. /\ DOMAIN m = Fields /\ process = [q \in Captures |-> process[q]]
      /\ KnownMemory(m) /\ BackedMemory(m) /\ NamedMemory(m) /\ Shape
  BY <1>1, MemoryIs DEF CaptureInv
<1>3. /\ process' = [process EXCEPT ![p] = process'[p]] /\ DOMAIN process'[p] = Fields
      /\ \A f \in Fields \ {"pc"} : process'[p][f] = m[f]
      /\ process'[p].pc \in {"filling", "verifying"}
  BY <1>2 DEF Preserve, FillEvidence, Goes, Fields
<1>4. /\ evidence' = [key \in Dates \X Pages |-> evidence'[key]]
      /\ \A key \in Dates \X Pages : evidence[key] = "WHOLE" => evidence'[key] = "WHOLE"
  <2>1. EvidenceKey(p) \in Dates \X Pages
    BY <1>1, <1>2, PageOf DEF KnownMemory, EvidenceKey, Page
  <2>2. Absent # "WHOLE"
    BY StatareaAssumption, <1>2
  <2>3. QED
    BY <1>2, <2>1, <2>2 DEF Preserve, FillEvidence, Shape
<1>5. Moves(p, m.id)
  BY <1>1, <1>2, <1>3, <1>4 DEF Moves, Shape, rows, Working
<1>6. KnownMemory(process[p])' /\ BackedMemory(process[p])' /\ NamedMemory(process[p])'
  BY <1>1, <1>2, <1>3 DEF KnownMemory, BackedMemory, NamedMemory, Fields, Parsing, Backed, rows
<1>7. Heard(process'[p]) = Heard(m)
  BY <1>1, <1>3 DEF Heard, Parsing, Backed, Fields
<1>8. QED
  BY <1>1, <1>3, <1>5, <1>6, <1>7, CaptureQuietStep DEF Fields

(* Writing the export of a snapshot that is not there yet.                 *)
LEMMA ExportHolds ==
  ASSUME CaptureInv, NEW p \in Captures, Export(p) \/ FillExport(p)
  PROVE  CaptureInv'
<1>1. /\ Working(p) /\ process[p].pc \in {"exporting", "completing"}
      /\ UNCHANGED <<evidence, rows, begins>>
  BY DEF Export, FillExport, At, Working
<1> DEFINE m == process[p]
<1>2. /\ DOMAIN m = Fields /\ process = [q \in Captures |-> process[q]]
      /\ KnownMemory(m) /\ BackedMemory(m) /\ NamedMemory(m) /\ Shape
  BY <1>1, MemoryIs DEF CaptureInv
<1>3. m.id \in 1 .. MaxBegins
  BY StatareaAssumption, <1>2 DEF Shape, KnownMemory
<1>4. /\ process' = [process EXCEPT ![p] = process'[p]] /\ DOMAIN process'[p] = Fields
      /\ \A f \in Fields \ {"pc"} : process'[p][f] = m[f]
      /\ exports' = [exports EXCEPT ![m.id] = exports'[m.id]]
      /\ \/ /\ process'[p].pc = "completing"
            /\ exports'[m.id] = [part |-> "PART", date |-> m.date, page |-> m.answer.page]
         \/ /\ process'[p].pc = "creating"
            /\ exports'[m.id] = [part |-> "WHOLE", date |-> m.date, page |-> m.answer.page]
  <2>1. CASE Export(p)
    <3>1. exports' = [exports EXCEPT ![m.id] =
                        [part |-> "PART", date |-> m.date, page |-> m.answer.page]]
      BY <2>1 DEF Export, Page
    <3>2. process' = [process EXCEPT ![p].pc = "completing"]
      BY <2>1 DEF Export, Goes
    <3>3. QED
      BY <1>2, <1>3, <3>1, <3>2 DEF Shape, Fields
  <2>2. CASE FillExport(p)
    <3>1. exports[m.id] = [part |-> "PART", date |-> m.date, page |-> m.answer.page]
      BY <1>2, <2>2 DEF FillExport, At, BackedMemory
    <3>2. exports' = [exports EXCEPT ![m.id] = [exports[m.id] EXCEPT !.part = "WHOLE"]]
      BY <2>2 DEF FillExport
    <3>3. [exports[m.id] EXCEPT !.part = "WHOLE"]
            = [part |-> "WHOLE", date |-> m.date, page |-> m.answer.page]
      BY <3>1
    <3>4. process' = [process EXCEPT ![p].pc = "creating"]
      BY <2>2 DEF FillExport, Goes
    <3>5. QED
      BY <1>2, <1>3, <3>2, <3>3, <3>4 DEF Shape, Fields
  <2>3. QED
    BY <2>1, <2>2
<1>5. Moves(p, m.id)
  BY StatareaAssumption, <1>1, <1>2, <1>3, <1>4 DEF Moves, Shape, rows, Working
<1>6. \A s \in snapshots : exports'[s.id] = exports[s.id]
  <2>1. \A s \in snapshots : s.id # m.id /\ s.id \in 1 .. MaxBegins
    BY StatareaAssumption, <1>1, <1>2 DEF NamedMemory, CaptureInv, SoundRows, Shape
  <2>2. QED
    BY <1>2, <1>4, <2>1 DEF Shape
<1>7. KnownMemory(process[p])' /\ BackedMemory(process[p])' /\ NamedMemory(process[p])'
  <2>1. KnownMemory(process[p])'
    BY <1>1, <1>2, <1>4 DEF KnownMemory, Fields
  <2>2. BackedMemory(process[p])'
    BY <1>1, <1>2, <1>4 DEF BackedMemory, Fields, Parsing, Backed
  <2>3. NamedMemory(process[p])'
    BY <1>1, <1>2, <1>4 DEF NamedMemory, Fields, rows
  <2>4. QED
    BY <2>1, <2>2, <2>3
<1>8. Heard(process'[p]) = Heard(m)
  BY <1>1, <1>4 DEF Heard, Parsing, Backed, Fields
<1>9. QED
  BY <1>1, <1>4, <1>5, <1>6, <1>7, <1>8, CaptureQuietStep DEF Fields

(* Of events that are added, the capture has told what it had told before  *)
(* and their types.                                                        *)
LEMMA SaidIsTold ==
  ASSUME NEW n, NEW types, NEW x, events' = events \union Said(n, types, x)
  PROVE  TypesOf(n)' = TypesOf(n) \union types
<1>1. ASSUME NEW t \in TypesOf(n)' PROVE t \in TypesOf(n) \union types
  BY DEF TypesOf, Said
<1>2. ASSUME NEW t \in TypesOf(n) PROVE t \in TypesOf(n)'
  BY DEF TypesOf
<1>3. ASSUME NEW t \in types PROVE t \in TypesOf(n)'
  <2>1. [capture |-> n, type |-> t, snapshot |-> x] \in events'
    BY DEF Said
  <2>2. QED
    BY <2>1 DEF TypesOf
<1>4. QED
  BY <1>1, <1>2, <1>3

(* The trails of the captures that ended stay whole.                       *)
LEMMA TrailsKept ==
  ASSUME CaptureInv, NEW p \in Captures, NEW n, Moves(p, n),
         \A a \in attempts : a.id # n,
         \A e \in events' \ events : e.snapshot # 0 => \E s \in snapshots' : s.id = e.snapshot
  PROVE  /\ \A a \in attempts : {e.type : e \in {f \in events' : f.capture = a.id}} = Trail(a)
         /\ \A e \in events' : e.snapshot # 0 => \E s \in snapshots' : s.id = e.snapshot
<1>1. TrailsAreWhole
  BY DEF CaptureInv, SoundRows
<1>2. ASSUME NEW a \in attempts
      PROVE  {e.type : e \in {f \in events' : f.capture = a.id}} = Trail(a)
  <2>1. {f \in events' : f.capture = a.id} = {f \in events : f.capture = a.id}
    BY DEF Moves
  <2>2. QED
    BY <1>1, <2>1 DEF TrailsAreWhole
<1>3. QED
  BY <1>1, <1>2 DEF TrailsAreWhole, Moves

(* Events of a capture that has not ended.                                 *)
LEMMA EventsAdded ==
  ASSUME CaptureInv, NEW p \in Captures, NEW n, Moves(p, n), n \in 1 .. begins',
         UNCHANGED <<exports, snapshots, attempts>>,
         \A a \in attempts : a.id # n,
         \A e \in events' \ events : e.snapshot # 0 => \E s \in snapshots : s.id = e.snapshot
  PROVE  SoundRows'
<1>1. SoundRows /\ begins \in Nat
  BY DEF CaptureInv, Shape
<1>2. TrailsAreWhole'
  <2>1. /\ \A a \in attempts : {e.type : e \in {f \in events' : f.capture = a.id}} = Trail(a)
        /\ \A e \in events' : e.snapshot # 0 => \E s \in snapshots' : s.id = e.snapshot
    BY TrailsKept
  <2>2. QED
    BY <1>1, <2>1 DEF SoundRows, TrailsAreWhole
<1>3. SnapshotsAreKept'
  BY <1>1 DEF SoundRows, SnapshotsAreKept, Moves
<1>4. CapturesAreIdempotent'
  BY <1>1 DEF SoundRows, CapturesAreIdempotent
<1>5. QED
  BY <1>1, <1>2, <1>3, <1>4 DEF SoundRows, Moves

(* An attempt that ends a capture, with its last event.                    *)
LEMMA AttemptAdded ==
  ASSUME CaptureInv, NEW p \in Captures, NEW n, Moves(p, n), n \in 1 .. begins,
         NEW a, NEW x, a.id = n, attempts' = attempts \union {a},
         UNCHANGED <<exports, snapshots>>,
         \A b \in attempts : b.id # n,
         events' = events \union Said(n, {Closing(a.status)}, x),
         TypesOf(n) \union {Closing(a.status)} = Trail(a),
         x # 0 => \E s \in snapshots : s.id = x,
         a.status # "FAILED" =>
           \E s \in snapshots :
             /\ s.id = a.snapshot /\ s.date = a.date /\ s.page = a.page
             /\ a.status = "REUSED" <=> s.id # a.id
             /\ a.status = "SUCCEEDED" => DOMAIN s.parsed.rejections = {}
  PROVE  SoundRows'
<1>1. SoundRows /\ begins \in Nat
  BY DEF CaptureInv, Shape
<1>2. TrailsAreWhole'
  <2>1. /\ \A b \in attempts : {e.type : e \in {f \in events' : f.capture = b.id}} = Trail(b)
        /\ \A e \in events' : e.snapshot # 0 => \E s \in snapshots' : s.id = e.snapshot
    <3>1. \A e \in events' \ events : e.snapshot = x
      BY DEF Said
    <3>2. \A e \in events' \ events : e.snapshot # 0 => \E s \in snapshots' : s.id = e.snapshot
      BY <3>1
    <3>3. QED
      BY <3>2, TrailsKept
  <2>2. {e.type : e \in {f \in events' : f.capture = n}} = Trail(a)
    <3>1. TypesOf(n)' = TypesOf(n) \union {Closing(a.status)}
      BY SaidIsTold
    <3>2. TypesOf(n)' = Trail(a)
      BY <3>1
    <3>3. QED
      BY <3>2 DEF TypesOf
  <2>3. QED
    BY <1>1, <2>1, <2>2 DEF SoundRows, TrailsAreWhole
<1>3. SnapshotsAreKept'
  BY <1>1 DEF SoundRows, SnapshotsAreKept, Moves
<1>4. CapturesAreIdempotent'
  <2>1. CapturesAreIdempotent
    BY <1>1 DEF SoundRows
  <2>2. \A s, t \in snapshots' : s.date = t.date /\ s.page = t.page => s = t
    BY <2>1 DEF CapturesAreIdempotent
  <2>3. ASSUME NEW b \in attempts', b.status # "FAILED"
        PROVE  \E s \in snapshots' :
                 /\ s.id = b.snapshot /\ s.date = b.date /\ s.page = b.page
                 /\ b.status = "REUSED" <=> s.id # b.id
                 /\ b.status = "SUCCEEDED" => DOMAIN s.parsed.rejections = {}
    <3>1. CASE b = a
      BY <2>3, <3>1
    <3>2. CASE b \in attempts
      BY <2>1, <2>3, <3>2 DEF CapturesAreIdempotent
    <3>3. QED
      BY <2>3, <3>1, <3>2
  <2>4. QED
    BY <2>2, <2>3 DEF CapturesAreIdempotent
<1>5. /\ \A b \in attempts' : b.id \in 1 .. begins'
      /\ \A e \in events' : e.capture \in 1 .. begins'
  <2>1. begins' \in Nat /\ begins <= begins' /\ \A e \in events' \ events : e.capture = n
    BY DEF Moves
  <2>2. \A b \in attempts' : b = a \/ b \in attempts
    OBVIOUS
  <2>3. /\ \A b \in attempts : b.id \in 1 .. begins
        /\ \A e \in events : e.capture \in 1 .. begins
    BY <1>1 DEF SoundRows
  <2>4. \A b \in attempts' : b.id \in 1 .. begins
    BY <2>2, <2>3
  <2>5. \A e \in events' : e.capture \in 1 .. begins
    BY <2>1, <2>3
  <2>6. 1 .. begins \subseteq 1 .. begins'
    BY <1>1, <2>1
  <2>7. QED
    BY <2>4, <2>5, <2>6
<1>6. \A s \in snapshots : s.id \in 1 .. begins'
  BY <1>1 DEF SoundRows, Moves
<1>7. QED
  BY <1>1, <1>2, <1>3, <1>4, <1>5, <1>6 DEF SoundRows

(* A step of a capture under way that adds rows with its number.           *)
LEMMA RowsMove ==
  ASSUME CaptureInv, NEW p \in Captures, Working(p), UNCHANGED <<files, begins>>,
         process' = [process EXCEPT ![p] = process'[p]],
         NEW n, n = process[p].id,
         snapshots \subseteq snapshots' /\ \A s \in snapshots' \ snapshots : s.id = n,
         attempts \subseteq attempts' /\ \A a \in attempts' \ attempts : a.id = n,
         events \subseteq events' /\ \A e \in events' \ events : e.capture = n
  PROVE  Moves(p, n)
<1>1. Shape
  BY DEF CaptureInv
<1>2. QED
  BY <1>1 DEF Shape, Moves, files, Working

LEMMA SaidAreOfIt ==
  ASSUME NEW n, NEW types, NEW x, events' = events \union Said(n, types, x)
  PROVE  /\ events \subseteq events'
         /\ \A e \in events' \ events : e.capture = n /\ e.snapshot = x
BY DEF Said

(* The response is told, and parsed only where it is a page.               *)
LEMMA ReceiveHolds ==
  ASSUME CaptureInv, NEW p \in Captures, Receive(p)
  PROVE  CaptureInv'
<1>1. /\ Working(p) /\ process[p].pc = "receiving"
      /\ UNCHANGED <<files, snapshots, attempts, begins>>
  BY DEF Receive, At, Working
<1> DEFINE m == process[p]
<1>2. /\ DOMAIN m = Fields /\ process = [q \in Captures |-> process[q]]
      /\ KnownMemory(m) /\ BackedMemory(m) /\ NamedMemory(m) /\ ToldMemory(m)
  BY <1>1, MemoryIs
<1>3. PICK n : n = m.id
  OBVIOUS
<1>4. /\ process' = [process EXCEPT ![p] = process'[p]] /\ DOMAIN process'[p] = Fields
      /\ \A f \in Fields \ {"pc", "error"} : process'[p][f] = m[f]
      /\ \/ process'[p].pc = "failing"
         \/ process'[p].pc = "looking" /\ Parse(m.answer.page.rows, m.date).rows # {}
  <2> DEFINE failure == Failure(m.answer)
             error == IF failure # Absent THEN failure
                      ELSE IF Parsed(p).rows = {} THEN "ZERO_VALID_ROWS" ELSE Absent
  <2>1. process' = [process EXCEPT ![p].pc = IF error = Absent THEN "looking" ELSE "failing",
                                   ![p].error = error]
    BY DEF Receive
  <2>2. error = Absent => Parse(m.answer.page.rows, m.date).rows # {}
    <3>1. "ZERO_VALID_ROWS" # Absent
      BY StatareaAssumption, <1>2 DEF Failures
    <3>2. QED
      BY <3>1 DEF Parsed, Page
  <2> HIDE DEF error
  <2>3. QED
    BY <1>2, <2>1, <2>2 DEF Fields
<1>5. events' = events \union Said(n, {"RESPONSE_RECEIVED"}, 0)
  BY <1>3 DEF Receive
<1>6. events \subseteq events' /\ \A e \in events' \ events : e.capture = n /\ e.snapshot = 0
  BY <1>5, SaidAreOfIt
<1>7. Moves(p, n)
  BY <1>1, <1>3, <1>4, <1>6, RowsMove
<1>8. m.answer \in Responses /\ m.answer # Absent
  BY <1>1, <1>2, PageOf DEF KnownMemory
<1>9. KnownMemory(process[p])'
  BY <1>1, <1>2, <1>4, <1>8 DEF KnownMemory, Fields
<1>10. BackedMemory(process[p])'
  BY <1>1, <1>2, <1>4 DEF BackedMemory, Fields, Parsing, Backed, files
<1>11. NamedMemory(process[p])'
  BY <1>1, <1>2, <1>4 DEF NamedMemory, Fields
<1>12. ToldMemory(process[p])'
  <2>1. TypesOf(n)' = TypesOf(n) \union {"RESPONSE_RECEIVED"}
    BY <1>5, SaidIsTold
  <2>2. TypesOf(n) = Heard(m)
    BY <1>2, <1>3 DEF ToldMemory
  <2>3. Heard(process[p])' = Heard(m) \union {"RESPONSE_RECEIVED"}
    BY <1>1, <1>4, <1>8 DEF Heard, Parsing, Backed, Fields
  <2>4. process'[p].id = n
    BY <1>3, <1>4 DEF Fields
  <2>5. TypesOf(process[p].id)' = TypesOf(n)'
    BY <2>4 DEF TypesOf
  <2>6. QED
    BY <1>1, <1>2, <1>3, <2>1, <2>2, <2>3, <2>4, <2>5 DEF ToldMemory
<1>13. Sound(p)'
  BY <1>4, <1>9, <1>10, <1>11, <1>12 DEF Sound
<1>14. SoundRows'
  <2>1. n \in 1 .. begins' /\ \A a \in attempts : a.id # n
    BY <1>1, <1>2, <1>3 DEF KnownMemory, ToldMemory
  <2>2. \A e \in events' \ events : e.snapshot # 0 => \E s \in snapshots : s.id = e.snapshot
    BY <1>6
  <2>3. UNCHANGED <<exports, snapshots, attempts>>
    BY <1>1 DEF files
  <2>4. QED
    BY <1>7, <2>1, <2>2, <2>3, EventsAdded
<1>15. QED
  BY <1>3, <1>4, <1>7, <1>13, <1>14, InvKept DEF Fields

(* The five events of a snapshot that the capture has made.                *)
LEMMA AuditHolds ==
  ASSUME CaptureInv, NEW p \in Captures, Audit(p)
  PROVE  CaptureInv'
<1>1. /\ Working(p) /\ process[p].pc = "auditing"
      /\ UNCHANGED <<files, snapshots, attempts, begins>>
  BY DEF Audit, At, Working
<1> DEFINE m == process[p]
<1>2. /\ DOMAIN m = Fields /\ process = [q \in Captures |-> process[q]]
      /\ KnownMemory(m) /\ NamedMemory(m) /\ ToldMemory(m)
  BY <1>1, MemoryIs
<1>3. PICK n : n = m.id
  OBVIOUS
<1>4. /\ process' = [process EXCEPT ![p] = process'[p]] /\ DOMAIN process'[p] = Fields
      /\ \A f \in Fields \ {"pc"} : process'[p][f] = m[f]
      /\ process'[p].pc = "closing"
  BY <1>2 DEF Audit, Goes, Fields
<1>5. events' = events \union Said(n, Creations, n)
  BY <1>1, <1>2, <1>3 DEF Audit, NamedMemory
<1>6. events \subseteq events' /\ \A e \in events' \ events : e.capture = n /\ e.snapshot = n
  BY <1>5, SaidAreOfIt
<1>7. Moves(p, n)
  BY <1>1, <1>3, <1>4, <1>6, RowsMove
<1>8. KnownMemory(process[p])'
  BY <1>1, <1>2, <1>4 DEF KnownMemory, Fields
<1>9. BackedMemory(process[p])'
  BY <1>4 DEF BackedMemory, Parsing, Backed
<1>10. NamedMemory(process[p])'
  BY <1>1, <1>2, <1>4 DEF NamedMemory, Fields
<1>11. ToldMemory(process[p])'
  <2>1. TypesOf(n)' = TypesOf(n) \union Creations
    BY <1>5, SaidIsTold
  <2>2. TypesOf(n) = Heard(m)
    BY <1>2, <1>3 DEF ToldMemory
  <2>3. Heard(process[p])' = Heard(m) \union Creations
    BY <1>1, <1>2, <1>4 DEF Heard, Parsing, Backed, Fields, NamedMemory
  <2>4. process'[p].id = n
    BY <1>3, <1>4 DEF Fields
  <2>5. TypesOf(process[p].id)' = TypesOf(n)'
    BY <2>4 DEF TypesOf
  <2>6. QED
    BY <1>1, <1>2, <1>3, <2>1, <2>2, <2>3, <2>4, <2>5 DEF ToldMemory
<1>12. Sound(p)'
  BY <1>4, <1>8, <1>9, <1>10, <1>11 DEF Sound
<1>13. SoundRows'
  <2>1. n \in 1 .. begins' /\ \A a \in attempts : a.id # n
    BY <1>1, <1>2, <1>3 DEF KnownMemory, ToldMemory
  <2>2. \A e \in events' \ events : e.snapshot # 0 => \E s \in snapshots : s.id = e.snapshot
    BY <1>1, <1>2, <1>3, <1>6 DEF NamedMemory
  <2>3. UNCHANGED <<exports, snapshots, attempts>>
    BY <1>1 DEF files
  <2>4. QED
    BY <1>7, <2>1, <2>2, <2>3, EventsAdded
<1>14. QED
  BY <1>3, <1>4, <1>7, <1>12, <1>13, InvKept DEF Fields

(* The last step of a capture, with the attempt it leaves.                 *)
LEMMA EndHolds ==
  ASSUME CaptureInv, NEW p \in Captures, Working(p), Gone(p),
         UNCHANGED <<files, snapshots, begins>>,
         NEW n, n = process[p].id, NEW a, NEW x, a.id = n,
         attempts' = attempts \union {a},
         events' = events \union Said(n, {Closing(a.status)}, x),
         TypesOf(n) \union {Closing(a.status)} = Trail(a),
         x # 0 => \E s \in snapshots : s.id = x,
         a.status # "FAILED" =>
           \E s \in snapshots :
             /\ s.id = a.snapshot /\ s.date = a.date /\ s.page = a.page
             /\ a.status = "REUSED" <=> s.id # a.id
             /\ a.status = "SUCCEEDED" => DOMAIN s.parsed.rejections = {}
  PROVE  CaptureInv'
<1>1. process' = [process EXCEPT ![p] = process'[p]] /\ process'[p] = Off
  BY DEF CaptureInv, Shape, Gone
<1>2. DOMAIN process'[p] = Fields /\ process'[p].pc = "off"
  BY <1>1 DEF Off, Fields
<1>3. events \subseteq events' /\ \A e \in events' \ events : e.capture = n
  BY SaidAreOfIt
<1>4. attempts \subseteq attempts' /\ \A b \in attempts' \ attempts : b.id = n
  OBVIOUS
<1>5. Moves(p, n)
  BY <1>1, <1>3, <1>4, RowsMove
<1>6. n \in 1 .. begins /\ \A b \in attempts : b.id # n
  BY MemoryIs DEF KnownMemory, ToldMemory
<1>7. SoundRows'
  <2>1. UNCHANGED <<exports, snapshots>>
    BY DEF files
  <2>2. QED
    BY <1>5, <1>6, <2>1, AttemptAdded
<1>8. Sound(p)'
  BY <1>2 DEF Sound, Working
<1>9. QED
  BY <1>2, <1>5, <1>7, <1>8, InvKept

(* A failed attempt has a page where there was a response.                 *)
LEMMA CaptureFailHolds ==
  ASSUME CaptureInv, NEW p \in Captures, Fail(p)
  PROVE  CaptureInv'
<1>1. Working(p) /\ process[p].pc = "failing" /\ UNCHANGED <<files, snapshots, begins>> /\ Gone(p)
  BY DEF Fail, At, Working
<1> DEFINE m == process[p]
           attempt == [id |-> m.id, status |-> "FAILED", date |-> m.date,
                       page |-> IF m.answer = Absent THEN Absent ELSE m.answer.page,
                       snapshot |-> 0]
<1>2. KnownMemory(m) /\ ToldMemory(m)
  BY <1>1, MemoryIs
<1>3. PICK n : n = m.id
  OBVIOUS
<1>4. PICK a : a = attempt
  OBVIOUS
<1>5. a.id = n /\ a.status = "FAILED" /\ attempts' = attempts \union {a}
  BY <1>3, <1>4 DEF Fail, Page
<1>6. Closing(a.status) = "CAPTURE_FAILED"
  BY <1>5 DEF Closing
<1>7. events' = events \union Said(n, {Closing(a.status)}, 0)
  BY <1>3, <1>6 DEF Fail
<1>8. a.page = Absent <=> m.answer = Absent
  <2>1. CASE m.answer = Absent
    BY <1>4, <2>1
  <2>2. CASE m.answer # Absent
    BY <1>1, <1>2, <1>4, <2>2, PageOf DEF KnownMemory
  <2>3. QED
    BY <2>1, <2>2
<1>9. TypesOf(n) \union {Closing(a.status)} = Trail(a)
  BY <1>1, <1>2, <1>3, <1>5, <1>6, <1>8 DEF ToldMemory, Heard, Trail, Parsing, Backed
<1>10. PICK x : x = 0
  OBVIOUS
<1>11. QED
  BY <1>1, <1>3, <1>5, <1>7, <1>9, <1>10, EndHolds

(* A successful attempt names a snapshot of its date and page.             *)
LEMMA CloseHolds ==
  ASSUME CaptureInv, NEW p \in Captures, Close(p)
  PROVE  CaptureInv'
<1>1. Working(p) /\ process[p].pc = "closing" /\ UNCHANGED <<files, snapshots, begins>> /\ Gone(p)
  BY DEF Close, At, Working
<1> DEFINE m == process[p]
           attempt == [id |-> m.id, status |-> Status(p), date |-> m.date,
                       page |-> m.answer.page, snapshot |-> m.snapshot]
<1>2. KnownMemory(m) /\ NamedMemory(m) /\ ToldMemory(m)
  BY <1>1, MemoryIs
<1>3. PICK n : n = m.id
  OBVIOUS
<1>4. PICK a : a = attempt
  OBVIOUS
<1>5. PICK x : x = m.snapshot
  OBVIOUS
<1>6. /\ a.id = n /\ a.status = Status(p) /\ a.date = m.date /\ a.page = m.answer.page
      /\ a.snapshot = m.snapshot /\ attempts' = attempts \union {a}
  BY <1>3, <1>4 DEF Close, Page
<1>7. events' = events \union Said(n, {Closing(a.status)}, x)
  BY <1>3, <1>5, <1>6 DEF Close
<1>8. a.page # Absent
  BY <1>1, <1>2, <1>6, PageOf DEF KnownMemory
<1>9. /\ a.status \in {"REUSED", "PARTIAL", "SUCCEEDED"}
      /\ a.status = "REUSED" <=> m.snapshot # n
      /\ a.status = "SUCCEEDED" => DOMAIN Parsed(p).rejections = {}
  BY <1>3, <1>6 DEF Status
<1>10. TypesOf(n) \union {Closing(a.status)} = Trail(a)
  <2>1. TypesOf(n) = {"CAPTURE_STARTED", "RESPONSE_RECEIVED"}
                    \union (IF m.snapshot = n THEN Creations ELSE {})
    BY <1>1, <1>2, <1>3 DEF ToldMemory, Heard, Parsing, Backed
  <2>2. Trail(a) = {"CAPTURE_STARTED", Closing(a.status), "RESPONSE_RECEIVED"}
                     \union (IF m.snapshot = n THEN Creations ELSE {})
    BY <1>8, <1>9 DEF Trail
  <2>3. QED
    BY <2>1, <2>2
<1>11. PICK s \in snapshots : s.id = m.snapshot /\ s.date = m.date /\ s.page = m.answer.page
  BY <1>1, <1>2 DEF NamedMemory
<1>12. s.parsed = Parsed(p)
  BY <1>11 DEF CaptureInv, SoundRows, Parsed, Page
<1>13. /\ s.id = a.snapshot /\ s.date = a.date /\ s.page = a.page
       /\ a.status = "REUSED" <=> s.id # a.id
       /\ a.status = "SUCCEEDED" => DOMAIN s.parsed.rejections = {}
  BY <1>6, <1>9, <1>11, <1>12
<1>14. x # 0 => \E t \in snapshots : t.id = x
  BY <1>5, <1>11
<1>15. QED
  BY <1>1, <1>3, <1>6, <1>7, <1>10, <1>13, <1>14, EndHolds

(* The snapshot of a capture that found none of its key, nor finds one now.*)
LEMMA CreateHolds ==
  ASSUME CaptureInv, NEW p \in Captures, Create(p)
  PROVE  CaptureInv'
<1>1. Working(p) /\ process[p].pc = "creating" /\ UNCHANGED <<files, attempts, events, begins>>
  BY DEF Create, At, Working
<1> DEFINE m == process[p]
<1>2. /\ DOMAIN m = Fields /\ process = [q \in Captures |-> process[q]]
      /\ KnownMemory(m) /\ BackedMemory(m) /\ NamedMemory(m) /\ ToldMemory(m)
      /\ SoundRows /\ begins \in Nat
  BY <1>1, MemoryIs DEF CaptureInv, Shape
<1>3. CASE Taken(p)
  BY <1>1, <1>3, GoneHolds DEF Create, rows
<1>4. CASE ~Taken(p)
  <2>1. PICK n : n = m.id
    OBVIOUS
  <2>2. PICK new : new = [id |-> m.id, date |-> m.date, page |-> m.answer.page, parsed |-> Parsed(p)]
    OBVIOUS
  <2>3. /\ new.id = n /\ new.date = m.date /\ new.page = m.answer.page
        /\ new.parsed = Parse(new.page.rows, new.date)
        /\ snapshots' = snapshots \union {new}
    BY <1>4, <2>1, <2>2 DEF Create, Parsed, Page
  <2>4. /\ process' = [process EXCEPT ![p] = process'[p]] /\ DOMAIN process'[p] = Fields
        /\ \A f \in Fields \ {"pc"} : process'[p][f] = m[f]
        /\ process'[p].pc = "auditing"
    BY <1>2, <1>4 DEF Create, Goes, Fields
  <2>5. Moves(p, n)
    BY <1>1, <2>1, <2>3, <2>4, RowsMove
  <2>6. KnownMemory(process[p])'
    BY <1>1, <1>2, <2>4 DEF KnownMemory, Fields
  <2>7. BackedMemory(process[p])'
    BY <2>4 DEF BackedMemory, Parsing, Backed
  <2>8. NamedMemory(process[p])'
    BY <1>1, <1>2, <2>1, <2>3, <2>4 DEF NamedMemory, Fields
  <2>9. ToldMemory(process[p])'
    <3>1. TypesOf(n) = Heard(m)
      BY <1>2, <2>1 DEF ToldMemory
    <3>2. Heard(process[p])' = Heard(m)
      BY <1>1, <2>4 DEF Heard, Parsing, Backed, Fields
    <3>3. TypesOf(process[p].id)' = TypesOf(n)
      BY <1>1, <2>1, <2>4 DEF TypesOf, Fields
    <3>4. QED
      BY <1>1, <1>2, <2>1, <2>4, <3>1, <3>2, <3>3 DEF ToldMemory, Fields
  <2>10. Sound(p)'
    BY <2>4, <2>6, <2>7, <2>8, <2>9 DEF Sound
  <2>11. /\ new.id \in 1 .. begins /\ new.date \in Dates /\ new.page \in Pages
         /\ new.parsed.rows # {}
         /\ evidence[<<new.date, new.page>>] = "WHOLE"
         /\ exports[new.id] = [part |-> "WHOLE", date |-> new.date, page |-> new.page]
    BY <1>1, <1>2, <2>1, <2>3, PageOf DEF KnownMemory, BackedMemory, Backed, Parsing
  <2>12. \A s \in snapshots : s.id # n /\ ~(s.date = new.date /\ s.page = new.page)
    BY <1>1, <1>2, <1>4, <2>1, <2>3 DEF NamedMemory, Taken, SameKey, Page
  <2>13. SoundRows'
    <3>1. SnapshotsAreKept'
      BY <1>1, <1>2, <2>3, <2>11 DEF SoundRows, SnapshotsAreKept, files
    <3>2. CapturesAreIdempotent'
      <4>1. CapturesAreIdempotent
        BY <1>2 DEF SoundRows
      <4>2. \A s, t \in snapshots' : s.date = t.date /\ s.page = t.page => s = t
        BY <2>3, <2>12, <4>1 DEF CapturesAreIdempotent
      <4>3. ASSUME NEW b \in attempts, b.status # "FAILED"
            PROVE  \E s \in snapshots' :
                     /\ s.id = b.snapshot /\ s.date = b.date /\ s.page = b.page
                     /\ b.status = "REUSED" <=> s.id # b.id
                     /\ b.status = "SUCCEEDED" => DOMAIN s.parsed.rejections = {}
        BY <2>3, <4>1, <4>3 DEF CapturesAreIdempotent
      <4>4. attempts' = attempts
        BY <1>1
      <4>5. QED
        BY <4>2, <4>3, <4>4 DEF CapturesAreIdempotent
    <3>3. TrailsAreWhole'
      BY <1>1, <1>2, <2>3 DEF SoundRows, TrailsAreWhole
    <3>4. \A s, t \in snapshots' : s.id = t.id => s = t
      BY <1>2, <2>3, <2>12 DEF SoundRows
    <3>5. \A s \in snapshots' :
            /\ s.id \in 1 .. begins /\ s.date \in Dates /\ s.page \in Pages
            /\ s.parsed = Parse(s.page.rows, s.date) /\ s.parsed.rows # {}
      BY <1>2, <2>3, <2>11 DEF SoundRows
    <3>6. QED
      BY <1>1, <1>2, <3>1, <3>2, <3>3, <3>4, <3>5 DEF SoundRows
  <2>14. QED
    BY <2>1, <2>4, <2>5, <2>10, <2>13, InvKept DEF Fields
<1>5. QED
  BY <1>3, <1>4

(* A capture or a replay that starts has a number that none had.           *)
LEMMA CaptureStartHolds ==
  ASSUME CaptureInv, NEW p \in Captures, NEW memory, Starts(p, memory),
         DOMAIN memory = Fields, memory.id = begins + 1,
         memory.date \in Dates, memory.followed \in Dates,
         \/ memory.pc = "requesting" /\ memory.answer = Absent
         \/ memory.pc = "preserving" /\ memory.answer \in Responses
  PROVE  CaptureInv'
<1>1. Shape /\ SoundRows /\ begins \in Nat /\ begins <= MaxBegins
  BY DEF CaptureInv, Shape
<1>2. PICK n : n = begins + 1
  OBVIOUS
<1>3. /\ process[p].pc = "off" /\ process' = [process EXCEPT ![p] = memory]
      /\ begins' = n /\ n \in Nat /\ begins < MaxBegins /\ memory.id = n
      /\ UNCHANGED <<files, snapshots, attempts>>
  BY <1>1, <1>2 DEF Starts, At
<1>4. events' = events \union Said(n, {"CAPTURE_STARTED"}, 0)
  BY <1>2 DEF Starts
<1>5. events \subseteq events' /\ \A e \in events' \ events : e.capture = n /\ e.snapshot = 0
  BY <1>4, SaidAreOfIt
<1>6. process'[p] = memory
  BY <1>1, <1>3 DEF Shape
<1>7. \A q \in Captures : Working(q) => process[q].id \in 1 .. begins
  BY DEF CaptureInv, Sound, KnownMemory
<1>8. Moves(p, n)
  BY StatareaAssumption, <1>1, <1>2, <1>3, <1>5, <1>7 DEF Shape, Moves, files, Working
<1>9. /\ \A s \in snapshots : s.id # n
      /\ \A a \in attempts : a.id # n
      /\ \A e \in events : e.capture # n
  BY <1>1, <1>2 DEF SoundRows
<1>10. KnownMemory(process[p])'
  BY StatareaAssumption, <1>1, <1>2, <1>3, <1>6 DEF KnownMemory
<1>11. BackedMemory(process[p])'
  BY <1>6 DEF BackedMemory, Parsing, Backed
<1>12. NamedMemory(process[p])'
  BY <1>3, <1>6, <1>9 DEF NamedMemory
<1>13. ToldMemory(process[p])'
  <2>1. TypesOf(n) = {}
    BY <1>9 DEF TypesOf
  <2>2. TypesOf(n)' = TypesOf(n) \union {"CAPTURE_STARTED"}
    BY <1>4, SaidIsTold
  <2>3. TypesOf(process[p].id)' = TypesOf(n)'
    BY <1>3, <1>6 DEF TypesOf
  <2>4. Heard(process[p])' = {"CAPTURE_STARTED"}
    BY <1>6 DEF Heard, Parsing, Backed
  <2>5. QED
    BY <1>3, <1>6, <1>9, <2>1, <2>2, <2>3, <2>4 DEF ToldMemory
<1>14. Sound(p)'
  BY <1>6, <1>10, <1>11, <1>12, <1>13 DEF Sound
<1>15. SoundRows'
  <2>1. n \in 1 .. begins'
    BY <1>1, <1>2, <1>3
  <2>2. \A e \in events' \ events : e.snapshot # 0 => \E s \in snapshots : s.id = e.snapshot
    BY <1>5
  <2>3. UNCHANGED <<exports, snapshots, attempts>>
    BY <1>3 DEF files
  <2>4. QED
    BY <1>8, <1>9, <2>1, <2>2, <2>3, EventsAdded
<1>16. QED
  BY <1>3, <1>6, <1>8, <1>14, <1>15, InvKept

LEMMA BeginHolds ==
  ASSUME CaptureInv, NEW p \in Captures,
         \/ \E date \in Dates : Begin(p, date)
         \/ \E page \in Pages : BeginReplay(p, page)
  PROVE  CaptureInv'
<1>1. CASE \E date \in Dates : Begin(p, date)
  <2>1. PICK date \in Dates : Begin(p, date)
    BY <1>1
  <2>2. PICK memory : memory = [Off EXCEPT !.pc = "requesting", !.id = begins + 1,
                                           !.date = date, !.followed = date]
    OBVIOUS
  <2>3. /\ DOMAIN memory = Fields /\ memory.id = begins + 1
        /\ memory.date \in Dates /\ memory.followed \in Dates
        /\ memory.pc = "requesting" /\ memory.answer = Absent
    BY <2>2 DEF Off, Fields
  <2>4. Starts(p, memory)
    BY <2>1, <2>2 DEF Begin
  <2>5. QED
    BY <2>3, <2>4, CaptureStartHolds
<1>2. CASE \E page \in Pages : BeginReplay(p, page)
  <2>1. PICK page \in Pages : BeginReplay(p, page)
    BY <1>2
  <2>2. PICK memory : memory = [Off EXCEPT !.pc = "preserving", !.id = begins + 1,
                                           !.date = ReplayDate, !.followed = ReplayDate,
                                           !.answer = Replayed(page)]
    OBVIOUS
  <2>3. /\ DOMAIN memory = Fields /\ memory.id = begins + 1
        /\ memory.date = ReplayDate /\ memory.followed = ReplayDate
        /\ memory.pc = "preserving" /\ memory.answer = Replayed(page)
    BY <2>2 DEF Off, Fields
  <2>4. ReplayDate \in Dates /\ Replayed(page) \in Responses
    BY StatareaAssumption DEF CaptureInv, Shape, Responses
  <2>5. Starts(p, memory)
    BY <2>1, <2>2 DEF BeginReplay
  <2>6. QED
    BY <2>3, <2>4, <2>5, CaptureStartHolds
<1>3. QED
  BY <1>1, <1>2

LEMMA CaptureInitHolds ==
  ASSUME CaptureInit
  PROVE  CaptureInv
<1>1. Shape
  <2>1. 0 \in Nat /\ 0 <= MaxBegins /\ begins = 0
    BY StatareaAssumption DEF CaptureInit
  <2>2. evidence = [key \in Dates \X Pages |-> evidence[key]]
    BY DEF CaptureInit
  <2>3. exports = [id \in 1 .. MaxBegins |-> exports[id]]
    BY DEF CaptureInit
  <2>4. process = [p \in Captures |-> process[p]] /\ \A p \in Captures : ~Working(p)
    BY DEF CaptureInit, Off, Working
  <2>5. QED
    BY <2>1, <2>2, <2>3, <2>4 DEF Shape
<1>2. SoundRows
  BY DEF SoundRows, CaptureInit, SnapshotsAreKept, CapturesAreIdempotent, TrailsAreWhole
<1>3. ASSUME NEW p \in Captures PROVE Sound(p)
  BY DEF Sound, CaptureInit, Off, Fields, Working
<1>4. QED
  BY <1>1, <1>2, <1>3 DEF CaptureInv

LEMMA CaptureStutterHolds == CaptureInv /\ UNCHANGED captureVars => CaptureInv'
<1> SUFFICES ASSUME CaptureInv, UNCHANGED captureVars PROVE CaptureInv'
  OBVIOUS
<1> USE DEF captureVars, files, rows
<1>1. Shape'
  BY DEF CaptureInv, Shape, Working
<1>2. SoundRows'
  BY DEF CaptureInv, SoundRows, SnapshotsAreKept, CapturesAreIdempotent, TrailsAreWhole
<1>3. ASSUME NEW p \in Captures PROVE Sound(p)'
  <2>1. Sound(p)
    BY DEF CaptureInv
  <2>2. QED
    BY <2>1 DEF Sound, Working, KnownMemory, BackedMemory, NamedMemory, ToldMemory, TypesOf, Heard
<1>4. QED
  BY <1>1, <1>2, <1>3 DEF CaptureInv

LEMMA CaptureStepHolds == CaptureInv /\ [CaptureNext]_captureVars => CaptureInv'
<1> SUFFICES ASSUME CaptureInv, CaptureNext PROVE CaptureInv'
  BY CaptureStutterHolds
<1>1. PICK p \in Captures :
        \/ \E date \in Dates : Begin(p, date)
        \/ \E page \in Pages : BeginReplay(p, page)
        \/ Step(p) \/ Perish(p)
  BY DEF CaptureNext
<1>2. CASE Step(p)
  BY <1>2, RequestHolds, EvidenceHolds, VerifyHolds, ReceiveHolds, CaptureFailHolds, CaptureLookHolds,
     ExportHolds, CreateHolds, AuditHolds, CloseHolds DEF Step
<1>3. CASE Perish(p)
  BY <1>3, GoneHolds DEF Perish, At, Working
<1>4. QED
  BY <1>1, <1>2, <1>3, BeginHolds

(* The inductive invariant: what every capture under way remembers, and    *)
(* what the rows left by the others rest on.                               *)
THEOREM CapturesAreSound == CaptureSpec => []CaptureInv
<1>1. CaptureInit => CaptureInv
  BY CaptureInitHolds
<1>2. CaptureInv /\ [CaptureNext]_captureVars => CaptureInv'
  BY CaptureStepHolds
<1>3. QED
  BY <1>1, <1>2, PTL DEF CaptureSpec

(* A page has no rows that the parser neither keeps nor rejects nor takes  *)
(* for repeated, and those it keeps are of the date, between two teams,    *)
(* and differ.                                                             *)
THEOREM PagesAddUp ==
  ASSUME NEW page, page \in Seq({page[i] : i \in DOMAIN page}), NEW date
  PROVE  /\ \A r \in Parse(page, date).rows : r.date = date /\ Norm(r.home) # Norm(r.away)
         /\ \A r, q \in Parse(page, date).rows : RowKey(r) = RowKey(q) => r = q
         /\ Parse(page, date).found =
              Cardinality(Parse(page, date).rows)
                + Cardinality(DOMAIN Parse(page, date).rejections) + Parse(page, date).duplicates
<1> DEFINE found == DOMAIN page
           accepted == Accepted(page, date)
           kept == Kept(page, date)
           parsed == Parse(page, date)
<1>1. Len(page) \in Nat /\ found = 1 .. Len(page)
  OBVIOUS
<1>2. kept \subseteq accepted /\ accepted \subseteq found
  BY DEF Accepted, Kept
<1>3. /\ parsed.found = Len(page) /\ parsed.rows = {page[i] : i \in kept}
      /\ DOMAIN parsed.rejections = found \ accepted
      /\ parsed.duplicates = Cardinality(accepted \ kept)
  BY DEF Parse
<1>4. ASSUME NEW i \in accepted
      PROVE  page[i].date = date /\ Norm(page[i].home) # Norm(page[i].away)
  <2>1. \A k \in DOMAIN ReasonOrder : ~Applies(ReasonOrder[k], page[i], date)
    BY DEF Accepted, Reasons
  <2>2. /\ ~Applies("EMPTY_TEAM", page[i], date) /\ ~Applies("IDENTICAL_TEAMS", page[i], date)
        /\ ~Applies("INDETERMINATE_DATE", page[i], date) /\ ~Applies("DATE_MISMATCH", page[i], date)
    <3>1. /\ DOMAIN ReasonOrder = 1 .. 5
          /\ ReasonOrder[1] = "EMPTY_TEAM" /\ ReasonOrder[2] = "IDENTICAL_TEAMS"
          /\ ReasonOrder[3] = "INDETERMINATE_DATE" /\ ReasonOrder[4] = "DATE_MISMATCH"
      BY DEF ReasonOrder
    <3>2. 1 \in 1 .. 5 /\ 2 \in 1 .. 5 /\ 3 \in 1 .. 5 /\ 4 \in 1 .. 5
      OBVIOUS
    <3>3. QED
      BY <2>1, <3>1, <3>2
  <2>3. QED
    BY <2>2 DEF Applies
<1>5. ASSUME NEW i \in kept, NEW j \in kept, RowKey(page[i]) = RowKey(page[j])
      PROVE  i = j
  <2>1. i \in Int /\ j \in Int /\ i \in accepted /\ j \in accepted
    BY <1>1, <1>2
  <2>2. ~(i < j) /\ ~(j < i)
    BY <1>5, <2>1 DEF Kept
  <2>3. QED
    BY <2>1, <2>2
<1>6. \A r, q \in parsed.rows : RowKey(r) = RowKey(q) => r = q
  BY <1>3, <1>5
<1>7. \A r \in parsed.rows : r.date = date /\ Norm(r.home) # Norm(r.away)
  BY <1>2, <1>3, <1>4
<1>8. /\ IsFiniteSet(found) /\ Cardinality(found) = Len(page)
  BY <1>1, FS_Interval
<1>9. IsFiniteSet(accepted) /\ IsFiniteSet(kept)
  BY <1>2, <1>8, FS_Subset
<1>10. Cardinality(parsed.rows) = Cardinality(kept)
  <2> DEFINE f == [i \in kept |-> page[i]]
  <2>1. f \in Bijection(kept, parsed.rows)
    <3>1. f \in [kept -> parsed.rows]
      BY <1>3
    <3>2. \A i, j \in kept : f[i] = f[j] => i = j
      BY <1>5
    <3>3. \A r \in parsed.rows : \E i \in kept : f[i] = r
      BY <1>3
    <3>4. IsInjective(f)
      BY <3>2 DEF IsInjective
    <3>5. QED
      BY <3>1, <3>3, <3>4 DEF Bijection, Injection, Surjection
  <2>2. ExistsBijection(kept, parsed.rows)
    BY <2>1 DEF ExistsBijection
  <2>3. QED
    BY <1>9, <2>2, FS_Bijection
<1>11. Cardinality(found \ accepted) = Len(page) - Cardinality(accepted)
  <2>1. found \cap accepted = accepted
    BY <1>2
  <2>2. Cardinality(found \ accepted) = Cardinality(found) - Cardinality(found \cap accepted)
    BY <1>8, FS_Difference
  <2>3. QED
    BY <1>8, <2>1, <2>2
<1>12. Cardinality(accepted \ kept) = Cardinality(accepted) - Cardinality(kept)
  <2>1. accepted \cap kept = kept
    BY <1>2
  <2>2. Cardinality(accepted \ kept) = Cardinality(accepted) - Cardinality(accepted \cap kept)
    BY <1>9, FS_Difference
  <2>3. QED
    BY <2>1, <2>2
<1>13. QED
  BY <1>1, <1>3, <1>6, <1>7, <1>9, <1>10, <1>11, <1>12, FS_CardinalityType

(* A snapshot has its whole page in the evidence and a whole export,       *)
(* whatever crashed, overlapped or was left half written.                  *)
THEOREM SnapshotsBacked == CaptureSpec => []SnapshotsAreKept
<1>1. CaptureInv => SnapshotsAreKept
  BY DEF CaptureInv, SoundRows
<1>2. QED
  BY <1>1, CapturesAreSound, PTL

(* There is one snapshot of a date and a page, and a capture that ended    *)
(* well names the one of the page it received.                             *)
THEOREM CapturedOnce == CaptureSpec => []CapturesAreIdempotent
<1>1. CaptureInv => CapturesAreIdempotent
  BY DEF CaptureInv, SoundRows
<1>2. QED
  BY <1>1, CapturesAreSound, PTL

(* Redirected or not, a snapshot has rows of its own date only, and they   *)
(* add up with what was rejected and what was repeated.                    *)
THEOREM OfTheirDate == CaptureSpec => []SnapshotsAreOfTheirDate
<1>1. CaptureInv => SnapshotsAreOfTheirDate
  <2>1. SUFFICES ASSUME CaptureInv, NEW s \in snapshots
                 PROVE  /\ s.parsed.rows # {}
                        /\ \A r \in s.parsed.rows : r.date = s.date /\ Norm(r.home) # Norm(r.away)
                        /\ \A r, q \in s.parsed.rows : RowKey(r) = RowKey(q) => r = q
                        /\ s.parsed.found =
                             Cardinality(s.parsed.rows)
                               + Cardinality(DOMAIN s.parsed.rejections) + s.parsed.duplicates
    BY DEF SnapshotsAreOfTheirDate
  <2>2. /\ s.page \in Pages /\ s.parsed = Parse(s.page.rows, s.date) /\ s.parsed.rows # {}
    BY <2>1 DEF CaptureInv, SoundRows, Shape
  <2>3. PICK page : page = s.page.rows
    OBVIOUS
  <2>4. page \in Seq({page[i] : i \in DOMAIN page})
    BY StatareaAssumption, <2>2, <2>3
  <2>5. PICK date : date = s.date
    OBVIOUS
  <2>6. s.parsed = Parse(page, date)
    BY <2>2, <2>3, <2>5
  <2>7. QED
    BY <2>2, <2>4, <2>5, <2>6, PagesAddUp
<1>2. QED
  BY <1>1, CapturesAreSound, PTL

(* A capture that ended has left its whole trail in the audit events, and  *)
(* one attempt.                                                            *)
THEOREM WholeTrails == CaptureSpec => []TrailsAreWhole
<1>1. CaptureInv => TrailsAreWhole
  BY DEF CaptureInv, SoundRows
<1>2. QED
  BY <1>1, CapturesAreSound, PTL
=============================================================================
