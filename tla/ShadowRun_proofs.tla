---------------------------- MODULE ShadowRun_proofs ----------------------------
(***************************************************************************)
(* Proofs about ShadowRun, for any processes, pages, pairs, metrics and    *)
(* failures.  Its four properties follow from four invariants: what a      *)
(* process has in memory and when it was captured (Typed, Dated), how far  *)
(* it has written its files (Filed), and what is fixed as long as no two   *)
(* processes have captured together (Serial).                              *)
(*                                                                         *)
(* The last part is about the policy that an assessment applies,           *)
(* MarketPriority: for every fixture and every historical evaluation,      *)
(* which lines it can select, and what a preferred line has that no other  *)
(* one has.                                                                *)
(***************************************************************************)
EXTENDS ShadowRun, TLAPS, FiniteSetTheorems

-----------------------------------------------------------------------------
(* Memories and sequences.                                                 *)

Fields == {"pc", "source", "page", "at", "forebet", "statarea", "frozenAt", "evaluation",
           "directory", "bundle", "place"}

IsMemory(m) == DOMAIN m = Fields

IsSequence(s) == \E S : s \in Seq(S)

(* Only the memory of p changes, and remains one.                          *)
Same(p) ==
  /\ DOMAIN process' = Processes
  /\ IsMemory(process'[p])
  /\ \A q \in Processes : q # p => process'[q] = process[q]

CapturePcs == {"fetching", "looking", "creating", "attempting"}
FixedPcs   == {"matching", "pairing", "finding", "deciding", "freezing"}
ShadowPcs  == CapturePcs \union FixedPcs \union {"forebet", "statarea"}
WritingPcs == {"exporting", "filling"}
RulingPcs  == {"ruling", "enacting", "assessing"}

Typed ==
  /\ clock \in Nat
  /\ DOMAIN process = Processes
  /\ \A p \in Processes : IsMemory(process[p])

LEMMA AppendFacts ==
  ASSUME NEW s, NEW x, IsSequence(s)
  PROVE  /\ IsSequence(Append(s, x))
         /\ Len(s) \in Nat /\ DOMAIN s = 1 .. Len(s)
         /\ Len(Append(s, x)) = Len(s) + 1
         /\ \A i \in 1 .. Len(s) : Append(s, x)[i] = s[i]
         /\ Append(s, x)[Len(s) + 1] = x
<1>1. PICK S : s \in Seq(S)
  BY DEF IsSequence
<1>2. s \in Seq(S \union {x}) /\ x \in S \union {x}
  BY <1>1
<1>3. Append(s, x) \in Seq(S \union {x})
  BY <1>2
<1>4. QED
  BY <1>2, <1>3 DEF IsSequence

LEMMA GoneFacts ==
  ASSUME Typed, NEW p \in Processes, Gone(p)
  PROVE  Same(p) /\ process'[p] = Off /\ Off.pc = "off"
  BY DEF Typed, Gone, Same, IsMemory, Fields, Off

LEMMA GoesFacts ==
  ASSUME Typed, NEW p \in Processes, NEW pc, Goes(p, pc)
  PROVE  /\ Same(p)
         /\ process'[p].pc = pc
         /\ process'[p].source = process[p].source
         /\ process'[p].page = process[p].page
         /\ process'[p].at = process[p].at
         /\ process'[p].forebet = process[p].forebet
         /\ process'[p].statarea = process[p].statarea
         /\ process'[p].frozenAt = process[p].frozenAt
         /\ process'[p].evaluation = process[p].evaluation
         /\ process'[p].directory = process[p].directory
         /\ process'[p].bundle = process[p].bundle
         /\ process'[p].place = process[p].place
  BY DEF Typed, Goes, Same, IsMemory, Fields

-----------------------------------------------------------------------------
(* The steps of a process: whose memory, where it was and where it goes.   *)

Capturing(p) ==
  \/ Fetch(p) \/ Look(p) \/ Create(p) \/ Attempt(p) \/ FixForebet(p) \/ FixStatarea(p)
  \/ Match(p) \/ CreateMatch(p) \/ Find(p) \/ Decide(p) \/ Freeze(p)

Writing(p) ==
  \/ Bundle(p) \/ Write(p) \/ Fill(p) \/ Return(p)
  \/ EndWriting(p) \/ Rule(p) \/ Enact(p) \/ Assess(p)

LEMMA StepIs ==
  ASSUME NEW p
  PROVE  Step(p) <=> Capturing(p) \/ Writing(p)
  BY DEF Step, Capturing, Writing

(* What a step that captures or freezes leaves alone.                      *)
LEMMA CapturingFacts ==
  ASSUME Typed, NEW p \in Processes, Capturing(p)
  PROVE  /\ Same(p)
         /\ process[p].pc \in ShadowPcs
         /\ process'[p].pc \in ShadowPcs \union {"off", "bundling"}
         /\ UNCHANGED <<exports, returned, priority, overlapped>>
         /\ clock' \in {clock, clock + 1}
<1> USE DEF Same, ShadowPcs, CapturePcs, FixedPcs, Goes, Gone, At, Typed, IsMemory, Fields,
            Off, priority, history, captured
<1>1. CASE Fetch(p)
  <2>1. CASE Gone(p) /\ clock' = clock
    BY <1>1, <2>1 DEF Fetch
  <2>2. CASE ~(Gone(p) /\ clock' = clock)
    <3>1. PICK page : process' = [process EXCEPT ![p].pc = "looking", ![p].page = page,
                                                 ![p].at = clock']
      BY <1>1, <2>2 DEF Fetch
    <3>2. process[p].pc = "fetching" /\ clock' = clock + 1
      BY <1>1, <2>2 DEF Fetch
    <3>3. Same(p) /\ process'[p].pc = "looking"
      BY <3>1
    <3>4. QED
      BY <1>1, <3>2, <3>3 DEF Fetch
  <2>3. QED
    BY <2>1, <2>2
<1>2. CASE Look(p)
  BY <1>2 DEF Look
<1>3. CASE Create(p)
  BY <1>3 DEF Create
<1>4. CASE Attempt(p)
  BY <1>4 DEF Attempt
<1>5. CASE FixForebet(p)
  BY <1>5 DEF FixForebet
<1>6. CASE FixStatarea(p)
  BY <1>6 DEF FixStatarea
<1>7. CASE Match(p)
  BY <1>7 DEF Match
<1>8. CASE CreateMatch(p)
  BY <1>8 DEF CreateMatch
<1>9. CASE Find(p)
  BY <1>9 DEF Find
<1>10. CASE Decide(p)
  BY <1>10 DEF Decide
<1>11. CASE Freeze(p)
  BY <1>11 DEF Freeze
<1>12. QED
  BY <1>1, <1>2, <1>3, <1>4, <1>5, <1>6, <1>7, <1>8, <1>9, <1>10, <1>11 DEF Capturing

(* What a step that writes, returns or assesses leaves alone.              *)
LEMMA WritingFacts ==
  ASSUME Typed, NEW p \in Processes, Writing(p)
  PROVE  /\ Same(p)
         /\ process[p].pc \in WritingPcs \union RulingPcs \union {"bundling"}
         /\ process'[p].pc \in WritingPcs \union RulingPcs \union {"off"}
         /\ UNCHANGED <<clock, captured, frozen, overlapped>>
<1> USE DEF Same, WritingPcs, RulingPcs, Goes, Gone, At, Typed, IsMemory, Fields,
            Off, priority, history, captured
<1>1. CASE Bundle(p)
  BY <1>1 DEF Bundle
<1>2. CASE Write(p)
  BY <1>2 DEF Write
<1>3. CASE Fill(p)
  BY <1>3 DEF Fill
<1>4. CASE Return(p)
  BY <1>4 DEF Return, Exported
<1>5. CASE EndWriting(p)
  BY <1>5 DEF EndWriting, Exported
<1>6. CASE Rule(p)
  BY <1>6 DEF Rule
<1>7. CASE Enact(p)
  BY <1>7 DEF Enact
<1>8. CASE Assess(p)
  BY <1>8 DEF Assess
<1>9. QED
  BY <1>1, <1>2, <1>3, <1>4, <1>5, <1>6, <1>7, <1>8 DEF Writing

(* A process begins, with the memory m.                                    *)
LEMMA BeginWith ==
  ASSUME Typed, NEW p \in Processes, NEW m, IsMemory(m), Begin(p, m)
  PROVE  /\ Same(p) /\ process[p].pc = "off" /\ process'[p] = m
         /\ UNCHANGED <<clock, snapshots, attempts, frozen, assessed, exports, returned>>
<1>1. process' = [process EXCEPT ![p] = m] /\ At(p, "off")
  BY Zenon DEF Begin
<1>2. UNCHANGED <<clock, captured, matched, frozen, priority, exports, returned, troubles>>
  BY Zenon DEF Begin
<1>3. UNCHANGED <<clock, snapshots, attempts, frozen, assessed, exports, returned>>
  BY <1>2 DEF captured, priority
<1>4. Same(p) /\ process[p].pc = "off" /\ process'[p] = m
  BY <1>1 DEF Same, Typed, At
<1>5. QED
  BY <1>3, <1>4

LEMMA BeginShadowFacts ==
  ASSUME Typed, NEW p \in Processes, BeginShadow(p)
  PROVE  /\ Same(p) /\ process[p].pc = "off" /\ process'[p].pc = "forebet"
         /\ UNCHANGED <<clock, snapshots, attempts, frozen, assessed, exports, returned>>
<1> DEFINE m == [Off EXCEPT !.pc = "forebet"]
<1>1. IsMemory(m) /\ m.pc = "forebet"
  BY DEF IsMemory, Fields, Off
<1>2. Begin(p, m)
  BY DEF BeginShadow
<1> HIDE DEF m
<1>3. QED
  BY <1>1, <1>2, BeginWith

LEMMA BeginCaptureFacts ==
  ASSUME Typed, NEW p \in Processes, BeginCapture(p)
  PROVE  /\ Same(p) /\ process[p].pc = "off"
         /\ process'[p].pc = "fetching" /\ process'[p].source = "FOREBET"
         /\ UNCHANGED <<clock, snapshots, attempts, frozen, assessed, exports, returned>>
<1> DEFINE m == [Off EXCEPT !.pc = "fetching", !.source = "FOREBET"]
<1>1. IsMemory(m) /\ m.pc = "fetching" /\ m.source = "FOREBET"
  BY DEF IsMemory, Fields, Off
<1>2. Begin(p, m)
  BY DEF BeginCapture
<1> HIDE DEF m
<1>3. QED
  BY <1>1, <1>2, BeginWith

LEMMA BeginAssessmentFacts ==
  ASSUME Typed, NEW p \in Processes, BeginAssessment(p)
  PROVE  /\ Same(p) /\ process[p].pc = "off" /\ process'[p].pc = "exporting"
         /\ process'[p].directory = "priority" /\ process'[p].place = 1
         /\ process'[p].bundle = AssessmentBundle(process'[p].evaluation)
         /\ UNCHANGED <<clock, snapshots, attempts, frozen, assessed, exports, returned>>
<1> DEFINE m == [Off EXCEPT !.pc = "exporting", !.directory = "priority", !.place = 1,
                            !.evaluation = evaluation,
                            !.bundle = AssessmentBundle(evaluation)]
<1>1. /\ IsMemory(m) /\ m.pc = "exporting" /\ m.directory = "priority" /\ m.place = 1
      /\ m.bundle = AssessmentBundle(m.evaluation)
  BY DEF IsMemory, Fields, Off
<1>2. Begin(p, m)
  BY DEF BeginAssessment
<1> HIDE DEF m
<1>3. QED
  BY <1>1, <1>2, BeginWith

LEMMA BeginFacts ==
  ASSUME Typed, NEW p \in Processes,
         BeginShadow(p) \/ BeginCapture(p) \/ BeginAssessment(p)
  PROVE  /\ Same(p) /\ process[p].pc = "off"
         /\ \/ process'[p].pc \in {"forebet", "exporting"}
            \/ process'[p].pc = "fetching" /\ process'[p].source = "FOREBET"
         /\ UNCHANGED <<clock, snapshots, attempts, frozen, assessed, exports, returned>>
  BY BeginShadowFacts, BeginCaptureFacts, BeginAssessmentFacts

SomeCapture == \E q \in Shadows \union Captures : ~At(q, "off")

(* What is remembered of processes that capture at the same time.          *)
LEMMA BeginOverlaps ==
  ASSUME NEW p, BeginShadow(p) \/ BeginCapture(p) \/ BeginAssessment(p)
  PROVE  overlapped' = (overlapped \/ (p \notin Assessors /\ SomeCapture))
<1>1. \E m : Begin(p, m)
  BY Zenon DEF BeginShadow, BeginCapture, BeginAssessment
<1>2. QED
  BY <1>1, Zenon DEF Begin, SomeCapture

(* The last case: a step of no process.                                    *)
World == Tick \/ Evaluate

LEMMA WorldFacts ==
  ASSUME Typed, World
  PROVE  /\ clock' \in {clock, clock + 1}
         /\ UNCHANGED <<captured, matched, frozen, policy, assessed, exports, returned,
                        process, overlapped>>
  BY DEF World, Tick, Evaluate, priority, history

LEMMA CrashFacts ==
  ASSUME Typed, NEW p \in Processes, Crash(p)
  PROVE  /\ Same(p) /\ process'[p] = Off /\ Off.pc = "off"
         /\ UNCHANGED <<clock, captured, matched, frozen, priority, exports, returned,
                        overlapped>>
  BY GoneFacts DEF Crash, history

(* Who takes a step.                                                       *)
LEMMA NextCases ==
  ASSUME [Next]_vars
  PROVE  \/ \E p \in Processes : Capturing(p) \/ Writing(p) \/ Crash(p)
         \/ \E p \in Processes : \/ p \in Shadows /\ BeginShadow(p)
                                 \/ p \in Captures /\ BeginCapture(p)
                                 \/ p \in Assessors /\ BeginAssessment(p)
         \/ World
         \/ UNCHANGED vars
  BY StepIs DEF Next, World, Processes

-----------------------------------------------------------------------------
(* Typed.                                                                  *)

LEMMA TypedInit == Init => Typed
  BY DEF Init, Typed, IsMemory, Fields, Off

LEMMA TypedSame ==
  ASSUME Typed, NEW p \in Processes, Same(p), clock' \in {clock, clock + 1}
  PROVE  Typed'
  BY DEF Typed, Same

LEMMA TypedStep ==
  ASSUME Typed, [Next]_vars
  PROVE  Typed'
<1>1. CASE \E p \in Processes : Capturing(p) \/ Writing(p) \/ Crash(p)
  <2>1. PICK p \in Processes : Capturing(p) \/ Writing(p) \/ Crash(p)
    BY <1>1
  <2>2. Same(p) /\ clock' \in {clock, clock + 1}
    BY <2>1, CapturingFacts, WritingFacts, CrashFacts
  <2>3. QED
    BY <2>2, TypedSame
<1>2. CASE \E p \in Processes : BeginShadow(p) \/ BeginCapture(p) \/ BeginAssessment(p)
  BY <1>2, BeginFacts, TypedSame
<1>3. CASE World
  BY <1>3, WorldFacts DEF Typed
<1>4. CASE UNCHANGED vars
  BY <1>4 DEF Typed, vars
<1>5. QED
  BY <1>1, <1>2, <1>3, <1>4, NextCases

(* The clock is a number and the memory of a process keeps its fields,     *)
(* whatever the commands do to it.                                         *)
THEOREM ShadowTypeCorrect == Spec => []Typed
  BY TypedInit, TypedStep, PTL DEF Spec

-----------------------------------------------------------------------------
(* Dated: what a process holds was captured by now, and what it froze, or  *)
(* is about to freeze, was captured when it was dated.                     *)

(* By the instant t there was an attempt that got this page.               *)
Early(made, page, t) == \E a \in made : a.page = page /\ a.at <= t

HasForebet(m) ==
  \/ m.pc \in FixedPcs \union {"statarea"}
  \/ m.pc \in CapturePcs /\ m.source = "STATAREA"

DatedMemory(m, made, now) ==
  /\ m.pc \in CapturePcs => m.source \in Sources
  /\ m.pc \in CapturePcs \ {"fetching"} => m.at \in Nat /\ m.at <= now
  /\ HasForebet(m) => Early(made["FOREBET"], m.forebet, now)
  /\ m.pc \in FixedPcs => Early(made["STATAREA"], m.statarea, now)
  /\ m.pc \in {"deciding", "freezing"} =>
       /\ m.frozenAt \in Nat /\ m.frozenAt < SportsDay
       /\ Early(made["FOREBET"], m.forebet, m.frozenAt)
       /\ Early(made["STATAREA"], m.statarea, m.frozenAt)

DatedRun(run, made) ==
  /\ run.at < SportsDay
  /\ Early(made["FOREBET"], run.captures[1], run.at)
  /\ Early(made["STATAREA"], run.captures[2], run.at)

DatedAttempts(made, now) ==
  /\ DOMAIN made = Sources
  /\ \A source \in Sources : \A a \in made[source] : a.at \in Nat /\ a.at <= now

Dated ==
  /\ Typed
  /\ DatedAttempts(attempts, clock)
  /\ \A p \in Processes : DatedMemory(process[p], attempts, clock)
  /\ \A run \in frozen : DatedRun(run, attempts)

(* Attempts are only added, and the clock only advances.                   *)
LEMMA EarlyStays ==
  ASSUME NEW made, NEW more, NEW now \in Nat, NEW later \in Nat, now <= later,
         DatedAttempts(made, now),
         \A source \in Sources : made[source] \subseteq more[source]
  PROVE  /\ \A m : DatedMemory(m, made, now) => DatedMemory(m, more, later)
         /\ \A run : DatedRun(run, made) => DatedRun(run, more)
<1>1. ASSUME NEW source \in Sources, NEW page, NEW t
      PROVE  Early(made[source], page, t) => Early(more[source], page, t)
  BY <1>1 DEF Early
<1>2. ASSUME NEW source \in Sources, NEW page, Early(made[source], page, now)
      PROVE  Early(more[source], page, later)
  BY <1>2 DEF Early, DatedAttempts
<1>3. "FOREBET" \in Sources /\ "STATAREA" \in Sources
  BY DEF Sources
<1>4. ASSUME NEW run, DatedRun(run, made)
      PROVE  DatedRun(run, more)
  BY <1>1, <1>3, <1>4 DEF DatedRun
<1>5. ASSUME NEW m, DatedMemory(m, made, now)
      PROVE  DatedMemory(m, more, later)
  BY <1>1, <1>2, <1>3, <1>5 DEF DatedMemory
<1>6. QED
  BY <1>4, <1>5

(* A memory that is not at work on a capture or a run says nothing.        *)
LEMMA UndatedMemory ==
  ASSUME NEW m, m.pc \notin CapturePcs \union FixedPcs \union {"statarea"},
         NEW made, NEW now
  PROVE  DatedMemory(m, made, now)
  BY DEF DatedMemory, HasForebet, FixedPcs, CapturePcs

(* The step of one process.                                                *)
LEMMA DatedSame ==
  ASSUME Dated, NEW p \in Processes, Same(p), clock' \in {clock, clock + 1},
         DatedAttempts(attempts', clock'),
         \A source \in Sources : attempts[source] \subseteq attempts'[source],
         DatedMemory(process'[p], attempts', clock'),
         \A run \in frozen' \ frozen : DatedRun(run, attempts')
  PROVE  Dated'
<1>1. clock \in Nat /\ clock' \in Nat /\ clock <= clock' /\ Typed'
  BY TypedSame DEF Dated, Typed
<1>2. /\ \A m : DatedMemory(m, attempts, clock) => DatedMemory(m, attempts', clock')
      /\ \A run : DatedRun(run, attempts) => DatedRun(run, attempts')
  BY <1>1, EarlyStays DEF Dated
<1>3. \A q \in Processes : DatedMemory(process'[q], attempts', clock')
  BY <1>2 DEF Dated, Same
<1>4. \A run \in frozen' : DatedRun(run, attempts')
  BY <1>2 DEF Dated
<1>5. QED
  BY <1>1, <1>3, <1>4 DEF Dated

LEMMA DatedInit == Init => Dated
<1> SUFFICES ASSUME Init PROVE Dated
  OBVIOUS
<1>1. Typed
  BY TypedInit
<1>2. DatedAttempts(attempts, clock)
  BY DEF Init, DatedAttempts, Sources
<1>3. \A p \in Processes : DatedMemory(process[p], attempts, clock)
  <2>1. \A p \in Processes : process[p].pc = "off"
    BY DEF Init, Off
  <2>2. QED
    BY <2>1, UndatedMemory DEF CapturePcs, FixedPcs
<1>4. QED
  BY <1>1, <1>2, <1>3 DEF Dated, Init

(* A step that leaves the clock, the attempts and the runs alone.          *)
LEMMA DatedQuiet ==
  ASSUME Dated, NEW p \in Processes, Same(p), UNCHANGED <<clock, attempts, frozen>>,
         DatedMemory(process'[p], attempts, clock)
  PROVE  Dated'
<1>1. DatedAttempts(attempts', clock') /\ DatedMemory(process'[p], attempts', clock')
  BY DEF Dated
<1>2. QED
  BY <1>1, DatedSame

LEMMA DatedGone ==
  ASSUME Dated, NEW p \in Processes, Gone(p), UNCHANGED <<clock, attempts, frozen>>
  PROVE  Dated'
<1>1. Same(p) /\ process'[p].pc = "off"
  BY GoneFacts DEF Dated
<1>2. DatedMemory(process'[p], attempts, clock)
  BY <1>1, UndatedMemory DEF CapturePcs, FixedPcs
<1>3. QED
  BY <1>1, <1>2, DatedQuiet

LEMMA DatedFetch ==
  ASSUME Dated, NEW p \in Processes, Fetch(p)
  PROVE  Dated'
<1>1. CASE Gone(p) /\ clock' = clock
  BY <1>1, DatedGone DEF Fetch, captured
<1>2. CASE ~(Gone(p) /\ clock' = clock)
  <2>1. PICK page : process' = [process EXCEPT ![p].pc = "looking", ![p].page = page,
                                               ![p].at = clock']
    BY <1>2 DEF Fetch
  <2>2. /\ process[p].pc = "fetching" /\ clock' = clock + 1
        /\ UNCHANGED <<attempts, frozen>>
    BY <1>2 DEF Fetch, captured, At
  <2>3. Typed /\ clock \in Nat /\ clock' \in Nat
    BY <2>2 DEF Dated, Typed
  <2>4. /\ Same(p) /\ process'[p].pc = "looking"
        /\ process'[p].source = process[p].source
        /\ process'[p].at = clock'
        /\ process'[p].forebet = process[p].forebet
        /\ process'[p].statarea = process[p].statarea
    BY <2>1, <2>3 DEF Same, Typed, IsMemory, Fields
  <2>5. DatedAttempts(attempts', clock')
    BY <2>2, <2>3 DEF Dated, DatedAttempts
  <2>6. DatedMemory(process[p], attempts', clock')
    BY <2>2, <2>3, EarlyStays DEF Dated
  <2>7. DatedMemory(process'[p], attempts', clock')
    BY <2>2, <2>3, <2>4, <2>6 DEF DatedMemory, HasForebet, CapturePcs, FixedPcs
  <2>8. QED
    BY <2>2, <2>4, <2>5, <2>7, DatedSame
<1>3. QED
  BY <1>1, <1>2

(* To look, to create, to be ready to record the attempt.                  *)
LEMMA DatedAtWork ==
  ASSUME Dated, NEW p \in Processes, process[p].pc \in CapturePcs \ {"fetching"},
         NEW pc \in CapturePcs \ {"fetching"}, Goes(p, pc),
         UNCHANGED <<clock, attempts, frozen>>
  PROVE  Dated'
<1>1. DatedMemory(process[p], attempts, clock)
  BY DEF Dated
<1>2. DatedMemory(process'[p], attempts, clock)
  BY <1>1, GoesFacts DEF Dated, DatedMemory, HasForebet, CapturePcs, FixedPcs
<1>3. QED
  BY <1>2, GoesFacts, DatedQuiet DEF Dated

LEMMA DatedAttempt ==
  ASSUME Dated, NEW p \in Processes, Attempt(p)
  PROVE  Dated'
<1> DEFINE m == process[p]
           made == m.source
<1>1. /\ m.pc = "attempting" /\ made \in Sources
      /\ m.at \in Nat /\ m.at <= clock /\ clock \in Nat /\ Typed
  BY DEF Dated, DatedMemory, Attempt, At, CapturePcs, Typed
<1>2. /\ attempts' = [attempts EXCEPT ![made] = @ \union {[page |-> m.page, at |-> m.at]}]
      /\ UNCHANGED <<clock, frozen>>
  BY DEF Attempt
<1> HIDE DEF made
<1>3. DatedAttempts(attempts', clock')
  BY <1>1, <1>2 DEF Dated, DatedAttempts
<1>4. \A source \in Sources : attempts[source] \subseteq attempts'[source]
  BY <1>1, <1>2 DEF Dated, DatedAttempts
<1>5. DatedMemory(m, attempts', clock')
  <2>1. clock' \in Nat /\ clock <= clock' /\ DatedAttempts(attempts, clock)
    BY <1>1, <1>2 DEF Dated
  <2>2. \A x : DatedMemory(x, attempts, clock) => DatedMemory(x, attempts', clock')
    BY <1>1, <1>4, <2>1, EarlyStays
  <2>3. QED
    BY <2>2 DEF Dated
<1>6. CASE Gone(p)
  <2>1. Same(p) /\ process'[p].pc = "off"
    BY <1>1, <1>6, GoneFacts
  <2>2. DatedMemory(process'[p], attempts', clock')
    BY <2>1, UndatedMemory DEF CapturePcs, FixedPcs
  <2>3. QED
    BY <1>2, <1>3, <1>4, <2>1, <2>2, DatedSame
<1>7. CASE Goes(p, IF m.source = "FOREBET" THEN "forebet" ELSE "statarea")
  <2>1. /\ Same(p)
        /\ process'[p].pc = IF m.source = "FOREBET" THEN "forebet" ELSE "statarea"
        /\ process'[p].forebet = m.forebet
    BY <1>1, <1>7, GoesFacts
  <2>2. m.source # "FOREBET" => m.source = "STATAREA"
    BY <1>1 DEF Sources, made
  <2>3. DatedMemory(process'[p], attempts', clock')
    BY <1>1, <1>5, <2>1, <2>2 DEF DatedMemory, HasForebet, CapturePcs, FixedPcs
  <2>4. QED
    BY <1>2, <1>3, <1>4, <2>1, <2>3, DatedSame
<1>8. QED
  BY <1>6, <1>7 DEF Attempt

LEMMA DatedFixForebet ==
  ASSUME Dated, NEW p \in Processes, FixForebet(p)
  PROVE  Dated'
<1>1. UNCHANGED <<clock, attempts, frozen>> /\ Typed
  BY DEF FixForebet, captured, Dated
<1>2. CASE process' = [process EXCEPT ![p].pc = "fetching", ![p].source = "FOREBET"]
  <2>1. Same(p) /\ process'[p].pc = "fetching" /\ process'[p].source = "FOREBET"
    BY <1>1, <1>2 DEF Same, Typed, IsMemory, Fields
  <2>2. DatedMemory(process'[p], attempts, clock)
    BY <2>1 DEF DatedMemory, HasForebet, CapturePcs, FixedPcs, Sources
  <2>3. QED
    BY <1>1, <2>1, <2>2, DatedQuiet
<1>3. CASE \E page \in FixedForebet :
             process' = [process EXCEPT ![p].pc = "statarea", ![p].forebet = page]
  <2>1. PICK page \in FixedForebet :
             process' = [process EXCEPT ![p].pc = "statarea", ![p].forebet = page]
    BY <1>3
  <2>2. Same(p) /\ process'[p].pc = "statarea" /\ process'[p].forebet = page
    BY <1>1, <2>1 DEF Same, Typed, IsMemory, Fields
  <2>3. Early(attempts["FOREBET"], page, clock)
    BY <2>1 DEF FixedForebet, Early, Dated, DatedAttempts, Sources
  <2>4. DatedMemory(process'[p], attempts, clock)
    BY <2>2, <2>3 DEF DatedMemory, HasForebet, CapturePcs, FixedPcs
  <2>5. QED
    BY <1>1, <2>2, <2>4, DatedQuiet
<1>4. QED
  BY <1>2, <1>3 DEF FixForebet

LEMMA DatedFixStatarea ==
  ASSUME Dated, NEW p \in Processes, FixStatarea(p)
  PROVE  Dated'
<1> DEFINE m == process[p]
<1>1. /\ UNCHANGED <<clock, attempts, frozen>> /\ Typed
      /\ m.pc = "statarea" /\ DatedMemory(m, attempts, clock)
  BY DEF FixStatarea, captured, Dated, At
<1>2. CASE process' = [process EXCEPT ![p].pc = "fetching", ![p].source = "STATAREA"]
  <2>1. /\ Same(p) /\ process'[p].pc = "fetching" /\ process'[p].source = "STATAREA"
        /\ process'[p].forebet = m.forebet
    BY <1>1, <1>2 DEF Same, Typed, IsMemory, Fields
  <2>2. DatedMemory(process'[p], attempts, clock)
    BY <1>1, <2>1 DEF DatedMemory, HasForebet, CapturePcs, FixedPcs, Sources
  <2>3. QED
    BY <1>1, <2>1, <2>2, DatedQuiet
<1>3. CASE Gone(p)
  BY <1>1, <1>3, DatedGone
<1>4. ASSUME NEW page, AttemptsOf("STATAREA", page) # {},
             process' = [process EXCEPT ![p].pc = "matching", ![p].statarea = page]
      PROVE  Dated'
  <2>1. /\ Same(p) /\ process'[p].pc = "matching" /\ process'[p].statarea = page
        /\ process'[p].forebet = m.forebet
    BY <1>1, <1>4 DEF Same, Typed, IsMemory, Fields
  <2>2. Early(attempts["STATAREA"], page, clock)
    BY <1>4 DEF AttemptsOf, Early, Dated, DatedAttempts, Sources
  <2>3. DatedMemory(process'[p], attempts, clock)
    BY <1>1, <2>1, <2>2 DEF DatedMemory, HasForebet, CapturePcs, FixedPcs
  <2>4. QED
    BY <1>1, <2>1, <2>3, DatedQuiet
<1>5. QED
  BY <1>2, <1>3, <1>4 DEF FixStatarea

(* What is fixed is kept on the way to the decisions.                      *)
LEMMA DatedFixed ==
  ASSUME Dated, NEW p \in Processes, process[p].pc \in FixedPcs,
         NEW pc \in {"pairing", "finding", "bundling"}, Goes(p, pc),
         UNCHANGED <<clock, attempts, frozen>>
  PROVE  Dated'
<1>1. DatedMemory(process[p], attempts, clock)
  BY DEF Dated
<1>2. DatedMemory(process'[p], attempts, clock)
  BY <1>1, GoesFacts DEF Dated, DatedMemory, HasForebet, CapturePcs, FixedPcs
<1>3. QED
  BY <1>2, GoesFacts, DatedQuiet DEF Dated

LEMMA DatedFind ==
  ASSUME Dated, NEW p \in Processes, Find(p)
  PROVE  Dated'
<1> DEFINE m == process[p]
<1>1. /\ UNCHANGED <<clock, attempts, frozen>> /\ Typed
      /\ m.pc = "finding" /\ DatedMemory(m, attempts, clock)
  BY DEF Find, captured, Dated, At
<1>2. CASE Goes(p, "bundling")
  BY <1>1, <1>2, DatedFixed DEF FixedPcs
<1>3. CASE Gone(p)
  BY <1>1, <1>3, DatedGone
<1>4. CASE /\ InWindow(p)
           /\ process' = [process EXCEPT ![p].pc = "deciding", ![p].frozenAt = clock]
  <2>1. /\ Same(p) /\ process'[p].pc = "deciding" /\ process'[p].frozenAt = clock
        /\ process'[p].forebet = m.forebet /\ process'[p].statarea = m.statarea
    BY <1>1, <1>4 DEF Same, Typed, IsMemory, Fields
  <2>2. DatedMemory(process'[p], attempts, clock)
    BY <1>1, <1>4, <2>1
       DEF DatedMemory, HasForebet, CapturePcs, FixedPcs, Typed, InWindow
  <2>3. QED
    BY <1>1, <2>1, <2>2, DatedQuiet
<1>5. QED
  BY <1>2, <1>3, <1>4 DEF Find

LEMMA DatedDecide ==
  ASSUME Dated, NEW p \in Processes, Decide(p)
  PROVE  Dated'
<1> DEFINE m == process[p]
<1>1. /\ UNCHANGED <<clock, attempts, frozen>> /\ Typed
      /\ m.pc = "deciding" /\ DatedMemory(m, attempts, clock)
  BY DEF Decide, captured, Dated, At
<1>2. CASE Gone(p)
  BY <1>1, <1>2, DatedGone
<1>3. CASE process' = [process EXCEPT ![p].pc = "freezing", ![p].evaluation = evaluation]
  <2>1. /\ Same(p) /\ process'[p].pc = "freezing" /\ process'[p].frozenAt = m.frozenAt
        /\ process'[p].forebet = m.forebet /\ process'[p].statarea = m.statarea
    BY <1>1, <1>3 DEF Same, Typed, IsMemory, Fields
  <2>2. DatedMemory(process'[p], attempts, clock)
    BY <1>1, <2>1 DEF DatedMemory, HasForebet, CapturePcs, FixedPcs
  <2>3. QED
    BY <1>1, <2>1, <2>2, DatedQuiet
<1>4. QED
  BY <1>2, <1>3 DEF Decide

LEMMA DatedFreeze ==
  ASSUME Dated, NEW p \in Processes, Freeze(p)
  PROVE  Dated'
<1> DEFINE m == process[p]
<1>1. /\ UNCHANGED <<clock, attempts>> /\ Typed
      /\ m.pc = "freezing" /\ DatedMemory(m, attempts, clock)
  BY DEF Freeze, captured, Dated, At
<1>2. CASE Gone(p) /\ frozen' = frozen
  BY <1>1, <1>2, DatedGone
<1>3. CASE /\ frozen' = frozen \union {[captures |-> Fixed(p), at |-> m.frozenAt,
                                        decisions |-> Decisions(p)]}
           /\ Goes(p, "bundling")
  <2> DEFINE new == [captures |-> Fixed(p), at |-> m.frozenAt, decisions |-> Decisions(p)]
  <2>1. new.captures = <<m.forebet, m.statarea>> /\ new.at = m.frozenAt
    BY DEF Fixed
  <2> HIDE DEF new
  <2>2. DatedRun(new, attempts)
    BY <1>1, <2>1 DEF DatedRun, DatedMemory
  <2>3. \A run \in frozen' \ frozen : DatedRun(run, attempts')
    BY <1>1, <1>3, <2>2 DEF new
  <2>4. Same(p) /\ process'[p].pc = "bundling"
    BY <1>1, <1>3, GoesFacts
  <2>5. DatedMemory(process'[p], attempts', clock')
    BY <2>4, UndatedMemory DEF CapturePcs, FixedPcs
  <2>6. DatedAttempts(attempts', clock') /\ clock' \in {clock, clock + 1}
    BY <1>1 DEF Dated
  <2>7. QED
    BY <1>1, <2>3, <2>4, <2>5, <2>6, DatedSame
<1>4. QED
  BY <1>2, <1>3 DEF Freeze

LEMMA DatedCapturing ==
  ASSUME Dated, NEW p \in Processes, Capturing(p)
  PROVE  Dated'
<1>1. CASE Look(p)
  <2>1. \E pc \in {"attempting", "creating"} : Goes(p, pc)
    BY <1>1 DEF Look
  <2>2. QED
    BY <1>1, <2>1, DatedAtWork DEF Look, At, CapturePcs, captured
<1>2. CASE Create(p)
  BY <1>2, DatedGone, DatedAtWork DEF Create, At, CapturePcs
<1>3. CASE Match(p)
  BY <1>3, DatedGone, DatedFixed DEF Match, At, FixedPcs, captured
<1>4. CASE CreateMatch(p)
  BY <1>4, DatedGone, DatedFixed DEF CreateMatch, At, FixedPcs, captured
<1>5. QED
  BY <1>1, <1>2, <1>3, <1>4, DatedFetch, DatedAttempt, DatedFixForebet, DatedFixStatarea,
     DatedFind, DatedDecide, DatedFreeze DEF Capturing

LEMMA DatedStep ==
  ASSUME Dated, [Next]_vars
  PROVE  Dated'
<1> USE DEF CapturePcs, FixedPcs, WritingPcs, RulingPcs
<1>1. ASSUME NEW p \in Processes, Writing(p) \/ Crash(p)
      PROVE  Dated'
  <2>1. /\ Same(p) /\ UNCHANGED <<clock, attempts, frozen>>
        /\ process'[p].pc \in WritingPcs \union RulingPcs \union {"off"}
    BY <1>1, WritingFacts, CrashFacts DEF Dated, captured
  <2>2. DatedMemory(process'[p], attempts, clock)
    BY <2>1, UndatedMemory
  <2>3. QED
    BY <2>1, <2>2, DatedQuiet
<1>2. ASSUME NEW p \in Processes,
             BeginShadow(p) \/ BeginCapture(p) \/ BeginAssessment(p)
      PROVE  Dated'
  <2>1. /\ Same(p) /\ UNCHANGED <<clock, attempts, frozen>>
        /\ \/ process'[p].pc \in {"forebet", "exporting"}
           \/ process'[p].pc = "fetching" /\ process'[p].source = "FOREBET"
    BY <1>2, BeginFacts DEF Dated, captured
  <2>2. DatedMemory(process'[p], attempts, clock)
    BY <2>1 DEF DatedMemory, HasForebet, Sources
  <2>3. QED
    BY <2>1, <2>2, DatedQuiet
<1>3. CASE World
  <2>1. /\ clock' \in {clock, clock + 1} /\ UNCHANGED <<attempts, frozen, process>>
        /\ Typed' /\ clock \in Nat
    BY <1>3, WorldFacts, TypedStep DEF Dated, captured, World, Next, Typed
  <2>2. DatedAttempts(attempts', clock') /\ clock' \in Nat /\ clock <= clock'
    BY <2>1 DEF Dated, DatedAttempts
  <2>3. /\ \A m : DatedMemory(m, attempts, clock) => DatedMemory(m, attempts', clock')
        /\ \A run : DatedRun(run, attempts) => DatedRun(run, attempts')
    BY <2>1, <2>2, EarlyStays DEF Dated
  <2>4. QED
    BY <2>1, <2>2, <2>3 DEF Dated
<1>4. CASE UNCHANGED vars
  BY <1>4 DEF Dated, Typed, vars, captured
<1>5. QED
  BY <1>1, <1>2, <1>3, <1>4, DatedCapturing, NextCases

(* FrozenIsProspective: what is frozen is dated before its day and was     *)
(* captured by then, by whichever process, for any timing of the steps.    *)
THEOREM FrozenInTime == Spec => []FrozenIsProspective
<1>1. Dated => FrozenIsProspective
  BY DEF Dated, DatedRun, Early, FrozenIsProspective, AttemptsOf
<1>2. QED
  BY <1>1, DatedInit, DatedStep, PTL DEF Spec

-----------------------------------------------------------------------------
(* Filed: a process that writes has found or written whole every file      *)
(* before its place, one that fills is alone in its directory and its file *)
(* is the last, and what was returned or assessed is all there.            *)

Size(d) == IF d = "prospective" THEN 3 ELSE 2

IsBundle(b, d) == IsSequence(b) /\ Len(b) = Size(d)

FilesIn(d, files) == IsSequence(files) /\ Len(files) <= Size(d)

(* All files of a bundle are there.                                        *)
Settled(b, d, files) == IsBundle(b, d) /\ files = Whole(b)

Progress(m, files) ==
  /\ m.place \in 1 .. Size(m.directory) + 1
  /\ \A i \in 1 .. m.place - 1 :
       i <= Len(files) /\ files[i] = [body |-> m.bundle[i], whole |-> TRUE]
  /\ m.pc = "filling" =>
       /\ m.place = Len(files)
       /\ files[m.place] = [body |-> m.bundle[m.place], whole |-> FALSE]

(* What a process writes, by its role.                                     *)
Writes(m, assesses) ==
  /\ m.directory = IF assesses THEN "priority" ELSE "prospective"
  /\ IsBundle(m.bundle, m.directory)
  /\ assesses => m.bundle = AssessmentBundle(m.evaluation)

FiledMemory(m, assesses, files) ==
  /\ IF assesses THEN m.pc \in WritingPcs \union RulingPcs \union {"off"}
     ELSE m.pc \notin RulingPcs
  /\ m.pc \in WritingPcs => Writes(m, assesses) /\ Progress(m, files[m.directory])
  /\ m.pc \in RulingPcs => Settled(AssessmentBundle(m.evaluation), "priority", files["priority"])

Filling(p, d) == process[p].pc = "filling" /\ process[p].directory = d

OneFills == \A p, q \in Processes, d \in Directories : Filling(p, d) /\ Filling(q, d) => p = q

Filed ==
  /\ Typed
  /\ DOMAIN exports = Directories
  /\ \A d \in Directories : FilesIn(d, exports[d])
  /\ \A p \in Processes : FiledMemory(process[p], p \in Assessors, exports)
  /\ OneFills
  /\ \A b \in returned : Settled(b, "prospective", exports["prospective"])
  /\ IsSequence(assessed)
  /\ \A e \in ToSet(assessed) : Settled(AssessmentBundle(e), "priority", exports["priority"])

LEMMA AssessmentIsBundle ==
  ASSUME NEW e
  PROVE  IsBundle(AssessmentBundle(e), "priority")
<1>1. AssessmentBundle(e) \in Seq({<<"policy">>, <<"assessment", e>>})
  BY DEF AssessmentBundle
<1>2. Len(AssessmentBundle(e)) = 2
  BY DEF AssessmentBundle
<1>3. QED
  BY <1>1, <1>2 DEF IsBundle, IsSequence, Size

LEMMA RunIsBundle ==
  ASSUME NEW captures
  PROVE  IsBundle(RunBundle(captures), "prospective")
<1> DEFINE a == <<"run", captures>>
           b == <<"captures", FirstAt("FOREBET", captures[1]), FirstAt("STATAREA", captures[2])>>
           c == <<"diagnostic", Last(assessed)>>
<1>1. RunBundle(captures) = <<a, b, c>>
  BY DEF RunBundle
<1> HIDE DEF a, b, c
<1>2. RunBundle(captures) \in Seq({a, b, c}) /\ Len(RunBundle(captures)) = 3
  BY <1>1
<1>3. QED
  BY <1>2 DEF IsBundle, IsSequence, Size

LEMMA SequenceFacts ==
  ASSUME NEW s, IsSequence(s)
  PROVE  Len(s) \in Nat /\ DOMAIN s = 1 .. Len(s) /\ s = [i \in DOMAIN s |-> s[i]]
  BY DEF IsSequence

LEMMA FunctionIsSequence ==
  ASSUME NEW n \in Nat, NEW S, NEW f \in [1 .. n -> S]
  PROVE  f \in Seq(S) /\ Len(f) = n
<1>1. f \in Seq(S)
  OBVIOUS
<1>2. Len(f) \in Nat /\ DOMAIN f = 1 .. Len(f)
  BY <1>1
<1>3. Len(f) = n
  BY <1>2
<1>4. QED
  BY <1>1, <1>3

LEMMA SizeFacts == \A d : Size(d) \in Nat /\ Size(d) >= 2
  BY DEF Size

(* A bundle whose files are all there leaves nothing to append or to fill. *)
LEMMA SettledFacts ==
  ASSUME NEW b, NEW d, NEW files, FilesIn(d, files), Settled(b, d, files)
  PROVE  /\ Len(files) = Size(d)
         /\ \A i \in 1 .. Len(files) : files[i] = [body |-> b[i], whole |-> TRUE]
<1>1. DOMAIN b = 1 .. Size(d)
  BY SequenceFacts DEF Settled, IsBundle
<1>2. DOMAIN files = 1 .. Size(d) /\ \A i \in DOMAIN b : files[i] = [body |-> b[i], whole |-> TRUE]
  BY <1>1 DEF Settled, Whole
<1>3. Len(files) = Size(d)
  BY <1>2, SequenceFacts, SizeFacts DEF FilesIn
<1>4. QED
  BY <1>1, <1>2, <1>3

(* One that has come to the end of its bundle.                             *)
LEMMA ProgressEnds ==
  ASSUME NEW m, NEW files, FilesIn(m.directory, files), IsBundle(m.bundle, m.directory),
         Progress(m, files), m.place > Len(m.bundle)
  PROVE  Settled(m.bundle, m.directory, files)
<1>1. /\ DOMAIN m.bundle = 1 .. Size(m.directory) /\ Size(m.directory) \in Nat
      /\ Len(files) \in Nat /\ DOMAIN files = 1 .. Len(files)
      /\ files = [i \in DOMAIN files |-> files[i]]
      /\ Len(files) <= Size(m.directory)
  BY SequenceFacts, SizeFacts DEF IsBundle, FilesIn
<1>2. m.place = Size(m.directory) + 1
  BY <1>1 DEF Progress, IsBundle
<1>3. \A i \in 1 .. Size(m.directory) :
        i <= Len(files) /\ files[i] = [body |-> m.bundle[i], whole |-> TRUE]
  BY <1>1, <1>2 DEF Progress
<1>4. Len(files) = Size(m.directory)
  <2>1. Size(m.directory) \in 1 .. Size(m.directory)
    BY <1>1, SizeFacts
  <2>2. Size(m.directory) <= Len(files)
    BY <1>3, <2>1
  <2>3. QED
    BY <1>1, <2>2
<1>5. files = Whole(m.bundle)
  BY <1>1, <1>3, <1>4 DEF Whole
<1>6. QED
  BY <1>5 DEF Settled

LEMMA FiledInit == Init => Filed
<1> SUFFICES ASSUME Init PROVE Filed
  OBVIOUS
<1>1. \A p \in Processes : process[p].pc = "off"
  BY DEF Init, Off
<1>2. \A p \in Processes : FiledMemory(process[p], p \in Assessors, exports)
  BY <1>1 DEF FiledMemory, WritingPcs, RulingPcs
<1>3. OneFills
  BY <1>1 DEF OneFills, Filling
<1>4. IsSequence(<< >>) /\ IsSequence(<<1>>)
  <2>1. << >> \in Seq({1}) /\ <<1>> \in Seq({1})
    OBVIOUS
  <2>2. QED
    BY <2>1 DEF IsSequence
<1>5. \A d \in Directories : FilesIn(d, << >>)
  BY <1>4 DEF FilesIn, Size
<1>6. CASE evaluation = 0
  <2>1. assessed = << >> /\ exports = [d \in Directories |-> << >>] /\ returned = {}
    BY <1>6 DEF Init
  <2>2. ToSet(assessed) = {}
    BY <2>1 DEF ToSet
  <2>3. QED
    BY <1>2, <1>3, <1>4, <1>5, <2>1, <2>2, TypedInit DEF Filed
<1>7. CASE evaluation = 1
  <2> DEFINE b == AssessmentBundle(1)
  <2>1. /\ assessed = <<1>> /\ returned = {}
        /\ exports = [d \in Directories |-> IF d = "priority" THEN Whole(b) ELSE << >>]
    BY <1>7 DEF Init
  <2>2. IsBundle(b, "priority")
    BY AssessmentIsBundle
  <2>3. DOMAIN b = 1 .. 2
    BY <2>2, SequenceFacts DEF IsBundle, Size
  <2> HIDE DEF b
  <2>4. Whole(b) \in [1 .. 2 -> {Whole(b)[1], Whole(b)[2]}]
    BY <2>3 DEF Whole
  <2>5. Whole(b) \in Seq({Whole(b)[1], Whole(b)[2]}) /\ Len(Whole(b)) = 2
    BY <2>4, FunctionIsSequence
  <2>6. FilesIn("priority", Whole(b))
    BY <2>5 DEF FilesIn, IsSequence, Size
  <2>7. ToSet(assessed) = {1}
    BY <2>1 DEF ToSet
  <2>8. exports["priority"] = Whole(b) /\ Settled(b, "priority", exports["priority"])
    BY <2>1, <2>2 DEF Directories, Settled
  <2>9. \A d \in Directories : FilesIn(d, exports[d])
    BY <1>5, <2>1, <2>6 DEF Directories
  <2>10. QED
    BY <1>2, <1>3, <1>4, <2>1, <2>7, <2>8, <2>9, TypedInit DEF Filed, b
<1>8. QED
  BY <1>6, <1>7 DEF Init

(* A step that writes nothing.                                             *)
LEMMA FiledSame ==
  ASSUME Filed, NEW p \in Processes, Same(p), clock' \in {clock, clock + 1},
         exports' = exports,
         FiledMemory(process'[p], p \in Assessors, exports), process'[p].pc # "filling",
         \A b \in returned' \ returned : Settled(b, "prospective", exports["prospective"]),
         IsSequence(assessed'),
         \A e \in ToSet(assessed') \ ToSet(assessed) :
           Settled(AssessmentBundle(e), "priority", exports["priority"])
  PROVE  Filed'
<1>1. Typed'
  BY TypedSame DEF Filed
<1>2. \A q \in Processes : FiledMemory(process'[q], q \in Assessors, exports')
  BY DEF Filed, Same
<1>3. OneFills'
  BY DEF Filed, OneFills, Filling, Same
<1>4. \A b \in returned' : Settled(b, "prospective", exports'["prospective"])
  BY DEF Filed
<1>5. \A e \in ToSet(assessed') : Settled(AssessmentBundle(e), "priority", exports'["priority"])
  BY DEF Filed
<1>6. QED
  BY <1>1, <1>2, <1>3, <1>4, <1>5 DEF Filed

(* A step that changes the files of a directory that nobody else fills and *)
(* that are not all there, and leaves those that are whole as they were.   *)
LEMMA FiledChange ==
  ASSUME Filed, NEW p \in Processes, Same(p), NEW d \in Directories, NEW new,
         UNCHANGED <<clock, returned, assessed>>,
         exports' = [exports EXCEPT ![d] = new], FilesIn(d, new),
         Len(exports[d]) <= Len(new),
         \A i \in 1 .. Len(exports[d]) : \A body :
           exports[d][i] = [body |-> body, whole |-> TRUE] => new[i] = exports[d][i],
         \A q \in Processes : q # p => ~Filling(q, d),
         \A b : ~Settled(b, d, exports[d]),
         FiledMemory(process'[p], p \in Assessors, exports'),
         process'[p].pc = "filling" => process'[p].directory = d
  PROVE  Filed'
<1>1. Typed' /\ DOMAIN exports' = Directories
  BY TypedSame DEF Filed
<1>2. exports'[d] = new /\ \A e \in Directories : e # d => exports'[e] = exports[e]
  BY DEF Filed
<1>3. \A e \in Directories : FilesIn(e, exports'[e])
  BY <1>2 DEF Filed
<1>4. \A b, e : e \in Directories /\ Settled(b, e, exports[e]) => Settled(b, e, exports'[e])
  BY <1>2
<1>5. "priority" \in Directories /\ "prospective" \in Directories
  BY DEF Directories
<1>6. ASSUME NEW q \in Processes, q # p
      PROVE  FiledMemory(process[q], q \in Assessors, exports')
  <2> DEFINE m == process[q]
  <2>1. FiledMemory(m, q \in Assessors, exports)
    BY DEF Filed
  <2>2. ASSUME m.pc \in WritingPcs
        PROVE  Progress(m, exports'[m.directory])
    <3>1. Progress(m, exports[m.directory]) /\ m.directory \in Directories
      BY <2>1, <2>2, <1>5 DEF FiledMemory, Writes
    <3>2. CASE m.directory # d
      BY <1>2, <3>1, <3>2
    <3>3. CASE m.directory = d
      <4>1. m.pc # "filling"
        BY <1>6, <3>3 DEF Filling
      <4>2. Len(exports[d]) \in Nat /\ Len(new) \in Nat
        BY SequenceFacts DEF Filed, FilesIn
      <4>3. m.place \in 1 .. Size(d) + 1 /\ Size(d) \in Nat
        BY <3>1, <3>3, SizeFacts DEF Progress
      <4>4. ASSUME NEW i \in 1 .. m.place - 1
            PROVE  i <= Len(new) /\ new[i] = [body |-> m.bundle[i], whole |-> TRUE]
        <5>1. i <= Len(exports[d]) /\ exports[d][i] = [body |-> m.bundle[i], whole |-> TRUE]
          BY <3>1, <3>3 DEF Progress
        <5>2. i \in 1 .. Len(exports[d])
          BY <4>2, <4>3, <5>1
        <5>3. QED
          BY <4>2, <5>1, <5>2
      <4>5. QED
        BY <1>2, <3>1, <3>3, <4>1, <4>4 DEF Progress
    <3>4. QED
      BY <3>2, <3>3
  <2>3. m.pc \in RulingPcs =>
          Settled(AssessmentBundle(m.evaluation), "priority", exports'["priority"])
    BY <1>4, <1>5, <2>1 DEF FiledMemory
  <2>4. QED
    BY <2>1, <2>2, <2>3 DEF FiledMemory
<1>7. \A q \in Processes : FiledMemory(process'[q], q \in Assessors, exports')
  BY <1>6 DEF Same
<1>8. OneFills'
  <2>1. ASSUME NEW q \in Processes, NEW r \in Processes, NEW e \in Directories,
               Filling(q, e)', Filling(r, e)'
        PROVE  q = r
    <3>1. CASE q # p /\ r # p
      BY <2>1, <3>1 DEF Filed, OneFills, Filling, Same
    <3>2. CASE q = p /\ r # p
      BY <2>1, <3>2 DEF Filling, Same
    <3>3. CASE r = p /\ q # p
      BY <2>1, <3>3 DEF Filling, Same
    <3>4. QED
      BY <3>1, <3>2, <3>3
  <2>2. QED
    BY <2>1 DEF OneFills
<1>9. QED
  BY <1>1, <1>3, <1>4, <1>5, <1>7, <1>8 DEF Filed

LEMMA FiledGone ==
  ASSUME Filed, NEW p \in Processes, Gone(p), clock' \in {clock, clock + 1},
         UNCHANGED <<exports, returned, assessed>>
  PROVE  Filed'
<1>1. Same(p) /\ process'[p].pc = "off"
  BY GoneFacts DEF Filed
<1>2. FiledMemory(process'[p], p \in Assessors, exports)
  BY <1>1 DEF FiledMemory, WritingPcs, RulingPcs
<1>3. IsSequence(assessed')
  BY DEF Filed
<1>4. QED
  BY <1>1, <1>2, <1>3, FiledSame

(* What a process that exports or fills has.                               *)
LEMMA WriterFacts ==
  ASSUME Filed, NEW p \in Processes, process[p].pc \in WritingPcs
  PROVE  LET m == process[p]
             files == exports[m.directory]
         IN  /\ m.directory \in Directories
             /\ Writes(m, p \in Assessors) /\ Progress(m, files) /\ FilesIn(m.directory, files)
             /\ Len(m.bundle) = Size(m.directory) /\ Size(m.directory) \in Nat
             /\ Len(files) \in Nat /\ DOMAIN files = 1 .. Len(files)
             /\ m.place \in Nat /\ m.place >= 1 /\ m.place <= Len(files) + 1
<1> DEFINE m == process[p]
           files == exports[m.directory]
<1>1. Writes(m, p \in Assessors) /\ Progress(m, files)
  BY DEF Filed, FiledMemory
<1>2. m.directory \in Directories
  BY <1>1 DEF Writes, Directories
<1>3. FilesIn(m.directory, files) /\ Len(files) \in Nat /\ DOMAIN files = 1 .. Len(files)
  BY <1>2, SequenceFacts DEF Filed, FilesIn
<1>4. Len(m.bundle) = Size(m.directory) /\ Size(m.directory) \in Nat
  BY <1>1, SizeFacts DEF Writes, IsBundle
<1>5. m.place \in Nat /\ m.place >= 1
  BY <1>1, <1>4 DEF Progress
<1>6. m.place <= Len(files) + 1
  <2>1. CASE m.place = 1
    BY <1>3, <2>1
  <2>2. CASE m.place > 1
    <3>1. m.place - 1 \in 1 .. m.place - 1
      BY <1>5, <2>2
    <3>2. m.place - 1 <= Len(files)
      BY <1>1, <3>1 DEF Progress
    <3>3. QED
      BY <1>3, <1>5, <3>2
  <2>3. QED
    BY <1>5, <2>1, <2>2
<1>7. QED
  BY <1>1, <1>2, <1>3, <1>4, <1>5, <1>6

(* The next file is created empty.                                         *)
LEMMA FiledAppend ==
  ASSUME Filed, NEW p \in Processes, At(p, "exporting"),
         process[p].place <= Len(process[p].bundle), process[p].place > Len(Files(p)),
         exports' = [exports EXCEPT ![process[p].directory] =
                       Append(@, [body |-> Body(p), whole |-> FALSE])],
         Goes(p, "filling"), UNCHANGED <<clock, returned, assessed>>
  PROVE  Filed'
<1> DEFINE m == process[p]
           d == m.directory
           files == exports[d]
           file == [body |-> m.bundle[m.place], whole |-> FALSE]
           new == Append(files, file)
<1>1. /\ d \in Directories /\ Writes(m, p \in Assessors) /\ Progress(m, files)
      /\ FilesIn(d, files) /\ Len(m.bundle) = Size(d) /\ Size(d) \in Nat /\ Len(files) \in Nat
      /\ m.place \in Nat /\ m.place >= 1 /\ m.place <= Len(files) + 1 /\ m.pc = "exporting"
  BY WriterFacts DEF WritingPcs, At
<1>2. m.place = Len(files) + 1
  BY <1>1 DEF Files
<1>3. exports' = [exports EXCEPT ![d] = new]
  BY DEF Body
<1>4. /\ IsSequence(new) /\ Len(new) = Len(files) + 1
      /\ \A i \in 1 .. Len(files) : new[i] = files[i]
      /\ new[Len(files) + 1] = file
  BY <1>1, AppendFacts DEF FilesIn
<1>5. /\ Same(p) /\ process'[p].pc = "filling" /\ process'[p].directory = d
      /\ process'[p].bundle = m.bundle /\ process'[p].place = m.place
      /\ process'[p].evaluation = m.evaluation
  BY GoesFacts DEF Filed
<1>6. \A i \in 1 .. Len(files) : files[i] = [body |-> m.bundle[i], whole |-> TRUE]
  <2>1. ASSUME NEW i \in 1 .. Len(files)
        PROVE  i \in 1 .. m.place - 1
    BY <1>1, <1>2
  <2>2. QED
    BY <1>1, <2>1 DEF Progress
<1> HIDE DEF new, file
<1>7. \A q \in Processes : q # p => ~Filling(q, d)
  <2>1. SUFFICES ASSUME NEW q \in Processes, q # p, Filling(q, d) PROVE FALSE
    OBVIOUS
  <2>2. /\ Progress(process[q], files) /\ process[q].place \in Nat
        /\ process[q].place >= 1 /\ process[q].pc = "filling"
    BY <2>1, WriterFacts DEF WritingPcs, Filling
  <2> DEFINE k == process[q].place
  <2>3. /\ k \in 1 .. Len(files)
        /\ files[k] = [body |-> process[q].bundle[k], whole |-> FALSE]
    BY <1>1, <2>2 DEF Progress
  <2>4. files[k] = [body |-> m.bundle[k], whole |-> TRUE]
    BY <1>6, <2>3
  <2> HIDE DEF k
  <2>5. files[k].whole = FALSE /\ files[k].whole = TRUE
    BY <2>3, <2>4
  <2>6. QED
    BY <2>5
<1>8. \A b : ~Settled(b, d, files)
  BY <1>1, <1>2, SettledFacts
<1>9. FilesIn(d, new)
  BY <1>1, <1>2, <1>4 DEF FilesIn
<1>10. exports'[d] = new
  BY <1>1, <1>3 DEF Filed
<1>11. Progress(process'[p], new)
  <2>1. \A i \in 1 .. m.place - 1 :
          i <= Len(new) /\ new[i] = [body |-> m.bundle[i], whole |-> TRUE]
    <3>1. \A i \in 1 .. m.place - 1 : i \in 1 .. Len(files) /\ i <= Len(new)
      BY <1>1, <1>2, <1>4
    <3>2. QED
      BY <1>4, <1>6, <3>1
  <2>2. m.place = Len(new) /\ new[m.place] = [body |-> m.bundle[m.place], whole |-> FALSE]
    BY <1>2, <1>4 DEF file
  <2>3. m.place \in 1 .. Size(d) + 1
    BY <1>1 DEF Progress
  <2>4. QED
    BY <1>5, <2>1, <2>2, <2>3 DEF Progress
<1>12. FiledMemory(process'[p], p \in Assessors, exports')
  BY <1>1, <1>5, <1>10, <1>11 DEF FiledMemory, Writes, WritingPcs, RulingPcs
<1>13. Len(files) <= Len(new)
  BY <1>1, <1>4
<1>14. \A i \in 1 .. Len(files) : \A body :
         files[i] = [body |-> body, whole |-> TRUE] => new[i] = files[i]
  BY <1>4
<1>15. QED
  BY <1>1, <1>3, <1>5, <1>7, <1>8, <1>9, <1>12, <1>13, <1>14, FiledChange

LEMMA FilledFile ==
  ASSUME NEW body, NEW file, file = [body |-> body, whole |-> FALSE]
  PROVE  [file EXCEPT !.whole = TRUE] = [body |-> body, whole |-> TRUE]
<1> DEFINE a == [file EXCEPT !.whole = TRUE]
           b == [body |-> body, whole |-> TRUE]
<1>1. /\ a = [x \in {"body", "whole"} |-> a[x]]
      /\ a["body"] = body /\ a["whole"] = TRUE
  OBVIOUS
<1>2. /\ b = [x \in {"body", "whole"} |-> b[x]]
      /\ b["body"] = body /\ b["whole"] = TRUE
  OBVIOUS
<1> HIDE DEF a, b
<1>3. a = b
  BY <1>1, <1>2
<1>4. QED
  BY <1>3 DEF a, b

(* The file that was created is filled.                                    *)
LEMMA FiledFill ==
  ASSUME Filed, NEW p \in Processes, Fill(p)
  PROVE  Filed'
<1> DEFINE m == process[p]
           d == m.directory
           files == exports[d]
           new == [files EXCEPT ![m.place].whole = TRUE]
<1>1. /\ d \in Directories /\ Writes(m, p \in Assessors) /\ Progress(m, files)
      /\ FilesIn(d, files) /\ Len(m.bundle) = Size(d) /\ Size(d) \in Nat /\ Len(files) \in Nat
      /\ DOMAIN files = 1 .. Len(files)
      /\ m.place \in Nat /\ m.place >= 1 /\ m.pc = "filling"
  BY WriterFacts DEF WritingPcs, At, Fill
<1>2. /\ m.place = Len(files) /\ m.place \in 1 .. Len(files)
      /\ files[m.place] = [body |-> m.bundle[m.place], whole |-> FALSE]
  BY <1>1 DEF Progress
<1>3. exports' = [exports EXCEPT ![d] = new] /\ UNCHANGED <<clock, returned, assessed>>
  BY DEF Fill, priority
<1>4. process' = [process EXCEPT ![p].pc = "exporting", ![p].place = @ + 1]
  BY DEF Fill
<1>5. /\ Same(p) /\ process'[p].pc = "exporting" /\ process'[p].directory = d
      /\ process'[p].bundle = m.bundle /\ process'[p].place = m.place + 1
      /\ process'[p].evaluation = m.evaluation
  BY <1>4 DEF Same, Filed, Typed, IsMemory, Fields
<1>6. /\ DOMAIN new = 1 .. Len(files)
      /\ \A i \in 1 .. Len(files) : i # m.place => new[i] = files[i]
      /\ new[m.place] = [body |-> m.bundle[m.place], whole |-> TRUE]
  <2>1. /\ DOMAIN new = 1 .. Len(files)
        /\ \A i \in 1 .. Len(files) : i # m.place => new[i] = files[i]
        /\ new[m.place] = [files[m.place] EXCEPT !.whole = TRUE]
    BY <1>1, <1>2
  <2>2. [files[m.place] EXCEPT !.whole = TRUE] = [body |-> m.bundle[m.place], whole |-> TRUE]
    BY <1>2, FilledFile
  <2>3. QED
    BY <2>1, <2>2
<1>7. IsSequence(new) /\ Len(new) = Len(files)
  <2>1. PICK S : files \in Seq(S)
    BY <1>1 DEF FilesIn, IsSequence
  <2>2. new \in [1 .. Len(files) -> S \union {[body |-> m.bundle[m.place], whole |-> TRUE]}]
    BY <1>2, <1>6, <2>1
  <2> HIDE DEF new
  <2>3. /\ new \in Seq(S \union {[body |-> m.bundle[m.place], whole |-> TRUE]})
        /\ Len(new) = Len(files)
    BY <1>1, <2>2, FunctionIsSequence
  <2>4. QED
    BY <2>3 DEF IsSequence
<1> HIDE DEF new
<1>8. \A q \in Processes : q # p => ~Filling(q, d)
  BY <1>1 DEF Filed, OneFills, Filling
<1>9. \A b : ~Settled(b, d, files)
  <2>1. files[m.place].whole = FALSE
    BY <1>2
  <2>2. ASSUME NEW b, Settled(b, d, files)
        PROVE  files[m.place].whole = TRUE
    <3>1. files[m.place] = [body |-> b[m.place], whole |-> TRUE]
      BY <1>1, <1>2, <2>2, SettledFacts
    <3>2. QED
      BY <3>1
  <2>3. QED
    BY <2>1, <2>2
<1>10. FilesIn(d, new)
  BY <1>1, <1>7 DEF FilesIn
<1>11. exports'[d] = new
  BY <1>1, <1>3 DEF Filed
<1>12. Progress(process'[p], new)
  <2>1. ASSUME NEW i \in 1 .. process'[p].place - 1
        PROVE  i <= Len(new) /\ new[i] = [body |-> m.bundle[i], whole |-> TRUE]
    <3>1. CASE i = m.place
      BY <1>2, <1>6, <1>7, <3>1
    <3>2. CASE i # m.place
      <4>1. i \in 1 .. m.place - 1 /\ i \in 1 .. Len(files)
        BY <1>1, <1>2, <1>5, <3>2
      <4>2. files[i] = [body |-> m.bundle[i], whole |-> TRUE]
        BY <1>1, <4>1 DEF Progress
      <4>3. QED
        BY <1>6, <1>7, <3>2, <4>1, <4>2
    <3>3. QED
      BY <3>1, <3>2
  <2>2. process'[p].place \in 1 .. Size(d) + 1
    BY <1>1, <1>2, <1>5 DEF FilesIn
  <2>3. QED
    BY <1>5, <2>1, <2>2 DEF Progress
<1>13. FiledMemory(process'[p], p \in Assessors, exports')
  BY <1>1, <1>5, <1>11, <1>12 DEF FiledMemory, Writes, WritingPcs, RulingPcs
<1>14. Len(files) <= Len(new)
  BY <1>1, <1>7
<1>15. \A i \in 1 .. Len(files) : \A body :
         files[i] = [body |-> body, whole |-> TRUE] => new[i] = files[i]
  BY <1>2, <1>6
<1>16. QED
  BY <1>1, <1>3, <1>5, <1>8, <1>9, <1>10, <1>13, <1>14, <1>15, FiledChange

LEMMA FiledWrite ==
  ASSUME Filed, NEW p \in Processes, Write(p)
  PROVE  Filed'
<1> DEFINE m == process[p]
           files == exports[m.directory]
<1>1. At(p, "exporting") /\ m.place <= Len(m.bundle)
      /\ UNCHANGED <<clock, returned, assessed>>
  BY DEF Write, priority
<1>2. CASE m.place > Len(Files(p))
  BY <1>1, <1>2, FiledAppend DEF Write
<1>3. CASE ~(m.place > Len(Files(p))) /\ Acceptable(p)
  <2>1. exports' = exports /\ process' = [process EXCEPT ![p].place = @ + 1]
    BY <1>3 DEF Write
  <2>2. /\ Same(p) /\ process'[p].pc = "exporting" /\ process'[p].directory = m.directory
        /\ process'[p].bundle = m.bundle /\ process'[p].place = m.place + 1
        /\ process'[p].evaluation = m.evaluation
    BY <1>1, <2>1 DEF Same, Filed, Typed, IsMemory, Fields, At
  <2>3. /\ m.directory \in Directories /\ Writes(m, p \in Assessors) /\ Progress(m, files)
        /\ Len(m.bundle) = Size(m.directory) /\ Size(m.directory) \in Nat
        /\ Len(files) \in Nat /\ m.place \in Nat /\ m.place >= 1
    BY <1>1, WriterFacts DEF WritingPcs, At
  <2>4. m.place <= Len(files) /\ files[m.place] = [body |-> m.bundle[m.place], whole |-> TRUE]
    BY <1>3, <2>3 DEF Files, File, Body, Acceptable
  <2>5. ASSUME NEW i \in 1 .. m.place
        PROVE  i <= Len(files) /\ files[i] = [body |-> m.bundle[i], whole |-> TRUE]
    <3>1. CASE i = m.place
      BY <2>4, <3>1
    <3>2. CASE i # m.place
      <4>1. i \in 1 .. m.place - 1
        BY <2>3, <3>2
      <4>2. QED
        BY <2>3, <4>1 DEF Progress
    <3>3. QED
      BY <3>1, <3>2
  <2>6. m.place + 1 \in 1 .. Size(m.directory) + 1 /\ (m.place + 1) - 1 = m.place
    BY <1>1, <2>3
  <2>7. Progress(process'[p], files)
    BY <2>2, <2>5, <2>6 DEF Progress
  <2>8. FiledMemory(process'[p], p \in Assessors, exports)
    BY <2>2, <2>3, <2>7 DEF FiledMemory, Writes, WritingPcs, RulingPcs
  <2>9. IsSequence(assessed')
    BY <1>1 DEF Filed
  <2>10. QED
    BY <1>1, <2>1, <2>2, <2>8, <2>9, FiledSame
<1>4. CASE ~(m.place > Len(Files(p))) /\ ~Acceptable(p)
  BY <1>1, <1>4, FiledGone DEF Write
<1>5. QED
  BY <1>2, <1>3, <1>4

(* A process that begins with the first of its files.                      *)
LEMMA FiledFirst ==
  ASSUME Filed, NEW p \in Processes, Same(p), process'[p].pc = "exporting",
         process'[p].place = 1, Writes(process'[p], p \in Assessors),
         UNCHANGED <<clock, exports, returned, assessed>>
  PROVE  Filed'
<1>1. Progress(process'[p], exports[process'[p].directory])
  <2>1. Size(process'[p].directory) \in Nat
    BY SizeFacts
  <2>2. QED
    BY <2>1 DEF Progress
<1>2. FiledMemory(process'[p], p \in Assessors, exports)
  BY <1>1 DEF FiledMemory, WritingPcs, RulingPcs
<1>3. IsSequence(assessed')
  BY DEF Filed
<1>4. QED
  BY <1>2, <1>3, FiledSame

LEMMA FiledBundle ==
  ASSUME Filed, NEW p \in Processes, Bundle(p)
  PROVE  Filed'
<1>1. /\ process[p].pc = "bundling"
      /\ UNCHANGED <<clock, exports, returned, assessed>>
  BY DEF Bundle, At, priority
<1>2. p \notin Assessors
  BY <1>1 DEF Filed, FiledMemory, WritingPcs, RulingPcs
<1>3. CASE Gone(p)
  BY <1>1, <1>3, FiledGone
<1>4. CASE process' = [process EXCEPT ![p].pc = "exporting", ![p].directory = "prospective",
                                      ![p].bundle = RunBundle(Fixed(p)), ![p].place = 1]
  <2>1. /\ Same(p) /\ process'[p].pc = "exporting" /\ process'[p].directory = "prospective"
        /\ process'[p].bundle = RunBundle(Fixed(p)) /\ process'[p].place = 1
    BY <1>4 DEF Same, Filed, Typed, IsMemory, Fields
  <2>2. Writes(process'[p], p \in Assessors)
    BY <1>2, <2>1, RunIsBundle DEF Writes
  <2>3. QED
    BY <1>1, <2>1, <2>2, FiledFirst
<1>5. QED
  BY <1>3, <1>4 DEF Bundle

(* One that has exported everything has its bundle in the files.           *)
LEMMA ExportedIsSettled ==
  ASSUME Filed, NEW p \in Processes, Exported(p)
  PROVE  LET m == process[p]
         IN  Settled(m.bundle, m.directory, exports[m.directory]) /\ Writes(m, p \in Assessors)
<1>1. process[p].pc \in WritingPcs /\ process[p].place > Len(process[p].bundle)
  BY DEF Exported, At, WritingPcs
<1>2. QED
  BY <1>1, WriterFacts, ProgressEnds DEF Writes

LEMMA FiledReturn ==
  ASSUME Filed, NEW p \in Processes, Return(p)
  PROVE  Filed'
<1>1. /\ p \in Shadows /\ Exported(p) /\ Gone(p)
      /\ returned' = returned \union {process[p].bundle}
      /\ UNCHANGED <<clock, exports, assessed>>
  BY DEF Return, priority
<1>2. p \notin Assessors
  BY <1>1, ShadowAssumption
<1>3. Settled(process[p].bundle, "prospective", exports["prospective"])
  BY <1>1, <1>2, ExportedIsSettled DEF Writes
<1>4. Same(p) /\ process'[p].pc = "off"
  BY <1>1, GoneFacts DEF Filed
<1>5. FiledMemory(process'[p], p \in Assessors, exports) /\ IsSequence(assessed')
  BY <1>1, <1>4 DEF Filed, FiledMemory, WritingPcs, RulingPcs
<1>6. QED
  BY <1>1, <1>3, <1>4, <1>5, FiledSame

(* On the way to the rows of an assessment.                                *)
LEMMA FiledRuling ==
  ASSUME Filed, NEW p \in Processes, p \in Assessors, NEW pc \in RulingPcs, Goes(p, pc),
         Settled(AssessmentBundle(process[p].evaluation), "priority", exports["priority"]),
         UNCHANGED <<clock, exports, returned, assessed>>
  PROVE  Filed'
<1>1. /\ Same(p) /\ process'[p].pc \in RulingPcs /\ process'[p].pc \notin WritingPcs
      /\ process'[p].pc # "filling" /\ process'[p].evaluation = process[p].evaluation
  BY GoesFacts DEF Filed, RulingPcs, WritingPcs
<1>2. FiledMemory(process'[p], p \in Assessors, exports)
  BY <1>1 DEF FiledMemory
<1>3. IsSequence(assessed')
  BY DEF Filed
<1>4. QED
  BY <1>1, <1>2, <1>3, FiledSame

LEMMA RulingFacts ==
  ASSUME Filed, NEW p \in Processes, process[p].pc \in RulingPcs
  PROVE  /\ p \in Assessors
         /\ Settled(AssessmentBundle(process[p].evaluation), "priority", exports["priority"])
  BY DEF Filed, FiledMemory

LEMMA FiledEndWriting ==
  ASSUME Filed, NEW p \in Processes, EndWriting(p)
  PROVE  Filed'
<1>1. /\ p \in Assessors /\ Exported(p) /\ Goes(p, "ruling")
      /\ UNCHANGED <<clock, exports, returned, assessed>>
  BY DEF EndWriting, priority
<1>2. Settled(AssessmentBundle(process[p].evaluation), "priority", exports["priority"])
  BY <1>1, ExportedIsSettled DEF Writes
<1>3. QED
  BY <1>1, <1>2, FiledRuling DEF RulingPcs

LEMMA FiledRule ==
  ASSUME Filed, NEW p \in Processes, Rule(p) \/ Enact(p)
  PROVE  Filed'
<1>1. process[p].pc \in RulingPcs /\ UNCHANGED <<clock, exports, returned, assessed>>
  BY DEF Rule, Enact, At, RulingPcs, priority
<1>2. Gone(p) \/ \E pc \in RulingPcs : Goes(p, pc)
  BY DEF Rule, Enact, RulingPcs
<1>3. QED
  BY <1>1, <1>2, FiledGone, FiledRuling, RulingFacts

LEMMA FiledAssess ==
  ASSUME Filed, NEW p \in Processes, Assess(p)
  PROVE  Filed'
<1> DEFINE e == process[p].evaluation
<1>1. /\ process[p].pc \in RulingPcs /\ Gone(p) /\ UNCHANGED <<clock, exports, returned>>
      /\ assessed' = assessed \/ assessed' = Append(assessed, e)
  BY DEF Assess, At, RulingPcs
<1>2. Settled(AssessmentBundle(e), "priority", exports["priority"])
  BY <1>1, RulingFacts
<1>3. CASE assessed' = assessed
  BY <1>1, <1>3, FiledGone
<1>4. CASE assessed' = Append(assessed, e)
  <2> HIDE DEF e
  <2>1. /\ IsSequence(Append(assessed, e)) /\ Len(assessed) \in Nat
        /\ DOMAIN assessed = 1 .. Len(assessed) /\ Len(Append(assessed, e)) = Len(assessed) + 1
        /\ \A i \in 1 .. Len(assessed) : Append(assessed, e)[i] = assessed[i]
        /\ Append(assessed, e)[Len(assessed) + 1] = e
    BY AppendFacts DEF Filed
  <2>2. DOMAIN Append(assessed, e) = 1 .. Len(assessed) + 1
    BY <2>1, SequenceFacts
  <2>3. ToSet(assessed') \subseteq ToSet(assessed) \union {e}
    BY <1>4, <2>1, <2>2 DEF ToSet
  <2>4. Same(p) /\ process'[p].pc = "off"
    BY <1>1, GoneFacts DEF Filed
  <2>5. FiledMemory(process'[p], p \in Assessors, exports)
    BY <2>4 DEF FiledMemory, WritingPcs, RulingPcs
  <2>6. QED
    BY <1>1, <1>2, <1>4, <2>1, <2>3, <2>4, <2>5, FiledSame
<1>5. QED
  BY <1>1, <1>3, <1>4

LEMMA FiledStep ==
  ASSUME Filed, [Next]_vars
  PROVE  Filed'
<1>1. ASSUME NEW p \in Processes, Capturing(p) PROVE Filed'
  <2>1. /\ Same(p) /\ process[p].pc \in ShadowPcs
        /\ process'[p].pc \in ShadowPcs \union {"off", "bundling"}
        /\ UNCHANGED <<exports, returned, assessed>> /\ clock' \in {clock, clock + 1}
    BY <1>1, CapturingFacts DEF Filed, priority
  <2>2. p \notin Assessors
    BY <2>1 DEF Filed, FiledMemory, ShadowPcs, CapturePcs, FixedPcs, WritingPcs, RulingPcs
  <2>3. process'[p].pc \notin RulingPcs \union WritingPcs /\ process'[p].pc # "filling"
    BY <2>1 DEF ShadowPcs, CapturePcs, FixedPcs, WritingPcs, RulingPcs
  <2>4. FiledMemory(process'[p], p \in Assessors, exports) /\ IsSequence(assessed')
    BY <2>1, <2>2, <2>3 DEF FiledMemory, Filed
  <2>5. QED
    BY <2>1, <2>3, <2>4, FiledSame
<1>2. ASSUME NEW p \in Processes, Writing(p) PROVE Filed'
  BY <1>2, FiledBundle, FiledWrite, FiledFill, FiledReturn, FiledEndWriting, FiledRule,
     FiledAssess DEF Writing
<1>3. ASSUME NEW p \in Processes, Crash(p) PROVE Filed'
  BY <1>3, FiledGone DEF Crash, priority
<1>4. ASSUME NEW p \in Processes,
             \/ p \in Shadows /\ BeginShadow(p)
             \/ p \in Captures /\ BeginCapture(p)
             \/ p \in Assessors /\ BeginAssessment(p)
      PROVE  Filed'
  <2>1. /\ Same(p) /\ UNCHANGED <<clock, exports, returned, assessed>>
        /\ \/ p \in Shadows \union Captures /\ process'[p].pc \in {"forebet", "fetching"}
           \/ /\ p \in Assessors /\ process'[p].pc = "exporting"
              /\ process'[p].directory = "priority" /\ process'[p].place = 1
              /\ process'[p].bundle = AssessmentBundle(process'[p].evaluation)
    <3>1. Typed
      BY DEF Filed
    <3>2. CASE p \in Shadows /\ BeginShadow(p)
      BY <3>1, <3>2, BeginShadowFacts
    <3>3. CASE p \in Captures /\ BeginCapture(p)
      BY <3>1, <3>3, BeginCaptureFacts
    <3>4. CASE p \in Assessors /\ BeginAssessment(p)
      BY <3>1, <3>4, BeginAssessmentFacts
    <3>5. QED
      BY <1>4, <3>2, <3>3, <3>4
  <2>2. CASE p \in Shadows \union Captures /\ process'[p].pc \in {"forebet", "fetching"}
    <3>1. p \notin Assessors
      BY <2>2, ShadowAssumption
    <3>2. FiledMemory(process'[p], p \in Assessors, exports) /\ IsSequence(assessed')
      BY <2>1, <2>2, <3>1 DEF FiledMemory, Filed, WritingPcs, RulingPcs
    <3>3. QED
      BY <2>1, <2>2, <3>2, FiledSame
  <2>3. CASE /\ p \in Assessors /\ process'[p].pc = "exporting"
             /\ process'[p].directory = "priority" /\ process'[p].place = 1
             /\ process'[p].bundle = AssessmentBundle(process'[p].evaluation)
    <3>1. Writes(process'[p], p \in Assessors)
      BY <2>3, AssessmentIsBundle DEF Writes
    <3>2. QED
      BY <2>1, <2>3, <3>1, FiledFirst
  <2>4. QED
    BY <2>1, <2>2, <2>3
<1>5. CASE World
  BY <1>5, WorldFacts, TypedStep DEF Filed, OneFills, Filling, World, Next
<1>6. CASE UNCHANGED vars
  BY <1>6 DEF Filed, Typed, OneFills, Filling, vars, priority
<1>7. QED
  BY <1>1, <1>2, <1>3, <1>4, <1>5, <1>6, NextCases

(* The files of a directory are written one after the other, each by one   *)
(* process, and what was returned or assessed is all there.                *)
THEOREM AlwaysFiled == Spec => []Filed
  BY FiledInit, FiledStep, PTL DEF Spec

(* ReturnedIsExported: what an invocation returned is what the files say,  *)
(* whole and for good, however many of them overlap or die.                *)
THEOREM ReturnedInFiles == Spec => []ReturnedIsExported
<1>1. Filed => ReturnedIsExported
  BY DEF Filed, Settled, ReturnedIsExported
<1>2. QED
  BY <1>1, AlwaysFiled, PTL

(* AssessedIsExported: a completed assessment is the one in the files.     *)
THEOREM AssessedInFiles == Spec => []AssessedIsExported
<1>1. Filed => AssessedIsExported
  BY DEF Filed, Settled, AssessedIsExported
<1>2. QED
  BY <1>1, AlwaysFiled, PTL

-----------------------------------------------------------------------------
(***************************************************************************)
(* Serial: as long as no two processes have captured together, the capture *)
(* of each source that is fixed is settled from the first on, and so is    *)
(* the one run that is frozen.                                             *)
(***************************************************************************)

Capturers == Shadows \union Captures

FirstPages(made) == {a.page : a \in {b \in made : \A c \in made : b.at <= c.at}}

Alone ==
  \A p, q \in Capturers : process[p].pc # "off" /\ process[q].pc # "off" => p = q

SerialMemory(m, made, known) ==
  /\ m.pc \in CapturePcs \ {"fetching"} /\ m.source = "FOREBET" =>
       \A a \in made["FOREBET"] : a.at < m.at
  /\ HasForebet(m) => m.forebet \in FirstPages(made["FOREBET"])
  /\ m.pc \in FixedPcs =>
       known["STATAREA"] # <<>> /\ m.statarea = known["STATAREA"][1]

SerialRun(run, made, known) ==
  /\ known["STATAREA"] # <<>>
  /\ \E page \in FirstPages(made["FOREBET"]) :
       run.captures = <<page, known["STATAREA"][1]>>

OneAtATime(made) == \A a, b \in made["FOREBET"] : a.at = b.at => a.page = b.page

Serially ==
  /\ Alone
  /\ OneAtATime(attempts)
  /\ \A p \in Processes : SerialMemory(process[p], attempts, snapshots)
  /\ \A run \in frozen : SerialRun(run, attempts, snapshots)
  /\ \A run, next \in frozen : run = next

Kept ==
  /\ DOMAIN snapshots = Sources
  /\ \A source \in Sources : IsSequence(snapshots[source])

Serial ==
  /\ Dated /\ Filed /\ Kept
  /\ ~overlapped => Serially

LEMMA FirstIsOne ==
  ASSUME Dated, OneAtATime(attempts),
         NEW page \in FirstPages(attempts["FOREBET"]), NEW next \in FirstPages(attempts["FOREBET"])
  PROVE  page = next
<1>1. PICK a \in attempts["FOREBET"] :
        a.page = page /\ \A c \in attempts["FOREBET"] : a.at <= c.at
  BY DEF FirstPages
<1>2. PICK b \in attempts["FOREBET"] :
        b.page = next /\ \A c \in attempts["FOREBET"] : b.at <= c.at
  BY DEF FirstPages
<1>3. a.at \in Nat /\ b.at \in Nat
  BY DEF Dated, DatedAttempts, Sources
<1>4. a.at = b.at
  BY <1>1, <1>2, <1>3
<1>5. QED
  BY <1>1, <1>2, <1>4 DEF OneAtATime

(* A later attempt is not the first.                                       *)
LEMMA FirstStays ==
  ASSUME NEW made, \A a \in made : a.at \in Nat, NEW x, x.at \in Nat,
         \A a \in made : a.at < x.at
  PROVE  FirstPages(made) \subseteq FirstPages(made \union {x})
<1>1. ASSUME NEW page \in FirstPages(made)
      PROVE  page \in FirstPages(made \union {x})
  <2>1. PICK b \in made : b.page = page /\ \A c \in made : b.at <= c.at
    BY DEF FirstPages
  <2>2. b \in made \union {x} /\ \A c \in made \union {x} : b.at <= c.at
    BY <2>1
  <2>3. QED
    BY <2>1, <2>2 DEF FirstPages
<1>2. QED
  BY <1>1

(* A memory that is not at work on a capture or a run says nothing.        *)
LEMMA IdleMemory ==
  ASSUME NEW m, m.pc \notin CapturePcs \union FixedPcs \union {"statarea"},
         NEW made, NEW known
  PROVE  SerialMemory(m, made, known)
  BY DEF SerialMemory, HasForebet, FixedPcs, CapturePcs

(* What a process has fixed stays so, as long as it is.                    *)
LEMMA SerialStays ==
  ASSUME NEW made, NEW more, NEW known, NEW wider,
         more["FOREBET"] = made["FOREBET"], IsSequence(known["STATAREA"]),
         \/ wider["STATAREA"] = known["STATAREA"]
         \/ \E x : wider["STATAREA"] = Append(known["STATAREA"], x)
  PROVE  /\ \A m : SerialMemory(m, made, known) => SerialMemory(m, more, wider)
         /\ \A run : SerialRun(run, made, known) => SerialRun(run, more, wider)
<1>1. known["STATAREA"] # <<>> =>
        wider["STATAREA"] # <<>> /\ wider["STATAREA"][1] = known["STATAREA"][1]
  <2>1. PICK S : known["STATAREA"] \in Seq(S)
    BY DEF IsSequence
  <2>2. CASE wider["STATAREA"] = known["STATAREA"]
    BY <2>2
  <2>3. ASSUME NEW x, wider["STATAREA"] = Append(known["STATAREA"], x),
               known["STATAREA"] # <<>>
        PROVE  wider["STATAREA"] # <<>> /\ wider["STATAREA"][1] = known["STATAREA"][1]
    <3>1. Len(known["STATAREA"]) \in Nat /\ Len(known["STATAREA"]) # 0
      BY <2>1, <2>3
    <3>2. /\ \A i \in 1 .. Len(known["STATAREA"]) :
               wider["STATAREA"][i] = known["STATAREA"][i]
          /\ Len(wider["STATAREA"]) = Len(known["STATAREA"]) + 1
      BY <2>3, AppendFacts
    <3>3. Len(<<>>) = 0 /\ 1 \in 1 .. Len(known["STATAREA"])
      BY <3>1
    <3>4. QED
      BY <3>1, <3>2, <3>3
  <2>4. QED
    BY <2>2, <2>3
<1>2. ASSUME NEW m, SerialMemory(m, made, known)
      PROVE  SerialMemory(m, more, wider)
  BY <1>1, <1>2 DEF SerialMemory
<1>3. ASSUME NEW run, SerialRun(run, made, known)
      PROVE  SerialRun(run, more, wider)
  BY <1>1, <1>3 DEF SerialRun
<1>4. QED
  BY <1>2, <1>3

(* The step of the one process that is at work on a capture or a run: the  *)
(* others have nothing in memory, whatever becomes of what is captured.    *)
LEMMA SerialSame ==
  ASSUME Serial, Serially, NEW p \in Capturers, process[p].pc # "off", Same(p),
         SerialMemory(process'[p], attempts', snapshots'),
         OneAtATime(attempts'),
         \A run \in frozen' : SerialRun(run, attempts', snapshots'),
         \A run, next \in frozen' : run = next
  PROVE  Serially'
<1>1. Alone'
  BY DEF Serially, Alone, Same, Capturers, Processes
<1>2. ASSUME NEW q \in Processes
      PROVE  SerialMemory(process'[q], attempts', snapshots')
  <2>1. CASE q = p
    BY <2>1
  <2>2. CASE q # p /\ q \in Capturers
    <3>1. process[q].pc = "off"
      BY <2>2 DEF Serially, Alone
    <3>2. process'[q].pc = "off"
      BY <2>2, <3>1 DEF Same
    <3>3. QED
      BY <3>2, IdleMemory DEF CapturePcs, FixedPcs
  <2>3. CASE q # p /\ q \in Assessors
    <3>1. process'[q].pc \notin CapturePcs \union FixedPcs \union {"statarea"}
      BY <2>3 DEF Same, Serial, Filed, FiledMemory, ShadowPcs, CapturePcs, FixedPcs,
                  WritingPcs, RulingPcs
    <3>2. QED
      BY <3>1, IdleMemory
  <2>4. QED
    BY <2>1, <2>2, <2>3 DEF Processes, Capturers
<1>3. QED
  BY <1>1, <1>2 DEF Serially

(* A step that leaves the captures and the runs alone.                     *)
LEMMA SerialQuiet ==
  ASSUME Serial, Serially, NEW p \in Capturers, process[p].pc # "off", Same(p),
         UNCHANGED <<attempts, snapshots, frozen>>,
         SerialMemory(process'[p], attempts, snapshots)
  PROVE  Serially'
<1>1. SerialMemory(process'[p], attempts', snapshots')
  OBVIOUS
<1>2. /\ OneAtATime(attempts')
      /\ \A run \in frozen' : SerialRun(run, attempts', snapshots')
      /\ \A run, next \in frozen' : run = next
  BY DEF Serially
<1>3. QED
  BY <1>1, <1>2, SerialSame

LEMMA SerialGone ==
  ASSUME Serial, Serially, NEW p \in Capturers, process[p].pc # "off", Gone(p),
         UNCHANGED <<attempts, snapshots, frozen>>
  PROVE  Serially'
<1>1. Same(p) /\ process'[p].pc = "off"
  BY GoneFacts DEF Serial, Dated, Capturers, Processes
<1>2. SerialMemory(process'[p], attempts, snapshots)
  BY <1>1, IdleMemory DEF CapturePcs, FixedPcs
<1>3. QED
  BY <1>1, <1>2, SerialQuiet

(* The answer is dated after every attempt there is.                       *)
LEMMA SerialFetch ==
  ASSUME Serial, Serially, NEW p \in Capturers, Fetch(p)
  PROVE  Serially'
<1> DEFINE m == process[p]
<1>1. /\ UNCHANGED <<attempts, snapshots, frozen>> /\ Typed /\ p \in Processes
      /\ m.pc = "fetching" /\ m.pc # "off" /\ SerialMemory(m, attempts, snapshots)
  BY DEF Fetch, captured, Serial, Serially, Dated, At, Processes, Capturers
<1>2. CASE Gone(p)
  BY <1>1, <1>2, SerialGone
<1>3. CASE ~Gone(p)
  <2>1. PICK page : process' = [process EXCEPT ![p].pc = "looking", ![p].page = page,
                                               ![p].at = clock']
    BY <1>3 DEF Fetch
  <2>2. /\ Same(p) /\ process'[p].pc = "looking" /\ process'[p].at = clock'
        /\ process'[p].source = m.source /\ process'[p].forebet = m.forebet
    BY <1>1, <2>1 DEF Same, Typed, IsMemory, Fields
  <2>3. clock' = clock + 1 /\ clock \in Nat
    BY <1>1, <1>3 DEF Fetch, Typed
  <2>4. \A a \in attempts["FOREBET"] : a.at < clock'
    BY <2>3 DEF Serial, Dated, DatedAttempts, Sources
  <2>5. SerialMemory(process'[p], attempts, snapshots)
    BY <1>1, <2>2, <2>4 DEF SerialMemory, HasForebet, CapturePcs, FixedPcs
  <2>6. QED
    BY <1>1, <2>2, <2>5, SerialQuiet
<1>4. QED
  BY <1>2, <1>3

(* To look and to be ready to create, or to record the attempt.            *)
LEMMA SerialGoes ==
  ASSUME Serial, Serially, NEW p \in Capturers, NEW pc, Goes(p, pc),
         \/ process[p].pc = "looking" /\ pc \in {"creating", "attempting"}
         \/ process[p].pc \in FixedPcs /\ pc \in {"pairing", "finding", "bundling"},
         UNCHANGED <<attempts, snapshots, frozen>>
  PROVE  Serially'
<1>1. /\ Same(p) /\ process'[p].pc = pc /\ process'[p].source = process[p].source
      /\ process'[p].at = process[p].at /\ process'[p].forebet = process[p].forebet
      /\ process'[p].statarea = process[p].statarea
  BY GoesFacts DEF Serial, Dated, Capturers, Processes
<1>2. SerialMemory(process[p], attempts, snapshots)
  BY DEF Serially, Capturers, Processes
<1>3. process[p].pc # "off"
  BY DEF FixedPcs
<1>4. SerialMemory(process'[p], attempts, snapshots)
  BY <1>1, <1>2 DEF SerialMemory, HasForebet, CapturePcs, FixedPcs
<1>5. QED
  BY <1>1, <1>3, <1>4, SerialQuiet

(* Another capture of Statarea comes after the first.                      *)
LEMMA SerialCreate ==
  ASSUME Serial, Serially, NEW p \in Capturers, Create(p)
  PROVE  Serially'
<1> DEFINE m == process[p]
<1>1. /\ UNCHANGED <<attempts, frozen>> /\ Typed /\ p \in Processes
      /\ m.pc = "creating" /\ m.pc # "off" /\ SerialMemory(m, attempts, snapshots)
      /\ DatedMemory(m, attempts, clock)
  BY DEF Create, Serial, Serially, Dated, At, Processes, Capturers
<1>2. CASE Gone(p) /\ snapshots' = snapshots
  BY <1>1, <1>2, SerialGone
<1>3. CASE /\ Goes(p, "attempting")
           /\ snapshots' = [snapshots EXCEPT ![m.source] = Append(@, m.page)]
  <2>1. /\ Same(p) /\ process'[p].pc = "attempting" /\ process'[p].source = m.source
        /\ process'[p].at = m.at /\ process'[p].forebet = m.forebet
    BY <1>1, <1>3, GoesFacts
  <2>2. IsSequence(snapshots["STATAREA"]) /\ DOMAIN snapshots = Sources
    BY DEF Serial, Kept, Sources
  <2>3. \/ snapshots'["STATAREA"] = snapshots["STATAREA"]
        \/ snapshots'["STATAREA"] = Append(snapshots["STATAREA"], m.page)
    BY <1>3, <2>2 DEF Sources
  <2>4. attempts'["FOREBET"] = attempts["FOREBET"]
    BY <1>1
  <2>5. /\ \A x : SerialMemory(x, attempts, snapshots) => SerialMemory(x, attempts', snapshots')
        /\ \A run : SerialRun(run, attempts, snapshots) => SerialRun(run, attempts', snapshots')
    BY <2>2, <2>3, <2>4, SerialStays
  <2>6. SerialMemory(m, attempts', snapshots')
    BY <1>1, <2>5
  <2>7. SerialMemory(process'[p], attempts', snapshots')
    BY <1>1, <2>1, <2>6 DEF SerialMemory, HasForebet, CapturePcs, FixedPcs
  <2>8. /\ OneAtATime(attempts')
        /\ \A run \in frozen' : SerialRun(run, attempts', snapshots')
        /\ \A run, next \in frozen' : run = next
    BY <1>1, <2>5 DEF Serially
  <2>9. QED
    BY <1>1, <2>1, <2>7, <2>8, SerialSame
<1>4. QED
  BY <1>2, <1>3 DEF Create

(* The attempt of Forebet that is recorded is the last: what was the first *)
(* stays the first.                                                        *)
LEMMA SerialAttempt ==
  ASSUME Serial, Serially, NEW p \in Capturers, Attempt(p)
  PROVE  Serially'
<1> DEFINE m == process[p]
           new == [page |-> m.page, at |-> m.at]
<1>1. /\ UNCHANGED <<snapshots, frozen>> /\ Typed /\ p \in Processes
      /\ m.pc = "attempting" /\ m.pc # "off" /\ SerialMemory(m, attempts, snapshots)
      /\ DatedMemory(m, attempts, clock)
      /\ attempts' = [attempts EXCEPT ![m.source] = @ \union {new}]
  BY DEF Attempt, Serial, Serially, Dated, At, Processes, Capturers
<1>2. /\ DOMAIN attempts = Sources /\ m.source \in Sources /\ m.at \in Nat
      /\ \A a \in attempts["FOREBET"] : a.at \in Nat
  BY <1>1 DEF Serial, Dated, DatedAttempts, DatedMemory, CapturePcs, Sources
<1>3. new.at = m.at /\ new.page = m.page
  OBVIOUS
<1> HIDE DEF new
<1>4. \/ Gone(p)
      \/ Goes(p, IF m.source = "FOREBET" THEN "forebet" ELSE "statarea")
  BY DEF Attempt
<1>5. CASE m.source = "FOREBET"
  <2>1. /\ attempts'["FOREBET"] = attempts["FOREBET"] \union {new}
        /\ \A a \in attempts["FOREBET"] : a.at < new.at
    BY <1>1, <1>2, <1>3, <1>5 DEF SerialMemory, CapturePcs
  <2>2. FirstPages(attempts["FOREBET"]) \subseteq FirstPages(attempts'["FOREBET"])
    BY <1>2, <1>3, <2>1, FirstStays
  <2>3. OneAtATime(attempts')
    BY <1>2, <1>3, <2>1 DEF Serially, OneAtATime
  <2>4. /\ \A run \in frozen' : SerialRun(run, attempts', snapshots')
        /\ \A run, next \in frozen' : run = next
    BY <1>1, <2>2 DEF Serially, SerialRun
  <2>5. Same(p) /\ process'[p].pc \in {"off", "forebet"}
    BY <1>1, <1>4, <1>5, GoneFacts, GoesFacts
  <2>6. SerialMemory(process'[p], attempts', snapshots')
    BY <2>5, IdleMemory DEF CapturePcs, FixedPcs
  <2>7. QED
    BY <1>1, <2>3, <2>4, <2>5, <2>6, SerialSame
<1>6. CASE m.source = "STATAREA"
  <2>1. attempts'["FOREBET"] = attempts["FOREBET"]
    BY <1>1, <1>2, <1>6 DEF Sources
  <2>2. IsSequence(snapshots["STATAREA"]) /\ snapshots'["STATAREA"] = snapshots["STATAREA"]
    BY <1>1 DEF Serial, Kept, Sources
  <2>3. /\ \A x : SerialMemory(x, attempts, snapshots) => SerialMemory(x, attempts', snapshots')
        /\ \A run : SerialRun(run, attempts, snapshots) => SerialRun(run, attempts', snapshots')
    BY <2>1, <2>2, SerialStays
  <2>4. SerialMemory(m, attempts', snapshots')
    BY <1>1, <2>3
  <2>5. /\ OneAtATime(attempts')
        /\ \A run \in frozen' : SerialRun(run, attempts', snapshots')
        /\ \A run, next \in frozen' : run = next
    <3>1. OneAtATime(attempts')
      BY <2>1 DEF Serially, OneAtATime
    <3>2. /\ \A run \in frozen : SerialRun(run, attempts, snapshots)
          /\ \A run, next \in frozen : run = next
      BY DEF Serially
    <3>3. QED
      BY <1>1, <2>3, <3>1, <3>2
  <2>6. /\ Same(p) /\ process'[p].pc \in {"off", "statarea"}
        /\ process'[p].pc = "statarea" => process'[p].forebet = m.forebet
    <3>1. CASE Gone(p)
      BY <1>1, <3>1, GoneFacts
    <3>2. CASE Goes(p, "statarea")
      BY <1>1, <3>2, GoesFacts
    <3>3. QED
      BY <1>4, <1>6, <3>1, <3>2
  <2>7. SerialMemory(process'[p], attempts', snapshots')
    BY <1>1, <1>6, <2>4, <2>6 DEF SerialMemory, HasForebet, CapturePcs, FixedPcs
  <2>8. QED
    BY <1>1, <2>5, <2>6, <2>7, SerialSame
<1>7. QED
  BY <1>2, <1>5, <1>6 DEF Sources

LEMMA SerialFixForebet ==
  ASSUME Serial, Serially, NEW p \in Capturers, FixForebet(p)
  PROVE  Serially'
<1>1. /\ UNCHANGED <<attempts, snapshots, frozen>> /\ Typed /\ p \in Processes
      /\ process[p].pc # "off"
  BY DEF FixForebet, captured, Serial, Dated, At, Processes, Capturers
<1>2. CASE process' = [process EXCEPT ![p].pc = "fetching", ![p].source = "FOREBET"]
  <2>1. Same(p) /\ process'[p].pc = "fetching" /\ process'[p].source = "FOREBET"
    BY <1>1, <1>2 DEF Same, Typed, IsMemory, Fields
  <2>2. SerialMemory(process'[p], attempts, snapshots)
    BY <2>1 DEF SerialMemory, HasForebet, CapturePcs, FixedPcs
  <2>3. QED
    BY <1>1, <2>1, <2>2, SerialQuiet
<1>3. ASSUME NEW page \in FixedForebet,
             process' = [process EXCEPT ![p].pc = "statarea", ![p].forebet = page]
      PROVE  Serially'
  <2>1. Same(p) /\ process'[p].pc = "statarea" /\ process'[p].forebet = page
    BY <1>1, <1>3 DEF Same, Typed, IsMemory, Fields
  <2>2. page \in FirstPages(attempts["FOREBET"])
    BY DEF FixedForebet, FirstPages
  <2>3. SerialMemory(process'[p], attempts, snapshots)
    BY <2>1, <2>2 DEF SerialMemory, HasForebet, CapturePcs, FixedPcs
  <2>4. QED
    BY <1>1, <2>1, <2>3, SerialQuiet
<1>4. QED
  BY <1>2, <1>3 DEF FixForebet

LEMMA SerialFixStatarea ==
  ASSUME Serial, Serially, NEW p \in Capturers, FixStatarea(p)
  PROVE  Serially'
<1> DEFINE m == process[p]
           known == snapshots["STATAREA"]
<1>1. /\ UNCHANGED <<attempts, snapshots, frozen>> /\ Typed /\ p \in Processes
      /\ m.pc = "statarea" /\ m.pc # "off" /\ SerialMemory(m, attempts, snapshots)
  BY DEF FixStatarea, captured, Serial, Serially, Dated, At, Processes, Capturers
<1>2. CASE process' = [process EXCEPT ![p].pc = "fetching", ![p].source = "STATAREA"]
  <2>1. /\ Same(p) /\ process'[p].pc = "fetching" /\ process'[p].source = "STATAREA"
        /\ process'[p].forebet = m.forebet
    BY <1>1, <1>2 DEF Same, Typed, IsMemory, Fields
  <2>2. SerialMemory(process'[p], attempts, snapshots)
    BY <1>1, <2>1 DEF SerialMemory, HasForebet, CapturePcs, FixedPcs
  <2>3. QED
    BY <1>1, <2>1, <2>2, SerialQuiet
<1>3. CASE Gone(p)
  BY <1>1, <1>3, SerialGone
<1>4. CASE /\ known # <<>>
           /\ process' = [process EXCEPT ![p].pc = "matching", ![p].statarea = known[1]]
  <2>1. /\ Same(p) /\ process'[p].pc = "matching" /\ process'[p].statarea = known[1]
        /\ process'[p].forebet = m.forebet
    BY <1>1, <1>4 DEF Same, Typed, IsMemory, Fields
  <2>2. SerialMemory(process'[p], attempts, snapshots)
    BY <1>1, <1>4, <2>1 DEF SerialMemory, HasForebet, CapturePcs, FixedPcs
  <2>3. QED
    BY <1>1, <2>1, <2>2, SerialQuiet
<1>5. QED
  BY <1>2, <1>3, <1>4 DEF FixStatarea

(* To be dated, or to have its references.                                 *)
LEMMA SerialFind ==
  ASSUME Serial, Serially, NEW p \in Capturers, Find(p) \/ Decide(p)
  PROVE  Serially'
<1> DEFINE m == process[p]
<1>1. /\ UNCHANGED <<attempts, snapshots, frozen>> /\ Typed /\ p \in Processes
      /\ m.pc \in FixedPcs /\ m.pc # "off" /\ SerialMemory(m, attempts, snapshots)
  BY DEF Find, Decide, captured, Serial, Serially, Dated, At, Processes, Capturers, FixedPcs
<1>2. CASE Gone(p)
  BY <1>1, <1>2, SerialGone
<1>3. CASE Goes(p, "bundling")
  BY <1>1, <1>3, SerialGoes
<1>4. CASE ~Gone(p) /\ ~Goes(p, "bundling")
  <2>1. \/ process' = [process EXCEPT ![p].pc = "deciding", ![p].frozenAt = clock]
        \/ process' = [process EXCEPT ![p].pc = "freezing", ![p].evaluation = evaluation]
    BY <1>4 DEF Find, Decide
  <2>2. /\ Same(p) /\ process'[p].pc \in {"deciding", "freezing"}
        /\ process'[p].forebet = m.forebet /\ process'[p].statarea = m.statarea
    BY <1>1, <2>1 DEF Same, Typed, IsMemory, Fields
  <2>3. SerialMemory(process'[p], attempts, snapshots)
    BY <1>1, <2>2 DEF SerialMemory, HasForebet, CapturePcs, FixedPcs
  <2>4. QED
    BY <1>1, <2>2, <2>3, SerialQuiet
<1>5. QED
  BY <1>2, <1>3, <1>4

(* A run that is frozen rests on the two captures that are fixed, of which *)
(* there is no other run.                                                  *)
LEMMA SerialFreeze ==
  ASSUME Serial, Serially, NEW p \in Capturers, Freeze(p)
  PROVE  Serially'
<1> DEFINE m == process[p]
<1>1. /\ UNCHANGED <<attempts, snapshots>> /\ Typed /\ p \in Processes
      /\ m.pc = "freezing" /\ m.pc # "off" /\ SerialMemory(m, attempts, snapshots)
  BY DEF Freeze, captured, Serial, Serially, Dated, At, Processes, Capturers
<1>2. CASE Gone(p) /\ frozen' = frozen
  BY <1>1, <1>2, SerialGone
<1>3. CASE /\ ~IsFrozen(p)
           /\ frozen' = frozen \union {[captures |-> Fixed(p), at |-> m.frozenAt,
                                        decisions |-> Decisions(p)]}
           /\ Goes(p, "bundling")
  <2> DEFINE new == [captures |-> Fixed(p), at |-> m.frozenAt, decisions |-> Decisions(p)]
  <2>1. new.captures = Fixed(p) /\ Fixed(p) = <<m.forebet, m.statarea>>
    BY DEF Fixed
  <2>2. frozen' = frozen \union {new}
    BY <1>3
  <2> HIDE DEF new
  <2>3. /\ m.forebet \in FirstPages(attempts["FOREBET"])
        /\ snapshots["STATAREA"] # <<>> /\ m.statarea = snapshots["STATAREA"][1]
    BY <1>1 DEF SerialMemory, HasForebet, FixedPcs
  <2>4. SerialRun(new, attempts, snapshots)
    BY <2>1, <2>3 DEF SerialRun
  <2>5. ASSUME NEW run \in frozen
        PROVE  FALSE
    <3>1. PICK page \in FirstPages(attempts["FOREBET"]) :
            run.captures = <<page, snapshots["STATAREA"][1]>>
      BY DEF Serially, SerialRun
    <3>2. page = m.forebet
      BY <2>3, FirstIsOne DEF Serial, Serially
    <3>3. run.captures = Fixed(p)
      BY <2>1, <2>3, <3>1, <3>2
    <3>4. QED
      BY <1>3, <3>3 DEF IsFrozen
  <2>6. frozen' = {new}
    BY <2>2, <2>5
  <2>7. Same(p) /\ process'[p].pc = "bundling"
    BY <1>1, <1>3, GoesFacts
  <2>8. SerialMemory(process'[p], attempts', snapshots')
    BY <2>7, IdleMemory DEF CapturePcs, FixedPcs
  <2>9. /\ OneAtATime(attempts')
        /\ \A run \in frozen' : SerialRun(run, attempts', snapshots')
        /\ \A run, next \in frozen' : run = next
    BY <1>1, <2>4, <2>6 DEF Serially
  <2>10. QED
    BY <1>1, <2>7, <2>8, <2>9, SerialSame
<1>4. QED
  BY <1>2, <1>3 DEF Freeze

LEMMA SerialCapturing ==
  ASSUME Serial, Serially, NEW p \in Capturers, Capturing(p)
  PROVE  Serially'
<1>1. CASE Look(p)
  <2>1. \E pc \in {"creating", "attempting"} : Goes(p, pc)
    BY <1>1 DEF Look
  <2>2. process[p].pc = "looking" /\ UNCHANGED <<attempts, snapshots, frozen>>
    BY <1>1 DEF Look, At, captured
  <2>3. QED
    BY <2>1, <2>2, SerialGoes
<1>2. CASE Match(p) \/ CreateMatch(p)
  <2>1. /\ process[p].pc \in FixedPcs /\ process[p].pc # "off"
        /\ UNCHANGED <<attempts, snapshots, frozen>>
    BY <1>2 DEF Match, CreateMatch, At, FixedPcs, captured
  <2>2. Gone(p) \/ \E pc \in {"pairing", "finding"} : Goes(p, pc)
    BY <1>2 DEF Match, CreateMatch
  <2>3. QED
    BY <2>1, <2>2, SerialGoes, SerialGone
<1>3. QED
  BY <1>1, <1>2, SerialFetch, SerialCreate, SerialAttempt, SerialFixForebet,
     SerialFixStatarea, SerialFind, SerialFreeze DEF Capturing

(* A process begins when no other that captures is at work, unless it is   *)
(* remembered.                                                             *)
LEMMA SerialBegin ==
  ASSUME Serial, Serially, ~overlapped', NEW p \in Processes,
         \/ p \in Shadows /\ BeginShadow(p)
         \/ p \in Captures /\ BeginCapture(p)
         \/ p \in Assessors /\ BeginAssessment(p)
  PROVE  Serially'
<1>1. /\ Same(p) /\ UNCHANGED <<attempts, snapshots, frozen>>
      /\ \/ process'[p].pc \in {"forebet", "exporting"}
         \/ process'[p].pc = "fetching" /\ process'[p].source = "FOREBET"
  BY BeginFacts DEF Serial, Dated
<1>2. SerialMemory(process'[p], attempts, snapshots)
  BY <1>1 DEF SerialMemory, HasForebet, CapturePcs, FixedPcs
<1>3. \A q \in Processes : SerialMemory(process'[q], attempts', snapshots')
  BY <1>1, <1>2 DEF Serially, Same
<1>4. Alone'
  <2>1. CASE p \in Assessors
    <3>1. p \notin Capturers
      BY <2>1, ShadowAssumption DEF Capturers
    <3>2. QED
      BY <1>1, <3>1 DEF Same, Serially, Alone, Capturers, Processes
  <2>2. CASE p \notin Assessors
    <3>1. ~SomeCapture
      BY <2>2, BeginOverlaps, Zenon
    <3>2. \A q \in Capturers : process[q].pc = "off"
      BY <3>1 DEF SomeCapture, At, Capturers
    <3>3. QED
      BY <1>1, <3>2 DEF Same, Alone, Capturers, Processes
  <2>3. QED
    BY <2>1, <2>2
<1>5. QED
  BY <1>1, <1>3, <1>4 DEF Serially, OneAtATime

(* Capturing processes keep their role, and what writes or dies has no     *)
(* capture in memory any more.                                             *)
LEMMA SerialElse ==
  ASSUME Serial, Serially, NEW p \in Processes, Writing(p) \/ Crash(p)
  PROVE  Serially'
<1>1. /\ Same(p) /\ UNCHANGED <<attempts, snapshots, frozen>> /\ process[p].pc # "off"
      /\ process'[p].pc \in WritingPcs \union RulingPcs \union {"off"}
  BY WritingFacts, CrashFacts
     DEF Serial, Dated, captured, Crash, At, WritingPcs, RulingPcs
<1>2. SerialMemory(process'[p], attempts, snapshots)
  BY <1>1, IdleMemory DEF CapturePcs, FixedPcs, WritingPcs, RulingPcs
<1>3. \A q \in Processes : SerialMemory(process'[q], attempts', snapshots')
  BY <1>1, <1>2 DEF Serially, Same
<1>4. Alone'
  BY <1>1 DEF Same, Serially, Alone, Capturers, Processes
<1>5. QED
  BY <1>1, <1>3, <1>4 DEF Serially, OneAtATime

LEMMA CapturesAreKept ==
  ASSUME Serial, [Next]_vars
  PROVE  Kept'
<1>1. CASE snapshots' = snapshots
  BY <1>1 DEF Serial, Kept
<1>2. ASSUME NEW source, NEW page,
             snapshots' = [snapshots EXCEPT ![source] = Append(@, page)]
      PROVE  Kept'
  BY <1>2, AppendFacts DEF Serial, Kept
<1>3. ASSUME NEW p \in Processes, Capturing(p)
      PROVE  Kept'
  <2>1. CASE Create(p)
    BY <1>1, <1>2, <2>1 DEF Create
  <2>2. CASE ~Create(p)
    BY <1>1, <1>3, <2>2
       DEF Capturing, captured, Fetch, Look, Attempt, FixForebet, FixStatarea, Match,
           CreateMatch, Find, Decide, Freeze
  <2>3. QED
    BY <2>1, <2>2
<1>4. ASSUME NEW p \in Processes, Writing(p) \/ Crash(p)
      PROVE  snapshots' = snapshots
  BY <1>4, WritingFacts, CrashFacts DEF Serial, Dated, captured
<1>5. ASSUME NEW p \in Processes, BeginShadow(p) \/ BeginCapture(p) \/ BeginAssessment(p)
      PROVE  snapshots' = snapshots
  BY <1>5, BeginFacts DEF Serial, Dated
<1>6. World \/ UNCHANGED vars => snapshots' = snapshots
  BY WorldFacts DEF Serial, Dated, captured, vars
<1>7. QED
  BY <1>1, <1>3, <1>4, <1>5, <1>6, NextCases

LEMMA SerialInit == Init => Serial
<1> SUFFICES ASSUME Init PROVE Serial
  OBVIOUS
<1>1. Dated /\ Filed
  BY DatedInit, FiledInit
<1>2. Kept
  <2>1. <<>> \in Seq({}) /\ \A page \in Pages["FOREBET"] : <<page>> \in Seq(Pages["FOREBET"])
    OBVIOUS
  <2>2. IsSequence(<<>>) /\ \A page \in Pages["FOREBET"] : IsSequence(<<page>>)
    BY <2>1 DEF IsSequence
  <2>3. QED
    BY <2>2 DEF Init, Kept, Sources
<1>3. OneAtATime(attempts)
  BY DEF Init, OneAtATime, Sources
<1>4. \A p \in Processes : process[p].pc = "off"
  BY DEF Init, Off
<1>5. \A p \in Processes : SerialMemory(process[p], attempts, snapshots)
  BY <1>4, IdleMemory DEF CapturePcs, FixedPcs
<1>6. Alone
  BY <1>4 DEF Alone, Capturers, Processes
<1>7. QED
  BY <1>1, <1>2, <1>3, <1>5, <1>6 DEF Init, Serial, Serially

(* Whether the past is forgotten: it is not.                               *)
LEMMA OverlapStays ==
  ASSUME Typed, [Next]_vars, ~overlapped'
  PROVE  ~overlapped
<1>1. ASSUME NEW p \in Processes, Capturing(p) \/ Writing(p) \/ Crash(p)
      PROVE  overlapped' = overlapped
  BY <1>1, CapturingFacts, WritingFacts, CrashFacts
<1>2. ASSUME NEW p \in Processes, BeginShadow(p) \/ BeginCapture(p) \/ BeginAssessment(p)
      PROVE  ~overlapped
  BY <1>2, BeginOverlaps, Zenon
<1>3. World \/ UNCHANGED vars => overlapped' = overlapped
  BY WorldFacts DEF vars, history
<1>4. QED
  BY <1>1, <1>2, <1>3, NextCases, Zenon

LEMMA SerialStep ==
  ASSUME Serial, [Next]_vars
  PROVE  Serial'
<1>1. Dated' /\ Filed' /\ Kept'
  BY DatedStep, FiledStep, CapturesAreKept DEF Serial
<1>2. ASSUME ~overlapped'
      PROVE  Serially'
  <2>1. Serially
    BY <1>2, OverlapStays, Zenon DEF Serial, Dated
  <2>2. ASSUME NEW p \in Processes, Capturing(p)
        PROVE  Serially'
    <3>1. p \notin Assessors
      BY <2>2, CapturingFacts
         DEF Serial, Dated, Filed, FiledMemory, ShadowPcs, CapturePcs, FixedPcs, WritingPcs,
             RulingPcs
    <3>2. QED
      BY <2>1, <2>2, <3>1, SerialCapturing DEF Capturers, Processes
  <2>3. CASE World \/ UNCHANGED vars
    <3>1. UNCHANGED <<attempts, snapshots, frozen, process>>
      BY <2>3, WorldFacts DEF Serial, Dated, captured, vars
    <3>2. QED
      BY <2>1, <3>1 DEF Serially, Alone, OneAtATime
  <2>4. QED
    BY <1>2, <2>1, <2>2, <2>3, SerialBegin, SerialElse, NextCases
<1>3. QED
  BY <1>1, <1>2, Zenon DEF Serial

(* SerialRunsFreezeOnce: commands that capture one after the other freeze  *)
(* one run at most, whatever is captured later, fails or dies.             *)
THEOREM SerialFreezesOnce == Spec => []SerialRunsFreezeOnce
<1>1. ASSUME Serially
      PROVE  Cardinality(frozen) <= 1
  <2>1. CASE frozen = {}
    BY <2>1, FS_EmptySet
  <2>2. ASSUME NEW run \in frozen
        PROVE  Cardinality(frozen) <= 1
    <3>1. frozen = {run}
      BY <1>1 DEF Serially
    <3>2. Cardinality({run}) = 1
      BY FS_Singleton, Zenon
    <3>3. QED
      BY <3>1, <3>2
  <2>3. QED
    BY <2>1, <2>2
<1>2. Serial => SerialRunsFreezeOnce
  BY <1>1, Zenon DEF Serial, SerialRunsFreezeOnce
<1>3. QED
  BY <1>2, SerialInit, SerialStep, PTL DEF Spec
-----------------------------------------------------------------------------
(* The policy.                                                             *)

(* The values of a fixture and of a metric, as the parsers leave them.     *)
Measure == Int \union {None}
Fixture == [lines : [Lines -> Measure], over : Measure, side : Sides,
            forebet : Measure, goals : Measure, average : Measure,
            stage : {"EXACT", "CONSERVATIVE", "OTHER"},
            sound : BOOLEAN, dcReady : BOOLEAN, ouReady : BOOLEAN]
Metric  == [n : Int, hit : Measure, wilson : Measure,
            stability : {"STABLE_OR_IMPROVED", "MODERATE_DROP", "SEVERE_DROP", None},
            country : Measure, competition : Measure]

Sound(f, metrics) ==
  f \in Fixture /\ \A key \in DOMAIN metrics : metrics[key] \in Metric

-----------------------------------------------------------------------------
(* Comparison.                                                             *)

(* What compareCandidates looks at are numbers.                            *)
Comparable(S) == \A c \in S : \A i \in 1..6 : Rank(c)[i] \in Int

LEMMA BeatsOneWay ==
  ASSUME NEW c, NEW d, Comparable({c, d}), Beats(c, d)
  PROVE  ~Beats(d, c)
<1>1. PICK i \in 1..6 : /\ Rank(c)[i] > Rank(d)[i]
                        /\ \A j \in 1..(i - 1) : Rank(c)[j] = Rank(d)[j]
  BY DEF Beats
<1>2. ASSUME NEW k \in 1..6, Rank(d)[k] > Rank(c)[k],
             \A j \in 1..(k - 1) : Rank(d)[j] = Rank(c)[j]
      PROVE  FALSE
  <2>1. CASE k = i
    BY <1>1, <1>2, <2>1 DEF Comparable
  <2>2. CASE k < i
    <3>1. k \in 1..(i - 1)  BY <2>2
    <3>2. Rank(c)[k] = Rank(d)[k]  BY <1>1, <3>1
    <3>. QED  BY <1>2, <3>2 DEF Comparable
  <2>3. CASE i < k
    <3>1. i \in 1..(k - 1)  BY <2>3
    <3>2. Rank(d)[i] = Rank(c)[i]  BY <1>2, <3>1
    <3>. QED  BY <1>1, <3>2 DEF Comparable
  <2>. QED  BY <2>1, <2>2, <2>3
<1>. QED  BY <1>2 DEF Beats

(* selectStrictWinner names one candidate at most, in whatever order they  *)
(* are given: a tie has no winner.                                         *)
THEOREM OneWinner ==
  ASSUME NEW S, Comparable(S), NEW c \in StrictWinners(S), NEW d \in StrictWinners(S)
  PROVE  c = d
<1>1. SUFFICES ASSUME c # d PROVE FALSE
  OBVIOUS
<1>2. c \in Eligible(S) /\ d \in Eligible(S) /\ Beats(c, d) /\ Beats(d, c)
  BY <1>1 DEF StrictWinners
<1>3. Comparable({c, d})
  BY <1>2 DEF Comparable, Eligible
<1>. QED  BY <1>2, <1>3, BeatsOneWay

-----------------------------------------------------------------------------
(* Scores.                                                                 *)

LEMMA LargestOfTwo ==
  ASSUME NEW x \in Int, NEW y \in Int
  PROVE  Max({x, y}) \in Int
<1>1. \E m \in {x, y} : \A z \in {x, y} : m >= z
  BY x >= y \/ y >= x
<1>. QED  BY <1>1 DEF Max

LEMMA LowerIsInt ==
  ASSUME NEW x \in Int, NEW y \in Int
  PROVE  Lower(x, y) \in Int
BY DEF Lower

LEMMA DoubleChanceSignalIsInt ==
  ASSUME NEW p \in Int, NEW q \in Int, NEW r \in Int
  PROVE  DoubleChanceSignal(p, {q, r}) \in Int
<1>1. Max({q, r}) \in Int  BY LargestOfTwo
<1>. QED  BY <1>1 DEF DoubleChanceSignal, Clamp

LEMMA Ou25SignalIsInt ==
  ASSUME NEW p \in Int, NEW q \in Int
  PROVE  Ou25Signal(p, q) \in Int
BY DEF Ou25Signal, Clamp, Lower

LEMMA EvidenceIsInt ==
  ASSUME None \notin Int, NEW m \in Metric \union {NoMetric}
  PROVE  HistoricalEvidence(m) \in Int
<1> DEFINE raw == 12 * OrZero(m.hit) + 12 * OrZero(m.wilson)
                    + SampleScore(m.n) + StabilityScore(m.stability)
           few    == SampleCeiling(m.n)
           fallen == StabilityCeiling(m.stability)
           once   == Lower(raw, few)
<1>1. m.n \in Int /\ OrZero(m.hit) \in Int /\ OrZero(m.wilson) \in Int
  BY DEF Metric, NoMetric, OrZero, Measure
<1>2. SampleScore(m.n) \in Int /\ few \in Int
  BY <1>1 DEF SampleScore, SampleCeiling
<1>3. StabilityScore(m.stability) \in Int /\ fallen \in Int
  BY DEF StabilityScore, StabilityCeiling
<1>4. raw \in Int
  BY <1>1, <1>2, <1>3
<1>5. HistoricalEvidence(m) = Lower(once, fallen)
  BY DEF HistoricalEvidence
<1> HIDE DEF raw, few, fallen
<1>6. once \in Int
  BY <1>2, <1>4, LowerIsInt
<1> HIDE DEF once
<1>. QED  BY <1>3, <1>5, <1>6, LowerIsInt

(* What a score says of the evidence it was given for.                     *)
Earned(score, quality, m) ==
  /\ score \in Int /\ score <= 10000
  /\ score >= 6500 => ~Weak(quality, m)
  /\ score >= 7500 => m.stability # "MODERATE_DROP"

LEMMA ScoreIsEarned ==
  ASSUME NEW signal \in Int, NEW evidence \in Int, NEW quality \in Int,
         NEW m, NEW family, NEW lift
  PROVE  Earned(PriorityScore(signal, evidence, quality, m, family, lift), quality, m)
<1> DEFINE sum     == signal + evidence + quality
           ceiling == PriorityCeiling(quality, m, family, lift)
           score   == PriorityScore(signal, evidence, quality, m, family, lift)
<1>1. /\ ceiling \in Int /\ ceiling <= 10000
      /\ ceiling >= 6500 => ~Weak(quality, m)
      /\ ceiling >= 7500 => m.stability # "MODERATE_DROP"
  BY DEF PriorityCeiling
<1>2. sum \in Int
  OBVIOUS
<1>3. score = Lower(sum, ceiling)
  BY DEF PriorityScore
<1> HIDE DEF sum, ceiling, score
<1>4. score \in Int /\ score <= ceiling
  BY <1>1, <1>2, <1>3 DEF Lower
<1>5. Earned(score, quality, m)
  BY <1>1, <1>4 DEF Earned
<1>. QED  BY <1>5 DEF score

-----------------------------------------------------------------------------
(* Candidates.                                                             *)

(* What the score of a candidate says of the candidate.                    *)
Supported(c) ==
  /\ c.signal \in Int /\ c.evidence \in Int /\ c.quality \in Int
  /\ c.metric \in Metric \union {NoMetric}
  /\ Earned(c.score, c.quality, c.metric)
  /\ Concentrated(c.metric) => c.warned

LEMMA CandidateSupported ==
  ASSUME None \notin Int, NEW f, NEW metrics, Sound(f, metrics),
         NEW family, NEW market, NEW key, NEW signal, signal \in Int,
         NEW complete, NEW ready, NEW warned, NEW lift
  PROVE  Supported(Candidate(f, metrics, family, market, key, signal,
                             complete, ready, warned, lift))
<1> DEFINE m        == MetricOf(metrics, key)
           quality  == DataQuality(f.stage, complete, ready, f.sound)
           evidence == HistoricalEvidence(m)
           score    == PriorityScore(signal, evidence, quality, m, family, lift)
           c == Candidate(f, metrics, family, market, key, signal,
                          complete, ready, warned, lift)
<1>1. m \in Metric \union {NoMetric}
  BY DEF MetricOf, Sound
<1>2. evidence \in Int
  <2> HIDE DEF m
  <2>. QED  BY <1>1, EvidenceIsInt
<1>3. quality \in Int
  BY DEF DataQuality
<1>4. /\ c.signal = signal /\ c.evidence = evidence /\ c.quality = quality
      /\ c.score = score /\ c.metric = m /\ c.warned = (warned \/ Concentrated(m))
  BY DEF Candidate
<1> HIDE DEF c, m, quality, evidence
<1>5. Earned(score, quality, m)
  BY <1>2, <1>3, ScoreIsEarned, Zenon
<1> HIDE DEF score
<1>6. Supported(c)
  BY <1>1, <1>2, <1>3, <1>4, <1>5 DEF Supported
<1>. QED  BY <1>6 DEF c

LEMMA Families ==
  ASSUME NEW f, NEW metrics
  PROVE  /\ \A c \in DoubleChanceCandidates(f, metrics) : c.family = "DOUBLE_CHANCE"
         /\ \A c \in Ou25Candidates(f, metrics) : c.family = "OU25"
         /\ \A c \in CombinationCandidates(f, metrics) : c.family = "SAME_MATCH_COMBINATION"
<1>1. ASSUME NEW line
      PROVE  DoubleChanceCandidate(f, metrics, line).family = "DOUBLE_CHANCE"
  BY DEF DoubleChanceCandidate, Candidate
<1>2. ASSUME NEW dc, NEW ou
      PROVE  Combination(f, metrics, dc, ou).family = "SAME_MATCH_COMBINATION"
  BY DEF Combination, Candidate
<1>3. ASSUME NEW c \in Ou25Candidates(f, metrics)
      PROVE  c.family = "OU25"
  <2>1. c = Candidate(f, metrics, "OU25", <<f.side>>, <<"OU25_CONSENSUS_SIMPLE", f.side>>,
                      Ou25Signal(f.forebet, StatareaPercent(f.over)), TRUE, f.ouReady,
                      Confluent(f), ValidationLift(metrics, f.side))
    BY DEF Ou25Candidates
  <2>. QED  BY <2>1 DEF Candidate
<1>4. ASSUME NEW c \in CombinationCandidates(f, metrics)
      PROVE  c.family = "SAME_MATCH_COMBINATION"
  BY <1>2 DEF CombinationCandidates
<1>. QED  BY <1>1, <1>3, <1>4 DEF DoubleChanceCandidates

LEMMA DoubleChanceSupported ==
  ASSUME None \notin Int, NEW f, NEW metrics, Sound(f, metrics),
         NEW c \in DoubleChanceCandidates(f, metrics)
  PROVE  Supported(c)
<1>1. PICK line \in Lines : c = DoubleChanceCandidate(f, metrics, line)
  BY DEF DoubleChanceCandidates
<1> DEFINE complete == \A l \in Lines : f.lines[l] # None
           signal   == IF complete
                       THEN DoubleChanceSignal(f.lines[line],
                                               {f.lines[l] : l \in Lines \ {line}})
                       ELSE 0
<1>2. signal \in Int
  <2>1. CASE ~complete
    BY <2>1
  <2>2. CASE complete
    <3>1. PICK q \in Lines, r \in Lines : Lines \ {line} = {q, r}
      <4>1. CASE line = "1X"  BY <4>1, Lines \ {line} = {"X2", "12"} DEF Lines
      <4>2. CASE line = "X2"  BY <4>2, Lines \ {line} = {"1X", "12"} DEF Lines
      <4>3. CASE line = "12"  BY <4>3, Lines \ {line} = {"1X", "X2"} DEF Lines
      <4>. QED  BY <4>1, <4>2, <4>3 DEF Lines
    <3>2. f.lines[line] \in Int /\ f.lines[q] \in Int /\ f.lines[r] \in Int
      BY <2>2 DEF Sound, Fixture, Measure
    <3>3. {f.lines[l] : l \in Lines \ {line}} = {f.lines[q], f.lines[r]}
      BY <3>1
    <3>4. signal = DoubleChanceSignal(f.lines[line], {f.lines[q], f.lines[r]})
      BY <2>2, <3>3
    <3>5. DoubleChanceSignal(f.lines[line], {f.lines[q], f.lines[r]}) \in Int
      BY <3>2, DoubleChanceSignalIsInt, Zenon
    <3>. QED  BY <3>4, <3>5
  <2>. QED  BY <2>1, <2>2
<1>3. c = Candidate(f, metrics, "DOUBLE_CHANCE", <<line>>, <<"DOUBLE_CHANCE", line>>,
                    signal, complete, f.dcReady, FALSE, None)
  BY <1>1 DEF DoubleChanceCandidate
<1> HIDE DEF complete, signal
<1>. QED  BY <1>2, <1>3, CandidateSupported, Zenon

LEMMA Ou25Supported ==
  ASSUME None \notin Int, NEW f, NEW metrics, Sound(f, metrics),
         None \notin Sides, NEW c \in Ou25Candidates(f, metrics)
  PROVE  Supported(c)
<1> DEFINE signal == Ou25Signal(f.forebet, StatareaPercent(f.over))
<1>1. f.forebet # None /\ f.side = StatareaSide(f.over)
  BY DEF Ou25Candidates
<1>2. c = Candidate(f, metrics, "OU25", <<f.side>>, <<"OU25_CONSENSUS_SIMPLE", f.side>>,
                    signal, TRUE, f.ouReady, Confluent(f), ValidationLift(metrics, f.side))
  BY <1>1 DEF Ou25Candidates
<1>3. signal \in Int
  <2>1. f.forebet \in Int  BY <1>1 DEF Sound, Fixture, Measure
  <2>2. f.over \in Int
    BY <1>1 DEF Sound, Fixture, Measure, StatareaSide
  <2>3. StatareaPercent(f.over) \in Int  BY <2>2 DEF StatareaPercent
  <2>. QED  BY <2>1, <2>3, Ou25SignalIsInt, Zenon
<1> HIDE DEF signal
<1>. QED  BY <1>2, <1>3, CandidateSupported, Zenon

LEMMA EligibleSupported ==
  ASSUME None \notin Int, None \notin Sides, NEW f, NEW metrics, Sound(f, metrics),
         NEW c \in AllCandidates(f, metrics)
  PROVE  Supported(c)
<1>1. CASE c \in DoubleChanceCandidates(f, metrics)
  BY <1>1, DoubleChanceSupported
<1>2. CASE c \in Ou25Candidates(f, metrics)
  BY <1>2, Ou25Supported
<1>3. CASE c \in CombinationCandidates(f, metrics)
  <2>1. PICK dc \in StrictWinners(DoubleChanceCandidates(f, metrics)),
             ou \in Eligible(Ou25Candidates(f, metrics)) :
          c = Combination(f, metrics, dc, ou)
    BY <1>3 DEF CombinationCandidates
  <2>2. Supported(dc) /\ Supported(ou)
    BY DoubleChanceSupported, Ou25Supported DEF StrictWinners, Eligible
  <2>3. Lower(dc.signal, ou.signal) \in Int
    BY <2>2 DEF Supported, Lower
  <2>. QED  BY <2>1, <2>3, CandidateSupported, Zenon DEF Combination
<1>. QED  BY <1>1, <1>2, <1>3 DEF AllCandidates

LEMMA OptionSupported ==
  ASSUME None \notin Int, None \notin Sides, NEW f, NEW metrics, Sound(f, metrics),
         NEW c \in Options(f, metrics)
  PROVE  c \in AllCandidates(f, metrics) /\ ~c.blocked /\ Supported(c)
<1>1. c \in AllCandidates(f, metrics) /\ ~c.blocked
  BY DEF Options, AllCandidates, StrictWinners, Eligible
<1>. QED  BY <1>1, EligibleSupported

LEMMA SupportedComparable ==
  ASSUME None \notin Int, NEW S, \A c \in S : Supported(c)
  PROVE  Comparable(S)
<1> SUFFICES ASSUME NEW c \in S, NEW i \in 1..6
             PROVE  Rank(c)[i] \in Int
  BY DEF Comparable
<1>1. Supported(c)
  OBVIOUS
<1>2. c.metric.n \in Int /\ c.metric.wilson \in Int \union {None}
  BY <1>1 DEF Supported, Metric, NoMetric, Measure
<1>3. c.score \in Int
  BY <1>1 DEF Supported, Earned
<1>4. (IF c.metric.wilson = None THEN -1 ELSE c.metric.wilson) \in Int
  BY <1>2
<1>5. c.evidence \in Int /\ c.quality \in Int /\ c.signal \in Int
  BY <1>1 DEF Supported
<1> DEFINE w == IF c.metric.wilson = None THEN -1 ELSE c.metric.wilson
<1>6. Rank(c) = <<c.score, c.evidence, c.quality, c.signal, w, c.metric.n>>
  BY DEF Rank
<1>7. w \in Int  BY <1>4
<1> HIDE DEF w
<1>8. i = 1 \/ i = 2 \/ i = 3 \/ i = 4 \/ i = 5 \/ i = 6
  OBVIOUS
<1>. QED  BY <1>2, <1>3, <1>5, <1>6, <1>7, <1>8

-----------------------------------------------------------------------------
(* The decision.                                                           *)

(* The lines a decision is made among are of different families, so that   *)
(* what is asked to be quoted is one line of each at most.                 *)
THEOREM OneLinePerFamily ==
  ASSUME None \notin Int, None \notin Sides, NEW f, NEW metrics, Sound(f, metrics),
         NEW c \in Options(f, metrics), NEW d \in Options(f, metrics), c.family = d.family
  PROVE  c = d
<1> DEFINE DC == StrictWinners(DoubleChanceCandidates(f, metrics))
           OU == Eligible(Ou25Candidates(f, metrics))
           CO == Eligible(CombinationCandidates(f, metrics))
<1>1. c \in DC \union OU \union CO /\ d \in DC \union OU \union CO
  BY DEF Options, Eligible
<1>2. \A x \in DC : x.family = "DOUBLE_CHANCE"
  BY Families DEF StrictWinners, Eligible
<1>3. \A x \in OU : x.family = "OU25"
  BY Families DEF Eligible
<1>4. \A x \in CO : x.family = "SAME_MATCH_COMBINATION"
  BY Families DEF Eligible
<1>5. \A x, y \in DC : x = y
  <2>1. Comparable(DoubleChanceCandidates(f, metrics))
    BY DoubleChanceSupported, SupportedComparable
  <2>. QED  BY <2>1, OneWinner
<1>6. \A x, y \in OU : x = y
  BY DEF Eligible, Ou25Candidates
<1>7. \A x, y \in CO : x = y
  <2>1. SUFFICES ASSUME NEW x \in CombinationCandidates(f, metrics),
                        NEW y \in CombinationCandidates(f, metrics)
                 PROVE  x = y
    BY DEF Eligible
  <2>. QED  BY <1>5, <1>6 DEF CombinationCandidates
<1> HIDE DEF DC, OU, CO
<1>8. CASE c.family = "DOUBLE_CHANCE"
  BY <1>1, <1>2, <1>3, <1>4, <1>5, <1>8
<1>9. CASE c.family = "OU25"
  BY <1>1, <1>2, <1>3, <1>4, <1>6, <1>9
<1>10. CASE c.family = "SAME_MATCH_COMBINATION"
  BY <1>1, <1>2, <1>3, <1>4, <1>7, <1>10
<1>. QED  BY <1>1, <1>2, <1>3, <1>4, <1>8, <1>9, <1>10

(* The largest of at most two numbers is one of them.                      *)
LEMMA LargestOfFew ==
  ASSUME NEW S, S # {}, \A z \in S : z \in Int, NEW x, NEW y, S \subseteq {x, y}
  PROVE  Max(S) \in S /\ \A z \in S : Max(S) >= z
<1>1. \E m \in S : \A z \in S : m >= z
  <2>1. CASE x \in S /\ y \in S
    <3>1. x >= y \/ y >= x  BY <2>1
    <3>. QED  BY <2>1, <3>1
  <2>2. CASE ~(x \in S /\ y \in S)
    <3>1. PICK m \in S : TRUE  OBVIOUS
    <3>2. \A z \in S : z = m  BY <2>2
    <3>. QED  BY <3>1, <3>2
  <2>. QED  BY <2>1, <2>2
<1>. QED  BY <1>1 DEF Max

(* What Decision says when it selects a line.                              *)
LEMMA SelectedLine ==
  ASSUME NEW f, NEW metrics, Decision(f, metrics).status # "NONE"
  PROVE  LET options == Options(f, metrics)
             best    == Decision(f, metrics).selected
         IN  /\ best \in StrictWinners(options)
             /\ Decision(f, metrics).status = StatusOf(options, best)
             /\ ~(best.score < 6500)
<1> DEFINE options == Options(f, metrics)
           chosen  == {c \in StrictWinners(options) : StatusOf(options, c) # "NONE"}
           best    == CHOOSE c \in chosen : TRUE
<1>1. chosen # {} /\ Decision(f, metrics) = [status |-> StatusOf(options, best), selected |-> best]
  BY DEF Decision
<1>2. best \in chosen
  BY <1>1
<1>3. best \in StrictWinners(options) /\ StatusOf(options, best) # "NONE"
  BY <1>2
<1>4. Decision(f, metrics).selected = best /\ Decision(f, metrics).status = StatusOf(options, best)
  BY <1>1
<1>. QED  BY <1>3, <1>4 DEF StatusOf

(* A line is selected only when nothing blocks it and its evidence is not  *)
(* weak: ten validations at least, no severe drop, and data of quality.    *)
THEOREM SelectedIsSupported ==
  ASSUME None \notin Int, None \notin Sides, NEW f, NEW metrics, Sound(f, metrics),
         Decision(f, metrics).status # "NONE"
  PROVE  LET best == Decision(f, metrics).selected
         IN  /\ best \in Options(f, metrics) /\ ~best.blocked
             /\ best.metric.n >= 10 /\ best.metric.stability # "SEVERE_DROP"
             /\ best.quality >= 1400
<1> DEFINE best == Decision(f, metrics).selected
<1>1. best \in StrictWinners(Options(f, metrics)) /\ ~(best.score < 6500)
  BY SelectedLine
<1>2. best \in Options(f, metrics)
  BY <1>1 DEF StrictWinners, Eligible
<1> HIDE DEF best
<1>3. ~best.blocked /\ Supported(best)
  BY <1>2, OptionSupported
<1>4. ~Weak(best.quality, best.metric)
  <2>1. best.score \in Int  BY <1>3 DEF Supported, Earned
  <2>2. best.score >= 6500  BY <1>1, <2>1
  <2>. QED  BY <1>3, <2>2 DEF Supported, Earned
<1>5. best.quality \in Int /\ best.metric.n \in Int
  BY <1>3 DEF Supported, Metric, NoMetric
<1>6. best.metric.n >= 10 /\ best.metric.stability # "SEVERE_DROP" /\ best.quality >= 1400
  BY <1>4, <1>5 DEF Weak
<1>. QED  BY <1>2, <1>3, <1>6 DEF best

(* A preferred line is stable, not concentrated in a country or a          *)
(* competition, and ahead of the line of every other family by five points.*)
THEOREM PreferredStandsOut ==
  ASSUME None \notin Int, None \notin Sides, NEW f, NEW metrics, Sound(f, metrics),
         Decision(f, metrics).status = "PREFERRED"
  PROVE  LET best == Decision(f, metrics).selected
         IN  /\ best.metric.stability \notin {"SEVERE_DROP", "MODERATE_DROP"}
             /\ ~Concentrated(best.metric)
             /\ \A c \in Options(f, metrics) \ {best} : best.score >= c.score + 500
<1> DEFINE options == Options(f, metrics)
           best    == Decision(f, metrics).selected
           rest    == options \ {best}
<1>1. best \in StrictWinners(options) /\ StatusOf(options, best) = "PREFERRED"
  BY SelectedLine
<1>2. best \in options
  BY <1>1 DEF StrictWinners, Eligible
<1>3. best.score >= 7500 /\ Margin(options, best) >= 500 /\ ~best.warned
  BY <1>1 DEF StatusOf
<1>4. \A c \in options : Supported(c)
  BY OptionSupported
<1>5. \A c, d \in options : c.family = d.family => c = d
  BY OneLinePerFamily
<1>6. \A c \in options : c.family \in {"DOUBLE_CHANCE", "OU25", "SAME_MATCH_COMBINATION"}
  BY Families DEF Options, StrictWinners, Eligible
<1>7. best.metric.stability # "SEVERE_DROP"
  BY <1>1, SelectedIsSupported
<1> HIDE DEF best, options
<1>8. Supported(best) /\ best.score \in Int
  BY <1>2, <1>4 DEF Supported, Earned
<1>9. best.metric.stability # "MODERATE_DROP" /\ ~Concentrated(best.metric)
  BY <1>3, <1>8 DEF Supported, Earned
<1>10. ASSUME NEW c \in rest
       PROVE  best.score >= c.score + 500
  <2> DEFINE scores == {d.score : d \in rest}
  <2>1. \A z \in scores : z \in Int
    BY <1>4 DEF Supported, Earned
  <2>2. \E p, q : rest \subseteq {p, q}
    <3>1. PICK g, h : {"DOUBLE_CHANCE", "OU25", "SAME_MATCH_COMBINATION"} = {best.family, g, h}
      <4>1. CASE best.family = "DOUBLE_CHANCE"
        BY <4>1, {best.family, "OU25", "SAME_MATCH_COMBINATION"}
                   = {"DOUBLE_CHANCE", "OU25", "SAME_MATCH_COMBINATION"}
      <4>2. CASE best.family = "OU25"
        BY <4>2, {best.family, "DOUBLE_CHANCE", "SAME_MATCH_COMBINATION"}
                   = {"DOUBLE_CHANCE", "OU25", "SAME_MATCH_COMBINATION"}
      <4>3. CASE best.family = "SAME_MATCH_COMBINATION"
        BY <4>3, {best.family, "DOUBLE_CHANCE", "OU25"}
                   = {"DOUBLE_CHANCE", "OU25", "SAME_MATCH_COMBINATION"}
      <4>. QED  BY <1>2, <1>6, <4>1, <4>2, <4>3
    <3>2. \A d \in rest : d.family = g \/ d.family = h
      BY <1>2, <1>5, <1>6, <3>1
    <3>3. \A d, e \in rest : d.family = e.family => d = e
      BY <1>5
    <3> DEFINE p == CHOOSE d \in rest : d.family = g
               q == CHOOSE d \in rest : d.family = h
    <3>4. \A d \in rest : d = p \/ d = q
      BY <3>2, <3>3
    <3>. QED  BY <3>4
  <2>3. PICK p, q : rest \subseteq {p, q}
    BY <2>2
  <2>4. scores \subseteq {p.score, q.score}
    BY <2>3
  <2>5. c.score \in scores
    OBVIOUS
  <2> HIDE DEF scores
  <2>6. Max(scores) \in scores /\ Max(scores) >= c.score
    BY <2>1, <2>4, <2>5, LargestOfFew
  <2>7. Max(scores) \in Int /\ c.score \in Int
    BY <2>1, <2>5, <2>6
  <2>8. Margin(options, best) = best.score - Max(scores)
    BY DEF Margin, scores
  <2>. QED  BY <1>3, <1>8, <2>6, <2>7, <2>8
<1>. QED  BY <1>7, <1>9, <1>10 DEF best, options

=============================================================================
