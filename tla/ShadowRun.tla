------------------------------- MODULE ShadowRun -------------------------------
(***************************************************************************)
(* runProspectiveShadow: fix one capture of each source for the sports     *)
(* date, pair their fixtures, freeze a decision for each pair before the   *)
(* day begins, and write the run to files that are written once.  Beside   *)
(* it, assessMarketPriority, which leaves the policy and the assessment    *)
(* the run refers to, and the command that captures Forebet by itself.     *)
(*                                                                         *)
(* A capture is named after its content, since its key is the hash of the  *)
(* body.  Attempts that failed and the audit rows are left out: no query   *)
(* of these commands reads them.                                           *)
(***************************************************************************)
EXTENDS MarketPriority, Sequences, SequencesExt

CONSTANTS
  Shadows,          \* processes that run the shadow command
  Captures,         \* processes that capture Forebet alone
  Assessors,        \* processes that assess the historical fixtures
  Pages,            \* what each source may answer
  Pairs,            \* the matched fixtures of two captures
  Metrics,          \* the metrics of each historical evaluation, in order
  SportsDay,        \* the instant the sports date begins in Asuncion
  MaxInstant,       \* bound: instants of the clock
  MaxBegins,        \* bound: invocations
  MaxTroubles       \* bound: requests, transactions and processes that fail

Sources   == {"FOREBET", "STATAREA"}
Processes == Shadows \union Captures \union Assessors

ASSUME ShadowAssumption ==
  /\ Shadows \intersect Captures = {}
  /\ Assessors \intersect (Shadows \union Captures) = {}
  /\ DOMAIN Pages = Sources
  /\ DOMAIN Pairs = Pages["FOREBET"] \X Pages["STATAREA"]
  /\ SportsDay \in Nat /\ MaxInstant \in Nat /\ MaxBegins \in Nat /\ MaxTroubles \in Nat

VARIABLES
  clock,        \* the time
  snapshots,    \* of each source, its captures in the order of creation
  attempts,     \* of each source, which capture was made when
  matched,      \* the pairs of captures that have a match run
  frozen,       \* rows of prospectiveShadowRun with their decisions
  evaluation,   \* how many historical evaluations are completed
  policy,       \* whether the row of the policy exists
  assessed,     \* the evaluations with a completed assessment, in order
  exports,      \* the files of the two directories, in the order written
  returned,     \* what invocations of the shadow command returned
  process,      \* the memory of each process
  overlapped,   \* whether two processes that capture were ever at work
  begins,       \* invocations so far
  troubles      \* failures so far

captured == <<snapshots, attempts>>
priority == <<evaluation, policy, assessed>>
history  == <<overlapped, begins>>
vars == <<clock, captured, matched, frozen, priority, exports, returned, process,
          history, troubles>>

-----------------------------------------------------------------------------
Off == [pc |-> "off", source |-> None, page |-> None, at |-> 0,
        forebet |-> None, statarea |-> None, frozenAt |-> 0, evaluation |-> 0,
        directory |-> None, bundle |-> <<>>, place |-> 0]

(* The files of an assessment: of the policy, and of what was assessed.    *)
AssessmentBundle(e) == << <<"policy">>, <<"assessment", e>> >>

Whole(bundle) == [i \in DOMAIN bundle |-> [body |-> bundle[i], whole |-> TRUE]]

Directories == {"prospective", "priority"}

(* Before anything, or with the historical fixtures assessed and Forebet   *)
(* captured by the command of its own.                                     *)
Init ==
  /\ clock = 0
  /\ matched = {} /\ frozen = {} /\ returned = {}
  /\ \/ /\ evaluation = 0 /\ policy = FALSE /\ assessed = <<>>
        /\ exports = [d \in Directories |-> <<>>]
        /\ snapshots = [source \in Sources |-> <<>>]
        /\ attempts = [source \in Sources |-> {}]
     \/ /\ evaluation = 1 /\ policy = TRUE /\ assessed = <<1>>
        /\ exports = [d \in Directories |->
                        IF d = "priority" THEN Whole(AssessmentBundle(1)) ELSE <<>>]
        /\ \E page \in Pages["FOREBET"] :
             /\ snapshots = [source \in Sources |->
                               IF source = "FOREBET" THEN <<page>> ELSE <<>>]
             /\ attempts = [source \in Sources |->
                              IF source = "FOREBET" THEN {[page |-> page, at |-> 0]} ELSE {}]
  /\ process = [p \in Processes |-> Off]
  /\ overlapped = FALSE /\ begins = 0 /\ troubles = 0

Trouble == /\ troubles < MaxTroubles
           /\ troubles' = troubles + 1
Smooth  == troubles' = troubles

(* The process dies, throws, or is done.                                   *)
Gone(p) == process' = [process EXCEPT ![p] = Off]

Goes(p, pc) == process' = [process EXCEPT ![p].pc = pc]

At(p, pc) == process[p].pc = pc

Begin(p, memory) ==
  /\ At(p, "off") /\ begins < MaxBegins
  /\ begins' = begins + 1
  /\ overlapped' = (overlapped \/ /\ p \notin Assessors
                                  /\ \E q \in Shadows \union Captures : ~At(q, "off"))
  /\ process' = [process EXCEPT ![p] = memory]
  /\ UNCHANGED <<clock, captured, matched, frozen, priority, exports, returned, troubles>>

BeginShadow(p)  == Begin(p, [Off EXCEPT !.pc = "forebet"])
BeginCapture(p) == Begin(p, [Off EXCEPT !.pc = "fetching", !.source = "FOREBET"])

-----------------------------------------------------------------------------
(* A capture.  Its row and the attempt that refers to it are two           *)
(* transactions; the row is looked for before it is created.               *)

(* The answer is dated when it has arrived, which takes some time.         *)
Fetch(p) ==
  /\ At(p, "fetching")
  /\ \/ /\ Smooth /\ clock < MaxInstant /\ clock' = clock + 1
        /\ \E page \in Pages[process[p].source] :
             process' = [process EXCEPT ![p].pc = "looking", ![p].page = page, ![p].at = clock']
     \/ Trouble /\ Gone(p) /\ clock' = clock
  /\ UNCHANGED <<captured, matched, frozen, priority, exports, returned, history>>

Known(p) == process[p].page \in ToSet(snapshots[process[p].source])

Look(p) ==
  /\ At(p, "looking")
  /\ Goes(p, IF Known(p) THEN "attempting" ELSE "creating")
  /\ UNCHANGED <<clock, captured, matched, frozen, priority, exports, returned,
                 history, troubles>>

Create(p) ==
  /\ At(p, "creating")
  /\ IF Known(p) THEN Gone(p) /\ snapshots' = snapshots
     ELSE /\ Goes(p, "attempting")
          /\ snapshots' = [snapshots EXCEPT ![process[p].source] = Append(@, process[p].page)]
  /\ UNCHANGED <<clock, attempts, matched, frozen, priority, exports, returned,
                 history, troubles>>

Attempt(p) ==
  /\ At(p, "attempting")
  /\ attempts' = [attempts EXCEPT ![process[p].source] =
                    @ \union {[page |-> process[p].page, at |-> process[p].at]}]
  /\ IF p \in Captures THEN Gone(p)
     ELSE Goes(p, IF process[p].source = "FOREBET" THEN "forebet" ELSE "statarea")
  /\ UNCHANGED <<clock, snapshots, matched, frozen, priority, exports, returned,
                 history, troubles>>

(* When a capture was first made, by its attempts.                         *)
AttemptsOf(source, page) == {a \in attempts[source] : a.page = page}
FirstAt(source, page) == Min({a.at : a \in AttemptsOf(source, page)})

(* Mutant of FixedForebet: the capture made last.                          *)
FixedForebetLast ==
  {a.page : a \in {b \in attempts["FOREBET"] : \A c \in attempts["FOREBET"] : c.at <= b.at}}

(* fixedForebet: the capture of the first attempt.                         *)
FixedForebet ==
  {a.page : a \in {b \in attempts["FOREBET"] : \A c \in attempts["FOREBET"] : b.at <= c.at}}

(* What is fixed is fixed; without a capture the source is asked.          *)
FixForebet(p) ==
  /\ At(p, "forebet")
  /\ IF FixedForebet = {}
     THEN process' = [process EXCEPT ![p].pc = "fetching", ![p].source = "FOREBET"]
     ELSE \E page \in FixedForebet :
            process' = [process EXCEPT ![p].pc = "statarea", ![p].forebet = page]
  /\ UNCHANGED <<clock, captured, matched, frozen, priority, exports, returned,
                 history, troubles>>

(* fixedLegacyStatarea: the capture created first, which must have an      *)
(* attempt; when its process died between the two it never has one.        *)
FixStatarea(p) ==
  LET known == snapshots["STATAREA"]
  IN  /\ At(p, "statarea")
      /\ \/ /\ known = <<>>
            /\ process' = [process EXCEPT ![p].pc = "fetching", ![p].source = "STATAREA"]
         \/ /\ known # <<>> /\ AttemptsOf("STATAREA", known[1]) # {}
            /\ process' = [process EXCEPT ![p].pc = "matching", ![p].statarea = known[1]]
         \/ /\ known # <<>> /\ AttemptsOf("STATAREA", known[1]) = {}
            /\ Gone(p)
      /\ UNCHANGED <<clock, captured, matched, frozen, priority, exports, returned,
                     history, troubles>>

-----------------------------------------------------------------------------
(* The pairing and the freeze, for the two captures that were fixed.       *)

Fixed(p) == <<process[p].forebet, process[p].statarea>>

(* The match run of two captures is looked for, and computed otherwise;    *)
(* without a single match there is none and the command fails.             *)
Match(p) ==
  /\ At(p, "matching")
  /\ IF Fixed(p) \in matched THEN Goes(p, "finding")
     ELSE IF Pairs[Fixed(p)] = {} THEN Gone(p) ELSE Goes(p, "pairing")
  /\ UNCHANGED <<clock, captured, matched, frozen, priority, exports, returned,
                 history, troubles>>

CreateMatch(p) ==
  /\ At(p, "pairing")
  /\ \/ Smooth /\ Fixed(p) \notin matched
        /\ matched' = matched \union {Fixed(p)} /\ Goes(p, "finding")
     \/ Smooth /\ Fixed(p) \in matched /\ Gone(p) /\ matched' = matched
     \/ Trouble /\ Gone(p) /\ matched' = matched
  /\ UNCHANGED <<clock, captured, frozen, priority, exports, returned, history>>

IsFrozen(p) == \E run \in frozen : run.captures = Fixed(p)

(* Mutant of InWindow: the day on which the command was begun counts.      *)
InWindowWhenCaptured(p) == process[p].at < SportsDay

(* assertFrozenBeforeSportsDate                                            *)
InWindow(p) == clock < SportsDay

(* A frozen run is used again at any time; a new one is dated now.         *)
Find(p) ==
  /\ At(p, "finding")
  /\ IF IsFrozen(p) THEN Goes(p, "bundling")
     ELSE IF ~InWindow(p) THEN Gone(p)
     ELSE process' = [process EXCEPT ![p].pc = "deciding", ![p].frozenAt = clock]
  /\ UNCHANGED <<clock, captured, matched, frozen, priority, exports, returned,
                 history, troubles>>

(* The references: the policy and the last evaluation must be there.       *)
Decide(p) ==
  /\ At(p, "deciding")
  /\ IF policy /\ evaluation > 0
     THEN process' = [process EXCEPT ![p].pc = "freezing", ![p].evaluation = evaluation]
     ELSE Gone(p)
  /\ UNCHANGED <<clock, captured, matched, frozen, priority, exports, returned,
                 history, troubles>>

(* What is frozen: a decision for every pair, and what is to be quoted.    *)
Decisions(p) ==
  LET metrics == Metrics[process[p].evaluation]
  IN  {[fixture |-> f, decision |-> Decision(f, metrics), quotes |-> Options(f, metrics)] :
         f \in Pairs[Fixed(p)]}

(* The transaction of the run.  A run without anything to quote fails.     *)
Freeze(p) ==
  /\ At(p, "freezing")
  /\ \/ /\ Smooth /\ ~IsFrozen(p) /\ \E d \in Decisions(p) : d.quotes # {}
        /\ frozen' = frozen \union {[captures |-> Fixed(p), at |-> process[p].frozenAt,
                                     decisions |-> Decisions(p)]}
        /\ Goes(p, "bundling")
     \/ /\ Smooth
        /\ IsFrozen(p) \/ \A d \in Decisions(p) : d.quotes = {}
        /\ Gone(p) /\ frozen' = frozen
     \/ Trouble /\ Gone(p) /\ frozen' = frozen
  /\ UNCHANGED <<clock, captured, matched, priority, exports, returned, history>>

-----------------------------------------------------------------------------
(* The exports.  Files are written in order, each created empty and then   *)
(* filled; one that is there must have the same content.                   *)

(* The fourteen files of a run, by what they depend on: the run, the first *)
(* attempts of its captures, and the last assessment.                      *)
RunBundle(captures) ==
  << <<"run", captures>>,
     <<"captures", FirstAt("FOREBET", captures[1]), FirstAt("STATAREA", captures[2])>>,
     <<"diagnostic", Last(assessed)>> >>

(* buildExportBundle fails when nothing has been assessed.                 *)
Bundle(p) ==
  /\ At(p, "bundling")
  /\ IF assessed = <<>> THEN Gone(p)
     ELSE process' = [process EXCEPT ![p].pc = "exporting", ![p].directory = "prospective",
                                     ![p].bundle = RunBundle(Fixed(p)), ![p].place = 1]
  /\ UNCHANGED <<clock, captured, matched, frozen, priority, exports, returned,
                 history, troubles>>

Files(p) == exports[process[p].directory]
File(p)  == Files(p)[process[p].place]
Body(p)  == process[p].bundle[process[p].place]

(* Mutant of Acceptable: a file that is there is not read.                 *)
AcceptableUnread(p) == TRUE

(* Whether a file that exists has what would have been written.            *)
Acceptable(p) == File(p) = [body |-> Body(p), whole |-> TRUE]

Write(p) ==
  /\ At(p, "exporting") /\ process[p].place <= Len(process[p].bundle)
  /\ IF process[p].place > Len(Files(p))
     THEN /\ exports' = [exports EXCEPT ![process[p].directory] =
                           Append(@, [body |-> Body(p), whole |-> FALSE])]
          /\ Goes(p, "filling")
     ELSE /\ exports' = exports
          /\ IF Acceptable(p)
             THEN process' = [process EXCEPT ![p].place = @ + 1]
             ELSE Gone(p)
  /\ UNCHANGED <<clock, captured, matched, frozen, priority, returned, history, troubles>>

Fill(p) ==
  /\ At(p, "filling")
  /\ exports' = [exports EXCEPT ![process[p].directory][process[p].place].whole = TRUE]
  /\ process' = [process EXCEPT ![p].pc = "exporting", ![p].place = @ + 1]
  /\ UNCHANGED <<clock, captured, matched, frozen, priority, returned, history, troubles>>

Exported(p) == At(p, "exporting") /\ process[p].place > Len(process[p].bundle)

(* The shadow command returns its documents.                               *)
Return(p) ==
  /\ p \in Shadows /\ Exported(p)
  /\ returned' = returned \union {process[p].bundle}
  /\ Gone(p)
  /\ UNCHANGED <<clock, captured, matched, frozen, priority, exports, history, troubles>>

-----------------------------------------------------------------------------
(* The assessment of the historical fixtures, of the last evaluation: its  *)
(* files first, then the row of the policy, then that of the assessment.   *)

(* Mutant of BeginAssessment: the rows come before the files.              *)
BeginAssessmentUnwritten(p) ==
  /\ evaluation > 0
  /\ Begin(p, [Off EXCEPT !.pc = "ruling", !.evaluation = evaluation])

BeginAssessment(p) ==
  /\ evaluation > 0
  /\ Begin(p, [Off EXCEPT !.pc = "exporting", !.directory = "priority", !.place = 1,
                          !.evaluation = evaluation,
                          !.bundle = AssessmentBundle(evaluation)])

EndWriting(p) ==
  /\ p \in Assessors /\ Exported(p)
  /\ Goes(p, "ruling")
  /\ UNCHANGED <<clock, captured, matched, frozen, priority, exports, returned,
                 history, troubles>>

(* The policy is looked for, and created outside of the transaction that   *)
(* follows.                                                                *)
Rule(p) ==
  /\ At(p, "ruling")
  /\ Goes(p, IF policy THEN "assessing" ELSE "enacting")
  /\ UNCHANGED <<clock, captured, matched, frozen, priority, exports, returned,
                 history, troubles>>

Enact(p) ==
  /\ At(p, "enacting")
  /\ \/ Smooth /\ ~policy /\ policy' = TRUE /\ Goes(p, "assessing")
     \/ Smooth /\ policy /\ policy' = policy /\ Gone(p)
     \/ Trouble /\ policy' = policy /\ Gone(p)
  /\ UNCHANGED <<clock, captured, matched, frozen, evaluation, assessed, exports,
                 returned, history>>

Assess(p) ==
  /\ At(p, "assessing")
  /\ Gone(p)
  /\ \/ /\ Smooth
        /\ assessed' = IF process[p].evaluation \in ToSet(assessed) THEN assessed
                       ELSE Append(assessed, process[p].evaluation)
     \/ Trouble /\ assessed' = assessed
  /\ UNCHANGED <<clock, captured, matched, frozen, evaluation, policy, exports,
                 returned, history>>

-----------------------------------------------------------------------------
Crash(p) ==
  /\ ~At(p, "off")
  /\ Trouble /\ Gone(p)
  /\ UNCHANGED <<clock, captured, matched, frozen, priority, exports, returned, history>>

Tick ==
  /\ clock < MaxInstant
  /\ clock' = clock + 1
  /\ UNCHANGED <<captured, matched, frozen, priority, exports, returned, process,
                 history, troubles>>

(* evaluate-historical-markets completes one more evaluation.              *)
Evaluate ==
  /\ evaluation < Len(Metrics)
  /\ evaluation' = evaluation + 1
  /\ UNCHANGED <<clock, captured, matched, frozen, policy, assessed, exports, returned,
                 process, history, troubles>>

Step(p) ==
  \/ Fetch(p) \/ Look(p) \/ Create(p) \/ Attempt(p)
  \/ FixForebet(p) \/ FixStatarea(p) \/ Match(p) \/ CreateMatch(p)
  \/ Find(p) \/ Decide(p) \/ Freeze(p)
  \/ Bundle(p) \/ Write(p) \/ Fill(p) \/ Return(p)
  \/ EndWriting(p) \/ Rule(p) \/ Enact(p) \/ Assess(p)

Next ==
  \/ \E p \in Processes : Step(p) \/ Crash(p)
  \/ \E p \in Shadows : BeginShadow(p)
  \/ \E p \in Captures : BeginCapture(p)
  \/ \E p \in Assessors : BeginAssessment(p)
  \/ Tick \/ Evaluate

Spec == Init /\ [][Next]_vars

-----------------------------------------------------------------------------
(* "Esta decision fue congelada antes del resultado": a frozen run is      *)
(* dated before its day, and what it rests on was captured by then, also   *)
(* when the captures were another process's, and whatever is captured or   *)
(* evaluated afterwards.                                                   *)
FrozenIsProspective ==
  \A run \in frozen :
    /\ run.at < SportsDay
    /\ \E a \in AttemptsOf("FOREBET", run.captures[1]) : a.at <= run.at
    /\ \E a \in AttemptsOf("STATAREA", run.captures[2]) : a.at <= run.at

(* An invocation that returned has left whole files, they say what it      *)
(* returned, and that never changes: so every invocation that returns has  *)
(* returned the same run, the same captures and the same diagnostic, on    *)
(* the day before or long after, however many of them overlapped.          *)
ReturnedIsExported ==
  \A bundle \in returned :
    exports["prospective"] = Whole(bundle)

(* Commands that capture one after the other freeze one run at most, and   *)
(* later captures and crashes do not make them choose other sources.       *)
SerialRunsFreezeOnce == ~overlapped => Cardinality(frozen) <= 1

(* A completed assessment is the one in the files, which no newer          *)
(* evaluation replaces: what the shadow run's diagnostic reads is settled. *)
AssessedIsExported ==
  \A e \in ToSet(assessed) :
    exports["priority"] = Whole(AssessmentBundle(e))
=============================================================================
