----------------------------- MODULE Settlement -----------------------------
(***************************************************************************)
(* settlePending: ask the provider for the results of recommended fixtures *)
(* whose kickoff is three hours old and that have no outcome, publish each *)
(* answer as evidence, and record the run in one transaction.  The systemd *)
(* unit runs it twice a day under flock --nonblock; npm run by hand does   *)
(* not take the lock.                                                      *)
(*                                                                         *)
(* A dry run reads only, and IDENTITY_MISSING cannot happen: the query     *)
(* asks for an identity.  A run that fails before its first request has    *)
(* changed nothing and is a run that was not started.                      *)
(***************************************************************************)
EXTENDS Integers, FiniteSets

CONSTANTS
  Fixtures,        \* the recommended fixtures: numbers, in the order of their
                   \* kickoffs and then of their ids
  Settlers,        \* the processes that may run the command
  Locked,          \* those the unit starts, under its lock
  MaxFixtures,     \* --max-fixtures
  Budget,          \* --budget
  MayStall,        \* fixtures the provider may never report as played where
                   \* and when they were announced
  MaxCorrections,  \* bound: corrections of a result by the provider
  MaxTroubles,     \* bound: requests, writes and processes that fail
  None             \* no content

(* What the provider answers about a fixture, as mapApiFootballResult      *)
(* takes it: an empty list, a status that is not FT, AET or PEN, a fixture *)
(* that is not the expected one (another kickoff), or a result, corrected  *)
(* some number of times.  An answer stands for its bytes and their hash.   *)
Kinds   == {"EMPTY", "NOT_TERMINAL", "REJECTED", "TERMINAL"}
Answers == [kind : Kinds, corrections : 0..MaxCorrections]
Replies == [fixture : Fixtures, answer : Answers]
Plain(kind) == [kind |-> kind, corrections |-> 0]

ASSUME SettlementAssumption ==
  /\ Fixtures \subseteq Nat /\ IsFiniteSet(Fixtures)
  /\ Locked \subseteq Settlers
  /\ MaxFixtures \in Nat \ {0}
  /\ Budget \in 1..MaxFixtures
  /\ MayStall \subseteq Fixtures
  /\ MaxCorrections \in Nat
  /\ MaxTroubles \in Nat
  /\ None \notin Replies

VARIABLES
  due,        \* fixtures recommended and more than three hours past kickoff
  course,     \* what the provider says of each fixture
  published,  \* the evidence store: <<fixture, answer>>
  db,         \* rows of dailySettlementEvidence and dailyOutcome
  report,     \* the last row of dailySettlementRun
  settler,    \* the memory of each process
  troubles    \* failures so far

world == <<due, course>>
vars  == <<world, published, db, report, settler, troubles>>

-----------------------------------------------------------------------------
Off == [pc |-> "off", list |-> {}, left |-> {}, reply |-> None,
        rows |-> {}, pending |-> 0, unresolved |-> 0]

NoReport == [eligible |-> 0, made |-> 0, evidence |-> 0, outcomes |-> 0,
             pending |-> 0, unresolved |-> 0]

Init ==
  /\ due = {}
  /\ course = [f \in Fixtures |-> Plain("NOT_TERMINAL")]
  /\ published = {}
  /\ db = [evidence |-> {}, outcomes |-> {}]
  /\ report = NoReport
  /\ settler = [s \in Settlers |-> Off]
  /\ troubles = 0

(* slice and take: the first n of a set of fixtures.                       *)
First(n, S) == {f \in S : Cardinality({g \in S : g <= f}) <= n}

Rows(s)  == settler[s].rows
Asked(s) == First(Budget, settler[s].list)

Settled(f) == \E o \in db.outcomes : o.fixture = f

(* Mutant of Unsettled: a fixture that was asked about is done with.       *)
UnsettledUnasked(f) == \A e \in db.evidence : e.fixture # f

Unsettled(f) == ~Settled(f)

(* The query: the oldest kickoffs first, as many as the run takes.         *)
Pending == First(MaxFixtures, {f \in due : Unsettled(f)})

(* A failure of the surroundings, of which there are finitely many.        *)
Trouble == /\ troubles < MaxTroubles
           /\ troubles' = troubles + 1

Smooth == troubles' = troubles

(* Mutant of MayStart: the unit does not take the lock.                    *)
MayStartUnlocked(s) == TRUE

(* flock --nonblock: a second run of the unit ends at once.                *)
MayStart(s) == s \in Locked => \A r \in Locked : settler[r].pc = "off"

(* settlePending begins: the list is read once.                            *)
Begin(s) ==
  /\ settler[s].pc = "off" /\ MayStart(s)
  /\ settler' = [settler EXCEPT ![s] =
                   [Off EXCEPT !.pc = "asking", !.list = Pending,
                               !.left = First(Budget, Pending)]]
  /\ UNCHANGED <<world, published, db, report, troubles>>

(* The process ends, or dies, and its memory with it.                      *)
Gone(s) == [settler EXCEPT ![s] = Off]

(* The loop takes the next fixture.                                        *)
IsNext(s, f) == /\ settler[s].pc = "asking" /\ f \in settler[s].left
                /\ \A g \in settler[s].left : f <= g

(* getFixtureResult.  A response that failed is a warning.                 *)
Ask(s, f) ==
  /\ IsNext(s, f)
  /\ \/ /\ Trouble
        /\ settler' = [settler EXCEPT ![s].left = @ \ {f}, ![s].unresolved = @ + 1]
     \/ \E answer \in {course[f], Plain("EMPTY")} :
          /\ IF answer = course[f] THEN Smooth ELSE Trouble
          /\ settler' = [settler EXCEPT ![s].pc = "publishing", ![s].left = @ \ {f},
                                        ![s].reply = [fixture |-> f, answer |-> answer]]
  /\ UNCHANGED <<world, published, db, report>>

(* The row of the reply, by the unit or not.                               *)
Row(s) == [fixture |-> settler[s].reply.fixture,
           answer  |-> settler[s].reply.answer,
           unit    |-> s \in Locked]

One(condition) == IF condition THEN 1 ELSE 0

(* The loop goes on: the row is for dailySettlementEvidence and, when the  *)
(* answer is terminal, for dailyOutcome; any other answer is pending or,   *)
(* when the mapper rejects it, a warning.  (An empty answer is both, and   *)
(* counted here as pending.)                                               *)
Handled(s) ==
  LET kind == settler[s].reply.answer.kind
  IN  [settler EXCEPT ![s].pc = "asking", ![s].reply = None,
                      ![s].rows = @ \union {Row(s)},
                      ![s].pending = @ + One(kind \in {"EMPTY", "NOT_TERMINAL"}),
                      ![s].unresolved = @ + One(kind = "REJECTED")]

(* Mutant of PublishFails: the answer is handled although it was not kept. *)
PublishFailsOn(s) ==
  /\ settler' = Handled(s)
  /\ Trouble

(* SETTLEMENT_EVIDENCE_FAILED is thrown: nothing of the run is recorded.   *)
PublishFails(s) ==
  /\ settler' = Gone(s)
  /\ Trouble

(* store.publish of the answer, whatever it says.                          *)
Publish(s) ==
  /\ settler[s].pc = "publishing"
  /\ \/ PublishFails(s) /\ published' = published
     \/ /\ published' = published \union {<<Row(s).fixture, Row(s).answer>>}
        /\ settler' = Handled(s)
        /\ Smooth
  /\ UNCHANGED <<world, db, report>>

OutcomeRows(s) == {r \in Rows(s) : r.answer.kind = "TERMINAL"}

(* DailyOutcome.id is a digest of the fixture and of the bytes.            *)
KeyTaken(s) == \E r \in OutcomeRows(s), o \in db.outcomes :
                 o.fixture = r.fixture /\ o.answer = r.answer

(* Mutant of NotAsked: what the budget leaves out is not counted.          *)
NotAskedForgotten(s) == 0

(* Fixtures of the list beyond the budget.                                 *)
NotAsked(s) == Cardinality(settler[s].list \ Asked(s))

(* The transaction, all or nothing, and the end of the run.                *)
Commit(s) ==
  /\ settler[s].pc = "asking" /\ settler[s].left = {}
  /\ \/ /\ ~KeyTaken(s) /\ Smooth
        /\ db' = [evidence |-> db.evidence \union Rows(s),
                  outcomes |-> db.outcomes \union OutcomeRows(s)]
        /\ report' = [eligible   |-> Cardinality(settler[s].list),
                      made       |-> Cardinality(Asked(s)),
                      evidence   |-> Cardinality(Rows(s)),
                      outcomes   |-> Cardinality(OutcomeRows(s)),
                      pending    |-> settler[s].pending + NotAsked(s),
                      unresolved |-> settler[s].unresolved]
     \/ KeyTaken(s) /\ Smooth /\ UNCHANGED <<db, report>>
     \/ Trouble /\ UNCHANGED <<db, report>>
  /\ settler' = Gone(s)
  /\ UNCHANGED <<world, published>>

(* The process dies, or TimeoutStartSec kills it.                          *)
Crash(s) ==
  /\ settler[s].pc # "off"
  /\ Trouble
  /\ settler' = Gone(s)
  /\ UNCHANGED <<world, published, db, report>>

-----------------------------------------------------------------------------
(* The world: time passes, and the provider reports.                       *)

FallDue(f) ==
  /\ f \notin due
  /\ due' = due \union {f}
  /\ UNCHANGED course

Report(f, answer) ==
  /\ course' = [course EXCEPT ![f] = answer]
  /\ UNCHANGED due

Played(f) == /\ course[f].kind \in {"NOT_TERMINAL", "REJECTED"}
             /\ Report(f, Plain("TERMINAL"))

(* Moved to another kickoff, while the stored one is never updated, or     *)
(* over with a score that is not complete.                                 *)
Moved(f) == /\ f \in MayStall /\ course[f].kind = "NOT_TERMINAL"
            /\ Report(f, Plain("REJECTED"))

Corrected(f) == /\ course[f].kind = "TERMINAL" /\ course[f].corrections < MaxCorrections
                /\ Report(f, [course[f] EXCEPT !.corrections = @ + 1])

World(f) ==
  /\ FallDue(f) \/ Played(f) \/ Moved(f) \/ Corrected(f)
  /\ UNCHANGED <<published, db, report, settler, troubles>>

Run(s) == \/ Begin(s) \/ Publish(s) \/ Commit(s)
          \/ \E f \in Fixtures : Ask(s, f)

Next == \/ \E s \in Settlers : Run(s) \/ Crash(s)
        \/ \E f \in Fixtures : World(f)

Spec == Init /\ [][Next]_vars

(* The timer is persistent and fires twice a day, so the unit's run starts *)
(* again and again, and every await of it settles; a fixture that cannot   *)
(* stall is played and reported at last.                                   *)
FairSpec ==
  /\ Spec
  /\ \A s \in Locked : WF_vars(Run(s))
  /\ \A f \in Fixtures \ MayStall : WF_vars(Played(f) /\ World(f))

-----------------------------------------------------------------------------
RowOf == [fixture : Fixtures, answer : Answers, unit : BOOLEAN]

Memory ==
  [pc : {"off", "asking", "publishing"}, list : SUBSET Fixtures, left : SUBSET Fixtures,
   reply : {None} \union Replies, rows : SUBSET RowOf,
   pending : Nat, unresolved : Nat]

(* The type invariant: what a process reads is due, what it has left to    *)
(* ask is within the budget, it has a reply while it publishes it, and a   *)
(* process that does not run holds nothing.                                *)
TypeOK ==
  /\ due \subseteq Fixtures
  /\ course \in [Fixtures -> Answers]
  /\ published \subseteq Fixtures \X Answers
  /\ db \in [evidence : SUBSET RowOf, outcomes : SUBSET RowOf]
  /\ troubles \in 0..MaxTroubles
  /\ settler \in [Settlers -> Memory]
  /\ \A s \in Settlers :
       /\ settler[s].list \subseteq due
       /\ settler[s].left \subseteq Asked(s)
       /\ settler[s].pc = "publishing" <=> settler[s].reply # None
       /\ settler[s].pc = "off" => settler[s] = Off

(* What is recorded can be shown: an outcome has an evidence row of the    *)
(* same run and answer, and the answer's bytes are in the evidence store,  *)
(* whatever failed or died between publishing and recording.               *)
OutcomesAreEvidenced ==
  /\ \A o \in db.outcomes : o \in db.evidence /\ o.answer.kind = "TERMINAL"
  /\ \A e \in db.evidence : <<e.fixture, e.answer>> \in published

(* Runs of the unit settle a fixture once, even when the provider corrects *)
(* the result between them.  (A run by hand takes no lock and may overlap: *)
(* it can add a second outcome of other bytes.)                            *)
TimersSettleOnce ==
  \A o, p \in db.outcomes :
    o.fixture = p.fixture /\ o.unit /\ p.unit => o = p

(* The row of a run adds up: each fixture of its list was settled, is      *)
(* pending or has a warning, and only requests made leave evidence.        *)
RunAddsUp ==
  /\ report.eligible = report.outcomes + report.pending + report.unresolved
  /\ report.outcomes <= report.evidence
  /\ report.evidence <= report.made
  /\ report.made <= Budget

(* A fixture that is due and played is settled in the end, as long as the  *)
(* fixtures that stall are fewer than the budget of a run.                 *)
PlayedIsSettled ==
  \A f \in Fixtures :
    f \in due /\ course[f].kind = "TERMINAL" ~> Settled(f)
=============================================================================
