# Verification of ou25-consensus-lab

TLA+ models, TLC runs and TLAPS proofs for the core of this repository: the
governed requests to API-Football and the two commands that make them, what a
capture leaves on disk and in SQLite, the daily analysis and its statistics,
the settlement of fixtures, the synthetic capture with the packet contract in
Python, the event matchers, the market priority policy with the prospective
shadow run, and the capture of Statarea pages. The reference is the code under `src/`; where a document or a
comment says otherwise, that is a finding (see *Findings*).

    cd tla
    tlc -config MCSettlement.cfg MCSettlement.tla     # one of the runs
    tlapm Settlement_proofs.tla                       # one of the proofs

`PROJECT.json` lists every run with its properties, every definition with the
source lines it models, one mutant for each property, the hazards and the theorems.

## 1. The system

A Next.js application with command-line jobs over SQLite databases (Prisma)
and directories of raw evidence. It collects predictions and odds of football
fixtures before kickoff and results afterwards, and shows a daily ranking and
its record. Beside this operational part there are a capture foundation with
synthetic providers, whose packets a Python package validates, and an earlier
block of research commands on Forebet and Statarea pages.

| Component | Code (under `src/src` unless noted) | State | Operations | Correct when |
|---|---|---|---|---|
| rate-limit parser | `infrastructure/market-v2/api-football/rate-limit-parser.ts` | none | parse five quota headers, blocking outcome of a response | absent is not zero, contradictory headers are refused |
| request budget, circuit breaker | `.../request-budget.ts`, `run-circuit-breaker.ts` | reserved and started attempts; state, reason, failures in a row | reserve/commit/release; open, recordRetryableFailure, recordSuccess | never over budget; open for good; the reason is the true one |
| governed request executor | `application/market-v2/api-football/governed-request-executor.ts` | of each call: attempt, response | `execute()`: attempts, retries, audit | every attempt accounted for, an accepted request never sent twice |
| API-Football client | `.../api-football/client.ts` | none | one HTTP exchange to a typed result | quota information reaches the executor |
| API-Football provider | `.../api-football/provider.ts` | of each request: `downstream`, `clientFailureCode` | fetch, publish, map, persist | nothing persisted without evidence; no failure hides a capture |
| prematch collection | `application/market-v2/api-football/collect-prematch.ts` | results, `runBlocked` | walk over the targets, two requests each | report and exit status agree with the database |
| outcome resolution | `application/market-v2/api-football/resolve-outcomes.ts` | the same | walk, one request each | only terminal, complete results are stored |
| runtime | `.../api-football/runtime.ts` | none | wiring of the commands, run id, request identities | two invocations do not collide |
| repositories | `infrastructure/market-v2/persistence/api-football-repositories.ts` | SQLite rows | transactions that answer CREATED, REPLAYED, CONFLICT | append only, same key same row |
| operational evidence store | `infrastructure/market-v2/capture/operational-evidence-store.ts` | files by content hash, temporary files | `publish()` | whole contents, never replaced |
| daily analysis | `infrastructure/market-v2/daily/runtime.ts`, `domain/market-v2/*` | SQLite rows | discovery, predictions, odds, ranking, one transaction | a run is recorded whole, with its evidence, and is recorded |
| The Odds API client | `infrastructure/market-v2/the-odds-api/client.ts` | none | one request for a sport key | |
| derivation, odds replay, aliases | `infrastructure/market-v2/daily/derive-*.ts`, `replay-*.ts`, `team-alias-workflow.ts` | SQLite rows | offline recomputation, review of aliases | copies change no statistics; an alias names one team |
| settlement | `infrastructure/market-v2/daily/settle-pending.ts` | SQLite rows, memory of a run | one run: query, requests, evidence, one transaction | outcomes are evidenced, once, and in the end |
| event matchers | `domain/market-v2/matching/provider-event-matcher.ts`, `automatic-review-v1.ts`, `odds-matching-v2.ts` | none | pure functions | one event or none, orientation kept |
| user interface | `components/*`, `domain/market-v2/operational-history.ts` | none | read-only pages, statistics | only selections made in time, once each |
| synthetic capture | `application/market-v2/capture/*`, `domain/market-v2/capture/*`, `infrastructure/market-v2/capture/*` | evidence records, deduplicator, packets | runs of a stage, assembly, writing | every observation bound to evidence, no fixture forgotten |
| Python contract | `src/analytics/src/ou25_analytics/prospective/*` | none | validation of a packet | agrees with the assembler |
| market priority | `domain/market-priority/*`, `application/assess-market-priority.ts`, `domain/prospective/engine.ts` | policy and assessment rows, exports | score, compare, prefer | one line of each family, no preference without support |
| shadow run, its captures | `application/run-prospective-shadow.ts`, `capture-forebet.ts`, `capture-statarea-legacy.ts` | snapshots, attempts, frozen run, exports | capture or reuse, match, freeze, export | dated before the day; files say what was frozen |
| Statarea capture | `application/capture-statarea.ts`, `infrastructure/statarea/*`, `src/scripts/replay-statarea-evidence.ts` | snapshots, attempts, audit events, evidence and export files | capture of a date, replay of stored evidence | what a snapshot was made from can be read; one of a date and content; whole trails |
| other research commands | `application/import-history.ts`, `reconcile-fixtures.ts`, ... | frozen inputs | one-shot commands | |
| audits, validators | `src/scripts/*`, `domain/market-v2/validation.ts` | none | read only | |
| deployment | `src/deploy/systemd` | two locks | daily 09:00, settle 03:30 and 12:30 | one run of a unit at a time |

How they interact. A command (`runtime.ts`) makes one budget, one breaker and
one executor and hands them to the prematch or outcome walk. The walk calls the
provider; the provider gives the executor an operation (client, then evidence
store, mapper and repository) and a second callback that audits each attempt.
The executor decides about retries and stops. The daily and settlement jobs call
the clients and the evidence store directly, without the executor, and write
their rows in one transaction; derivations copy those rows, and the pages compute
their statistics from the runs, the settled outcomes and the stored kickoffs. All
processes share the database and the evidence directory; nothing but `flock` in
the two systemd units keeps two of them apart, and each unit has its own lock. The
shadow run and the assessment share a database and write-once export directories
with any other invocation of themselves.

What is hard here: awaits between reading the breaker and using it, callbacks
that fail after the response was accepted, retries around a kickoff, rows and
files that are written separately while a process may die, commands repeated on
the same database, overlapping jobs, a work list cut off by a budget, answers
that are refused half-way, copies of a run beside the run, two languages that
must agree on a packet, a window that is checked once and used later. The
hazards in `PROJECT.json` name each at its line.

## 2. Modules

| Module | Models | Uses |
|---|---|---|
| `RateLimits` | header parser and blocking outcome, as operators | |
| `GovernedExecutor` | budget, breaker and `execute()`, calls interleaved at every await | `RateLimits` |
| `RequestGovernance` | abstract: what governing a run promises | |
| `ApiFootballClient` | HTTP exchange to client result, as an operator | `RateLimits` |
| `CaptureStore` | the repositories' transactions, as operators that give an answer and a database | |
| `GovernedRun` | what the two commands share: walk, provider, evidence, SQLite, invocations, crashes | `GovernedExecutor` (INSTANCE), `CaptureStore` |
| `PrematchRun` | the prematch command | `GovernedRun` |
| `OutcomeRun` | the resolve command and the mapping of results | `GovernedRun` |
| `EvidenceStore` | `publish()` call by call of the file system, several processes | |
| `EvidenceLog` | abstract: a set of contents that only grows | |
| `DailyRanking` | the decisions of a daily analysis, as operators | |
| `DailyRun` | the daily command by several processes, derivations, settlement, statistics | `DailyRanking` |
| `Settlement` | settlement runs under the lock and by hand, the provider, the clock | |
| `EventMatching` | the three matchers and the alias registry, as operators | |
| `SyntheticEvidence` | one answer: evidence record, validation, deduplication | |
| `CapturePacket` | the assembler | `SyntheticEvidence` |
| `SyntheticCapture` | the orchestrator's runs, and packets made of their results | `CapturePacket` |
| `PacketContract` | the Python contract, as operators over a packet | |
| `PacketAcceptance` | a written packet, read by the contract | `SyntheticCapture`, `PacketContract` (INSTANCE) |
| `MarketPriority` | scores, caps, winners and the preferred line, as operators | |
| `ShadowRun` | shadow runs, captures and assessments by several processes | `MarketPriority` |
| `StatareaParser` | the rows of a page that are kept, rejected or repeated, as operators | |
| `StatareaCapture` | captures and replays by several processes | `StatareaParser` |
| `*_proofs` | TLAPS proofs about `GovernedExecutor` with `SyntheticCapture` and `PacketAcceptance`, `GovernedRun`, `PrematchRun`, `OutcomeRun`, `EvidenceStore` with `StatareaCapture`, `DailyRun` with `EventMatching`, `Settlement`, `ShadowRun` with `MarketPriority` | |
| `MC*` | instances for TLC | |

**GovernedExecutor.** `pc[c]` is where a call of `execute()` waits: for the
operation, for the audit, for the delay. Between two awaits JavaScript runs
without interruption, so each action is the code from one await to the next:
`Enter` (validation and the first `BeginAttempt`), `Respond` (the operation
settles), `Settle` or `AuditFails` (the audit settles, then success, failure or
retry), `Wake` (after the delay, which looks at the breaker and the budget
again). `budget` and `breaker` are the two objects, `audits` the records that
were accepted. The commands make one call at a time; the class does not require
it, so the model lets calls overlap. Delays are awaits without a length.
An exchange keeps what the wire carried (`wire`) beside what the client passed
on (`metadata`), for the property about the difference.

**ApiFootballClient.** Request building and configuration checks are left out:
they fail before anything is sent. Bodies are the classes the decoder tells apart.

**CaptureStore.** Contents stand for bytes and their hash. One media type for a
content is assumed: `sameArtifact` also compares it, and the same bytes with
another `content-type` would be a CONFLICT, which the model has as a failing write.

**GovernedRun, PrematchRun, OutcomeRun.** One process. `walk` and `report` are
the loop of `collectPrematch` or `resolveOutcomes`, `operation` is the closure of
`#executeGoverned` with the state it keeps between attempts, and the executor's
variables are those of `GovernedExecutor` under their own names. `Fetch`,
`Publish`, `Process` and `Respond` are the awaits of the operation,
`AppendRecord` the audit. `Crash` drops everything but `evidence` and `db`;
`Invoke` starts the command again on them. `now` moves with each fetch. What a
response is processed to, which request follows which answer and which status a
failure becomes is what the two commands add. An answer is of the fixture that
was asked for, which is why a result with another identity never arrives.

**EvidenceStore.** `Look`, `Open` (O_EXCL), `Write`, `Link`, `Clean` are the
file-system calls; `published` maps an address to the inode that is there,
`temporary` are the names left behind. A process may die at any step, and its
pid may be used again by a store that counts its names from one.

**Settlement.** Fixtures are numbers in the order of the query (kickoff, id).
`Begin` reads the list, `Ask` and `Publish` are the two awaits of the loop,
`Commit` is the transaction, with the primary key of `DailyOutcome`. `course` is
what the provider says of a fixture: not terminal, rejected by the mapper (a
moved kickoff, an incomplete score), terminal, corrected. `Locked` are the runs
of the unit; a run by hand takes no lock. `troubles` bounds failures and deaths.

**DailyRanking, DailyRun.** `runner[r].pc` is where a run of `runDaily` waits:
for the list, a prediction, odds, or its transaction. An answer stands for its
bytes, so a run's id is the set of what it published with its date. `Refused`
are the reasons the transaction fails: the run is recorded, or two answers have the
same bytes (`[]` for two sport keys). `stored` are the kickoffs in the table
`fixture`, written once, `kickoff` the real ones, which may move. A derivation
copies a recorded run. `Sample` is what the performance page computes its rate
from: the recommendations of the canonical runs, before kickoff and of the date.
Percentages are integers, and points are counted in parts of 28 so that
each threshold of the code is exact. No odds are ever quoted for 1X, the only
market evaluated, so the priced categories cannot be reached and are left out.

**EventMatching.** A name is what the normalisation of its matcher leaves. The
registry is a set of rows; `Reviewed` is one decision of `approveTeamAliases`.

**SyntheticEvidence, CapturePacket, SyntheticCapture.** `run` is the run under
way with its agenda, a set of (capability, fixture) that is taken in the order of
`Precedes`; an answer is published, its drafts validated and deduplicated in their
order, and what was taken before a refusal stays taken: the verdict on each draft
depends on those before it, and `Takings` says of a sequence of verdicts that
each follows from the earlier ones. `Absent` is null, and `AttemptLimit` is
`retryPolicy.options.maxAttempts`. `dedup` is the deduplicator of the orchestrator, which other
runs of it find as it was left. `results` are the finished runs, from any of which
`Assemble` makes a packet, if the assembler accepts them.

**PacketContract, PacketAcceptance.** The contract is written from the Python
alone, on a packet as its JSON has it; `Written` is what the TypeScript puts
there. Where the capture passes a field through, the field is as the
synthetic providers make it.

**MarketPriority, ShadowRun.** Percentages are integers and rates are in
hundredths, so a score is exact in hundredths of a point. A process of
`ShadowRun` is at one await of its command; `snapshots` and `attempts` are the
capture tables in order of creation, `frozen` the shadow runs, `exports` the two
directories, which hold nothing, a part, or the whole of a bundle. A capture
is named after its content, as its key is the hash of the body.

**StatareaParser, StatareaCapture.** A row keeps what the parser's five reasons and
its duplicate key look at. A process is at one await of `captureStatarea`: the
request with its redirections, the evidence file (created empty, then filled, then
read back), the parsing, the lookup of a snapshot, the export, the transactions.
`Redirect` lets the page of another authorised date be received. `BeginReplay` is
the script that takes stored evidence for an answer. `evidence` and `exports` are
files that hold nothing, a part, or the whole; `Perish` is a death, or anything
that throws where the code records nothing.

## 3. Runs

| Run | Instance | Shows |
|---|---|---|
| `executor` | 2 calls and an invalid one, 3 attempts, 1 retry, every answer of the port | `EveryAttemptAccounted`, `ResultMatchesAudit`, `ReasonEarned`, `AcceptedNeverRetried`, `AcceptedQuotaStopsRun`, refinement of `RequestGovernance`, every call returns |
| `executor_client` | the real client's results | **violation** of `QuotaStopsRun` (finding 1) |
| `prematch` | 2 targets, 4 attempts, 2 invocations, storage fails, process dies | `SnapshotsArePrematch`, `ArtifactsHaveEvidence`, `ReportIsTrue`, `ExitIsTrue`, every run ends |
| `prematch_again` | invoked twice, all healthy | **violation** of `EveryAttemptOnRecord` (finding 2) |
| `outcome` | 2 targets, 3 attempts, 2 invocations, storage fails, process dies | `OutcomesAreEvidenced`, `ReportIsTrue` |
| `evidence` | 5 publishes, 2 processes, 3 contents, one address occupied, 2 crashes | `PublishedIsWhole`, `AnsweredIsPublished`, refinement of `EvidenceLog`, every publish answers or its process dies |
| `settlement` | 2 fixtures, 2 unit runs and one by hand, a correction, a failure | `OutcomesAreEvidenced`, `TimersSettleOnce` |
| `settlement_liveness` | 3 fixtures, lists of 3, budget 2, the oldest may stall, a failure | `RunAddsUp`, `PlayedIsSettled` |
| `daily` | 4 fixtures (one filtered, one without odds) of which 2 may be taken; two parts of the instance, see below | `AnalysesHaveEvidence`, `OnlyEqualRunsAreRefused`, `SettledIsProspective`, `CountedOnce`, `DerivedDoNotCount`; assumptions: the cap comes after the filter, the matchers on small inputs |
| `synthetic` | 2 fixtures, 3 providers, 2 runs of any stage, a packet, a failure | `ObservationsAreBound`, `ResultsAreProspective`, `NoFixtureIsForgotten`, `PacketIsProspective`, `PacketIsAccepted` |
| `shadow` | 2 shadow commands, a capture, 2 assessments, 3 invocations, a failure or death, 4 instants | `FrozenIsProspective`, `ReturnedIsExported`, `SerialRunsFreezeOnce`, `AssessedIsExported`; assumptions: the examples of the policy's tests |
| `statarea` | 2 captures that overlap, 3 in all, 2 dates, a redirection, 4 kinds of page, a failure or death | `SnapshotsAreKept`, `CapturesAreIdempotent`, `SnapshotsAreOfTheirDate`, `TrailsAreWhole`; assumption: the parser on the rows of its tests |

Why the bounds are enough. *executor*: two calls give every race for the budget
and the breaker; three attempts allow a retry with the budget then spent by the
other call, and reach the threshold of failures in a row (3) in one call and across
calls; there is one answer for every branch that treats it. *prematch*: four
attempts let both targets be captured and the run be COMPLETE, or blocked by its
very last response, or a retry leave the second target without budget; kickoff
lies between two instants of the clock; the second invocation finds whatever the
first one left. *outcome*: the same with one request for each target, and a retry; the
answer has one of twelve rows: three that are results (after regulation time, extra time or
penalties), and for each test of the resolution one that fails it (another fixture's, not
over, no regulation score, goals or rows that are wrong, no extra time, half a shootout or
a tied one, penalties of a match that had none).
*evidence*: two calls of a process and one of another for the same content, so
races in and between processes and a left-over name that a second call meets
again; two crashes, so that a pid may be used for the third time. *settlement*: an
overlap needs two runs, and a third shows that the lock, not luck, keeps the
unit's apart; a double outcome needs one correction; with a budget of two, one
stalled fixture leaves one request for the others. *daily*: the
constraint `Parts` keeps to two parts of the instance, each of which is as large as
TLC can explore whole. In the first (`Recording`) the unit and a run by hand are
at work together on one date, with two recorded runs and a failure: two sport keys
can have equal answers, two fixtures taken out of four put the filter, the cap and
the choice of what to analyse to use, and a run that is refused needs one recorded
run and one under way. In the second (`Sampling`) runs by hand follow each other
over four instants with three recorded runs: a fixture that is moved to the next
day is in runs of two dates, and a third run of one of them decides which is
canonical. *synthetic*: the answers to a reference are a first one, a revision of it with the
same identity and a later one, so two runs reach replay, conflict and a reference
with two contents; a packet is then made of any of them. *shadow*: the second page
of a source differs from the first, so an overlap of two commands can fix
different captures; a third invocation finds what two of them left; the day
begins at the last instant. As every request takes an instant and two are needed for each
run, these bounds do not reach two frozen runs, which takes an overlap and a day that
begins later: `SerialRunsFreezeOnce` is checked for commands that follow each other, with a
mutant that breaks it, and where its hypothesis matters the proof is what covers it. *statarea*: two captures of a date and page can both
miss the snapshot, and a third finds what they, or a death between two writes, left.

Every property was seen to fail under a mutant of the code (`PROJECT.json`,
`mutants`): a dropped guard, a swapped order, a missing reset. The mutated forms
stand in the modules just before what they mutate and are used by nothing.

Deadlock is checked where a specification describes a system that must go on or
end: the executor, the two commands, the evidence store and the settlement, whose
ends are explicit steps (`Finished`, `Over`). It is not checked in `daily`,
`synthetic`, `shadow` and `statarea`: their processes may be started or
not, and once the bounds on runs and instants are reached nobody has to.

### Fairness

- `GovernedExecutor`: weak fairness of each call's steps. The operation, the
  audit and the delay are promises that settle: the client has a timeout
  (`client.ts:385`), delays are finite timers, SQLite answers or fails.
- `PrematchRun`: weak fairness of the process's steps, for the same reasons.
- `EvidenceStore`: weak fairness of each call's steps: the file system answers.
- `Settlement`: weak fairness of the unit's run, which the persistent timer
  starts twice a day (`odds-market-v2-settle.timer`) and `TimeoutStartSec` ends; and
  of the reporting of a fixture that cannot stall. None for runs by hand.
  Failures are bounded (`MaxTroubles`): a provider that fails for ever settles nothing.

No other module states liveness. A daily or shadow run is started by a person or a
timer and may be refused for good reasons; what must hold of one that gets to its
transaction is said by `OnlyEqualRunsAreRefused`.

## 4. Proofs

All for every value of the constants, under the assumptions stated with them
(`ExecutorAssumption` and the like: positive limits, distinguished values that
are no members of the sets they stand beside). An invariant that a theorem rests on is
named in the proof module: most of the properties are not inductive. The proof that
a step keeps it has one lemma per action, and the theorem combines them.

**GovernedExecutor_proofs.** `Shape` joins `TypeOK` with what the breaker and the
program counters imply: a closed breaker has counted fewer failures than the
threshold, a call in flight has one of the numbers that were given out, a call
asleep has a response that failed.
`TypeCorrect`, `OpenForever` and `AcceptedKept` follow from it. For
`AttemptsAccounted` that is not enough: that no attempt is recorded twice depends
on the three accounts (in flight, recorded, lost) being disjoint and covering
`1..started`, so the invariant is `Ledger == Shape /\ EveryAttemptAccounted`, and
each step is first shown to be of one of four kinds (`StepBegins`,
`StepRecords`, `StepLoses`, `StepSkips`). The same classification gives
`Refinement`: the kinds are the actions of `RequestGovernance`, or stutters.
`AcceptedQuotaStops` strengthens `Shape` with `BlockedIsOpen` (a call that
accepted a response with little quota has opened the breaker) and has a
hypothesis, `AcceptedIsPassedOn`: the headers of an accepted response reach the
executor, which `client.ts` does and which it does not do for a failed one
(finding 1). `ResultsMatch` rests on `Reports`: the ledger, and what each call
was `Told`, including that a call asleep has a retryable failure on record.
`ReasonsEarned` rests on `Earned`: a breaker whose reason, state and count of
failures agree (`Coherent`), records that show the reason (`Shown`), and at least
as many failures on record as are counted, because the number of an attempt
that is settled is on no record before it.

**EvidenceStore_proofs.** The invariant says that calls under way in one process
have different tickets (`TicketsDiffer`), hence the name of a call that writes
leads to its own file and to no other (`OwnFile`): a left-over of a dead process
may have that name, but then O_EXCL has refused the call. With `AnswersAgree` and
`AddressesAgree` this gives `WholeContents`, `AnswersKept`, `CreatedAtMostOnce`,
`PublishedForGood` and `StoreImplementsLog`.

**StatareaCapture** (the second part of EvidenceStore_proofs, which extends both modules: the
two places where answers are kept under their hash). `CaptureInv` says of each
capture under way what its memory rests on: a page that was verified is whole on disk, because
a whole file is not written again; a snapshot it has named exists, with its date and
page; the events with its number are exactly those of the steps it has
taken, because a number is given once. `SnapshotsBacked`, `CapturedOnce` and
`WholeTrails` are read off it. `OfTheirDate` also needs `PagesAddUp`, a theorem about
the parser for any page and date: the rows it keeps differ in their keys, so the number of
kept, repeated and rejected rows is the number of rows. The reasons of a row are
a set of places in the order in which the code collects them, so that no recursive
operator on sequences is in the way.

**SyntheticCapture, PacketAcceptance** (the second part of GovernedExecutor_proofs, which
extends both). `NoFixtureIsForgotten` is the difficult one. An answer
that adds nothing because all its drafts are duplicates still counts as taken, and what
makes that right is far away: the hash of each duplicate is known to the deduplicator
because a run of the same orchestrator, maybe an earlier one, holds an observation of that
answer. `SyntheticInv` says so (`MemoryInv`), and that each fixture whose turn is
over is accounted for (`CoverInv`), that the agenda holds only what the stage and the
provider have (`AgendaInv`), that what a run holds is bound to records of the store
(`BoundInv`) and was tested against the kickoff it has (`SoundInv`). Every step of a run closes
an item, tries it again, begins or finishes, and there is one lemma for each of the
four. `ObservationsAreBound`, `ResultsAreProspective`, `NoFixtureIsForgotten`
and `PacketIsProspective` follow.
About the packets as Python reads them, `PacketInv` says that they are finite, typed and
made of results; from it the records are in time (`WrittenInTime`), every
reference resolves in the manifest (`ManifestResolves`), to the record's own hash unless a
reference was captured twice (`MatchesExactlyUnlessRebound`), and a
packet the contract accepts has fixtures, is not rebound and has its outcomes in a chain
(`AcceptedIsFounded`, half of `PacketIsAccepted`). The theorems assume of the providers what
those of the repository do (`ProviderAssumption`: drafts of the kind and fixture asked for, with a
capture time and, for a fixture, a kickoff; at least one draft when asked about a fixture),
typed predictions, and that null is no error and no instant; TLC evaluates these in `synthetic`.

**Settlement_proofs.** The rows a run holds are of published answers
(`RowsArePublished`), so `OutcomesShown`, whatever overlaps or dies. For
`SettledOnce` the invariant adds that one run of the unit is under way at a time
(`OneOfTheUnit`), that it asks once about each fixture of its list
(`RowsAreOfTheList`), and that no fixture of its list has been settled by the
unit (`ListsAreOpen`), which holds at `Begin` by the query and stays by the lock.
`RowsAddUp` (the counters of a stored run agree with each other and with its rows) needs
`Books`: the above and that the memory of every run is `Balanced`, that is, each fixture
asked about is in exactly one place: pending, unresolved, an outcome row, still left,
or the reply in hand. It counts, so it cites the library's facts on
cardinality, and `LargestElement` and `Sizes` give the size of a list cut by the budget.

**DailyRun_proofs.** All five properties, for any fixtures, forecasts, processes,
movements and failures. None of them is inductive. `IInv` says what the memory of
a run under way rests on (`Held`: its evidence is published, each fixture it
will analyse is on a list in it, each prediction has its answer in it, and a
repeated answer took two sport keys), what a recorded row rests on (`Founded`),
that the rows have an order (`Ordered`), and that a settled fixture is at its
stored kickoff, in the past (`SettledInPlace`), and that every row leads back, through
the runs it was derived from, to one that has the answers of its analyses (`Traced`). Most steps only change the memory
of one process and publish (`Remembers`); `Record`, `Derive`, `Settle` and the
world have a lemma each. `Evidence` reads `Founded` and `Traced`, where a review keeps the fixtures and the
predictions of the run before it and inherits its `Lineage`; `Prospective` needs that a
fixture already played is moved no more; `Once` goes from one kickoff to one date, from
one date to one last run, and from one run to one analysis of a fixture. The
theorems assume `NoneIsNoId`, that the null of `derivedFrom` is not a tuple, which
holds of the model value the runs use but cannot be evaluated by TLC.

**EventMatching** (at the end of DailyRun_proofs). Theorems about operators, for any events, tolerance and
registry. `MatchedIsTheOnlyOne` and `AutomaticMatchIsTheOnlyOne` follow from the
cases of the matchers once it is known that the set they choose from has one
member, and the second says of every other near event that it is the fixture's reverse
or does not resemble it; `OrderIsIgnored` carries each of those sets through a permutation of the
positions. `AliasNamesOneTeam` needs no assumption on the registry: a name that
several approved rows give to several teams resolves to none of them. `ReviewKeepsUnequivocal`
is the inductive step of the registry under one review at a time.

**GovernedRun_proofs, PrematchRun_proofs, OutcomeRun_proofs.** The walk of both
commands over their targets is proved once. `Governed` has five parts:
`Typed`, with at most one executor call under way and a budget and a breaker of
the right shape; `Memory`, what a target's operation holds; `Handled`, a
payload that is processed was published; `Progress`, the breaker is
closed until the request in hand has returned, what it stored came with
a response that is not retried, and a returned request is on record or its
record was lost; `Paced`, only targets before the position have a status, and
what blocked the run still does. Each kind of step (fetch, respond, publish, append,
conclude, next target, end, crash, invoke) has one lemma that gives `Governed'` and
says what else the step does (`ConcludedAs`, `RequestedAs`, `RequestGoesOn`); the
two commands only use these.
Each command then adds what its rows rest on (`Evidenced`); what it has asked or
kept so far (`Asked`, `Kept`); what each concluded target was `Told`
(`Reported`); and how a run may end (`Ended`).
The reports are the difficult part. A snapshot may be stored and its request
still fail, so that the target is reported as failed while the database has its
row: this is only possible when the audit was lost or the quota headers were
refused, and both open the breaker, which `Progress` has to say. In the other direction
`COMPLETE` excludes an open breaker only because a breaker that opens at a target
either blocks the run or leaves that target or an earlier one without its result (`Ended`).
From `RunInv` follow `StoredBeforeKickoff`, `PublishedBeforeStored`,
`TheReportIsTrue` and `TheExitIsTrue` for the collection and `OutcomesAreShown` and
`TheReportIsTrue` for the resolution, whatever the requests, the answers, the failures
and the crashes, and with any number of invocations on one database.

**ShadowRun_proofs.** `FrozenInTime` is about the date of a run, which is read before the
decisions are made; the code does not check it again when it commits. It rests on `Dated`: every page a process
holds, in each of its program states, was captured at a time that has passed, and a
frozen run is no earlier than the pages in it. `ReturnedInFiles` and
`AssessedInFiles` rest on `Filed`: a process that writes a bundle has found or
written, whole, every file before its place; one that fills a file is alone
in its directory, and the file it fills is the last there. So a process that
died leaves at most one file that is not whole, which every later run
compares with its own and refuses. `SerialFreezesOnce` has a history variable's
hypothesis, that no two captures overlapped, and rests on `Serial`: as long as that
is so, the capture that is fixed for each source is settled from the first one on,
and every process that has found or made one holds that one.

**MarketPriority** (at the end of ShadowRun_proofs). For any fixture and metrics of the right types
(`Sound`). The order of the candidates is a strict comparison of five
numbers, so two strict winners would each be better than the other
(`OneWinner`). `OneLinePerFamily` takes each family in turn to its set of
winners; `SelectedIsSupported` and `PreferredStandsOut` go from the decision
back to the caps and blockers of its line.

`CreatedAtMostOnce`, `PublishedForGood`, `OpenForever`, `WrittenInTime`,
`ManifestResolves`, `MatchesExactlyUnlessRebound` and `AcceptedIsFounded` are proved, and
no run lists them.
`GovernedRun` assumes that no request has the name of a phase of the walk, and
`OutcomeRun` that null is neither a status nor a side; both are about the
encoding and TLC evaluates them.

Only model-checked:

- liveness, and whatever needs fairness: `EveryCallReturns`, `EveryRunEnds`,
  `EveryPublishAnswers`, `PlayedIsSettled`. The prover does not reach it.
- the other half of `PacketIsAccepted`, that the contract refuses nothing else. It
  depends on the data of the instance (kickoffs within the universe's days, all
  records before `GeneratedAt`, identifiers of quotes and closings apart) and on
  `SortSeq`, whose definition the provers cannot expand.
- The two claims of section 5, which TLC refutes.

## 5. Findings

1. *The quota of a failed response is lost* (`executor_client`).
   `docs/research/api-football-r0-operations.md:42` says that few remaining
   requests block later calls of the run. `clientFailure` (`client.ts:162`)
   drops the headers of a response that failed, so the run goes on after a 500
   or a 429 that announced them; for the same reason a 429 is never retried by
   its Retry-After. For accepted responses the rule holds (`AcceptedQuotaStopsRun`).
2. *The same command cannot be run twice on a database* (`prematch_again`).
   The run id is a digest of the command and its targets (`runtime.ts:910`), so
   request keys and attempt numbers repeat; the first audit record of the second
   invocation conflicts, the breaker opens, and nothing more is captured,
   against lines 46 and 80 of the same guide.

Noted while modelling, without a claim in the repository to hold it against: the
settlement of later fixtures waits for ever when as many fixtures as the budget
are cancelled or moved (`PlayedIsSettled` assumes fewer); a run by hand that
overlaps the unit's may add a second outcome with other bytes, or lose its whole
transaction on the primary key when the bytes are the same.
A sport key whose answer has the bytes of another's (`[]` for both) loses the whole
daily run on a unique key, as `OnlyEqualRunsAreRefused` says in its last
alternative. The TypeScript assembler lets through three kinds of packet that the
Python contract refuses, named in `PacketIsAccepted`: without a fixture, with a
reference that was captured twice with other content, and with outcomes that are
no chain of corrections. A result corrected by API-Football under its old status
becomes a second outcome that does not refer to the first, where
`docs/market-v2-data-model.md:35` speaks of a reference. Two shadow commands that
overlap may freeze two runs of one day; only one of them can then export. A shadow run
that is dated just before its day may be committed after the day has begun.

## 6. Not modelled

- Loss of power: `link()` is not followed by a sync of the directory; only the
  death of a process is modelled.
- The `PREVALIDATED` mode of the prematch command with its import of bindings, dry
  runs, argument parsing, configuration checks: they end before anything is sent
  or written, or read only, except for the bindings, which are taken to be there.
- Contents of predictions, odds and explanations, wording, pages; the decoding of
  HTML and of odds events; text normalisation of names, whose result is the input
  of the matchers.
- `odds-matching.ts`, the first automatic matcher, which nothing calls; the
  ungoverned methods of the provider.
- A clock that steps back: it makes an audit record invalid, which is a failing append.
- Concurrent reviews of aliases (see `AliasNamesOneTeam` for what they can leave).
- Races on the files of the synthetic store: it is used by one process in a
  temporary directory of its own.
- Failed attempts and audit rows of the shadow run: no query of it reads them.
- The import of history, reconciliation, historical
  evaluation, the semantic evidence scripts and the numerical Python package:
  sequential batch code over frozen inputs, made of parsing and statistics.
- Audit and validation scripts, which only read.

## 7. What could be added

The other half of `PacketIsAccepted`, under assumptions that say of the data
what the instance has. The binding import; reconciliation as pure operators.
