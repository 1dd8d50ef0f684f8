----------------------------- MODULE StatareaCapture -----------------------------
(***************************************************************************)
(* captureStatarea and the replay of stored evidence: the page of a date   *)
(* is requested, its evidence is written once under its hash, it is        *)
(* parsed, and what was found is exported and becomes a snapshot, of which *)
(* there is one for each date and content.  Every step leaves rows in an   *)
(* audit trail.                                                            *)
(*                                                                         *)
(* A page is [text, rows] and stands for its bytes and their hash; text is *)
(* "rows", "empty" or "blocked".  An answer adds the HTTP status and       *)
(* whether it is said to be HTML.  A row's random identifier is the number *)
(* of the capture that makes it.  The one parser version is left out.      *)
(* The behaviour has its names (CaptureSpec, captureVars) so that the      *)
(* module can be extended together with EvidenceStore.                     *)
(***************************************************************************)
EXTENDS StatareaParser

CONSTANTS
  Captures,         \* processes that run the command
  Dates,            \* the authorised dates
  ReplayDate,       \* the date whose evidence can be replayed
  Answers,          \* what the source answers: of each date, a set
  MaxRedirects,     \* redirections that are followed
  MaxBegins,        \* bound: captures
  MaxTroubles       \* bound: requests and processes that fail

(* Why a page that was received has failed.                                *)
Failures == {"HTTP_STATUS", "INVALID_CONTENT_TYPE", "EMPTY_CONTENT", "BLOCKED_CONTENT",
             "ZERO_VALID_ROWS"}

Pages == {answer.page : answer \in UNION {Answers[date] : date \in Dates}}

(* The answer that a replay makes of a stored page.                        *)
Replayed(page) == [status |-> 200, html |-> TRUE, page |-> page]

Responses == (UNION {Answers[date] : date \in Dates}) \union {Replayed(page) : page \in Pages}

ASSUME StatareaAssumption ==
  /\ ReplayDate \in Dates
  /\ DOMAIN Answers = Dates
  /\ \A page \in Pages : page.rows \in Seq({page.rows[i] : i \in DOMAIN page.rows})
  /\ Absent \notin Pages \union Responses /\ Absent \notin {"PART", "WHOLE"} \union Failures
  /\ MaxRedirects \in Nat /\ MaxBegins \in Nat /\ MaxTroubles \in Nat

VARIABLES
  evidence,     \* of a date and a page, its file: Absent, PART or WHOLE
  exports,      \* of a capture's number, its file: Absent, or [part, date, page]
  snapshots,    \* rows of statareaCaptureSnapshot with their rows and rejections
  attempts,     \* rows of statareaCaptureAttempt
  events,       \* rows of statareaCaptureAuditEvent
  process,      \* the memory of each process
  begins,       \* captures so far
  troubles      \* failures so far

files       == <<evidence, exports>>
rows        == <<snapshots, attempts, events>>
captureVars == <<files, rows, process, begins, troubles>>

-----------------------------------------------------------------------------
Off == [pc |-> "off", id |-> 0, date |-> Absent, followed |-> Absent, hops |-> 0,
        answer |-> Absent, error |-> Absent, snapshot |-> 0]

CaptureInit ==
  /\ evidence = [key \in Dates \X Pages |-> Absent]
  /\ exports = [id \in 1 .. MaxBegins |-> Absent]
  /\ snapshots = {} /\ attempts = {} /\ events = {}
  /\ process = [p \in Captures |-> Off]
  /\ begins = 0 /\ troubles = 0

At(p, pc)   == process[p].pc = pc
Goes(p, pc) == process' = [process EXCEPT ![p].pc = pc]
Gone(p)     == process' = [process EXCEPT ![p] = Off]

Trouble == troubles < MaxTroubles /\ troubles' = troubles + 1

Page(p) == process[p].answer.page

(* Events of a capture, about the snapshot with the given number if any.   *)
Said(id, types, snapshot) == {[capture |-> id, type |-> t, snapshot |-> snapshot] : t \in types}

Starts(p, memory) ==
  /\ At(p, "off") /\ begins < MaxBegins
  /\ begins' = begins + 1
  /\ process' = [process EXCEPT ![p] = memory]
  /\ events' = events \union Said(begins + 1, {"CAPTURE_STARTED"}, 0)
  /\ UNCHANGED <<files, snapshots, attempts, troubles>>

Begin(p, date) ==
  Starts(p, [Off EXCEPT !.pc = "requesting", !.id = begins + 1,
                        !.date = date, !.followed = date])

(* replay-statarea-evidence: a file whose hash is its name is the answer.  *)
BeginReplay(p, page) ==
  /\ evidence[<<ReplayDate, page>>] = "WHOLE"
  /\ Starts(p, [Off EXCEPT !.pc = "preserving", !.id = begins + 1,
                           !.date = ReplayDate, !.followed = ReplayDate,
                           !.answer = Replayed(page)])

-----------------------------------------------------------------------------
(* fetchStatarea.  A redirection to the page of any authorised date is     *)
(* followed, up to a number of them.                                       *)

Redirect(p, date) ==
  /\ At(p, "requesting")
  /\ process' =
       IF process[p].hops < MaxRedirects
       THEN [process EXCEPT ![p].hops = @ + 1, ![p].followed = date]
       ELSE [process EXCEPT ![p].pc = "failing", ![p].error = "TOO_MANY_REDIRECTS"]
  /\ UNCHANGED <<files, rows, begins, troubles>>

Respond(p) ==
  /\ At(p, "requesting")
  /\ \E answer \in Answers[process[p].followed] :
       process' = [process EXCEPT ![p].pc = "preserving", ![p].answer = answer]
  /\ UNCHANGED <<files, rows, begins, troubles>>

(* No answer, one that is too large, or a redirection elsewhere.           *)
FailRequest(p) ==
  /\ At(p, "requesting")
  /\ Trouble
  /\ process' = [process EXCEPT ![p].pc = "failing", ![p].error = "CAPTURE_ERROR"]
  /\ UNCHANGED <<files, rows, begins>>

-----------------------------------------------------------------------------
(* preserveSourceEvidence: the file is created empty and then filled; the  *)
(* one that is there in the end is read and must have its hash.            *)

EvidenceKey(p) == <<process[p].date, Page(p)>>

Preserve(p) ==
  /\ At(p, "preserving")
  /\ IF evidence[EvidenceKey(p)] = Absent
     THEN /\ evidence' = [evidence EXCEPT ![EvidenceKey(p)] =
                            IF Page(p).text = "empty" THEN "WHOLE" ELSE "PART"]
          /\ Goes(p, "filling")
     ELSE evidence' = evidence /\ Goes(p, "verifying")
  /\ UNCHANGED <<exports, rows, begins, troubles>>

FillEvidence(p) ==
  /\ At(p, "filling")
  /\ evidence' = [evidence EXCEPT ![EvidenceKey(p)] = "WHOLE"]
  /\ Goes(p, "verifying")
  /\ UNCHANGED <<exports, rows, begins, troubles>>

(* Mutant of Verified: a file that exists is not read.                     *)
VerifiedUnread(p) == evidence[EvidenceKey(p)] # Absent

Verified(p) == evidence[EvidenceKey(p)] = "WHOLE"

(* EVIDENCE_HASH_MISMATCH is thrown where no attempt is recorded.          *)
Verify(p) ==
  /\ At(p, "verifying")
  /\ IF Verified(p) THEN Goes(p, "receiving") ELSE Gone(p)
  /\ UNCHANGED <<files, rows, begins, troubles>>

-----------------------------------------------------------------------------
Failure(answer) ==
  IF answer.status # 200 THEN "HTTP_STATUS"
  ELSE IF ~answer.html THEN "INVALID_CONTENT_TYPE"
  ELSE IF answer.page.text = "empty" THEN "EMPTY_CONTENT"
  ELSE IF answer.page.text = "blocked" THEN "BLOCKED_CONTENT"
  ELSE Absent

(* Mutant of Parsed: the date of the page that was reached is meant.       *)
ParsedAsFollowed(p) == Parse(Page(p).rows, process[p].followed)

Parsed(p) == Parse(Page(p).rows, process[p].date)

Receive(p) ==
  LET failure == Failure(process[p].answer)
      error == IF failure # Absent THEN failure
               ELSE IF Parsed(p).rows = {} THEN "ZERO_VALID_ROWS" ELSE Absent
  IN  /\ At(p, "receiving")
      /\ events' = events \union Said(process[p].id, {"RESPONSE_RECEIVED"}, 0)
      /\ process' = [process EXCEPT ![p].pc = IF error = Absent THEN "looking" ELSE "failing",
                                    ![p].error = error]
      /\ UNCHANGED <<files, snapshots, attempts, begins, troubles>>

(* A failed attempt and its event, in one transaction.                     *)
Fail(p) ==
  /\ At(p, "failing")
  /\ attempts' = attempts \union
       {[id |-> process[p].id, status |-> "FAILED", date |-> process[p].date,
         page |-> IF process[p].answer = Absent THEN Absent ELSE Page(p), snapshot |-> 0]}
  /\ events' = events \union Said(process[p].id, {"CAPTURE_FAILED"}, 0)
  /\ Gone(p)
  /\ UNCHANGED <<files, snapshots, begins, troubles>>

-----------------------------------------------------------------------------
(* The unique key of a snapshot.                                           *)
SameKey(p) == {s \in snapshots : s.date = process[p].date /\ s.page = Page(p)}

Find(p) ==
  /\ At(p, "looking")
  /\ IF SameKey(p) = {}
     THEN process' = [process EXCEPT ![p].pc = "exporting", ![p].snapshot = process[p].id]
     ELSE \E s \in SameKey(p) :
            process' = [process EXCEPT ![p].pc = "closing", ![p].snapshot = s.id]
  /\ UNCHANGED <<files, rows, begins, troubles>>

(* preserveStatareaExport, under an identifier that is new.                *)
Export(p) ==
  /\ At(p, "exporting")
  /\ exports' = [exports EXCEPT ![process[p].id] =
                   [part |-> "PART", date |-> process[p].date, page |-> Page(p)]]
  /\ Goes(p, "completing")
  /\ UNCHANGED <<evidence, rows, begins, troubles>>

FillExport(p) ==
  /\ At(p, "completing")
  /\ exports' = [exports EXCEPT ![process[p].id].part = "WHOLE"]
  /\ Goes(p, "creating")
  /\ UNCHANGED <<evidence, rows, begins, troubles>>

(* Mutant of Taken: the key of the snapshots is not unique.                *)
TakenNever(p) == FALSE

Taken(p) == SameKey(p) # {}

(* A capture that lost the race throws, and leaves its export.             *)
Create(p) ==
  /\ At(p, "creating")
  /\ IF Taken(p) THEN Gone(p) /\ snapshots' = snapshots
     ELSE /\ Goes(p, "auditing")
          /\ snapshots' = snapshots \union
               {[id |-> process[p].id, date |-> process[p].date, page |-> Page(p),
                 parsed |-> Parsed(p)]}
  /\ UNCHANGED <<files, attempts, events, begins, troubles>>

Creations == {"SNAPSHOT_CREATED", "ROWS_PERSISTED", "ROWS_REJECTED",
              "EXPORT_GENERATED", "CONTRACT_VALIDATED"}

(* Mutant of Audit: the last of the five events is forgotten.              *)
AuditPartly(p) ==
  /\ At(p, "auditing")
  /\ events' = events \union Said(process[p].id, Creations \ {"CONTRACT_VALIDATED"},
                                  process[p].snapshot)
  /\ Goes(p, "closing")
  /\ UNCHANGED <<files, snapshots, attempts, begins, troubles>>

Audit(p) ==
  /\ At(p, "auditing")
  /\ events' = events \union Said(process[p].id, Creations, process[p].snapshot)
  /\ Goes(p, "closing")
  /\ UNCHANGED <<files, snapshots, attempts, begins, troubles>>

Status(p) == IF process[p].snapshot # process[p].id THEN "REUSED"
             ELSE IF DOMAIN Parsed(p).rejections # {} THEN "PARTIAL" ELSE "SUCCEEDED"

Closing(status) == CASE status = "REUSED"    -> "SNAPSHOT_REUSED"
                     [] status = "PARTIAL"   -> "CAPTURE_PARTIAL"
                     [] status = "SUCCEEDED" -> "CAPTURE_SUCCEEDED"
                     [] status = "FAILED"    -> "CAPTURE_FAILED"

(* The attempt and the last event, in one transaction.                     *)
Close(p) ==
  /\ At(p, "closing")
  /\ attempts' = attempts \union
       {[id |-> process[p].id, status |-> Status(p), date |-> process[p].date,
         page |-> Page(p), snapshot |-> process[p].snapshot]}
  /\ events' = events \union Said(process[p].id, {Closing(Status(p))}, process[p].snapshot)
  /\ Gone(p)
  /\ UNCHANGED <<files, snapshots, begins, troubles>>

(* The process dies, or a file, a row, a transaction or the check of the   *)
(* exported document throws: nothing else is recorded.                     *)
Perish(p) ==
  /\ ~At(p, "off")
  /\ Trouble /\ Gone(p)
  /\ UNCHANGED <<files, rows, begins>>

-----------------------------------------------------------------------------
Step(p) ==
  \/ Respond(p) \/ FailRequest(p) \/ \E date \in Dates : Redirect(p, date)
  \/ Preserve(p) \/ FillEvidence(p) \/ Verify(p) \/ Receive(p) \/ Fail(p)
  \/ Find(p) \/ Export(p) \/ FillExport(p) \/ Create(p) \/ Audit(p) \/ Close(p)

CaptureNext ==
  \E p \in Captures :
    \/ \E date \in Dates : Begin(p, date)
    \/ \E page \in Pages : BeginReplay(p, page)
    \/ Step(p) \/ Perish(p)

CaptureSpec == CaptureInit /\ [][CaptureNext]_captureVars

-----------------------------------------------------------------------------
(* What a snapshot was made from can be read again: whatever crashed,      *)
(* overlapped or was left half written, a snapshot has the whole page in   *)
(* its evidence file, and a whole export of the same date and page.        *)
SnapshotsAreKept ==
  \A s \in snapshots :
    /\ evidence[<<s.date, s.page>>] = "WHOLE"
    /\ exports[s.id] = [part |-> "WHOLE", date |-> s.date, page |-> s.page]

(* "conservacion ante HTML diferente ... idempotencia ante contenido       *)
(* identico": there is one snapshot of a date and a page, also when two    *)
(* captures looked for it together, and a capture that ended well names    *)
(* the snapshot of the page it received, as its own or as one it reused.   *)
CapturesAreIdempotent ==
  /\ \A s, t \in snapshots : s.date = t.date /\ s.page = t.page => s = t
  /\ \A a \in attempts : a.status # "FAILED" =>
       \E s \in snapshots :
         /\ s.id = a.snapshot /\ s.date = a.date /\ s.page = a.page
         /\ a.status = "REUSED" <=> s.id # a.id
         /\ a.status = "SUCCEEDED" => DOMAIN s.parsed.rejections = {}

(* Redirected or not, a snapshot has rows of its own date only, at least   *)
(* one, each once and between different teams; with what was rejected and  *)
(* what was repeated they are all the rows of the page.                    *)
SnapshotsAreOfTheirDate ==
  \A s \in snapshots :
    /\ s.parsed.rows # {}
    /\ \A r \in s.parsed.rows : r.date = s.date /\ Norm(r.home) # Norm(r.away)
    /\ \A r, q \in s.parsed.rows : RowKey(r) = RowKey(q) => r = q
    /\ s.parsed.found = Cardinality(s.parsed.rows)
                          + Cardinality(DOMAIN s.parsed.rejections) + s.parsed.duplicates

(* A capture that ended, well or badly, has left its whole trail and       *)
(* nothing else: it began, its response is there when it has one, the five *)
(* events of a snapshot when it made one, and the one end it came to.      *)
Trail(a) ==
  {"CAPTURE_STARTED", Closing(a.status)}
    \union (IF a.page = Absent THEN {} ELSE {"RESPONSE_RECEIVED"})
    \union (IF a.status \in {"SUCCEEDED", "PARTIAL"} THEN Creations ELSE {})

TrailsAreWhole ==
  /\ \A a \in attempts : {e.type : e \in {f \in events : f.capture = a.id}} = Trail(a)
  /\ \A a, b \in attempts : a.id = b.id => a = b
  /\ \A e \in events : e.snapshot # 0 => \E s \in snapshots : s.id = e.snapshot
=============================================================================
