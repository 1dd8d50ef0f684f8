---------------------------- MODULE CaptureStore ----------------------------
(***************************************************************************)
(* PrismaApiFootballRepositories and PrismaProviderRequestAuditRepository: *)
(* the rows a capture leaves in SQLite.  Each operation is one transaction *)
(* and is given as what it answers and the database it commits.  Nothing   *)
(* is ever updated or deleted.                                             *)
(*                                                                         *)
(* A target stands for its provider fixture identity, a content for the    *)
(* bytes of a response and for their hash, an instant for a timestamp.     *)
(***************************************************************************)
EXTENDS Integers

CONSTANT NoRow     \* findUnique, findFirst: null

EmptyDatabase(targets) ==
  [artifacts   |-> {},                                  \* contents registered
   bindings    |-> [t \in targets |-> NoRow],           \* providerFixtureIdentity
   predictions |-> {},                                  \* predictionSnapshot
   outcomes    |-> {},                                  \* outcome
   audits      |-> {}]                                  \* providerRequestAudit

Answer(disposition, db) == [disposition |-> disposition, db |-> db]

(* #registerSourceArtifact: contents are their own key, so the same bytes  *)
(* are found again.  A rejection that follows is returned, not thrown: the *)
(* transaction commits and the artifact stays.                             *)
WithArtifact(db, content) == [db EXCEPT !.artifacts = @ \union {content}]

(* persistFixtureCapture: one binding for each target, for ever.           *)
PersistFixture(db, t, content, binding) ==
  LET found == db.bindings[t]
      kept  == WithArtifact(db, content)
  IN  IF found = NoRow THEN Answer("CREATED", [kept EXCEPT !.bindings[t] = binding])
      ELSE IF found = binding THEN Answer("REPLAYED", kept)
      ELSE Answer("CONFLICT", kept)

(* persistPredictionCapture: a snapshot is keyed by target and instant and *)
(* needs the binding of its target.                                        *)
PersistPrediction(db, t, content, at) ==
  LET snapshot == [target |-> t, at |-> at, content |-> content]
      rivals   == {p \in db.predictions : p.target = t /\ p.at = at}
      kept     == WithArtifact(db, content)
  IN  IF db.bindings[t] = NoRow THEN Answer("NOT_FOUND", kept)
      ELSE IF rivals = {} THEN Answer("CREATED", [kept EXCEPT !.predictions = @ \union {snapshot}])
      ELSE IF snapshot \in rivals THEN Answer("REPLAYED", kept)
      ELSE Answer("CONFLICT", kept)

(* persistOutcomeCapture: an outcome is keyed by target and bytes, and two *)
(* of one target are not observed at one instant.  A later outcome of the  *)
(* target does not name the earlier one.                                   *)
PersistOutcome(db, t, content, at, resolution) ==
  LET outcome == [target |-> t, content |-> content, at |-> at, resolution |-> resolution,
                  supersedes |-> NoRow]
      exact   == {o \in db.outcomes : o.target = t /\ o.content = content}
      kept    == WithArtifact(db, content)
  IN  IF ~resolution.goals THEN Answer("FAILED", db)
      ELSE IF exact # {}
        THEN IF \A o \in exact : o.resolution = resolution
             THEN Answer("REPLAYED", kept) ELSE Answer("CONFLICT", kept)
      ELSE IF \E o \in db.outcomes : o.target = t /\ o.at = at THEN Answer("CONFLICT", kept)
      ELSE Answer("CREATED", [kept EXCEPT !.outcomes = @ \union {outcome}])

(* append: a record is keyed by request and attempt number; a row that has *)
(* the key but differs in anything, its timestamps included, is a conflict.*)
AppendAudit(db, record) ==
  LET rivals == {a \in db.audits : a.request = record.request /\ a.number = record.number}
  IN  IF rivals = {} THEN Answer("CREATED", [db EXCEPT !.audits = @ \union {record}])
      ELSE IF record \in rivals THEN Answer("REPLAYED", db)
      ELSE Answer("CONFLICT", db)

Accepts(answer) == answer.disposition \in {"CREATED", "REPLAYED"}
=============================================================================
