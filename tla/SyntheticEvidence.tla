--------------------------- MODULE SyntheticEvidence ---------------------------
(***************************************************************************)
(* What the capture foundation does with one answer of a provider: the raw *)
(* evidence and its append-only store, the validation of the observations  *)
(* the answer is normalised to, and the deduplication of an orchestrator.  *)
(*                                                                         *)
(* An answer is [at, drafts]: the instant it was captured and the sequence *)
(* of drafts its body holds.  The body stands for its hash, so the hash of *)
(* an observation is that of the whole answer.  Identifiers are tuples.    *)
(***************************************************************************)
EXTENDS Integers, Sequences, FiniteSets, SequencesExt

CONSTANT Absent

(* Absent is no error and no instant.                                      *)
ASSUME AbsentAssumption ==
  /\ Absent \notin {"CAPTURE_CONTENT_INVALID", "FIXTURE_IDENTITY_CONFLICT"}
  /\ Absent \notin Int

(* The reference a provider asks for: of the universe, or of a fixture.    *)
Reference(capability, f) == <<capability, f>>

(* createRawEvidence: the identity is the provider, the reference and the  *)
(* time; the bytes are not part of it.                                     *)
RawEvidence(provider, reference, answer) ==
  [provider |-> provider, reference |-> reference, at |-> answer.at, sha |-> answer.drafts]

SameIdentity(e, r) ==
  e.provider = r.provider /\ e.reference = r.reference /\ e.at = r.at

(* Mutant of Conflicts: an identity that is known is a replay whatever its *)
(* content.                                                                *)
ConflictsNever(store, e) == FALSE

(* publish: a known identity with other content is refused; with the same  *)
(* content it is a replay, whose record is the one already there.          *)
Conflicts(store, e) == \E r \in store : SameIdentity(e, r) /\ r.sha # e.sha

Replays(store, e) == \E r \in store : SameIdentity(e, r)

Published(store, e) ==
  IF Replays(store, e) THEN CHOOSE r \in store : SameIdentity(e, r) ELSE e

(* findBySourceReference: the first record, in the order of the file       *)
(* names, of those with that reference.                                    *)
FindByReference(store, reference) ==
  LET found == {r \in store : r.reference = reference}
  IN  IF found = {} THEN Absent ELSE CHOOSE r \in found : TRUE

-----------------------------------------------------------------------------
(* Drafts: [kind, id, fixture, at, kickoff, lead, sound, supersedes, body].*)
(* sound says that the tests that look at one draft alone pass: the        *)
(* synthetic labels and the allowed competition; probabilities between 0   *)
(* and 1 that add up; an active market with odds over one and not in play; *)
(* a score that agrees with its result.  lead is the announced time before *)
(* the kickoff, and body is what else tells two versions apart.            *)

(* Mutant of BeforeKickoff: the kickoff itself is taken for prematch.      *)
BeforeKickoffInclusive(at, kickoff) == at <= kickoff

BeforeKickoff(at, kickoff) == at < kickoff

(* validateFixture, validateForebet, validateOdds, validateClosing and     *)
(* validateOutcome, against the fixture the provider was asked about.      *)
Acceptable(draft, kickoff) ==
  /\ draft.sound
  /\ CASE draft.kind = "FIXTURES" -> TRUE
       [] draft.kind = "OUTCOMES" -> draft.at > kickoff
       [] draft.kind = "CLOSING"  -> /\ BeforeKickoff(draft.at, kickoff)
                                     /\ kickoff - draft.at = draft.lead
       [] OTHER                   -> BeforeKickoff(draft.at, kickoff)

(* attachEvidence.                                                         *)
Observation(draft, evidence) ==
  [draft |-> draft, reference |-> evidence.reference, hash |-> evidence.sha]

-----------------------------------------------------------------------------
(* The deduplicator: the hashes known by record and by logical identity.   *)
Fresh == [records |-> {}, logical |-> {}]

(* A fixture is its own record; everything else has an identifier.         *)
RecordKey(draft) ==
  <<draft.kind, IF draft.kind = "FIXTURES" THEN draft.fixture ELSE draft.id>>

LogicalKey(draft) ==
  <<draft.kind, draft.fixture, draft.at,
    IF draft.kind = "FIXTURES" THEN draft.kickoff
    ELSE IF draft.kind = "OUTCOMES" THEN draft.supersedes ELSE Absent>>

Classify(dedup, draft, hash) ==
  LET byRecord  == {p \in dedup.records : p[1] = RecordKey(draft)}
      byLogical == {p \in dedup.logical : p[1] = LogicalKey(draft)}
      known     == IF byRecord # {} THEN byRecord ELSE byLogical
  IN  IF known = {} THEN "NEW"
      ELSE IF \A p \in known : p[2] = hash THEN "DUPLICATE" ELSE "CONFLICT"

Remember(dedup, drafts, hash) ==
  [records |-> dedup.records \union {<<RecordKey(d), hash>> : d \in drafts},
   logical |-> dedup.logical \union {<<LogicalKey(d), hash>> : d \in drafts}]

-----------------------------------------------------------------------------
(* The drafts of one answer are taken in order until one is refused.  What *)
(* becomes of each is its verdict: that of the deduplicator, which knows   *)
(* the new ones before it, or INVALID when the validation refuses it.      *)
Verdicts == {"NEW", "DUPLICATE", "CONFLICT", "INVALID", "SKIPPED"}

NewAmong(drafts, verdicts, positions) ==
  {drafts[i] : i \in {j \in positions : verdicts[j] = "NEW"}}

VerdictAt(i, verdicts, dedup, drafts, hash, kickoff) ==
  LET before == {j \in DOMAIN drafts : j < i}
  IN  IF \E j \in before : verdicts[j] \notin {"NEW", "DUPLICATE"} THEN "SKIPPED"
      ELSE IF ~Acceptable(drafts[i], kickoff) THEN "INVALID"
      ELSE Classify(Remember(dedup, NewAmong(drafts, verdicts, before), hash), drafts[i], hash)

Taken(verdicts, dedup, drafts, evidence) ==
  LET new  == NewAmong(drafts, verdicts, DOMAIN drafts)
      Some(verdict) == {i \in DOMAIN drafts : verdicts[i] = verdict}
  IN  [dedup |-> Remember(dedup, new, evidence.sha),
       accepted |-> {Observation(d, evidence) : d \in new},
       duplicates |-> Cardinality(Some("DUPLICATE")),
       error |-> IF Some("INVALID") # {} THEN "CAPTURE_CONTENT_INVALID"
                 ELSE IF Some("CONFLICT") # {} THEN "FIXTURE_IDENTITY_CONFLICT" ELSE Absent]

(* What is taken of an answer: one record, as the verdicts follow from     *)
(* each other in order.                                                    *)
Takings(dedup, drafts, evidence, kickoff) ==
  {Taken(v, dedup, drafts, evidence) :
     v \in {w \in [DOMAIN drafts -> Verdicts] : \A i \in DOMAIN drafts :
             w[i] = VerdictAt(i, w, dedup, drafts, evidence.sha, kickoff)}}
=============================================================================
