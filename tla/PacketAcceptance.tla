---------------------------- MODULE PacketAcceptance ----------------------------
(***************************************************************************)
(* The packets SyntheticCapture writes, read back by the validator in      *)
(* Python: writeAndValidate of the self-check.  Where the capture does not *)
(* look at what the contract asks of a record alone (teams that differ, a  *)
(* kickoff in the window, an allowed bookmaker and market), a record is as *)
(* the synthetic providers make it.                                        *)
(***************************************************************************)
EXTENDS SyntheticCapture

CONSTANTS
  DayLength,      \* instants in a day
  GeneratedAt,    \* generatedAtUtc of the context
  DecidedAt       \* decidedAtUtc of the synthetic decisions

ASSUME AcceptanceAssumption ==
  DayLength \in Nat \ {0} /\ GeneratedAt \in Nat /\ DecidedAt \in Nat

Contract == INSTANCE PacketContract WITH None <- Absent, Whole <- 100, Tolerance <- 1

-----------------------------------------------------------------------------
(* The packet as JSON: what each observation is in the contract.           *)
Sequenced(observations, kind, AsRecord(_)) ==
  LET order == SetToSeq(OfKind(observations, kind))
  IN  [i \in DOMAIN order |-> AsRecord(order[i])]

AsFixture(o) ==
  [id |-> o.draft.fixture, at |-> o.draft.at, reference |-> o.reference, hash |-> o.hash,
   kickoff |-> o.draft.kickoff, home |-> 1, away |-> 2,
   confidence |-> "CONFIRMED", status |-> "SCHEDULED", competition |-> 1]

AsForebet(o) ==
  [id |-> o.draft.id, fixture |-> o.draft.fixture, at |-> o.draft.at,
   reference |-> o.reference, hash |-> o.hash, home |-> 60, draw |-> 25, away |-> 15]

AsQuote(o) ==
  [id |-> o.draft.id, fixture |-> o.draft.fixture, at |-> o.draft.at,
   reference |-> o.reference, hash |-> o.hash, market |-> "DOUBLE_CHANCE",
   selection |-> "HOME_OR_DRAW", bookmaker |-> 1, price |-> 160,
   status |-> "ACTIVE", inPlay |-> FALSE]

AsClosing(o) ==
  [id |-> o.draft.id, fixture |-> o.draft.fixture, at |-> o.draft.at,
   reference |-> o.reference, hash |-> o.hash, market |-> "DOUBLE_CHANCE",
   selection |-> "HOME_OR_DRAW", bookmaker |-> 1, price |-> 160, lead |-> o.draft.lead]

AsOutcome(o) ==
  [id |-> o.draft.id, fixture |-> o.draft.fixture, at |-> o.draft.at,
   reference |-> o.reference, hash |-> o.hash, home |-> 2, away |-> 1, result |-> "HOME",
   status |-> IF o.draft.supersedes = Absent THEN "FINAL" ELSE "CORRECTED",
   supersedes |-> o.draft.supersedes]

(* The first fixture is decided on its quote, the others are not selected. *)
AsDecision(f) ==
  [id |-> f, fixture |-> f, at |-> DecidedAt, breakEven |-> Absent] @@
    IF f = 1 THEN [status |-> "SELECTED", market |-> "DOUBLE_CHANCE",
                   selection |-> "HOME_OR_DRAW", quote |-> <<1, 1>>]
             ELSE [status |-> "ABSTAINED", market |-> Absent, selection |-> Absent, quote |-> Absent]

AsPrediction(s) ==
  [fixture |-> s.fixture, at |-> s.at, kickoff |-> s.kickoff, flag |-> TRUE, total |-> 100,
   selections |-> << [key |-> "HOME", raw |-> 50, normalized |-> 50],
                     [key |-> "DRAW", raw |-> 30, normalized |-> 30],
                     [key |-> "AWAY", raw |-> 20, normalized |-> 20] >>]

AsUniverse ==
  [protocol |-> 1, from |-> 0, to |-> GeneratedAt \div DayLength,
   competitions |-> <<1>>, markets |-> <<"DOUBLE_CHANCE">>, bookmakers |-> <<1>>,
   roles |-> <<"EARLY", "DECISION", "CLOSING">>]

Written(p) ==
  LET references == SetToSeq(DOMAIN p.manifest)
      decisions  == SetToSortSeq(IF p.decided THEN Fixtures ELSE {}, LAMBDA f, g : f < g)
      latest     == SetToSortSeq(p.predictions, LAMBDA s, q : s.fixture < q.fixture)
  IN  [protocol |-> 1, universe |-> AsUniverse, generated |-> GeneratedAt,
       hash |-> Absent, content |-> Absent, urls |-> FALSE, labelled |-> TRUE,
       metadata |-> [synthetic |-> TRUE, classification |-> "SYNTHETIC", stage |-> p.stage,
                     sources |-> SetToSeq(Providers)],
       fixtures |-> Sequenced(p.observations, "FIXTURES", AsFixture),
       forebets |-> Sequenced(p.observations, "FOREBET", AsForebet),
       odds |-> Sequenced(p.observations, "ODDS", AsQuote),
       closings |-> Sequenced(p.observations, "CLOSING", AsClosing),
       outcomes |-> Sequenced(p.observations, "OUTCOMES", AsOutcome),
       decisions |-> [i \in DOMAIN decisions |-> AsDecision(decisions[i])],
       manifest |-> [i \in DOMAIN references |->
                       [reference |-> references[i], hash |-> p.manifest[references[i]],
                        at |-> 0]],
       predictions |-> [i \in DOMAIN latest |-> AsPrediction(latest[i])]]

(* The file writer's own file, in a directory that is allowed.             *)
File(p) ==
  [path |-> [link |-> FALSE, beneath |-> TRUE, regular |-> TRUE, json |-> TRUE, large |-> FALSE],
   body |-> Written(p)]

-----------------------------------------------------------------------------
(* The hash of an observation is not the one the manifest found for its    *)
(* reference: two captures of one reference are in the store.              *)
Rebound(p) == \E o \in p.observations : p.manifest[o.reference] # o.hash

(* A fixture has a correction of what is not in the packet, or two finals, *)
(* which neither the orchestrator nor the assembler holds back.            *)
Unversioned(p) ==
  LET outcomes == OfKind(p.observations, "OUTCOMES")
  IN  \/ BadCorrections(outcomes) # {}
      \/ \E o, q \in outcomes :
           /\ o # q /\ o.draft.fixture = q.draft.fixture
           /\ o.draft.supersedes = q.draft.supersedes

(* A packet that was assembled is what the Python contract accepts, unless *)
(* it has no fixture, one of its references was captured twice with other  *)
(* content, or its outcomes are not a chain of corrections: the tests of   *)
(* the assembler and those of the contract, in two languages, agree on all *)
(* else.                                                                   *)
PacketIsAccepted ==
  \A p \in packets :
    Contract!ValidatesWithPython(File(p), File(p)) <=>
      /\ OfKind(p.observations, "FIXTURES") # {}
      /\ ~Rebound(p) /\ ~Unversioned(p)
=============================================================================
