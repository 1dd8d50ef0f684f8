----------------------------- MODULE PacketContract -----------------------------
(***************************************************************************)
(* The contract a prospective packet is validated against in Python        *)
(* (ou25_analytics.prospective.contracts): the models of its records and   *)
(* what relates the records of one packet.                                 *)
(*                                                                         *)
(* A packet is a record of sequences, as in its JSON.  Instants are        *)
(* numbers, DayLength of them a day; probabilities, odds and percentages   *)
(* are integers in units of which Whole make one.                          *)
(***************************************************************************)
EXTENDS Integers, Sequences, FiniteSets, SequencesExt

CONSTANTS
  None,
  DayLength,      \* instants in a day
  Whole,          \* the unit of probabilities and odds
  Tolerance       \* PROBABILITY_TOLERANCE, in that unit

Day(t) == t \div DayLength

Distinct(s) == \A i, j \in DOMAIN s : s[i] = s[j] => i = j

Ids(s) == [i \in DOMAIN s |-> s[i].id]

Distance(x, y) == IF x < y THEN y - x ELSE x - y

-----------------------------------------------------------------------------
(* The models of single records: field constraints and validators.         *)

MarketSelections(market) ==
  CASE market = "MATCH_ODDS_1X2" -> {"HOME", "DRAW", "AWAY"}
    [] market = "DOUBLE_CHANCE"  -> {"HOME_OR_DRAW", "DRAW_OR_AWAY"}
    [] market = "DRAW_NO_BET"    -> {"HOME_DNB", "AWAY_DNB"}

UniverseSound(u) ==
  /\ u.from <= u.to
  /\ \A i \in 1..4 : LET list == <<u.competitions, u.markets, u.bookmakers, u.roles>>[i]
                    IN  list # <<>> /\ Distinct(list)

MetadataSound(m) ==
  /\ m.synthetic <=> m.classification = "SYNTHETIC"
  /\ m.stage = "SYNTHETIC_FULL" => m.synthetic
  /\ m.sources # <<>> /\ Distinct(m.sources)

ManifestSound(items) ==
  items # <<>> /\ Distinct([i \in DOMAIN items |-> items[i].reference])

FixtureSound(f) ==
  /\ f.kickoff = None => f.confidence \notin {"CONFIRMED", "HIGH"}
  /\ f.kickoff # None => f.home # f.away

ForebetSound(s) ==
  /\ {s.home, s.draw, s.away} \subseteq 0..Whole
  /\ Distance(s.home + s.draw + s.away, Whole) <= Tolerance

(* The normalised probability is the percentage, to the last digit.        *)
SelectionSound(s) == s.normalized = s.raw /\ s.raw \in 0..Whole

(* Three selections in order, whose exact total is the reported one and is *)
(* one within a ten thousandth, captured before the kickoff.               *)
PredictionSound(p) ==
  LET total == p.selections[1].raw + p.selections[2].raw + p.selections[3].raw
  IN  /\ [i \in 1..3 |-> p.selections[i].key] = <<"HOME", "DRAW", "AWAY">>
      /\ \A i \in 1..3 : SelectionSound(p.selections[i])
      /\ p.total = total
      /\ 10000 * Distance(total, Whole) <= Whole
      /\ p.flag /\ p.at < p.kickoff

QuoteSound(q) ==
  /\ q.price > Whole
  /\ q.selection \in MarketSelections(q.market)
  /\ q.status = "ACTIVE" /\ ~q.inPlay

Quote(d) == <<d.market, d.selection, d.quote>>

DecisionSound(d) ==
  IF d.status = "SELECTED"
  THEN \A i \in 1..3 : Quote(d)[i] # None
  ELSE Quote(d) = <<None, None, None>>

ClosingSound(c) ==
  c.price > Whole /\ c.lead > 0 /\ c.selection \in MarketSelections(c.market)

Result(home, away) ==
  IF home > away THEN "HOME" ELSE IF away > home THEN "AWAY" ELSE "DRAW"

OutcomeSound(o) ==
  /\ o.result = Result(o.home, o.away)
  /\ o.status = "CORRECTED" <=> o.supersedes # None

RecordsSound(p) ==
  /\ UniverseSound(p.universe) /\ MetadataSound(p.metadata) /\ ManifestSound(p.manifest)
  /\ p.fixtures # <<>>
  /\ \A i \in DOMAIN p.fixtures  : FixtureSound(p.fixtures[i])
  /\ \A i \in DOMAIN p.forebets  : ForebetSound(p.forebets[i])
  /\ \A i \in DOMAIN p.odds      : QuoteSound(p.odds[i])
  /\ \A i \in DOMAIN p.decisions : DecisionSound(p.decisions[i])
  /\ \A i \in DOMAIN p.closings  : ClosingSound(p.closings[i])
  /\ \A i \in DOMAIN p.outcomes  : OutcomeSound(p.outcomes[i])

-----------------------------------------------------------------------------
(* ProspectiveCapturePacket.validate_packet.                               *)

(* The lists whose records carry a hash, and all that were recorded.       *)
Evidenced(p) == <<p.fixtures, p.forebets, p.odds, p.closings, p.outcomes>>

Recorded(p) == Evidenced(p) \o <<p.decisions, p.manifest, p.predictions>>

StageSeparate(p) ==
  /\ p.metadata.stage = "PREMATCH" => p.closings = <<>> /\ p.outcomes = <<>>
  /\ p.metadata.stage \in {"CLOSING", "OUTCOME"} =>
       p.forebets = <<>> /\ p.odds = <<>> /\ p.decisions = <<>>
  /\ p.metadata.stage = "CLOSING" => p.outcomes = <<>>
  /\ p.metadata.stage = "OUTCOME" => p.closings = <<>>

WithinUniverse(p) ==
  \A f \in Range(p.fixtures) :
    /\ f.competition \in Range(p.universe.competitions) \union {None}
    /\ f.kickoff # None => Day(f.kickoff) \in p.universe.from..p.universe.to

IdsUnique(p) ==
  /\ \A i \in 1..6 : Distinct(Ids(Recorded(p)[i]))
  /\ Range(Ids(p.closings)) \intersect Range(Ids(p.odds)) = {}

(* Each record carries the hash the manifest gives for its reference.      *)
EvidenceMatches(p) ==
  \A i \in DOMAIN Evidenced(p) :
    \A r \in Range(Evidenced(p)[i]) :
      \E item \in Range(p.manifest) : item.reference = r.reference /\ item.hash = r.hash

(* The fixture of a record, when the packet has it and it has a kickoff    *)
(* that satisfies a relation.                                              *)
FixturesOf(p, id) == {f \in Range(p.fixtures) : f.id = id}

PriorToKickoff(p, id, at) ==
  \E f \in FixturesOf(p, id) : f.kickoff # None /\ at < f.kickoff

ForebetsPrior(p) ==
  \A s \in Range(p.forebets) : PriorToKickoff(p, s.fixture, s.at)

Offered(p, q) ==
  q.bookmaker \in Range(p.universe.bookmakers) /\ q.market \in Range(p.universe.markets)

QuotesPrior(p) ==
  \A q \in Range(p.odds) : Offered(p, q) /\ PriorToKickoff(p, q.fixture, q.at)

(* A selected decision rests on a quote of the packet for its fixture,     *)
(* taken by then, of exactly the market and the selection it names.        *)
RestsOnQuote(p, d) ==
  \E q \in Range(p.odds) :
    /\ q.id = d.quote /\ q.id \notin Range(Ids(p.closings))
    /\ q.fixture = d.fixture /\ q.at <= d.at
    /\ q.market = d.market /\ q.selection = d.selection
    /\ d.breakEven # None => d.breakEven * q.price = Whole * Whole

DecisionsFounded(p) ==
  \A d \in Range(p.decisions) :
    /\ PriorToKickoff(p, d.fixture, d.at)
    /\ \A f \in FixturesOf(p, d.fixture) :
         /\ f.confidence \in {"CONFIRMED", "HIGH"} /\ f.status = "SCHEDULED"
         /\ f.competition \in Range(p.universe.competitions)
    /\ d.status = "SELECTED" => RestsOnQuote(p, d)

ClosingsTimed(p) ==
  \A c \in Range(p.closings) :
    /\ Offered(p, c)
    /\ PriorToKickoff(p, c.fixture, c.at)
    /\ \A f \in FixturesOf(p, c.fixture) : Distance(f.kickoff - c.at, c.lead) <= 1

(* The outcomes as validate_packet goes through them: by the time they     *)
(* were observed, and in the order of the packet among equals.             *)
Before(s, i, j) == s[i].at < s[j].at \/ (s[i].at = s[j].at /\ i < j)

(* All but the first outcome of a fixture supersede one of the same        *)
(* fixture that was observed before, and none is superseded twice.         *)
VersionsFollow(s) ==
  /\ \A i, j \in DOMAIN s :
       Before(s, i, j) /\ s[i].fixture = s[j].fixture => s[j].supersedes # None
  /\ \A j \in DOMAIN s : s[j].supersedes # None =>
       \E i \in DOMAIN s :
         s[i].id = s[j].supersedes /\ s[i].fixture = s[j].fixture /\ s[i].at < s[j].at
  /\ \A i, j \in DOMAIN s :
       s[i].supersedes # None /\ s[i].supersedes = s[j].supersedes => i = j

OutcomesLater(p) ==
  \A o \in Range(p.outcomes) :
    \E f \in FixturesOf(p, o.fixture) : f.kickoff # None /\ o.at > f.kickoff

OutcomesVersioned(p) == OutcomesLater(p) /\ VersionsFollow(p.outcomes)

GeneratedLast(p) ==
  \A i \in DOMAIN Recorded(p) :
    \A r \in Range(Recorded(p)[i]) : r.at <= p.generated

(* SourceNeutralProspectiveCapturePacket: the predictions, in order of     *)
(* provider and fixture, each of these once.                               *)
PredictionsCanonical(p) ==
  /\ \A q \in Range(p.predictions) : PredictionSound(q)
  /\ p.predictions # <<>> => p.metadata.stage \notin {"CLOSING", "OUTCOME"}
  /\ Distinct([i \in DOMAIN p.predictions |-> p.predictions[i].fixture])
  /\ \A i, j \in DOMAIN p.predictions :
       i < j => p.predictions[i].fixture <= p.predictions[j].fixture

Accepted(p) ==
  /\ RecordsSound(p)
  /\ p.protocol = p.universe.protocol
  /\ StageSeparate(p) /\ WithinUniverse(p) /\ IdsUnique(p) /\ EvidenceMatches(p)
  /\ ForebetsPrior(p) /\ QuotesPrior(p) /\ DecisionsFounded(p) /\ ClosingsTimed(p)
  /\ OutcomesVersioned(p) /\ GeneratedLast(p)
  /\ p.hash = p.content
  /\ PredictionsCanonical(p)

-----------------------------------------------------------------------------
(* The command that validates one file: its exit code and what it prints.  *)
(* A file is [path, body]: the path says where it is and of what kind.     *)
Markers == {"SYNTHETIC_PROSPECTIVE_PACKET", "NO_REAL_DATA", "NO_REAL_PERFORMANCE_CLAIM"}

Readable(path) ==
  ~path.link /\ path.beneath /\ path.regular /\ path.json /\ ~path.large

OnlySynthetic(p) ==
  p.metadata.synthetic /\ p.labelled

Validated(file) ==
  IF Readable(file.path) /\ ~file.body.urls /\ Accepted(file.body) /\ OnlySynthetic(file.body)
  THEN [exit |-> 0, printed |-> Markers] ELSE [exit |-> 2, printed |-> {}]

(* validateSyntheticPacketWithPython: the file must not have changed       *)
(* meanwhile.                                                              *)
ValidatesWithPython(before, after) ==
  LET result == Validated(before)
  IN  result.exit = 0 /\ before = after /\ Markers \subseteq result.printed
=============================================================================
