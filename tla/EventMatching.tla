----------------------------- MODULE EventMatching -----------------------------
(***************************************************************************)
(* Which event of an odds provider is a fixture: the matcher of provider   *)
(* events, the automatic matcher of the daily run, and the matcher of the  *)
(* offline replay with the registry of team aliases it reads.              *)
(*                                                                         *)
(* All three take events in a sequence and answer [status, event], where   *)
(* event is a position, 0 without a match.  A name is what the matcher's   *)
(* own normalisation leaves of it: for the automatic one a sequence of     *)
(* tokens.  An event's coherent is the set of competitions its sport key   *)
(* and title agree with, and its sport that key: SOCCER, OTHER or None.    *)
(* The policy and the shape of the inputs are taken to be valid.           *)
(***************************************************************************)
EXTENDS Integers, Sequences, FiniteSets

CONSTANT None       \* a string that is empty or unsafe, a scope that is null

Distance(a, b) == IF a < b THEN b - a ELSE a - b

Near(a, b, tolerance) == Distance(a.kickoff, b.kickoff) <= tolerance

Verdict(status, i) == [status |-> status, event |-> i]

Only(S)    == CHOOSE i \in S : S = {i}
Several(S) == \E i, j \in S : i # j

-----------------------------------------------------------------------------
(* matchProviderEvent.  A descriptor is [provider, id, kickoff, written,   *)
(* competition, home, away]; written says how its kickoff is given.        *)

(* validateDescriptor: the first test that fails.                          *)
DescriptorError(d, role) ==
  IF None \in {d.provider, d.id} THEN role
  ELSE IF None \in {d.competition, d.home, d.away} THEN "INVALID_NORMALIZED_KEY"
  ELSE IF d.home = d.away THEN "INVALID_ORIENTATION_INPUT"
  ELSE IF d.written # "UTC" THEN d.written
  ELSE "NONE"

SameTeams(a, b)     == a.home = b.home /\ a.away = b.away
ReversedTeams(a, b) == a.home = b.away /\ a.away = b.home

Classification(s, c, tolerance) ==
  LET within == Near(s, c, tolerance)
      same   == c.competition = s.competition
  IN  CASE within /\ same /\ ReversedTeams(s, c) -> "REVERSED_ORIENTATION_CONFLICT"
        [] within /\ SameTeams(s, c) /\ ~same    -> "COMPETITION_CONFLICT"
        [] within /\ same /\ SameTeams(s, c)     -> "ELIGIBLE"
        [] ~within /\ same /\ (SameTeams(s, c) \/ ReversedTeams(s, c))
                                                 -> "KICKOFF_OUTSIDE_TOLERANCE"
        [] OTHER                                 -> "TEAM_MISMATCH"

(* What is wrong with the input; of several wrong candidates the code      *)
(* names the first by identity, here any of them.                          *)
InputErrors(s, candidates) ==
  IF DescriptorError(s, "INVALID_SOURCE") # "NONE"
  THEN {DescriptorError(s, "INVALID_SOURCE")}
  ELSE IF \E i \in DOMAIN candidates : DescriptorError(candidates[i], "INVALID_CANDIDATE") # "NONE"
  THEN {DescriptorError(candidates[i], "INVALID_CANDIDATE") : i \in DOMAIN candidates} \ {"NONE"}
  ELSE IF \E i, j \in DOMAIN candidates :
            /\ i # j
            /\ candidates[i].provider = candidates[j].provider
            /\ candidates[i].id = candidates[j].id
  THEN {"DUPLICATE_CANDIDATE_IDENTITY"}
  ELSE {}

Classified(s, candidates, tolerance, classes) ==
  {i \in DOMAIN candidates : Classification(s, candidates[i], tolerance) \in classes}

MatchProviderEvent(s, candidates, tolerance) ==
  LET eligible  == Classified(s, candidates, tolerance, {"ELIGIBLE"})
      conflicts == Classified(s, candidates, tolerance,
                              {"REVERSED_ORIENTATION_CONFLICT", "COMPETITION_CONFLICT"})
  IN  IF InputErrors(s, candidates) # {} THEN Verdict("INVALID_INPUT", 0)
      ELSE IF conflicts # {}      THEN Verdict("CONFLICT", 0)
      ELSE IF eligible = {}       THEN Verdict("UNRESOLVED", 0)
      ELSE IF Several(eligible)   THEN Verdict("AMBIGUOUS", 0)
      ELSE Verdict("MATCHED", Only(eligible))

-----------------------------------------------------------------------------
(* matchAutomaticFixture: 20 minutes, similarity of 0.72 of both names.    *)

Tokens(name) == {name[i] : i \in DOMAIN name}

(* tokenSimilarity at least 0.72, where it is 0.65 of the containment and  *)
(* 0.35 of the Jaccard index, and zero for a name without tokens.          *)
Similar(a, b) ==
  LET both  == Cardinality(Tokens(a) \intersect Tokens(b))
      any   == Cardinality(Tokens(a) \union Tokens(b))
      least == IF Cardinality(Tokens(a)) < Cardinality(Tokens(b))
               THEN Cardinality(Tokens(a)) ELSE Cardinality(Tokens(b))
  IN  least > 0 /\ 65 * both * any + 35 * both * least >= 72 * least * any

AutomaticReversed(f, e) == Similar(f.home, e.away) /\ Similar(f.away, e.home)

Coherent(f, e) == f.competition \in e.coherent

Viable(f, e) ==
  /\ ~AutomaticReversed(f, e)
  /\ \/ SameTeams(f, e)
     \/ Similar(f.home, e.home) /\ Similar(f.away, e.away) /\ Coherent(f, e)

MatchAutomaticFixture(f, events, tolerance) ==
  LET within == {i \in DOMAIN events : Near(f, events[i], tolerance)}
      viable == {i \in within : Viable(f, events[i])}
  IN  IF viable # {} /\ ~Several(viable)
      THEN Verdict(IF SameTeams(f, events[Only(viable)])
                  THEN "EXACT_NORMALIZED" ELSE "UNIQUE_HIGH_CONFIDENCE", Only(viable))
      ELSE Verdict(
        CASE within = {} -> "NO_TIME_OVERLAP"
          [] \E i \in within : AutomaticReversed(f, events[i]) -> "ORIENTATION_MISMATCH"
          [] Several(viable) -> "MULTIPLE_CANDIDATES"
          [] \E i \in within : /\ Similar(f.home, events[i].home)
                               /\ Similar(f.away, events[i].away)
                               /\ ~Coherent(f, events[i]) -> "NO_COMPETITION_OVERLAP"
          [] OTHER -> "TEAM_NAME_MISMATCH", 0)

-----------------------------------------------------------------------------
(* The registry of aliases: rows [name, team, country, competition,        *)
(* status, artifact] that are only ever added.                             *)

SameScope(a, b) ==
  a.name = b.name /\ a.country = b.country /\ a.competition = b.competition

SameAlias(a, b) == SameScope(a, b) /\ a.team = b.team

(* A row whose unique key is taken is not added again.                     *)
WithAlias(aliases, row) ==
  IF \E a \in aliases : SameAlias(a, row) /\ a.status = row.status
  THEN aliases ELSE aliases \union {row}

(* findAliasCollision: only a row of exactly the same scope collides.      *)
Collides(aliases, row) ==
  \E a \in aliases : a.status = "APPROVED" /\ SameScope(a, row) /\ a.team # row.team

(* approveTeamAliases, one decision: it needs its proposal, from the same  *)
(* artifact, and an approval must not collide.                             *)
Accepted(aliases, row) ==
  /\ \E a \in aliases : a.status = "PROPOSED" /\ SameAlias(a, row) /\ a.artifact = row.artifact
  /\ row.status = "APPROVED" => ~Collides(aliases, row)

Reviewed(aliases, row) ==
  IF Accepted(aliases, row) THEN WithAlias(aliases, row) ELSE aliases

-----------------------------------------------------------------------------
(* matchOddsFixtureV2.  A fixture's home and away are [team, name].        *)

ScopeCompatible(a, f) ==
  a.country \in {None, f.country} /\ a.competition \in {None, f.competition}

Approved(name, aliases) == {a \in aliases : a.status = "APPROVED" /\ a.name = name}

Compatible(name, f, aliases) == {a \in Approved(name, aliases) : ScopeCompatible(a, f)}

OfTeam(rows, side) == {a \in rows : a.team = side.team}

(* resolveTeam: by its own name, or by exactly one alias, when the aliases *)
(* that apply name one team only.                                          *)
AmbiguousName(name, side, f, aliases) ==
  /\ name # side.name
  /\ \E a, b \in Compatible(name, f, aliases) : a.team # b.team

Resolves(name, side, f, aliases) ==
  \/ name = side.name
  \/ /\ ~AmbiguousName(name, side, f, aliases)
     /\ \E a \in aliases : OfTeam(Compatible(name, f, aliases), side) = {a}

OutOfScope(name, side, f, aliases) ==
  /\ name # side.name
  /\ ~AmbiguousName(name, side, f, aliases)
  /\ OfTeam(Approved(name, aliases), side) # {}
  /\ OfTeam(Compatible(name, f, aliases), side) = {}

MatchOddsFixture(f, events, aliases, tolerance) ==
  LET football == {i \in DOMAIN events : events[i].sport # "OTHER"}
      within   == {i \in football : Near(f, events[i], tolerance)}
      Home(i)  == Resolves(events[i].home, f.home, f, aliases)
      Away(i)  == Resolves(events[i].away, f.away, f, aliases)
      direct   == {i \in within : Home(i) /\ Away(i)}
      Some(Test(_, _, _, _)) ==
        \E i \in within : \/ Test(events[i].home, f.home, f, aliases)
                          \/ Test(events[i].away, f.away, f, aliases)
  IN  CASE football = {}   -> Verdict("EVENT_NOT_FOUND", 0)
        [] football # {} /\ within = {} -> Verdict("KICKOFF_OUTSIDE_TOLERANCE", 0)
        [] Several(direct) -> Verdict("MULTIPLE_EVENTS", 0)
        [] direct # {} /\ ~Several(direct) ->
             Verdict(IF SameTeams([home |-> f.home.name, away |-> f.away.name],
                                 events[Only(direct)])
                    THEN "MATCHED_EXACT" ELSE "MATCHED_APPROVED_ALIAS", Only(direct))
        [] OTHER -> Verdict(
             IF Some(AmbiguousName) THEN "TEAM_ALIAS_AMBIGUOUS"
             ELSE IF \E i \in within : /\ Resolves(events[i].home, f.away, f, aliases)
                                       /\ Resolves(events[i].away, f.home, f, aliases)
             THEN "ORIENTATION_MISMATCH"
             ELSE IF Some(OutOfScope) THEN "SCOPE_MISMATCH"
             ELSE IF \E i \in within : ~Home(i) THEN "HOME_ALIAS_MISSING"
             ELSE "AWAY_ALIAS_MISSING", 0)

(* proposeTeamAliases, for one fixture: when a single event near it agrees *)
(* with its competition, the names that differ.                            *)
Proposals(f, events, tolerance, artifact) ==
  LET coherent == {i \in DOMAIN events :
                     /\ events[i].sport = "SOCCER"
                     /\ Near(f, events[i], tolerance)
                     /\ Coherent(f, events[i])}
      e      == events[Only(coherent)]
      differ == {p \in {<<e.home, f.home>>, <<e.away, f.away>>} : p[1] # p[2].name}
  IN  IF coherent = {} \/ Several(coherent) THEN {}
      ELSE {[name |-> p[1], team |-> p[2].team, country |-> f.country,
             competition |-> f.competition, status |-> "PROPOSED",
             artifact |-> artifact] : p \in differ}
=============================================================================
