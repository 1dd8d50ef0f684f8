------------------------------ MODULE MCDailyRun ------------------------------
(***************************************************************************)
(* An instance of DailyRun for TLC, with four fixtures of one date of      *)
(* which two may be taken.  TLC explores two parts of it.  Recording: two  *)
(* sport keys, the unit's run and one by hand at once, one failure.        *)
(* Sampling: two dates, one run at a time, a fixture that is moved.        *)
(***************************************************************************)
EXTENDS DailyRun, FiniteSetsExt

Forecast(home, draw, away, winner, advised) ==
  [home |-> home, draw |-> draw, away |-> away, winner |-> winner, advised |-> advised]

Strong   == Forecast(50, 40, 10, "HOME", TRUE)    \* MODEL_REVIEW
Opposed  == Forecast(20, 30, 50, "AWAY", FALSE)   \* PASS

KindOfDay    == [f \in Fixtures |-> IF f = 1 THEN "FRIENDLY" ELSE "SENIOR"]
KeyOfEach    == [f \in Fixtures |-> IF f = 4 THEN None ELSE f]
KickoffOfAll == [f \in Fixtures |-> 1]
ForecastsOf  == [f \in Fixtures |-> IF f = 3 THEN {Opposed} ELSE {Strong}]

(* Both parts begin in the same states and share those of one run by hand  *)
(* before the clock moves.                                                 *)
Recording ==
  /\ clock = 0 /\ kickoff = FirstKickoff
  /\ Cardinality(runs) <= 2
  /\ \A r \in Runners : runner[r].date = 0
  /\ \A run \in runs : run.derivedFrom # None => run.id[1][1] = "ALIAS_REPLAY"

Sampling == supported = {} /\ troubles = 0 /\ runner["unit"] = Off

Parts == Recording \/ Sampling

(* "La respuesta diaria completa se filtra antes de aplicar el limite":    *)
(* whatever the list holds, a fixture that passes the filter is left out   *)
(* only when there are already as many as the run may take, and those come *)
(* before it.                                                              *)
SomeEntries ==
  [fixture : Fixtures, kickoff : {0, 1}, status : {"NS", "FT"}]

ASSUME CapAfterFilter ==
  \A list \in SUBSET SomeEntries :
    /\ Cardinality(list) <= 4
    /\ \A d, e \in list : d.fixture = e.fixture => d = e
    => LET passing  == Passing(list, 0, 0)
           admitted == Admitted(list, 0, 0)
       IN  /\ Cardinality(admitted) <= MaxFixtures
           /\ passing # admitted => Cardinality(admitted) = MaxFixtures
           /\ \A f \in admitted, g \in passing \ admitted : f < g

-----------------------------------------------------------------------------
(* The matchers, on small inputs.                                          *)
Matching == INSTANCE EventMatching

Descriptors ==
  {d \in [provider : {"p"}, id : {1, 2}, kickoff : {0, 2, 3}, written : {"UTC"},
          competition : {1, 2}, home : 1..3, away : 1..3] : d.home # d.away}

Wanted == [provider |-> "s", id |-> 1, kickoff |-> 0, written |-> "UTC",
           competition |-> 1, home |-> 1, away |-> 2]

(* "27 never reports a reversed orientation as matched", "48 lets a        *)
(* competition conflict override an otherwise valid candidate" and "53     *)
(* preserves status across candidate permutations": for any two candidates.*)
ASSUME MatchedIsUnambiguous ==
  \A c, d \in Descriptors :
    LET answer == Matching!MatchProviderEvent(Wanted, <<c, d>>, 2)
        other  == Matching!MatchProviderEvent(Wanted, <<d, c>>, 2)
    IN  /\ answer.status = other.status
        /\ answer.event # 0 =>
             /\ <<c, d>>[answer.event] = <<d, c>>[other.event]
             /\ \A x \in {c, d} \ {<<c, d>>[answer.event]} :
                  x.kickoff > 2 \/ x.competition # 1 \/ {x.home, x.away} # {1, 2}

(* A registry that holds what was proposed for a fixture, each of them     *)
(* then approved, makes the fixture match the event of the proposals, or   *)
(* shows that a second event bears the same names.                         *)
Match == [home |-> [team |-> 1, name |-> "h"], away |-> [team |-> 2, name |-> "a"],
          kickoff |-> 0, country |-> "x", competition |-> "y"]

OddsEvents ==
  {e \in [home : {"h", "a", "p"}, away : {"h", "a", "q"}, kickoff : {0, 3},
          sport : {"SOCCER", "OTHER"}, coherent : {{}, {"y"}}] : e.home # e.away}

ASSUME ApprovedProposalsMatch ==
  \A d, e \in OddsEvents :
    LET proposed == Matching!Proposals(Match, <<d, e>>, 2, "z")
        decisions == {[row EXCEPT !.status = "APPROVED"] : row \in proposed}
        registry == FoldSet(LAMBDA row, aliases : Matching!Reviewed(aliases, row),
                            proposed, decisions)
        answer   == Matching!MatchOddsFixture(Match, <<d, e>>, registry, 2)
    IN  proposed # {} =>
          /\ registry = proposed \union decisions
          /\ \/ answer.status = "MULTIPLE_EVENTS"
             \/ /\ answer.status = "MATCHED_APPROVED_ALIAS"
                /\ <<d, e>>[answer.event].coherent = {"y"}
=============================================================================
