---------------------------- MODULE MCOutcomeRun ----------------------------
(***************************************************************************)
(* Instances of OutcomeRun for TLC.  What the transport answers goes       *)
(* through ApiFootballClient; the daily threshold is 2.                    *)
(***************************************************************************)
EXTENDS OutcomeRun, TLC

Client == INSTANCE ApiFootballClient

Headers(daily, minute) ==
  [requestsLimit |-> 5, requestsRemaining |-> daily,
   limit |-> 5, remaining |-> minute, retryAfter |-> None]

Http(status, body, h) ==
  [transport |-> "HTTP", timedOut |-> FALSE, status |-> status, body |-> body, headers |-> h]

Good       == Client!ClientResult(Http(200, "VALID", Headers(3, 3)))
LastOfDay  == Client!ClientResult(Http(200, "VALID", Headers(1, 3)))
NoMinutes  == Client!ClientResult(Http(200, "VALID", Headers(3, None)))
ServerDown == Client!ClientResult(Http(500, "VALID", Headers(3, 3)))
CutOff     == Client!ClientResult(Http(200, "INTERRUPTED", Headers(3, 3)))

AllExchanges == {Good, LastOfDay, NoMinutes, ServerDown, CutOff}

Score(home, away) == [home |-> home, away |-> away]
NoScore == Score(None, None)

Played ==
  [rows |-> 1, identified |-> TRUE, status |-> "FT", fulltime |-> Score(2, 1),
   extratime |-> NoScore, penalty |-> NoScore, goals |-> TRUE, version |-> 1]

Shootout == [Played EXCEPT !.status = "PEN", !.fulltime = Score(1, 1), !.penalty = Score(4, 3)]

Extended == [Played EXCEPT !.status = "AET", !.fulltime = Score(1, 1),
                           !.extratime = Score(1, 0)]

(* Results, among them two of one match that differ, and what is none: no  *)
(* row, or one of something else; not over; without a score it must have,  *)
(* or with half of one; a shootout without a winner; and half a score that *)
(* nothing asks for.                                                       *)
AllPayloads == [OUTCOME |->
  {Played, Extended, Shootout,
   [Played EXCEPT !.goals = FALSE],
   [Played EXCEPT !.rows = 0],
   [Played EXCEPT !.identified = FALSE],
   [Played EXCEPT !.status = "NS"],
   [Played EXCEPT !.fulltime = NoScore],
   [Extended EXCEPT !.extratime = NoScore],
   [Shootout EXCEPT !.penalty = Score(None, 3)],
   [Shootout EXCEPT !.penalty = Score(4, 4)],
   [Played EXCEPT !.penalty = Score(4, None)]}]

TwoTargets == <<"t1", "t2">>
=============================================================================
