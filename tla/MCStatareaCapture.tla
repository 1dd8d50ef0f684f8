--------------------------- MODULE MCStatareaCapture ---------------------------
(***************************************************************************)
(* An instance of StatareaCapture for TLC: two captures that overlap, two  *)
(* dates, and pages that are good, partly good, of another date and empty. *)
(***************************************************************************)
EXTENDS StatareaCapture, TLC

CONSTANTS first, second

Alike == Permutations({first, second})

Day(date) ==
  [home |-> <<"home", 1>>, away |-> <<"away", 1>>, date |-> date, columns |-> "cells"]

Good    == [text |-> "rows", rows |-> <<Day(1), Day(1)>>]
Mixed   == [text |-> "rows", rows |-> <<Day(1), [Day(1) EXCEPT !.columns = "others"],
                                        Day(2), [Day(1) EXCEPT !.away = Absent]>>]
Empty   == [text |-> "empty", rows |-> <<>>]

Answer(status, page) == [status |-> status, html |-> TRUE, page |-> page]

SomeAnswers == 1 :> {Answer(200, Good), Answer(200, Mixed), Answer(503, Good)}
                 @@ 2 :> {Answer(200, Mixed), Answer(200, Empty)}

(* What the tests of the parser and of the client say.                     *)
ASSUME TestedRows ==
  LET sample == Day(1)
      why(row) == Reasons(row, 1)
  IN  /\ why(sample) = {}
      /\ why([sample EXCEPT !.home = Absent]) = {1}
      /\ why([sample EXCEPT !.away = <<"home", 2>>]) = {2}
      /\ why([sample EXCEPT !.date = Absent]) = {3}
      /\ why([sample EXCEPT !.date = 2, !.columns = Absent]) = {4, 5}
      /\ ReasonCode([sample EXCEPT !.date = 2, !.columns = Absent], 1) = "DATE_MISMATCH"
      /\ Parse(<<sample, sample>>, 1).duplicates = 1
      /\ Failure([Answer(200, Good) EXCEPT !.html = FALSE]) = "INVALID_CONTENT_TYPE"
      /\ Failure(Answer(200, [text |-> "blocked", rows |-> <<>>])) = "BLOCKED_CONTENT"
=============================================================================
