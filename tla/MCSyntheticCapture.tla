-------------------------- MODULE MCSyntheticCapture --------------------------
(***************************************************************************)
(* An instance of SyntheticCapture for TLC: two fixtures, the providers of *)
(* the foundation, and for each reference a first answer, a revision of it *)
(* at the same time and a later one.                                       *)
(***************************************************************************)
EXTENDS PacketAcceptance

Synthetic == {"forebet", "odds", "outcome"}

SyntheticCapabilities ==
  [p \in Synthetic |-> CASE p = "forebet" -> {"FIXTURES", "FOREBET"}
                         [] p = "odds"    -> {"FIXTURES", "ODDS", "CLOSING"}
                         [] p = "outcome" -> {"OUTCOMES"}]

Draft(kind, version, f, at, body) ==
  [kind |-> kind, id |-> <<f, version>>, fixture |-> f, at |-> at, kickoff |-> Absent,
   lead |-> 0, sound |-> TRUE, supersedes |-> Absent, body |-> body]

Scheduled(f, at, kickoff) ==
  [Draft("FIXTURES", 1, f, at, "a") EXCEPT !.kickoff = kickoff]

At(at, drafts) == [at |-> at, drafts |-> drafts]

Universes ==
  { At(0, <<Scheduled(1, 0, 2), Scheduled(2, 0, 3)>>),
    At(1, <<Scheduled(1, 1, 3), Scheduled(2, 1, 3)>>) }

Forebets(f) ==
  { At(1, <<Draft("FOREBET", 1, f, 1, "a")>>),
    At(2, <<Draft("FOREBET", 2, f, 2, "a")>>) }

(* Of the second fixture the quote is in play, or revised in place.        *)
Quotes(f) ==
  IF f = 1 THEN {At(1, <<Draft("ODDS", 1, f, 1, "a")>>)}
  ELSE {At(1, <<[Draft("ODDS", 1, f, 1, body) EXCEPT !.sound = (body = "a")]>>) :
          body \in {"a", "b"}}

Closings(f) == {At(1, <<[Draft("CLOSING", 3, f, 1, "a") EXCEPT !.lead = 1]>>)}

(* A final score, or another that is observed later; a correction that     *)
(* comes with it, or refers to what is not there.                          *)
Corrected(f) == [Draft("OUTCOMES", 2, f, 5, "b") EXCEPT !.supersedes = <<f, 1>>]
Scores(f) ==
  IF f = 1 THEN {At(t, <<Draft("OUTCOMES", t - 3, f, t, "a")>>) : t \in {4, 5}}
  ELSE {At(5, <<Draft("OUTCOMES", 1, f, 4, "a"), Corrected(f)>>), At(5, <<Corrected(f)>>)}

SyntheticAnswers ==
  [item \in Kinds \X (Fixtures \union {0}) |->
     CASE item[2] = 0          -> IF item[1] = "FIXTURES" THEN Universes ELSE {}
       [] item[1] = "FIXTURES" -> {}
       [] item[1] = "FOREBET"  -> Forebets(item[2])
       [] item[1] = "ODDS"     -> Quotes(item[2])
       [] item[1] = "CLOSING"  -> Closings(item[2])
       [] item[1] = "OUTCOMES" -> Scores(item[2])]

Prediction(f, at, kickoff) ==
  [fixture |-> f, at |-> at, kickoff |-> kickoff, flag |-> at < kickoff,
   whole |-> TRUE, body |-> "a"]

SomePredictions == {Prediction(1, 0, 2), Prediction(1, 1, 2), Prediction(1, 2, 2)}
=============================================================================
