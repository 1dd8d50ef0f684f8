--------------------------- MODULE RequestGovernance ---------------------------
(***************************************************************************)
(* What governing the requests of a run promises, whatever the calls, the  *)
(* responses and the retries are: the attempts are numbered 1, 2, ... up   *)
(* to MaxAttempts; each one ends exactly once, on record or, if its record *)
(* could not be written, lost; a lost record stops the run; and a run that *)
(* has stopped begins no attempt, ever.                                    *)
(***************************************************************************)
EXTENDS Integers

CONSTANT MaxAttempts     \* a positive number

VARIABLES
  begun,      \* the attempts 1..begun have started
  recorded,   \* those with an audit record
  lost,       \* those whose audit record was not accepted
  stopped     \* whether the run may still begin attempts

governanceVars == <<begun, recorded, lost, stopped>>

Init ==
  /\ begun = 0
  /\ recorded = {}
  /\ lost = {}
  /\ stopped = FALSE

Open(n) == n \in 1..begun /\ n \notin recorded /\ n \notin lost

Begin ==
  /\ ~stopped
  /\ begun < MaxAttempts
  /\ begun' = begun + 1
  /\ UNCHANGED <<recorded, lost, stopped>>

Record(n) ==
  /\ Open(n)
  /\ recorded' = recorded \union {n}
  /\ stopped' \in {stopped, TRUE}
  /\ UNCHANGED <<begun, lost>>

Lose(n) ==
  /\ Open(n)
  /\ lost' = lost \union {n}
  /\ stopped' = TRUE
  /\ UNCHANGED <<begun, recorded>>

Next == Begin \/ \E n \in 1..begun : Record(n) \/ Lose(n)

Spec == Init /\ [][Next]_governanceVars
=============================================================================
