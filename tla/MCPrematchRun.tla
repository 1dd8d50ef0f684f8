---------------------------- MODULE MCPrematchRun ----------------------------
(***************************************************************************)
(* Instances of PrematchRun for TLC.  What the transport answers goes      *)
(* through ApiFootballClient; the daily threshold is 2.                    *)
(***************************************************************************)
EXTENDS PrematchRun, TLC

Client == INSTANCE ApiFootballClient

Headers(daily, minute) ==
  [requestsLimit |-> 5, requestsRemaining |-> daily,
   limit |-> 5, remaining |-> minute, retryAfter |-> None]

Http(status, body, h) ==
  [transport |-> "HTTP", timedOut |-> FALSE, status |-> status, body |-> body, headers |-> h]

Good       == Client!ClientResult(Http(200, "VALID", Headers(3, 3)))
LastOfDay  == Client!ClientResult(Http(200, "VALID", Headers(1, 3)))
NoMinutes  == Client!ClientResult(Http(200, "VALID", Headers(3, None)))
ServerDown == Client!ClientResult(Http(500, "VALID", Headers(3, 3)))

AllExchanges     == {Good, LastOfDay, NoMinutes, ServerDown}
HealthyExchanges == {Good}

Payload(kind, scheduled, version) ==
  [kind |-> kind, scheduled |-> scheduled, version |-> version]

Playing == Payload("FOUND", TRUE, 1)

SomeFixtures    == {Playing, Payload("FOUND", FALSE, 2)}
SomePredictions == {Playing, Payload("MAPPING_FAILED", TRUE, 1)}
AllPayloads  == [FIXTURE |-> SomeFixtures, PREDICTION |-> SomePredictions]
GoodPayloads == [FIXTURE |-> {Playing}, PREDICTION |-> {Playing}]

TwoTargets == <<"t1", "t2">>
KickoffOf2 == [t \in Targets |-> IF t = "t1" THEN 3 ELSE 2]
=============================================================================
