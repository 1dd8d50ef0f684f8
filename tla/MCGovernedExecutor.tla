-------------------------- MODULE MCGovernedExecutor --------------------------
(***************************************************************************)
(* Instances of GovernedExecutor for TLC.  The daily threshold is 2.       *)
(***************************************************************************)
EXTENDS GovernedExecutor, ApiFootballClient

Headers(daily, minute, retry) ==
  [requestsLimit |-> 5, requestsRemaining |-> daily,
   limit |-> 5, remaining |-> minute, retryAfter |-> retry]

Plenty         == Headers(3, 3, None)
LowDaily       == Headers(1, 3, None)
NoDaily        == Headers(0, 3, None)
NoMinute       == Headers(3, 0, None)
RetryLater     == Headers(3, 3, 1)
BadHeader      == Headers(3, Malformed, None)
Contradictory  == Headers(9, 3, None)
MissingMinute  == Headers(3, None, None)

(* What the executor's port allows an operation to answer, metadata on     *)
(* failures included: one exchange for each way the executor treats it.    *)
Answer(error, h) ==
  [ok |-> error = None, error |-> error, evidence |-> TRUE, metadata |-> h, wire |-> h]

ContractExchanges ==
  {Answer(None, h) : h \in {Plenty, LowDaily, NoDaily, NoMinute, Contradictory, MissingMinute}}
    \union {Answer("RATE_LIMITED", h) : h \in {RetryLater, Plenty}}
    \union {Answer("HTTP_RETRYABLE_FAILURE", Plenty), Answer("HTTP_RETRYABLE_FAILURE", BadHeader),
            Answer("AUTHENTICATION_REJECTED", Plenty), Answer("HTTP_PERMANENT_FAILURE", Plenty),
            Answer("INVALID_JSON", Plenty), Answer("NETWORK_FAILURE", NoHeaders)}

(* What the real client makes of the responses the provider may send.      *)
ClientExchanges ==
  LET http(status, body, h) ==
        [transport |-> "HTTP", timedOut |-> FALSE, status |-> status, body |-> body, headers |-> h]
      wires ==
        {http(status, "VALID", h) : status \in {200, 429, 500}, h \in {Plenty, LowDaily, NoMinute}}
          \union {http(200, body, Plenty) : body \in Bodies}
          \union {http(status, "VALID", RetryLater) : status \in {302, 401, 404, 429}}
          \union {[http(200, "VALID", Plenty) EXCEPT !.transport = "NONE", !.timedOut = TRUE]}
  IN  {ClientResult(w) : w \in wires}
=============================================================================
