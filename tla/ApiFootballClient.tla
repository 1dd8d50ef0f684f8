-------------------------- MODULE ApiFootballClient --------------------------
(***************************************************************************)
(* ApiFootballClient.#execute and httpFailure: what the client makes of    *)
(* one HTTP exchange.  Only a success carries metadata; the rate-limit     *)
(* headers of a failed response are dropped.                               *)
(***************************************************************************)
EXTENDS RateLimits

Bodies ==
  {"VALID",          \* decodes to an envelope of the endpoint
   "API_ERRORS",     \* an envelope whose errors field is not empty
   "BAD_ENVELOPE",   \* JSON that is no envelope
   "NOT_JSON",
   "EMPTY",
   "TOO_LARGE",      \* declared, or found, longer than maxResponseBytes
   "REFLECTS_KEY",   \* contains the API key
   "INTERRUPTED"}    \* arrayBuffer() rejects

(* transport "NONE": fetch itself rejects and there is no response.        *)
Wire ==
  [transport : {"NONE", "HTTP"}, timedOut : BOOLEAN,
   status : {200, 302, 401, 404, 429, 500}, body : Bodies, headers : RawHeaders]

StatusFailure(status) ==
  CASE status = 200 -> None
    [] status = 302 -> "REDIRECT_BLOCKED"
    [] status = 401 -> "AUTHENTICATION_REJECTED"
    [] status = 429 -> "RATE_LIMITED"
    [] status = 500 -> "HTTP_RETRYABLE_FAILURE"
    [] OTHER        -> "HTTP_PERMANENT_FAILURE"

DecodeFailure(body) ==
  CASE body = "VALID"        -> None
    [] body = "API_ERRORS"   -> "API_ERRORS_PRESENT"
    [] body = "BAD_ENVELOPE" -> "INVALID_ENVELOPE"
    [] body = "REFLECTS_KEY" -> "INVALID_ENVELOPE"
    [] OTHER                 -> "INVALID_JSON"     \* NOT_JSON, EMPTY

(* The first thing that goes wrong, in the order the client looks.         *)
ClientError(w) ==
  CASE w.transport = "NONE" \/ w.body = "INTERRUPTED"
         -> IF w.timedOut THEN "TIMEOUT" ELSE "NETWORK_FAILURE"
    [] w.transport = "HTTP" /\ w.body = "TOO_LARGE" -> "RESPONSE_TOO_LARGE"
    [] w.transport = "HTTP" /\ w.body \notin {"INTERRUPTED", "TOO_LARGE"}
         -> IF StatusFailure(w.status) # None
            THEN StatusFailure(w.status)
            ELSE DecodeFailure(w.body)

(* A body that was read whole, is not empty and keeps the key out of the   *)
(* evidence becomes an evidence candidate, also when the response failed.  *)
HasEvidence(w) ==
  w.transport = "HTTP" /\ w.body \notin {"INTERRUPTED", "TOO_LARGE", "EMPTY", "REFLECTS_KEY"}

ClientResult(w) ==
  LET error == ClientError(w) IN
  [ok       |-> error = None,
   error    |-> error,
   evidence |-> HasEvidence(w),
   metadata |-> IF error = None THEN w.headers ELSE NoHeaders,
   wire     |-> IF w.transport = "HTTP" THEN w.headers ELSE NoHeaders]
=============================================================================
