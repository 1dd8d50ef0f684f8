----------------------------- MODULE RateLimits -----------------------------
(***************************************************************************)
(* The pure functions of rate-limit-parser.ts: what the five rate-limit    *)
(* headers of a response are read as, and whether the run may go on after  *)
(* that response.                                                          *)
(*                                                                         *)
(* A header is None (absent), Malformed (a string that is not a safe       *)
(* non-negative integer) or the number it spells.                          *)
(***************************************************************************)
EXTENDS Integers

CONSTANTS
  None,              \* null: the header, or the parsed value, is absent
  Malformed,         \* any header text strictNonNegativeInteger rejects
  SafetyThreshold,   \* RateLimitSafetyConfig.dailySafetyThreshold
  RequireDaily,      \* RateLimitSafetyConfig.requireDailyRemaining
  RequireMinute      \* RateLimitSafetyConfig.requireMinuteRemaining

ASSUME SafetyConfigAssumption ==
  /\ SafetyThreshold \in Nat
  /\ RequireDaily \in BOOLEAN
  /\ RequireMinute \in BOOLEAN
  /\ None \notin Nat
  /\ Malformed \notin Nat
  /\ None # Malformed

HeaderNames ==
  {"requestsLimit", "requestsRemaining", "limit", "remaining", "retryAfter"}

RawHeaders == [HeaderNames -> Nat \union {None, Malformed}]

NoHeaders == [h \in HeaderNames |-> None]

Parsed(state, h) ==
  [state           |-> state,
   dailyLimit      |-> h["requestsLimit"],
   dailyRemaining  |-> h["requestsRemaining"],
   minuteLimit     |-> h["limit"],
   minuteRemaining |-> h["remaining"],
   retryAfter      |-> h["retryAfter"]]

Exceeds(a, b) == a # None /\ b # None /\ a > b

(***************************************************************************)
(* parseApiFootballRateLimits: one malformed header, or a remainder above  *)
(* its limit, discards all the values.                                     *)
(***************************************************************************)
Parse(h) ==
  IF h = NoHeaders THEN Parsed("ABSENT", NoHeaders)
  ELSE IF \/ \E name \in HeaderNames : h[name] = Malformed
          \/ Exceeds(h["requestsRemaining"], h["requestsLimit"])
          \/ Exceeds(h["remaining"], h["limit"])
       THEN Parsed("INVALID", NoHeaders)
       ELSE Parsed("VALID", h)

DailyExhausted(p)  == p.dailyRemaining = 0
MinuteExhausted(p) == p.minuteRemaining = 0

(* Mutant of BelowThreshold: off by one at the threshold.                  *)
BelowThresholdLate(p) == p.dailyRemaining # None /\ p.dailyRemaining < SafetyThreshold - 1

BelowThreshold(p) == p.dailyRemaining # None /\ p.dailyRemaining < SafetyThreshold

(* blockingOutcome: the first reason that applies, in this order.          *)
BlockingOutcome(p) ==
  IF p.state = "INVALID" THEN "BLOCK_HEADERS_INVALID"
  ELSE IF \/ RequireDaily /\ p.dailyRemaining = None
          \/ RequireMinute /\ p.minuteRemaining = None
       THEN "BLOCK_REQUIRED_HEADERS_ABSENT"
  ELSE IF DailyExhausted(p) THEN "BLOCK_DAILY_EXHAUSTED"
  ELSE IF MinuteExhausted(p) THEN "BLOCK_MINUTE_EXHAUSTED"
  ELSE IF BelowThreshold(p) THEN "BLOCK_DAILY_THRESHOLD"
  ELSE "ALLOW"

(* A quota outcome lets the response through and stops the run after it.   *)
StopsAfterResponse(outcome) ==
  outcome \in {"BLOCK_DAILY_THRESHOLD", "BLOCK_DAILY_EXHAUSTED", "BLOCK_MINUTE_EXHAUSTED"}

RejectsResponse(outcome) ==
  outcome \in {"BLOCK_HEADERS_INVALID", "BLOCK_REQUIRED_HEADERS_ABSENT"}

(***************************************************************************)
(* The quota the operations guide protects, read off the raw headers: no   *)
(* request left in this minute, or fewer than the threshold left today.    *)
(***************************************************************************)
QuotaLow(h) ==
  \/ h["remaining"] = 0
  \/ h["requestsRemaining"] \notin {None, Malformed} /\ h["requestsRemaining"] < SafetyThreshold
=============================================================================
