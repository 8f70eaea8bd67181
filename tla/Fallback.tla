------------------------------ MODULE Fallback ------------------------------
(***************************************************************************)
(* Which errors make a sequential request try its next target              *)
(* (internal/router/fallback.go).  The code classifies an error by looking *)
(* for fragments in its text; an error is represented here by its kind,    *)
(* one kind per combination of classes an error text can fall in.          *)
(***************************************************************************)

ErrorKinds ==
    { "server",             \* 500, 502, 503
      "gateway_timeout",    \* 504 Gateway Timeout: a 5xx whose text says timeout
      "network",            \* connection refused or reset, unknown host, EOF
      "dial_timeout",       \* dial tcp ...: i/o timeout
      "deadline",           \* context deadline exceeded: the provider timeout
      "rate_limit",         \* 429 Too Many Requests
      "client_error",       \* any other 4xx, bad key, malformed answer
      "canceled" }          \* context canceled

isServerError(e) == e \in {"server", "gateway_timeout"}

isNetworkError(e) == e \in {"network", "dial_timeout"}

isTimeoutError(e) == e \in {"gateway_timeout", "dial_timeout", "deadline"}

isRateLimitError(e) == e = "rate_limit"

Policies == {"", "on_error", "on_timeout", "on_rate_limit", "always_fastest"}

\* Execute replaces a missing policy by on_error.
EffectivePolicy(policy) == IF policy = "" THEN "on_error" ELSE policy

shouldFallback(policy, e) ==
    CASE policy = "on_timeout"     -> isTimeoutError(e)
      [] policy = "on_rate_limit"  -> isRateLimitError(e)
      [] policy = "always_fastest" -> FALSE
      [] OTHER                     -> isServerError(e) \/ isNetworkError(e)
=============================================================================
