----------------------------- MODULE RateLimiter -----------------------------
(***************************************************************************)
(* RateLimitMiddleware: a token bucket per caller, in the memory of the    *)
(* API process.  A caller is an agent key or else an address; thousands of *)
(* phones present one key, and share its bucket.                           *)
(*                                                                         *)
(* Its actions take the time as a parameter and belong to the module that  *)
(* has the requests.  _allow runs on the event loop without an await, so   *)
(* one request is one step.  Time is in seconds and a token is Cost units, *)
(* so that a bucket gains PerMinute units a second.                        *)
(***************************************************************************)
EXTENDS Integers

CONSTANTS
  Callers,    \* identities: keys and addresses
  PerMinute,  \* rate_limit_per_minute; 0 and below switch the limiter off
  Burst       \* rate_limit_burst

ASSUME RateLimiterAssumption == PerMinute \in Int /\ Burst \in Int

VARIABLES
  seen,      \* callers with a bucket
  tokens,    \* what the bucket held after its last request
  last,      \* when that was
  \* observers, which no action reads
  opened,    \* when a window of observation was opened, 0 if none is
  admitted   \* requests of the caller that were let through in it

limiterVars == <<seen, tokens, last, opened, admitted>>

Cost == 60
Full == Cost * (IF Burst < 1 THEN 1 ELSE Burst)

AtMost(n, bound) == IF n <= bound THEN n ELSE bound

LimiterInit ==
  /\ seen = {}
  /\ tokens = [c \in Callers |-> Full]
  /\ last = [c \in Callers |-> 0]
  /\ opened = 0
  /\ admitted = [c \in Callers |-> 0]

\* The lazy refill.  A new caller's bucket is filled with a reading of the
\* clock later than the request's, which leaves it a little short of Full.
Levels(c, now) ==
  IF c \in seen
    THEN {AtMost(tokens[c] + (now - last[c]) * PerMinute, Full)}
    ELSE {Full, Full - 1}

Keep(c, level, now) ==
  /\ seen' = seen \cup {c}
  /\ tokens' = [tokens EXCEPT ![c] = level]
  /\ last' = [last EXCEPT ![c] = now]
  /\ UNCHANGED opened

Observe(c) ==
  admitted' = IF opened = 0 THEN admitted ELSE [admitted EXCEPT ![c] = @ + 1]

-----------------------------------------------------------------------------
(* Seeded bugs, one mistake each; not part of the specification.           *)

\* A token is taken before anything is compared.
Admit_Unchecked(c, now) ==
  /\ PerMinute > 0
  /\ \E level \in Levels(c, now) : Keep(c, level - Cost, now)
  /\ Observe(c)

\* A refusal keeps the refilled level and the old time.
Deny_KeepsTime(c, now) ==
  /\ PerMinute > 0
  /\ \E level \in Levels(c, now) : level < Cost /\ Keep(c, level, last[c])
  /\ UNCHANGED admitted

-----------------------------------------------------------------------------
Admit(c, now) ==
  \/ PerMinute <= 0 /\ UNCHANGED limiterVars
  \/ /\ PerMinute > 0
     /\ \E level \in Levels(c, now) : level >= Cost /\ Keep(c, level - Cost, now)
     /\ Observe(c)

\* 429; what was refilled is kept.
Deny(c, now) ==
  /\ PerMinute > 0
  /\ \E level \in Levels(c, now) : level < Cost /\ Keep(c, level, now)
  /\ UNCHANGED admitted

\* The process ends and its buckets with it.
Forget ==
  /\ seen' = {}
  /\ tokens' = [c \in Callers |-> Full]
  /\ last' = [c \in Callers |-> 0]
  /\ opened' = 0
  /\ admitted' = [c \in Callers |-> 0]

\* Somebody starts to count; a window ends with the process.
OpenWindow(now) ==
  /\ opened = 0
  /\ opened' = now
  /\ UNCHANGED <<seen, tokens, last, admitted>>

-----------------------------------------------------------------------------
LimiterTypeOK ==
  /\ seen \subseteq Callers
  /\ tokens \in [Callers -> 0 .. Full]
  /\ last \in [Callers -> Nat]
  /\ opened \in Nat
  /\ admitted \in [Callers -> Nat]

\* The bucket's promise, for a window that ends now: a burst, and the rate
\* from then on.
Budget(now) ==
  PerMinute > 0 /\ opened # 0 =>
    \A c \in Callers : Cost * admitted[c] <= Full + (now - opened) * PerMinute
=============================================================================
