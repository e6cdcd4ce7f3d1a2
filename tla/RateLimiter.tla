---------------------------- MODULE RateLimiter ----------------------------
(***************************************************************************)
(* The calls of one LLM provider: generate waits for the rate limiter, then *)
(* sends its request, and sends it again while the provider's answer is one *)
(* the retry policy covers.                                                 *)
(*                                                                         *)
(* Callers are coroutines of one event loop.  acquire prunes, looks and     *)
(* records under a lock without awaiting anything, so a look is one step;   *)
(* between two looks it sleeps.  Time passes in ticks of the shortest sleep,*)
(* and whatever is as old as the window stays that old.                     *)
(***************************************************************************)
EXTENDS Naturals, FiniteSets

CONSTANTS
  Callers,
  Records,              \* names of records, reused
  Estimates,            \* tokens a request may reserve: its max_tokens
  RPM,                  \* requests_per_minute
  TPM,                  \* tokens_per_minute
  Window,               \* ticks in 60 seconds
  RATE_LIMIT_ATTEMPTS,
  TRANSIENT_ATTEMPTS

ASSUME LimiterAssumption ==
  /\ IsFiniteSet(Records)
  /\ Estimates \subseteq Nat
  /\ RPM \in Nat \ {0} /\ TPM \in Nat /\ Window \in Nat \ {0}
  /\ RATE_LIMIT_ATTEMPTS \in Nat \ {0}
  /\ TRANSIENT_ATTEMPTS \in 1 .. RATE_LIMIT_ATTEMPTS

VARIABLES
  kept,      \* records of _request_times and _token_records, always the same
  age,       \* [Records -> 0 .. Window]: how long ago it was made
  tokens,    \* [Records -> 0 .. TPM]: what it reserved
  granted,   \* history: the requests let through within the window
  pc,        \* [Callers -> Stage]
  estimate,  \* [Callers -> Nat]: what it asked to reserve
  nap,       \* [Callers -> 0 .. Window]: what is left of its sleep
  attempt    \* [Callers -> attempts at its request]

record == <<age, tokens, granted>>
vars   == <<kept, age, tokens, granted, pc, estimate, nap, attempt>>

-----------------------------------------------------------------------------
Stage == {"idle", "waiting", "calling", "backoff"}

TypeOK ==
  /\ kept \subseteq Records
  /\ age \in [Records -> 0 .. Window]
  /\ tokens \in [Records -> 0 .. TPM]
  /\ granted \subseteq Records
  /\ pc \in [Callers -> Stage]
  /\ estimate \in [Callers -> Nat]
  /\ nap \in [Callers -> 0 .. Window]
  /\ attempt \in [Callers -> 0 .. RATE_LIMIT_ATTEMPTS]

Init ==
  /\ kept = {}
  /\ age = [i \in Records |-> Window]
  /\ tokens = [i \in Records |-> 0]
  /\ granted = {}
  /\ pc = [c \in Callers |-> "idle"]
  /\ estimate = [c \in Callers |-> 0]
  /\ nap = [c \in Callers |-> 0]
  /\ attempt = [c \in Callers |-> 0]

\* The tokens reserved by a set of records, each token a pair.
Reserved(S) == UNION {{i} \X (1 .. tokens[i]) : i \in S}

Tpm(S) == Cardinality(Reserved(S))

-----------------------------------------------------------------------------
(* acquire.                                                                  *)

\* Mutant: old records are never dropped.
PrunedNone == kept

\* _prune_old_records.
Pruned == {i \in kept : age[i] < Window}

\* Mutant: the limit itself is let in.
RpmOkLate == Cardinality(Pruned) <= RPM

RpmOk == Cardinality(Pruned) < RPM

\* Mutant: the request's own tokens are not counted.
TpmOkBefore(n) == Tpm(Pruned) <= TPM

TpmOk(n) == Tpm(Pruned) + n <= TPM

\* Until the oldest record leaves the window; one tick if there is none.
Delay == IF Pruned = {} THEN {1}
         ELSE {Window - age[i] : i \in {j \in Pruned : \A k \in Pruned : age[k] <= age[j]}}

\* The request is recorded, and goes out.
Grant(c, n) ==
  /\ RpmOk /\ TpmOk(n)
  /\ \E i \in Records \ (Pruned \cup granted) :
       /\ kept' = Pruned \cup {i}
       /\ age' = [age EXCEPT ![i] = 0]
       /\ tokens' = [tokens EXCEPT ![i] = n]
       /\ granted' = granted \cup {i}
  /\ pc' = [pc EXCEPT ![c] = "calling"]
  /\ attempt' = [attempt EXCEPT ![c] = 1]
  /\ UNCHANGED nap

Sleep(c, n) ==
  /\ ~(RpmOk /\ TpmOk(n))
  /\ kept' = Pruned
  /\ \E d \in Delay : nap' = [nap EXCEPT ![c] = d]
  /\ pc' = [pc EXCEPT ![c] = "waiting"]
  /\ UNCHANGED <<record, attempt>>

\* generate: the first look.
Acquire(c, n) ==
  /\ pc[c] = "idle"
  /\ estimate' = [estimate EXCEPT ![c] = n]
  /\ Grant(c, n) \/ Sleep(c, n)

\* Another look after a sleep.
Look(c) ==
  /\ pc[c] = "waiting"
  /\ nap[c] = 0
  /\ Grant(c, estimate[c]) \/ Sleep(c, estimate[c])
  /\ UNCHANGED estimate

-----------------------------------------------------------------------------
(* _generate_with_retry.                                                     *)

Return(c) ==
  /\ pc' = [pc EXCEPT ![c] = "idle"]
  /\ estimate' = [estimate EXCEPT ![c] = 0]
  /\ nap' = [nap EXCEPT ![c] = 0]
  /\ attempt' = [attempt EXCEPT ![c] = 0]

\* The provider answers, or rejects the request for good.
Answered(c) ==
  /\ pc[c] = "calling"
  /\ Return(c)
  /\ UNCHANGED <<kept, record>>

\* Mutant: the last attempt is looked for, not passed.
StopsAt(c, limit) == attempt[c] = limit

\* provider_retry_stop.
Stops(c, limit) == attempt[c] >= limit

\* A 429, or a failure that may pass: more attempts for the former.
Failed(c, limit) ==
  /\ pc[c] = "calling"
  /\ IF Stops(c, limit) THEN Return(c)
     ELSE /\ pc' = [pc EXCEPT ![c] = "backoff"]
          /\ UNCHANGED <<estimate, nap, attempt>>
  /\ UNCHANGED <<kept, record>>

Throttled(c) == Failed(c, RATE_LIMIT_ATTEMPTS)
Transient(c) == Failed(c, TRANSIENT_ATTEMPTS)

\* The same request again, without a word to the limiter.  (Bound: attempts are
\* counted up to the larger limit.)
Resend(c) ==
  /\ pc[c] = "backoff"
  /\ pc' = [pc EXCEPT ![c] = "calling"]
  /\ attempt' = [attempt EXCEPT ![c] = IF @ < RATE_LIMIT_ATTEMPTS THEN @ + 1 ELSE @]
  /\ UNCHANGED <<kept, record, estimate, nap>>

\* The caller's own timeout cancels the call.
Cancel(c) ==
  /\ pc[c] # "idle"
  /\ Return(c)
  /\ UNCHANGED <<kept, record>>

-----------------------------------------------------------------------------
Tick ==
  /\ age' = [i \in Records |-> IF age[i] < Window THEN age[i] + 1 ELSE Window]
  /\ granted' = {i \in granted : age[i] + 1 < Window}
  /\ nap' = [c \in Callers |-> IF nap[c] > 0 THEN nap[c] - 1 ELSE 0]
  /\ UNCHANGED <<kept, tokens, pc, estimate, attempt>>

Ends(c) == Answered(c) \/ Throttled(c) \/ Transient(c)

Next ==
  \/ \E c \in Callers, n \in Estimates : Acquire(c, n)
  \/ \E c \in Callers : Look(c) \/ Ends(c) \/ Resend(c) \/ Cancel(c)
  \/ Tick

Spec == Init /\ [][Next]_vars

\* Time passes, a sleep that is over is followed by a look, and every attempt ends
\* (the HTTP clients have timeouts), as does every backoff.  Nobody has to call or to give up.
FairSpec ==
  /\ Spec
  /\ WF_vars(Tick)
  /\ \A c \in Callers : WF_vars(Look(c)) /\ WF_vars(Ends(c)) /\ WF_vars(Resend(c))

-----------------------------------------------------------------------------
(* Properties.                                                               *)

\* However looks, sleeps and the passing of time interleave, no window of 60
\* seconds has more requests let through than the limit.  (A window ends at some
\* time, which is then the present.)
RpmHonoured == Cardinality(granted) <= RPM

\* Nor more tokens reserved, though what is reserved is summed over the limiter's
\* own list, pruned at times of its own.
TpmHonoured == Tpm(granted) <= TPM

\* Both budgets of the provider are kept at once.
LimitsHonoured == RpmHonoured /\ TpmHonoured

\* A request that fits the budget at all stops waiting unless others go out for ever:
\* looks are in no order, so only they can keep it out.  One that does not fit,
\* acquire keeps for ever, which is why the property excludes it.
WaitsEndUnlessOvertaken ==
  \A c \in Callers :
    \/ pc[c] = "waiting" /\ estimate[c] <= TPM ~> pc[c] # "waiting"
    \/ []<>(\E d \in Callers \ {c} : pc[d] = "calling")

\* A request that went out comes back, in whatever order 429s and other failures
\* arrive: they are counted together and limited apart.
CallsReturn == \A c \in Callers : pc[c] = "calling" ~> pc[c] = "idle"

\* A call of the provider makes progress, before its request goes out and after.
CallsProgress == WaitsEndUnlessOvertaken /\ CallsReturn
=============================================================================
