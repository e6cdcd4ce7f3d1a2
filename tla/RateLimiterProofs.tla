------------------------- MODULE RateLimiterProofs -------------------------
(***************************************************************************)
(* The limiter lets no more through than its two limits allow, for every    *)
(* limit, window, number of callers and size of requests.                   *)
(***************************************************************************)
EXTENDS RateLimiter, FiniteSetTheorems, TLAPS

-----------------------------------------------------------------------------
(* Sums of tokens.                                                           *)

LEMMA ReservedFinite ==
  ASSUME tokens \in [Records -> 0 .. TPM], NEW S \in SUBSET Records
  PROVE  IsFiniteSet(Reserved(S)) /\ Tpm(S) \in Nat
<1> USE LimiterAssumption
<1>1. IsFiniteSet(Records \X (1 .. TPM))
  <2>1. IsFiniteSet(1 .. TPM)
    BY FS_Interval
  <2> QED BY <2>1, FS_Product
<1>2. Reserved(S) \subseteq Records \X (1 .. TPM)
  <2> SUFFICES ASSUME NEW i \in S, NEW u \in {i} \X (1 .. tokens[i])
               PROVE  u \in Records \X (1 .. TPM)
    BY DEF Reserved
  <2>1. i \in Records /\ tokens[i] \in 0 .. TPM
    OBVIOUS
  <2>2. 1 .. tokens[i] \subseteq 1 .. TPM
    BY <2>1
  <2> QED BY <2>1, <2>2
<1> QED BY <1>1, <1>2, FS_Subset, FS_CardinalityType DEF Tpm

LEMMA TpmMonotone ==
  ASSUME tokens \in [Records -> 0 .. TPM], NEW T \in SUBSET Records, NEW S \in SUBSET T
  PROVE  Tpm(S) <= Tpm(T)
<1>1. Reserved(S) \subseteq Reserved(T)
  BY DEF Reserved
<1> QED BY <1>1, ReservedFinite, FS_Subset DEF Tpm

\* A record more adds what it reserves.
LEMMA TpmAdds ==
  ASSUME tokens \in [Records -> 0 .. TPM], NEW S \in SUBSET Records,
         NEW i \in Records \ S, NEW n \in 0 .. TPM, tokens' = [tokens EXCEPT ![i] = n]
  PROVE  Tpm(S \cup {i})' \in Nat /\ Tpm(S \cup {i})' <= Tpm(S) + n
<1> USE LimiterAssumption
<1>1. Reserved(S \cup {i})' = Reserved(S) \cup ({i} \X (1 .. n))
  <2>1. tokens'[i] = n /\ \A j \in S : tokens'[j] = tokens[j]
    OBVIOUS
  <2> QED BY <2>1 DEF Reserved
<1>2. IsFiniteSet({i}) /\ Cardinality({i}) = 1
  BY FS_Singleton
<1>3. IsFiniteSet(1 .. n) /\ Cardinality(1 .. n) = n
  BY FS_Interval
<1>4. IsFiniteSet({i} \X (1 .. n)) /\ Cardinality({i} \X (1 .. n)) = n
  <2>1. /\ IsFiniteSet({i} \X (1 .. n))
        /\ Cardinality({i} \X (1 .. n)) = Cardinality({i}) * Cardinality(1 .. n)
    BY <1>2, <1>3, FS_Product
  <2>2. Cardinality({i}) * Cardinality(1 .. n) = n
    BY <1>2, <1>3
  <2> QED BY <2>1, <2>2
<1>5. /\ IsFiniteSet(Reserved(S) \cap ({i} \X (1 .. n)))
      /\ Cardinality(Reserved(S) \cap ({i} \X (1 .. n))) \in Nat
  BY <1>4, FS_Subset, FS_CardinalityType
<1>6. IsFiniteSet(Reserved(S)) /\ Cardinality(Reserved(S)) \in Nat
  BY ReservedFinite DEF Tpm
<1> DEFINE U == Reserved(S) \cup ({i} \X (1 .. n))
           common == Cardinality(Reserved(S) \cap ({i} \X (1 .. n)))
<1>7. /\ Cardinality(U) \in Nat
      /\ Cardinality(U) = Cardinality(Reserved(S)) + n - common
  BY <1>4, <1>6, FS_Union, FS_CardinalityType
<1>8. Tpm(S \cup {i})' = Cardinality(U)
  BY <1>1 DEF Tpm
<1>9. Tpm(S) = Cardinality(Reserved(S))
  BY DEF Tpm
<1>10. common \in Nat
  BY <1>5
<1> HIDE DEF U, common
<1> QED BY <1>6, <1>7, <1>8, <1>9, <1>10

-----------------------------------------------------------------------------
(* Types.                                                                    *)

LEMMA LimiterTypeInit == Init => TypeOK
  BY LimiterAssumption DEF Init, TypeOK, Stage

LEMMA GrantTypes ==
  ASSUME TypeOK, NEW c \in Callers, NEW n \in Nat, Grant(c, n)
  PROVE  /\ n \in 0 .. TPM
         /\ kept' \subseteq Records /\ granted' \subseteq Records
         /\ age' \in [Records -> 0 .. Window]
         /\ tokens' \in [Records -> 0 .. TPM]
         /\ pc' \in [Callers -> Stage]
         /\ nap' = nap
         /\ attempt' \in [Callers -> 0 .. RATE_LIMIT_ATTEMPTS]
<1> USE LimiterAssumption
<1>1. Pruned \subseteq Records
  BY DEF TypeOK, Pruned
<1>2. n \in 0 .. TPM
  <2>1. Tpm(Pruned) \in Nat /\ Tpm(Pruned) + n <= TPM
    BY <1>1, ReservedFinite DEF TypeOK, Grant, TpmOk
  <2> QED BY <2>1
<1>3. 0 \in 0 .. Window /\ 1 \in 0 .. RATE_LIMIT_ATTEMPTS
  OBVIOUS
<1> QED BY <1>1, <1>2, <1>3 DEF TypeOK, Grant, Stage

LEMMA SleepTypes ==
  ASSUME TypeOK, NEW c \in Callers, NEW n \in Nat, Sleep(c, n)
  PROVE  /\ kept' \subseteq Records
         /\ pc' \in [Callers -> Stage]
         /\ nap' \in [Callers -> 0 .. Window]
         /\ UNCHANGED <<record, attempt>>
<1> USE LimiterAssumption
<1>1. Delay \subseteq 0 .. Window
  <2>1. \A i \in Pruned : age[i] \in 0 .. Window /\ Window - age[i] \in 0 .. Window
    BY DEF TypeOK, Pruned
  <2>2. 1 \in 0 .. Window
    OBVIOUS
  <2> QED BY <2>1, <2>2 DEF Delay
<1> QED BY <1>1 DEF TypeOK, Sleep, Pruned, Stage

LEMMA ReturnTypes ==
  ASSUME TypeOK, NEW c \in Callers, Return(c), UNCHANGED <<kept, record>>
  PROVE  TypeOK'
  BY LimiterAssumption DEF TypeOK, Return, record, Stage

LEMMA LimiterTypeStep == ASSUME TypeOK, [Next]_vars PROVE TypeOK'
<1> USE LimiterAssumption
<1>1. ASSUME NEW c \in Callers, NEW n \in Estimates, Acquire(c, n) PROVE TypeOK'
  <2>1. n \in Nat /\ estimate' \in [Callers -> Nat]
    BY <1>1 DEF TypeOK, Acquire
  <2> QED BY <1>1, <2>1, GrantTypes, SleepTypes DEF TypeOK, Acquire, record
<1>2. ASSUME NEW c \in Callers, Look(c) PROVE TypeOK'
  <2>1. estimate[c] \in Nat /\ estimate' = estimate
    BY <1>2 DEF TypeOK, Look
  <2> QED BY <1>2, <2>1, GrantTypes, SleepTypes DEF TypeOK, Look, record
<1>3. ASSUME NEW c \in Callers, NEW limit, Failed(c, limit) PROVE TypeOK'
  <2>1. CASE Stops(c, limit)
    BY <1>3, <2>1, ReturnTypes DEF Failed
  <2>2. CASE ~Stops(c, limit)
    BY <1>3, <2>2 DEF TypeOK, Failed, record, Stage
  <2> QED BY <2>1, <2>2
<1>4. ASSUME NEW c \in Callers, Ends(c) PROVE TypeOK'
  BY <1>3, <1>4, ReturnTypes DEF Ends, Answered, Throttled, Transient
<1>5. ASSUME NEW c \in Callers, Resend(c) PROVE TypeOK'
  <2>1. attempt' \in [Callers -> 0 .. RATE_LIMIT_ATTEMPTS]
    BY <1>5 DEF TypeOK, Resend
  <2> QED BY <1>5, <2>1 DEF TypeOK, Resend, record, Stage
<1>6. ASSUME NEW c \in Callers, Cancel(c) PROVE TypeOK'
  BY <1>6, ReturnTypes DEF Cancel
<1>7. CASE Tick
  <2>1. age' \in [Records -> 0 .. Window]
    BY <1>7 DEF TypeOK, Tick
  <2>2. nap' \in [Callers -> 0 .. Window]
    BY <1>7 DEF TypeOK, Tick
  <2> QED BY <1>7, <2>1, <2>2 DEF TypeOK, Tick
<1>8. CASE UNCHANGED vars
  BY <1>8 DEF TypeOK, vars
<1> QED BY <1>1, <1>2, <1>4, <1>5, <1>6, <1>7, <1>8 DEF Next

\* Every variable has its type; in particular no request goes out that reserves more
\* than the whole budget.
THEOREM LimiterTypeCorrect == Spec => []TypeOK
  BY LimiterTypeInit, LimiterTypeStep, PTL DEF Spec

-----------------------------------------------------------------------------
(* The window.  The limiter never forgets a request too soon: what it counts  *)
(* after pruning includes all that the window holds.                          *)

WindowInv ==
  /\ TypeOK
  /\ granted \subseteq Pruned
  /\ RpmHonoured
  /\ TpmHonoured

LEMMA WindowInit == Init => WindowInv
<1> SUFFICES ASSUME Init PROVE WindowInv
  OBVIOUS
<1>1. granted = {} /\ Reserved(granted) = {}
  BY DEF Init, Reserved
<1> QED BY <1>1, LimiterTypeInit, FS_EmptySet, LimiterAssumption
        DEF WindowInv, RpmHonoured, TpmHonoured, Tpm

\* A step that neither records nor lets time pass.
LEMMA WindowKept ==
  ASSUME WindowInv, TypeOK', UNCHANGED record, kept' \in {kept, Pruned}
  PROVE  WindowInv'
<1>1. Pruned' = Pruned
  BY DEF Pruned, record
<1>2. Tpm(granted)' = Tpm(granted)
  BY DEF Tpm, Reserved, record
<1> QED BY <1>1, <1>2 DEF WindowInv, RpmHonoured, TpmHonoured, record

LEMMA WindowGrant ==
  ASSUME WindowInv, TypeOK', NEW c \in Callers, NEW n \in Nat, Grant(c, n)
  PROVE  WindowInv'
<1> USE LimiterAssumption
<1>1. PICK i \in Records \ (Pruned \cup granted) :
        /\ kept' = Pruned \cup {i}
        /\ age' = [age EXCEPT ![i] = 0]
        /\ tokens' = [tokens EXCEPT ![i] = n]
        /\ granted' = granted \cup {i}
  BY DEF Grant
<1>2. n \in 0 .. TPM
  BY GrantTypes DEF WindowInv
<1>3. Pruned \subseteq Records /\ IsFiniteSet(Pruned) /\ IsFiniteSet(granted)
  <2>1. Pruned \subseteq Records
    BY DEF WindowInv, TypeOK, Pruned
  <2> QED BY <2>1, FS_Subset DEF WindowInv
<1>4. (granted \subseteq Pruned)'
  <2>1. age'[i] < Window
    BY <1>1 DEF WindowInv, TypeOK
  <2>2. \A j \in granted : age'[j] < Window
    BY <1>1, <1>3 DEF WindowInv, TypeOK, Pruned
  <2> QED BY <1>1, <2>1, <2>2 DEF WindowInv, Pruned
<1>5. RpmHonoured'
  <2>1. /\ Cardinality(granted) \in Nat /\ Cardinality(Pruned) \in Nat
        /\ Cardinality(granted) <= Cardinality(Pruned)
    BY <1>3, FS_Subset, FS_CardinalityType DEF WindowInv
  <2>2. Cardinality(granted \cup {i}) = Cardinality(granted) + 1
    BY <1>1, <1>3, FS_AddElement
  <2>3. Cardinality(Pruned) < RPM
    BY DEF Grant, RpmOk
  <2>4. Cardinality(granted) + 1 <= RPM
    BY <2>1, <2>3
  <2> QED BY <1>1, <2>2, <2>4 DEF RpmHonoured
<1>6. TpmHonoured'
  <2>1. Tpm(granted) <= Tpm(Pruned) /\ Tpm(granted) \in Nat /\ Tpm(Pruned) \in Nat
    BY <1>3, TpmMonotone, ReservedFinite DEF WindowInv, TypeOK
  <2>2. Tpm(granted \cup {i})' \in Nat /\ Tpm(granted \cup {i})' <= Tpm(granted) + n
    <3>1. i \in Records \ granted /\ granted \in SUBSET Records
          /\ tokens \in [Records -> 0 .. TPM]
      BY <1>1 DEF WindowInv, TypeOK
    <3> QED BY <1>1, <1>2, <3>1, TpmAdds
  <2>3. Tpm(granted)' = Tpm(granted \cup {i})'
    BY <1>1 DEF Tpm, Reserved
  <2> QED BY <2>1, <2>2, <2>3 DEF Grant, TpmOk, TpmHonoured
<1> QED BY <1>4, <1>5, <1>6 DEF WindowInv

LEMMA WindowStep == ASSUME WindowInv, [Next]_vars PROVE WindowInv'
<1> USE LimiterAssumption
<1>t. TypeOK /\ TypeOK'
  BY LimiterTypeStep DEF WindowInv
<1>1. ASSUME NEW c \in Callers, NEW n \in Nat, Grant(c, n) \/ Sleep(c, n) PROVE WindowInv'
  BY <1>t, <1>1, WindowGrant, WindowKept DEF Sleep
<1>2. ASSUME NEW c \in Callers, NEW n \in Estimates, Acquire(c, n) PROVE WindowInv'
  BY <1>1, <1>2 DEF Acquire
<1>3. ASSUME NEW c \in Callers, Look(c) PROVE WindowInv'
  BY <1>t, <1>1, <1>3 DEF Look, TypeOK
<1>4. ASSUME NEW c \in Callers, Ends(c) \/ Resend(c) \/ Cancel(c) PROVE WindowInv'
  BY <1>t, <1>4, WindowKept
     DEF Ends, Answered, Throttled, Transient, Failed, Resend, Cancel
<1>5. CASE Tick
  <2>1. granted' \subseteq granted /\ kept' = kept /\ tokens' = tokens
    BY <1>5 DEF Tick
  <2>2. \A j \in granted' : age'[j] < Window
    BY <1>t, <1>5 DEF Tick, TypeOK
  <2>3. (granted \subseteq Pruned)'
    BY <2>1, <2>2 DEF WindowInv, Pruned
  <2>4. IsFiniteSet(granted)
    BY <1>t, FS_Subset DEF TypeOK
  <2>5. RpmHonoured'
    <3>1. /\ Cardinality(granted') <= Cardinality(granted) /\ IsFiniteSet(granted')
          /\ Cardinality(granted) \in Nat /\ Cardinality(granted') \in Nat
      BY <2>1, <2>4, FS_Subset, FS_CardinalityType
    <3> QED BY <3>1 DEF WindowInv, RpmHonoured
  <2>6. TpmHonoured'
    <3>1. Tpm(granted') <= Tpm(granted) /\ Tpm(granted) \in Nat /\ Tpm(granted') \in Nat
      BY <1>t, <2>1, TpmMonotone, ReservedFinite DEF TypeOK
    <3>2. Tpm(granted)' = Tpm(granted')
      BY <2>1 DEF Tpm, Reserved
    <3> QED BY <3>1, <3>2 DEF WindowInv, TpmHonoured
  <2> QED BY <1>t, <2>3, <2>5, <2>6 DEF WindowInv
<1>6. CASE UNCHANGED vars
  BY <1>t, <1>6, WindowKept DEF vars, record
<1> QED BY <1>2, <1>3, <1>4, <1>5, <1>6 DEF Next

\* No 60 seconds hold more requests than requests_per_minute, or more reserved
\* tokens than tokens_per_minute.
THEOREM LimitsKept == Spec => []LimitsHonoured
<1>1. WindowInv => LimitsHonoured
  BY DEF WindowInv, LimitsHonoured
<1> QED BY <1>1, WindowInit, WindowStep, PTL DEF Spec

-----------------------------------------------------------------------------
(* Sleeps.                                                                   *)

\* Whoever waits wakes up no later than the next record leaves the window, also
\* when others were let in, or pruned the list, while it slept.
WakesInTime ==
  \A c \in Callers, i \in Pruned : pc[c] = "waiting" => nap[c] <= Window - age[i]

\* A sleep is as long as it takes the oldest record to leave.
LEMMA SleepIsShort ==
  ASSUME TypeOK, NEW c \in Callers, NEW n \in Nat, Sleep(c, n), NEW i \in Pruned
  PROVE  nap'[c] <= Window - age[i]
<1> USE LimiterAssumption
<1>1. nap'[c] \in Delay
  BY DEF TypeOK, Sleep
<1>2. PICK j \in Pruned : nap'[c] = Window - age[j] /\ \A k \in Pruned : age[k] <= age[j]
  BY <1>1 DEF Delay
<1>3. age[i] \in Nat /\ age[j] \in Nat
  BY DEF TypeOK, Pruned
<1> QED BY <1>2, <1>3

LEMMA WakesStep ==
  ASSUME TypeOK, WakesInTime, [Next]_vars
  PROVE  WakesInTime'
<1> USE LimiterAssumption
<1>1. ASSUME NEW c \in Callers, NEW n \in Nat, Grant(c, n)
      PROVE  WakesInTime'
  <2>1. PICK i \in Records :
          kept' = Pruned \cup {i} /\ age' = [age EXCEPT ![i] = 0]
    BY <1>1 DEF Grant
  <2>2. pc' = [pc EXCEPT ![c] = "calling"] /\ nap' = nap
    BY <1>1 DEF Grant
  <2>3. SUFFICES ASSUME NEW d \in Callers, NEW k \in Pruned', pc'[d] = "waiting"
                 PROVE  nap'[d] <= Window - age'[k]
    BY DEF WakesInTime
  <2>4. pc[d] = "waiting"
    BY <2>2, <2>3 DEF TypeOK
  <2>5. CASE k = i
    BY <2>1, <2>2, <2>5 DEF TypeOK
  <2>6. CASE k # i
    BY <2>1, <2>2, <2>4, <2>6 DEF WakesInTime, Pruned, TypeOK
  <2> QED BY <2>5, <2>6
<1>2. ASSUME NEW c \in Callers, NEW n \in Nat, Sleep(c, n)
      PROVE  WakesInTime'
  <2>1. /\ UNCHANGED age
        /\ \A d \in Callers \ {c} : pc'[d] = pc[d] /\ nap'[d] = nap[d]
        /\ Pruned' \subseteq Pruned
    BY <1>2 DEF Sleep, record, Pruned, TypeOK
  <2> QED BY <1>2, <2>1, SleepIsShort DEF WakesInTime
<1>3. ASSUME NEW c \in Callers, Ends(c) \/ Resend(c) \/ Cancel(c)
      PROVE  WakesInTime'
  BY <1>3 DEF Ends, Answered, Throttled, Transient, Failed, Return, Resend, Cancel, record,
     WakesInTime, Pruned, TypeOK
<1>4. CASE Tick
  <2>1. SUFFICES ASSUME NEW c \in Callers, NEW i \in Pruned', pc'[c] = "waiting"
                 PROVE  nap'[c] <= Window - age'[i]
    BY DEF WakesInTime
  <2>2. /\ i \in Pruned /\ age[i] \in 0 .. Window /\ nap[c] \in 0 .. Window
        /\ age'[i] = age[i] + 1 /\ age'[i] <= Window
        /\ nap'[c] = IF nap[c] > 0 THEN nap[c] - 1 ELSE 0
    BY <1>4 DEF Tick, Pruned, TypeOK
  <2>3. nap[c] <= Window - age[i]
    BY <1>4, <2>1, <2>2 DEF Tick, WakesInTime
  <2> QED BY <2>2, <2>3
<1>5. CASE UNCHANGED vars
  BY <1>5 DEF vars, WakesInTime, Pruned
<1>6. ASSUME NEW c \in Callers, NEW n \in Estimates, Acquire(c, n)
      PROVE  WakesInTime'
  BY <1>1, <1>2, <1>6 DEF Acquire
<1>7. ASSUME NEW c \in Callers, Look(c)
      PROVE  WakesInTime'
  BY <1>1, <1>2, <1>7 DEF Look, TypeOK
<1> QED BY <1>3, <1>4, <1>5, <1>6, <1>7 DEF Next

\* acquire never oversleeps: from the moment it computes its delay to the one it looks
\* again, whatever other calls are granted or prune the windows meanwhile, no record
\* leaves the window without waking it.
THEOREM NobodyOversleeps == Spec => []WakesInTime
<1>1. Init => WakesInTime
  BY DEF Init, WakesInTime
<1> QED BY <1>1, WakesStep, LimiterTypeCorrect, PTL DEF Spec

-----------------------------------------------------------------------------
(* Retries.                                                                  *)

\* A request is counted from its first attempt on, and one that is to be sent again
\* has an attempt left, whichever failures came before.
AttemptsCounted ==
  \A c \in Callers :
    /\ pc[c] = "calling" => attempt[c] \in 1 .. RATE_LIMIT_ATTEMPTS
    /\ pc[c] = "backoff" => attempt[c] \in 1 .. RATE_LIMIT_ATTEMPTS - 1

\* The sends and backoffs that a request that went out has ahead of it, at most.
AttemptsLeft(c) ==
  CASE pc[c] = "calling" -> 2 * (RATE_LIMIT_ATTEMPTS - attempt[c]) + 2
    [] pc[c] = "backoff" -> 2 * (RATE_LIMIT_ATTEMPTS - attempt[c]) + 1
    [] OTHER             -> 0

AttemptsFall(c) ==
  pc[c] \in {"calling", "backoff"} /\ pc'[c] # pc[c] => AttemptsLeft(c)' < AttemptsLeft(c)

LEMMA AttemptsStep ==
  ASSUME TypeOK, AttemptsCounted, [Next]_vars
  PROVE  AttemptsCounted' /\ \A c \in Callers : AttemptsFall(c)
<1> USE LimiterAssumption
<1>1. ASSUME NEW c \in Callers, NEW n \in Nat, Grant(c, n) \/ Sleep(c, n),
             pc[c] \in {"idle", "waiting"}
      PROVE  AttemptsCounted' /\ \A d \in Callers : AttemptsFall(d)
  BY <1>1 DEF Grant, Sleep, AttemptsCounted, AttemptsFall, TypeOK
<1>2. ASSUME NEW c \in Callers, NEW n \in Estimates, Acquire(c, n)
      PROVE  AttemptsCounted' /\ \A d \in Callers : AttemptsFall(d)
  BY <1>1, <1>2 DEF Acquire
<1>3. ASSUME NEW c \in Callers, Look(c)
      PROVE  AttemptsCounted' /\ \A d \in Callers : AttemptsFall(d)
  BY <1>1, <1>3 DEF Look, TypeOK
<1>4. ASSUME NEW c \in Callers, Return(c)
      PROVE  AttemptsCounted' /\ \A d \in Callers : AttemptsFall(d)
  BY <1>4 DEF Return, AttemptsCounted, AttemptsFall, AttemptsLeft, TypeOK
<1>5. ASSUME NEW c \in Callers, NEW limit \in 1 .. RATE_LIMIT_ATTEMPTS, Failed(c, limit)
      PROVE  AttemptsCounted' /\ \A d \in Callers : AttemptsFall(d)
  <2>1. CASE Stops(c, limit)
    BY <1>4, <1>5, <2>1 DEF Failed
  <2>2. CASE ~ Stops(c, limit)
    <3>1. /\ pc' = [pc EXCEPT ![c] = "backoff"] /\ attempt' = attempt
          /\ pc[c] = "calling" /\ attempt[c] < limit
      BY <1>5, <2>2 DEF Failed, Stops, TypeOK
    <3> QED BY <3>1 DEF AttemptsCounted, AttemptsFall, AttemptsLeft, TypeOK
  <2> QED BY <2>1, <2>2
<1>6. ASSUME NEW c \in Callers, Ends(c) \/ Cancel(c)
      PROVE  AttemptsCounted' /\ \A d \in Callers : AttemptsFall(d)
  BY <1>4, <1>5, <1>6 DEF Ends, Answered, Throttled, Transient, Cancel
<1>7. ASSUME NEW c \in Callers, Resend(c)
      PROVE  AttemptsCounted' /\ \A d \in Callers : AttemptsFall(d)
  BY <1>7 DEF Resend, AttemptsCounted, AttemptsFall, AttemptsLeft, TypeOK
<1>8. CASE Tick \/ UNCHANGED vars
  BY <1>8 DEF Tick, vars, AttemptsCounted, AttemptsFall
<1> QED BY <1>2, <1>3, <1>6, <1>7, <1>8 DEF Next

\* A request that went out is sent a bounded number of times, in whatever order 429s and
\* other failures come (two limits on one counter), and so comes back as soon as each
\* attempt does.
THEOREM CallsAreFinite ==
  Spec => /\ []AttemptsCounted
          /\ [][\A c \in Callers : AttemptsFall(c)]_vars
<1>1. Init => AttemptsCounted
  BY DEF Init, AttemptsCounted
<1>2. TypeOK /\ AttemptsCounted /\ [Next]_vars => AttemptsCounted'
  BY AttemptsStep
<1>3. TypeOK /\ AttemptsCounted /\ [Next]_vars => [\A c \in Callers : AttemptsFall(c)]_vars
  BY AttemptsStep
<1> QED BY <1>1, <1>2, <1>3, LimiterTypeCorrect, PTL DEF Spec
=============================================================================
