SPECIFICATION FairSpec
CONSTANTS
  Callers = {c1, c2}
  Records = {r1, r2, r3}
  Estimates = {1, 2, 4}
  RPM = 2
  TPM = 3
  Window = 3
  RATE_LIMIT_ATTEMPTS = 4
  TRANSIENT_ATTEMPTS = 2
INVARIANTS TypeOK LimitsHonoured
PROPERTIES CallsProgress
