\* Two logins that overlap, answers of two clients, a job that signs, a restart
\* that may begin a login of its own.
SPECIFICATION LoginFairSpec
CONSTANTS
  Logins = {l1, l2}
  Clients = {c1, c2}
  None = None
  MaxChallenges = 2
  MaxRecoveries = 1
  MaxCrashes = 1
INVARIANTS
    AnswerMeetsChallenge
    NoLostWakeUp
    SideloaderServes
PROPERTIES
    SignInEnds
CHECK_DEADLOCK FALSE
