CONSTANTS
  d1 = d1
  d2 = d2
  Disp <- TwoDisp
  Req <- TwoReqs
  Codes <- Outcomes
  MayExpire <- OneReq
  MaxJobs = 1
  Attempts = 1
  MaxFaults = 2
SPECIFICATION FairSpec
ACTION_CONSTRAINT FewUpsets
PROPERTIES NeverInterruptsItself VerdictNotLost PromiseSpec EventuallyAnswered
