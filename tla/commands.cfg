SPECIFICATION FairSpec
CONSTANTS
  c1 = c1
  c2 = c2
  c3 = c3
  Command <- OneOfEach
  Family <- OneFamilyEach
  NoCommand = NoCommand
  SeqMax = 2
  Loop = {l1, l2}
  SendMayFail = TRUE
INVARIANTS OwnAnswer AnswerCounts
PROPERTIES RefinesPromise CallbackComes
CHECK_DEADLOCK FALSE
