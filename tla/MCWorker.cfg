SPECIFICATION FairSpec
CONSTANTS
  Callers = {main, c1}
  Owner = main
  Types = {A, B}
  MaxCalls = 2
  NONE = NONE
  STOP = STOP
INVARIANTS DrainedBeforeExit AnswerIsOwn RunResult WorkerOutlivesThread
PROPERTIES LifeCycleCallsReturn RequestsAnswered
CHECK_DEADLOCK FALSE
