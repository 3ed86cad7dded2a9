\* One workflow settles and nothing is left to do: the model ends there.
CHECK_DEADLOCK FALSE
SPECIFICATION FairSpec
CONSTANTS
  StepCount = 4
  DependsOn <- Branches
  AgentlessSteps <- SecondStep
  Unlimited = FALSE
  MaxAttempts = 2
  MaxBoots = 4
  Tasks <- StepTasks
  InitialCredits <- ThreeCredits
  GrantSizes <- NoGrants
  MaxFunded = 3
INVARIANTS
  CompletedStepsAreSound
  StepPaidOnce
  SettledJobClosesWorkflow
PROPERTIES
  SettledIsFinal
  WorkflowSettles
