SPECIFICATION ConsoleSpec
CONSTANTS
  MaxCommands = 2
  MaxButtons = 2
  MaxFaults = 2
  Gap = Gap
  Pipelines <- MCPipelines
  Forms <- MCForms
CHECK_DEADLOCK FALSE
INVARIANTS
  ConfirmedStays
  MailedAsTold
PROPERTIES
  NothingForgotten
  ConsoleSettles
