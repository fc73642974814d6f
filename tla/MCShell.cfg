SPECIFICATION ShellSpec
CONSTANTS
  PROCS_MAX = 2
  NumImages = 1
  Vals <- MCVals
  r1 = r1
  Rest = {r1}
  Traps <- MCTraps
  MaxInput = 1
  Keys <- MCKeys
  LineSize = 4
  Junk = {104}
  Hello <- MCHello
  Exit <- MCExit
  PromptText <- MCPromptText
  TooLongText <- MCTooLongText
  HelloText <- MCHelloText
  UnknownText <- MCUnknownText
INVARIANTS
  ShellAnswers
  LineInside
PROPERTY
  ShellLives
