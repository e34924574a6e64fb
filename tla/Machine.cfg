\* Expressions, loops, branches, calls, pointers and members.
CONSTANTS
  Programs <- AllPrograms
  Rsp0 <- BothAlignments
  Width = 32768
  StackTop = 4096
  CodeSize = 10
  LiteralsSize = 1
  Height = 12
SPECIFICATION Spec
INVARIANTS MachineTypeOK ResultCorrect CallAligned StackBelowVariables LoopKeepsStack LoopStack
PROPERTIES FrameRestored Termination
