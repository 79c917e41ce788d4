\* A run with more events than the browser keeps.
SPECIFICATION Spec
CONSTANTS
  agent = agent
  tool = tool
  task = task
  branch = branch
  Names = {agent, tool}
  Tasks = {}
  Branches = {branch}
  BranchesOf <- MCBranchesOf
  Workflow = Workflow
  Waiting = Waiting
  NoNode = NoNode
  MaxSpans = 2
  MaxEvents = 4
  MaxTime = 4
  Wanted = {}
  MaxReplay = 2
  MaxShown = 2
  MaxLevel = 4
INVARIANTS
  RunningIsNotCompleted
CHECK_DEADLOCK FALSE
