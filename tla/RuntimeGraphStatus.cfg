\* A span that starts and ends in the same millisecond.
SPECIFICATION Spec
CONSTANTS
  agent = agent
  tool = tool
  task = task
  branch = branch
  Names = {agent, tool}
  Tasks = {}
  Branches = {branch}
  BranchesOf <- MCBranchesOf
  Workflow = Workflow
  Waiting = Waiting
  NoNode = NoNode
  MaxSpans = 2
  MaxEvents = 5
  MaxTime = 1
  Wanted = {}
  MaxReplay = 5
  MaxShown = 5
  MaxLevel = 4
INVARIANTS
  CompletedIsShown
CHECK_DEADLOCK FALSE
