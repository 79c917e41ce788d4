\* An agent that is run by a tool it uses itself.
SPECIFICATION Spec
CONSTANTS
  agent = agent
  tool = tool
  task = task
  branch = branch
  Names = {agent, tool}
  Tasks = {}
  Branches = {branch}
  BranchesOf <- MCBranchesOf
  Workflow = Workflow
  Waiting = Waiting
  NoNode = NoNode
  MaxSpans = 3
  MaxEvents = 4
  MaxTime = 3
  Wanted = {}
  MaxReplay = 4
  MaxShown = 4
  MaxLevel = 4
INVARIANTS
  LevelsAreBounded
CHECK_DEADLOCK FALSE
