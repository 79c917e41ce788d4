\* A run of an agent, a tool and a task; a list that forgets; every rendering
\* ends, or meets a cycle.
SPECIFICATION FairSpec
CONSTANTS
  agent = agent
  tool = tool
  task = task
  branch = branch
  Names = {agent, tool, task}
  Tasks = {task}
  Branches = {branch}
  BranchesOf <- MCBranchesOf
  Workflow = Workflow
  Waiting = Waiting
  NoNode = NoNode
  MaxSpans = 3
  MaxEvents = 5
  MaxTime = 1
  Wanted = {"success"}
  MaxReplay = 3
  MaxShown = 4
  MaxLevel = 4
INVARIANTS
  TypeOK
  Rooted
  OnlyRealEdges
  HierarchyShown
  LevelsAreLongestPaths
  StatusIsNewest
  LevelsFitTheGraph
PROPERTIES
  RenderEnds
CHECK_DEADLOCK FALSE
