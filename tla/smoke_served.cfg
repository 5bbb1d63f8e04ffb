SPECIFICATION FairSpec
CONSTANTS
  match = match
  paper = paper
  tobacco = tobacco
  smoke = smoke
  agent = agent
  Thread = {match, paper, tobacco, agent}
  Cond = {match, paper, tobacco, smoke}
  NoThread = NoThread
  NUM_ITERATIONS = 1
CHECK_DEADLOCK FALSE
PROPERTY AgentServed
