CONSTANTS
  Tab = {t1}
  Repl = Repl
  Script = {1, 2}
  Session = {1, 2}
  Prompt = {p1, p2}
  None = None
  p1 = p1
  p2 = p2
  Text <- MCText
  MaxPrompts = 2
  MaxOverlaps = 1
  MaxFaults = 1
SPECIFICATION FairSpec
INVARIANTS TypeOK OwnConversation ProposalIsLast BypassConfirmed RecordedAlone
PROPERTIES PromptAnswered
\* The prompts run out.
CHECK_DEADLOCK FALSE
