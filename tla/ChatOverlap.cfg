\* A click while a script runs breaks both; keep one of them to see its trace.
CONSTANTS
  Tab = {t1}
  Repl = Repl
  Script = {1, 2}
  Session = {1, 2}
  Prompt = {p1, p2}
  None = None
  p1 = p1
  p2 = p2
  Text <- MCText
  MaxPrompts = 2
  MaxOverlaps = 1
  MaxFaults = 0
SPECIFICATION Spec
INVARIANTS NoGhostPanel RecordedOnce
\* The prompts run out.
CHECK_DEADLOCK FALSE
