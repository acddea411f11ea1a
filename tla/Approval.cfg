SPECIFICATION FairSpec
CONSTANTS
  Callers = {c1}
  Turn = t
  Setters = {s1}
  PromptIds = {i1, i2}
  NoId = no
  Nobody = nobody
INVARIANTS OneAnswerablePrompt AskedWhatIsTheirs GateFollowsMode
PROPERTY WaitsEnd
