SPECIFICATION MCSpec
CONSTANTS
  Mine = {"s1", "s2"}
  Twin = {"tw"}
  Other = {"ot"}
  AiCall = {"c1", "c2"}
  AiBudgets <- MCAiBudgets
  View = {v1, v2}
  AckSize = 3
  LowWatermark = 3
  HighWatermark = 4
  FitDelay = 2
  Chunks <- MCChunks
  TermBudgets <- MCBudgets
  HtmlSrc = {"a"}
  HtmlSend = {"s", "t"}
  MaxHtml = 2
  MaxUp = 3
  MaxDown = 2
INVARIANTS    NeverStuck  PanelServed
SYMMETRY MCSymmetry
CHECK_DEADLOCK FALSE
