CONSTANTS
  Reports = {"working"}
  MaxOscBytes = 1
  MaxStream = 7
  MaxRead = 2
  Agents = {"pi", "codex", "claude"}
  Texts <- MCTexts
  Lines <- MCLines
  Index <- MCIndex
  PreviewLimit = 2
  MaxLines = 4
  None = None
  Forms <- MCForms
  Talk <- MCTalk
  Height = 4
SPECIFICATION MCSpec
INVARIANTS
  TypeOK
  ReportsExact
  LiveFormDecides
  HistoryExact
  ListedAsShown
CHECK_DEADLOCK FALSE
