CONSTANTS
  main = main
  s1 = s1
  s2 = s2
  s3 = s3
  f1 = f1
  f2 = f2
  NoPanel = NoPanel
  m_pMainMenu = main
  Panels <- MCPanels
  Files <- MCFiles
SYMMETRY MCSymmetry
SPECIFICATION Spec
INVARIANTS
  TypeOK
  PointersAreLive
  DeletedOnce
  OnePageShown
PROPERTY
  ClosingStartsAfresh
