SPECIFICATION SpecTabs
CONSTANTS
  Sessions = {1, 2}
  Layouts <- MCLayouts
  Base <- MCBase
  Board <- MCBoard
  Team = "team"
  Under <- MCUnder
  Modes = {"terminal", "chat", "files", "git"}
  Widths = {"wide", "phone"}
  MaxTabs = 2
INVARIANTS PaneActsForActive ModeIsActives
