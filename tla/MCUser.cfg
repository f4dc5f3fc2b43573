SPECIFICATION UserSpec
CONSTANTS
  Apps = {a, b}
  Owners = {a, b}
  CmdMax = 5
  RegMax = 3
  Word = 2
  Lens = {2, 3}
  MaxSent = 5
  MaxDraws = 2
  WinMax = 2
  MaxRects = 1
  LastPlace = 1
  MaxCommands = 2
  Popups = {FALSE}
  MaxMouse = 2
INVARIANTS
  FocusSound ScreenFollows Relayed SlotsDistinct StartupSound TerminalShows
  StreamsSound ConversionsExact ProcSound BootSound
SYMMETRY Symmetric
VIEW UserView
CHECK_DEADLOCK FALSE
