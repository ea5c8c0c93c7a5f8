CONSTANTS
  Ports = {p1, p2}
  DefaultPort = p1
  Shell = TRUE
  CliBeside = FALSE
  Typed = FALSE
  NoPrior = NoPrior
  Unread = Unread
  NoWork = NoWork
SPECIFICATION Spec

PROPERTY CrashKeepsIntent
