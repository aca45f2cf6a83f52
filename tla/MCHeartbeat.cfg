SPECIFICATION HeartbeatSpec
CONSTANTS
  Daemon = {d1, d2}
  User = {u1, u2}
  MaxNotes = 2
  MaxAttempts = 2
  Agenda <- Agendas
  NoDaemon = NoDaemon
  NoBox = NoBox
INVARIANTS
  OnlyRacesSpoilTheOutbox
  OneDaemon
PROPERTY NotificationsEnd
CHECK_DEADLOCK FALSE
