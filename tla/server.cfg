CONSTANTS
  Conns = {c1, c2, c3}
  Callers = {c1, c2, c3}
  Daemon = Daemon
  MaxConnections = 2
  Interval = 2
SPECIFICATION FairSpec
INVARIANTS SlotsConserved NoIdleSlot ActiveIsServed DaemonTracksLastReset
PROPERTIES HandlersEnd CachesAreReset
