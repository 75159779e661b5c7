\* A service, a foreground refresh and another operation, every fault.
CONSTANTS
  service = service
  cli = cli
  other = other
  Service = {service}
  Foreground = {cli}
  Other = {other}
  Interval = {2, 3}
  Override <- NoOverride
  NoInterval = NoInterval
  Base = 1
  MinWait = 1
  MaxWait = 2
  MaxAge = 3
  MaxFailures = 3
  Cooldown = {0, 2}
  Mortal = {cli, other}
  CanFailPersist = TRUE
SPECIFICATION FairSpec
INVARIANTS TypeOK IInv
PROPERTIES RefreshesSpaced CooldownsHonoured ServiceRefreshes
