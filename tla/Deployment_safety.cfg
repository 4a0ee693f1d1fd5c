CONSTANTS
  gateway = gateway
  tool = tool
  good = good
  other = other
  refused = refused
  Nil = Nil
  Skills <- MCSkills
  Required <- MCRequired
  Versions <- MCVersions
  Builds <- MCBuilds
  Invalid <- MCInvalid
  Unloadable <- MCUnloadable
  MaxEvents = 4
SPECIFICATION DeploymentSpec
INVARIANTS InstallsWhatIsLocked
PROPERTY LockedBytesSafe
