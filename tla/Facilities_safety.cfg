CONSTANTS
  hook = hook
  map = map
  slack = slack
  hmac = hmac
  lan = lan
  wan = wan
  manual = manual
  c1 = c1
  c2 = c2
  None = None
  Torn = Torn
  Hooks <- MCHooks
  Publishers <- MCPublishers
  Profiles <- MCProfiles
  Minted <- MCMinted
  Hosts <- MCHosts
  Manual <- MCManual
  Calls <- MCCalls
  Requests <- MCRequests
  MaxMint = 5
  MaxEdits = 2
SYMMETRY MCSymmetry
SPECIFICATION FacilitiesSpec
INVARIANTS GrantsWork ProvisionedReaches
