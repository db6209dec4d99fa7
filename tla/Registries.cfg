\* Six calls, in every order, of two imports, eight registrations, three adapters and four walks.
SPECIFICATION RegistriesSpec
CONSTANTS
  Registrations <- MCRegistrations
  Modules <- MCModules
  Adapters <- MCAdapters
  Walks <- MCWalks
  MaxCalls = 6
  Undefined = Undefined
INVARIANT RegistryHonest
PROPERTY LookupsStable
CHECK_DEADLOCK FALSE
