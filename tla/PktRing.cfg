SPECIFICATION Spec
CONSTANTS
  a = a
  b = b
  Capacity = 3
  TimeStamps <- MCTimeStamps
  Payloads <- MCPayloads
  NoEntry = NoEntry
INVARIANTS
  GetByTsIsNewest
  ExportsExact
PROPERTIES
  ImplementsLastN
