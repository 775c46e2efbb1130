\* Every graph of three slots, emitted in every order, cycles and never-filled
\* slots included; plain, with -k and all modules, with packages stripped, and
\* with all three flags.
SPECIFICATION Spec
CONSTANTS
  Nil = Nil
  MaxNodes = 3
  MaxResults = 1
  Option <- FourOptions
  Kind <- TwoKinds
INVARIANTS TypeOK DeliveredInOrder FinishExact ResultsDelivered StripExact
