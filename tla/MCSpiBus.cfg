SPECIFICATION FairSpec
CONSTANTS
  Options <- AllOptions
  Samples = 2
  Backlog = 2
  MaxFaults = 3
INVARIANTS PanelHears
PROPERTIES SamplesAreTrue Heals
