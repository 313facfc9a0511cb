\* Rules locked by a click that had failed replace those on display.
SPECIFICATION Spec
CONSTANTS
  strict = strict
  loose = loose
  zeroAddress = zeroAddress
  small = small
  large = large
  Rules = {strict, loose}
  ValidRules = {strict, loose}
  Intents = {large}
  Permits <- MCPermits
  None = None
  MaxTasks = 3
  MaxProbes = 1
CONSTRAINT OneAtATime
PROPERTY PayoutsFollowShownRules
