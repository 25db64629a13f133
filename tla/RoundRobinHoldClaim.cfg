SPECIFICATION Spec
CONSTANTS
  inputs_p = 4
PROPERTIES SingleTopRequestHolds
