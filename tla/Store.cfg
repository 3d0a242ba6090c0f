SPECIFICATION Spec
CONSTANTS
  SlotKeys <- MCSlotKeys
  Texts <- MCTexts
  Ssids <- MCSsids
  Passes <- MCPasses
  Numbers <- MCNumbers
  Low = 2
  High = 5
  MaxFaults = 2
  MaxSaves = 4
INVARIANTS SavedAsAsked NameBeforePass RebootChangesNothing
CHECK_DEADLOCK FALSE
