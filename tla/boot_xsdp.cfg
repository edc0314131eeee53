SPECIFICATION Spec
CONSTANTS
  ConfigTables <- AnyTables
  ModeLists <- AnyModes
  Target = "800x600"
  EventPlaces <- QuietAtExit
  MaxEvents = 1
  DEBUG = FALSE
INVARIANT Acpi2Located
