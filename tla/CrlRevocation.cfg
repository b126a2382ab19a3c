CONSTANTS
  Places <- FourPlaces
  Tables <- AllTables
  Width = 4
  Entries <- SomeEntries
  ValidateTimes <- SomeTimes
  Versions <- BothVersions
  MaxEntries = 2
SPECIFICATION Spec
  
PROPERTIES FoundExact Terminates
