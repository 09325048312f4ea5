CONSTANTS
  Hour = 2
  Dur = 4
  MaxTs = 14
  MaxEntries = 4
SPECIFICATION Spec
INVARIANTS TypeOK EachEntryOnce WindowsApart GapsAreSilence OneActive OwnerAgrees
CHECK_DEADLOCK FALSE
