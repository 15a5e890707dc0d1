CONSTANTS
  Self = Self
  Stranger = Stranger
  NoMaster = NoMaster
  Masters = {a, b}
  SequenceIdSpace = 3
  Environments <- Meets
SPECIFICATION FairSpec
INVARIANTS TypeOK NoSyncAcrossMasters FollowUpNamesItsSync
PROPERTIES ImplementsTwoWayTime Recalibrates
