CONSTANTS
  OwnId = 5
  Priority1 = 128
  Accuracy = 254
  Variance = 10
  Priority2 = 248
  Options <- Shipped
  max_foreign_records = 2
  PdelayReqTicks = 2
  DelayReqTicks = 2
  SyncTicks = 1
  AnnounceReceiptTicks = 3
  AnnounceTicks = 2
  GrantedTicks = {3}
  MaxElapsed = 1
  Announces <- TwoMasters
SPECIFICATION HistorySpec
PROPERTIES FaultyInitialisesNext
