SPECIFICATION FairSpec
CONSTANTS
  a1 = a1
  a2 = a2
  p1 = p1
  p2 = p2
  NoAlbum = NoAlbum
  Workers = {w1, w2}
  Posts = {a1, a2, p1, p2}
  AlbumOf <- OneAlbum
  Numbered = {a1, a2, p1}
  Groups = {g1}
  Faults = {"refused", "lost_reply", "backlog"}
  Days = 2
  MaxCrashes = 1
  CopyCap = 2
INVARIANTS TypeOK NumbersAreDense AlbumIsOneOrder DeliveredOnce DeliveredMeansReceived NoOrderIsDropped
PROPERTIES RoutedUnlessCrashed
CHECK_DEADLOCK FALSE
