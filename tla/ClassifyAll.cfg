SPECIFICATION Spec
CONSTANTS
  Empty = ""
  Dots = {".."}
  Lower <- LowerCase
  Families <- Explored
  Mimetypes = {"odt", "text"}
  Vendor = {"odt"}
  None = none
  Modern = {"1.2"}
  Content = "content.xml"
  Package = "encrypted-package"
  Mimetype = "mimetype"
  MetaInf = "META-INF"
  Manifest = "manifest.xml"
  Signatures = {"signatures.xml"}
  MaxMembers = 4
  MaxRows = 4
INVARIANTS
  EntriesAreStreams
  CacheStaysNear
  LatchIsFirst
  WholesomeHasPayload
  RekeyCoversEveryStream
