\* The sets of the parts share values, so that one symmetry serves all of them.
SPECIFICATION PartsSpec
CONSTANTS
  None = None
  Remotes = {r1, r2}
  Sessions = {s1, s2}
  Forwards = {n1, n2, n3}
  Attempts = {n1, n2, n3}
  Nobody = Nobody
  Writers = {r1, r2}
  Readers = {s1, s2}
  Final = Final
  Missing = Missing
  Attempted = 2
  Storers = {n1, n2, n3}
  Size = 2
SYMMETRY RemoteSymmetry
INVARIANTS TypeOK LeasesAgree
INVARIANTS TransferTypeOK OpenedIsWhole LeftoversAreNamed
INVARIANTS FileInv BlobIsWhole
PROPERTIES SessionsKeepConnection HandlesLeaveReleased RemovesNoLiveFile ImplementsRegister
