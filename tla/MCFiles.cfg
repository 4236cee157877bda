CONSTANTS
  Key = {k1, k2}
  Data = {d1, d2}
SPECIFICATION CommittingSpec
INVARIANTS QueueConsistent
PROPERTIES CommitDelivers UploadsSent
