SPECIFICATION MCSpec
CONSTANTS
  Requests <- MCRequests
  Uploads = {1, 2}
  Quota = 2
  StagingTtl = 1
  OrphanTtl = 1
  MaxChanges = 1
  MaxCrashes = 1
INVARIANTS BlobsKept BytesAccounted
 
