SPECIFICATION Spec
CONSTANTS
  Releases <- MCReleases
  Files <- MCFiles
  ReleaseFiles <- MCReleaseFiles
  SchemaFiles <- MCSchemaFiles
  Absent = Absent
  Partial = Partial
  Edited = Edited
  Unset = Unset
INVARIANTS
  SyncTypeOK
  OneRelease
  CheckTrusted
  LoadsOneRelease
PROPERTIES
  SyncDelivers
