\* Whether the destructor returns; no states are loaded.
CONSTANTS
  Blocks = {b1}
  Contents = {erased, saved}
  Erased = erased
  Formatted = erased
  NoFile = NoFile
  Owner = Owner
  Flusher = Flusher
  Nobody = Nobody
  Savestates = FALSE
SPECIFICATION FairSpec
PROPERTIES DestructorReturns
