\* Two blocks with two contents; states are loaded, files fail to open, the card is
\* destroyed and created again.
CONSTANTS
  Blocks = {b1, b2}
  Contents = {erased, saved}
  Erased = erased
  Formatted = erased
  NoFile = NoFile
  Owner = Owner
  Flusher = Flusher
  Nobody = Nobody
  Savestates = TRUE
SPECIFICATION FairSpec
INVARIANTS NoWriteForgotten CopyIsWhole ShutdownSaves
PROPERTIES WritesAreFlushed
