\* Pokes, peeks and swaps while the user pauses, resumes, stops and boots again.
CONSTANTS
  Data = {1}
  MaxQueue = 3
SPECIFICATION FairSpec
PROPERTIES ImplementsQueue PushReturns
