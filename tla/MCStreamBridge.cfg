\* Up to three segments, each silent or one word long, an engine that may fail
\* at any of them, a client that may stall or leave at any moment, and a server
\* that may stop once the response is over or was dropped.
CONSTANTS
  word = word
  Space = Space
  Texts <- SomeTexts
  MaxSegments = 3
SPECIFICATION FairHandled
INVARIANTS DeltasMakeTheText FrameOrder DoneTellsAll ErrorsAreFailures
PROPERTIES ImplementsDelivery ImplementsHandler
PROPERTIES CleanupWhateverTheClient GoneStopsTheEngine ResponseEnds
CHECK_DEADLOCK FALSE
