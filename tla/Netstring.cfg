SPECIFICATION FairSpec
CONSTANTS
  Streams <- MCStreams
  Batches <- MCBatches
  Limit = 16
INVARIANTS TypeOK OnlyWhatWasSent AllThatWasSent Tiled
PROPERTIES Terminates
