SPECIFICATION FairSpec
CONSTANTS
  MaxAudioChunks = 2
  MaxSpoken = 5
INVARIANTS AccumulatorConsistent AudioInOrder
PROPERTIES VoiceEndFresh StartGetsEnd
