CONSTANTS
  MaxPayload = 74
  MaxCount = 3
  MaxTotal = 9
  MaxName = 3
  MaxPacket = 80
  MaxBanner = 6
  Chunk = 3
  Hellos <- MCHellos
SPECIFICATION KexSpec
INVARIANTS
  RecognisedOnceComplete
  FingerprintOfWhatWasSent
  FingerprintIdentifiesOffer
