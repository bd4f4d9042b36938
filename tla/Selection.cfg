SPECIFICATION Spec
CONSTANTS
  Unreadable = Unreadable
  Garbled = Garbled
  Unknown = Unknown
  Fold <- MCFold
  Decorated <- MCDecorated
  NormOf <- MCNormOf
  Vid = {"VID_1"}
  MaxCandidates = 2
  Lower <- MCLower
  Noise <- MCNoise
  ModelNumber <- MCModelNumber
  Extends <- MCExtends
  Versioned <- MCVersioned
  EndsIn <- MCEndsIn
  Within <- MCWithin
  Floor = 250
  Bits = 4
  MaxAttempts = 3
  InfCase <- MCInfCase
  RowsCase <- MCRowsCase
  IndexCase <- MCIndexCase
  PackCase <- MCPackCase
  ModelCase <- MCModelCase
  NameCase <- MCNameCase
  CidrCase <- MCCidrCase
  ScanCase <- MCScanCase
INVARIANT InfMatches CatalogGoesOn IndexAnswers PackIsPicked ModelMatches NameMatches ScanAsksTheNetwork ScanLists
