SPECIFICATION Spec
CONSTANTS
  Letters <- MCLetters
  Digits <- MCDigits
  Texts <- MCTexts
INVARIANTS PlacesTrue NothingLost TokensRight RefusedRightly
PROPERTIES Terminates
