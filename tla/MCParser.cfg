SPECIFICATION Spec
CONSTANTS
  Null = Null
  Texts <- MCTexts
  Letter <- Letters
  Digit = {"1"}
  Keywords <- MCKeywords
CHECK_DEADLOCK FALSE
INVARIANTS TypeOK LongestLexemes LocationsTrue AcceptsLanguage TreeMatchesText
PROPERTY ParsingEnds
