SPECIFICATION Spec
CONSTANTS
  MaxInt = 2
  NoVersion = NoVersion
INVARIANT ComparisonsMatchText
