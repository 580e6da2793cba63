SPECIFICATION Spec
CONSTANTS
  Word = 6
  Half = 3
  Quarter = 2
  Floats <- MCFloats
  Pages <- MCPages

PROPERTY AddsIntegers
