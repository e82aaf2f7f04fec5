\* Line readers: all short streams over a byte, CR and LF
CONSTANTS
  SIZE_MAX = 31
  Streams <- MCStreams
SPECIFICATION Spec
INVARIANTS
  TypeOK
  NothingHeldBack
PROPERTIES
  DeliversTheLines
\* empty pieces can always be fed, in every language
