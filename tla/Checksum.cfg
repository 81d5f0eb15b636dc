\* Every header of three 4-bit words (4096 headers): enough words for the
\* sum to carry twice, so the fold loop runs more than once.  The single
\* state of each behaviour never changes, so there is no deadlock to check.
CONSTANTS
  WORD_BITS = 4
  HDR_WORDS = 3
  CSUM_WORD = 2
SPECIFICATION Spec
INVARIANT ChecksumMatchesReference ChecksumValidates ByteCorruptionDetected
