------------------------------ MODULE Checksum ------------------------------
(***************************************************************************)
(* netIPv4Checksum (src/kernel/networking/stack/ipv4.c): the one's-        *)
(* complement sum of a header's 16-bit words, carries folded back, then    *)
(* complemented.  The word width is the constant WORD_BITS (16 in the      *)
(* code) so that every header of a few short words can be enumerated; a    *)
(* word is two bytes of WORD_BITS \div 2 bits.  The header is a sequence   *)
(* of words (callers pass ihl * 4 bytes, an even count, so the odd         *)
(* trailing byte of the code never occurs).  The one variable is the       *)
(* header under test, chosen by Init among all headers.                    *)
(***************************************************************************)
EXTENDS Integers, Sequences, SequencesExt

CONSTANTS
  WORD_BITS,   \* width of a word (16 in the code)
  HDR_WORDS,   \* words in a header
  CSUM_WORD    \* index of the checksum field

ASSUME /\ WORD_BITS \in {2, 4, 6, 8}
       /\ CSUM_WORD \in 1 .. HDR_WORDS

VARIABLE hdr

Base == 2 ^ WORD_BITS
ByteBase == 2 ^ (WORD_BITS \div 2)
Words == 0 .. Base - 1
Headers == [1 .. HDR_WORDS -> Words]

\* The inner loop summing the words read through a uint16_t pointer.
RECURSIVE WordSumLowByte(_)
WordSumLowByte(ws) ==
  IF ws = <<>> THEN 0 ELSE (Head(ws) % ByteBase) + WordSumLowByte(Tail(ws))
RECURSIVE WordSum(_)
WordSum(ws) == IF ws = <<>> THEN 0 ELSE Head(ws) + WordSum(Tail(ws))

\* `while (sum >> 16) sum = (sum & 0xffff) + (sum >> 16);`
ChecksumFoldOnce(s) == IF s \div Base = 0 THEN s ELSE (s % Base) + s \div Base
RECURSIVE ChecksumFold(_)
ChecksumFold(s) ==
  IF s \div Base = 0 THEN s ELSE ChecksumFold((s % Base) + s \div Base)

\* The loop reading each word through a uint8_t pointer: only its low byte.
netIPv4ChecksumLowByte(ws) == (Base - 1) - ChecksumFold(WordSumLowByte(ws))
\* The loop stopping one word short (`while (count > 2)`).
netIPv4ChecksumSkipLast(ws) ==
  (Base - 1) - ChecksumFold(WordSum(SubSeq(ws, 1, Len(ws) - 1)))
\* `return ~sum;` truncated to uint16_t: the sum is below 2^16 after folding.
netIPv4Checksum(ws) == (Base - 1) - ChecksumFold(WordSum(ws))

Init == hdr \in Headers
Next == UNCHANGED hdr
Spec == Init /\ [][Next]_hdr

-----------------------------------------------------------------------------

\* Reference: RFC 1071's one's-complement addition, one word at a time.
OnesAdd(a, b) == IF a + b >= Base THEN a + b - Base + 1 ELSE a + b
RefChecksum(ws) == (Base - 1) - FoldLeft(OnesAdd, 0, ws)

\* The header as netIPv4Send fills it: checksum field zeroed, checksum
\* computed, stored.
Filled(h) ==
  LET z == [h EXCEPT ![CSUM_WORD] = 0]
  IN  [z EXCEPT ![CSUM_WORD] = netIPv4Checksum(z)]

\* The header with byte b (0 low, 1 high) of word w replaced by v.
SetByte(h, w, b, v) ==
  LET lo == h[w] % ByteBase
      hi == h[w] \div ByteBase
  IN  [h EXCEPT ![w] = IF b = 0 THEN hi * ByteBase + v ELSE v * ByteBase + lo]

ByteOf(h, w, b) == IF b = 0 THEN h[w] % ByteBase ELSE h[w] \div ByteBase

\* The folding loop computes the one's-complement sum for every header,
\* however many carries the words produce.
ChecksumMatchesReference == netIPv4Checksum(hdr) = RefChecksum(hdr)

\* A header checksummed by netIPv4Send passes netIPv4Handle's validation
\* (the checksum over it is 0).
ChecksumValidates == netIPv4Checksum(Filled(hdr)) = 0

\* Corrupting any one byte of a checksummed header makes netIPv4Handle's
\* validation fail.
ByteCorruptionDetected ==
  \A w \in 1 .. HDR_WORDS, b \in {0, 1}, v \in 0 .. ByteBase - 1 :
    v # ByteOf(Filled(hdr), w, b) =>
      netIPv4Checksum(SetByte(Filled(hdr), w, b, v)) # 0
=============================================================================
