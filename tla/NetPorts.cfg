\* Port allocator alone: 16 ports (the code's 65536 scaled by 2^12), the
\* ephemeral range 12..15 (the code's 49152..65535: the top quarter), two
\* reseed values.  The assert at netports.c:211 halts the kernel, so a
\* behaviour that reaches it stops there.
CONSTANTS
  NETPORTS_AVAILABLE_PORTS = 16
  NETPORTS_EPH_START = 12
  EPH_SEED_RANGE = 2
SPECIFICATION Spec
INVARIANT TypeOK
PROPERTY GenIssuesNextFreeEphemeral GenAssertsOnlyWhenExhausted
CHECK_DEADLOCK FALSE
