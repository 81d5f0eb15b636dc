\* Safety of the resolver on a link where addresses and MACs are shared:
\* two tasks sending to an on-link host and an off-link address, lossy
\* and duplicating link.  Tasks send for ever, so there is no deadlock.
CONSTANTS
  Tasks = {t1, t2}
  None = None
  Dests <- MCDests
  LocalIp <- MCLocalIp
  SubnetMask <- MCSubnetMask
  ServerIp <- MCServerIp
  m1 = m1
  m2 = m2
  MACs = {m1, m2}
  Answers <- MCAnswersShared
SPECIFICATION Spec
INVARIANT TypeOK TableInjective
