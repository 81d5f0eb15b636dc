\* Progress of netIPv4Send on a link where every IP has one owner: two
\* tasks, one on-link and one routed destination, a link that loses and
\* duplicates frames but delivers a frame sent again and again.
CONSTANTS
  Tasks = {t1, t2}
  None = None
  Dests <- MCDests
  LocalIp <- MCLocalIp
  SubnetMask <- MCSubnetMask
  ServerIp <- MCServerIp
  m1 = m1
  m2 = m2
  MACs = {m1, m2}
  Answers <- MCAnswersUnique
SPECIFICATION FairSpec
PROPERTY SendCompletes
