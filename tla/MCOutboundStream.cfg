\* Three packets of any size on one connection, cut anywhere by the kernel.
SPECIFICATION Spec
CONSTANTS
  Width = 4
  MaxPackets = 3
  Texts <- MCTexts
INVARIANTS
  TypeOK
  PacketsSurvive
PROPERTIES
  SentIsReceived
\* All packets sent and received: nothing is left to do.
CHECK_DEADLOCK FALSE
