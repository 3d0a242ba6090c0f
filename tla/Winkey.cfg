SPECIFICATION Spec
CONSTANTS
  HostBytes <- MCHostBytes
  Memories <- MCMemories
  Unkeyable <- MCUnkeyable
  LocalSpeeds = {25}
  Capacity = 2
 
PROPERTIES ImplementsSendQueue GapFollowsHistory
