\* Two requests at a time, two chats, two cameras.
SPECIFICATION Spec
CONSTANTS
  Worker = {w1, w2}
  Chat = {c1, c2}
  Camera = {gate, pool}
INVARIANTS
  TypeOK
  FileThereForAll
  FilesRemoved
PROPERTIES
  DeliverySpec
  RequestsEnd
