\* Messages of seven types through packets of many sizes to receivers of
\* different versions.
SPECIFICATION Spec
CONSTANTS
  Base = 4
  OptionalStart = 16
  Levels = 3
  Descriptors <- NestedDescriptors
  Structures <- NestedStructures
  Messages <- UsualMessages
  NullTypes <- Usual
  Unknown <- SomeUnknown
  Rooms = {6, 7, 10, 11, 12, 13, 14, 15, 16, 17, 18, 19, 20, 21, 22, 40}
  Servers <- SomeServers
INVARIANTS TypeOK ReceivedIsSent RoomExact NullIsOptional PublishedIsSeen
