SPECIFICATION LiveSpec
CONSTANTS
  Ports = {1, 2}
  MaxUID = 2
  Nothing = Nothing
  Nobody = Nobody
  Stranger = Stranger
  Unset = Unset
  UserServices <- SomeServices
INVARIANTS
  ServiceInv
  RestMeansServed
PROPERTIES
  StrangersServiceKept
  EventuallyServed
  DeletionCompletes
  ImplementsRemoteCall
