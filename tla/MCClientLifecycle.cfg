SPECIFICATION FairSpec
INVARIANTS RunningHasTable RemoteIsFresh SparesTheLiving ServicesHaveDevice
PROPERTIES StopTakesEffect 
