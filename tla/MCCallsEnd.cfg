CONSTANTS
  Cases = {"queue", "stores", "engine"}
  a1 = a1  a2 = a2
  o1 = o1  o2 = o2  o3 = o3  o4 = o4
  w1 = w1  w2 = w2
  NoCall = NoCall
  Op <- Ops
  Actor <- Actors
  ActorOf <- Actors4
  MaxPerActor = 2
  MaxTotal = 2
SPECIFICATION MCSpec
CHECK_DEADLOCK FALSE
INVARIANTS OneAtATime CountersExact
PROPERTIES RequestsEnd ClientCallsEnd
