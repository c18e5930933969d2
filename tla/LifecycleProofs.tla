--------------------------- MODULE LifecycleProofs ---------------------------
(***************************************************************************)
(* Theorems about ServerLifecycle, for any number of callers, ports and    *)
(* servers.                                                                *)
(***************************************************************************)
EXTENDS ServerLifecycle, FiniteSetTheorems, TLAPS

(* The calls that are bound to make a server.                              *)
Loading == {q \in Callers : call[q].at \in {"load", "keys"}}

AtLoad == {q \in Callers : call[q].at = "load"}

Issuer == [given : Ports \cup {Null}, port : Ports \cup {Null}]

(* Every call that passed the guard of StartKeys has its server to make    *)
(* within the bound, and no more key pairs are made than such calls.       *)
WithinBound ==
    /\ made.servers + Cardinality(Loading) <= MaxServers
    /\ made.keys + Cardinality(AtLoad) <= made.servers + Cardinality(Loading)

LEMMA CallersFinite ==
    ASSUME NEW S \in SUBSET Callers
    PROVE  IsFiniteSet(S) /\ Cardinality(S) \in Nat
<1>1. IsFiniteSet(Callers)
  BY CallersAssumption, FS_Union DEF Callers
<1> QED  BY <1>1, FS_Subset, FS_CardinalityType

(* What a caller that enters or leaves a set does to its size.             *)
LEMMA Enters ==
    ASSUME NEW S \in SUBSET Callers, NEW p \in Callers, p \notin S
    PROVE  Cardinality(S \cup {p}) = Cardinality(S) + 1
  BY CallersFinite, FS_AddElement

LEMMA Leaves ==
    ASSUME NEW S \in SUBSET Callers, NEW p \in S
    PROVE  Cardinality(S \ {p}) = Cardinality(S) - 1
  BY CallersFinite, FS_RemoveElement

LEMMA GoesTo ==
    ASSUME TypeOK, NEW p \in Callers, NEW at, NEW of, NEW port, Goes(p, at, of, port)
    PROVE  /\ call'[p].at = at /\ call'[p].of = of /\ call'[p].port = port
           /\ \A q \in Callers \ {p} : call'[q] = call[q]
  BY DEF TypeOK, Goes

LEMMA GoesType ==
    ASSUME TypeOK, NEW p \in Callers,
           NEW at \in {"keys", "load", "listen", "close", "resolved", "rejected", "none"},
           NEW of \in Servers \cup {Null}, NEW port \in Ports \cup {Null},
           Goes(p, at, of, port)
    PROVE  call' \in [Callers -> Call]
  BY DEF TypeOK, Goes, Call

(* A step of p that is not one of the three below moves nobody in or out   *)
(* of the calls that are counted.                                          *)
LEMMA SameCount ==
    ASSUME TypeOK, WithinBound, NEW p \in Callers, NEW at, NEW of, NEW port,
           Goes(p, at, of, port), call[p].at \notin {"load", "keys"},
           at \notin {"load", "keys"}, UNCHANGED made
    PROVE  WithinBound'
<1>1. /\ call'[p].at = at
      /\ \A q \in Callers \ {p} : call'[q] = call[q]
  BY GoesTo
<1>2. Loading' = Loading
  BY <1>1 DEF Loading
<1>3. AtLoad' = AtLoad
  BY <1>1 DEF AtLoad
<1> QED  BY <1>2, <1>3 DEF WithinBound

LEMMA CountTypes ==
    /\ Loading \in SUBSET Callers /\ AtLoad \in SUBSET Callers
    /\ Cardinality(Loading) \in Nat /\ Cardinality(AtLoad) \in Nat
  BY CallersFinite DEF Loading, AtLoad

LEMMA MadeTypes ==
    ASSUME TypeOK
    PROVE  /\ made.servers \in Nat /\ made.servers <= MaxServers
           /\ made.keys \in Nat /\ made.keys <= MaxServers
  BY PortAssumption DEF TypeOK

LEMMA StartKeysCounts ==
    ASSUME TypeOK, WithinBound, NEW p \in Starters, NEW port \in Wanted, StartKeys(p, port)
    PROVE  TypeOK' /\ WithinBound'
<1> DEFINE at == IF NoKeys THEN "load" ELSE "keys"
<1>1. p \in Callers /\ port \in Ports \cup {Null}
  BY PortAssumption DEF Callers, Null
<1>2. /\ call[p].at = "none"
      /\ made.servers + Cardinality(Loading) < MaxServers
      /\ Goes(p, at, Null, port)
      /\ UNCHANGED <<server, signingKeys, boundPort, issuer, node, made>>
  BY DEF StartKeys, Idle, Loading
<1>3. at \in {"load", "keys"}
  OBVIOUS
<1>4. call'[p].at = at /\ \A q \in Callers \ {p} : call'[q] = call[q]
  BY <1>1, <1>2, GoesTo
<1>5. call' \in [Callers -> Call]
  BY <1>1, <1>2, <1>3, GoesType
<1>6. TypeOK'
  BY <1>2, <1>5 DEF TypeOK
<1>7. p \notin Loading /\ p \notin AtLoad
  BY <1>2 DEF Loading, AtLoad
<1>8. Loading' = Loading \cup {p}
  BY <1>1, <1>3, <1>4 DEF Loading
<1>9. Cardinality(Loading') = Cardinality(Loading) + 1
  BY <1>1, <1>7, <1>8, Enters, CountTypes
<1>10. AtLoad' = AtLoad \cup {p} \/ AtLoad' = AtLoad
  BY <1>1, <1>3, <1>4, <1>7 DEF AtLoad
<1>11. \/ Cardinality(AtLoad') = Cardinality(AtLoad) + 1
       \/ Cardinality(AtLoad') = Cardinality(AtLoad)
  BY <1>1, <1>7, <1>10, Enters, CountTypes
<1>12. made' = made
  BY <1>2
<1>13. WithinBound'
  BY <1>2, <1>9, <1>11, <1>12, CountTypes, MadeTypes, PortAssumption DEF WithinBound
<1> QED  BY <1>6, <1>13

LEMMA KeysLoadedCounts ==
    ASSUME TypeOK, WithinBound, NEW p \in Callers, KeysLoaded(p)
    PROVE  TypeOK' /\ WithinBound'
<1>1. /\ call[p].at = "load"
      /\ made'.servers = made.servers /\ made'.keys = made.keys + 1
      /\ signingKeys' = made.keys + 1
      /\ Goes(p, "keys", Null, call[p].port)
      /\ UNCHANGED <<server, boundPort, issuer, node>>
  BY DEF KeysLoaded, TypeOK
<1>2. call'[p].at = "keys" /\ \A q \in Callers \ {p} : call'[q] = call[q]
  BY <1>1, GoesTo
<1>3. call[p].port \in Ports \cup {Null}
  BY DEF TypeOK, Call
<1>4. call' \in [Callers -> Call]
  BY <1>1, <1>3, GoesType
<1>5. Loading' = Loading
  BY <1>1, <1>2 DEF Loading
<1>6. p \in AtLoad /\ AtLoad' = AtLoad \ {p}
  BY <1>1, <1>2 DEF AtLoad
<1>7. Cardinality(AtLoad') = Cardinality(AtLoad) - 1 /\ Cardinality(AtLoad') \in Nat
  <2>1. AtLoad \ {p} \in SUBSET Callers
    BY CountTypes
  <2> QED  BY <1>6, <2>1, Leaves, CountTypes, CallersFinite
<1>8. WithinBound'
  BY <1>1, <1>5, <1>7, CountTypes, MadeTypes DEF WithinBound
<1>9. made.keys + 1 <= MaxServers
  BY <1>7, CountTypes, MadeTypes, PortAssumption DEF WithinBound
<1>10. made' \in [servers : 0 .. MaxServers, keys : 0 .. MaxServers]
  <2>1. made' = [made EXCEPT !.keys = made.keys + 1]
    BY DEF KeysLoaded
  <2>2. made.keys + 1 \in 0 .. MaxServers
    BY <1>9, MadeTypes, PortAssumption
  <2> QED  BY <2>1, <2>2 DEF TypeOK
<1>11. signingKeys' \in 0 .. MaxServers
  BY <1>1, <1>9, MadeTypes, PortAssumption
<1>12. TypeOK'
  BY <1>1, <1>4, <1>10, <1>11 DEF TypeOK
<1> QED  BY <1>8, <1>12

LEMMA KeysFailCounts ==
    ASSUME TypeOK, WithinBound, NEW p \in Callers, KeysFail(p)
    PROVE  TypeOK' /\ WithinBound'
<1>1. /\ call[p].at = "load"
      /\ Goes(p, "rejected", Null, Null)
      /\ UNCHANGED <<server, signingKeys, boundPort, issuer, node, made>>
  BY DEF KeysFail, Rejects
<1>2. call'[p].at = "rejected" /\ \A q \in Callers \ {p} : call'[q] = call[q]
  BY <1>1, GoesTo
<1>3. call' \in [Callers -> Call]
  BY <1>1, GoesType
<1>4. p \in Loading /\ Loading' = Loading \ {p}
  BY <1>1, <1>2 DEF Loading
<1>5. p \in AtLoad /\ AtLoad' = AtLoad \ {p}
  BY <1>1, <1>2 DEF AtLoad
<1>6. /\ Cardinality(Loading') = Cardinality(Loading) - 1
      /\ Cardinality(AtLoad') = Cardinality(AtLoad) - 1
  BY <1>4, <1>5, Leaves, CountTypes
<1>7. made' = made
  BY <1>1
<1>8. WithinBound'
  BY <1>6, <1>7, CountTypes, MadeTypes, PortAssumption DEF WithinBound
<1>9. TypeOK'
  BY <1>1, <1>3 DEF TypeOK
<1> QED  BY <1>8, <1>9

(* The server that CreateServer makes is within the bound, and new.        *)
LEMMA RoomForOne ==
    ASSUME TypeOK, WithinBound, NEW p \in Callers, call[p].at = "keys"
    PROVE  /\ made.servers + 1 \in Servers
           /\ Cardinality(Loading \ {p}) = Cardinality(Loading) - 1
           /\ Cardinality(Loading \ {p}) \in Nat
<1>1. p \in Loading
  BY DEF Loading
<1>2. Loading \ {p} \in SUBSET Callers
  BY CountTypes
<1>3. Cardinality(Loading \ {p}) = Cardinality(Loading) - 1 /\ Cardinality(Loading \ {p}) \in Nat
  BY <1>1, <1>2, Leaves, CountTypes, CallersFinite
<1>4. made.servers + 1 <= MaxServers
  BY <1>3, CountTypes, MadeTypes, PortAssumption DEF WithinBound
<1> QED  BY <1>3, <1>4, MadeTypes, PortAssumption DEF Servers

LEMMA CreateServerCounts ==
    ASSUME TypeOK, WithinBound, NEW p \in Callers, CreateServer(p)
    PROVE  TypeOK' /\ WithinBound'
<1> DEFINE s == made.servers + 1
<1>1. /\ call[p].at = "keys"
      /\ made'.servers = s /\ made'.keys = made.keys
      /\ server' = s
      /\ node' = [node EXCEPT ![s] = [state |-> "new", port |-> Null]]
      /\ Goes(p, "listen", s, call[p].port)
      /\ UNCHANGED <<signingKeys, boundPort, issuer>>
  BY DEF CreateServer, TypeOK
<1>2. s \in Servers
  BY <1>1, RoomForOne
<1>3. call'[p].at = "listen" /\ \A q \in Callers \ {p} : call'[q] = call[q]
  BY <1>1, GoesTo
<1>4. call[p].port \in Ports \cup {Null}
  BY DEF TypeOK, Call
<1>5. call' \in [Callers -> Call]
  BY <1>1, <1>2, <1>4, GoesType
<1>6. Loading' = Loading \ {p} /\ AtLoad' = AtLoad
  BY <1>1, <1>3 DEF Loading, AtLoad
<1>7. WithinBound'
  BY <1>1, <1>6, RoomForOne, CountTypes, MadeTypes, PortAssumption DEF WithinBound
<1>8. node' \in [Servers -> NodeServer]
  BY <1>1, <1>2 DEF TypeOK, NodeServer
<1>9. made' \in [servers : 0 .. MaxServers, keys : 0 .. MaxServers]
  <2>1. made' = [made EXCEPT !.servers = s]
    BY DEF CreateServer
  <2>2. s \in 0 .. MaxServers
    BY <1>2, PortAssumption DEF Servers
  <2> QED  BY <2>1, <2>2 DEF TypeOK
<1>10. TypeOK'
  BY <1>1, <1>2, <1>5, <1>8, <1>9 DEF TypeOK
<1> QED  BY <1>7, <1>10

(* Every other step of a call: to at, of and port, with node as it may be. *)
LEMMA OtherCounts ==
    ASSUME TypeOK, WithinBound, NEW p \in Callers, call[p].at \notin {"load", "keys"},
           NEW at \in {"close", "resolved", "rejected", "none"},
           NEW of \in Servers \cup {Null}, NEW port \in Ports \cup {Null},
           Goes(p, at, of, port), UNCHANGED <<signingKeys, made>>,
           server' \in Servers \cup {Null}, boundPort' \in Ports \cup {Null},
           issuer' \in Issuer, node' \in [Servers -> NodeServer]
    PROVE  TypeOK' /\ WithinBound'
<1>1. call' \in [Callers -> Call]
  BY GoesType
<1>2. WithinBound'
  BY SameCount
<1> QED  BY <1>1, <1>2 DEF TypeOK, Issuer

LEMMA RecordBecomes ==
    ASSUME NEW n \in NodeServer, NEW state \in {"closing", "closed", "failed"}
    PROVE  /\ [n EXCEPT !.state = state] \in NodeServer
           /\ [n EXCEPT !.state = state].state = state
           /\ [n EXCEPT !.state = state].port = n.port
  BY DEF NodeServer

LEMMA NodeBecomes ==
    ASSUME TypeOK, NEW s \in Servers \cup {Null}, NEW state \in {"closing", "closed", "failed"},
           node' = [node EXCEPT ![s].state = state]
    PROVE  /\ node' \in [Servers -> NodeServer]
           /\ s \in Servers => node'[s].state = state
           /\ \A t \in Servers \ {s} : node'[t] = node[t]
<1>1. CASE s \in Servers
  <2>1. node[s] \in NodeServer
    BY <1>1 DEF TypeOK
  <2>2. /\ [node[s] EXCEPT !.state = state] \in NodeServer
        /\ [node[s] EXCEPT !.state = state].state = state
    BY <2>1, RecordBecomes
  <2> DEFINE n == [node[s] EXCEPT !.state = state]
  <2>3. node' = [node EXCEPT ![s] = n]
    OBVIOUS
  <2> HIDE DEF n
  <2>4. n \in NodeServer /\ n.state = state
    BY <2>2 DEF n
  <2> QED  BY <1>1, <2>3, <2>4 DEF TypeOK
<1>2. CASE s \notin Servers
  <2>1. node' = node
    BY <1>2 DEF TypeOK
  <2> QED  BY <1>2, <2>1 DEF TypeOK
<1> QED  BY <1>1, <1>2

LEMMA StarterType ==
    ASSUME TypeOK, WithinBound, NEW p \in Starters,
           StartRunning(p) \/ \E port \in Wanted : StartKeys(p, port)
    PROVE  TypeOK' /\ WithinBound'
<1>1. CASE StartRunning(p)
  <2>1. /\ p \in Callers /\ call[p].at = "none"
        /\ Goes(p, "resolved", Null, boundPort)
        /\ UNCHANGED <<server, signingKeys, boundPort, issuer, node, made>>
    BY <1>1 DEF StartRunning, Idle, Resolves, Callers
  <2>2. boundPort \in Ports \cup {Null}
    BY DEF TypeOK
  <2> QED  BY <2>1, <2>2, OtherCounts DEF TypeOK, Issuer
<1>2. CASE \E port \in Wanted : StartKeys(p, port)
  BY <1>2, StartKeysCounts
<1> QED  BY <1>1, <1>2

LEMMA StopperType ==
    ASSUME TypeOK, WithinBound, NEW p \in Stoppers,
           StopNothing(p) \/ StopCloses(p) \/ StopRejected(p)
    PROVE  TypeOK' /\ WithinBound'
<1>1. p \in Callers /\ call[p].at = "none"
  BY DEF StopNothing, StopCloses, StopRejected, Idle, Callers
<1>2. UNCHANGED <<server, signingKeys, boundPort, issuer, made>>
  BY DEF StopNothing, StopCloses, StopRejected
<1>3. node' \in [Servers -> NodeServer]
  <2>1. CASE StopCloses(p)
    <3>1. server \in Servers \cup {Null} /\ node' = [node EXCEPT ![server].state = "closing"]
      BY <2>1 DEF StopCloses, TypeOK
    <3> QED  BY <3>1, NodeBecomes
  <2>2. CASE StopNothing(p) \/ StopRejected(p)
    BY <2>2 DEF StopNothing, StopRejected, TypeOK
  <2> QED  BY <2>1, <2>2
<1>4. PICK at \in {"close", "resolved", "rejected"}, of \in Servers \cup {Null} :
         Goes(p, at, of, Null)
  BY DEF StopNothing, StopCloses, StopRejected, Resolves, Rejects, TypeOK
<1>5. /\ issuer' \in Issuer /\ UNCHANGED <<signingKeys, made>>
      /\ server' \in Servers \cup {Null} /\ boundPort' \in Ports \cup {Null}
  BY <1>2 DEF TypeOK, Issuer
<1>6. call[p].at \notin {"load", "keys"} /\ Null \in Ports \cup {Null}
  BY <1>1
<1> QED  BY <1>1, <1>3, <1>4, <1>5, <1>6, OtherCounts

LEMMA ListenType ==
    ASSUME TypeOK, WithinBound, NEW p \in Callers, NEW port \in Ports, Listening(p, port)
    PROVE  TypeOK' /\ WithinBound'
<1>1. /\ call[p].at = "listen"
      /\ UNCHANGED <<server, signingKeys, made>>
  BY DEF Listening
<1>2. node' \in [Servers -> NodeServer]
  BY DEF Listening, TypeOK, NodeServer
<1>3. BoundPort(server, call[p].port) \in Ports \cup {Null} \/ server = Null
  <2>1. CASE server # Null
    <3>1. node'[server].port \in Ports \cup {Null}
      BY <1>2, <2>1 DEF TypeOK, NodeServer
    <3>2. call[p].port \in Ports \cup {Null}
      BY DEF TypeOK, Call
    <3> QED  BY <3>1, <3>2 DEF BoundPort
  <2> QED  BY <2>1
<1>4. CASE server = Null
  <2>1. Goes(p, "rejected", Null, Null) /\ UNCHANGED <<boundPort, issuer>>
    BY <1>4 DEF Listening, Rejects
  <2> QED  BY <1>1, <1>2, <2>1, OtherCounts DEF TypeOK, Issuer
<1>5. CASE server # Null
  <2>1. PICK b : b = BoundPort(server, call[p].port)
    OBVIOUS
  <2>2. /\ Goes(p, "resolved", Null, b) /\ boundPort' = b
        /\ issuer' = [issuer EXCEPT !.port = Announced(b)]
    BY <1>5, <2>1 DEF Listening, Resolves
  <2>3. b \in Ports \cup {Null}
    BY <1>3, <1>5, <2>1
  <2>4. Announced(b) \in Ports \cup {Null} /\ issuer \in Issuer
    BY <2>3 DEF Announced, TypeOK, Issuer
  <2>5. issuer' \in Issuer
    BY <2>2, <2>4 DEF Issuer
  <2> QED  BY <1>1, <1>2, <2>2, <2>3, <2>5, OtherCounts DEF TypeOK
<1> QED  BY <1>4, <1>5

LEMMA PendingType ==
    ASSUME TypeOK, WithinBound, NEW p \in Callers, Pending(p) \/ Return(p)
    PROVE  TypeOK' /\ WithinBound'
<1>1. CASE KeysLoaded(p)  BY <1>1, KeysLoadedCounts
<1>2. CASE CreateServer(p)  BY <1>2, CreateServerCounts
<1>6. CASE KeysFail(p)  BY <1>6, KeysFailCounts
<1>3. CASE \E port \in Ports : Listening(p, port)  BY <1>3, ListenType
<1>4. CASE ListenFails(p) \/ StopDone(p)
  <2>1. call[p].at \notin {"load", "keys"} /\ call[p].of \in Servers \cup {Null}
    BY <1>4 DEF ListenFails, StopDone, TypeOK, Call
  <2>2. UNCHANGED <<signingKeys, boundPort, issuer, made>>
        /\ server' \in Servers \cup {Null}
    BY <1>4 DEF ListenFails, StopDone, ClearServer, TypeOK
  <2>3. PICK state \in {"closed", "failed"} : node' = [node EXCEPT ![call[p].of].state = state]
    BY <1>4 DEF ListenFails, StopDone
  <2>4. node' \in [Servers -> NodeServer]
    BY <2>1, <2>3, NodeBecomes
  <2>5. PICK at \in {"resolved", "rejected"} : Goes(p, at, Null, Null)
    BY <1>4 DEF ListenFails, StopDone, Resolves, Rejects
  <2>6. /\ issuer' \in Issuer /\ UNCHANGED <<signingKeys, made>>
        /\ server' \in Servers \cup {Null} /\ boundPort' \in Ports \cup {Null}
    BY <2>2 DEF TypeOK, Issuer
  <2>7. Null \in Ports \cup {Null} /\ Null \in Servers \cup {Null}
    OBVIOUS
  <2> QED  BY <2>1, <2>4, <2>5, <2>6, <2>7, OtherCounts
<1>5. CASE Return(p)
  <2>1. /\ call[p].at \notin {"load", "keys"}
        /\ Goes(p, "none", Null, Null)
        /\ UNCHANGED <<server, signingKeys, boundPort, issuer, node, made>>
    BY <1>5 DEF Return, Goes
  <2> QED  BY <2>1, OtherCounts DEF TypeOK, Issuer
<1> QED  BY <1>1, <1>2, <1>3, <1>4, <1>5, <1>6 DEF Pending

LEMMA InitType == Init => TypeOK /\ WithinBound
<1> SUFFICES ASSUME Init PROVE TypeOK /\ WithinBound
  OBVIOUS
<1>1. TypeOK
  BY PortAssumption DEF Init, TypeOK, NodeServer, Call, Null
<1>2. Loading = {} /\ AtLoad = {}
  BY DEF Init, Loading, AtLoad
<1>3. made.servers = 0 /\ made.keys = 0
  BY DEF Init
<1>4. WithinBound
  BY <1>2, <1>3, FS_EmptySet, PortAssumption DEF WithinBound
<1> QED  BY <1>1, <1>4

LEMMA NextType == TypeOK /\ WithinBound /\ [Next]_vars => (TypeOK /\ WithinBound)'
<1> SUFFICES ASSUME TypeOK, WithinBound, [Next]_vars PROVE TypeOK' /\ WithinBound'
  OBVIOUS
<1>1. CASE UNCHANGED vars
  BY <1>1 DEF vars, TypeOK, WithinBound, Loading, AtLoad
<1> QED  BY <1>1, StarterType, StopperType, PendingType DEF Next

LEMMA Bounded == Spec => [](TypeOK /\ WithinBound)
  BY InitType, NextType, PTL DEF Spec

(* Every reachable state has the declared shape, for any number of calls   *)
(* that start and stop and overlap as they may.                            *)
THEOREM TypeCorrect == Spec => []TypeOK
  BY Bounded, PTL

-----------------------------------------------------------------------------
(* One caller of start().  Two that overlap both pass the early return of  *)
(* server.ts:616 and each makes a server and perhaps keys of its own; the  *)
(* dev command starts once, and what follows is for callers of that kind,  *)
(* with any number of callers of stop().                                   *)

OneStarter == \A p, q \in Starters : p = q

(* Nothing but server is, or may come to be, a listener; and server is one *)
(* unless its listen failed.                                               *)
ServerIsTheListener ==
    /\ \A s \in Servers : node[s].state \in {"new", "listening", "closing"} => s = server
    /\ server # Null => node[server].state \in {"new", "listening", "closing", "failed"}

(* The servers that are still to be made.                                  *)
MadeInOrder == \A s \in Servers : s > made.servers => node[s].state = "none"

(* What a call that waits knows of the shared variables.                   *)
CallsInStep ==
    \A p \in Callers :
        /\ call[p].at \in {"load", "keys", "listen"} => p \in Starters
        /\ call[p].at \in {"load", "keys"} => server = Null
        /\ call[p].at = "close" => p \in Stoppers
        /\ call[p].at = "load" => signingKeys = Null
        /\ call[p].at \in {"listen", "close"} => server # Null /\ call[p].of = server
        /\ call[p].at = "listen" => node[server].state = "new"
        /\ call[p].at = "close" => node[server].state = "closing"

(* At most one call closes the server, and one waits for what server is    *)
(* about to be.                                                            *)
SomeoneWaits ==
    /\ \A p, q \in Callers : call[p].at = "close" /\ call[q].at = "close" => p = q
    /\ (server # Null /\ node[server].state = "new") =>
          \E p \in Callers : call[p].at = "listen"
    /\ (server # Null /\ node[server].state = "closing") =>
          \E p \in Callers : call[p].at = "close"

PortAnnounced ==
    \A s \in Servers : node[s].state = "listening" =>
        boundPort = node[s].port /\ issuer.port = Announced(node[s].port)

(* The answer of start() is the port that is bound.                        *)
AnswerGiven == \A p \in Starters : call[p].at = "resolved" => call[p].port = boundPort

LifecycleInvariant ==
    /\ ServerIsTheListener
    /\ MadeInOrder
    /\ CallsInStep
    /\ SomeoneWaits
    /\ PortAnnounced
    /\ AnswerGiven

LEMMA LifecycleInit == Init => LifecycleInvariant
<1> SUFFICES ASSUME Init PROVE LifecycleInvariant
  OBVIOUS
<1>1. server = Null /\ \A s \in Servers : node[s].state = "none"
  BY DEF Init
<1>2. \A p \in Callers : call[p].at = "none"
  BY DEF Init
<1> QED
  BY <1>1, <1>2
     DEF LifecycleInvariant, ServerIsTheListener, MadeInOrder, CallsInStep, SomeoneWaits,
         PortAnnounced, AnswerGiven, Callers

(* A call that waits for nothing goes on to wait for nothing: StartRunning,*)
(* StopNothing, StopRejected and Return.                                   *)
LEMMA WaitsForNothing ==
    ASSUME TypeOK, LifecycleInvariant, NEW p \in Callers, Settled(p),
           NEW at \in {"none", "resolved", "rejected"}, NEW port, Goes(p, at, Null, port),
           at = "resolved" => port = boundPort \/ p \notin Starters,
           UNCHANGED <<server, signingKeys, boundPort, issuer, node, made>>
    PROVE  LifecycleInvariant'
<1>1. /\ call[p].at \notin {"load", "keys", "listen", "close"}
      /\ call'[p].at \notin {"load", "keys", "listen", "close"}
      /\ \A q \in Callers \ {p} : call'[q] = call[q]
  BY GoesTo DEF Settled
<1>2. ServerIsTheListener' /\ MadeInOrder' /\ PortAnnounced'
  BY DEF LifecycleInvariant, ServerIsTheListener, MadeInOrder, PortAnnounced, Announced
<1>3. CallsInStep'
  <2> SUFFICES ASSUME NEW q \in Callers, q # p
               PROVE  /\ call'[q].at \in {"load", "keys", "listen"} => q \in Starters
                      /\ call'[q].at \in {"load", "keys"} => server' = Null
                      /\ call'[q].at = "close" => q \in Stoppers
                      /\ call'[q].at = "load" => signingKeys' = Null
                      /\ call'[q].at \in {"listen", "close"} =>
                            server' # Null /\ call'[q].of = server'
                      /\ call'[q].at = "listen" => node'[server'].state = "new"
                      /\ call'[q].at = "close" => node'[server'].state = "closing"
    BY <1>1 DEF CallsInStep
  <2> QED  BY <1>1 DEF LifecycleInvariant, CallsInStep
<1>4. SomeoneWaits'
  <2>1. \A q \in Callers : /\ call'[q].at = "close" <=> call[q].at = "close"
                           /\ call'[q].at = "listen" <=> call[q].at = "listen"
    BY <1>1
  <2> QED  BY <2>1 DEF LifecycleInvariant, SomeoneWaits
<1>5. AnswerGiven'
  <2> SUFFICES ASSUME NEW q \in Starters, call'[q].at = "resolved"
               PROVE  call'[q].port = boundPort
    BY DEF AnswerGiven
  <2>1. CASE q = p
    BY <2>1, GoesTo
  <2>2. CASE q # p
    BY <1>1, <2>2 DEF LifecycleInvariant, AnswerGiven, Callers
  <2> QED  BY <2>1, <2>2
<1> QED  BY <1>2, <1>3, <1>4, <1>5 DEF LifecycleInvariant

(* start() begins: it alone does, and finds no server.                     *)
LEMMA StartKeysStep ==
    ASSUME OneStarter, TypeOK, LifecycleInvariant, NEW p \in Starters, NEW port,
           StartKeys(p, port)
    PROVE  LifecycleInvariant'
<1>1. /\ p \in Callers /\ call[p].at = "none" /\ server = Null
      /\ Goes(p, IF NoKeys THEN "load" ELSE "keys", Null, port)
      /\ UNCHANGED <<server, signingKeys, boundPort, issuer, node, made>>
  BY DEF StartKeys, Idle, Running, Callers
<1>2. /\ \/ call'[p].at = "load" /\ signingKeys = Null
         \/ call'[p].at = "keys"
      /\ \A q \in Callers \ {p} : call'[q] = call[q]
  BY <1>1, GoesTo DEF NoKeys
<1>3. ServerIsTheListener' /\ MadeInOrder' /\ PortAnnounced'
  BY <1>1 DEF LifecycleInvariant, ServerIsTheListener, MadeInOrder, PortAnnounced, Announced
<1>4. CallsInStep'
  BY <1>1, <1>2 DEF LifecycleInvariant, CallsInStep
<1>5. SomeoneWaits'
  BY <1>1, <1>2 DEF LifecycleInvariant, CallsInStep, SomeoneWaits
<1>6. AnswerGiven'
  BY <1>1, <1>2 DEF LifecycleInvariant, AnswerGiven, Callers
<1> QED  BY <1>3, <1>4, <1>5, <1>6 DEF LifecycleInvariant

LEMMA KeysLoadedStep ==
    ASSUME OneStarter, TypeOK, LifecycleInvariant, NEW p \in Callers, KeysLoaded(p)
    PROVE  LifecycleInvariant'
<1>1. /\ call[p].at = "load" /\ p \in Starters /\ server = Null
      /\ Goes(p, "keys", Null, call[p].port)
      /\ made'.servers = made.servers
      /\ UNCHANGED <<server, boundPort, issuer, node>>
  BY DEF KeysLoaded, LifecycleInvariant, CallsInStep, TypeOK
<1>2. call'[p].at = "keys" /\ \A q \in Callers \ {p} : call'[q] = call[q]
  BY <1>1, GoesTo
<1>3. ServerIsTheListener' /\ MadeInOrder' /\ PortAnnounced'
  BY <1>1 DEF LifecycleInvariant, ServerIsTheListener, MadeInOrder, PortAnnounced, Announced
<1>4. \A q \in Callers \ {p} : call[q].at \notin {"load", "keys", "listen", "close"}
  BY <1>1 DEF OneStarter, LifecycleInvariant, CallsInStep
<1>5. CallsInStep'
  BY <1>1, <1>2, <1>4 DEF CallsInStep
<1>6. SomeoneWaits'
  BY <1>1, <1>2, <1>4 DEF SomeoneWaits
<1>7. AnswerGiven'
  BY <1>1, <1>2 DEF LifecycleInvariant, AnswerGiven, Callers
<1> QED  BY <1>3, <1>5, <1>6, <1>7 DEF LifecycleInvariant

(* keys() rejects: start() leaves everything as it was.                    *)
LEMMA KeysFailStep ==
    ASSUME OneStarter, TypeOK, LifecycleInvariant, NEW p \in Callers, KeysFail(p)
    PROVE  LifecycleInvariant'
<1>1. /\ call[p].at = "load"
      /\ Goes(p, "rejected", Null, Null)
      /\ UNCHANGED <<server, signingKeys, boundPort, issuer, node, made>>
  BY DEF KeysFail, Rejects
<1>2. call'[p].at = "rejected" /\ \A q \in Callers \ {p} : call'[q] = call[q]
  BY <1>1, GoesTo
<1>3. ServerIsTheListener' /\ MadeInOrder' /\ PortAnnounced'
  BY <1>1 DEF LifecycleInvariant, ServerIsTheListener, MadeInOrder, PortAnnounced, Announced
<1>4. CallsInStep'
  BY <1>1, <1>2 DEF LifecycleInvariant, CallsInStep
<1>5. SomeoneWaits'
  BY <1>1, <1>2 DEF LifecycleInvariant, SomeoneWaits
<1>6. AnswerGiven'
  BY <1>1, <1>2 DEF LifecycleInvariant, AnswerGiven, Callers
<1> QED  BY <1>3, <1>4, <1>5, <1>6 DEF LifecycleInvariant

LEMMA CreateServerStep ==
    ASSUME OneStarter, TypeOK, WithinBound, LifecycleInvariant, NEW p \in Callers,
           CreateServer(p)
    PROVE  LifecycleInvariant'
<1>1. PICK s : s = made.servers + 1
  OBVIOUS
<1>2. /\ call[p].at = "keys" /\ p \in Starters /\ server = Null
      /\ made'.servers = s /\ server' = s
      /\ node' = [node EXCEPT ![s] = [state |-> "new", port |-> Null]]
      /\ Goes(p, "listen", s, call[p].port)
      /\ UNCHANGED <<signingKeys, boundPort, issuer>>
  BY <1>1 DEF CreateServer, LifecycleInvariant, CallsInStep, TypeOK
<1>3. s \in Servers /\ s # Null
  <2>1. s \in Servers  BY <1>1, <1>2, RoomForOne
  <2>2. s \in 1 .. MaxServers  BY <2>1 DEF Servers
  <2> QED  BY <2>1, <2>2, PortAssumption DEF Null
<1>4. call'[p].at = "listen" /\ call'[p].of = s /\ \A q \in Callers \ {p} : call'[q] = call[q]
  BY <1>2, GoesTo
<1>5. node'[s].state = "new" /\ \A t \in Servers \ {s} : node'[t] = node[t]
  BY <1>2, <1>3 DEF TypeOK
<1>6. \A t \in Servers : node[t].state \notin {"new", "listening", "closing"}
  BY <1>2 DEF LifecycleInvariant, ServerIsTheListener, Servers, Null
<1>7. ServerIsTheListener' /\ PortAnnounced'
  BY <1>2, <1>5, <1>6 DEF ServerIsTheListener, PortAnnounced
<1>8. MadeInOrder'
  <2>1. \A t \in Servers : t > s => t > made.servers /\ t # s
    BY <1>1, MadeTypes DEF Servers
  <2> QED  BY <1>2, <1>5, <2>1 DEF LifecycleInvariant, MadeInOrder
<1>9. \A q \in Callers \ {p} : call[q].at \notin {"load", "keys", "listen", "close"}
  BY <1>2 DEF OneStarter, LifecycleInvariant, CallsInStep
<1>10. CallsInStep'
  BY <1>2, <1>3, <1>4, <1>5, <1>9 DEF CallsInStep
<1>11. SomeoneWaits'
  BY <1>2, <1>4, <1>5, <1>9 DEF SomeoneWaits
<1>12. AnswerGiven'
  BY <1>2, <1>4 DEF LifecycleInvariant, AnswerGiven, Callers
<1> QED  BY <1>7, <1>8, <1>10, <1>11, <1>12 DEF LifecycleInvariant

(* The listen of server ends, well or not.                                 *)
LEMMA ListenStep ==
    ASSUME OneStarter, TypeOK, LifecycleInvariant, NEW p \in Callers,
           (\E port \in Ports : Listening(p, port)) \/ ListenFails(p)
    PROVE  LifecycleInvariant'
<1>1. /\ call[p].at = "listen" /\ p \in Starters /\ server # Null /\ call[p].of = server
      /\ node[server].state = "new"
      /\ UNCHANGED <<server, signingKeys, made>>
  BY DEF Listening, ListenFails, LifecycleInvariant, CallsInStep
<1>2. server \in Servers
  BY <1>1 DEF TypeOK
<1>3. /\ node'[server].state \in {"listening", "failed"}
      /\ \A s \in Servers \ {server} : node'[s] = node[s]
      /\ node'[server].state = "listening" =>
            /\ boundPort' = node'[server].port /\ issuer'.given = issuer.given
            /\ issuer'.port = Announced(node'[server].port)
  <2>1. CASE ListenFails(p)
    <3>1. node' = [node EXCEPT ![server].state = "failed"]
      BY <1>1, <2>1 DEF ListenFails
    <3>2. node'[server].state = "failed" /\ \A s \in Servers \ {server} : node'[s] = node[s]
      BY <1>2, <3>1, NodeBecomes
    <3> QED  BY <3>2
  <2>2. CASE \E port \in Ports : Listening(p, port)
    <3>1. PICK port \in Ports : Listening(p, port)
      BY <2>2
    <3>2. node' = [node EXCEPT ![server] = [state |-> "listening", port |-> port]]
      BY <1>1, <3>1 DEF Listening
    <3>3. /\ node'[server].state = "listening" /\ node'[server].port = port
          /\ \A s \in Servers \ {server} : node'[s] = node[s]
      BY <1>2, <3>2 DEF TypeOK
    <3>4. PICK b : b = BoundPort(server, call[p].port)
      OBVIOUS
    <3>5. boundPort' = b /\ issuer' = [issuer EXCEPT !.port = Announced(b)]
      BY <1>1, <3>1, <3>4 DEF Listening
    <3>6. issuer'.port = Announced(b) /\ issuer'.given = issuer.given
      BY <3>5 DEF TypeOK
    <3> QED  BY <3>3, <3>4, <3>5, <3>6 DEF BoundPort
  <2> QED  BY <2>1, <2>2
<1>4. /\ call'[p].at \in {"resolved", "rejected"}
      /\ \A q \in Callers \ {p} : call'[q] = call[q]
  <2>1. PICK at \in {"resolved", "rejected"} : \E port : Goes(p, at, Null, port)
    BY DEF Listening, ListenFails, Resolves, Rejects
  <2> QED  BY <2>1, GoesTo
<1>5. \A s \in Servers \ {server} : node[s].state \notin {"new", "listening", "closing"}
  BY <1>1 DEF LifecycleInvariant, ServerIsTheListener
<1>6. ServerIsTheListener' /\ PortAnnounced'
  BY <1>1, <1>2, <1>3, <1>5 DEF ServerIsTheListener, PortAnnounced, Announced
<1>7. MadeInOrder'
  <2>1. \A s \in Servers : s > made.servers => s # server
    BY <1>1, <1>2 DEF LifecycleInvariant, MadeInOrder
  <2> QED  BY <1>1, <1>3, <2>1 DEF LifecycleInvariant, MadeInOrder
<1>8. \A q \in Callers \ {p} : call[q].at \notin {"load", "keys", "listen", "close"}
  BY <1>1 DEF OneStarter, LifecycleInvariant, CallsInStep
<1>9. CallsInStep'
  BY <1>4, <1>8 DEF CallsInStep
<1>10. SomeoneWaits'
  BY <1>1, <1>3, <1>4, <1>8 DEF SomeoneWaits
<1>11. call'[p].at = "resolved" => call'[p].port = boundPort'
  <2>1. CASE ListenFails(p)
    BY <2>1, GoesTo DEF ListenFails, Rejects
  <2>2. CASE \E port \in Ports : Listening(p, port)
    BY <1>1, <2>2, GoesTo DEF Listening, Resolves
  <2> QED  BY <2>1, <2>2
<1>12. AnswerGiven'
  BY <1>1, <1>11 DEF OneStarter, AnswerGiven
<1> QED  BY <1>6, <1>7, <1>9, <1>10, <1>12 DEF LifecycleInvariant

LEMMA StopClosesStep ==
    ASSUME TypeOK, LifecycleInvariant, NEW p \in Stoppers, StopCloses(p)
    PROVE  LifecycleInvariant'
<1>1. /\ p \in Callers
      /\ call[p].at = "none" /\ server # Null /\ node[server].state = "listening"
      /\ node' = [node EXCEPT ![server].state = "closing"]
      /\ Goes(p, "close", server, Null)
      /\ UNCHANGED <<server, signingKeys, boundPort, issuer, made>>
  BY DEF StopCloses, Idle, Callers
<1>2. server \in Servers
  BY <1>1 DEF TypeOK
<1>3. node'[server].state = "closing" /\ \A s \in Servers \ {server} : node'[s] = node[s]
  BY <1>1, <1>2, NodeBecomes
<1>4. call'[p].at = "close" /\ call'[p].of = server /\ \A q \in Callers \ {p} : call'[q] = call[q]
  BY <1>1, GoesTo
<1>5. \A q \in Callers \ {p} : call[q].at \notin {"load", "keys", "listen", "close"}
  BY <1>1 DEF LifecycleInvariant, CallsInStep
<1>6. ServerIsTheListener' /\ PortAnnounced'
  BY <1>1, <1>2, <1>3 DEF LifecycleInvariant, ServerIsTheListener, PortAnnounced, Announced
<1>7. MadeInOrder'
  <2>1. \A s \in Servers : s > made.servers => s # server
    BY <1>1, <1>2 DEF LifecycleInvariant, MadeInOrder
  <2> QED  BY <1>1, <1>3, <2>1 DEF LifecycleInvariant, MadeInOrder
<1>8. CallsInStep'
  BY <1>1, <1>3, <1>4, <1>5 DEF CallsInStep
<1>9. SomeoneWaits'
  BY <1>1, <1>3, <1>4, <1>5 DEF SomeoneWaits
<1>10. AnswerGiven'
  BY <1>1, <1>4 DEF LifecycleInvariant, AnswerGiven, Callers
<1> QED  BY <1>6, <1>7, <1>8, <1>9, <1>10 DEF LifecycleInvariant

(* What server names when a close ends is what was closed.                 *)
LEMMA StopDoneStep ==
    ASSUME TypeOK, LifecycleInvariant, NEW p \in Callers, StopDone(p)
    PROVE  LifecycleInvariant'
<1>1. /\ call[p].at = "close" /\ server # Null /\ call[p].of = server
      /\ node[server].state = "closing"
      /\ node' = [node EXCEPT ![server].state = "closed"]
      /\ server' = Null
      /\ Goes(p, "resolved", Null, Null)
      /\ UNCHANGED <<signingKeys, boundPort, issuer, made>>
  BY DEF StopDone, ClearServer, Resolves, LifecycleInvariant, CallsInStep
<1>2. server \in Servers
  BY <1>1 DEF TypeOK
<1>3. node'[server].state = "closed" /\ \A s \in Servers \ {server} : node'[s] = node[s]
  BY <1>1, <1>2, NodeBecomes
<1>4. call'[p].at = "resolved" /\ \A q \in Callers \ {p} : call'[q] = call[q]
  BY <1>1, GoesTo
<1>5. \A q \in Callers \ {p} : call[q].at \notin {"load", "keys", "listen", "close"}
  BY <1>1 DEF LifecycleInvariant, CallsInStep, SomeoneWaits
<1>6. \A s \in Servers \ {server} : node[s].state \notin {"new", "listening", "closing"}
  BY <1>1 DEF LifecycleInvariant, ServerIsTheListener
<1>7. ServerIsTheListener' /\ PortAnnounced'
  BY <1>1, <1>3, <1>6 DEF ServerIsTheListener, PortAnnounced
<1>8. MadeInOrder'
  <2>1. \A s \in Servers : s > made.servers => s # server
    BY <1>1, <1>2 DEF LifecycleInvariant, MadeInOrder
  <2> QED  BY <1>1, <1>3, <2>1 DEF LifecycleInvariant, MadeInOrder
<1>9. CallsInStep'
  BY <1>4, <1>5 DEF CallsInStep
<1>10. SomeoneWaits'
  BY <1>1, <1>4, <1>5 DEF SomeoneWaits
<1>11. p \notin Starters
  BY <1>1, CallersAssumption DEF LifecycleInvariant, CallsInStep
<1>12. AnswerGiven'
  BY <1>1, <1>4, <1>11 DEF LifecycleInvariant, AnswerGiven, Callers
<1> QED  BY <1>7, <1>8, <1>9, <1>10, <1>12 DEF LifecycleInvariant

LEMMA LifecycleStep ==
    ASSUME OneStarter
    PROVE  TypeOK /\ WithinBound /\ LifecycleInvariant /\ [Next]_vars => LifecycleInvariant'
<1> SUFFICES ASSUME TypeOK, WithinBound, LifecycleInvariant, [Next]_vars
             PROVE  LifecycleInvariant'
  OBVIOUS
<1>1. CASE UNCHANGED vars
  BY <1>1 DEF vars, LifecycleInvariant, ServerIsTheListener, MadeInOrder, CallsInStep,
              SomeoneWaits, PortAnnounced, Announced, AnswerGiven
<1>2. ASSUME NEW p \in Starters, StartRunning(p)
      PROVE  LifecycleInvariant'
  <2>1. p \in Callers /\ Settled(p) /\ Goes(p, "resolved", Null, boundPort)
    BY <1>2 DEF Callers, Settled, StartRunning, Idle, Resolves
  <2> QED  BY <1>2, <2>1, WaitsForNothing DEF StartRunning
<1>3. ASSUME NEW p \in Stoppers, StopNothing(p) \/ StopRejected(p)
      PROVE  LifecycleInvariant'
  <2>1. p \in Callers /\ Settled(p)
    BY <1>3 DEF Callers, Settled, StopNothing, StopRejected, Idle
  <2>2. PICK at \in {"resolved", "rejected"} : Goes(p, at, Null, Null)
    BY <1>3 DEF StopNothing, StopRejected, Resolves, Rejects
  <2>3. p \notin Starters
    BY CallersAssumption
  <2> QED  BY <1>3, <2>1, <2>2, <2>3, WaitsForNothing DEF StopNothing, StopRejected
<1>4. ASSUME NEW p \in Callers, Return(p)
      PROVE  LifecycleInvariant'
  <2>1. Settled(p) /\ Goes(p, "none", Null, Null)
    BY <1>4 DEF Settled, Return, Goes
  <2> QED  BY <1>4, <2>1, WaitsForNothing DEF Return
<1>5. ASSUME NEW p \in Stoppers, StopCloses(p)
      PROVE  LifecycleInvariant'
  BY <1>5, StopClosesStep DEF Callers
<1>6. ASSUME NEW p \in Callers, Pending(p)
      PROVE  LifecycleInvariant'
  BY <1>6, KeysLoadedStep, KeysFailStep, CreateServerStep, ListenStep, StopDoneStep DEF Pending
<1> QED  BY <1>1, <1>2, <1>3, <1>4, <1>5, <1>6, StartKeysStep DEF Next

(* With one caller of start(), every call that waits waits for the server  *)
(* that the shared variable names.                                         *)
THEOREM LifecycleInvariantHolds ==
    ASSUME OneStarter
    PROVE  Spec => []LifecycleInvariant
<1>1. TypeOK /\ WithinBound /\ LifecycleInvariant /\ [Next]_vars => LifecycleInvariant'
  BY LifecycleStep
<1> QED  BY <1>1, LifecycleInit, Bounded, PTL DEF Spec

(* With one caller of start(), no Node server is left listening that       *)
(* stop() could not close (server.ts:616, 638).                            *)
THEOREM NoListenerIsOrphaned ==
    ASSUME OneStarter
    PROVE  Spec => []NoOrphanListener
<1>1. LifecycleInvariant => NoOrphanListener
  BY DEF LifecycleInvariant, ServerIsTheListener, NoOrphanListener, Accepting
<1> QED  BY <1>1, LifecycleInvariantHolds, PTL

(* With one caller of start(), isListening() tells the truth at rest,      *)
(* unless the listen of that very server failed (server.ts:618, 640, 649). *)
THEOREM ListeningIsTrueUnlessFailed ==
    ASSUME OneStarter
    PROVE  Spec => []ListeningUnlessFailed
<1>1. LifecycleInvariant /\ TypeOK => ListeningUnlessFailed
  <2> SUFFICES ASSUME LifecycleInvariant, TypeOK, AtRest
               PROVE  /\ isListening => Accepting # {} \/ node[server].state = "failed"
                      /\ Accepting # {} => isListening
    BY DEF ListeningUnlessFailed
  <2>1. \A p \in Callers : call[p].at \notin {"listen", "close"}
    BY DEF AtRest, Settled
  <2>2. ASSUME server # Null
        PROVE  server \in Servers /\ node[server].state \in {"listening", "failed"}
    BY <2>1, <2>2 DEF LifecycleInvariant, ServerIsTheListener, SomeoneWaits, TypeOK
  <2>3. isListening => Accepting # {} \/ node[server].state = "failed"
    BY <2>2 DEF isListening, Accepting
  <2>4. ASSUME Accepting # {}
        PROVE  isListening
    <3>1. PICK s \in Servers : node[s].state = "listening"
      BY <2>4 DEF Accepting
    <3>2. s = server /\ s # Null
      BY <3>1 DEF LifecycleInvariant, ServerIsTheListener, Servers, Null
    <3> QED  BY <3>2 DEF isListening
  <2> QED  BY <2>3, <2>4
<1> QED  BY <1>1, LifecycleInvariantHolds, TypeCorrect, PTL

(* With one caller of start(), what start() answers is the port that is    *)
(* accepted on, and issuer says it too or what options.issuer gave         *)
(* (server.ts:625-631).                                                    *)
THEOREM AnnouncedPortsAreBound ==
    ASSUME OneStarter
    PROVE  Spec => []AnnouncedPortIsBound
<1>1. LifecycleInvariant => AnnouncedPortIsBound
  BY DEF LifecycleInvariant, PortAnnounced, AnswerGiven, AnnouncedPortIsBound, Accepting,
         Announced
<1> QED  BY <1>1, LifecycleInvariantHolds, PTL

(* With one caller of start(), the keys that sign tokens are made once and *)
(* outlive every stop() and start() (server.ts:79).                        *)
THEOREM KeysAreMadeOnce ==
    ASSUME OneStarter
    PROVE  Spec => KeysAreKept
<1>1. LifecycleInvariant /\ [Next]_vars => (signingKeys # Null => signingKeys' = signingKeys)
  <2> SUFFICES ASSUME LifecycleInvariant, [Next]_vars, signingKeys # Null
               PROVE  signingKeys' = signingKeys
    OBVIOUS
  <2>1. \A p \in Callers : ~KeysLoaded(p)
    BY DEF KeysLoaded, LifecycleInvariant, CallsInStep
  <2> QED
    BY <2>1 DEF Next, StartRunning, StartKeys, StopNothing, StopCloses, StopRejected, Pending,
                KeysFail, CreateServer, Listening, ListenFails, StopDone, Return, vars
<1> QED  BY <1>1, LifecycleInvariantHolds, PTL DEF Spec, KeysAreKept
=============================================================================
