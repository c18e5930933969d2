-------------------------- MODULE ServerLifecycle ---------------------------
(***************************************************************************)
(* start() and stop() of the handle that createAuthServer returns          *)
(* (packages/local-auth/src/server.ts:71-81, 610-651): the variables they  *)
(* share, and the HTTP servers of Node they create and close.  Each call   *)
(* is cut at its awaits, where the calls of other callers come between.    *)
(***************************************************************************)
EXTENDS Naturals, FiniteSets

CONSTANTS
    Starters, Stoppers, \* callers of start() and of stop()
    Ports,              \* ports the operating system may give
    Taken,              \* those another process holds
    Wanted,             \* the ports start() may be asked for, 0 when any will do
    Given,              \* the ports options.issuer may name, 0 when it is not set
    MaxServers          \* bound on the Node servers made

ASSUME PortAssumption ==
    /\ Ports \subseteq Nat \ {0} /\ Taken \subseteq Ports /\ Wanted \subseteq Ports \cup {0}
    /\ Given \subseteq Ports \cup {0}
    /\ MaxServers \in Nat

ASSUME CallersAssumption ==
    IsFiniteSet(Starters) /\ IsFiniteSet(Stoppers) /\ Starters \cap Stoppers = {}

Callers == Starters \cup Stoppers
Servers == 1 .. MaxServers
Null == 0                   \* no server, no keys, no port

VARIABLES
    server,         \* the variable of server.ts:73: a Node server or Null
    signingKeys,    \* the variable of server.ts:74: a key pair or Null
    boundPort,      \* the variable of server.ts:75
    issuer,         \* the variable of server.ts:76, by its port, and the one
                    \* that options.issuer gives it
    node,           \* each Node server: what it is doing, and its port
    made,           \* how many Node servers and key pairs were made
    call            \* each caller's call: where it stands, the server it
                    \* waits for, the port it asked for or was answered

vars == <<server, signingKeys, boundPort, issuer, node, made, call>>

NodeServer == [state : {"none", "new", "listening", "closing", "closed", "failed"},
               port : Ports \cup {Null}]
Call == [at : {"keys", "load", "listen", "close", "resolved", "rejected", "none"},
         of : Servers \cup {Null}, port : Ports \cup {Null}]

Idle(p) == call[p].at = "none"
Settled(p) == call[p].at \in {"none", "resolved", "rejected"}
AtRest == \A p \in Callers : Settled(p)

Goes(p, at, of, port) == call' = [call EXCEPT ![p] = [at |-> at, of |-> of, port |-> port]]
Resolves(p, port) == Goes(p, "resolved", Null, port)
Rejects(p) == Goes(p, "rejected", Null, Null)

(* Before the first start, issuer names options.issuer or else the default *)
(* port, which no server has bound; that one is written Null.              *)
Init ==
    /\ server = Null /\ signingKeys = Null /\ boundPort = Null
    /\ \E given \in Given : issuer = [given |-> given, port |-> given]
    /\ node = [s \in Servers |-> [state |-> "none", port |-> Null]]
    /\ made = [servers |-> 0, keys |-> 0]
    /\ call = [p \in Callers |-> [at |-> "none", of |-> Null, port |-> Null]]

-----------------------------------------------------------------------------
(* start()                                                                 *)

AnyKeys == TRUE                     \* mutant: a new key pair at each start
NoKeys  == signingKeys = Null

NeverRunning == FALSE               \* mutant: start() forgets its early return
Running == server # Null

StartRunning(p) ==
    /\ Idle(p)
    /\ Running
    /\ Resolves(p, boundPort)
    /\ UNCHANGED <<server, signingKeys, boundPort, issuer, node, made>>

(* await keys(): with keys at hand it resumes in a microtask, otherwise    *)
(* when the key pair is generated.                                         *)
StartKeys(p, port) ==
    /\ Idle(p)
    /\ ~Running
    /\ made.servers + Cardinality({q \in Callers : call[q].at \in {"load", "keys"}}) < MaxServers
    /\ Goes(p, IF NoKeys THEN "load" ELSE "keys", Null, port)
    /\ UNCHANGED <<server, signingKeys, boundPort, issuer, node, made>>

(* keys() rejects: the key pair of options.jwt cannot be imported, or none *)
(* can be generated.                                                       *)
KeysFail(p) ==
    /\ call[p].at = "load"
    /\ Rejects(p)
    /\ UNCHANGED <<server, signingKeys, boundPort, issuer, node, made>>

KeysLoaded(p) ==
    /\ call[p].at = "load"
    /\ made' = [made EXCEPT !.keys = made.keys + 1]
    /\ signingKeys' = made.keys + 1
    /\ Goes(p, "keys", Null, call[p].port)
    /\ UNCHANGED <<server, boundPort, issuer, node>>

CreateServer(p) ==
    /\ call[p].at = "keys"
    /\ LET s == made.servers + 1
       IN  /\ made' = [made EXCEPT !.servers = s]
           /\ server' = s
           /\ node' = [node EXCEPT ![s] = [state |-> "new", port |-> Null]]
           /\ Goes(p, "listen", s, call[p].port)
    /\ UNCHANGED <<signingKeys, boundPort, issuer>>

InUse == Taken \cup {node[s].port : s \in {t \in Servers : node[t].state = "listening"}}

AddressFamily(s, wanted) == 4       \* mutant: the family of address(), not its port
RequestedPort(s, wanted) == wanted  \* mutant: the port asked for
BoundPort(s, wanted) == IF node'[s].state = "listening" THEN node'[s].port ELSE wanted

Announced(bound) == IF issuer.given = Null THEN bound ELSE issuer.given

(* After the await, start() reads the shared variable server, not the      *)
(* server it created: address() of Null throws, address() of one that does *)
(* not listen is null and the port asked for stands in.                    *)
Listening(p, port) ==
    /\ call[p].at = "listen"
    /\ port \notin InUse /\ call[p].port \in {0, port}
    /\ node' = [node EXCEPT ![call[p].of] = [state |-> "listening", port |-> port]]
    /\ IF server = Null
       THEN Rejects(p) /\ UNCHANGED <<boundPort, issuer>>
       ELSE /\ boundPort' = BoundPort(server, call[p].port)
            /\ issuer' = [issuer EXCEPT !.port = Announced(BoundPort(server, call[p].port))]
            /\ Resolves(p, BoundPort(server, call[p].port))
    /\ UNCHANGED <<server, signingKeys, made>>

(* Mutant: nobody listens to the error event.                              *)
ListenFailsUnheard(p) ==
    /\ call[p].at = "listen"
    /\ IF call[p].port = 0 THEN Ports \subseteq InUse ELSE call[p].port \in InUse
    /\ node' = [node EXCEPT ![call[p].of].state = "failed"]
    /\ UNCHANGED <<server, signingKeys, boundPort, issuer, made, call>>

(* The error event rejects the call; server keeps the server that failed.  *)
ListenFails(p) ==
    /\ call[p].at = "listen"
    /\ IF call[p].port = 0 THEN Ports \subseteq InUse ELSE call[p].port \in InUse
    /\ node' = [node EXCEPT ![call[p].of].state = "failed"]
    /\ Rejects(p)
    /\ UNCHANGED <<server, signingKeys, boundPort, issuer, made>>

-----------------------------------------------------------------------------
(* stop()                                                                  *)

StopNothing(p) ==
    /\ Idle(p)
    /\ server = Null
    /\ Resolves(p, Null)
    /\ UNCHANGED <<server, signingKeys, boundPort, issuer, node, made>>

(* close() accepts no more connections at once and calls back when those   *)
(* that are open have ended.                                               *)
StopCloses(p) ==
    /\ Idle(p)
    /\ server # Null /\ node[server].state = "listening"
    /\ node' = [node EXCEPT ![server].state = "closing"]
    /\ Goes(p, "close", server, Null)
    /\ UNCHANGED <<server, signingKeys, boundPort, issuer, made>>

(* close() of a server that does not listen calls back with an error.      *)
StopRejected(p) ==
    /\ Idle(p)
    /\ server # Null /\ node[server].state # "listening"
    /\ Rejects(p)
    /\ UNCHANGED <<server, signingKeys, boundPort, issuer, node, made>>

KeepServer == UNCHANGED server      \* mutant: the variable is not reset
ClearServer == server' = Null

StopDone(p) ==
    /\ call[p].at = "close"
    /\ node' = [node EXCEPT ![call[p].of].state = "closed"]
    /\ ClearServer
    /\ Resolves(p, Null)
    /\ UNCHANGED <<signingKeys, boundPort, issuer, made>>

-----------------------------------------------------------------------------
(* The caller's await returns; it may call again.                          *)
Return(p) ==
    /\ call[p].at \in {"resolved", "rejected"}
    /\ call' = [call EXCEPT ![p] = [at |-> "none", of |-> Null, port |-> Null]]
    /\ UNCHANGED <<server, signingKeys, boundPort, issuer, node, made>>

Pending(p) ==
    \/ KeysLoaded(p)
    \/ KeysFail(p)
    \/ CreateServer(p)
    \/ \E port \in Ports : Listening(p, port)
    \/ ListenFails(p)
    \/ StopDone(p)

Next ==
    \/ \E p \in Starters : StartRunning(p) \/ \E port \in Wanted : StartKeys(p, port)
    \/ \E p \in Stoppers : StopNothing(p) \/ StopCloses(p) \/ StopRejected(p)
    \/ \E p \in Callers : Pending(p) \/ Return(p)

(* What a call awaits happens: a key pair is generated, listen succeeds or *)
(* fails, and a closed server's connections end (Node closes idle ones,    *)
(* and every handler answers).                                             *)
Fairness == \A p \in Callers : WF_vars(Pending(p))

Spec == Init /\ [][Next]_vars /\ Fairness

-----------------------------------------------------------------------------
(* Properties.                                                             *)

(* The variables hold what server.ts:73-76 declares.                       *)
TypeOK ==
    /\ server \in Servers \cup {Null}
    /\ signingKeys \in 0 .. MaxServers
    /\ boundPort \in Ports \cup {Null}
    /\ issuer \in [given : Ports \cup {Null}, port : Ports \cup {Null}]
    /\ node \in [Servers -> NodeServer]
    /\ made \in [servers : 0 .. MaxServers, keys : 0 .. MaxServers]
    /\ call \in [Callers -> Call]

isListening == server # Null
Accepting == {s \in Servers : node[s].state = "listening"}

(* Once every call has settled, isListening() tells whether a server       *)
(* accepts connections (types.ts:60, "Whether the server is currently      *)
(* listening").                                                            *)
ListeningIsTold == AtRest => (isListening <=> Accepting # {})

(* That is so unless the listen of that very server failed: what stop()    *)
(* closed is never told to be listening, nor what start() bound forgotten  *)
(* (server.ts:618, 640, 649).                                              *)
ListeningUnlessFailed ==
    AtRest => /\ isListening => Accepting # {} \/ node[server].state = "failed"
              /\ Accepting # {} => isListening

(* No Node server accepts connections that stop() could not close, so one  *)
(* at most does (server.ts:616, 638).                                      *)
NoOrphanListener == Accepting \subseteq {server}

(* At rest, the server that accepts connections does so on the port that   *)
(* start() has answered; issuer, which tokens name, says that port too     *)
(* unless options.issuer fixed it, and then it says what was given         *)
(* (server.ts:625-631).                                                    *)
AnnouncedPortIsBound ==
    AtRest => \A s \in Accepting :
        /\ issuer.port = IF issuer.given = Null THEN node[s].port ELSE issuer.given
        /\ boundPort = node[s].port
        /\ \A p \in Starters : call[p].at = "resolved" => call[p].port = node[s].port

(* The signing keys survive stop() and start(): tokens signed before are   *)
(* still verified after (server.ts:79).                                    *)
KeysAreKept == [][signingKeys # Null => signingKeys' = signingKeys]_vars

(* Every call of start() and stop() settles.                               *)
CallsSettle == \A p \in Callers : ~Settled(p) ~> Settled(p)

(* start() resolves with the port of a server that listens then            *)
(* (types.ts:50, "Starts listening. Resolves with the bound port.").       *)
StartedMeansListening ==
    [][\A p \in Starters :
          (call'[p] # call[p] /\ call'[p].at = "resolved")
          => \E s \in Servers : node'[s] = [state |-> "listening", port |-> call'[p].port]]_vars
=============================================================================
