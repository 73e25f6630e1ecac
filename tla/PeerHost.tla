------------------------------ MODULE PeerHost ------------------------------
(***************************************************************************)
(* Connections between the peers of a game (network/peer): every host      *)
(* listens, dials the players it knows and accepts their connections.  Two *)
(* hosts may dial each other at the same time; the connection dialled by   *)
(* the lower PlayerID then replaces the other one.                         *)
(*                                                                         *)
(* A host's mutex pmut is taken by Dial or Accept for the connection it    *)
(* sets up and given back by a handler of RunStart, in the goroutine that  *)
(* serves that connection.  Dial releases it while it waits for an answer. *)
(*                                                                         *)
(* Registering a player again makes a new Player: Dial may hold an older   *)
(* one.  A connection has two ends, <<c, h>>; an end goes through Dial or  *)
(* Accept, serve and disconnectPlayer.                                     *)
(***************************************************************************)
EXTENDS Naturals, FiniteSets

CONSTANTS
  Hosts,     \* PlayerIDs of the hosts
  Conns,     \* connections that may be dialled: [from, to]
  Nil,
  MaxGen     \* bound on the times a player is registered

VARIABLES
  peer,       \* Host.peers: which Player is registered, 0 for none
  gen,        \* how many Players have been made
  conn,       \* W3GSConn.conn of every Player
  peerset,    \* Host.peerset
  pmut,       \* Host.pmut: the connection it is held for
  listening,  \* the hosts with an open listener
  backlog,    \* connections waiting for AcceptTCP
  at,         \* where each end is
  obj,        \* the Player each end uses
  closed,     \* the ends that have been closed
  answered,   \* the connections whose PeerConnect has been answered
  faulty      \* whether connections may fail and answers come too late

(* A host dials every other one at most once.                              *)
ASSUME PeerAssumption ==
  /\ Hosts \subseteq Nat /\ MaxGen \in Nat \ {0} /\ Nil \notin Conns
  /\ Conns \subseteq [from : Hosts, to : Hosts] /\ \A c \in Conns : c.from # c.to

hostVars == <<peer, gen, conn, peerset, listening, faulty>>
vars == <<hostVars, pmut, backlog, at, obj, closed, answered>>

Pairs == {e \in Hosts \X Hosts : e[1] # e[2]}
Ends == {<<c, c.from>> : c \in Conns} \cup {<<c, c.to>> : c \in Conns}
Gens == 1..MaxGen

(* The other host of an end, and its own host.                             *)
Own(e) == e[2]
Other(e) == IF e[1].from = e[2] THEN e[1].to ELSE e[1].from
Pair(e) == <<Own(e), Other(e)>>
Dead(c) == \E e \in closed : e[1] = c

(* Every host listens and has not registered the others yet.               *)
Init ==
  /\ peer = [q \in Pairs |-> 0] /\ gen = [q \in Pairs |-> 0]
  /\ conn = [q \in Pairs |-> [g \in Gens |-> Nil]]
  /\ peerset = [h \in Hosts |-> {}]
  /\ pmut = [h \in Hosts |-> Nil]
  /\ listening = Hosts /\ backlog = {}
  /\ at = [e \in Ends |-> "none"] /\ obj = [e \in Ends |-> 0]
  /\ closed = {} /\ answered = {} /\ faulty \in BOOLEAN

Goto(e, l) == at' = [at EXCEPT ![e] = l]
pmutFree(h) == pmut[h] = Nil
-----------------------------------------------------------------------------
Register(q) ==
  /\ pmutFree(q[1]) /\ peer[q] = 0 /\ gen[q] < MaxGen
  /\ gen' = [gen EXCEPT ![q] = @ + 1]
  /\ peer' = [peer EXCEPT ![q] = gen[q] + 1]
  /\ UNCHANGED <<conn, peerset, listening, faulty, pmut, backlog, at, obj, closed, answered>>

(* The ends a Close of the registered players of a host closes.            *)
Current(Q) == {<<conn[q][peer[q]], q[1]>> :
                 q \in {r \in Q : peer[r] # 0 /\ conn[r][peer[r]] # Nil}}

Deregister(q) ==
  /\ pmutFree(q[1]) /\ peer[q] # 0
  /\ closed' = closed \cup Current({q})
  /\ peer' = [peer EXCEPT ![q] = 0]
  /\ UNCHANGED <<gen, conn, peerset, listening, faulty, pmut, backlog, at, obj, answered>>

(* Close closes the listener and then, under pmut, all the players.        *)
CloseListener(h) ==
  /\ h \in listening
  /\ listening' = listening \ {h}
  /\ closed' = closed \cup {<<c, h>> : c \in {d \in backlog : d.to = h}}
  /\ backlog' = {c \in backlog : c.to # h}
  /\ UNCHANGED <<peer, gen, conn, peerset, faulty, pmut, at, obj, answered>>

ClosePeers(h) ==
  LET Q == {q \in Pairs : q[1] = h} IN
  /\ h \notin listening /\ pmutFree(h)
  /\ closed' = closed \cup Current(Q)
  /\ peer' = [q \in Pairs |-> IF q \in Q THEN 0 ELSE peer[q]]
  /\ UNCHANGED <<gen, conn, peerset, listening, faulty, pmut, backlog, at, obj, answered>>
-----------------------------------------------------------------------------
(* Dial connects, sends PeerConnect and releases pmut.                     *)
Dial(c) ==
  LET e == <<c, c.from>> IN
  /\ at[e] = "none" /\ pmutFree(c.from)
  /\ peer[Pair(e)] # 0 /\ conn[Pair(e)][peer[Pair(e)]] = Nil
  /\ c.to \in listening
  /\ backlog' = backlog \cup {c}
  /\ obj' = [obj EXCEPT ![e] = peer[Pair(e)]]
  /\ Goto(e, "wait")
  /\ UNCHANGED <<hostVars, pmut, closed, answered>>

(* It returns ErrAlreadyConnected, or cannot connect.  (With an unknown     *)
(* player nothing happens.)                                                *)
DialRefused(c) ==
  LET e == <<c, c.from>> IN
  /\ at[e] = "none" /\ pmutFree(c.from)
  /\ peer[Pair(e)] # 0
  /\ conn[Pair(e)][peer[Pair(e)]] # Nil \/ c.to \notin listening
  /\ Goto(e, "done")
  /\ UNCHANGED <<hostVars, pmut, backlog, obj, closed, answered>>

Accepting(h) == \E c \in Conns : c.to = h /\ at[<<c, h>>] \in {"wait", "lock", "set", "start"}

(* acceptAndServe takes one connection after the other.                    *)
AcceptTCP(c) ==
  /\ c \in backlog /\ ~ Accepting(c.to)
  /\ backlog' = backlog \ {c}
  /\ Goto(<<c, c.to>>, "wait")
  /\ UNCHANGED <<hostVars, pmut, obj, closed, answered>>

(* connectPlayer: the PeerConnect of the other end has come in.            *)
connectPlayer(e) ==
  /\ at[e] = "wait"
  /\ Own(e) = e[1].from => e[1] \in answered
  /\ Goto(e, "lock")
  /\ UNCHANGED <<hostVars, pmut, backlog, obj, closed, answered>>

(* An end gives up and closes the connection.                              *)
Fail(e) ==
  /\ closed' = closed \cup {e}
  /\ Goto(e, "done")

(* connectPlayer fails if the other end has closed, or after 10 seconds.   *)
connectFails(e) ==
  /\ at[e] = "wait"
  /\ Dead(e[1]) \/ faulty
  /\ Fail(e)
  /\ UNCHANGED <<hostVars, pmut, backlog, obj, answered>>

(* Mutant: Dial compares the PlayerIDs as Accept does.                     *)
Refuse_Alike(e, g) == conn[Pair(e)][g] # Nil /\ Other(e) > Own(e)

(* Accept keeps the old connection if the other host has the higher        *)
(* PlayerID, Dial if it has the lower one.                                 *)
Refuse(e, g) ==
  /\ conn[Pair(e)][g] # Nil
  /\ IF Own(e) = e[1].to THEN Other(e) > Own(e) ELSE Other(e) <= Own(e)

(* Mutant: SetConn does not close the old connection.                      *)
Proceed_NoClose(e, g) ==
  /\ pmut' = [pmut EXCEPT ![Own(e)] = e[1]]
  /\ obj' = [obj EXCEPT ![e] = g]
  /\ Goto(e, "set")
  /\ UNCHANGED closed

(* The lock is taken and SetConn closes the old connection.  It waits for  *)
(* the Run that uses it.                                                   *)
Proceed(e, g) ==
  /\ pmut' = [pmut EXCEPT ![Own(e)] = e[1]]
  /\ closed' = closed \cup ({<<conn[Pair(e)][g], Own(e)>>} \cap Ends)
  /\ obj' = [obj EXCEPT ![e] = g]
  /\ Goto(e, "set")

(* Accept looks the player up under pmut and answers.                      *)
Accept(e) ==
  LET g == peer[Pair(e)] IN
  /\ at[e] = "lock" /\ Own(e) = e[1].to /\ pmutFree(Own(e))
  /\ IF g = 0 \/ (g # 0 /\ Refuse(e, g))
     THEN Fail(e) /\ UNCHANGED <<pmut, obj, answered>>
     ELSE \/ Proceed(e, g) /\ answered' = answered \cup {e[1]}
          \/ Dead(e[1]) /\ Fail(e) /\ UNCHANGED <<pmut, obj, answered>>
  /\ UNCHANGED <<hostVars, backlog>>

(* Dial goes on with the player it looked up before it waited.             *)
DialAnswered(e) ==
  LET g == obj[e] IN
  /\ at[e] = "lock" /\ Own(e) = e[1].from /\ pmutFree(Own(e))
  /\ IF Refuse(e, g) THEN Fail(e) /\ UNCHANGED <<pmut, obj>> ELSE Proceed(e, g)
  /\ UNCHANGED <<hostVars, backlog, answered>>

(* The ends of a Player that its Run uses.                                 *)
Running(q, g) == {e \in Ends : Pair(e) = q /\ obj[e] = g /\ at[e] \in {"start", "run"}}

SetConn(e) ==
  /\ at[e] = "set" /\ Running(Pair(e), obj[e]) = {}
  /\ conn' = [conn EXCEPT ![Pair(e)][obj[e]] = e[1]]
  /\ Goto(e, "start")
  /\ UNCHANGED <<peer, gen, peerset, listening, faulty, pmut, backlog, obj, closed, answered>>

(* Run fires RunStart, whose handler gives pmut back.                      *)
RunStart(e) ==
  /\ at[e] = "start"
  /\ peerset' = [peerset EXCEPT ![Own(e)] = @ \cup {Other(e)}]
  /\ pmut' = [pmut EXCEPT ![Own(e)] = Nil]
  /\ Goto(e, "run")
  /\ UNCHANGED <<peer, gen, conn, listening, faulty, backlog, obj, closed, answered>>

(* Run ends when the connection is closed at either end, or fails.         *)
RunStop(e) ==
  /\ at[e] = "run"
  /\ Dead(e[1]) \/ faulty
  /\ Goto(e, "ended")
  /\ UNCHANGED <<hostVars, pmut, backlog, obj, closed, answered>>

(* A connection that has been replaced meanwhile changes nothing.          *)
disconnectPlayer(e) ==
  LET dc == conn[Pair(e)][obj[e]] = e[1] IN
  /\ at[e] = "ended" /\ pmutFree(Own(e))
  /\ closed' = closed \cup {e}
  /\ conn' = [conn EXCEPT ![Pair(e)][obj[e]] = IF dc THEN Nil ELSE @]
  /\ peerset' = [peerset EXCEPT ![Own(e)] = IF dc THEN @ \ {Other(e)} ELSE @]
  /\ Goto(e, "done")
  /\ UNCHANGED <<peer, gen, listening, faulty, pmut, backlog, obj, answered>>
-----------------------------------------------------------------------------
EndStep(e) ==
  \/ connectPlayer(e) \/ Accept(e) \/ DialAnswered(e) \/ SetConn(e) \/ RunStart(e)
  \/ disconnectPlayer(e)
  \/ Dead(e[1]) /\ (connectFails(e) \/ RunStop(e))

Next ==
  \/ \E q \in Pairs : Register(q) \/ Deregister(q)
  \/ \E h \in Hosts : CloseListener(h) \/ ClosePeers(h)
  \/ \E c \in Conns : Dial(c) \/ DialRefused(c) \/ AcceptTCP(c)
  \/ \E e \in Ends : EndStep(e) \/ connectFails(e) \/ RunStop(e)

Spec == Init /\ [][Next]_vars

(* Goroutines take their steps and a closed connection is noticed.         *)
FairSpec ==
  /\ Spec
  /\ \A e \in Ends : WF_vars(EndStep(e))
  /\ \A c \in Conns : WF_vars(AcceptTCP(c))
-----------------------------------------------------------------------------
Phases == {"none", "wait", "lock", "set", "start", "run", "ended", "done"}

TypeOK ==
  /\ peer \in [Pairs -> 0..MaxGen] /\ gen \in [Pairs -> 0..MaxGen]
  /\ conn \in [Pairs -> [Gens -> Conns \cup {Nil}]]
  /\ peerset \in [Hosts -> SUBSET Hosts]
  /\ pmut \in [Hosts -> Conns \cup {Nil}]
  /\ listening \subseteq Hosts /\ backlog \subseteq Conns
  /\ at \in [Ends -> Phases] /\ obj \in [Ends -> 0..MaxGen]
  /\ closed \subseteq Ends /\ answered \subseteq Conns /\ faulty \in BOOLEAN

(* "This ensures RunStart is only called once and serve() is actually      *)
(* using conn" (host.go:180, 267): a Player has one Run at a time, and the *)
(* connection it serves is the Player's.                                   *)
OneRun ==
  \A e \in Ends : at[e] \in {"start", "run"} =>
    /\ conn[Pair(e)][obj[e]] = e[1]
    /\ Running(Pair(e), obj[e]) = {e}

(* pmut is taken by Dial or Accept and given back by the handler of        *)
(* RunStart in another goroutine: it is held exactly while a connection is *)
(* set up, for that connection.                                            *)
LockedForSetup ==
  \A e \in Ends : at[e] \in {"set", "start"} <=> pmut[Own(e)] = e[1]

(* A player in the peerset of a host is connected to it.                   *)
PeerSetConnected ==
  \A q \in Pairs : q[2] \in peerset[q[1]] => \E g \in Gens : conn[q][g] # Nil

(* "PeerSet of connected peers" (host.go:50): a registered player with a   *)
(* connection is in the peerset, once it has been set up.                  *)
ConnectedInPeerSet ==
  \A q \in Pairs : pmutFree(q[1]) /\ peer[q] # 0 =>
    (conn[q][peer[q]] # Nil => q[2] \in peerset[q[1]])

(* Nothing more happens unless a host acts or a connection fails.          *)
Quiet ==
  /\ backlog = {}
  /\ \A e \in Ends : at[e] \in {"none", "run", "done"} /\ ~ (at[e] = "run" /\ Dead(e[1]))

(* Without faults, and unless a player is deregistered or a host closed,   *)
(* hosts that have dialled each other are connected when their Dials have  *)
(* returned (host_test.go:202-212; Peer waits for pmut), in the end by the *)
(* same connection.                                                        *)
DialledAreConnected ==
  /\ ~ faulty /\ listening = Hosts /\ \A q \in Pairs : peer[q] = 1
  /\ \A c \in Conns : at[<<c, c.from>>] \in {"run", "ended", "done"}
  => \A c \in Conns : (\E d \in Conns : d.from = c.to /\ d.to = c.from) =>
       /\ pmutFree(c.from) => conn[<<c.from, c.to>>][1] # Nil
       /\ Quiet => conn[<<c.from, c.to>>][1] = conn[<<c.to, c.from>>][1]

(* A connection that is being set up never blocks a host for ever: the Run *)
(* SetConn waits for ends.                                                 *)
LockReleased == \A h \in Hosts : pmut[h] # Nil ~> pmut[h] = Nil

(* "Close closes all connections to peers" (host.go:322): a host that is   *)
(* closed is disconnected in the end.                                      *)
Closed(h) == h \notin listening /\ \A q \in Pairs : q[1] = h => peer[q] = 0

CloseDisconnects ==
  \A h \in Hosts :
    <>[]Closed(h) => <>[](\A e \in Ends : Own(e) = h => at[e] # "run")
=============================================================================
