--------------------------- MODULE PeerHostProofs ---------------------------
(***************************************************************************)
(* Hosts that dial each other (module PeerHost), for any number of hosts:  *)
(* a Player is served by one connection, pmut is held exactly while a      *)
(* connection is set up, and two hosts that have dialled each other are    *)
(* connected.                                                              *)
(***************************************************************************)
EXTENDS PeerHost, TLAPS

(* A step that names no prover is tried with SMT, Zenon and SMT again.     *)
USE SMTT(30), ZenonT(30), SMTT(60)

(* The dialling and the accepting end of a connection.                     *)
Dl(c) == at[<<c, c.from>>]
Ac(c) == at[<<c, c.to>>]

PeerTypes ==
  /\ peer \in [Pairs -> 0..MaxGen] /\ gen \in [Pairs -> 0..MaxGen]
  /\ conn \in [Pairs -> [Gens -> Conns \cup {Nil}]]
  /\ pmut \in [Hosts -> Conns \cup {Nil}]
  /\ at \in [Ends -> Phases] /\ obj \in [Ends -> 0..MaxGen]

(* An end that looks for its Player, or has it, knows which one it is; a   *)
(* registered Player is the last one that has been made.                   *)
KnowsPlayer ==
  /\ \A e \in Ends : at[e] \in {"set", "start", "run", "ended"} => obj[e] # 0
  /\ \A c \in Conns : Dl(c) \in {"wait", "lock"} => obj[<<c, c.from>>] # 0
  /\ \A q \in Pairs : peer[q] # 0 => peer[q] = gen[q]

RunsOwnConn ==
  \A e \in Ends : at[e] \in {"start", "run"} => conn[Pair(e)][obj[e]] = e[1]

PeerInv == PeerTypes /\ LockedForSetup /\ KnowsPlayer /\ RunsOwnConn

(* Nothing has failed, no host has been closed and no player deregistered. *)
Calm ==
  /\ ~ faulty /\ listening = Hosts
  /\ \A q \in Pairs : gen[q] <= 1 /\ peer[q] = gen[q]

Up == {"start", "run", "ended"}

(* The connection of a Player is the one of an end that has been set up.   *)
ServesConn(q) ==
  LET c == conn[q][1] IN
  c # Nil => /\ c \in Conns
             /\ \/ c.from = q[1] /\ c.to = q[2] /\ Dl(c) \in Up
                \/ c.from = q[2] /\ c.to = q[1] /\ Ac(c) \in Up

(* The connection the other way, and the one that wins.                    *)
Rev(c) == [from |-> c.to, to |-> c.from]
Strong(c) == c.from < c.to
Known(c) == gen[<<c.from, c.to>>] = 1

(* How far the two ends of a connection may be apart.                      *)
InStep(c) ==
  /\ Dl(c) # "none" => Known(c)
  /\ c \in backlog => Dl(c) # "none" /\ Ac(c) = "none"
  /\ Ac(c) # "none" => Dl(c) # "none"
  /\ c \in answered => Ac(c) \in {"set", "start", "run", "ended", "done"}
  /\ Dl(c) \in {"lock", "set", "start", "run", "ended"} => c \in answered
  /\ Ac(c) \in {"set", "start", "run", "ended"} => c \in answered
  /\ Dead(c) => Dl(c) # "none"
  /\ Ac(c) \in {"ended", "done"} \/ Dl(c) = "ended" => Dead(c)

(* A connection that the lower PlayerID has dialled is closed only when it *)
(* was not accepted, because the player was not known, and not dialled     *)
(* when there is the other one.  Then the other one stays.                 *)
Wins(c) ==
  /\ Dead(c) => Ac(c) = "done" /\ c \notin answered
  /\ Dl(c) = "done" => /\ c \notin answered
                       /\ Dead(c) \/ (Ac(c) = "none" /\ c \notin backlog)
  /\ (Dead(c) \/ Dl(c) = "done") /\ Rev(c) \in Conns =>
       ~ Dead(Rev(c)) /\ Dl(Rev(c)) \notin {"ended", "done"}

(* The other one gives way only if the first has been accepted, or fails   *)
(* before it is accepted itself.                                           *)
Yields(c) ==
  (Dead(c) \/ Dl(c) \in {"ended", "done"}) /\ Rev(c) \notin answered =>
    Dead(c) /\ c \notin answered /\ Ac(c) = "done"

Link(c) ==
  /\ InStep(c)
  /\ Strong(c) => Wins(c)
  /\ ~ Strong(c) => Yields(c)

Links ==
  /\ \A c \in Conns : Link(c)
  /\ \A q \in Pairs : ServesConn(q)
  /\ \A e \in Ends : obj[e] <= 1

-----------------------------------------------------------------------------
(* The ends of a connection and their hosts.                               *)
LEMMA EndFacts ==
  /\ \A e \in Ends :
       /\ e = <<e[1], e[2]>> /\ e[1] \in Conns /\ e[2] \in Hosts
       /\ (e = <<e[1], e[1].from>> \/ e = <<e[1], e[1].to>>)
       /\ Pair(e) \in Pairs
  /\ \A c \in Conns :
       /\ <<c, c.from>> \in Ends /\ <<c, c.to>> \in Ends
       /\ c.from # c.to /\ c.from \in Hosts /\ c.to \in Hosts
       /\ <<c.from, c.to>> \in Pairs /\ <<c.to, c.from>> \in Pairs
<1>1. \A c \in Conns : c.from # c.to /\ c.from \in Hosts /\ c.to \in Hosts
  BY PeerAssumption
<1>2. \A c \in Conns : <<c, c.from>> \in Ends /\ <<c, c.to>> \in Ends
  BY DEF Ends
<1>3. ASSUME NEW e \in Ends
      PROVE  /\ e = <<e[1], e[2]>> /\ e[1] \in Conns /\ e[2] \in Hosts
             /\ (e = <<e[1], e[1].from>> \/ e = <<e[1], e[1].to>>)
             /\ Pair(e) \in Pairs
  <2>1. PICK c \in Conns : e = <<c, c.from>> \/ e = <<c, c.to>>
    BY DEF Ends
  <2> QED BY <1>1, <2>1 DEF Pair, Own, Other, Pairs
<1> QED BY <1>1, <1>2, <1>3 DEF Pairs

(* No host has registered or dialled anyone.                               *)
LEMMA PeerInit == Init => PeerInv
<1> SUFFICES ASSUME Init PROVE PeerInv
  OBVIOUS
<1>1. PeerTypes
  BY PeerAssumption DEF Init, PeerTypes, Phases
<1>2. LockedForSetup
  BY EndFacts, PeerAssumption DEF Init, LockedForSetup, Own
<1>3. \A e \in Ends : at[e] = "none"
  BY DEF Init
<1>4. KnowsPlayer
  BY <1>3, EndFacts, ZenonT(30) DEF Init, KnowsPlayer, Dl
<1>5. RunsOwnConn
  BY <1>3 DEF RunsOwnConn
<1> QED BY <1>1, <1>2, <1>4, <1>5 DEF PeerInv

(* Registering and deregistering players.                                  *)
LEMMA RegisterKeeps ==
  ASSUME PeerInv, NEW q \in Pairs, Register(q) \/ Deregister(q)
  PROVE  PeerInv'
<1>1. /\ gen[q] \in 0..MaxGen /\ (Register(q) => gen[q] + 1 \in 0..MaxGen)
      /\ MaxGen \in Nat /\ 0 \in 0..MaxGen
  BY PeerAssumption DEF PeerInv, PeerTypes, Register
<1>2. UNCHANGED <<conn, pmut, at, obj>>
  BY DEF Register, Deregister
<1>3. PeerTypes'
  BY <1>1, <1>2, ZenonT(30) DEF PeerInv, PeerTypes, Register, Deregister
<1>4. LockedForSetup' /\ RunsOwnConn'
  BY <1>2 DEF PeerInv, LockedForSetup, RunsOwnConn
<1>5. KnowsPlayer'
  BY <1>1, <1>2, ZenonT(30) DEF PeerInv, PeerTypes, KnowsPlayer, Dl, Register, Deregister
<1> QED BY <1>3, <1>4, <1>5 DEF PeerInv

(* Closing a host.                                                         *)
LEMMA CloseKeeps ==
  ASSUME PeerInv, NEW h \in Hosts, CloseListener(h) \/ ClosePeers(h)
  PROVE  PeerInv'
<1>1. MaxGen \in Nat /\ 0 \in 0..MaxGen
  BY PeerAssumption
<1>2. UNCHANGED <<gen, conn, pmut, at, obj>>
  BY DEF CloseListener, ClosePeers
<1>3. peer' \in [Pairs -> 0..MaxGen] /\ \A q \in Pairs : peer'[q] \in {0, peer[q]}
  BY <1>1 DEF PeerInv, PeerTypes, CloseListener, ClosePeers
<1>4. PeerTypes' /\ LockedForSetup' /\ RunsOwnConn' /\ KnowsPlayer'
  BY <1>2, <1>3 DEF PeerInv, PeerTypes, LockedForSetup, RunsOwnConn, KnowsPlayer, Dl
<1> QED BY <1>4 DEF PeerInv

(* Dial takes the Player that is registered.                               *)
LEMMA DialKeeps ==
  ASSUME PeerInv, NEW c \in Conns, Dial(c) \/ DialRefused(c)
  PROVE  PeerInv'
<1> DEFINE e == <<c, c.from>>
<1>1. e \in Ends /\ Pair(e) \in Pairs
  BY EndFacts, ZenonT(30)
<1>2. UNCHANGED <<peer, gen, conn, pmut>> /\ at[e] = "none"
  BY DEF Dial, DialRefused, hostVars
<1>3. PICK p \in {"wait", "done"} : at' = [at EXCEPT ![e] = p]
  BY DEF Dial, DialRefused, Goto
<1>4. PICK g \in 0..MaxGen : obj' = [obj EXCEPT ![e] = g] /\ (at'[e] = "wait" => g # 0)
  BY <1>1, <1>3, ZenonT(30) DEF PeerInv, PeerTypes, Dial, DialRefused, Goto
<1> HIDE DEF e
<1>5. PeerTypes'
  BY <1>1, <1>2, <1>3, <1>4 DEF PeerInv, PeerTypes, Phases
<1>6. LockedForSetup'
  BY <1>1, <1>2, <1>3 DEF PeerInv, PeerTypes, LockedForSetup
<1>7. KnowsPlayer' /\ RunsOwnConn'
  BY <1>1, <1>2, <1>3, <1>4, EndFacts, ZenonT(30) DEF PeerInv, PeerTypes, KnowsPlayer, RunsOwnConn, Dl
<1> QED BY <1>5, <1>6, <1>7 DEF PeerInv

(* An end that goes on, or gives up, without the lock.                     *)
LEMMA MoveKeeps ==
  ASSUME PeerInv, NEW e \in Ends, NEW p \in {"wait", "lock", "ended", "done"},
         UNCHANGED <<peer, gen, conn, pmut, obj>>, at' = [at EXCEPT ![e] = p],
         at[e] \notin {"set", "start"}, p = "ended" => at[e] = "run",
         p \in {"wait", "lock"} => e # <<e[1], e[1].from>> \/ at[e] = "wait"
  PROVE  PeerInv'
<1>1. PeerTypes'
  BY DEF PeerInv, PeerTypes, Phases
<1>2. LockedForSetup'
  BY DEF PeerInv, PeerTypes, LockedForSetup
<1>3. RunsOwnConn'
  BY DEF PeerInv, PeerTypes, RunsOwnConn
<1>4. KnowsPlayer'
  <2>1. \A f \in Ends : at'[f] \in {"set", "start", "run", "ended"} => obj[f] # 0
    BY DEF PeerInv, PeerTypes, KnowsPlayer
  <2>2. ASSUME NEW c \in Conns, at'[<<c, c.from>>] \in {"wait", "lock"}
        PROVE  obj[<<c, c.from>>] # 0
    <3>1. CASE e = <<c, c.from>>
      BY <2>2, <3>1 DEF PeerInv, PeerTypes, KnowsPlayer, Dl
    <3>2. CASE e # <<c, c.from>>
      BY <2>2, <3>2, EndFacts DEF PeerInv, PeerTypes, KnowsPlayer, Dl
    <3> QED BY <3>1, <3>2
  <2> QED BY <2>1, <2>2 DEF PeerInv, KnowsPlayer, Dl
<1> QED BY <1>1, <1>2, <1>3, <1>4 DEF PeerInv

(* An end that takes the lock for its connection.                          *)
LEMMA ProceedKeeps ==
  ASSUME PeerInv, NEW e \in Ends, NEW g \in 0..MaxGen, g # 0,
         UNCHANGED <<peer, gen, conn>>, Proceed(e, g),
         at[e] = "lock", pmutFree(Own(e))
  PROVE  PeerInv'
<1>1. /\ pmut' = [pmut EXCEPT ![Own(e)] = e[1]] /\ obj' = [obj EXCEPT ![e] = g]
      /\ at' = [at EXCEPT ![e] = "set"] /\ pmut[Own(e)] = Nil
      /\ Own(e) \in Hosts /\ e[1] \in Conns
  BY EndFacts DEF Proceed, Goto, pmutFree, Own
<1>2. PeerTypes'
  BY <1>1 DEF PeerInv, PeerTypes, Phases
<1>3. LockedForSetup'
  <2> SUFFICES ASSUME NEW f \in Ends
               PROVE  at'[f] \in {"set", "start"} <=> pmut'[Own(f)] = f[1]
    BY DEF LockedForSetup, Own
  <2>1. CASE f = e
    BY <1>1, <2>1 DEF PeerInv, PeerTypes
  <2>2. CASE f # e /\ Own(f) = Own(e)
    <3>1. f[1] # e[1] /\ f[1] # Nil
      BY <2>2, EndFacts, PeerAssumption DEF Own
    <3> QED BY <1>1, <2>2, <3>1 DEF PeerInv, PeerTypes, LockedForSetup
  <2>3. CASE f # e /\ Own(f) # Own(e)
    BY <1>1, <2>3 DEF PeerInv, PeerTypes, LockedForSetup
  <2> QED BY <2>1, <2>2, <2>3
<1>4. RunsOwnConn'
  BY <1>1 DEF PeerInv, PeerTypes, RunsOwnConn
<1>5. KnowsPlayer'
  BY <1>1, EndFacts DEF PeerInv, PeerTypes, KnowsPlayer, Dl
<1> QED BY <1>2, <1>3, <1>4, <1>5 DEF PeerInv

(* SetConn makes the connection the Player's; no other Run uses it.        *)
LEMMA PeerSetConnKeeps ==
  ASSUME PeerInv, NEW e \in Ends, SetConn(e)
  PROVE  PeerInv'
<1> DEFINE q == Pair(e)
<1>1. /\ q \in Pairs /\ e[1] \in Conns /\ at[e] = "set"
      /\ obj[e] \in Gens
  BY EndFacts, PeerAssumption DEF PeerInv, PeerTypes, KnowsPlayer, SetConn, Gens
<1>2. /\ conn' = [conn EXCEPT ![q][obj[e]] = e[1]] /\ at' = [at EXCEPT ![e] = "start"]
      /\ UNCHANGED <<peer, gen, pmut, obj>>
  BY DEF SetConn, Goto
<1>3. \A f \in Ends : Pair(f) = q /\ obj[f] = obj[e] => at[f] \notin {"start", "run"}
  BY DEF SetConn, Running
<1>4. conn \in [Pairs -> [Gens -> Conns \cup {Nil}]] /\ obj \in [Ends -> 0..MaxGen]
      /\ at \in [Ends -> Phases]
  BY DEF PeerInv, PeerTypes
<1> HIDE DEF q
<1>5. PeerTypes'
  BY <1>1, <1>2, <1>4 DEF PeerInv, PeerTypes, Phases
<1>6. LockedForSetup'
  BY <1>1, <1>2, <1>4 DEF PeerInv, LockedForSetup
<1>7. RunsOwnConn'
  <2> SUFFICES ASSUME NEW f \in Ends, at'[f] \in {"start", "run"}
               PROVE  conn'[Pair(f)][obj[f]] = f[1]
    BY <1>2 DEF RunsOwnConn, Pair, Own, Other
  <2>1. CASE f = e
    BY <1>1, <1>2, <1>4, <2>1 DEF q
  <2>2. CASE f # e
    <3>1. at[f] \in {"start", "run"} /\ conn[Pair(f)][obj[f]] = f[1]
      BY <1>2, <1>4, <2>2 DEF PeerInv, RunsOwnConn
    <3>2. Pair(f) # q \/ obj[f] # obj[e]
      BY <1>3, <3>1
    <3>3. Pair(f) \in Pairs
      BY EndFacts
    <3> QED BY <1>1, <1>2, <1>4, <3>1, <3>2, <3>3
  <2> QED BY <2>1, <2>2
<1>8. KnowsPlayer'
  BY <1>1, <1>2, <1>4, EndFacts DEF PeerInv, KnowsPlayer, Dl
<1> QED BY <1>5, <1>6, <1>7, <1>8 DEF PeerInv

(* RunStart gives the lock back.                                           *)
LEMMA RunStartKeeps ==
  ASSUME PeerInv, NEW e \in Ends, RunStart(e)
  PROVE  PeerInv'
<1>1. /\ pmut' = [pmut EXCEPT ![Own(e)] = Nil] /\ at' = [at EXCEPT ![e] = "run"]
      /\ UNCHANGED <<peer, gen, conn, obj>> /\ at[e] = "start" /\ Own(e) \in Hosts
  BY EndFacts DEF RunStart, Goto, Own
<1>2. PeerTypes'
  BY <1>1 DEF PeerInv, PeerTypes, Phases
<1>3. LockedForSetup'
  <2> SUFFICES ASSUME NEW f \in Ends
               PROVE  at'[f] \in {"set", "start"} <=> pmut'[Own(f)] = f[1]
    BY DEF LockedForSetup, Own
  <2>1. f[1] # Nil /\ pmut[Own(e)] = e[1]
    BY <1>1, EndFacts, PeerAssumption DEF PeerInv, LockedForSetup
  <2>2. CASE f = e
    BY <1>1, <2>1, <2>2 DEF PeerInv, PeerTypes
  <2>3. CASE f # e /\ Own(f) = Own(e)
    <3>1. f[1] # e[1]
      BY <2>3, EndFacts DEF Own
    <3> QED BY <1>1, <2>1, <2>3, <3>1 DEF PeerInv, PeerTypes, LockedForSetup
  <2>4. CASE f # e /\ Own(f) # Own(e)
    BY <1>1, <2>4 DEF PeerInv, PeerTypes, LockedForSetup
  <2> QED BY <2>2, <2>3, <2>4
<1>4. RunsOwnConn' /\ KnowsPlayer'
  BY <1>1, EndFacts DEF PeerInv, PeerTypes, RunsOwnConn, KnowsPlayer, Dl
<1> QED BY <1>2, <1>3, <1>4 DEF PeerInv

(* disconnectPlayer clears a connection that no Run uses.                  *)
LEMMA disconnectKeeps ==
  ASSUME PeerInv, NEW e \in Ends, disconnectPlayer(e)
  PROVE  PeerInv'
<1> DEFINE q == Pair(e)
           old == conn[q][obj[e]]
<1>1. q \in Pairs /\ e[1] \in Conns /\ at[e] = "ended" /\ obj[e] \in Gens
  BY EndFacts, PeerAssumption DEF PeerInv, PeerTypes, KnowsPlayer, disconnectPlayer, Gens
<1>2. /\ conn' = [conn EXCEPT ![q][obj[e]] = IF old = e[1] THEN Nil ELSE old]
      /\ at' = [at EXCEPT ![e] = "done"] /\ UNCHANGED <<peer, gen, pmut, obj>>
  BY DEF disconnectPlayer, Goto
<1>3. conn \in [Pairs -> [Gens -> Conns \cup {Nil}]] /\ obj \in [Ends -> 0..MaxGen]
      /\ at \in [Ends -> Phases]
  BY DEF PeerInv, PeerTypes
<1> HIDE DEF q
<1>4. old \in Conns \cup {Nil}
  BY <1>1, <1>3
<1>5. PeerTypes'
  BY <1>1, <1>2, <1>3, <1>4 DEF PeerInv, PeerTypes, Phases
<1>6. LockedForSetup'
  BY <1>1, <1>2, <1>3 DEF PeerInv, LockedForSetup
<1>7. RunsOwnConn'
  <2> SUFFICES ASSUME NEW f \in Ends, at'[f] \in {"start", "run"}
               PROVE  conn'[Pair(f)][obj[f]] = f[1]
    BY <1>2 DEF RunsOwnConn, Pair, Own, Other
  <2>1. f # e /\ at[f] \in {"start", "run"} /\ conn[Pair(f)][obj[f]] = f[1]
    BY <1>2, <1>3 DEF PeerInv, RunsOwnConn
  <2>2. Pair(f) \in Pairs
    BY EndFacts
  <2>3. CASE Pair(f) = q /\ obj[f] = obj[e]
    <3>1. old = f[1] /\ f[2] = e[2]
      BY <2>1, <2>3 DEF q, Pair, Own
    <3>2. f[1] # e[1]
      BY <2>1, <3>1, EndFacts
    <3> QED BY <1>1, <1>2, <1>3, <2>3, <3>1, <3>2
  <2>4. CASE Pair(f) # q \/ obj[f] # obj[e]
    BY <1>1, <1>2, <1>3, <2>1, <2>2, <2>4
  <2> QED BY <2>3, <2>4
<1>8. KnowsPlayer'
  BY <1>1, <1>2, <1>3, EndFacts DEF PeerInv, KnowsPlayer, Dl
<1> QED BY <1>5, <1>6, <1>7, <1>8 DEF PeerInv

(* Accepting a connection and answering it.                                *)
LEMMA AcceptKeeps ==
  ASSUME PeerInv, NEW e \in Ends, Accept(e) \/ DialAnswered(e)
  PROVE  PeerInv'
<1>1. UNCHANGED <<peer, gen, conn>> /\ at[e] = "lock" /\ pmutFree(Own(e))
  BY DEF Accept, DialAnswered, hostVars
<1>2. CASE Fail(e) /\ UNCHANGED <<pmut, obj>>
  BY <1>1, <1>2, MoveKeeps, ZenonT(30) DEF Fail, Goto
<1>3. CASE \E g \in 0..MaxGen : g # 0 /\ Proceed(e, g)
  BY <1>1, <1>3, ProceedKeeps
<1>4. CASE Accept(e)
  <2>1. peer[Pair(e)] \in 0..MaxGen
    BY EndFacts DEF PeerInv, PeerTypes
  <2> QED BY <1>2, <1>3, <1>4, <2>1 DEF Accept
<1>5. CASE DialAnswered(e)
  <2>1. e = <<e[1], e[1].from>> /\ e[1] \in Conns
    BY <1>5, EndFacts DEF DialAnswered, Own
  <2>2. obj[e] \in 0..MaxGen /\ obj[e] # 0
    BY <1>1, <2>1 DEF PeerInv, PeerTypes, KnowsPlayer, Dl
  <2> QED BY <1>2, <1>3, <1>5, <2>2 DEF DialAnswered
<1> QED BY <1>4, <1>5

(* A step of an end.                                                       *)
LEMMA EndKeeps ==
  ASSUME PeerInv, NEW e \in Ends, EndStep(e) \/ connectFails(e) \/ RunStop(e)
  PROVE  PeerInv'
<1>1. CASE connectPlayer(e) \/ connectFails(e) \/ RunStop(e)
  <2>1. PICK p \in {"wait", "lock", "ended", "done"} :
          /\ at' = [at EXCEPT ![e] = p] /\ at[e] \in {"wait", "run"}
          /\ p = "ended" => at[e] = "run"
          /\ p \in {"wait", "lock"} => at[e] = "wait"
    BY <1>1 DEF connectPlayer, connectFails, RunStop, Fail, Goto
  <2>2. UNCHANGED <<peer, gen, conn, pmut, obj>>
    BY <1>1 DEF connectPlayer, connectFails, RunStop, hostVars
  <2> QED BY <2>1, <2>2, MoveKeeps, ZenonT(30)
<1>2. CASE Accept(e) \/ DialAnswered(e) \/ SetConn(e) \/ RunStart(e)
           \/ disconnectPlayer(e)
  BY <1>2, AcceptKeeps, PeerSetConnKeeps, RunStartKeeps, disconnectKeeps
<1> QED BY <1>1, <1>2 DEF EndStep

(* A step of a host.                                                       *)
LEMMA PeerStep ==
  ASSUME PeerInv, Next
  PROVE  PeerInv'
<1>1. ASSUME NEW c \in Conns, AcceptTCP(c)
      PROVE  PeerInv'
  <2> DEFINE e == <<c, c.to>>
  <2>1. e \in Ends /\ e # <<e[1], e[1].from>>
    BY EndFacts, ZenonT(30)
  <2>2. at' = [at EXCEPT ![e] = "wait"] /\ UNCHANGED <<peer, gen, conn, pmut, obj>>
    BY <1>1 DEF AcceptTCP, Goto, hostVars
  <2>3. at[e] \notin {"set", "start"}
    BY <1>1 DEF AcceptTCP, Accepting
  <2> QED BY <2>1, <2>2, <2>3, MoveKeeps, ZenonT(30)
<1> QED BY <1>1, RegisterKeeps, CloseKeeps, DialKeeps, EndKeeps DEF Next

(* PeerInv always holds.                                                   *)
LEMMA PeerAlways == Spec => []PeerInv
<1>1. PeerInv /\ UNCHANGED vars => PeerInv'
  BY DEF PeerInv, PeerTypes, LockedForSetup, KnowsPlayer, RunsOwnConn, Dl, vars, hostVars
<1> QED BY <1>1, PeerInit, PeerStep, PTL DEF Spec

(* "This ensures RunStart is only called once and serve() is actually      *)
(* using conn" (host.go:180, 267): a Player has one Run at a time, with    *)
(* its own connection, for any number of hosts.                            *)
THEOREM OneRunAlways == Spec => []OneRun
<1>1. PeerInv => OneRun
  <2> SUFFICES ASSUME PeerInv, NEW e \in Ends, at[e] \in {"start", "run"}
               PROVE  /\ conn[Pair(e)][obj[e]] = e[1]
                      /\ Running(Pair(e), obj[e]) = {e}
    BY DEF OneRun
  <2>1. conn[Pair(e)][obj[e]] = e[1]
    BY DEF PeerInv, RunsOwnConn
  <2>2. e \in Running(Pair(e), obj[e])
    BY DEF Running
  <2>3. ASSUME NEW f \in Running(Pair(e), obj[e]) PROVE f = e
    <3>1. f \in Ends /\ Pair(f) = Pair(e) /\ f[1] = e[1]
      BY <2>1, <2>3 DEF Running, PeerInv, RunsOwnConn
    <3> QED BY <3>1, EndFacts DEF Pair, Own
  <2> QED BY <2>1, <2>2, <2>3
<1> QED BY <1>1, PeerAlways, PTL

(* pmut is held exactly while a connection is set up, and for that one,    *)
(* though Dial or Accept takes it and another goroutine gives it back.     *)
THEOREM LockedForSetupAlways == Spec => []LockedForSetup
<1>1. PeerInv => LockedForSetup
  BY DEF PeerInv
<1> QED BY <1>1, PeerAlways, PTL

(* A peerset only has players with a connection.                           *)
PeerSets == peerset \in [Hosts -> SUBSET Hosts] /\ PeerSetConnected

(* A function that is given the value it has does not change.              *)
LEMMA SameValue ==
  ASSUME NEW S, NEW T, NEW f \in [S -> T], NEW x \in S
  PROVE  [f EXCEPT ![x] = f[x]] = f
OBVIOUS

(* SetConn, RunStart and disconnectPlayer change the connections and the   *)
(* peersets, and nothing else does.                                        *)
LEMMA PeerSetStep ==
  ASSUME PeerInv, PeerSets, Next
  PROVE  PeerSets'
<1>1. CASE UNCHANGED <<conn, peerset>>
  BY <1>1 DEF PeerSets, PeerSetConnected
<1>2. ASSUME NEW e \in Ends, SetConn(e) \/ RunStart(e) \/ disconnectPlayer(e)
      PROVE  PeerSets'
  <2> DEFINE p == Pair(e)
             k == obj[e]
  <2>1. /\ p \in Pairs /\ p = <<Own(e), Other(e)>> /\ Own(e) \in Hosts /\ Other(e) \in Hosts
        /\ e[1] \in Conns /\ e[1] # Nil /\ k \in Gens
    BY <1>2, EndFacts, PeerAssumption DEF PeerInv, PeerTypes, KnowsPlayer, SetConn, RunStart,
                                          disconnectPlayer, Gens, Pair, Pairs
  <2>2. /\ conn \in [Pairs -> [Gens -> Conns \cup {Nil}]]
        /\ peerset \in [Hosts -> SUBSET Hosts]
        /\ \A q \in Pairs : q[1] \in Hosts /\ q[2] \in Hosts /\ q = <<q[1], q[2]>>
    BY DEF PeerInv, PeerTypes, PeerSets, Pairs
  <2>3. SUFFICES ASSUME peerset' \in [Hosts -> SUBSET Hosts], NEW q \in Pairs,
                        q[2] \in peerset'[q[1]]
                 PROVE  \E g \in Gens : conn'[q][g] # Nil
    <3>1. peerset' \in [Hosts -> SUBSET Hosts]
      BY <1>2, <2>1, <2>2 DEF SetConn, RunStart, disconnectPlayer
    <3> QED BY <3>1 DEF PeerSets, PeerSetConnected
  <2>4. CASE SetConn(e)
    <3>1. conn' = [conn EXCEPT ![p][k] = e[1]] /\ peerset' = peerset
      BY <2>4 DEF SetConn
    <3>2. PICK g \in Gens : conn[q][g] # Nil
      BY <2>3, <3>1 DEF PeerSets, PeerSetConnected
    <3> HIDE DEF p, k
    <3> QED BY <2>1, <2>2, <3>1, <3>2
  <2>5. CASE RunStart(e)
    <3>1. /\ conn' = conn /\ conn[p][k] = e[1]
          /\ peerset' = [peerset EXCEPT ![Own(e)] = @ \cup {Other(e)}]
      BY <2>5 DEF RunStart, PeerInv, RunsOwnConn
    <3>2. CASE q = p
      BY <2>1, <3>1, <3>2
    <3>3. CASE q # p
      <4>1. q[2] \in peerset[q[1]]
        BY <2>1, <2>2, <2>3, <3>1, <3>3
      <4> QED BY <3>1, <4>1 DEF PeerSets, PeerSetConnected
    <3> QED BY <3>2, <3>3
  <2>6. CASE disconnectPlayer(e)
    <3>1. CASE conn[p][k] = e[1]
      <4>1. /\ conn' = [conn EXCEPT ![p][k] = Nil]
            /\ peerset' = [peerset EXCEPT ![Own(e)] = @ \ {Other(e)}]
        BY <2>6, <3>1 DEF disconnectPlayer
      <4>2. q # p /\ q[2] \in peerset[q[1]]
        BY <2>1, <2>2, <2>3, <4>1
      <4>3. PICK g \in Gens : conn[q][g] # Nil
        BY <4>2 DEF PeerSets, PeerSetConnected
      <4> HIDE DEF p, k
      <4> QED BY <2>1, <2>2, <4>1, <4>2, <4>3
    <3>2. CASE conn[p][k] # e[1]
      <4>1. /\ conn' = [conn EXCEPT ![p][k] = conn[p][k]]
            /\ peerset' = [peerset EXCEPT ![Own(e)] = peerset[Own(e)]]
        BY <2>6, <3>2 DEF disconnectPlayer
      <4> HIDE DEF p, k
      <4>2. conn[p] \in [Gens -> Conns \cup {Nil}]
        BY <2>1, <2>2, ZenonT(30)
      <4>3. [conn[p] EXCEPT ![k] = conn[p][k]] = conn[p]
        BY <2>1, <4>2, SameValue, ZenonT(30)
      <4>4. conn' = [conn EXCEPT ![p] = conn[p]]
        BY <4>1, <4>3, ZenonT(30)
      <4>5. conn' = conn
        BY <2>1, <2>2, <4>4, SameValue, ZenonT(30)
      <4>6. peerset' = peerset
        BY <2>1, <2>2, <4>1, SameValue, ZenonT(30)
      <4> QED BY <2>3, <4>5, <4>6 DEF PeerSets, PeerSetConnected
    <3> QED BY <3>1, <3>2
  <2> QED BY <1>2, <2>4, <2>5, <2>6
<1>3. \/ UNCHANGED <<conn, peerset>>
      \/ \E e \in Ends : SetConn(e) \/ RunStart(e) \/ disconnectPlayer(e)
  BY ZenonT(30) DEF Next, Register, Deregister, CloseListener, ClosePeers, Dial, DialRefused, AcceptTCP,
         EndStep, connectPlayer, connectFails, Accept, DialAnswered, RunStop, hostVars
<1> QED BY <1>1, <1>2, <1>3

(* Whoever is in the peerset of a host (host.go:50) has a connection to    *)
(* it: disconnectPlayer of a connection that has been replaced changes     *)
(* nothing, for any number of hosts and of registrations of a player.      *)
THEOREM PeerSetConnectedAlways == Spec => []PeerSetConnected
<1>1. Init => PeerSets
  BY DEF Init, PeerSets, PeerSetConnected, Pairs
<1>2. PeerSets /\ UNCHANGED vars => PeerSets'
  BY DEF PeerSets, PeerSetConnected, vars, hostVars
<1>3. PeerSets => PeerSetConnected
  BY DEF PeerSets
<1> QED BY <1>1, <1>2, <1>3, PeerSetStep, PeerAlways, PTL DEF Spec

-----------------------------------------------------------------------------
(* The connection the other way is a different one, with the ends swapped. *)
LEMMA RevFacts ==
  \A c \in Conns : /\ Rev(c).from = c.to /\ Rev(c).to = c.from
                   /\ Rev(Rev(c)) = c /\ Rev(c) # c
                   /\ Strong(Rev(c)) <=> ~ Strong(c)
<1> SUFFICES ASSUME NEW c \in Conns
             PROVE  /\ Rev(c).from = c.to /\ Rev(c).to = c.from
                    /\ Rev(Rev(c)) = c /\ Rev(c) # c
                    /\ Strong(Rev(c)) <=> ~ Strong(c)
  OBVIOUS
<1>1. c \in [from : Hosts, to : Hosts] /\ c.from # c.to /\ c.from \in Nat /\ c.to \in Nat
  BY PeerAssumption, ZenonT(30)
<1>2. Rev(c).from = c.to /\ Rev(c).to = c.from
  BY DEF Rev
<1>3. Rev(Rev(c)) = c
  BY <1>1, <1>2 DEF Rev
<1> QED BY <1>1, <1>2, <1>3 DEF Strong

(* What a step of one end changes.                                         *)
LEMMA DialEndMoves ==
  ASSUME PeerInv, NEW c \in Conns, NEW p, at' = [at EXCEPT ![<<c, c.from>>] = p]
  PROVE  \A x \in Conns : Dl(x)' = (IF x = c THEN p ELSE Dl(x)) /\ Ac(x)' = Ac(x)
BY EndFacts, ZenonT(30) DEF PeerInv, PeerTypes, Dl, Ac

LEMMA AcceptEndMoves ==
  ASSUME PeerInv, NEW c \in Conns, NEW p, at' = [at EXCEPT ![<<c, c.to>>] = p]
  PROVE  \A x \in Conns : Dl(x)' = Dl(x) /\ Ac(x)' = (IF x = c THEN p ELSE Ac(x))
BY EndFacts, ZenonT(30) DEF PeerInv, PeerTypes, Dl, Ac

(* An end that is closed closes its connection.                            *)
LEMMA Closes ==
  ASSUME NEW e, closed' = closed \cup {e}
  PROVE  \A x : Dead(x)' <=> Dead(x) \/ x = e[1]
BY DEF Dead

(* The connection of a Player, if it is not the one of this end, is the    *)
(* one the other way.                                                      *)
LEMMA OtherConn ==
  ASSUME PeerInv, Links, NEW c \in Conns
  PROVE  /\ Dl(c) \notin Up /\ conn[<<c.from, c.to>>][1] # Nil =>
              /\ conn[<<c.from, c.to>>][1] = Rev(c) /\ Rev(c) \in Conns
              /\ Ac(Rev(c)) \in Up
         /\ Ac(c) \notin Up /\ conn[<<c.to, c.from>>][1] # Nil =>
              /\ conn[<<c.to, c.from>>][1] = Rev(c) /\ Rev(c) \in Conns
              /\ Dl(Rev(c)) \in Up
<1> DEFINE q == <<c.from, c.to>>
           r == <<c.to, c.from>>
<1>1. q \in Pairs /\ r \in Pairs /\ q[1] = c.from /\ q[2] = c.to /\ r[1] = c.to /\ r[2] = c.from
  BY EndFacts, ZenonT(30)
<1>2. \A d \in Conns : /\ d.from = c.from /\ d.to = c.to => d = c
                       /\ d.from = c.to /\ d.to = c.from => d = Rev(c)
  BY PeerAssumption DEF Rev
<1>3. ServesConn(q) /\ ServesConn(r)
  BY <1>1 DEF Links
<1> HIDE DEF q, r
<1>4. Dl(c) \notin Up /\ conn[q][1] # Nil =>
        conn[q][1] = Rev(c) /\ Rev(c) \in Conns /\ Ac(Rev(c)) \in Up
  BY <1>1, <1>2, <1>3 DEF ServesConn
<1>5. Ac(c) \notin Up /\ conn[r][1] # Nil =>
        conn[r][1] = Rev(c) /\ Rev(c) \in Conns /\ Dl(Rev(c)) \in Up
  BY <1>1, <1>2, <1>3 DEF ServesConn
<1> QED BY <1>4, <1>5 DEF q, r

(* A step after which all is calm was taken when all was calm.             *)
LEMMA CalmBefore ==
  ASSUME PeerInv, Next, Calm'
  PROVE  /\ Calm
         /\ \A q \in Pairs : ~ Deregister(q)
         /\ \A h \in Hosts : ~ CloseListener(h) /\ ~ ClosePeers(h)
<1>1. \A h \in Hosts : ~ CloseListener(h) /\ ~ ClosePeers(h)
  BY DEF Calm, CloseListener, ClosePeers
<1>2. ASSUME NEW q \in Pairs, Deregister(q) PROVE FALSE
  <2>1. peer[q] # 0 /\ peer[q] = gen[q] /\ gen' = gen /\ peer'[q] = 0
    BY <1>2 DEF Deregister, PeerInv, PeerTypes, KnowsPlayer
  <2> QED BY <2>1 DEF Calm
<1>3. ASSUME NEW q \in Pairs, Register(q) PROVE Calm
  <2>1. gen' = [gen EXCEPT ![q] = @ + 1] /\ peer' = [peer EXCEPT ![q] = gen[q] + 1]
        /\ peer[q] = 0 /\ UNCHANGED <<faulty, listening>>
    BY <1>3 DEF Register
  <2>2. gen[q] \in Nat /\ gen[q] + 1 <= 1
    BY <2>1 DEF Calm, PeerInv, PeerTypes
  <2> QED BY <2>1, <2>2 DEF Calm, PeerInv, PeerTypes
<1>4. ASSUME UNCHANGED <<faulty, listening, gen, peer>> PROVE Calm
  <2>1. ~ faulty /\ listening = Hosts
    BY <1>4, ZenonT(30) DEF Calm
  <2>2. \A q \in Pairs : gen[q] <= 1 /\ peer[q] = gen[q]
    BY <1>4 DEF Calm
  <2> QED BY <2>1, <2>2 DEF Calm
<1>5. ASSUME NEW c \in Conns, Dial(c) \/ DialRefused(c) \/ AcceptTCP(c)
      PROVE  Calm
  BY <1>4, <1>5 DEF Dial, DialRefused, AcceptTCP, hostVars
<1>6. ASSUME NEW e \in Ends, EndStep(e) \/ connectFails(e) \/ RunStop(e)
      PROVE  Calm
  BY <1>4, <1>6, ZenonT(30) DEF EndStep, connectFails, RunStop, connectPlayer, Accept,
     DialAnswered, SetConn, RunStart, disconnectPlayer, hostVars
<1> QED BY <1>1, <1>2, <1>3, <1>5, <1>6 DEF Next

(* When all is calm there is at most one Player for another host.          *)
LEMMA OnePlayer ==
  ASSUME PeerInv, Calm, NEW q \in Pairs
  PROVE  peer[q] \in {0, 1} /\ gen[q] = peer[q]
<1>1. gen[q] \in Nat /\ gen[q] <= 1 /\ peer[q] = gen[q]
  BY DEF PeerInv, PeerTypes, Calm
<1> QED BY <1>1

(* Registering a player.                                                   *)
LEMMA RegisterLinks ==
  ASSUME PeerInv, Calm, Calm', Links, NEW q \in Pairs, Register(q)
  PROVE  Links'
<1>1. /\ UNCHANGED <<conn, backlog, at, obj, closed, answered>>
      /\ gen' = [gen EXCEPT ![q] = @ + 1] /\ gen[q] + 1 <= 1 /\ gen \in [Pairs -> 0..MaxGen]
  BY DEF Register, PeerInv, PeerTypes, Calm
<1>2. \A x \in Conns : /\ Dl(x)' = Dl(x) /\ Ac(x)' = Ac(x) /\ (Dead(x)' <=> Dead(x))
                       /\ Known(x) => Known(x)'
  <2>1. \A x \in Conns : Known(x) => Known(x)'
    <3> SUFFICES ASSUME NEW x \in Conns, gen[<<x.from, x.to>>] = 1
                 PROVE  gen'[<<x.from, x.to>>] = 1
      BY DEF Known
    <3> QED BY <1>1, EndFacts
  <2>2. \A x \in Conns : Dead(x)' <=> Dead(x)
    BY <1>1 DEF Dead
  <2> QED BY <1>1, <2>1, <2>2 DEF Dl, Ac
<1>3. \A x \in Conns : Link(x)'
  BY <1>1, <1>2 DEF Links, Link, InStep, Wins, Yields
<1>4. \A r \in Pairs : ServesConn(r)'
  BY <1>1, <1>2 DEF Links, ServesConn
<1> QED BY <1>1, <1>3, <1>4 DEF Links

(* A Dial that waits for an answer.                                        *)
LEMMA DialLinks ==
  ASSUME PeerInv, Calm, Links, NEW c \in Conns, Dial(c)
  PROVE  Links'
<1> DEFINE e == <<c, c.from>>
<1>1. /\ UNCHANGED <<conn, gen, closed, answered>> /\ backlog' = backlog \cup {c}
      /\ at' = [at EXCEPT ![e] = "wait"] /\ Dl(c) = "none"
      /\ obj' = [obj EXCEPT ![e] = peer[Pair(e)]] /\ peer[Pair(e)] # 0
  BY DEF Dial, hostVars, Goto, Dl
<1>2. /\ e \in Ends /\ Pair(e) = <<c.from, c.to>> /\ Pair(e) \in Pairs
      /\ obj \in [Ends -> 0..MaxGen]
  BY EndFacts, ZenonT(30) DEF PeerInv, PeerTypes, Pair, Own, Other
<1>3. peer[Pair(e)] = 1 /\ Known(c)
  BY <1>1, <1>2, OnePlayer DEF Known
<1>4. \A x \in Conns : /\ Dl(x)' = (IF x = c THEN "wait" ELSE Dl(x)) /\ Ac(x)' = Ac(x)
                       /\ (Dead(x)' <=> Dead(x)) /\ (Known(x)' <=> Known(x))
  BY <1>1, DialEndMoves, ZenonT(30) DEF Dead, Known
<1>5. \A x \in Conns : Link(x)'
  BY <1>1, <1>3, <1>4 DEF Links, Link, InStep, Wins, Yields
<1>6. \A q \in Pairs : ServesConn(q)'
  BY <1>1, <1>4, ZenonT(30) DEF Links, ServesConn, Up
<1>7. \A f \in Ends : obj'[f] <= 1
  BY <1>1, <1>2, <1>3 DEF Links
<1> QED BY <1>5, <1>6, <1>7 DEF Links

(* A Dial that finds the player connected.                                 *)
LEMMA DialRefusedLinks ==
  ASSUME PeerInv, Calm, Links, NEW c \in Conns, DialRefused(c)
  PROVE  Links'
<1> DEFINE e == <<c, c.from>>
           d == Rev(c)
<1>1. /\ UNCHANGED <<conn, gen, closed, answered, backlog, obj>>
      /\ at' = [at EXCEPT ![e] = "done"] /\ Dl(c) = "none" /\ c.to \in Hosts
      /\ Pair(e) = <<c.from, c.to>> /\ Pair(e) \in Pairs
  BY EndFacts, ZenonT(30) DEF DialRefused, hostVars, Goto, Dl, Pair, Own, Other
<1>2. peer[Pair(e)] = 1 /\ Known(c)
  BY <1>1, OnePlayer, ZenonT(30) DEF DialRefused, Known
<1>3. conn[<<c.from, c.to>>][1] # Nil
  BY <1>1, <1>2 DEF Calm, DialRefused
<1>4. d \in Conns /\ Ac(d) \in Up
  BY <1>1, <1>3, OtherConn, ZenonT(30) DEF Up
<1>5. \A x \in Conns : /\ Dl(x)' = (IF x = c THEN "done" ELSE Dl(x)) /\ Ac(x)' = Ac(x)
                       /\ (Dead(x)' <=> Dead(x)) /\ (Known(x)' <=> Known(x))
  BY <1>1, DialEndMoves, ZenonT(30) DEF Dead, Known
<1> HIDE DEF d
<1>6. ASSUME NEW x \in Conns PROVE Link(x)'
  <2>1. CASE x = c
    <3>1. InStep(c)'
      BY <1>1, <1>2, <1>5, <2>1, ZenonT(30) DEF Links, Link, InStep
    <3>2. ASSUME Strong(c) PROVE Wins(c)'
      <4>1. ~ Strong(d) /\ Rev(d) = c /\ c \notin answered /\ Ac(c) = "none" /\ c \notin backlog
        BY <1>1, <3>2, RevFacts, ZenonT(30) DEF Links, Link, InStep, d
      <4>2. ~ Dead(d) /\ Dl(d) \notin {"ended", "done"} /\ d # c /\ ~ Dead(c)
        BY <1>1, <1>4, <4>1, RevFacts DEF Links, Link, InStep, Yields, Up, d
      <4> QED BY <1>1, <1>4, <1>5, <4>1, <4>2 DEF Wins, d
    <3>3. ASSUME ~ Strong(c) PROVE Yields(c)'
      BY <1>1, <1>4, <1>5, <3>3 DEF Links, Link, InStep, Yields, Up, d
    <3> QED BY <2>1, <3>1, <3>2, <3>3 DEF Link, Strong
  <2>2. CASE x = d
    BY <1>1, <1>4, <1>5, <2>2, RevFacts, ZenonT(30) DEF Links, Link, InStep, Wins, Yields, Up, d
  <2>3. CASE x # c /\ x # d
    BY <1>1, <1>5, <2>3, RevFacts DEF Links, Link, InStep, Wins, Yields, d
  <2> QED BY <2>1, <2>2, <2>3
<1>7. \A q \in Pairs : ServesConn(q)'
  BY <1>1, <1>5, ZenonT(30) DEF Links, ServesConn, Up
<1> QED BY <1>1, <1>6, <1>7 DEF Links

(* AcceptTCP and connectPlayer: an end goes on.                            *)
LEMMA AcceptTCPLinks ==
  ASSUME PeerInv, Links, NEW c \in Conns, AcceptTCP(c)
  PROVE  Links'
<1>1. /\ UNCHANGED <<conn, gen, closed, answered, obj>> /\ c \in backlog
      /\ backlog' = backlog \ {c} /\ at' = [at EXCEPT ![<<c, c.to>>] = "wait"]
  BY DEF AcceptTCP, hostVars, Goto
<1>2. \A x \in Conns : /\ Dl(x)' = Dl(x) /\ Ac(x)' = (IF x = c THEN "wait" ELSE Ac(x))
                       /\ (Dead(x)' <=> Dead(x)) /\ (Known(x)' <=> Known(x))
  BY <1>1, AcceptEndMoves, ZenonT(30) DEF Dead, Known
<1>3. \A x \in Conns : Link(x)'
  BY <1>1, <1>2 DEF Links, Link, InStep, Wins, Yields
<1>4. \A q \in Pairs : ServesConn(q)'
  BY <1>1, <1>2 DEF Links, Link, InStep, ServesConn, Up
<1> QED BY <1>1, <1>3, <1>4 DEF Links

(* The PeerConnect of the other end has come in.                           *)
LEMMA connectLinks ==
  ASSUME PeerInv, Links, NEW e \in Ends, connectPlayer(e)
  PROVE  Links'
<1> DEFINE c == e[1]
<1>1. /\ UNCHANGED <<conn, gen, closed, answered, obj, backlog>> /\ c \in Conns
      /\ at' = [at EXCEPT ![e] = "lock"] /\ at[e] = "wait"
  BY EndFacts DEF connectPlayer, hostVars, Goto
<1>2. \A x \in Conns : (Dead(x)' <=> Dead(x)) /\ (Known(x)' <=> Known(x))
  BY <1>1 DEF Dead, Known
<1>3. CASE e = <<c, c.from>>
  <2>1. c \in answered /\ Dl(c) = "wait"
    BY <1>1, <1>3 DEF connectPlayer, Own, Dl
  <2>2. \A x \in Conns : Dl(x)' = (IF x = c THEN "lock" ELSE Dl(x)) /\ Ac(x)' = Ac(x)
    BY <1>1, <1>3, DialEndMoves, ZenonT(30)
  <2> HIDE DEF c
  <2>3. \A x \in Conns : Link(x)'
    BY <1>1, <1>2, <2>1, <2>2 DEF Links, Link, InStep, Wins, Yields
  <2>4. \A q \in Pairs : ServesConn(q)'
    BY <1>1, <2>1, <2>2, ZenonT(30) DEF Links, ServesConn, Up
  <2> QED BY <1>1, <2>3, <2>4 DEF Links
<1>4. CASE e = <<c, c.to>>
  <2>1. Ac(c) = "wait"
    BY <1>1, <1>4 DEF Ac
  <2>2. \A x \in Conns : Dl(x)' = Dl(x) /\ Ac(x)' = (IF x = c THEN "lock" ELSE Ac(x))
    BY <1>1, <1>4, AcceptEndMoves, ZenonT(30)
  <2> HIDE DEF c
  <2>3. \A x \in Conns : Link(x)'
    BY <1>1, <1>2, <2>1, <2>2 DEF Links, Link, InStep, Wins, Yields
  <2>4. \A q \in Pairs : ServesConn(q)'
    BY <1>1, <2>1, <2>2, ZenonT(30) DEF Links, ServesConn, Up
  <2> QED BY <1>1, <2>3, <2>4 DEF Links
<1> QED BY <1>3, <1>4, EndFacts

(* A strong connection that has been answered is neither closed nor given  *)
(* up.                                                                     *)
LEMMA StrongStays ==
  ASSUME Links, NEW c \in Conns, Strong(c), c \in answered
  PROVE  ~ Dead(c) /\ Dl(c) # "done"
BY DEF Links, Link, Wins

(* An end that gives up closes the connection.  It may if the connection   *)
(* is weak and the other one is answered, if it is closed already, or if   *)
(* the player is not known.                                                *)
LEMMA FailLinks ==
  ASSUME PeerInv, Links, NEW e \in Ends,
         UNCHANGED <<gen, answered, obj, backlog>>,
         closed' = closed \cup {e}, at' = [at EXCEPT ![e] = "done"],
         at[e] \in {"wait", "lock", "ended"},
         \/ ~ Strong(e[1]) /\ Rev(e[1]) \in answered
         \/ Dead(e[1]) /\ at[e] \in {"wait", "ended"}
         \/ /\ e = <<e[1], e[1].to>> /\ at[e] = "lock"
            /\ Dead(e[1]) \/ ~ Known(Rev(e[1]))
  PROVE  \A x \in Conns : Link(x)'
<1> DEFINE c == e[1]
           d == Rev(c)
<1>1. \A x \in Conns : (Dead(x)' <=> Dead(x) \/ x = c) /\ (Known(x)' <=> Known(x))
  BY Closes DEF Known
<1>2. c \in Conns /\ Rev(d) = c /\ d # c /\ (Strong(d) <=> ~ Strong(c))
  BY EndFacts, RevFacts
<1>3. Strong(d) /\ d \in Conns /\ d \in answered => ~ Dead(d) /\ Dl(d) # "done"
  BY StrongStays
<1> HIDE DEF c, d
<1>4. CASE e = <<c, c.from>>
  <2>1. Dl(c) \in {"wait", "lock", "ended"} /\ Dl(c) = at[e]
    BY <1>4 DEF Dl
  <2>2. \A x \in Conns : Dl(x)' = (IF x = c THEN "done" ELSE Dl(x)) /\ Ac(x)' = Ac(x)
    BY <1>2, <1>4, DialEndMoves, ZenonT(30)
  <2>3. (~ Strong(c) /\ d \in answered) \/ (Dead(c) /\ Dl(c) \in {"wait", "ended"})
    <3>1. e # <<c, c.to>>
      BY <1>2, <1>4, EndFacts, ZenonT(30)
    <3> QED BY <2>1, <3>1 DEF c, d
  <2>4. ASSUME NEW x \in Conns PROVE Link(x)'
    <3>1. CASE x = c
      <4>1. InStep(c)'
        BY <1>1, <1>2, <2>1, <2>2 DEF Links, Link, InStep
      <4>2. ASSUME Strong(c) PROVE Wins(c)'
        BY <1>1, <1>2, <2>1, <2>2, <2>3, <4>2 DEF Links, Link, InStep, Wins, d
      <4>3. ASSUME ~ Strong(c) PROVE Yields(c)'
        BY <1>1, <1>2, <2>1, <2>2, <2>3, <4>3 DEF Links, Link, InStep, Yields, d
      <4> QED BY <3>1, <4>1, <4>2, <4>3 DEF Link, Strong
    <3>2. CASE x = d
      <4>1. InStep(d)'
        BY <1>1, <1>2, <2>2, <3>2 DEF Links, Link, InStep
      <4>2. ASSUME Strong(d) PROVE Wins(d)'
        BY <1>1, <1>2, <1>3, <2>1, <2>2, <2>3, <3>2, <4>2 DEF Links, Link, Wins
      <4>3. ASSUME ~ Strong(d) PROVE Yields(d)'
        BY <1>1, <1>2, <2>2, <3>2, <4>3 DEF Links, Link, Yields
      <4> QED BY <3>2, <4>1, <4>2, <4>3 DEF Link, Strong
    <3>3. CASE x # c /\ x # d
      BY <1>1, <1>2, <2>2, <3>3, RevFacts DEF Links, Link, InStep, Wins, Yields, d
    <3> QED BY <3>1, <3>2, <3>3
  <2> QED BY <2>4
<1>5. CASE e = <<c, c.to>>
  <2>1. Ac(c) \in {"wait", "lock", "ended"} /\ Ac(c) = at[e]
    BY <1>5 DEF Ac
  <2>2. \A x \in Conns : Dl(x)' = Dl(x) /\ Ac(x)' = (IF x = c THEN "done" ELSE Ac(x))
    BY <1>2, <1>5, AcceptEndMoves, ZenonT(30)
  <2>3. (~ Strong(c) /\ d \in answered) \/ Dead(c) \/ (Ac(c) = "lock" /\ ~ Known(d))
    BY <2>1 DEF c, d
  <2>4. Strong(c) => ~ Dead(c)
    BY <1>2, <2>1 DEF Links, Link, Wins
  <2>5. ~ Known(d) /\ d \in Conns => Dl(d) = "none" /\ ~ Dead(d)
    BY DEF Links, Link, InStep
  <2>6. ASSUME NEW x \in Conns PROVE Link(x)'
    <3>1. CASE x = c
      <4>1. InStep(c)'
        BY <1>1, <1>2, <2>1, <2>2 DEF Links, Link, InStep
      <4>2. ASSUME Strong(c) PROVE Wins(c)'
        BY <1>1, <1>2, <2>1, <2>2, <2>3, <2>4, <2>5, <4>2 DEF Links, Link, InStep, Wins, d
      <4>3. ASSUME ~ Strong(c) PROVE Yields(c)'
        BY <1>1, <1>2, <2>1, <2>2, <2>3, <4>3 DEF Links, Link, InStep, Yields, d
      <4> QED BY <3>1, <4>1, <4>2, <4>3 DEF Link, Strong
    <3>2. CASE x = d
      <4>1. InStep(d)'
        BY <1>1, <1>2, <2>2, <3>2 DEF Links, Link, InStep
      <4>2. ASSUME Strong(d) PROVE Wins(d)'
        BY <1>1, <1>2, <1>3, <2>1, <2>2, <2>3, <2>5, <3>2, <4>2 DEF Links, Link, InStep, Wins
      <4>3. ASSUME ~ Strong(d) PROVE Yields(d)'
        BY <1>1, <1>2, <2>2, <3>2, <4>3 DEF Links, Link, Yields
      <4> QED BY <3>2, <4>1, <4>2, <4>3 DEF Link, Strong
    <3>3. CASE x # c /\ x # d
      BY <1>1, <1>2, <2>2, <3>3, RevFacts DEF Links, Link, InStep, Wins, Yields, d
    <3> QED BY <3>1, <3>2, <3>3
  <2> QED BY <2>6
<1> QED BY <1>4, <1>5, EndFacts DEF c

(* A Player keeps its connection while the end that serves it is up.       *)
LEMMA ServesSame ==
  ASSUME PeerInv, Links, NEW e \in Ends, NEW p, at' = [at EXCEPT ![e] = p],
         conn' = conn, at[e] \in Up => p \in Up
  PROVE  \A q \in Pairs : ServesConn(q)'
<1>1. \A x \in Conns : (Dl(x) \in Up => Dl(x)' \in Up) /\ (Ac(x) \in Up => Ac(x)' \in Up)
  BY EndFacts, ZenonT(30) DEF PeerInv, PeerTypes, Dl, Ac
<1> QED BY <1>1 DEF Links, ServesConn

(* connectPlayer fails: the other end has closed the connection.           *)
LEMMA connectFailsLinks ==
  ASSUME PeerInv, Calm, Links, NEW e \in Ends, connectFails(e)
  PROVE  Links'
<1>1. Dead(e[1])
  BY ZenonT(30) DEF connectFails, Calm
<1>2. /\ UNCHANGED <<conn, gen, answered, obj, backlog>> /\ at[e] = "wait"
      /\ closed' = closed \cup {e} /\ at' = [at EXCEPT ![e] = "done"]
  BY DEF connectFails, Fail, Goto, hostVars
<1>3. \A x \in Conns : Link(x)'
  BY <1>1, <1>2, FailLinks, ZenonT(30)
<1>4. \A q \in Pairs : ServesConn(q)'
  BY <1>2, ServesSame, ZenonT(30) DEF Up
<1> QED BY <1>2, <1>3, <1>4 DEF Links

(* An end that finds the player connected gives way, if the host is to:    *)
(* its connection is the weak one and the other has been answered.         *)
LEMMA RefusedIsWeak ==
  ASSUME PeerInv, Links, NEW e \in Ends, at[e] = "lock", Refuse(e, 1)
  PROVE  ~ Strong(e[1]) /\ Rev(e[1]) \in answered
<1> DEFINE c == e[1]
<1>1. c \in Conns /\ c.from \in Nat /\ c.to \in Nat /\ c.from # c.to
  BY EndFacts, PeerAssumption
<1>2. CASE e = <<c, c.from>>
  <2>1. Own(e) = c.from /\ Other(e) = c.to /\ Pair(e) = <<c.from, c.to>>
    BY <1>1, <1>2 DEF Own, Other, Pair
  <2>2. ~ Strong(c) /\ conn[<<c.from, c.to>>][1] # Nil
    BY <1>1, <2>1 DEF Refuse, Strong
  <2>3. Dl(c) = "lock"
    BY <1>2 DEF Dl
  <2> HIDE DEF c
  <2>4. Rev(c) \in Conns /\ Ac(Rev(c)) \in Up
    BY <1>1, <2>2, <2>3, OtherConn, ZenonT(30) DEF Up
  <2>5. Rev(c) \in answered
    BY <2>4, ZenonT(30) DEF Links, Link, InStep, Up
  <2> QED BY <2>2, <2>5 DEF c
<1>3. CASE e = <<c, c.to>>
  <2>1. Own(e) = c.to /\ Other(e) = c.from /\ Pair(e) = <<c.to, c.from>>
    BY <1>1, <1>3 DEF Own, Other, Pair
  <2>2. ~ Strong(c) /\ conn[<<c.to, c.from>>][1] # Nil
    BY <1>1, <2>1 DEF Refuse, Strong
  <2>3. Ac(c) = "lock"
    BY <1>3 DEF Ac
  <2> HIDE DEF c
  <2>4. Rev(c) \in Conns /\ Dl(Rev(c)) \in Up
    BY <1>1, <2>2, <2>3, OtherConn, ZenonT(30) DEF Up
  <2>5. Rev(c) \in answered
    BY <2>4, ZenonT(30) DEF Links, Link, InStep, Up
  <2> QED BY <2>2, <2>5 DEF c
<1> QED BY <1>2, <1>3, EndFacts

(* An end that goes on closes the other connection only if its own is the  *)
(* strong one.                                                             *)
LEMMA ProceedCloses ==
  ASSUME PeerInv, Links, NEW e \in Ends, at[e] = "lock", ~ Refuse(e, 1),
         closed' = closed \cup ({<<conn[Pair(e)][1], Own(e)>>} \cap Ends)
  PROVE  \/ closed' = closed
         \/ /\ Strong(e[1]) /\ Rev(e[1]) \in Conns /\ Dl(Rev(e[1])) # "none"
            /\ \A x : Dead(x)' <=> Dead(x) \/ x = Rev(e[1])
<1> DEFINE c == e[1]
           k == conn[Pair(e)][1]
<1>1. c \in Conns /\ c.from \in Nat /\ c.to \in Nat /\ c.from # c.to
  BY EndFacts, PeerAssumption
<1>2. CASE k = Nil
  <2>1. <<Nil, Own(e)>> \notin Ends
    BY EndFacts, PeerAssumption
  <2> QED BY <1>2, <2>1
<1>3. CASE k # Nil
  <2>1. \/ e = <<c, c.from>> /\ Own(e) = c.from /\ Other(e) = c.to
        \/ e = <<c, c.to>> /\ Own(e) = c.to /\ Other(e) = c.from
    BY <1>1, EndFacts DEF Own, Other
  <2>2. Strong(c)
    BY <1>1, <1>3, <2>1 DEF Refuse, Strong
  <2>3. k = Rev(c) /\ Rev(c) \in Conns /\ Dl(Rev(c)) # "none"
    <3>1. CASE e = <<c, c.from>> /\ Own(e) = c.from /\ Other(e) = c.to
      <4>1. Dl(c) = "lock" /\ k = conn[<<c.from, c.to>>][1]
        BY <3>1 DEF Dl, Pair
      <4> HIDE DEF c, k
      <4>2. k = Rev(c) /\ Rev(c) \in Conns /\ Ac(Rev(c)) \in Up
        BY <1>1, <1>3, <4>1, OtherConn, ZenonT(30) DEF Up
      <4> QED BY <4>2, ZenonT(30) DEF Links, Link, InStep, Up
    <3>2. CASE e = <<c, c.to>> /\ Own(e) = c.to /\ Other(e) = c.from
      <4>1. Ac(c) = "lock" /\ k = conn[<<c.to, c.from>>][1]
        BY <3>2 DEF Ac, Pair
      <4> HIDE DEF c, k
      <4>2. k = Rev(c) /\ Rev(c) \in Conns /\ Dl(Rev(c)) \in Up
        BY <1>1, <1>3, <4>1, OtherConn, ZenonT(30) DEF Up
      <4> QED BY <4>2 DEF Up
    <3> QED BY <2>1, <3>1, <3>2
  <2>4. <<k, Own(e)>> \in Ends
    <3>1. Rev(c).from = c.to /\ Rev(c).to = c.from
      BY <1>1, RevFacts
    <3>2. <<Rev(c), Rev(c).from>> \in Ends /\ <<Rev(c), Rev(c).to>> \in Ends
      BY <2>3, EndFacts, ZenonT(30)
    <3> HIDE DEF c, k
    <3> QED BY <2>1, <2>3, <3>1, <3>2, ZenonT(30)
  <2>5. closed' = closed \cup {<<k, Own(e)>>}
    BY <2>4
  <2>6. \A x : Dead(x)' <=> Dead(x) \/ x = k
    <3> DEFINE f == <<k, Own(e)>>
    <3>1. f[1] = k
      OBVIOUS
    <3> HIDE DEF f
    <3>2. \A x : Dead(x)' <=> Dead(x) \/ x = f[1]
      BY <2>5, Closes, ZenonT(30) DEF f
    <3> QED BY <3>1, <3>2
  <2> QED BY <2>2, <2>3, <2>6, ZenonT(30)
<1> QED BY <1>2, <1>3, ZenonT(30)

(* Proceed keeps every connection in step.                                 *)
LEMMA ProceedLinks ==
  ASSUME PeerInv, Links, NEW e \in Ends, at[e] = "lock", Proceed(e, 1),
         ~ Refuse(e, 1), UNCHANGED <<conn, gen, backlog>>,
         answered' = answered \cup {e[1]}
  PROVE  Links'
<1> DEFINE c == e[1]
           d == Rev(c)
<1>1. at' = [at EXCEPT ![e] = "set"] /\ obj' = [obj EXCEPT ![e] = 1]
  BY DEF Proceed, Goto
<1>2. c \in Conns /\ Rev(d) = c /\ d # c /\ (Strong(d) <=> ~ Strong(c))
  BY EndFacts, RevFacts
<1>3. /\ \A x \in Conns : x # d => (Dead(x)' <=> Dead(x))
      /\ \/ Dead(d)' <=> Dead(d)
         \/ Strong(c) /\ Dl(d) # "none" /\ Dead(d)'
  <2>1. \/ closed' = closed
        \/ /\ Strong(c) /\ d \in Conns /\ Dl(d) # "none"
           /\ \A x : Dead(x)' <=> Dead(x) \/ x = d
    BY ProceedCloses, ZenonT(30) DEF Proceed
  <2> HIDE DEF c, d
  <2>2. CASE closed' = closed
    BY <2>2 DEF Dead
  <2> QED BY <2>1, <2>2
<1>4. \A x \in Conns : Known(x)' <=> Known(x)
  BY ZenonT(30) DEF Known
<1>5. e = <<c, c.from>> \/ e = <<c, c.to>>
  BY EndFacts
<1>6. answered' = answered \cup {c}
  OBVIOUS
<1> HIDE DEF c, d
<1>7. ASSUME NEW x \in Conns PROVE Link(x)'
  <2>1. \/ /\ Dl(c) = "lock" /\ c \in answered
           /\ \A y \in Conns : Dl(y)' = (IF y = c THEN "set" ELSE Dl(y)) /\ Ac(y)' = Ac(y)
        \/ /\ Ac(c) = "lock"
           /\ \A y \in Conns : Dl(y)' = Dl(y) /\ Ac(y)' = (IF y = c THEN "set" ELSE Ac(y))
    <3>1. CASE e = <<c, c.from>>
      <4>1. Dl(c) = "lock"
        BY <3>1 DEF Dl
      <4>2. c \in answered
        BY <1>2, <4>1 DEF Links, Link, InStep
      <4> QED BY <1>1, <1>2, <3>1, <4>1, <4>2, DialEndMoves, ZenonT(30)
    <3>2. CASE e = <<c, c.to>>
      <4>1. Ac(c) = "lock"
        BY <3>2 DEF Ac
      <4> QED BY <1>1, <1>2, <3>2, <4>1, AcceptEndMoves, ZenonT(30)
    <3> QED BY <1>5, <3>1, <3>2
  <2>2. CASE x = c
    <3>1. InStep(c)'
      BY <1>2, <1>3, <1>4, <1>6, <2>1, ZenonT(30) DEF Links, Link, InStep
    <3>2. ASSUME Strong(c) PROVE Wins(c)'
      <4>1. ~ Dead(c) /\ Dl(c) # "done"
        BY <1>2, <2>1, <3>2, ZenonT(30) DEF Links, Link, InStep, Wins
      <4> QED BY <1>2, <1>3, <2>1, <4>1, ZenonT(30) DEF Wins
    <3>3. ASSUME ~ Strong(c) PROVE Yields(c)'
      BY <1>2, <1>3, <1>6, <2>1, <3>3, ZenonT(30) DEF Links, Link, InStep, Yields
    <3> QED BY <2>2, <3>1, <3>2, <3>3 DEF Link, Strong
  <2>3. CASE x = d
    <3>1. InStep(d)'
      BY <1>2, <1>3, <1>4, <1>6, <2>1, <2>3, ZenonT(30) DEF Links, Link, InStep
    <3>2. ASSUME Strong(d) PROVE Wins(d)'
      BY <1>2, <1>3, <1>6, <2>1, <2>3, <3>2, ZenonT(30) DEF Links, Link, Wins
    <3>3. ASSUME ~ Strong(d) PROVE Yields(d)'
      BY <1>2, <1>6 DEF Yields
    <3> QED BY <2>3, <3>1, <3>2, <3>3 DEF Link, Strong
  <2>4. CASE x # c /\ x # d
    <3>1. Rev(x) # c /\ Rev(x) # d
      BY <1>2, <2>4, RevFacts, ZenonT(30) DEF d
    <3>2. /\ Dl(x)' = Dl(x) /\ Ac(x)' = Ac(x) /\ (Dead(x)' <=> Dead(x)) /\ (Known(x)' <=> Known(x))
          /\ Rev(x) \in Conns => /\ Dl(Rev(x))' = Dl(Rev(x))
                                 /\ Dead(Rev(x))' <=> Dead(Rev(x))
          /\ \A y \in {x, Rev(x)} : y \in answered' <=> y \in answered
      BY <1>3, <1>4, <1>6, <2>1, <2>4, <3>1, ZenonT(30)
    <3>3. InStep(x)'
      BY <3>2, ZenonT(30) DEF Links, Link, InStep
    <3>4. ASSUME Strong(x) PROVE Wins(x)'
      BY <3>2, <3>4, ZenonT(30) DEF Links, Link, Wins
    <3>5. ASSUME ~ Strong(x) PROVE Yields(x)'
      BY <3>2, <3>5, ZenonT(30) DEF Links, Link, Yields
    <3> QED BY <3>3, <3>4, <3>5 DEF Link, Strong
  <2> QED BY <2>2, <2>3, <2>4
<1>8. \A q \in Pairs : ServesConn(q)'
  BY <1>1, ServesSame, ZenonT(30) DEF Up
<1>9. \A f \in Ends : obj'[f] <= 1
  BY <1>1 DEF Links, PeerInv, PeerTypes
<1> QED BY <1>7, <1>8, <1>9, ZenonT(30) DEF Links

(* Accept.                                                                 *)
LEMMA AcceptLinks ==
  ASSUME PeerInv, Calm, Links, NEW e \in Ends, Accept(e)
  PROVE  Links'
<1> DEFINE c == e[1]
<1>1. /\ UNCHANGED <<conn, gen, backlog>> /\ at[e] = "lock"
      /\ Own(e) = c.to /\ c \in Conns /\ e = <<c, c.to>>
  BY EndFacts DEF Accept, hostVars, Own
<1>2. Pair(e) = <<c.to, c.from>>
  BY <1>1, EndFacts DEF Pair, Own, Other
<1>3. peer[Pair(e)] \in {0, 1} /\ gen[Pair(e)] = peer[Pair(e)]
  BY OnePlayer, EndFacts
<1>4. peer[Pair(e)] = 0 => ~ Known(Rev(c))
  BY <1>1, <1>2, <1>3, RevFacts DEF Known
<1>5. CASE Fail(e) /\ UNCHANGED <<obj, answered>>
           /\ (peer[Pair(e)] = 0 \/ Refuse(e, 1) \/ Dead(c))
  <2>1. closed' = closed \cup {e} /\ at' = [at EXCEPT ![e] = "done"]
    BY <1>5 DEF Fail, Goto
  <2>2. \/ ~ Strong(c) /\ Rev(c) \in answered
        \/ Dead(c) \/ ~ Known(Rev(c))
    BY <1>1, <1>4, <1>5, RefusedIsWeak
  <2>3. \A x \in Conns : Link(x)'
    BY <1>1, <1>5, <2>1, <2>2, FailLinks, ZenonT(30)
  <2>4. \A q \in Pairs : ServesConn(q)'
    BY <1>1, <2>1, ServesSame, ZenonT(30) DEF Up
  <2> QED BY <1>5, <2>3, <2>4 DEF Links
<1>6. CASE Proceed(e, 1) /\ ~ Refuse(e, 1) /\ answered' = answered \cup {c}
  BY <1>1, <1>6, ProceedLinks
<1> QED BY <1>3, <1>5, <1>6 DEF Accept

(* Dial goes on when it is answered.                                       *)
LEMMA DialAnsweredLinks ==
  ASSUME PeerInv, Links, NEW e \in Ends, DialAnswered(e)
  PROVE  Links'
<1> DEFINE c == e[1]
<1>1. /\ UNCHANGED <<conn, gen, backlog, answered>> /\ at[e] = "lock"
      /\ Own(e) = c.from /\ c \in Conns /\ e = <<c, c.from>>
  BY EndFacts DEF DialAnswered, hostVars, Own
<1>2. Dl(c) = "lock"
  BY <1>1 DEF Dl
<1>3. c \in answered
  BY <1>1, <1>2 DEF Links, Link, InStep
<1>4. obj[e] = 1
  <2>1. obj[e] # 0
    BY <1>1, <1>2 DEF PeerInv, KnowsPlayer
  <2>2. obj[e] \in Nat /\ obj[e] <= 1
    BY DEF Links, PeerInv, PeerTypes
  <2> QED BY <2>1, <2>2
<1>5. CASE Refuse(e, 1) /\ Fail(e) /\ UNCHANGED obj
  <2>1. closed' = closed \cup {e} /\ at' = [at EXCEPT ![e] = "done"]
    BY <1>5 DEF Fail, Goto
  <2>2. ~ Strong(c) /\ Rev(c) \in answered
    BY <1>1, <1>5, RefusedIsWeak
  <2>3. \A x \in Conns : Link(x)'
    BY <1>1, <1>5, <2>1, <2>2, FailLinks, ZenonT(30)
  <2>4. \A q \in Pairs : ServesConn(q)'
    BY <1>1, <2>1, ServesSame, ZenonT(30) DEF Up
  <2> QED BY <1>5, <2>3, <2>4 DEF Links
<1>6. CASE ~ Refuse(e, 1) /\ Proceed(e, 1)
  <2>1. answered' = answered \cup {c}
    BY <1>1, <1>3
  <2> QED BY <1>1, <1>6, <2>1, ProceedLinks
<1> QED BY <1>4, <1>5, <1>6, ZenonT(30) DEF DialAnswered

(* SetConn and RunStart: a connection goes into use.                       *)
LEMMA UseLinks ==
  ASSUME PeerInv, Links, NEW e \in Ends, NEW p \in {"start", "run"},
         at' = [at EXCEPT ![e] = p], at[e] \in {"set", "start"},
         UNCHANGED <<gen, backlog, obj, closed, answered>>
  PROVE  \A x \in Conns : Link(x)'
<1>1. \A x \in Conns : /\ Dl(x)' = Dl(x) \/ (Dl(x) \in {"set", "start"} /\ Dl(x)' = p)
                       /\ Ac(x)' = Ac(x) \/ (Ac(x) \in {"set", "start"} /\ Ac(x)' = p)
  BY EndFacts, ZenonT(30) DEF PeerInv, PeerTypes, Dl, Ac
<1>2. \A x \in Conns : (Dead(x)' <=> Dead(x)) /\ (Known(x)' <=> Known(x))
  BY DEF Dead, Known
<1> QED BY <1>1, <1>2 DEF Links, Link, InStep, Wins, Yields

LEMMA SetConnLinks ==
  ASSUME PeerInv, Links, NEW e \in Ends, SetConn(e)
  PROVE  Links'
<1> DEFINE c == e[1]
<1>1. /\ UNCHANGED <<gen, backlog, obj, closed, answered>> /\ at[e] = "set"
      /\ at' = [at EXCEPT ![e] = "start"]
      /\ conn' = [conn EXCEPT ![Pair(e)][obj[e]] = c]
  BY DEF SetConn, Goto
<1>2. obj[e] = 1 /\ 1 \in Gens
  <2>1. obj[e] \in Nat /\ obj[e] <= 1 /\ obj[e] <= MaxGen
    BY DEF Links, PeerInv, PeerTypes
  <2>2. obj[e] # 0
    BY <1>1 DEF PeerInv, KnowsPlayer
  <2> QED BY <2>1, <2>2, PeerAssumption DEF Gens
<1>3. c \in Conns /\ Pair(e) \in Pairs
      /\ \/ /\ e = <<c, c.from>> /\ Pair(e) = <<c.from, c.to>>
         \/ /\ e = <<c, c.to>> /\ Pair(e) = <<c.to, c.from>>
  BY EndFacts DEF Pair, Own, Other
<1>4. \A x \in Conns : Link(x)'
  BY <1>1, UseLinks, ZenonT(30)
<1>5. \A q \in Pairs : conn'[q][1] = IF q = Pair(e) THEN c ELSE conn[q][1]
  BY <1>1, <1>2 DEF PeerInv, PeerTypes
<1>6. \A x \in Conns : (Dl(x) \in Up => Dl(x)' \in Up) /\ (Ac(x) \in Up => Ac(x)' \in Up)
  BY <1>1, EndFacts, ZenonT(30) DEF PeerInv, PeerTypes, Dl, Ac, Up
<1>7. \/ Pair(e) = <<c.from, c.to>> /\ Dl(c)' \in Up
      \/ Pair(e) = <<c.to, c.from>> /\ Ac(c)' \in Up
  BY <1>1, <1>3, ZenonT(30) DEF PeerInv, PeerTypes, Dl, Ac, Up
<1> HIDE DEF c
<1>8. ASSUME NEW q \in Pairs PROVE ServesConn(q)'
  <2>1. CASE q = Pair(e)
    <3>1. conn'[q][1] = c
      BY <1>5, <2>1
    <3> QED BY <1>3, <1>7, <2>1, <3>1 DEF ServesConn
  <2>2. CASE q # Pair(e)
    <3>1. conn'[q][1] = conn[q][1]
      BY <1>5, <2>2
    <3> QED BY <1>6, <3>1, ZenonT(30) DEF Links, ServesConn
  <2> QED BY <2>1, <2>2
<1> QED BY <1>1, <1>4, <1>8 DEF Links

LEMMA RunStartLinks ==
  ASSUME PeerInv, Links, NEW e \in Ends, RunStart(e)
  PROVE  Links'
<1>1. /\ UNCHANGED <<gen, conn, backlog, obj, closed, answered>> /\ at[e] = "start"
      /\ at' = [at EXCEPT ![e] = "run"]
  BY DEF RunStart, Goto
<1>2. \A x \in Conns : Link(x)'
  BY <1>1, UseLinks, ZenonT(30)
<1>3. \A q \in Pairs : ServesConn(q)'
  BY <1>1, ServesSame, ZenonT(30) DEF Up
<1> QED BY <1>1, <1>2, <1>3 DEF Links

(* A Run ends when the connection is closed, which is then the weak one.   *)
LEMMA RunStopLinks ==
  ASSUME PeerInv, Calm, Links, NEW e \in Ends, RunStop(e)
  PROVE  Links'
<1> DEFINE c == e[1]
           d == Rev(c)
<1>1. Dead(c)
  BY ZenonT(30) DEF RunStop, Calm
<1>2. /\ UNCHANGED <<gen, conn, backlog, obj, closed, answered>> /\ at[e] = "run"
      /\ at' = [at EXCEPT ![e] = "ended"]
  BY DEF RunStop, Goto, hostVars
<1>3. /\ c \in Conns /\ (Dl(c) = "run" \/ Ac(c) = "run")
      /\ Rev(d) = c /\ d # c /\ (Strong(d) <=> ~ Strong(c))
  BY <1>2, EndFacts, RevFacts DEF Dl, Ac
<1>4. \A x \in Conns :
        /\ Dl(x)' = Dl(x) \/ (x = c /\ Dl(x) = "run" /\ Dl(x)' = "ended")
        /\ Ac(x)' = Ac(x) \/ (x = c /\ Ac(x) = "run" /\ Ac(x)' = "ended")
  BY <1>2, EndFacts, ZenonT(30) DEF PeerInv, PeerTypes, Dl, Ac
<1>5. \A x \in Conns : (Dead(x)' <=> Dead(x)) /\ (Known(x)' <=> Known(x))
  BY <1>2 DEF Dead, Known
<1> HIDE DEF c, d
<1>6. ~ Strong(c) /\ d \in answered
  BY <1>1, <1>3 DEF Links, Link, InStep, Wins, Yields, d
<1>7. ASSUME NEW x \in Conns PROVE Link(x)'
  <2>1. CASE x = c
    BY <1>1, <1>2, <1>3, <1>4, <1>5, <1>6, <2>1, ZenonT(30) DEF Links, Link, InStep, Yields,
       Strong, d
  <2>2. CASE x = d
    <3>1. ~ Dead(d) /\ Dl(d) # "done"
      BY <1>3, <1>6, <2>2, StrongStays
    <3> QED BY <1>2, <1>3, <1>4, <1>5, <1>6, <2>2, <3>1, ZenonT(30) DEF Links, Link, InStep,
               Wins, Strong
  <2>3. CASE x # c /\ x # d
    <3>1. Rev(x) # c
      BY <1>3, <2>3, RevFacts DEF d
    <3> QED BY <1>2, <1>4, <1>5, <2>3, <3>1 DEF Links, Link, InStep, Wins, Yields
  <2> QED BY <2>1, <2>2, <2>3
<1>8. \A q \in Pairs : ServesConn(q)'
  BY <1>2, ServesSame, ZenonT(30) DEF Up
<1> QED BY <1>2, <1>7, <1>8 DEF Links

(* disconnectPlayer clears the connection of the Player if it is this one. *)
LEMMA disconnectLinks ==
  ASSUME PeerInv, Links, NEW e \in Ends, disconnectPlayer(e)
  PROVE  Links'
<1> DEFINE c == e[1]
           q == Pair(e)
<1>1. /\ UNCHANGED <<gen, backlog, obj, answered>> /\ at[e] = "ended"
      /\ closed' = closed \cup {e} /\ at' = [at EXCEPT ![e] = "done"]
      /\ conn' = [conn EXCEPT ![q][obj[e]] =
                        IF conn[q][obj[e]] = c THEN Nil ELSE @]
  BY DEF disconnectPlayer, Goto
<1>2. obj[e] = 1 /\ 1 \in Gens
  <2>1. obj[e] \in Nat /\ obj[e] <= 1 /\ obj[e] <= MaxGen
    BY DEF Links, PeerInv, PeerTypes
  <2>2. obj[e] # 0
    BY <1>1 DEF PeerInv, KnowsPlayer
  <2> QED BY <2>1, <2>2, PeerAssumption DEF Gens
<1>3. /\ c \in Conns /\ q \in Pairs
      /\ \/ e = <<c, c.from>> /\ q = <<c.from, c.to>>
         \/ e = <<c, c.to>> /\ q = <<c.to, c.from>>
  BY EndFacts DEF Pair, Own, Other
<1>4. \A r \in Pairs : conn'[r][1] = IF r = q /\ conn[q][1] = c THEN Nil
                                     ELSE conn[r][1]
  BY <1>1, <1>2 DEF PeerInv, PeerTypes
<1>5. Dead(c)
  <2>1. Dl(c) = "ended" \/ Ac(c) = "ended"
    BY <1>1, <1>3 DEF Dl, Ac
  <2> HIDE DEF c
  <2> QED BY <1>3, <2>1, ZenonT(30) DEF Links, Link, InStep
<1>6. \A x \in Conns : /\ <<x, x.from>> # e => Dl(x)' = Dl(x)
                       /\ <<x, x.to>> # e => Ac(x)' = Ac(x)
  BY <1>1, EndFacts, ZenonT(30) DEF PeerInv, PeerTypes, Dl, Ac
<1>7. ASSUME NEW r \in Pairs PROVE ServesConn(r)'
  <2>0. PICK k : k = conn[r][1]
    OBVIOUS
  <2>1. r = <<r[1], r[2]>>
    BY DEF Pairs
  <2>2. CASE r = q /\ k = c
    <3>1. conn'[r][1] = Nil
      BY <1>4, <2>0, <2>2
    <3> QED BY <3>1 DEF ServesConn
  <2>3. CASE ~ (r = q /\ k = c)
    <3>1. conn'[r][1] = k
      BY <1>4, <2>0, <2>3
    <3>2. k # Nil => /\ k \in Conns
                     /\ \/ k.from = r[1] /\ k.to = r[2] /\ Dl(k) \in Up
                        \/ k.from = r[2] /\ k.to = r[1] /\ Ac(k) \in Up
      BY <2>0 DEF Links, ServesConn
    <3>3. <<k, k.from>> = e /\ k.from = r[1] /\ k.to = r[2] /\ k \in Conns => r = q /\ k = c
      BY <1>3, <2>1, EndFacts
    <3>4. <<k, k.to>> = e /\ k.from = r[2] /\ k.to = r[1] /\ k \in Conns => r = q /\ k = c
      BY <1>3, <2>1, EndFacts
    <3> HIDE DEF c, q
    <3>5. k # Nil => /\ k \in Conns
                     /\ \/ k.from = r[1] /\ k.to = r[2] /\ Dl(k)' \in Up
                        \/ k.from = r[2] /\ k.to = r[1] /\ Ac(k)' \in Up
      BY <1>6, <2>3, <3>2, <3>3, <3>4
    <3> QED BY <3>1, <3>5 DEF ServesConn
  <2> QED BY <2>2, <2>3
<1>8. \A x \in Conns : Link(x)'
  BY <1>1, <1>5, FailLinks, ZenonT(30)
<1> QED BY <1>1, <1>7, <1>8 DEF Links

LEMMA EndLinks ==
  ASSUME PeerInv, Calm, Links, NEW e \in Ends,
         EndStep(e) \/ connectFails(e) \/ RunStop(e)
  PROVE  Links'
BY connectLinks, connectFailsLinks, AcceptLinks, DialAnsweredLinks, SetConnLinks, RunStartLinks,
   RunStopLinks, disconnectLinks DEF EndStep

(* As long as all is calm, the connections keep in step.                   *)
LEMMA LinksInit == Init => Links
<1> SUFFICES ASSUME Init PROVE Links
  OBVIOUS
<1>1. \A x \in Conns : Dl(x) = "none" /\ Ac(x) = "none" /\ ~ Dead(x)
  BY EndFacts, ZenonT(30) DEF Init, Dl, Ac, Dead
<1>2. backlog = {} /\ answered = {}
  BY DEF Init
<1>3. \A x \in Conns : Link(x)
  BY <1>1, <1>2 DEF Link, InStep, Wins, Yields
<1>4. \A q \in Pairs : ServesConn(q)
  <2>1. 1 \in Gens
    BY PeerAssumption DEF Gens
  <2> QED BY <2>1 DEF Init, ServesConn
<1>5. \A e \in Ends : obj[e] <= 1
  BY DEF Init
<1> QED BY <1>3, <1>4, <1>5 DEF Links

LEMMA LinksStep ==
  ASSUME PeerInv, Calm => Links, Next, Calm'
  PROVE  Links'
<1>1. /\ Calm /\ Links
      /\ \A q \in Pairs : ~ Deregister(q)
      /\ \A h \in Hosts : ~ CloseListener(h) /\ ~ ClosePeers(h)
  BY CalmBefore
<1> QED BY <1>1, RegisterLinks, DialLinks, DialRefusedLinks, AcceptTCPLinks, EndLinks DEF Next

(* Links holds as long as there are no faults and nobody leaves.           *)
LEMMA LinksAlways == Spec => [](PeerInv /\ (Calm => Links))
<1> DEFINE Inv == Calm => Links
<1>1. Init => Inv
  BY LinksInit
<1>2. PeerInv /\ Inv /\ [Next]_vars => Inv'
  <2> SUFFICES ASSUME PeerInv, Inv, [Next]_vars, Calm'
               PROVE  Links'
    OBVIOUS
  <2>1. CASE Next
    BY <2>1, LinksStep
  <2>2. CASE UNCHANGED vars
    <3>1. /\ UNCHANGED <<peer, gen, conn, pmut, listening, backlog, at, obj, closed, answered>>
          /\ UNCHANGED faulty
      BY <2>2, ZenonT(30) DEF vars, hostVars
    <3>2. Calm
      <4>1. ~ faulty /\ listening = Hosts
        BY <3>1, ZenonT(30) DEF Calm
      <4>2. \A q \in Pairs : gen[q] <= 1 /\ peer[q] = gen[q]
        BY <3>1 DEF Calm
      <4> QED BY <4>1, <4>2 DEF Calm
    <3>3. \A x \in Conns : /\ Dl(x)' = Dl(x) /\ Ac(x)' = Ac(x)
                           /\ (Dead(x)' <=> Dead(x)) /\ (Known(x)' <=> Known(x))
      BY <3>1 DEF Dl, Ac, Dead, Known
    <3>4. \A x \in Conns : Link(x)'
      BY <3>1, <3>2, <3>3 DEF Links, Link, InStep, Wins, Yields
    <3>5. \A q \in Pairs : ServesConn(q)'
      BY <3>1, <3>2, <3>3, ZenonT(30) DEF Links, ServesConn
    <3> QED BY <3>1, <3>2, <3>4, <3>5 DEF Links
  <2> QED BY <2>1, <2>2
<1> QED BY <1>1, <1>2, PeerAlways, PTL DEF Spec

(* The connection that is left of two when both Dials have returned: its   *)
(* ends are not given up, and the dialling one runs.                       *)
Stays(s) ==
  /\ s \in Conns /\ ~ Dead(s)
  /\ Dl(s) = "run" /\ Ac(s) \in {"set", "start", "run"}

LEMMA OneStays ==
  ASSUME PeerInv, Links, NEW c \in Conns, Rev(c) \in Conns,
         \A x \in Conns : Dl(x) \in {"run", "ended", "done"}
  PROVE  Stays(c) \/ Stays(Rev(c))
<1>1. ASSUME NEW s \in Conns, Strong(s), Rev(s) \in Conns
      PROVE  Stays(s) \/ Stays(Rev(s))
  <2>1. CASE s \in answered
    BY <1>1, <2>1 DEF Links, Link, InStep, Wins, Stays
  <2>2. CASE s \notin answered
    <3>1. Dl(s) = "done"
      BY <2>2 DEF Links, Link, InStep
    <3>2. ~ Dead(Rev(s)) /\ Dl(Rev(s)) = "run"
      BY <1>1, <3>1 DEF Links, Link, Wins
    <3> QED BY <1>1, <3>2 DEF Links, Link, InStep, Stays
  <2> QED BY <2>1, <2>2
<1>2. CASE Strong(c)
  BY <1>1, <1>2
<1>3. CASE ~ Strong(c)
  BY <1>1, <1>3, RevFacts
<1> QED BY <1>2, <1>3

(* Both hosts use it.                                                      *)
LEMMA StaysUsed ==
  ASSUME PeerInv, Links, NEW s, Stays(s)
  PROVE  /\ conn[<<s.from, s.to>>][1] = s
         /\ pmutFree(s.to) \/ Ac(s) = "run" => conn[<<s.to, s.from>>][1] = s
<1> DEFINE f == <<s, s.from>>
           t == <<s, s.to>>
<1>1. /\ s \in Conns /\ f \in Ends /\ t \in Ends
      /\ Pair(f) = <<s.from, s.to>> /\ Pair(t) = <<s.to, s.from>>
      /\ f[1] = s /\ t[1] = s /\ Own(t) = s.to /\ s # Nil
  BY EndFacts, PeerAssumption, ZenonT(30) DEF Stays, Pair, Own, Other
<1>2. at[f] = "run" /\ at[t] \in {"set", "start", "run"}
  BY DEF Stays, Dl, Ac
<1> HIDE DEF f, t
<1>3. obj[f] = 1 /\ obj[t] = 1
  <2>1. obj[f] \in Nat /\ obj[f] <= 1 /\ obj[t] \in Nat /\ obj[t] <= 1
    BY <1>1 DEF Links, PeerInv, PeerTypes
  <2>2. obj[f] # 0 /\ obj[t] # 0
    BY <1>1, <1>2 DEF PeerInv, KnowsPlayer
  <2> QED BY <2>1, <2>2
<1>4. pmutFree(s.to) \/ Ac(s) = "run" => at[t] = "run"
  BY <1>1, <1>2 DEF PeerInv, LockedForSetup, pmutFree, Ac, t
<1> QED BY <1>1, <1>2, <1>3, <1>4 DEF PeerInv, RunsOwnConn

(* Hosts that have dialled each other are connected when their Dials have  *)
(* returned, and in the end by the same connection, for any number of      *)
(* hosts and whichever of them dial (host.go:115-294).                     *)
THEOREM DialledAreConnectedAlways == Spec => []DialledAreConnected
<1>1. PeerInv /\ (Calm => Links) => DialledAreConnected
  <2> SUFFICES ASSUME PeerInv, Calm => Links,
                      ~ faulty /\ listening = Hosts /\ \A q \in Pairs : peer[q] = 1,
                      \A x \in Conns : Dl(x) \in {"run", "ended", "done"},
                      NEW c \in Conns, \E d \in Conns : d.from = c.to /\ d.to = c.from
               PROVE  /\ pmutFree(c.from) => conn[<<c.from, c.to>>][1] # Nil
                      /\ Quiet =>
                           conn[<<c.from, c.to>>][1] = conn[<<c.to, c.from>>][1]
    BY DEF DialledAreConnected, DialledAreConnected, Dl
  <2>1. Links
    <3>1. \A q \in Pairs : gen[q] = 1
      BY DEF PeerInv, KnowsPlayer
    <3>2. \A q \in Pairs : gen[q] <= 1 /\ peer[q] = gen[q]
      BY <3>1
    <3> QED BY <3>2 DEF Calm
  <2>2. Rev(c) \in Conns
    BY PeerAssumption DEF Rev
  <2>3. PICK s \in {c, Rev(c)} : Stays(s)
    BY <2>1, <2>2, OneStays
  <2>4. /\ conn[<<s.from, s.to>>][1] = s
        /\ pmutFree(s.to) \/ Ac(s) = "run" => conn[<<s.to, s.from>>][1] = s
    BY <2>1, <2>3, StaysUsed
  <2>5. /\ s \in Conns /\ s # Nil
        /\ \/ s.from = c.from /\ s.to = c.to
           \/ s.from = c.to /\ s.to = c.from
    BY <2>2, <2>3, RevFacts, PeerAssumption
  <2>6. pmutFree(c.from) => conn[<<c.from, c.to>>][1] # Nil
    BY <2>4, <2>5
  <2>7. ASSUME Quiet
        PROVE  conn[<<c.from, c.to>>][1] = conn[<<c.to, c.from>>][1]
    <3>1. Ac(s) = "run"
      BY <2>3, <2>5, <2>7, EndFacts, ZenonT(30) DEF Quiet, Stays, Ac
    <3> QED BY <2>4, <2>5, <3>1, ZenonT(30)
  <2> QED BY <2>6, <2>7
<1> QED BY <1>1, LinksAlways, PTL
=============================================================================
