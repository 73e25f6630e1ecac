---------------------------- MODULE NetworkProofs ----------------------------
(***************************************************************************)
(* What a packet connection keeps, for any number of goroutines that use   *)
(* it, and that RWMutex implements the readers-writer lock it relies on,   *)
(* for any number of readers and writers.  The lists of local games tell   *)
(* their user of every change, apart from the one that hides a game the    *)
(* list then asks for: for any number of games, any slots, any lifetime of *)
(* the records and any datagrams in flight.                                *)
(***************************************************************************)
EXTENDS MCLan, MCConnections, TLAPS

(* A step that names no prover is tried with SMT, Zenon and SMT again.     *)
USE SMTT(30), ZenonT(30), SMTT(60)

-----------------------------------------------------------------------------
(* A packet connection (module PacketConn).                                *)

Places == {"idle", "wait", "set", "smut", "write", "next", "read", "fire", "stop"}

(* Who writes holds smut, and Run its read lock, until it returns.         *)
ConnInv ==
  /\ doing \in [Conn!Goroutines -> Places]
  /\ writer # {} => readers = {}
  /\ \A g \in Conn!Goroutines : doing[g] = "write" => smut = g /\ buf = g
  /\ doing[Runner] # "idle" => <<Runner, "run">> \in readers /\ netConn = runConn

(* The facts about the goroutines that every step needs.                   *)
LEMMA RunnerApart ==
  /\ Runner \in Conn!Goroutines /\ Senders \subseteq Conn!Goroutines
  /\ Setters \subseteq Conn!Goroutines /\ Nil \notin Conn!Goroutines
  /\ \A g \in Setters : g # Runner
  /\ \A g : <<g, "send">> # <<Runner, "run">> /\ <<g, "next">> # <<Runner, "run">>
BY ConnAssumption DEF Conn!Goroutines

(* Nobody has called anything yet.                                         *)
LEMMA ConnInit == Conn!Init => ConnInv
BY RunnerApart DEF Conn!Init, Conn!cmut!Init, ConnInv, Places

(* A call of Close, or of SetConn.                                         *)
LEMMA SetConnKeeps ==
  ASSUME ConnInv,
         \/ Conn!Close
         \/ \E g \in Setters : \/ \E c \in NetConns \cup {Nil} : Conn!SetConn(g, c)
                             \/ Conn!SetConnLock(g) \/ Conn!SetConnUnlock(g)
  PROVE  ConnInv'
<1>1. CASE Conn!Close
  BY <1>1 DEF ConnInv, Conn!Close, Conn!lockVars, Conn!sendVars
<1>2. ASSUME NEW g \in Setters, NEW c \in NetConns \cup {Nil}, Conn!SetConn(g, c)
      PROVE  ConnInv'
  BY <1>2, RunnerApart DEF ConnInv, Conn!SetConn, Conn!Goto, Conn!lockVars, Conn!sendVars, Places
<1>3. ASSUME NEW g \in Setters, Conn!SetConnLock(g)
      PROVE  ConnInv'
  BY <1>3, RunnerApart DEF ConnInv, Conn!SetConnLock, Conn!Goto, Conn!cmut!Lock, Conn!connVars,
                           Conn!sendVars, Places
<1>4. ASSUME NEW g \in Setters, Conn!SetConnUnlock(g)
      PROVE  ConnInv'
  <2>1. readers = {} /\ doing[Runner] = "idle"
    BY <1>4 DEF ConnInv, Conn!SetConnUnlock, Conn!cmut!Unlock
  <2> QED BY <1>4, <2>1, RunnerApart DEF ConnInv, Conn!SetConnUnlock, Conn!Goto, Conn!cmut!Unlock,
                                         Conn!sendVars, Places
<1> QED BY <1>1, <1>2, <1>3, <1>4

(* A step of Send.                                                         *)
LEMMA SendKeeps ==
  ASSUME ConnInv, NEW g \in Senders \cup {Runner}, Conn!Send(g) \/ Conn!SendStep(g)
  PROVE  ConnInv'
<1> USE RunnerApart
<1>1. CASE Conn!Send(g)
  BY <1>1 DEF ConnInv, Conn!Send, Conn!CanSend, Conn!Goto, Conn!cmut!RLock, Conn!connVars, Places
<1>2. CASE Conn!SendEncode(g)
  BY <1>2 DEF ConnInv, Conn!SendEncode, Conn!Goto, Conn!lockVars, Conn!connVars, Places
<1>3. CASE Conn!SendWrite(g)
  BY <1>3 DEF ConnInv, Conn!SendWrite, Conn!Goto, Conn!cmut!RUnlock, Conn!connVars, Places
<1> QED BY <1>1, <1>2, <1>3 DEF Conn!SendStep

(* A step of Run.                                                          *)
LEMMA RunKeeps ==
  ASSUME ConnInv, Conn!Run \/ Conn!RunStep
  PROVE  ConnInv'
<1> USE RunnerApart
<1>1. CASE Conn!Run
  BY <1>1 DEF ConnInv, Conn!Run, Conn!Goto, Conn!cmut!RLock, Conn!connVars, Conn!sendVars, Places
<1>2. CASE Conn!NextPacket
  BY <1>2 DEF ConnInv, Conn!NextPacket, Conn!Goto, Conn!cmut!RLock, Conn!connVars, Conn!sendVars,
              Conn!lockVars, Places
<1>3. CASE Conn!Read
  BY <1>3 DEF ConnInv, Conn!Read, Conn!Goto, Conn!cmut!RUnlock, Conn!connVars, Conn!sendVars,
     Places
<1>4. CASE Conn!Fire
  BY <1>4 DEF ConnInv, Conn!Fire, Conn!Goto, Conn!connVars, Conn!sendVars, Conn!lockVars, Places
<1>5. CASE Conn!Stop
  BY <1>5 DEF ConnInv, Conn!Stop, Conn!Goto, Conn!cmut!RUnlock, Conn!connVars, Conn!sendVars,
     Places
<1> QED BY <1>1, <1>2, <1>3, <1>4, <1>5 DEF Conn!RunStep

(* ConnInv holds in every state of the composed specification.             *)
LEMMA ConnAlways == MCSpec => []ConnInv
<1>1. MCInit => ConnInv
  BY ConnInit DEF MCInit
<1>2. ConnInv /\ [MCNext]_<<machine, mutexVars, connVars, vars>> => ConnInv'
  <2>1. ConnInv /\ UNCHANGED connVars => ConnInv'
    BY DEF ConnInv, connVars
  <2>2. ConnInv /\ Conn!Next => ConnInv'
    BY SetConnKeeps, SendKeeps, RunKeeps DEF Conn!Next
  <2> QED BY <2>1, <2>2 DEF MCNext
<1> QED BY <1>1, <1>2, PTL DEF MCSpec

(* The bytes a Send writes are those of its own packet, for any number of  *)
(* senders: they share the encoder, its buffer and smut (network.go).      *)
THEOREM SendsOwnPacketAlways == MCSpec => []SendsOwnPacket
<1>1. ConnInv => SendsOwnPacket
  BY RunnerApart DEF ConnInv, SendsOwnPacket, Conn!SendsOwnPacket
<1> QED BY <1>1, ConnAlways, PTL

(* From RunStart to RunStop every packet that Run hands to the handlers    *)
(* comes from one connection, whatever SetConn does meanwhile.             *)
THEOREM RunKeepsItsConn == MCSpec => []Conn!RunKeepsConn
<1>1. ConnInv => Conn!RunKeepsConn
  BY DEF ConnInv, Conn!RunKeepsConn
<1> QED BY <1>1, ConnAlways, PTL

(* What one caller of SetConn relies on: between its Close and its write   *)
(* lock, nobody gives the packet connection an open one.                   *)
ReplacesInv ==
  /\ newConn \in [Setters -> NetConns \cup {Nil}] /\ Nil \notin used
  /\ \A g \in Setters : IF doing[g] = "idle" THEN newConn[g] = Nil
                        ELSE doing[g] \in {"wait", "set"} /\ netConn \notin open
  /\ Conn!ReplacedAreClosed

(* A step of the only caller of SetConn, or of anyone else.                *)
LEMMA ReplacesKeeps ==
  ASSUME \A g, h \in Setters : g = h, ConnInv, ReplacesInv, Conn!Next
  PROVE  ReplacesInv'
<1> USE RunnerApart
<1>1. ASSUME NEW g \in Setters, NEW c \in NetConns \cup {Nil}, Conn!SetConn(g, c)
      PROVE  ReplacesInv'
  <2>1. /\ doing[g] = "idle" /\ newConn[g] = Nil /\ netConn' = netConn
        /\ newConn' = [newConn EXCEPT ![g] = c] /\ doing' = [doing EXCEPT ![g] = "wait"]
        /\ used' = used \cup ({c} \ {Nil}) /\ open' = open \ {netConn}
    BY <1>1 DEF Conn!SetConn, Conn!CloseConn, Conn!Goto, ReplacesInv
  <2> QED BY <2>1 DEF ConnInv, ReplacesInv, Conn!ReplacedAreClosed
<1>2. ASSUME NEW g \in Setters, Conn!SetConnLock(g)
      PROVE  ReplacesInv'
  BY <1>2 DEF ConnInv, ReplacesInv, Conn!ReplacedAreClosed, Conn!SetConnLock, Conn!Goto,
              Conn!connVars
<1>3. ASSUME NEW g \in Setters, Conn!SetConnUnlock(g)
      PROVE  ReplacesInv'
  <2>1. /\ doing[g] = "set" /\ netConn \notin open /\ netConn' = newConn[g]
        /\ newConn' = [newConn EXCEPT ![g] = Nil] /\ doing' = [doing EXCEPT ![g] = "idle"]
        /\ UNCHANGED <<open, used>>
    BY <1>3 DEF Conn!SetConnUnlock, Conn!Goto, ReplacesInv
  <2> QED BY <2>1 DEF ConnInv, ReplacesInv, Conn!ReplacedAreClosed
<1>4. CASE Conn!Close
  BY <1>4 DEF ReplacesInv, Conn!ReplacedAreClosed, Conn!Close, Conn!CloseConn
<1>5. ASSUME NEW g \in Senders \cup {Runner},
             Conn!Send(g) \/ Conn!SendStep(g) \/ Conn!Run \/ Conn!RunStep
      PROVE  ReplacesInv'
  <2>1. UNCHANGED <<netConn, open, used, newConn>>
    BY <1>5 DEF Conn!Send, Conn!SendStep, Conn!SendEncode, Conn!SendWrite, Conn!Run, Conn!RunStep,
                Conn!NextPacket, Conn!Read, Conn!Fire, Conn!Stop, Conn!connVars
  <2>2. \A h \in Setters : doing'[h] = doing[h]
    <3>1. PICK h \in Senders \cup {Runner}, p \in Places : doing' = [doing EXCEPT ![h] = p]
      BY <1>5 DEF Conn!Send, Conn!SendStep, Conn!SendEncode, Conn!SendWrite, Conn!Run,
                  Conn!RunStep, Conn!NextPacket, Conn!Read, Conn!Fire, Conn!Stop, Conn!Goto, Places
    <3> QED BY <3>1, ConnAssumption DEF ConnInv
  <2> QED BY <2>1, <2>2 DEF ReplacesInv, Conn!ReplacedAreClosed
<1> QED BY <1>1, <1>2, <1>3, <1>4, <1>5 DEF Conn!Next

(* "SetConn closes the old connection and starts using the new net.Conn"   *)
(* (network.go:223): if its calls do not overlap, no connection that was   *)
(* replaced stays open, whatever Run, Send and Close do meanwhile.         *)
THEOREM ReplacedAreClosedAlways ==
  ASSUME \A g, h \in Setters : g = h
  PROVE  MCSpec => []Conn!ReplacedAreClosed
<1>1. MCInit => ReplacesInv
  BY RunnerApart DEF MCInit, Conn!Init, ReplacesInv, Conn!ReplacedAreClosed
<1>2. ConnInv /\ ReplacesInv /\ [MCNext]_<<machine, mutexVars, connVars, vars>> => ReplacesInv'
  <2>1. ReplacesInv /\ UNCHANGED connVars => ReplacesInv'
    BY DEF ReplacesInv, Conn!ReplacedAreClosed, connVars
  <2> QED BY <2>1, ReplacesKeeps DEF MCNext
<1>3. ReplacesInv => Conn!ReplacedAreClosed
  BY DEF ReplacesInv
<1> QED BY <1>1, <1>2, <1>3, ConnAlways, PTL DEF MCSpec

-----------------------------------------------------------------------------
(* The lists of local games (modules LanUDP and LanMDNS).                  *)

Records == [info : BOOLEAN, slots : Slots \cup {0}, created : BOOLEAN, ttl : Nat]

Game(m) == m.type \in {"create", "refresh", "decreate", "info"} => m.game \in 1..MaxGames
SlotsOf(m) == m.type \in {"refresh", "info"} => m.slots \in Slots

(* A record without time left is absent.                                   *)
UdpInv ==
  /\ menu \subseteq Slots
  /\ hosted \in 0..MaxGames /\ last \in Nat
  /\ hosted # 0 => slots \in Slots
  /\ \A m \in net : Game(m) /\ SlotsOf(m)
  /\ games \in [1..MaxGames -> Records]
  /\ \A g \in 1..MaxGames : games[g].ttl = 0 => ~ games[g].info

(* Two lists of records that differ in nothing Games() looks at.           *)
Alike(F, G) ==
  \A g \in 1..MaxGames :
    /\ F[g].info <=> G[g].info
    /\ F[g].info => F[g].slots = G[g].slots /\ (F[g].created <=> G[g].created)

(* A step that keeps the order in which the records of the games in G were *)
(* created.                                                                *)
KeepsOrder(G) == \A g, h \in G : <<g, h>> \in before' <=> <<g, h>> \in before

(* Lists that are alike, with the same order, have the same output of      *)
(* Games().                                                                *)
LEMMA AlikeGames ==
  ASSUME UdpInv, games' \in [1..MaxGames -> Records], Alike(games, games'),
         KeepsOrder({g \in 1..MaxGames : games[g].info})
  PROVE  Udp!Games' = Udp!Games
<1>1. \A g \in 1..MaxGames : games[g] \in Records /\ games'[g] \in Records
  BY DEF UdpInv
<1>2. ASSUME NEW g \in 1..MaxGames, NEW h \in 1..MaxGames, games[g].info, games[h].info
      PROVE  Udp!Older(g, h)' <=> Udp!Older(g, h)
  <2>1. (games'[g].created <=> games[g].created) /\ (games'[h].created <=> games[h].created)
    BY <1>2, ZenonT(30) DEF Alike
  <2>2. <<g, h>> \in before' <=> <<g, h>> \in before
    BY <1>2, ZenonT(30) DEF KeepsOrder
  <2> QED BY <2>1, <2>2, ZenonT(30) DEF Udp!Older
<1>3. ASSUME NEW g \in 1..MaxGames PROVE Udp!Listed(g)' <=> Udp!Listed(g)
  BY <1>2, ZenonT(30) DEF Alike, Udp!Listed, Udp!Ids
<1>4. \A g \in 1..MaxGames : Udp!Listed(g) => games'[g].slots = games[g].slots
  BY ZenonT(30) DEF Alike, Udp!Listed
<1>5. {h \in 1..MaxGames : Udp!Listed(h)'} = {h \in 1..MaxGames : Udp!Listed(h)}
  BY <1>3, ZenonT(30)
<1> QED BY <1>4, <1>5, ZenonT(30) DEF Udp!Games, Udp!Ids

(* Sending adds at most the datagram that is sent.                         *)
LEMMA UdpSends ==
  ASSUME NEW n, NEW m, n \subseteq net, Udp!Sends(n, m)
  PROVE  \A x \in net' : x \in net \/ x = m
BY ZenonT(30) DEF Udp!Sends, Udp!Arrives

(* Receiving a datagram adds none.                                         *)
LEMMA UdpLeft ==
  ASSUME NEW m, NEW n \in Udp!Left(m)
  PROVE  n \subseteq net
BY ZenonT(30) DEF Udp!Left

(* What is in flight after a step that sends m at most.                    *)
LEMMA UdpNet ==
  ASSUME UdpInv, NEW m, Game(m), SlotsOf(m), \A x \in net' : x \in net \/ x = m
  PROVE  \A x \in net' : Game(x) /\ SlotsOf(x)
BY ZenonT(30) DEF UdpInv

(* The list is empty at first.                                             *)
LEMMA UdpInit == LanInit => UdpInv
<1> SUFFICES ASSUME LanInit PROVE UdpInv
  OBVIOUS
<1>1. menu \subseteq Slots /\ last \in Nat
  <2>1. PICK start \in {<<0, {1}>>, <<1, Slots>>} : last = start[1] /\ menu = start[2]
    BY ZenonT(30) DEF LanInit, Udp!Init
  <2> QED BY <2>1, LanAssumption
<1>2. hosted = 0 /\ net = {} /\ games = [g \in 1..MaxGames |-> Udp!Absent]
  BY ZenonT(30) DEF LanInit, Udp!Init, Udp!Ids
<1>3. Udp!Absent \in Records /\ ~ Udp!Absent.info
  BY DEF Udp!Absent, Records
<1> QED BY <1>1, <1>2, <1>3, LanAssumption DEF UdpInv

(* The steps of the advertiser.                                            *)
LEMMA AdvertiserStep ==
  ASSUME UdpInv,
         \/ \E s \in menu : Udp!Create(s) \/ Udp!Refresh(s)
         \/ Udp!refresh \/ Udp!Close \/ Udp!onSearchGame
  PROVE  UdpInv' /\ UNCHANGED <<games, before>>
<1>1. UNCHANGED <<games, before, menu>>
  BY ZenonT(30) DEF Udp!Create, Udp!Refresh, Udp!refresh, Udp!Close, Udp!onSearchGame, Udp!advVars,
               Udp!listVars
<1>2. ASSUME hosted' \in 0..MaxGames, last' \in Nat, hosted' # 0 => slots' \in Slots,
             \A m \in net' : Game(m) /\ SlotsOf(m)
      PROVE  UdpInv'
  BY <1>1, <1>2, ZenonT(30) DEF UdpInv
<1>3. /\ hosted \in 0..MaxGames /\ last \in Nat /\ (hosted # 0 => slots \in Slots)
      /\ \A m \in net : Game(m) /\ SlotsOf(m)
  BY ZenonT(30) DEF UdpInv
<1>4. ASSUME NEW s \in menu, Udp!Create(s) PROVE UdpInv'
  <2>1. last < MaxGames /\ hosted' = last + 1 /\ last' = last + 1 /\ slots' = s
    BY <1>4, ZenonT(30) DEF Udp!Create
  <2>2. last + 1 \in 1..MaxGames /\ last + 1 \in Nat /\ 1..MaxGames \subseteq 0..MaxGames
    BY <2>1, LanAssumption DEF UdpInv
  <2>3. s \in Slots
    BY ZenonT(30) DEF UdpInv
  <2>4. Game(Udp!CreateGame(last + 1)) /\ SlotsOf(Udp!CreateGame(last + 1))
    BY <2>2 DEF Game, SlotsOf, Udp!CreateGame
  <2>5. \A m \in net' : Game(m) /\ SlotsOf(m)
    BY <1>4, <2>4, UdpSends, UdpNet, ZenonT(30) DEF Udp!Create
  <2> QED BY <1>2, <2>1, <2>2, <2>3, <2>5, ZenonT(30)
<1>5. ASSUME NEW s \in Slots, hosted # 0
      PROVE  /\ Game(Udp!RefreshGame(hosted, s)) /\ SlotsOf(Udp!RefreshGame(hosted, s))
             /\ Game(Udp!GameInfo(hosted, s)) /\ SlotsOf(Udp!GameInfo(hosted, s))
  BY <1>5 DEF UdpInv, Game, SlotsOf, Udp!RefreshGame, Udp!GameInfo
<1>6. ASSUME NEW s \in menu, Udp!Refresh(s) PROVE UdpInv'
  <2>1. s \in Slots /\ hosted # 0 /\ hosted' = hosted /\ last' = last /\ slots' = s
    BY <1>6, ZenonT(30) DEF UdpInv, Udp!Refresh
  <2>2. \A m \in net' : Game(m) /\ SlotsOf(m)
    BY <1>5, <1>6, <2>1, UdpSends, UdpNet, ZenonT(30) DEF Udp!Refresh
  <2> QED BY <1>1, <1>2, <1>3, <2>1, <2>2
<1>7. CASE Udp!refresh
  <2>1. slots \in Slots /\ hosted # 0 /\ hosted' = hosted /\ last' = last /\ slots' = slots
    BY <1>7, ZenonT(30) DEF UdpInv, Udp!refresh, Udp!advVars
  <2>2. \A m \in net' : Game(m) /\ SlotsOf(m)
    BY <1>5, <1>7, <2>1, UdpSends, UdpNet, ZenonT(30) DEF Udp!refresh
  <2> QED BY <1>1, <1>2, <1>3, <2>1, <2>2
<1>8. CASE Udp!Close
  <2>1. hosted # 0 /\ hosted' = 0 /\ last' = last /\ 0 \in 0..MaxGames
    BY <1>8, LanAssumption DEF Udp!Close
  <2>2. Game(Udp!DecreateGame(hosted)) /\ SlotsOf(Udp!DecreateGame(hosted))
    BY <2>1 DEF UdpInv, Game, SlotsOf, Udp!DecreateGame
  <2>3. \A m \in net' : Game(m) /\ SlotsOf(m)
    BY <1>8, <2>2, UdpSends, UdpNet, ZenonT(30) DEF Udp!Close
  <2> QED BY <1>1, <1>2, <1>3, <2>1, <2>3
<1>9. CASE Udp!onSearchGame
  <2>1. UNCHANGED <<hosted, last, slots>>
    BY <1>9, ZenonT(30) DEF Udp!onSearchGame, Udp!advVars
  <2>2. PICK n \in Udp!Left(Udp!SearchGame) :
          IF hosted # 0 THEN Udp!Sends(n, Udp!GameInfo(hosted, slots)) ELSE net' = n
    BY <1>9, ZenonT(30) DEF Udp!onSearchGame
  <2>3. n \subseteq net
    BY UdpLeft, ZenonT(30)
  <2>4. CASE hosted # 0
    <3>1. \A m \in net' : Game(m) /\ SlotsOf(m)
      BY <1>5, <2>2, <2>3, <2>4, UdpSends, UdpNet, ZenonT(30) DEF UdpInv
    <3> QED BY <1>1, <1>2, <1>3, <2>1, <3>1
  <2>5. CASE hosted = 0
    BY <1>1, <1>2, <1>3, <2>1, <2>2, <2>3, <2>5
  <2> QED BY <2>4, <2>5
<1> QED BY <1>1, <1>4, <1>6, <1>7, <1>8, <1>9, ZenonT(30)

(* What is written about a game that is forgotten, or created again, is    *)
(* not about the others.                                                   *)
LEMMA OrderOfOthers ==
  ASSUME NEW g \in 1..MaxGames,
         \/ UNCHANGED before
         \/ before' = Udp!Without({g})
         \/ \E S, T : Udp!CreatedBetween(g, S, T)
  PROVE  KeepsOrder(1..MaxGames \ {g})
<1> SUFFICES ASSUME NEW h \in 1..MaxGames \ {g}, NEW k \in 1..MaxGames \ {g}
             PROVE  <<h, k>> \in before' <=> <<h, k>> \in before
  BY ZenonT(30) DEF KeepsOrder
<1>1. <<h, k>> \in Udp!Without({g}) <=> <<h, k>> \in before
  BY DEF Udp!Without
<1>2. ASSUME NEW S, NEW T, Udp!CreatedBetween(g, S, T)
      PROVE  <<h, k>> \in before' <=> <<h, k>> \in Udp!Without({g})
  BY <1>2 DEF Udp!CreatedBetween
<1> QED BY <1>1, <1>2, ZenonT(30)

(* A datagram that is handled has a typed game and slots; the record of    *)
(* the game is replaced and nothing else.                                  *)
LEMMA ListPut ==
  ASSUME UdpInv, NEW g \in 1..MaxGames, NEW r \in Records, r.ttl = 0 => ~ r.info,
         Udp!Put(g, r), KeepsOrder(1..MaxGames \ {g}),
         UNCHANGED <<menu, hosted, slots, last>>,
         \A m \in net' : Game(m) /\ SlotsOf(m)
  PROVE  /\ UdpInv'
         /\ (r.info <=> games[g].info)
              /\ (r.info => /\ r.slots = games[g].slots /\ (r.created <=> games[g].created)
                            /\ UNCHANGED before)
            => Udp!Games' = Udp!Games
<1>1. games' = [games EXCEPT ![g] = r] /\ games \in [1..MaxGames -> Records]
  BY ZenonT(30) DEF Udp!Put, UdpInv
<1>2. games' \in [1..MaxGames -> Records] /\ games'[g] = r
      /\ \A h \in 1..MaxGames : h # g => games'[h] = games[h]
  BY <1>1, ZenonT(30)
<1>3. UdpInv'
  BY <1>2, ZenonT(30) DEF UdpInv
<1>4. ASSUME r.info <=> games[g].info,
             r.info => /\ r.slots = games[g].slots /\ (r.created <=> games[g].created)
                       /\ UNCHANGED before
      PROVE  Alike(games, games') /\ KeepsOrder({h \in 1..MaxGames : games[h].info})
  <2>1. Alike(games, games')
    BY <1>2, <1>4, ZenonT(30) DEF Alike
  <2>2. KeepsOrder({h \in 1..MaxGames : games[h].info})
    BY <1>4, ZenonT(30) DEF KeepsOrder
  <2> QED BY <2>1, <2>2
<1> QED BY <1>2, <1>3, <1>4, AlikeGames, ZenonT(30)

(* The steps of the list when a datagram arrives.                          *)
LEMMA ReceiveStep ==
  ASSUME UdpInv, NEW m \in net, Udp!Receive(m)
  PROVE  /\ UdpInv'
         /\ Udp!Games' # Udp!Games => update' \/ (Udp!onCreateGame(m) /\ games[m.game].info)
<1> DEFINE game == games[m.game]
<1>1. UNCHANGED <<menu, hosted, slots, last>>
  BY ZenonT(30) DEF Udp!Receive, Udp!onRefreshGame, Udp!onCreateGame, Udp!onDecreateGame,
               Udp!onGameInfo, Udp!advVars
<1>2. \A x \in net' : Game(x) /\ SlotsOf(x)
  <2>1. \A x \in net' : x \in net \/ x = Udp!SearchGame
    BY UdpSends, UdpLeft, ZenonT(30) DEF Udp!Receive, Udp!onRefreshGame, Udp!onCreateGame,
                                    Udp!onDecreateGame, Udp!onGameInfo
  <2>2. Game(Udp!SearchGame) /\ SlotsOf(Udp!SearchGame)
    BY DEF Game, SlotsOf, Udp!SearchGame
  <2> QED BY <2>1, <2>2, UdpNet, ZenonT(30)
<1>3. m.game \in 1..MaxGames /\ SlotsOf(m)
  <2>1. m.type \in {"create", "refresh", "decreate", "info"}
    BY ZenonT(30) DEF Udp!Receive, Udp!onRefreshGame, Udp!onCreateGame, Udp!onDecreateGame,
                 Udp!onGameInfo
  <2> QED BY <2>1, ZenonT(30) DEF UdpInv, Game
<1>4. game \in Records /\ (game.ttl = 0 => ~ game.info)
  BY <1>3, ZenonT(30) DEF UdpInv
<1>5. Udp!Absent \in Records /\ ~ Udp!Absent.info
  BY DEF Udp!Absent, Records
<1>6. CASE Udp!onRefreshGame(m)
  <2>1. m.slots \in Slots
    BY <1>3, <1>6, ZenonT(30) DEF Udp!onRefreshGame, SlotsOf
  <2>2. UNCHANGED before /\ KeepsOrder(1..MaxGames \ {m.game})
    BY <1>3, <1>6, OrderOfOthers, ZenonT(30) DEF Udp!onRefreshGame
  <2>3. CASE Udp!Known(m.game)
    <3> DEFINE r == [game EXCEPT !.ttl = InfoTicks, !.slots = m.slots]
    <3>1. /\ r \in Records /\ r.ttl # 0
          /\ r.info = game.info /\ r.slots = m.slots /\ r.created = game.created
      BY <1>4, <2>1, LanAssumption, ZenonT(30) DEF Records
    <3>2. Udp!Put(m.game, r) /\ update' = (game.info /\ game.slots # m.slots)
      BY <1>6, <2>3, ZenonT(30) DEF Udp!onRefreshGame
    <3> HIDE DEF r
    <3>3. UdpInv' /\ (~ game.info \/ game.slots = m.slots => Udp!Games' = Udp!Games)
      BY <1>1, <1>2, <1>3, <2>2, <3>1, <3>2, ListPut, ZenonT(30)
    <3> QED BY <3>2, <3>3, ZenonT(30)
  <2>4. CASE ~ Udp!Known(m.game)
    <3> DEFINE r == [Udp!Absent EXCEPT !.ttl = NewTicks]
    <3>1. r \in Records /\ ~ r.info
      BY LanAssumption, ZenonT(30) DEF Records, Udp!Absent
    <3>2. Udp!Put(m.game, r) /\ ~ game.info
      BY <1>4, <1>6, <2>4, ZenonT(30) DEF Udp!onRefreshGame, Udp!Known
    <3> HIDE DEF r
    <3> QED BY <1>1, <1>2, <1>3, <2>2, <3>1, <3>2, ListPut, ZenonT(30)
  <2> QED BY <2>3, <2>4
<1>7. CASE Udp!onCreateGame(m)
  <2> DEFINE r == [Udp!Absent EXCEPT !.ttl = NewTicks, !.created = TRUE]
  <2>1. r \in Records /\ ~ r.info
    BY LanAssumption, ZenonT(30) DEF Records, Udp!Absent
  <2>2. Udp!Put(m.game, r) /\ KeepsOrder(1..MaxGames \ {m.game})
    BY <1>3, <1>7, OrderOfOthers, ZenonT(30) DEF Udp!onCreateGame
  <2> HIDE DEF r
  <2>3. UdpInv' /\ (~ game.info => Udp!Games' = Udp!Games)
    BY <1>1, <1>2, <1>3, <2>1, <2>2, ListPut, ZenonT(30)
  <2> QED BY <1>7, <2>3, ZenonT(30)
<1>8. CASE Udp!onDecreateGame(m)
  <2>1. /\ Udp!Put(m.game, Udp!Absent) /\ update' = game.info
        /\ KeepsOrder(1..MaxGames \ {m.game})
    BY <1>3, <1>8, OrderOfOthers, ZenonT(30) DEF Udp!onDecreateGame
  <2>2. UdpInv' /\ (~ game.info => Udp!Games' = Udp!Games)
    BY <1>1, <1>2, <1>3, <1>5, <2>1, ListPut, ZenonT(30)
  <2> QED BY <2>1, <2>2, ZenonT(30)
<1>9. CASE Udp!onGameInfo(m)
  <2> DEFINE r == [info |-> TRUE, slots |-> m.slots, ttl |-> InfoTicks,
                   created |-> game.created \/ ~ Udp!Known(m.game)]
  <2>1. m.slots \in Slots
    BY <1>3, <1>9, ZenonT(30) DEF Udp!onGameInfo, SlotsOf
  <2>2. /\ r \in Records /\ r.ttl # 0 /\ r.info /\ r.slots = m.slots
        /\ r.created <=> game.created \/ ~ Udp!Known(m.game)
    BY <1>4, <2>1, LanAssumption, ZenonT(30) DEF Records
  <2>3. Udp!Put(m.game, r) /\ (~ game.info \/ game.slots # m.slots => update')
    BY <1>9, ZenonT(30) DEF Udp!onGameInfo
  <2>4. game.info => Udp!Known(m.game)
    BY <1>4, ZenonT(30) DEF Udp!Known
  <2> HIDE DEF r
  <2>5. (Udp!Known(m.game) => UNCHANGED before) /\ KeepsOrder(1..MaxGames \ {m.game})
    BY <1>3, <1>9, OrderOfOthers, ZenonT(30) DEF Udp!onGameInfo
  <2>6. UdpInv' /\ (game.info /\ game.slots = m.slots => Udp!Games' = Udp!Games)
    BY <1>1, <1>2, <1>3, <2>2, <2>3, <2>4, <2>5, ListPut, ZenonT(30)
  <2> QED BY <2>3, <2>6, ZenonT(30)
<1> QED BY <1>6, <1>7, <1>8, <1>9, ZenonT(30) DEF Udp!Receive

(* A tick of the list: the user is told if a record expires.               *)
LEMMA SearchStep ==
  ASSUME UdpInv, Udp!runSearch
  PROVE  UdpInv' /\ (Udp!Games' # Udp!Games => update')
<1>1. /\ UNCHANGED <<menu, hosted, slots, last>>
      /\ games' = [g \in 1..MaxGames |-> Udp!expire(g)]
      /\ ~ update' => \A g \in 1..MaxGames : ~ (Udp!Known(g) /\ Udp!expire(g) = Udp!Absent)
      /\ ~ update' => before' = Udp!Without({})
  BY ZenonT(30) DEF Udp!runSearch, Udp!advVars, Udp!Ids
<1>2. \A x \in net' : Game(x) /\ SlotsOf(x)
  <2>1. \A x \in net' : x \in net \/ x = Udp!SearchGame
    BY UdpSends, ZenonT(30) DEF Udp!runSearch
  <2>2. Game(Udp!SearchGame) /\ SlotsOf(Udp!SearchGame)
    BY DEF Game, SlotsOf, Udp!SearchGame
  <2> QED BY <2>1, <2>2, UdpNet, ZenonT(30)
<1>3. ASSUME NEW g \in 1..MaxGames
      PROVE  /\ games'[g] \in Records /\ (games'[g].ttl = 0 => ~ games'[g].info)
             /\ games[g].ttl <= 1 => games'[g] = Udp!Absent /\ ~ games'[g].info
             /\ games[g].ttl > 1 => /\ games'[g].info = games[g].info
                                    /\ games'[g].slots = games[g].slots
                                    /\ games'[g].created = games[g].created
             /\ games[g].ttl \in Nat /\ (games[g].ttl = 0 => ~ games[g].info)
  <2>1. games[g] \in Records /\ games'[g] = Udp!expire(g) /\ (games[g].ttl = 0 => ~ games[g].info)
    BY <1>1, ZenonT(30) DEF UdpInv
  <2>2. Udp!Absent \in Records /\ ~ Udp!Absent.info /\ games[g].ttl \in Nat
    BY <2>1 DEF Udp!Absent, Records
  <2>3. CASE games[g].ttl <= 1
    BY <2>1, <2>2, <2>3 DEF Udp!expire
  <2>4. CASE ~ (games[g].ttl <= 1)
    <3>1. games'[g] = [games[g] EXCEPT !.ttl = @ - 1]
      BY <2>1, <2>4, ZenonT(30) DEF Udp!expire
    <3>2. games[g].ttl - 1 \in Nat /\ games[g].ttl - 1 # 0
      BY <2>2, <2>4
    <3> QED BY <2>1, <2>2, <2>4, <3>1, <3>2 DEF Records
  <2> QED BY <2>3, <2>4
<1>4. games' \in [1..MaxGames -> Records]
  BY <1>1, <1>3, ZenonT(30)
<1>5. UdpInv'
  BY <1>1, <1>2, <1>3, <1>4, ZenonT(30) DEF UdpInv
<1>6. ASSUME ~ update' PROVE Alike(games, games')
  <2> SUFFICES ASSUME NEW g \in 1..MaxGames
               PROVE  /\ games[g].info <=> games'[g].info
                      /\ games[g].info => /\ games[g].slots = games'[g].slots
                                          /\ games[g].created <=> games'[g].created
    BY ZenonT(30) DEF Alike
  <2>1. ~ (Udp!Known(g) /\ Udp!expire(g) = Udp!Absent) /\ games'[g] = Udp!expire(g)
    BY <1>1, <1>6, ZenonT(30)
  <2>2. CASE games[g].ttl = 0
    <3>1. games[g].ttl <= 1
      BY <2>2
    <3> QED BY <1>3, <2>2, <3>1, ZenonT(30)
  <2>3. CASE games[g].ttl # 0
    <3>1. games[g].ttl > 1
      BY <1>3, <2>1, <2>3 DEF Udp!Known
    <3> QED BY <1>3, <3>1, ZenonT(30)
  <2> QED BY <2>2, <2>3
<1>7. ASSUME ~ update' PROVE KeepsOrder({g \in 1..MaxGames : games[g].info})
  <2>1. before' = before
    BY <1>1, <1>7 DEF Udp!Without
  <2> QED BY <2>1, ZenonT(30) DEF KeepsOrder
<1> QED BY <1>4, <1>5, <1>6, <1>7, AlikeGames, ZenonT(30)

(* Every step over UDP.                                                    *)
LEMMA UdpStep ==
  ASSUME UdpInv, Udp!Next
  PROVE  UdpInv' /\ Udp!ChangesToldStep
<1>1. ASSUME UNCHANGED <<games, before>> PROVE Udp!Games' = Udp!Games
  BY <1>1, ZenonT(30) DEF Udp!Games, Udp!Listed, Udp!Older
<1>2. CASE \/ \E s \in menu : Udp!Create(s) \/ Udp!Refresh(s)
           \/ Udp!refresh \/ Udp!Close \/ Udp!onSearchGame
  BY <1>1, <1>2, AdvertiserStep, ZenonT(30) DEF Udp!ChangesToldStep
<1>3. CASE Udp!runSearch
  BY <1>3, SearchStep, ZenonT(30) DEF Udp!ChangesToldStep
<1>4. ASSUME NEW m \in net, Udp!Receive(m) PROVE UdpInv' /\ Udp!ChangesToldStep
  BY <1>4, ReceiveStep, ZenonT(30) DEF Udp!ChangesToldStep
<1> QED BY <1>2, <1>3, <1>4, ZenonT(30) DEF Udp!Next
-----------------------------------------------------------------------------
(* Multicast DNS.  An answer with a PTR record has the address, too; no    *)
(* other answer has it.                                                    *)
AddressWithPtr(m) ==
  m.type = "answer" => m.ptr \in BOOLEAN /\ m.srv \in BOOLEAN /\ (m.ptr <=> m.srv)

Entry(r) == r = [ttl |-> r.ttl, ip |-> r.ip, info |-> r.info] /\ r.ip \in BOOLEAN

MdnsInv == Entry(rec) /\ \A m \in mdnsNet : AddressWithPtr(m)

(* Sending adds at most the datagram that is sent.                         *)
LEMMA MdnsSends ==
  ASSUME NEW n, NEW m, n \subseteq mdnsNet, Mdns!Sends(n, m)
  PROVE  \A x \in mdnsNet' : x \in mdnsNet \/ x = m
BY ZenonT(30) DEF Mdns!Sends

(* Receiving a message adds none.                                          *)
LEMMA MdnsLeft ==
  ASSUME NEW m, NEW n \in Mdns!Left(m)
  PROVE  n \subseteq mdnsNet
BY ZenonT(30) DEF Mdns!Left

(* Of a game that is asked for or advertised, both or none of ptr and srv  *)
(* are sent.                                                               *)
LEMMA MdnsNet ==
  ASSUME MdnsInv, NEW m, AddressWithPtr(m), \A x \in mdnsNet' : x \in mdnsNet \/ x = m
  PROVE  \A x \in mdnsNet' : AddressWithPtr(x)
BY ZenonT(30) DEF MdnsInv

(* What the host and the list send.                                        *)
LEMMA Sent ==
  /\ \A info : /\ AddressWithPtr(Mdns!Answer(TRUE, TRUE, info))
               /\ AddressWithPtr(Mdns!Answer(FALSE, FALSE, info))
  /\ AddressWithPtr(Mdns!Bye) /\ AddressWithPtr(Mdns!QueryInfo)
BY DEF AddressWithPtr, Mdns!Answer, Mdns!Bye, Mdns!QueryInfo

(* The record is absent at first.                                          *)
LEMMA MdnsInit == LanInit => MdnsInv
BY DEF LanInit, Mdns!Init, MdnsInv, Entry, Mdns!Absent

(* Steps that leave the record alone.                                      *)
LEMMA HostStep ==
  ASSUME MdnsInv,
         \/ \E s \in Slots : Mdns!Create(s) \/ Mdns!Refresh(s)
         \/ Mdns!refresh \/ Mdns!Close \/ \E m \in mdnsNet : Mdns!onQuestion(m)
  PROVE  MdnsInv' /\ UNCHANGED rec
<1>1. UNCHANGED rec
  BY ZenonT(30) DEF Mdns!Create, Mdns!Refresh, Mdns!refresh, Mdns!Close, Mdns!onQuestion
<1>2. \A x \in mdnsNet' : AddressWithPtr(x)
  <2>1. CASE \E s \in Slots : Mdns!Create(s)
    BY <2>1, Sent, MdnsSends, MdnsNet, ZenonT(30) DEF Mdns!Create
  <2>2. CASE \E s \in Slots : Mdns!Refresh(s)
    BY <2>2, Sent, MdnsSends, MdnsNet, ZenonT(30) DEF Mdns!Refresh
  <2>3. CASE Mdns!refresh
    BY <2>3, Sent, MdnsSends, MdnsNet, ZenonT(30) DEF Mdns!refresh
  <2>4. CASE Mdns!Close
    BY <2>4, Sent, MdnsSends, MdnsNet, ZenonT(30) DEF Mdns!Close
  <2>5. ASSUME NEW m \in mdnsNet, Mdns!onQuestion(m)
        PROVE  \A x \in mdnsNet' : AddressWithPtr(x)
    <3>1. PICK n \in Mdns!Left(m) :
            IF mdnsHosted # 0 THEN Mdns!Sends(n, Mdns!Reply(m)) ELSE mdnsNet' = n
      BY <2>5, ZenonT(30) DEF Mdns!onQuestion
    <3>2. n \subseteq mdnsNet
      BY MdnsLeft, ZenonT(30)
    <3>3. AddressWithPtr(Mdns!Reply(m))
      BY Sent, ZenonT(30) DEF Mdns!Reply
    <3>4. CASE mdnsHosted # 0
      BY <3>1, <3>2, <3>3, <3>4, MdnsSends, MdnsNet, ZenonT(30)
    <3>5. CASE mdnsHosted = 0
      BY <3>1, <3>2, <3>5, ZenonT(30) DEF MdnsInv
    <3> QED BY <3>4, <3>5
  <2> QED BY <2>1, <2>2, <2>3, <2>4, <2>5, ZenonT(30)
<1> QED BY <1>1, <1>2, ZenonT(30) DEF MdnsInv

(* An answer: without PTR it changes the info only, and the user is told;  *)
(* with PTR it shows the game or asks for the info.                        *)
LEMMA AnswerStep ==
  ASSUME MdnsInv, NEW m \in mdnsNet, Mdns!onAnswer(m)
  PROVE  /\ MdnsInv'
         /\ Mdns!Games' # Mdns!Games => mdnsUpdate' \/ (m.ptr /\ m.info = Mdns!NoInfo)
<1> DEFINE r == Mdns!processPTR(m)
           f == Mdns!Filled(m)
<1>1. /\ m.type = "answer"
      /\ rec' = IF r = Mdns!Absent THEN rec ELSE f
      /\ mdnsUpdate' = (r # Mdns!Absent /\ f.info # r.info)
  BY ZenonT(30) DEF Mdns!onAnswer
<1>2. m.ptr \in BOOLEAN /\ m.srv \in BOOLEAN /\ (m.ptr <=> m.srv)
  BY <1>1, ZenonT(30) DEF MdnsInv, AddressWithPtr
<1>3. \A x \in mdnsNet' : AddressWithPtr(x)
  <2>1. \A x \in mdnsNet' : x \in mdnsNet \/ x = Mdns!QueryInfo
    BY MdnsSends, MdnsLeft, ZenonT(30) DEF Mdns!onAnswer
  <2> QED BY <2>1, Sent, MdnsNet, ZenonT(30)
<1>4. f.ip = (r.ip \/ m.srv) /\ f.info = (IF m.info # Mdns!NoInfo THEN m.info ELSE r.info)
      /\ f = [ttl |-> f.ttl, ip |-> f.ip, info |-> f.info] /\ f.ip \in BOOLEAN
  BY ZenonT(30) DEF Mdns!Filled
<1>5. Entry(rec')
  BY <1>1, <1>4, ZenonT(30) DEF MdnsInv, Entry
<1>6. MdnsInv'
  BY <1>3, <1>5, ZenonT(30) DEF MdnsInv
<1>7. ASSUME r # Mdns!Absent, ~ mdnsUpdate', ~ (m.ptr /\ m.info = Mdns!NoInfo)
      PROVE  Mdns!Games' = Mdns!Games
  <2>1. rec' = f /\ f.info = r.info
    BY <1>1, <1>7, ZenonT(30)
  <2>2. ~ m.ptr
    <3> SUFFICES ASSUME m.ptr PROVE FALSE
      OBVIOUS
    <3>1. r.info = Mdns!NoInfo
      BY DEF Mdns!processPTR, Mdns!Found
    <3> QED BY <1>4, <1>7, <2>1, <3>1, ZenonT(30)
  <2>3. r = rec
    BY <2>2, ZenonT(30) DEF Mdns!processPTR
  <2>4. rec'.info = rec.info /\ (rec'.ip <=> rec.ip)
    BY <1>2, <1>4, <2>1, <2>2, <2>3, ZenonT(30) DEF MdnsInv, Entry
  <2> QED BY <2>4, ZenonT(30) DEF Mdns!Games
<1>8. r = Mdns!Absent => Mdns!Games' = Mdns!Games
  BY <1>1, ZenonT(30) DEF Mdns!Games
<1> QED BY <1>6, <1>7, <1>8, ZenonT(30)

(* Every step over multicast DNS.                                          *)
LEMMA MdnsStep ==
  ASSUME MdnsInv, Mdns!Next
  PROVE  MdnsInv' /\ Mdns!ChangesToldStep
<1>1. ASSUME UNCHANGED rec PROVE Mdns!Games' = Mdns!Games
  BY <1>1, ZenonT(30) DEF Mdns!Games
<1>2. Entry(Mdns!Absent) /\ ~ Mdns!Absent.ip
  BY DEF Entry, Mdns!Absent
<1>3. CASE \/ \E s \in Slots : Mdns!Create(s) \/ Mdns!Refresh(s)
           \/ Mdns!refresh \/ Mdns!Close \/ \E m \in mdnsNet : Mdns!onQuestion(m)
  BY <1>1, <1>3, HostStep, ZenonT(30) DEF Mdns!ChangesToldStep
<1>4. ASSUME NEW m \in mdnsNet, Mdns!onAnswer(m) PROVE MdnsInv' /\ Mdns!ChangesToldStep
  BY <1>4, AnswerStep, ZenonT(30) DEF Mdns!ChangesToldStep
<1>5. ASSUME NEW m \in mdnsNet, Mdns!onBye(m) PROVE MdnsInv' /\ Mdns!ChangesToldStep
  <2>1. rec' = Mdns!Absent /\ mdnsUpdate' = TRUE /\ \A x \in mdnsNet' : x \in mdnsNet
    BY <1>5, MdnsLeft, ZenonT(30) DEF Mdns!onBye
  <2> QED BY <1>2, <2>1, ZenonT(30) DEF MdnsInv, Mdns!ChangesToldStep
<1>6. CASE Mdns!runSearch
  <2>1. /\ rec' = Mdns!expire
        /\ mdnsUpdate' = (rec # Mdns!Absent /\ Mdns!expire = Mdns!Absent)
    BY <1>6, ZenonT(30) DEF Mdns!runSearch
  <2>2. \A x \in mdnsNet' : AddressWithPtr(x)
    <3>1. PICK q : q = Mdns!QueryAll(rec # Mdns!Absent)
      OBVIOUS
    <3>2. AddressWithPtr(q)
      BY <3>1 DEF AddressWithPtr, Mdns!QueryAll
    <3>3. Mdns!Sends({}, q)
      BY <1>6, <3>1 DEF Mdns!runSearch
    <3> QED BY <3>2, <3>3, MdnsSends, MdnsNet, ZenonT(30)
  <2>3. CASE rec.ttl <= 1
    <3>1. rec' = Mdns!Absent /\ (rec = Mdns!Absent \/ mdnsUpdate')
      BY <2>1, <2>3, ZenonT(30) DEF Mdns!expire
    <3> QED BY <1>1, <1>2, <2>2, <3>1, ZenonT(30) DEF MdnsInv, Mdns!ChangesToldStep
  <2>4. CASE ~ (rec.ttl <= 1)
    <3>1. rec' = [rec EXCEPT !.ttl = @ - 1]
      BY <2>1, <2>4, ZenonT(30) DEF Mdns!expire
    <3>2. Entry(rec') /\ rec'.ip = rec.ip /\ rec'.info = rec.info
      BY <3>1 DEF MdnsInv, Entry
    <3> QED BY <2>2, <3>2, ZenonT(30) DEF MdnsInv, Mdns!ChangesToldStep, Mdns!Games
  <2> QED BY <2>3, <2>4
<1> QED BY <1>3, <1>4, <1>5, <1>6, ZenonT(30) DEF Mdns!Next
-----------------------------------------------------------------------------
(* What Games() may return never changes without Update{}, over UDP or     *)
(* multicast DNS, unless a CreateGame or an answer without info hides a    *)
(* game the list asks for (gamelist_udp.go, gamelist_mdns.go).  Two calls  *)
(* of Games() may still differ if it may return different games, whose     *)
(* records were created within a second or only by refreshes.              *)
THEOREM TellsChanges == LanSpec => ChangesTold
<1> DEFINE Inv == UdpInv /\ MdnsInv
<1>1. LanInit => Inv
  BY UdpInit, MdnsInit
<1>2. ASSUME Inv, [LanNext]_<<lan, lanVars>>
      PROVE  Inv' /\ Udp!ChangesToldStep /\ Mdns!ChangesToldStep
  <2>1. ASSUME UNCHANGED udpVars PROVE UdpInv' /\ Udp!ChangesToldStep
    <3>1. UNCHANGED <<menu, hosted, slots, last, net, games, before>>
      BY <2>1, ZenonT(30) DEF udpVars
    <3>2. Udp!Games' = Udp!Games
      BY <3>1, ZenonT(30) DEF Udp!Games, Udp!Listed, Udp!Older
    <3> QED BY <1>2, <3>1, <3>2, ZenonT(30) DEF UdpInv, Udp!ChangesToldStep
  <2>2. ASSUME UNCHANGED mdnsVars PROVE MdnsInv' /\ Mdns!ChangesToldStep
    <3>1. UNCHANGED <<rec, mdnsNet>>
      BY <2>2, ZenonT(30) DEF mdnsVars
    <3>2. Mdns!Games' = Mdns!Games
      BY <3>1, ZenonT(30) DEF Mdns!Games
    <3> QED BY <1>2, <3>1, <3>2, ZenonT(30) DEF MdnsInv, Mdns!ChangesToldStep
  <2>3. CASE Udp!Next /\ UNCHANGED mdnsVars
    BY <1>2, <2>2, <2>3, UdpStep, ZenonT(30)
  <2>4. CASE Mdns!Next /\ UNCHANGED udpVars
    BY <1>2, <2>1, <2>4, MdnsStep, ZenonT(30)
  <2>5. CASE UNCHANGED lanVars
    BY <2>1, <2>2, <2>5, ZenonT(30) DEF lanVars
  <2> QED BY <1>2, <2>3, <2>4, <2>5, ZenonT(30) DEF LanNext
<1> QED BY <1>1, <1>2, PTL DEF LanSpec, ChangesTold

-----------------------------------------------------------------------------
(* The lock (module RWMutex).                                              *)

(* What is used of counting.  The laws are facts about finite sets, shown  *)
(* below (CountingHolds) from the library's theorems.                      *)
Counting ==
  \A S : IsFiniteSet(S) =>
    /\ Mutex!Cardinality(S) \in Nat
    /\ Mutex!Cardinality(S) = 0 <=> S = {}
    /\ \A T \in SUBSET S : IsFiniteSet(T)
    /\ \A x : x \notin S => Mutex!Cardinality(S \cup {x}) = Mutex!Cardinality(S) + 1
    /\ \A x \in S : Mutex!Cardinality(S \ {x}) = Mutex!Cardinality(S) - 1

(* The reader that holds rmutex is the one inside RLock or RUnlock.        *)
RMutexOwner ==
  \A r \in Readers :
    pc[r] \in {"lock", "locked", "unlock", "unlocked"} <=> rmutex = r

(* The inner mutex is held by the writer inside, or for the readers.       *)
MutexOwner ==
  /\ \A w \in Writers : pc[w] \in {"out", "in"} /\ (pc[w] = "in" <=> mutex = w)
  /\ Mutex!inside # {} => mutex \in Readers

(* The last reader gives the inner mutex back when nobody else reads.      *)
LastReader == \A r \in Readers : pc[r] = "unlock" => rcount = 0

IInv == Mutex!TypeOK /\ Mutex!CountsReaders /\ RMutexOwner /\ MutexOwner /\ LastReader

(* The readers that are counted are finitely many, and a counter of 0      *)
(* means that there are none.                                              *)
LEMMA CountZero ==
  ASSUME Counting, Mutex!CountsReaders
  PROVE  IsFiniteSet(Mutex!Counted) /\ (rcount = 0 <=> Mutex!Counted = {})
<1>1. Mutex!Counted \in SUBSET Readers
  BY DEF Mutex!Counted
<1>2. IsFiniteSet(Mutex!Counted)
  BY <1>1, MutexAssumption, ZenonT(30) DEF Counting
<1> QED BY <1>2, ZenonT(30) DEF Counting, Mutex!CountsReaders

(* A step that adds a reader to the counted ones, or removes one, keeps    *)
(* the counter right.                                                      *)
LEMMA CountUp ==
  ASSUME Counting, Mutex!CountsReaders, NEW r \in Readers, r \notin Mutex!Counted,
         Mutex!Counted' = Mutex!Counted \cup {r}, rcount' = rcount + 1
  PROVE  Mutex!CountsReaders'
BY CountZero, ZenonT(30) DEF Counting, Mutex!CountsReaders

(* One reader fewer is one less to count.                                  *)
LEMMA CountDown ==
  ASSUME Counting, Mutex!CountsReaders, NEW r \in Readers, r \in Mutex!Counted,
         Mutex!Counted' = Mutex!Counted \ {r}, rcount' = rcount - 1
  PROVE  Mutex!CountsReaders' /\ rcount' \in Nat
<1>1. Mutex!CountsReaders'
  BY CountZero, ZenonT(30) DEF Counting, Mutex!CountsReaders
<1>2. Mutex!Counted' \in SUBSET Mutex!Counted
  OBVIOUS
<1>3. Mutex!Cardinality(Mutex!Counted') \in Nat
  BY <1>2, CountZero, ZenonT(30) DEF Counting
<1> QED BY <1>1, <1>3, ZenonT(30) DEF Mutex!CountsReaders

(* Without a change of the readers their number stays the same.            *)
LEMMA CountSame ==
  ASSUME Mutex!CountsReaders, Mutex!Counted' = Mutex!Counted, rcount' = rcount
  PROVE  Mutex!CountsReaders'
BY DEF Mutex!CountsReaders
-----------------------------------------------------------------------------
(* A call of RLock has not touched the mutexes yet.                        *)
LEMMA RCallKeeps ==
  ASSUME IInv, NEW r \in Readers, Mutex!RCall(r)
  PROVE  IInv'
<1> USE MutexAssumption
<1>1. Mutex!TypeOK'
  BY DEF IInv, Mutex!TypeOK, Mutex!RCall, Mutex!Goto
<1>2. Mutex!CountsReaders'
  BY CountSame DEF IInv, Mutex!TypeOK, Mutex!RCall, Mutex!Goto, Mutex!Counted
<1>3. RMutexOwner'
  BY DEF IInv, Mutex!TypeOK, Mutex!RCall, Mutex!Goto, RMutexOwner
<1>4. MutexOwner' /\ LastReader'
  BY DEF IInv, Mutex!TypeOK, Mutex!RCall, Mutex!Goto, MutexOwner, LastReader, Mutex!inside
<1> QED BY <1>1, <1>2, <1>3, <1>4 DEF IInv

(* RLock takes rmutex and counts its reader.                               *)
LEMMA RLockKeeps ==
  ASSUME Counting, IInv, NEW r \in Readers, Mutex!RLock(r)
  PROVE  IInv'
<1> USE MutexAssumption
<1>1. Mutex!TypeOK'
  BY DEF IInv, Mutex!TypeOK, Mutex!RLock, Mutex!Goto
<1>2. r \notin Mutex!Counted /\ Mutex!Counted' = Mutex!Counted \cup {r}
  BY DEF IInv, Mutex!TypeOK, Mutex!RLock, Mutex!Goto, Mutex!Counted
<1>3. Mutex!CountsReaders'
  BY <1>2, CountUp DEF IInv, Mutex!RLock
<1>4. RMutexOwner'
  BY DEF IInv, Mutex!TypeOK, Mutex!RLock, Mutex!Goto, RMutexOwner
<1>5. LastReader'
  BY DEF IInv, Mutex!TypeOK, Mutex!RLock, Mutex!Goto, RMutexOwner, LastReader
<1>6. rcount # 0 => Mutex!inside # {}
  <2>1. SUFFICES ASSUME rcount # 0 PROVE Mutex!inside # {}
    OBVIOUS
  <2>2. PICK q \in Readers : pc[q] \in {"lock", "locked", "in"}
    BY <2>1, CountZero DEF IInv, Mutex!Counted
  <2> QED BY <2>2 DEF IInv, RMutexOwner, Mutex!RLock, Mutex!inside
<1>7. MutexOwner'
  BY <1>6 DEF IInv, Mutex!TypeOK, Mutex!RLock, Mutex!Goto, MutexOwner, Mutex!inside
<1> QED BY <1>1, <1>3, <1>4, <1>5, <1>7 DEF IInv

(* The first reader takes the writers' mutex.                              *)
LEMMA RLockInnerKeeps ==
  ASSUME IInv, NEW r \in Readers, Mutex!RLockInner(r)
  PROVE  IInv'
<1> USE MutexAssumption
<1>1. Mutex!TypeOK'
  BY DEF IInv, Mutex!TypeOK, Mutex!RLockInner, Mutex!Goto
<1>2. Mutex!CountsReaders'
  BY CountSame DEF IInv, Mutex!TypeOK, Mutex!RLockInner, Mutex!Goto, Mutex!Counted
<1>3. RMutexOwner' /\ LastReader'
  BY DEF IInv, Mutex!TypeOK, Mutex!RLockInner, Mutex!Goto, RMutexOwner, LastReader
<1>4. MutexOwner'
  BY DEF IInv, Mutex!TypeOK, Mutex!RLockInner, Mutex!Goto, MutexOwner, Mutex!inside
<1> QED BY <1>1, <1>2, <1>3, <1>4 DEF IInv

(* RLock releases rmutex.                                                  *)
LEMMA RLockEndKeeps ==
  ASSUME IInv, NEW r \in Readers, Mutex!RLockEnd(r)
  PROVE  IInv'
<1> USE MutexAssumption
<1>1. Mutex!TypeOK'
  BY DEF IInv, Mutex!TypeOK, Mutex!RLockEnd, Mutex!Goto
<1>2. Mutex!CountsReaders'
  BY CountSame DEF IInv, Mutex!TypeOK, Mutex!RLockEnd, Mutex!Goto, Mutex!Counted
<1>3. RMutexOwner' /\ LastReader'
  BY DEF IInv, Mutex!TypeOK, Mutex!RLockEnd, Mutex!Goto, RMutexOwner, LastReader
<1>4. MutexOwner'
  BY DEF IInv, Mutex!TypeOK, Mutex!RLockEnd, Mutex!Goto, MutexOwner, Mutex!inside
<1> QED BY <1>1, <1>2, <1>3, <1>4 DEF IInv

(* RUnlock takes rmutex and counts its reader down.                        *)
LEMMA RUnlockKeeps ==
  ASSUME Counting, IInv, NEW r \in Readers, Mutex!RUnlock(r)
  PROVE  IInv'
<1> USE MutexAssumption
<1>1. r \in Mutex!Counted /\ Mutex!Counted' = Mutex!Counted \ {r}
  BY DEF IInv, Mutex!TypeOK, Mutex!RUnlock, Mutex!Goto, Mutex!Counted
<1>2. Mutex!CountsReaders' /\ rcount' \in Nat
  BY <1>1, CountDown DEF IInv, Mutex!RUnlock
<1>3. Mutex!TypeOK'
  BY <1>2 DEF IInv, Mutex!TypeOK, Mutex!RUnlock, Mutex!Goto
<1>4. RMutexOwner'
  BY DEF IInv, Mutex!TypeOK, Mutex!RUnlock, Mutex!Goto, RMutexOwner
<1>5. LastReader'
  BY DEF IInv, Mutex!TypeOK, Mutex!RUnlock, Mutex!Goto, RMutexOwner, LastReader
<1>6. MutexOwner'
  BY DEF IInv, Mutex!TypeOK, Mutex!RUnlock, Mutex!Goto, MutexOwner, Mutex!inside
<1> QED BY <1>2, <1>3, <1>4, <1>5, <1>6 DEF IInv

(* Nobody else is inside when the inner mutex is given back.               *)
LEMMA LastIsAlone ==
  ASSUME Counting, IInv, NEW r \in Readers, pc[r] = "unlock"
  PROVE  Mutex!inside = {r}
<1>1. Mutex!Counted = {}
  BY CountZero DEF IInv, LastReader
<1> QED BY <1>1 DEF IInv, RMutexOwner, Mutex!Counted, Mutex!inside

(* The last reader gives the writers' mutex back.                          *)
LEMMA RUnlockInnerKeeps ==
  ASSUME Counting, IInv, NEW r \in Readers, Mutex!RUnlockInner(r)
  PROVE  IInv'
<1> USE MutexAssumption
<1>1. Mutex!TypeOK'
  BY DEF IInv, Mutex!TypeOK, Mutex!RUnlockInner, Mutex!Goto
<1>2. Mutex!CountsReaders'
  BY CountSame DEF IInv, Mutex!TypeOK, Mutex!RUnlockInner, Mutex!Goto, Mutex!Counted
<1>3. RMutexOwner' /\ LastReader'
  BY DEF IInv, Mutex!TypeOK, Mutex!RUnlockInner, Mutex!Goto, RMutexOwner, LastReader
<1>4. Mutex!inside = {r}
  BY LastIsAlone DEF Mutex!RUnlockInner
<1>5. Mutex!inside' = {}
  BY <1>4 DEF IInv, Mutex!TypeOK, Mutex!RUnlockInner, Mutex!Goto, Mutex!inside
<1>6. mutex \in Readers
  BY <1>4 DEF IInv, MutexOwner
<1>7. MutexOwner'
  BY <1>5, <1>6 DEF IInv, Mutex!TypeOK, Mutex!RUnlockInner, Mutex!Goto, MutexOwner
<1> QED BY <1>1, <1>2, <1>3, <1>7 DEF IInv

(* RUnlock releases rmutex.                                                *)
LEMMA RUnlockEndKeeps ==
  ASSUME IInv, NEW r \in Readers, Mutex!RUnlockEnd(r)
  PROVE  IInv'
<1> USE MutexAssumption
<1>1. Mutex!TypeOK'
  BY DEF IInv, Mutex!TypeOK, Mutex!RUnlockEnd, Mutex!Goto
<1>2. Mutex!CountsReaders'
  BY CountSame DEF IInv, Mutex!TypeOK, Mutex!RUnlockEnd, Mutex!Goto, Mutex!Counted
<1>3. RMutexOwner' /\ LastReader'
  BY DEF IInv, Mutex!TypeOK, Mutex!RUnlockEnd, Mutex!Goto, RMutexOwner, LastReader
<1>4. MutexOwner'
  BY DEF IInv, Mutex!TypeOK, Mutex!RUnlockEnd, Mutex!Goto, MutexOwner, Mutex!inside
<1> QED BY <1>1, <1>2, <1>3, <1>4 DEF IInv

(* Lock and Unlock of a writer only concern the writers' mutex.            *)
LEMMA WriterKeeps ==
  ASSUME IInv, NEW w \in Writers, Mutex!Lock(w) \/ Mutex!Unlock(w)
  PROVE  IInv'
<1> USE MutexAssumption
<1>1. Mutex!TypeOK'
  BY DEF IInv, Mutex!TypeOK, Mutex!Lock, Mutex!Unlock, Mutex!Goto
<1>2. Mutex!CountsReaders'
  BY CountSame DEF IInv, Mutex!TypeOK, Mutex!Lock, Mutex!Unlock, Mutex!Goto, Mutex!Counted
<1>3. RMutexOwner' /\ LastReader'
  BY DEF IInv, Mutex!TypeOK, Mutex!Lock, Mutex!Unlock, Mutex!Goto, RMutexOwner, LastReader
<1>4. MutexOwner'
  BY DEF IInv, Mutex!TypeOK, Mutex!Lock, Mutex!Unlock, Mutex!Goto, MutexOwner, Mutex!inside
<1> QED BY <1>1, <1>2, <1>3, <1>4 DEF IInv

(* Every step of a reader or writer keeps the invariant.                   *)
LEMMA StepKeeps ==
  ASSUME Counting, IInv, [Mutex!Next]_(Mutex!vars)
  PROVE  IInv'
<1>1. CASE UNCHANGED Mutex!vars
  BY <1>1 DEF IInv, Mutex!TypeOK, Mutex!CountsReaders, RMutexOwner, MutexOwner, LastReader,
              Mutex!Counted, Mutex!inside, Mutex!vars
<1>2. ASSUME NEW r \in Readers, Mutex!RCall(r) \/ Mutex!RStep(r) \/ Mutex!RUnlock(r)
      PROVE  IInv'
  BY <1>2, RCallKeeps, RLockKeeps, RLockInnerKeeps, RLockEndKeeps, RUnlockKeeps,
     RUnlockInnerKeeps, RUnlockEndKeeps DEF Mutex!RStep
<1>3. ASSUME NEW w \in Writers, Mutex!Lock(w) \/ Mutex!Unlock(w)
      PROVE  IInv'
  BY <1>3, WriterKeeps
<1> QED BY <1>1, <1>2, <1>3 DEF Mutex!Next

(* The steps of a reader, as the abstract lock sees them.                  *)
LEMMA ReaderStepMaps ==
  ASSUME Counting, IInv, NEW r \in Readers, Mutex!RCall(r) \/ Mutex!RStep(r) \/ Mutex!RUnlock(r)
  PROVE  [Mutex!Abstract!Next]_(<<Mutex!inside, Mutex!writing>>)
<1> USE MutexAssumption
<1>1. Mutex!writing' = Mutex!writing
  BY DEF IInv, Mutex!TypeOK, Mutex!RCall, Mutex!RStep, Mutex!RUnlock, Mutex!RLock,
     Mutex!RLockInner, Mutex!RLockEnd, Mutex!RUnlockInner,
         Mutex!RUnlockEnd, Mutex!Goto, Mutex!writing
<1>2. CASE Mutex!RCall(r) \/ Mutex!RLockEnd(r) \/ Mutex!RUnlockEnd(r)
  <2>1. Mutex!inside' = Mutex!inside
    BY <1>2 DEF IInv, Mutex!TypeOK, Mutex!RCall, Mutex!RLockEnd, Mutex!RUnlockEnd, Mutex!Goto,
       Mutex!inside
  <2> QED BY <1>1, <2>1
<1>3. CASE Mutex!RLock(r) /\ rcount = 0
  <2>1. Mutex!inside' = Mutex!inside
    BY <1>3 DEF IInv, Mutex!TypeOK, Mutex!RLock, Mutex!Goto, Mutex!inside
  <2> QED BY <1>1, <2>1
<1>4. CASE Mutex!RLock(r) /\ rcount # 0
  <2>1. r \notin Mutex!inside /\ Mutex!inside' = Mutex!inside \cup {r}
    BY <1>4 DEF IInv, Mutex!TypeOK, Mutex!RLock, Mutex!Goto, Mutex!inside
  <2>2. PICK q \in Readers : pc[q] \in {"lock", "locked", "in"}
    BY <1>4, CountZero DEF IInv, Mutex!Counted
  <2>3. Mutex!inside # {}
    BY <1>4, <2>2 DEF IInv, RMutexOwner, Mutex!RLock, Mutex!inside
  <2>4. Mutex!writing = {}
    BY <2>3 DEF IInv, MutexOwner, Mutex!writing
  <2> QED BY <1>1, <2>1, <2>4 DEF Mutex!Abstract!Next, Mutex!Abstract!RLock
<1>5. CASE Mutex!RLockInner(r)
  <2>1. r \notin Mutex!inside /\ Mutex!inside' = Mutex!inside \cup {r}
    BY <1>5 DEF IInv, Mutex!TypeOK, Mutex!RLockInner, Mutex!Goto, Mutex!inside
  <2>2. Mutex!writing = {}
    BY <1>5 DEF IInv, MutexOwner, Mutex!RLockInner, Mutex!writing
  <2> QED BY <1>1, <2>1, <2>2 DEF Mutex!Abstract!Next, Mutex!Abstract!RLock
<1>6. CASE Mutex!RUnlock(r) /\ rcount = 1
  <2>1. Mutex!inside' = Mutex!inside
    BY <1>6 DEF IInv, Mutex!TypeOK, Mutex!RUnlock, Mutex!Goto, Mutex!inside
  <2> QED BY <1>1, <2>1
<1>7. CASE (Mutex!RUnlock(r) /\ rcount # 1) \/ Mutex!RUnlockInner(r)
  <2>1. r \in Mutex!inside /\ Mutex!inside' = Mutex!inside \ {r}
    BY <1>7 DEF IInv, Mutex!TypeOK, Mutex!RUnlock, Mutex!RUnlockInner, Mutex!Goto, Mutex!inside
  <2> QED BY <1>1, <2>1 DEF Mutex!Abstract!Next, Mutex!Abstract!RUnlock
<1> QED BY <1>2, <1>3, <1>4, <1>5, <1>6, <1>7 DEF Mutex!RStep

(* A step of a writer is a step of the abstract lock.                      *)
LEMMA WriterStepMaps ==
  ASSUME IInv, NEW w \in Writers, Mutex!Lock(w) \/ Mutex!Unlock(w)
  PROVE  [Mutex!Abstract!Next]_(<<Mutex!inside, Mutex!writing>>)
<1> USE MutexAssumption
<1>1. Mutex!inside' = Mutex!inside
  BY DEF IInv, Mutex!TypeOK, Mutex!Lock, Mutex!Unlock, Mutex!Goto, Mutex!inside
<1>2. CASE Mutex!Lock(w)
  <2>1. Mutex!writing = {} /\ Mutex!inside = {}
    BY <1>2 DEF IInv, MutexOwner, Mutex!Lock, Mutex!writing
  <2>2. Mutex!writing' = {w}
    BY <1>2, <2>1 DEF IInv, Mutex!TypeOK, Mutex!Lock, Mutex!Goto, Mutex!writing
  <2> QED BY <1>1, <2>1, <2>2 DEF Mutex!Abstract!Next, Mutex!Abstract!Lock
<1>3. CASE Mutex!Unlock(w)
  <2>1. Mutex!writing = {w}
    BY <1>3 DEF IInv, MutexOwner, Mutex!Unlock, Mutex!writing
  <2>2. Mutex!writing' = {}
    BY <1>3, <2>1 DEF IInv, Mutex!TypeOK, Mutex!Unlock, Mutex!Goto, Mutex!writing
  <2> QED BY <1>1, <2>1, <2>2 DEF Mutex!Abstract!Next, Mutex!Abstract!Unlock
<1> QED BY <1>2, <1>3

(* The steps of RWMutex are steps of the abstract lock.                    *)
LEMMA StepMaps ==
  ASSUME Counting, IInv, [Mutex!Next]_(Mutex!vars)
  PROVE  [Mutex!Abstract!Next]_(Mutex!Abstract!lockVars)
<1> SUFFICES [Mutex!Abstract!Next]_(<<Mutex!inside, Mutex!writing>>)
  BY DEF Mutex!Abstract!lockVars
<1>1. CASE UNCHANGED Mutex!vars
  BY <1>1 DEF Mutex!vars, Mutex!inside, Mutex!writing
<1>2. ASSUME NEW r \in Readers, Mutex!RCall(r) \/ Mutex!RStep(r) \/ Mutex!RUnlock(r)
      PROVE  [Mutex!Abstract!Next]_(<<Mutex!inside, Mutex!writing>>)
  BY <1>2, ReaderStepMaps
<1>3. ASSUME NEW w \in Writers, Mutex!Lock(w) \/ Mutex!Unlock(w)
      PROVE  [Mutex!Abstract!Next]_(<<Mutex!inside, Mutex!writing>>)
  BY <1>3, WriterStepMaps
<1> QED BY <1>1, <1>2, <1>3 DEF Mutex!Next
-----------------------------------------------------------------------------
INSTANCE FiniteSetTheorems

(* The laws of counting hold of finite sets, and RWMutex counts as the     *)
(* module FiniteSets does.                                                 *)
LEMMA CountingHolds == Counting
<1>1. \A S : Mutex!Cardinality(S) = Cardinality(S)
  BY ZenonT(30) DEF Mutex!Cardinality, Cardinality
<1> SUFFICES ASSUME NEW S, IsFiniteSet(S)
             PROVE  /\ Cardinality(S) \in Nat
                    /\ Cardinality(S) = 0 <=> S = {}
                    /\ \A T \in SUBSET S : IsFiniteSet(T)
                    /\ \A x : x \notin S => Cardinality(S \cup {x}) = Cardinality(S) + 1
                    /\ \A x \in S : Cardinality(S \ {x}) = Cardinality(S) - 1
  BY <1>1, ZenonT(30) DEF Counting
<1>2. Cardinality(S) \in Nat /\ (Cardinality(S) = 0 <=> S = {})
  BY FS_CardinalityType, FS_EmptySet
<1>3. \A T \in SUBSET S : IsFiniteSet(T)
  BY FS_Subset
<1>4. \A x : x \notin S => Cardinality(S \cup {x}) = Cardinality(S) + 1
  BY FS_AddElement
<1>5. \A x \in S : Cardinality(S \ {x}) = Cardinality(S) - 1
  BY FS_RemoveElement
<1> QED BY <1>2, <1>3, <1>4, <1>5, ZenonT(30)

(* A new RWMutex is free.                                                  *)
LEMMA InitHolds ==
  ASSUME Counting, Mutex!Init
  PROVE  IInv
<1>1. Mutex!TypeOK /\ RMutexOwner /\ MutexOwner /\ LastReader
  BY MutexAssumption DEF Mutex!Init, Mutex!TypeOK, RMutexOwner, MutexOwner, LastReader,
     Mutex!inside
<1>2. Mutex!Counted = {}
  BY DEF Mutex!Init, Mutex!Counted
<1>3. Mutex!CountsReaders
  BY <1>2, FS_EmptySet, ZenonT(30) DEF Counting, Mutex!Init, Mutex!CountsReaders
<1> QED BY <1>1, <1>3 DEF IInv

(* The composed specification runs RWMutex.                                *)
LEMMA MutexSpec == MCSpec => Mutex!Spec
<1>1. [MCNext]_<<machine, mutexVars, connVars, vars>> => [Mutex!Next]_(Mutex!vars)
  BY DEF MCNext, mutexVars, Mutex!vars
<1> QED BY <1>1, PTL DEF MCSpec, MCInit, Mutex!Spec

(* The invariant of RWMutex always holds.                                  *)
LEMMA IInvAlways == MCSpec => []IInv
<1>1. Mutex!Init => IInv
  BY CountingHolds, InitHolds, ZenonT(30)
<1>2. IInv /\ [Mutex!Next]_(Mutex!vars) => IInv'
  BY CountingHolds, StepKeeps, ZenonT(30)
<1> QED BY <1>1, <1>2, MutexSpec, PTL DEF Mutex!Spec
-----------------------------------------------------------------------------
(* RUnlock never panics, for any number of readers and writers.            *)
THEOREM CountsReadersAlways == MCSpec => []Mutex!CountsReaders
<1>1. IInv => Mutex!CountsReaders
  BY DEF IInv
<1> QED BY <1>1, IInvAlways, PTL

(* A writer is never inside with a reader or with another writer.          *)
THEOREM WriterAloneAlways == MCSpec => []Mutex!WriterAlone
<1>1. IInv => Mutex!WriterAlone
  <2> SUFFICES ASSUME IInv PROVE Mutex!WriterAlone
    OBVIOUS
  <2>1. \A w \in Mutex!writing : w \in Writers /\ mutex = w
    BY DEF IInv, MutexOwner, Mutex!writing
  <2>2. Mutex!inside # {} => mutex \in Readers
    BY DEF IInv, MutexOwner
  <2> QED BY <2>1, <2>2, MutexAssumption DEF Mutex!WriterAlone
<1> QED BY <1>1, IInvAlways, PTL

(* RWMutex implements the abstract readers-writer lock: its mutexes and    *)
(* its counter give the users of a connection nothing but the lock's own   *)
(* steps.                                                                  *)
THEOREM RWMutexImplements == MCSpec => Implements
<1>1. Mutex!Init => Mutex!Abstract!Init
  BY MutexAssumption DEF Mutex!Init, Mutex!Abstract!Init, Mutex!inside, Mutex!writing
<1>2. IInv /\ [Mutex!Next]_(Mutex!vars) => [Mutex!Abstract!Next]_(Mutex!Abstract!lockVars)
  BY CountingHolds, StepMaps, ZenonT(30)
<1> QED BY <1>1, <1>2, IInvAlways, MutexSpec, PTL
   DEF Mutex!Spec, Implements, Mutex!Implements, Mutex!Abstract!Spec
==============================================================================
