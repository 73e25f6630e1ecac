------------------------------- MODULE LanUDP -------------------------------
(***************************************************************************)
(* Games advertised in a local network with UDP broadcasts (network/lan):  *)
(* a machine hosts one game after the other with a UDPAdvertiser each, and *)
(* a UDPGameList on another machine keeps a list of them.  Datagrams are   *)
(* lost, duplicated and reordered.                                         *)
(*                                                                         *)
(* Time is counted in ticks of the list's BroadcastInterval.  A broadcast  *)
(* goes to port 6112: it always reaches the list, which listens there, but *)
(* the advertiser only if it does too.  A search that is sent to the       *)
(* advertiser's own address always may reach it.                           *)
(*                                                                         *)
(* Games() compares the ages of records in whole seconds.  Of the moments  *)
(* at which they were created the model keeps which of two was earlier by  *)
(* a second or more: records created within a second of each other may     *)
(* have the same age when Games() is called.                               *)
(***************************************************************************)
EXTENDS Naturals, FiniteSets

CONSTANTS
  MaxGames,   \* the games hosted in a behaviour are 1..MaxGames
  Slots,      \* values of SlotsUsed and SlotsAvailable
  Starts,     \* games hosted before the list was started, with the slots used later
  NoSlots,    \* the slots of a record without GameInfo: zero
  InfoTicks,  \* ticks a record with a refresh or a GameInfo survives
  NewTicks,   \* ticks a record without GameInfo survives (5 minutes)
  MaxNet      \* bound on the datagrams in flight

VARIABLES
  onPort,   \* whether the advertiser listens on port 6112
  menu,     \* the slots used in this behaviour
  hosted,   \* UDPAdvertiser.info.HostCounter, 0 if no advertiser runs
  slots,    \* UDPAdvertiser.info.SlotsUsed and SlotsAvailable
  last,     \* the last game that has been hosted
  net,      \* datagrams in flight
  games,    \* UDPGameList.games by game, Absent for none
  before,   \* pairs of records, the first created at least a second earlier
  update    \* whether the last step fired Update{}

advVars == <<onPort, menu, hosted, slots, last>>
listVars == <<games, before>>
vars == <<advVars, net, listVars, update>>

Ids == 1..MaxGames

(* A record: what is known of the game, whether created was set, and the   *)
(* ticks until it expires.                                                 *)
Absent == [info |-> FALSE, slots |-> NoSlots, created |-> FALSE, ttl |-> 0]
Known(g) == games[g].ttl # 0

(* before without the records of the games in G.                           *)
Without(G) == {p \in before : p[1] \notin G /\ p[2] \notin G}

CreateGame(g) == [type |-> "create", game |-> g]
RefreshGame(g, s) == [type |-> "refresh", game |-> g, slots |-> s]
DecreateGame(g) == [type |-> "decreate", game |-> g]
GameInfo(g, s) == [type |-> "info", game |-> g, slots |-> s]
SearchGame == [type |-> "search"]

Init ==
  /\ onPort \in BOOLEAN
  /\ \E start \in Starts : last = start[1] /\ menu = start[2]
  /\ hosted = 0 /\ slots = NoSlots
  /\ net = {}
  /\ games = [g \in Ids |-> Absent] /\ before = {}
  /\ update = FALSE

(* A datagram arrives in the end, or is lost.                              *)
Arrives(n, m) == Cardinality(n) < MaxNet /\ net' = n \cup {m}
Sends(n, m) == Arrives(n, m) \/ net' = n

(* A datagram is taken from the network, or has been duplicated.           *)
Left(m) == {net \ {m}, net}
-----------------------------------------------------------------------------
(* The advertiser: Run begins with Create.                                 *)
Create(s) ==
  /\ hosted = 0 /\ last < MaxGames
  /\ hosted' = last + 1 /\ last' = last + 1 /\ slots' = s
  /\ Sends(net, CreateGame(last + 1))
  /\ update' = FALSE
  /\ UNCHANGED <<onPort, menu, listVars>>

(* refresh, every BroadcastInterval of the advertiser.                     *)
refresh ==
  /\ hosted # 0
  /\ Sends(net, RefreshGame(hosted, slots))
  /\ update' = FALSE
  /\ UNCHANGED <<advVars, listVars>>

Refresh(s) ==
  /\ hosted # 0
  /\ slots' = s
  /\ Sends(net, RefreshGame(hosted, s))
  /\ update' = FALSE
  /\ UNCHANGED <<onPort, menu, hosted, last, listVars>>

(* Decreate and Close, or an advertiser that dies without Decreate.        *)
Close ==
  /\ hosted # 0
  /\ hosted' = 0 /\ slots' = NoSlots
  /\ Sends(net, DecreateGame(hosted))
  /\ update' = FALSE
  /\ UNCHANGED <<onPort, menu, last, listVars>>

(* Mutant: does not answer.                                                *)
onSearchGame_Silent ==
  /\ SearchGame \in net
  /\ net' = net \ {SearchGame}
  /\ update' = FALSE
  /\ UNCHANGED <<advVars, listVars>>

(* It answers whatever game the search asks for.                           *)
onSearchGame ==
  /\ SearchGame \in net
  /\ \E n \in Left(SearchGame) :
       IF hosted # 0 THEN Sends(n, GameInfo(hosted, slots)) ELSE net' = n
  /\ update' = FALSE
  /\ UNCHANGED <<advVars, listVars>>
-----------------------------------------------------------------------------
(* Games(): a record whose created was never set looks older than any that *)
(* was created.                                                            *)
Older(g, h) ==
  \/ games[h].created /\ ~ games[g].created
  \/ <<g, h>> \in before

(* Of two games at one address the older one is left out.  Of two whose    *)
(* ages may be the same either may be listed, as the order of a map's      *)
(* iteration decides, at every call anew.                                  *)
Listed(g) == games[g].info /\ \A h \in Ids : games[h].info => ~ Older(g, h)

(* The entries that Games() may return.                                    *)
Games == {<<g, games[g].slots>> : g \in {h \in Ids : Listed(h)}}

Put(g, r) == games' = [games EXCEPT ![g] = r]

(* The record of game g is created, after those of the games in S and      *)
(* before those of the games in T; the others are less than a second away. *)
CreatedBetween(g, S, T) ==
  before' = Without({g}) \cup {<<h, g>> : h \in S} \cup {<<g, h>> : h \in T}

Created(g) == {h \in Ids \ {g} : games[h].created}

(* Mutant: the change of the slots is not announced.                       *)
onRefreshGame_Silent(m) ==
  LET game == games[m.game] IN
  /\ m.type = "refresh"
  /\ IF Known(m.game)
     THEN /\ \E n \in Left(m) : net' = n
          /\ Put(m.game, [game EXCEPT !.ttl = InfoTicks, !.slots = m.slots])
     ELSE /\ \E n \in Left(m) : Sends(n, SearchGame)
          /\ Put(m.game, [Absent EXCEPT !.ttl = NewTicks])
  /\ update' = FALSE
  /\ UNCHANGED <<advVars, before>>

(* An unknown game gets a record without GameInfo, and is asked for it.    *)
onRefreshGame(m) ==
  LET game == games[m.game] IN
  /\ m.type = "refresh"
  /\ IF Known(m.game)
     THEN /\ \E n \in Left(m) : net' = n
          /\ Put(m.game, [game EXCEPT !.ttl = InfoTicks, !.slots = m.slots])
          /\ update' = (game.info /\ game.slots # m.slots)
     ELSE /\ \E n \in Left(m) : Sends(n, SearchGame)
          /\ Put(m.game, [Absent EXCEPT !.ttl = NewTicks])
          /\ update' = FALSE
  /\ UNCHANGED <<advVars, before>>

(* A record the list may already have is replaced.  It is created now: no  *)
(* other record was created later.                                         *)
onCreateGame(m) ==
  /\ m.type = "create"
  /\ \E n \in Left(m) : Sends(n, SearchGame)
  /\ Put(m.game, [Absent EXCEPT !.ttl = NewTicks, !.created = TRUE])
  /\ \E S \in SUBSET Created(m.game) : CreatedBetween(m.game, S, {})
  /\ update' = FALSE
  /\ UNCHANGED advVars

onDecreateGame(m) ==
  /\ m.type = "decreate"
  /\ \E n \in Left(m) : net' = n
  /\ Put(m.game, Absent) /\ before' = Without({m.game})
  /\ update' = games[m.game].info
  /\ UNCHANGED advVars

(* An unknown game was created as long ago as its UptimeSec says; of one   *)
(* that was known only by a refresh, created is not set.  The user is told *)
(* also if nothing but UptimeSec is new.                                   *)
onGameInfo(m) ==
  LET game == games[m.game] IN
  /\ m.type = "info"
  /\ \E n \in Left(m) : net' = n
  /\ Put(m.game, [info |-> TRUE, slots |-> m.slots, ttl |-> InfoTicks,
                  created |-> game.created \/ ~ Known(m.game)])
  /\ IF Known(m.game) THEN UNCHANGED before
     ELSE \E S \in SUBSET Created(m.game) : \E T \in SUBSET (Created(m.game) \ S) :
            CreatedBetween(m.game, S, T)
  /\ \E aged \in BOOLEAN : update' = (~ game.info \/ game.slots # m.slots \/ aged)
  /\ UNCHANGED advVars

(* Mutant: a record never expires.                                         *)
expire_Never(g) == games[g]

(* expire deletes a record whose time has passed.                          *)
expire(g) ==
  IF games[g].ttl <= 1 THEN Absent ELSE [games[g] EXCEPT !.ttl = @ - 1]

(* A tick of runSearch: SearchGame is broadcast, then expire.  No datagram *)
(* is in flight for a whole tick.                                          *)
runSearch ==
  /\ IF onPort THEN Sends({}, SearchGame) ELSE net' = {}
  /\ games' = [g \in Ids |-> expire(g)]
  /\ LET gone == {g \in Ids : Known(g) /\ expire(g) = Absent} IN
       before' = Without(gone) /\ update' = (gone # {})
  /\ UNCHANGED advVars
-----------------------------------------------------------------------------
Receive(m) == onRefreshGame(m) \/ onCreateGame(m) \/ onDecreateGame(m) \/ onGameInfo(m)

Next ==
  \/ \E s \in menu : Create(s) \/ Refresh(s)
  \/ refresh \/ Close \/ onSearchGame \/ runSearch
  \/ \E m \in net : Receive(m)

Spec == Init /\ [][Next]_vars

(* Steps after which the datagram that was sent is on its way.             *)
SearchSent == runSearch /\ (onPort => SearchGame \in net')
RefreshSent == refresh /\ RefreshGame(hosted, slots) \in net'
InfoSent == onSearchGame /\ GameInfo(hosted, slots) \in net'
HostedRefresh == \E m \in net : onRefreshGame(m) /\ m.game = hosted
HostedAsked == \E m \in net : /\ onRefreshGame(m) /\ m.game = hosted
                              /\ ~ Known(hosted) /\ SearchGame \in net'
HostedInfo == \E m \in net : onGameInfo(m) /\ m.game = hosted

(* The timers run, and a datagram that is sent again and again arrives and *)
(* is handled.                                                             *)
FairSpec ==
  /\ Spec
  /\ SF_vars(SearchSent) /\ SF_vars(RefreshSent) /\ SF_vars(InfoSent)
  /\ SF_vars(HostedRefresh) /\ SF_vars(HostedAsked) /\ SF_vars(HostedInfo)
-----------------------------------------------------------------------------
Messages == {SearchGame} \cup {CreateGame(g) : g \in Ids} \cup {DecreateGame(g) : g \in Ids}
            \cup {RefreshGame(g, s) : g \in Ids, s \in Slots}
            \cup {GameInfo(g, s) : g \in Ids, s \in Slots}

TypeOK ==
  /\ onPort \in BOOLEAN /\ menu \subseteq Slots
  /\ hosted \in 0..MaxGames /\ last \in 0..MaxGames /\ slots \in Slots \cup {NoSlots}
  /\ net \subseteq Messages /\ Cardinality(net) <= MaxNet
  /\ games \in [Ids -> [info : BOOLEAN, slots : Slots \cup {NoSlots}, created : BOOLEAN,
                        ttl : 0..InfoTicks \cup 0..NewTicks]]
  /\ before \subseteq {p \in Ids \X Ids : games[p[1]].created /\ games[p[2]].created}
  /\ update \in BOOLEAN

(* The list tells its user of every change of what Games() may return but  *)
(* one: a CreateGame that comes when the list has the game's info already  *)
(* hides the game in silence.                                              *)
ChangesToldStep ==
  Games' # Games => update' \/ \E m \in net : onCreateGame(m) /\ games[m.game].info

(* "keeps track of all the hosted games" (gamelist_udp.go:28): a game that *)
(* stays hosted is again and again the one listed, with its slots, though  *)
(* datagrams are lost, if the advertiser hears the broadcasts.             *)
Hosts(g, s) == onPort /\ hosted = g /\ slots = s
HostedAreListed ==
  \A g \in Ids, s \in Slots : <>[]Hosts(g, s) => []<>(Games = {<<g, s>>})

(* The same for an advertiser on a port of its own.                        *)
HostedAreListedAnyPort ==
  \A g \in Ids, s \in Slots : <>[](hosted = g /\ slots = s) => []<>(Games = {<<g, s>>})

(* A game whose advertiser has closed or died disappears from the list,    *)
(* and stays away, whatever datagrams are late.                            *)
GoneAreUnlisted == \A g \in Ids : <>[](hosted # g) => <>[](~ Listed(g))
=============================================================================
