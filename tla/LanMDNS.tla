------------------------------ MODULE LanMDNS ------------------------------
(***************************************************************************)
(* Games advertised in a local network with multicast DNS (network/lan): a *)
(* machine hosts games one after the other with an MDNSAdvertiser each,    *)
(* under the same name, and an MDNSGameList keeps the record of that name. *)
(* Datagrams are lost, duplicated and reordered.                           *)
(*                                                                         *)
(* A message is modelled by what its records tell the list: PTR that there *)
(* is a game of that name, SRV (with the A records) its address, and the   *)
(* record of type 66 the game's info.  A host that is not an               *)
(* MDNSAdvertiser, such as the game itself, leaves the info out of its     *)
(* answer to a PTR query; the list then asks for it.                       *)
(***************************************************************************)
EXTENDS Naturals, FiniteSets

CONSTANTS
  MaxGames,   \* the games hosted in a behaviour are 1..MaxGames
  Slots,      \* values of SlotsUsed and SlotsAvailable
  Ticks,      \* ticks a record survives after it was heard of
  MaxNet      \* bound on the datagrams in flight

VARIABLES
  bare,     \* whether the host leaves the info out
  hosted,   \* MDNSAdvertiser.info.HostCounter, 0 if no advertiser runs
  slots,    \* MDNSAdvertiser.info.SlotsUsed and SlotsAvailable
  last,     \* the last game that has been hosted
  net,      \* datagrams in flight
  rec,      \* MDNSGameList.games, for the name
  update    \* whether the last step fired Update{}

advVars == <<bare, hosted, slots, last>>
vars == <<advVars, net, rec, update>>

Ids == 1..MaxGames
NoInfo == <<0, 0>>
Absent == [ttl |-> 0, ip |-> FALSE, info |-> NoInfo]
Found == [ttl |-> Ticks, ip |-> FALSE, info |-> NoInfo]

(* Answers, goodbyes (a PTR record whose TTL is 0) and the two queries.    *)
Answer(ptr, srv, info) == [type |-> "answer", ptr |-> ptr, srv |-> srv, info |-> info]
Bye == [type |-> "bye"]
QueryAll(named) == [type |-> "all", named |-> named]
QueryInfo == [type |-> "info"]

Init ==
  /\ bare \in BOOLEAN
  /\ hosted = 0 /\ slots = 0 /\ last = 0
  /\ net = {} /\ rec = Absent /\ update = FALSE

(* A datagram arrives in the end, or is lost.                              *)
Sends(n, m) == net' \in {n} \cup {k \in {n \cup {m}} : Cardinality(k) <= MaxNet}

(* A datagram is taken from the network, or has been duplicated.           *)
Left(m) == {net \ {m}, net}
-----------------------------------------------------------------------------
(* The advertiser.                                                         *)
addGameInfo == <<hosted, slots>>

Create(s) ==
  /\ hosted = 0 /\ last < MaxGames
  /\ hosted' = last + 1 /\ last' = last + 1 /\ slots' = s
  /\ Sends(net, Answer(TRUE, TRUE, IF bare THEN NoInfo ELSE <<last + 1, s>>))
  /\ update' = FALSE
  /\ UNCHANGED <<bare, rec>>

refresh ==
  /\ hosted # 0
  /\ Sends(net, Answer(FALSE, FALSE, addGameInfo))
  /\ update' = FALSE
  /\ UNCHANGED <<advVars, rec>>

Refresh(s) ==
  /\ hosted # 0
  /\ slots' = s
  /\ Sends(net, Answer(FALSE, FALSE, <<hosted, s>>))
  /\ update' = FALSE
  /\ UNCHANGED <<bare, hosted, last, rec>>

(* Decreate and Close, or an advertiser that dies without Decreate.        *)
Close ==
  /\ hosted # 0
  /\ hosted' = 0 /\ slots' = 0
  /\ Sends(net, Bye)
  /\ update' = FALSE
  /\ UNCHANGED <<bare, last, rec>>

(* Mutant: a question about the game itself is not answered.               *)
Reply_ServiceOnly(m) ==
  Answer(TRUE, TRUE, IF bare THEN NoInfo ELSE addGameInfo)

(* A question about the service is answered with all records, one about    *)
(* the name with the info.                                                 *)
Reply(m) ==
  IF m.type = "info" THEN Answer(FALSE, FALSE, addGameInfo)
  ELSE Answer(TRUE, TRUE, IF bare /\ ~ m.named THEN NoInfo ELSE addGameInfo)

onQuestion(m) ==
  /\ m.type \in {"all", "info"}
  /\ \E n \in Left(m) : IF hosted # 0 THEN Sends(n, Reply(m)) ELSE net' = n
  /\ update' = FALSE
  /\ UNCHANGED <<advVars, rec>>
-----------------------------------------------------------------------------
(* Games(): a record without an address or without a port is left out.     *)
Games == IF rec.ip /\ rec.info # NoInfo THEN {rec.info} ELSE {}

(* A PTR record makes a new record, also of a game that is known.          *)
processPTR(m) == IF m.ptr THEN Found ELSE rec

(* SRV and info records are used if there is a record then.                *)
Filled(m) ==
  LET r == processPTR(m) IN
  [ttl |-> IF m.info # NoInfo THEN Ticks ELSE r.ttl,
   ip |-> r.ip \/ m.srv,
   info |-> IF m.info # NoInfo THEN m.info ELSE r.info]

(* An answer; the info is asked for if it should have come with the PTR.   *)
onAnswer(m) ==
  LET r == processPTR(m) IN
  /\ m.type = "answer"
  /\ \E n \in Left(m) :
       IF m.ptr /\ m.info = NoInfo THEN Sends(n, QueryInfo) ELSE net' = n
  /\ rec' = IF r = Absent THEN rec ELSE Filled(m)
  /\ update' = (r # Absent /\ Filled(m).info # r.info)
  /\ UNCHANGED advVars

(* Mutant: the user is not told.                                           *)
onBye_Silent(m) ==
  /\ m.type = "bye"
  /\ \E n \in Left(m) : net' = n
  /\ rec' = Absent
  /\ update' = FALSE
  /\ UNCHANGED advVars

onBye(m) ==
  /\ m.type = "bye"
  /\ \E n \in Left(m) : net' = n
  /\ rec' = Absent
  /\ update' = TRUE
  /\ UNCHANGED advVars

(* Mutant: a record never expires.                                         *)
expire_Never == rec

expire == IF rec.ttl <= 1 THEN Absent ELSE [rec EXCEPT !.ttl = @ - 1]

(* A tick of runSearch: queryAll, then expire.  No datagram is in flight   *)
(* for a whole tick.                                                       *)
runSearch ==
  /\ Sends({}, QueryAll(rec # Absent))
  /\ rec' = expire
  /\ update' = (rec # Absent /\ expire = Absent)
  /\ UNCHANGED advVars
-----------------------------------------------------------------------------
Next ==
  \/ \E s \in Slots : Create(s) \/ Refresh(s)
  \/ refresh \/ Close \/ runSearch
  \/ \E m \in net : onQuestion(m) \/ onAnswer(m) \/ onBye(m)

Spec == Init /\ [][Next]_vars

(* Steps after which the datagram that was sent is on its way, or an       *)
(* answer about the hosted game has been used.                             *)
QuerySent == runSearch /\ net' # {}
ReplySent(type) ==
  \E m \in net : m.type = type /\ onQuestion(m) /\ hosted # 0 /\ Reply(m) \in net'
InfoUsed(ptr) ==
  \E m \in net : /\ m.type = "answer" /\ m.ptr = ptr /\ m.info = addGameInfo
                 /\ onAnswer(m) /\ rec' # Absent
InfoAsked ==
  \E m \in net : m.type = "answer" /\ m.info = NoInfo /\ onAnswer(m) /\ QueryInfo \in net'

(* The timers run, and a datagram that is sent again and again arrives and *)
(* is handled.                                                             *)
FairSpec ==
  /\ Spec
  /\ SF_vars(QuerySent) /\ SF_vars(ReplySent("all")) /\ SF_vars(ReplySent("info"))
  /\ SF_vars(InfoUsed(FALSE)) /\ SF_vars(InfoAsked) /\ SF_vars(InfoUsed(TRUE))
-----------------------------------------------------------------------------
Infos == Ids \X Slots

Messages ==
  [type : {"answer"}, ptr : BOOLEAN, srv : BOOLEAN, info : Infos \cup {NoInfo}]
  \cup {Bye, QueryInfo} \cup {QueryAll(b) : b \in BOOLEAN}

TypeOK ==
  /\ bare \in BOOLEAN
  /\ hosted \in 0..MaxGames /\ last \in 0..MaxGames /\ slots \in Slots \cup {0}
  /\ net \subseteq Messages /\ Cardinality(net) <= MaxNet
  /\ rec \in [ttl : 0..Ticks, ip : BOOLEAN, info : Infos \cup {NoInfo}]
  /\ update \in BOOLEAN

(* The list tells its user of every change but one: an answer without info *)
(* hides a game that is listed until the info has been asked for, although *)
(* "Update{} when the output of Games() changes" (gamelist_mdns.go:40).    *)
ChangesToldStep ==
  Games' # Games => update' \/ \E m \in net : onAnswer(m) /\ m.ptr /\ m.info = NoInfo

(* "keeps track of all the hosted games" (gamelist_mdns.go:39): a game     *)
(* that stays hosted is listed again and again with its slots, though      *)
(* datagrams are lost and the goodbye of an earlier game of the same name  *)
(* may come late.                                                          *)
Hosts(g, s) == hosted = g /\ slots = s
HostedAreListed ==
  \A g \in Ids, s \in Slots : <>[]Hosts(g, s) => []<>(<<g, s>> \in Games)

(* A game that is not hosted any more disappears from the list.            *)
Listed(g) == \E s \in Slots : <<g, s>> \in Games
GoneAreUnlisted == \A g \in Ids : <>[](hosted # g) => <>[](~ Listed(g))
=============================================================================
