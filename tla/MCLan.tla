------------------------------- MODULE MCLan -------------------------------
(***************************************************************************)
(* Small local networks for TLC: games are advertised either with UDP      *)
(* broadcasts or with multicast DNS.  Each initial state chooses one, and  *)
(* the other machine stands still in its initial state.                    *)
(***************************************************************************)
EXTENDS Naturals, FiniteSets

CONSTANTS MaxGames, Slots, InfoTicks, NewTicks, MaxNet

VARIABLES lan,         \* "udp" or "mdns"
          onPort, menu, hosted, slots, last, net, games, before, update,
          bare, mdnsHosted, mdnsSlots, mdnsLast, mdnsNet, rec, mdnsUpdate

(* Two games one after the other with the same slots, or one game whose    *)
(* slots change.                                                           *)
Udp == INSTANCE LanUDP WITH Starts <- {<<0, {1}>>, <<1, Slots>>}, NoSlots <- 0

Mdns == INSTANCE LanMDNS WITH Ticks <- InfoTicks, hosted <- mdnsHosted, slots <- mdnsSlots,
                              last <- mdnsLast, net <- mdnsNet, update <- mdnsUpdate

udpVars == <<onPort, menu, hosted, slots, last, net, games, before, update>>
mdnsVars == <<bare, mdnsHosted, mdnsSlots, mdnsLast, mdnsNet, rec, mdnsUpdate>>
lanVars == <<udpVars, mdnsVars>>

(* A record that was just heard of has time left.                          *)
ASSUME LanAssumption ==
  /\ MaxGames \in Nat /\ 1 \in Slots
  /\ {InfoTicks, NewTicks} \subseteq Nat \ {0}

LanInit ==
  /\ lan \in {"udp", "mdns"} /\ Udp!Init /\ Mdns!Init
  /\ lan = "udp" => bare
  /\ lan = "mdns" => onPort /\ last = 0

LanNext ==
  /\ UNCHANGED lan
  /\ \/ lan = "udp" /\ Udp!Next /\ UNCHANGED mdnsVars
     \/ lan = "mdns" /\ Mdns!Next /\ UNCHANGED udpVars

Either(u, m) == (lan = "udp" /\ u) \/ (lan = "mdns" /\ m)

(* The fairness of LanUDP and of LanMDNS.  As the machine never changes,   *)
(* strong fairness of one action of each is strong fairness of both.       *)
FairStep(u, m) == Either(u /\ UNCHANGED mdnsVars, m /\ UNCHANGED udpVars)

LanSpec ==
  /\ LanInit /\ [][LanNext]_<<lan, lanVars>>
  /\ SF_lanVars(FairStep(Udp!SearchSent, Mdns!QuerySent))
  /\ SF_lanVars(FairStep(Udp!RefreshSent, Mdns!InfoAsked))
  /\ SF_lanVars(FairStep(Udp!InfoSent, Mdns!ReplySent("all")))
  /\ SF_lanVars(FairStep(Udp!HostedRefresh, Mdns!ReplySent("info")))
  /\ SF_lanVars(FairStep(Udp!HostedAsked, Mdns!InfoUsed(FALSE)))
  /\ SF_lanVars(FairStep(Udp!HostedInfo, Mdns!InfoUsed(TRUE)))

(* LanUDP, LanMDNS: the list tells its user of every change of what Games  *)
(* may return, but the one that hides a game it will ask for: a CreateGame *)
(* of a known game, or an answer with a PTR record and without info.       *)
ChangesTold == [][Udp!ChangesToldStep /\ Mdns!ChangesToldStep]_lanVars

(* "Emits ... Update{} when the output of Games() changes"                 *)
(* (gamelist_udp.go:29): UDPGameList tells its user of every change.  It   *)
(* does not: a doubled or late CreateGame hides a game in silence.         *)
UpdateWhenGamesChange == [][Udp!Games' # Udp!Games => update']_lanVars

(* LanUDP, LanMDNS: a game that stays hosted is again and again the one    *)
(* listed, with its slots, though datagrams are lost, duplicated and       *)
(* reordered.                                                              *)
HostedAreListed ==
  \A g \in 1..MaxGames, s \in Slots :
    <>[]Either(Udp!Hosts(g, s), Mdns!Hosts(g, s)) =>
      []<>Either(Udp!Games = {<<g, s>>}, Mdns!Games = {<<g, s>>})

(* LanUDP, LanMDNS: a game that is not hosted any more disappears.         *)
GoneAreUnlisted ==
  \A g \in 1..MaxGames :
    <>[]Either(hosted # g, mdnsHosted # g) => <>[](~ Udp!Listed(g) /\ ~ Mdns!Listed(g))
=============================================================================
