----------------------------- MODULE GameProofs -----------------------------
(***************************************************************************)
(* A game, for any finite number of clients: the wait group of Game.Start  *)
(* is exact and players who hang up while others load are held; the lag    *)
(* screen shows the laggers, and before LagTimeout a lagger is dropped     *)
(* only by everybody's vote; every action is sent once and in order.       *)
(***************************************************************************)
EXTENDS MCGame, TLAPS

(* A step that names no prover is tried with SMT, Zenon and SMT again.     *)
USE SMTT(30), ZenonT(30), SMTT(60)

-----------------------------------------------------------------------------
(* The lag screen (module LagScreen).                                      *)

(* The sequence s without its element i.                                   *)
LEMMA CutsOut ==
  ASSUME NEW S, NEW s \in Seq(S), NEW i \in DOMAIN s
  PROVE  LET c == SubSeq(s, 1, i - 1) \o SubSeq(s, i + 1, Len(s)) IN
         /\ c \in Seq(S)
         /\ DOMAIN c = 1..(Len(s) - 1)
         /\ \A j \in 1..(Len(s) - 1) : c[j] = s[IF j < i THEN j ELSE j + 1]
<1> DEFINE a == SubSeq(s, 1, i - 1)
           b == SubSeq(s, i + 1, Len(s))
<1>1. i \in 1..Len(s) /\ Len(s) \in Nat
  OBVIOUS
<1>2. a \in Seq(S) /\ Len(a) = i - 1 /\ \A j \in 1..(i - 1) : a[j] = s[j]
  BY <1>1
<1>3. /\ b \in Seq(S) /\ Len(b) = Len(s) - i
      /\ \A j \in 1..(Len(s) - i) : b[j] = s[i + j]
  BY <1>1
<1> HIDE DEF a, b
<1>4. a \o b \in Seq(S) /\ DOMAIN (a \o b) = 1..(Len(s) - 1)
  BY <1>1, <1>2, <1>3
<1>5. ASSUME NEW j \in 1..(Len(s) - 1) PROVE (a \o b)[j] = s[IF j < i THEN j ELSE j + 1]
  <2>1. CASE j < i
    BY <1>1, <1>2, <1>3, <2>1
  <2>2. CASE ~ j < i
    <3>1. j - (i - 1) \in 1..(Len(s) - i) /\ i + (j - (i - 1)) = j + 1
      BY <1>1, <2>2
    <3>2. (a \o b)[j] = b[j - (i - 1)]
      BY <1>1, <1>2, <1>3, <2>2
    <3> QED BY <1>3, <2>2, <3>1, <3>2
  <2> QED BY <2>1, <2>2, ZenonT(30)
<1> QED BY <1>4, <1>5, ZenonT(30) DEF a, b

Entries == [id : Clients, dur : Nat]

LagTypes ==
  /\ readers \subseteq Clients
  /\ DOMAIN reading = Clients /\ DOMAIN ping = Clients /\ DOMAIN lag = Clients
  /\ laggers \in Seq(Entries)

(* A listed player lags, or the goroutine that ends its lag has not        *)
(* removed it yet; nobody is listed whose lag is starting.                 *)
ListedLag ==
  \A c \in Clients :
    /\ Lag!Listed(c) => \/ lag[c] /\ ping[c] \in {"idle", "waiting", "late"}
                       \/ ping[c] = "stopping" \/ reading[c] = "unlagging"
    /\ reading[c] = "unlagging" => ping[c] = "off"
    /\ ping[c] = "starting" => lag[c]

ShownNow(c) == \E i \in DOMAIN laggers : laggers[i].id = c /\ laggers[i].dur > 0

(* While a lag screen is shown, the vote of every player is missing or has *)
(* been given, except for those who were on it when it was sent.           *)
VotesCounted ==
  /\ \A c \in Clients : reading[c] = "running" => c \in readers
  /\ screen # {} =>
       \A c \in Clients \ observers : reading[c] = "running" => c \in voted \cup dropmask

LagInv ==
  /\ LagTypes
  /\ Lag!ListedOnce
  /\ ListedLag
  /\ \A c : c \in screen <=> ShownNow(c)
  /\ VotesCounted

(* Nobody lags at first.                                                   *)
LEMMA LagInit == Lag!Init => LagInv
BY LagAssumption DEF Lag!Init, LagInv, LagTypes, Lag!ListedOnce, ListedLag, ShownNow, Lag!Listed,
                     VotesCounted

(* The list without its entry i.                                           *)
LEMMA Removes ==
  ASSUME NEW S, NEW s \in Seq(S), NEW i \in DOMAIN s
  PROVE  /\ Lag!Without(s, i) \in Seq(S)
         /\ DOMAIN Lag!Without(s, i) = 1..(Len(s) - 1)
         /\ \A j \in 1..(Len(s) - 1) :
              Lag!Without(s, i)[j] = s[IF j < i THEN j ELSE j + 1]
BY CutsOut, ZenonT(30) DEF Lag!Without

(* The entry of c is gone, every other one is there, in a place of its     *)
(* own.                                                                    *)
LEMMA RemovesLagger ==
  ASSUME LagInv, NEW c \in Clients, Lag!RemoveLagger(c)
  PROVE  /\ laggers' \in Seq(Entries)
         /\ Lag!ListedOnce'
         /\ ~ Lag!Listed(c)'
         /\ \A x : Lag!Listed(x)' => Lag!Listed(x)
         /\ \A x : x \in screen' <=> ShownNow(x)'
         /\ screen' \subseteq screen
         /\ UNCHANGED <<dropmask, voted>>
         /\ \A k \in DOMAIN laggers \cap DOMAIN laggers' :
              laggers[k].id = laggers'[k].id => laggers'[k] = laggers[k]
<1>1. CASE ~ Lag!Listed(c) /\ UNCHANGED <<laggers, screen>>
  BY <1>1 DEF LagInv, LagTypes, Lag!ListedOnce, Lag!Listed, ShownNow, Lag!RemoveLagger
<1>2. ASSUME NEW i \in DOMAIN laggers, laggers[i].id = c, laggers' = Lag!Without(laggers, i),
             screen' = IF laggers[i].dur > 0 THEN screen \ {c} ELSE screen
      PROVE  /\ laggers' \in Seq(Entries)
             /\ Lag!ListedOnce'
             /\ ~ Lag!Listed(c)'
             /\ \A x : Lag!Listed(x)' => Lag!Listed(x)
             /\ \A x : x \in screen' <=> ShownNow(x)'
             /\ screen' \subseteq screen
             /\ \A k \in DOMAIN laggers \cap DOMAIN laggers' :
                  laggers[k].id = laggers'[k].id => laggers'[k] = laggers[k]
  <2> DEFINE at(j) == IF j < i THEN j ELSE j + 1
             n == Len(laggers)
  <2>1. laggers \in Seq(Entries) /\ n \in Nat /\ DOMAIN laggers = 1..n /\ i \in 1..n
    BY DEF LagInv, LagTypes
  <2>2. /\ laggers' \in Seq(Entries)
        /\ DOMAIN laggers' = 1..(n - 1)
        /\ \A j \in 1..(n - 1) : laggers'[j] = laggers[at(j)]
    BY <1>2, <2>1, Removes
  <2>3. /\ \A j \in 1..(n - 1) : at(j) \in 1..n /\ at(j) # i
        /\ \A j, k \in 1..(n - 1) : at(j) = at(k) => j = k
        /\ \A j \in 1..(n - 1) : at(j) = j \/ at(j) = j + 1
        /\ \A j \in 1..n : j # i => \E k \in 1..(n - 1) : at(k) = j
    <3>1. ASSUME NEW j \in 1..n, j # i PROVE \E k \in 1..(n - 1) : at(k) = j
      <4>1. CASE j < i
        <5>1. j \in 1..(n - 1) /\ at(j) = j
          BY <2>1, <4>1
        <5> QED BY <5>1
      <4>2. CASE ~ j < i
        <5>1. j - 1 \in 1..(n - 1) /\ at(j - 1) = j
          BY <2>1, <3>1, <4>2
        <5> QED BY <5>1
      <4> QED BY <4>1, <4>2
    <3> HIDE DEF n
    <3> QED BY <2>1, <3>1
  <2>4. \A j, k \in 1..n : laggers[j].id = laggers[k].id => j = k
    BY <2>1 DEF LagInv, Lag!ListedOnce
  <2> HIDE DEF at, n
  <2>5. Lag!ListedOnce'
    BY <2>2, <2>3, <2>4 DEF Lag!ListedOnce
  <2>6. \A j \in DOMAIN laggers' : laggers'[j].id # c
    <3> TAKE j \in DOMAIN laggers'
    <3>1. at(j) \in 1..n /\ at(j) # i /\ laggers'[j] = laggers[at(j)]
      BY <2>2, <2>3
    <3> QED BY <1>2, <2>1, <2>4, <3>1
  <2>7. \A x : Lag!Listed(x)' => Lag!Listed(x)
    BY <2>1, <2>2, <2>3 DEF Lag!Listed
  <2>8. ASSUME NEW x PROVE ShownNow(x)' <=> ShownNow(x) /\ x # c
    <3>1. ASSUME ShownNow(x)' PROVE ShownNow(x) /\ x # c
      <4>1. PICK j \in DOMAIN laggers' : laggers'[j].id = x /\ laggers'[j].dur > 0
        BY <3>1 DEF ShownNow
      <4>2. at(j) \in DOMAIN laggers /\ laggers'[j] = laggers[at(j)]
        BY <2>1, <2>2, <2>3
      <4> QED BY <2>6, <4>1, <4>2 DEF ShownNow
    <3>2. ASSUME ShownNow(x), x # c PROVE ShownNow(x)'
      <4>1. PICK j \in 1..n : laggers[j].id = x /\ laggers[j].dur > 0
        BY <2>1, <3>2 DEF ShownNow
      <4>2. PICK k \in 1..(n - 1) : at(k) = j
        BY <1>2, <2>3, <3>2, <4>1
      <4> QED BY <2>2, <4>1, <4>2 DEF ShownNow
    <3> QED BY <3>1, <3>2
  <2>9. ShownNow(c) => laggers[i].dur > 0
    BY <1>2, <2>1, <2>4 DEF ShownNow
  <2>10. \A x : x \in screen <=> ShownNow(x)
    BY DEF LagInv
  <2>11. \A k \in DOMAIN laggers \cap DOMAIN laggers' :
           laggers[k].id = laggers'[k].id => laggers'[k] = laggers[k]
    BY <2>1, <2>2, <2>3, <2>4
  <2>12. \A x : x \in screen' <=> x \in screen /\ x # c
    BY <1>2, <2>9, <2>10
  <2>13. ~ Lag!Listed(c)'
    BY <2>6 DEF Lag!Listed
  <2> QED BY <2>2, <2>5, <2>7, <2>8, <2>10, <2>11, <2>12, <2>13
<1> QED BY <1>1, <1>2 DEF Lag!RemoveLagger

(* What is indexed by 1..n is a sequence.                                  *)
LEMMA IsSequence ==
  ASSUME NEW S, NEW n \in Nat, NEW f, f \in [1..n -> S]
  PROVE  f \in Seq(S)
OBVIOUS

(* An entry that keeps its player keeps its place on the list.             *)
LEMMA SamePlayers ==
  ASSUME LagInv, DOMAIN laggers' = DOMAIN laggers,
         \A i \in DOMAIN laggers : laggers'[i].id = laggers[i].id
  PROVE  Lag!ListedOnce' /\ \A c : Lag!Listed(c)' <=> Lag!Listed(c)
BY DEF LagInv, Lag!ListedOnce, Lag!Listed

(* incLaggers with a new lag screen.                                       *)
LEMMA newScreenKeeps ==
  ASSUME LagInv, Lag!newScreen
  PROVE  LagInv' /\ Lag!DroppedByVoteStep
<1>1. /\ laggers' = [i \in DOMAIN laggers |-> [laggers[i] EXCEPT !.dur = Shown]]
      /\ dropmask' = (readers \ observers) \ {l.id : l \in Lag!Range(laggers)}
      /\ screen' = {l.id : l \in Lag!Range(laggers)}
      /\ voted' = screen'
      /\ UNCHANGED <<observers, readers, reading, ping, connected, lag>>
  BY DEF Lag!newScreen
<1>2. laggers \in Seq(Entries) /\ DOMAIN laggers = 1..Len(laggers) /\ Len(laggers) \in Nat
  BY DEF LagInv, LagTypes
<1>3. \A i \in DOMAIN laggers : laggers[i] \in Entries
  BY <1>2
<1>4. /\ DOMAIN laggers' = DOMAIN laggers
      /\ \A i \in DOMAIN laggers :
           laggers'[i] = [id |-> laggers[i].id, dur |-> Shown] /\ laggers'[i] \in Entries
  BY <1>1, <1>3, LagAssumption DEF Entries
<1>5. laggers' \in Seq(Entries)
  <2>1. laggers' \in [1..Len(laggers) -> Entries]
    BY <1>1, <1>2, <1>4, ZenonT(30)
  <2> QED BY <1>2, <2>1, IsSequence, ZenonT(30)
<1>6. \A c : c \in screen' <=> \E i \in DOMAIN laggers : laggers[i].id = c
  BY <1>1 DEF Lag!Range
<1>7. \A c : c \in screen' <=> ShownNow(c)'
  BY <1>4, <1>6, LagAssumption DEF ShownNow
<1>8. \A i \in DOMAIN laggers : laggers'[i].id = laggers[i].id /\ laggers'[i].dur = Shown
  BY <1>4
<1>9. VotesCounted'
  BY <1>1 DEF LagInv, VotesCounted
<1>10. Lag!ListedOnce' /\ ListedLag'
  BY <1>1, <1>4, <1>8, SamePlayers DEF LagInv, ListedLag
<1>11. Lag!DroppedByVoteStep
  BY <1>4, <1>8, LagAssumption DEF Lag!DroppedByVoteStep, Lag!Kicked
<1> QED BY <1>1, <1>5, <1>7, <1>9, <1>10, <1>11 DEF LagInv, LagTypes

(* The rest of incLaggers: the durations grow, and a lagger whose time is  *)
(* over or whom everybody has voted against is kicked.                     *)
LEMMA incLaggersKeeps ==
  ASSUME LagInv, Lag!incLaggers
  PROVE  LagInv' /\ Lag!DroppedByVoteStep
<1> DEFINE grown == [i \in DOMAIN laggers |->
                       IF i \in Lag!Reached /\ laggers[i].dur # Lag!Kicked
                       THEN laggers[i].dur + 1 ELSE laggers[i].dur]
           drop == {i \in Lag!Reached : laggers[i].dur # Lag!Kicked /\ Lag!Expired(grown[i])}
           next(i) == IF i \in drop THEN Lag!Kicked ELSE grown[i]
<1>1. /\ laggers # <<>> /\ Head(laggers).dur # 0
      /\ laggers' = [i \in DOMAIN laggers |-> [laggers[i] EXCEPT !.dur = next(i)]]
      /\ UNCHANGED <<observers, readers, reading, ping, lag, dropmask, screen, voted>>
  BY DEF Lag!incLaggers
<1>2. /\ laggers \in Seq(Entries)
      /\ DOMAIN laggers = 1..Len(laggers) /\ Len(laggers) \in Nat /\ Lag!Kicked \in Nat \ {0}
  BY LagAssumption DEF LagInv, LagTypes, Lag!Kicked
<1>3. \A i \in DOMAIN laggers : laggers[i] \in Entries
  BY <1>2
<1>4. \A i \in DOMAIN laggers : i \in Lag!Reached => laggers[i].dur # 0
  BY <1>2 DEF Lag!Reached
<1>5. ASSUME NEW i \in DOMAIN laggers
      PROVE  next(i) \in Nat /\ (next(i) > 0 <=> laggers[i].dur > 0)
  <2>1. laggers[i].dur \in Nat
    BY <1>3 DEF Entries
  <2>2. grown[i] \in Nat /\ (grown[i] > 0 <=> laggers[i].dur > 0)
    <3>1. CASE i \in Lag!Reached
      BY <1>4, <2>1, <3>1
    <3>2. CASE i \notin Lag!Reached
      BY <2>1, <3>2
    <3> QED BY <3>1, <3>2
  <2>3. i \in drop => laggers[i].dur > 0
    BY <1>4, <2>1
  <2> HIDE DEF grown, drop
  <2> QED BY <1>2, <2>1, <2>2, <2>3
<1> HIDE DEF next
<1>6. /\ DOMAIN laggers' = DOMAIN laggers
      /\ \A i \in DOMAIN laggers :
           laggers'[i] = [id |-> laggers[i].id, dur |-> next(i)] /\ laggers'[i] \in Entries
  BY <1>1, <1>3, <1>5 DEF Entries
<1>7. laggers' \in Seq(Entries)
  <2>1. laggers' \in [1..Len(laggers) -> Entries]
    BY <1>1, <1>2, <1>6, ZenonT(30)
  <2> QED BY <1>2, <2>1, IsSequence, ZenonT(30)
<1>8. \A i \in DOMAIN laggers : laggers'[i].id = laggers[i].id /\ laggers'[i].dur = next(i)
  BY <1>6
<1>9. \A c : ShownNow(c)' <=> ShownNow(c)
  BY <1>5, <1>6, <1>8 DEF ShownNow
<1>10. Lag!ListedOnce' /\ ListedLag'
  BY <1>1, <1>6, <1>8, SamePlayers, ZenonT(30) DEF LagInv, ListedLag
<1>11. VotesCounted'
  BY <1>1 DEF LagInv, VotesCounted
<1>12. Lag!DroppedByVoteStep
  <2> SUFFICES ASSUME NEW i \in DOMAIN laggers, laggers[i].dur + 1 < LagTimeout,
                      laggers'[i].dur = Lag!Kicked,
                      NEW c \in Clients \ observers, reading[c] = "running"
               PROVE  c \in voted
    BY <1>6 DEF Lag!DroppedByVoteStep
  <2>1. laggers[i].dur \in Nat /\ next(i) = Lag!Kicked
    BY <1>3, <1>8 DEF Entries
  <2>2. laggers[i].dur + 1 # Lag!Kicked /\ laggers[i].dur # Lag!Kicked
    BY <2>1, LagAssumption DEF Lag!Kicked
  <2>3. i \in drop /\ grown[i] = laggers[i].dur + 1
    BY <1>2, <2>1, <2>2 DEF next
  <2>4. dropmask = {}
    BY <2>1, <2>3, LagAssumption DEF Lag!Expired
  <2>5. laggers[i].dur > 0
    BY <1>4, <2>1, <2>3
  <2>6. laggers[i].id \in screen
    BY <2>5 DEF LagInv, ShownNow
  <2> QED BY <2>4, <2>6 DEF LagInv, VotesCounted
<1> QED BY <1>1, <1>7, <1>9, <1>10, <1>11, <1>12 DEF LagInv, LagTypes

(* A step that leaves the list and the votes alone.                        *)
LEMMA ListUnchanged ==
  ASSUME LagInv, UNCHANGED <<observers, laggers, dropmask, screen, voted>>,
         LagTypes', ListedLag',
         \A c \in Clients : reading'[c] = "running" => reading[c] = "running" /\ c \in readers'
  PROVE  LagInv' /\ Lag!DroppedByVoteStep
<1>1. \A c : ShownNow(c)' <=> ShownNow(c)
  BY DEF ShownNow
<1>2. Lag!ListedOnce'
  BY DEF LagInv, Lag!ListedOnce
<1>3. VotesCounted'
  BY DEF LagInv, VotesCounted
<1>4. \A i \in DOMAIN laggers : laggers[i].dur \in Nat
  <2>1. \A i \in DOMAIN laggers : laggers[i] \in Entries
    BY DEF LagInv, LagTypes
  <2> QED BY <2>1 DEF Entries
<1>5. Lag!DroppedByVoteStep
  BY <1>4, LagAssumption DEF Lag!DroppedByVoteStep, Lag!Kicked
<1> QED BY <1>1, <1>2, <1>3, <1>5 DEF LagInv

(* A step that removes c from the list.                                    *)
LEMMA ListShrinks ==
  ASSUME LagInv, NEW c \in Clients, Lag!RemoveLagger(c), UNCHANGED <<observers, readers, lag>>,
         DOMAIN reading' = Clients, DOMAIN ping' = Clients,
         \A x \in Clients \ {c} : reading'[x] = reading[x] /\ ping'[x] = ping[x],
         reading'[c] = reading[c] \/ reading'[c] = "ended",
         reading'[c] = "unlagging" => ping'[c] = "off", ping'[c] # "starting"
  PROVE  LagInv' /\ Lag!DroppedByVoteStep
<1>1. /\ laggers' \in Seq(Entries) /\ Lag!ListedOnce' /\ ~ Lag!Listed(c)'
      /\ \A x : Lag!Listed(x)' => Lag!Listed(x)
      /\ \A x : x \in screen' <=> ShownNow(x)'
      /\ screen' \subseteq screen /\ UNCHANGED <<dropmask, voted>>
      /\ \A k \in DOMAIN laggers \cap DOMAIN laggers' :
           laggers[k].id = laggers'[k].id => laggers'[k] = laggers[k]
  BY RemovesLagger
<1>2. LagTypes'
  BY <1>1 DEF LagInv, LagTypes
<1>3. ListedLag'
  BY <1>1 DEF LagInv, ListedLag
<1>4. VotesCounted'
  BY <1>1 DEF LagInv, VotesCounted
<1>5. \A i \in DOMAIN laggers : laggers[i].dur \in Nat
  <2>1. \A i \in DOMAIN laggers : laggers[i] \in Entries
    BY DEF LagInv, LagTypes
  <2> QED BY <2>1 DEF Entries
<1>6. Lag!DroppedByVoteStep
  BY <1>1, <1>5, LagAssumption DEF Lag!DroppedByVoteStep, Lag!Kicked
<1> QED BY <1>1, <1>2, <1>3, <1>4, <1>6 DEF LagInv

(* A vote, or the DropLaggers that RunStop fires.                          *)
LEMMA VoteKeeps ==
  ASSUME LagInv, NEW c \in Clients, reading[c] = "running", Lag!Vote(c),
         UNCHANGED <<observers, readers, ping, lag>>,
         reading' = reading \/ reading' = [reading EXCEPT ![c] = "stopped"]
  PROVE  LagInv' /\ Lag!DroppedByVoteStep
<1>1. UNCHANGED <<laggers, screen>> /\ dropmask' = dropmask \ {c} /\ voted' = voted \cup {c}
  BY DEF Lag!Vote
<1>2. /\ DOMAIN reading' = Clients
      /\ \A x \in Clients : /\ reading'[x] = "running" => reading[x] = "running"
                            /\ reading'[x] = "unlagging" <=> reading[x] = "unlagging"
  BY DEF LagInv, LagTypes
<1>3. /\ \A x : ShownNow(x)' <=> ShownNow(x)
      /\ \A x : Lag!Listed(x)' <=> Lag!Listed(x)
  BY <1>1 DEF ShownNow, Lag!Listed
<1>4. LagTypes' /\ Lag!ListedOnce'
  BY <1>1, <1>2 DEF LagInv, LagTypes, Lag!ListedOnce
<1>5. ListedLag'
  BY <1>2, <1>3 DEF LagInv, ListedLag
<1>6. VotesCounted'
  BY <1>1, <1>2 DEF LagInv, VotesCounted
<1>7. \A i \in DOMAIN laggers : laggers[i].dur \in Nat
  <2>1. \A i \in DOMAIN laggers : laggers[i] \in Entries
    BY DEF LagInv, LagTypes
  <2> QED BY <2>1 DEF Entries
<1>8. Lag!DroppedByVoteStep
  BY <1>1, <1>7, LagAssumption DEF Lag!DroppedByVoteStep, Lag!Kicked
<1> QED BY <1>1, <1>3, <1>4, <1>5, <1>6, <1>8 DEF LagInv

(* A lag that starts puts its player at the end of the list.               *)
LEMMA StartLagKeeps ==
  ASSUME LagInv, NEW c \in Clients, Lag!onStartLag(c)
  PROVE  LagInv' /\ Lag!DroppedByVoteStep
<1> DEFINE e == [id |-> c, dur |-> 0]
           n == Len(laggers)
<1>1. /\ ping[c] = "starting" /\ ping' = [ping EXCEPT ![c] = "late"]
      /\ laggers' = laggers \/ laggers' = Append(laggers, e)
      /\ UNCHANGED <<observers, readers, reading, connected, lag, dropmask, screen, voted>>
  BY DEF Lag!onStartLag
<1>2. laggers \in Seq(Entries) /\ DOMAIN ping = Clients /\ ~ Lag!Listed(c)
  BY <1>1 DEF LagInv, LagTypes, ListedLag
<1>3. n \in Nat /\ DOMAIN laggers = 1..n /\ \A i \in 1..n : laggers[i] \in Entries
  BY <1>2
<1>4. e \in Entries /\ e.id = c /\ e.dur = 0
  BY DEF Entries
<1> HIDE DEF e, n
<1>5. CASE laggers' = Append(laggers, e)
  <2>1. /\ laggers' \in Seq(Entries) /\ DOMAIN laggers' = 1..(n + 1) /\ laggers'[n + 1] = e
        /\ \A i \in 1..n : laggers'[i] = laggers[i]
    BY <1>2, <1>4, <1>5 DEF n
  <2>2. \A i \in 1..(n + 1) : i \in 1..n \/ i = n + 1
    BY <1>3
  <2>3. \A i \in 1..n : i \in 1..(n + 1)
    BY <1>3
  <2>4. Lag!ListedOnce'
    BY <1>2, <1>3, <1>4, <2>1, <2>2 DEF LagInv, Lag!ListedOnce, Lag!Listed
  <2>5. \A x : Lag!Listed(x)' => Lag!Listed(x) \/ x = c
    BY <1>3, <1>4, <2>1, <2>2 DEF Lag!Listed
  <2>6. \A x : ShownNow(x)' <=> ShownNow(x)
    BY <1>3, <1>4, <2>1, <2>2, <2>3 DEF ShownNow
  <2>7. \A i \in DOMAIN laggers \cap DOMAIN laggers' : laggers'[i] = laggers[i]
    BY <1>3, <2>1
  <2>8. ListedLag'
    <3>1. \A x \in Clients : ping'[x] = IF x = c THEN "late" ELSE ping[x]
      BY <1>1, <1>2
    <3>2. lag[c] /\ reading[c] # "unlagging"
      BY <1>1 DEF LagInv, ListedLag
    <3> QED BY <1>1, <2>5, <3>1, <3>2 DEF LagInv, ListedLag
  <2>9. VotesCounted'
    BY <1>1 DEF LagInv, VotesCounted
  <2>10. Lag!DroppedByVoteStep
    BY <1>3, <2>7, LagAssumption DEF Lag!DroppedByVoteStep, Lag!Kicked, Entries
  <2> QED BY <1>1, <1>2, <2>1, <2>4, <2>6, <2>8, <2>9, <2>10 DEF LagInv, LagTypes
<1>6. CASE laggers' = laggers
  <2>1. LagTypes'
    BY <1>1, <1>6 DEF LagInv, LagTypes
  <2>2. ListedLag'
    <3>1. \A x \in Clients : ping'[x] = IF x = c THEN "late" ELSE ping[x]
      BY <1>1, <1>2
    <3>2. \A x : Lag!Listed(x)' <=> Lag!Listed(x)
      BY <1>6 DEF Lag!Listed
    <3>3. reading[c] # "unlagging"
      BY <1>1 DEF LagInv, ListedLag
    <3> QED BY <1>1, <1>2, <3>1, <3>2, <3>3 DEF LagInv, ListedLag
  <2>3. \A x \in Clients : reading'[x] = "running" => reading[x] = "running" /\ x \in readers'
    BY <1>1 DEF LagInv, VotesCounted
  <2> QED BY <1>1, <1>6, <2>1, <2>2, <2>3, ListUnchanged
<1> QED BY <1>1, <1>5, <1>6

(* One step per action of the players' goroutines and the game loop.       *)
LEMMA LagStep ==
  ASSUME LagInv, Lag!Next
  PROVE  LagInv' /\ Lag!DroppedByVoteStep
<1>1. ASSUME NEW c \in Clients,
             Lag!SendPing(c) \/ Lag!Timeout(c) \/ Lag!Pong(c) \/ Lag!Disconnect(c)
               \/ Lag!StopPing(c) \/ Lag!onLeave(c)
      PROVE  LagInv' /\ Lag!DroppedByVoteStep
  <2>1. /\ UNCHANGED <<observers, laggers, dropmask, screen, voted>>
        /\ DOMAIN reading' = Clients /\ DOMAIN ping' = Clients /\ DOMAIN lag' = Clients
        /\ readers' \subseteq readers
        /\ \A x \in Clients \ {c} :
             reading'[x] = reading[x] /\ ping'[x] = ping[x] /\ lag'[x] = lag[x]
    BY <1>1 DEF LagInv, LagTypes, Lag!SendPing, Lag!Timeout, Lag!Pong, Lag!Disconnect,
                Lag!StopPing, Lag!onLeave, Lag!gameVars
  <2>2. \A x : Lag!Listed(x)' <=> Lag!Listed(x)
    BY <2>1 DEF Lag!Listed
  <2>3. LagTypes'
    BY <2>1 DEF LagInv, LagTypes
  <2>4. \A x \in Clients : reading'[x] = "running" => reading[x] = "running" /\ x \in readers'
    BY <1>1 DEF LagInv, LagTypes, VotesCounted, Lag!SendPing, Lag!Timeout, Lag!Pong,
                Lag!Disconnect, Lag!StopPing, Lag!onLeave
  <2>5. /\ Lag!Listed(c) => \/ lag'[c] /\ ping'[c] \in {"idle", "waiting", "late"}
                            \/ ping'[c] = "stopping" \/ reading'[c] = "unlagging"
        /\ reading'[c] = "unlagging" => ping'[c] = "off"
        /\ ping'[c] = "starting" => lag'[c]
    <3>1. /\ Lag!Listed(c) =>
               \/ lag[c] /\ ping[c] \in {"idle", "waiting", "late"}
               \/ ping[c] = "stopping" \/ reading[c] = "unlagging"
          /\ reading[c] = "unlagging" => ping[c] = "off"
          /\ ping[c] = "starting" => lag[c]
          /\ DOMAIN reading = Clients /\ DOMAIN ping = Clients /\ DOMAIN lag = Clients
      BY DEF LagInv, LagTypes, ListedLag
    <3>2. CASE Lag!SendPing(c)
      BY <3>1, <3>2 DEF Lag!SendPing
    <3>3. CASE Lag!Timeout(c)
      BY <3>1, <3>3 DEF Lag!Timeout
    <3>4. CASE Lag!Pong(c)
      BY <3>1, <3>4 DEF Lag!Pong
    <3>5. CASE Lag!StopPing(c)
      BY <3>1, <3>5 DEF Lag!StopPing
    <3>6. CASE Lag!Disconnect(c) \/ Lag!onLeave(c)
      BY <3>1, <3>6 DEF Lag!Disconnect, Lag!onLeave
    <3> QED BY <1>1, <3>2, <3>3, <3>4, <3>5, <3>6, ZenonT(30)
  <2>6. ListedLag'
    BY <2>1, <2>2, <2>5 DEF LagInv, ListedLag
  <2> QED BY <2>1, <2>3, <2>4, <2>6, ListUnchanged
<1>2. ASSUME NEW c \in Clients, Lag!onStopLag(c)
      PROVE  LagInv' /\ Lag!DroppedByVoteStep
  <2>1. /\ Lag!RemoveLagger(c) /\ UNCHANGED <<observers, readers, reading, lag>>
        /\ ping[c] = "stopping" /\ ping' = [ping EXCEPT ![c] = "idle"]
    BY <1>2 DEF Lag!onStopLag
  <2>2. DOMAIN reading = Clients /\ DOMAIN ping = Clients /\ reading[c] # "unlagging"
    BY <2>1 DEF LagInv, LagTypes, ListedLag
  <2>3. /\ DOMAIN ping' = Clients /\ ping'[c] = "idle"
        /\ \A x \in Clients \ {c} : ping'[x] = ping[x]
    BY <2>1, <2>2
  <2> QED BY <2>1, <2>2, <2>3, ListShrinks
<1>3. ASSUME NEW c \in Clients, Lag!StopLagAfterRun(c)
      PROVE  LagInv' /\ Lag!DroppedByVoteStep
  <2>1. /\ Lag!RemoveLagger(c) /\ UNCHANGED <<observers, readers, ping, lag>>
        /\ reading[c] = "unlagging" /\ reading' = [reading EXCEPT ![c] = "ended"]
    BY <1>3 DEF Lag!StopLagAfterRun
  <2>2. DOMAIN reading = Clients /\ DOMAIN ping = Clients /\ ping[c] = "off"
    BY <2>1 DEF LagInv, LagTypes, ListedLag
  <2>3. /\ DOMAIN reading' = Clients /\ reading'[c] = "ended"
        /\ \A x \in Clients \ {c} : reading'[x] = reading[x]
    BY <2>1, <2>2
  <2> QED BY <2>1, <2>2, <2>3, ListShrinks
<1>4. ASSUME NEW c \in Clients, Lag!onDropLaggers(c) \/ Lag!RunStop(c)
      PROVE  LagInv' /\ Lag!DroppedByVoteStep
  <2>1. /\ reading[c] = "running" /\ Lag!Vote(c) /\ UNCHANGED <<observers, readers, ping, lag>>
        /\ reading' = reading \/ reading' = [reading EXCEPT ![c] = "stopped"]
    BY <1>4 DEF Lag!onDropLaggers, Lag!RunStop
  <2> QED BY <2>1, VoteKeeps
<1> QED BY <1>1, <1>2, <1>3, <1>4, StartLagKeeps, newScreenKeeps, incLaggersKeeps
        DEF Lag!Next, Lag!Pinger, Lag!Reader

(* A step of the composition.                                              *)
LEMMA LagSteps ==
  ASSUME LagInv, [MCNext]_<<machine, vars, lagVars, slotVars>>
  PROVE  LagInv' /\ [Lag!DroppedByVoteStep]_lagVars
<1>1. CASE UNCHANGED lagVars
  <2>1. LagTypes' /\ ListedLag'
    BY <1>1 DEF LagInv, LagTypes, ListedLag, Lag!Listed, lagVars
  <2>2. \A x \in Clients : reading'[x] = "running" => reading[x] = "running" /\ x \in readers'
    BY <1>1 DEF LagInv, VotesCounted, lagVars
  <2>3. UNCHANGED <<observers, laggers, dropmask, screen, voted>>
    BY <1>1 DEF lagVars
  <2> QED BY <1>1, <2>1, <2>2, <2>3, ListUnchanged
<1>2. CASE Lag!Next
  BY <1>2, LagStep
<1> QED BY <1>1, <1>2 DEF MCNext

(* The invariant of the lag screen always holds.                           *)
LEMMA LagAlways == MCSpec => []LagInv
<1>1. MCInit => LagInv
  BY LagInit DEF MCInit
<1> QED BY <1>1, LagSteps, PTL DEF MCSpec

(* The lag screens of the clients show exactly the laggers whose duration  *)
(* runs (game.go, incLaggers and onStopLag).                               *)
THEOREM ScreenShowsLaggers == MCSpec => []ScreenMatches
<1>1. LagInv => ScreenMatches
  BY DEF LagInv, ShownNow, ScreenMatches, Lag!ScreenMatches, Lag!Range
<1> QED BY <1>1, LagAlways, PTL

(* No player is listed twice, and a listed player lags until the goroutine *)
(* that ends its lag takes it off the list (game.go, onStartLag and        *)
(* onStopLag).                                                             *)
THEOREM ListedAreLagging == MCSpec => [](Lag!ListedOnce /\ Lag!ListedPlayersLag)
<1>1. LagInv => Lag!ListedOnce /\ Lag!ListedPlayersLag
  BY DEF LagInv, ListedLag, Lag!ListedPlayersLag
<1> QED BY <1>1, LagAlways, PTL

(* Before LagTimeout, a lagger is kicked only when every player who still  *)
(* plays has voted for it since the lag screen was sent (game.go,          *)
(* incLaggers and onDropLaggers).                                          *)
THEOREM DroppedOnlyByVote == MCSpec => DroppedByVote
<1>1. MCInit => LagInv
  BY LagInit DEF MCInit
<1>2. LagInv /\ [MCNext]_<<machine, vars, lagVars, slotVars>>
        => LagInv' /\ [Lag!DroppedByVoteStep]_lagVars
  BY LagSteps
<1> QED BY <1>1, <1>2, PTL DEF MCSpec, DroppedByVote

-----------------------------------------------------------------------------
(* The actions (module TimeSlots).                                         *)

(* The packets have had the actions 1, 2, ... and the queue has the rest.  *)
SlotsInv ==
  /\ accepted \in Nat /\ sent \in Seq(Nat) /\ slots \in Seq(Slots!Packets)
  /\ actions \in Seq(Slots!Actions)
  /\ Len(sent) + Len(actions) = accepted
  /\ \A i \in 1..Len(sent) : sent[i] = i
  /\ \A i \in 1..Len(actions) : actions[i].id = Len(sent) + i

(* Nothing has been sent at first.                                         *)
LEMMA SlotsInit == Slots!Init => SlotsInv
BY DEF Slots!Init, SlotsInv

(* The concatenation has the elements of s and then those of t.            *)
LEMMA Concatenates ==
  ASSUME NEW s \in Seq(Nat), NEW t \in Seq(Nat)
  PROVE  /\ s \o t \in Seq(Nat) /\ Len(s \o t) = Len(s) + Len(t)
         /\ \A i \in 1..Len(s) : (s \o t)[i] = s[i]
         /\ \A i \in 1..Len(t) : (s \o t)[Len(s) + i] = t[i]
OBVIOUS

(* A packet takes the first actions off the queue, as many as it holds.    *)
LEMMA SplitTakes ==
  ASSUME actions \in Seq(Slots!Actions), slots \in Seq(Slots!Packets), Slots!splitActions
  PROVE  \E cut \in 0..Len(actions) :
           /\ actions' = SubSeq(actions, cut + 1, Len(actions))
           /\ slots' \in Seq(Slots!Packets)
           /\ slots'[Len(slots')].actions = SubSeq(actions, 1, cut)
<1>1. PICK cut \in 0..Len(actions) :
        /\ actions' = SubSeq(actions, cut + 1, Len(actions))
        /\ slots' = Append(slots, [actions |-> SubSeq(actions, 1, cut),
                                  fragment |-> cut < Len(actions)])
  BY ZenonT(30) DEF Slots!splitActions
<1> DEFINE slot == [actions |-> SubSeq(actions, 1, cut), fragment |-> cut < Len(actions)]
<1>2. SubSeq(actions, 1, cut) \in Seq(Slots!Actions)
  OBVIOUS
<1>3. slot \in Slots!Packets /\ slot.actions = SubSeq(actions, 1, cut)
  BY <1>2 DEF Slots!Packets
<1>4. slots' = Append(slots, slot)
  BY <1>1
<1> HIDE DEF slot
<1>5. slots' \in Seq(Slots!Packets) /\ slots'[Len(slots')] = slot
  BY <1>3, <1>4
<1> QED BY <1>1, <1>3, <1>5

(* A step of TimeSlots.                                                    *)
LEMMA SlotsStep ==
  ASSUME SlotsInv, Slots!Next
  PROVE  SlotsInv'
<1>1. CASE Slots!BeginTurn
  <2>1. <<>> \in Seq(Slots!Packets)
    OBVIOUS
  <2> QED BY <1>1, <2>1 DEF Slots!BeginTurn, SlotsInv
<1>2. CASE Slots!SendSlot
  <2>1. /\ actions \in Seq(Slots!Actions) /\ slots \in Seq(Slots!Packets) /\ sent \in Seq(Nat)
        /\ Slots!splitActions
    BY <1>2 DEF SlotsInv, Slots!SendSlot
  <2>2. PICK cut \in 0..Len(actions) :
          /\ actions' = SubSeq(actions, cut + 1, Len(actions))
          /\ slots' \in Seq(Slots!Packets)
          /\ slots'[Len(slots')].actions = SubSeq(actions, 1, cut)
    BY <2>1, SplitTakes
  <2>3. sent' = sent \o Slots!Ids(SubSeq(actions, 1, cut)) /\ UNCHANGED accepted
    BY <1>2, <2>2 DEF Slots!SendSlot
  <2> DEFINE taken == Slots!Ids(SubSeq(actions, 1, cut))
             m == Len(sent)
             n == Len(actions)
  <2>4. m \in Nat /\ n \in Nat /\ cut \in 0..n
    BY <2>1
  <2>5. /\ actions' \in Seq(Slots!Actions) /\ Len(actions') = n - cut
        /\ \A i \in 1..(n - cut) : actions'[i] = actions[cut + i]
    BY <2>1, <2>2
  <2>6. m + n = accepted /\ (\A i \in 1..m : sent[i] = i)
        /\ \A i \in 1..n : actions[i].id = m + i
    BY DEF SlotsInv
  <2>7. taken \in Seq(Nat) /\ Len(taken) = cut /\ \A i \in 1..cut : taken[i] = m + i
    <3> DEFINE front == SubSeq(actions, 1, cut)
    <3>1. DOMAIN front = 1..cut /\ \A i \in 1..cut : front[i] = actions[i]
      BY <2>1, <2>4
    <3>2. taken = [i \in 1..cut |-> m + i]
      BY <2>4, <2>6, <3>1 DEF Slots!Ids
    <3> HIDE DEF taken, m, n
    <3> QED BY <2>4, <3>2
  <2>12. sent' = sent \o taken
    BY <2>3
  <2> HIDE DEF taken
  <2>8. /\ sent' \in Seq(Nat) /\ Len(sent') = m + cut
        /\ \A i \in 1..m : sent'[i] = sent[i]
        /\ \A i \in 1..cut : sent'[m + i] = taken[i]
    BY <2>1, <2>7, <2>12, Concatenates, ZenonT(30)
  <2> HIDE DEF m, n
  <2>9. ASSUME NEW i \in 1..(m + cut) PROVE sent'[i] = i
    <3>1. CASE i \in 1..m
      BY <2>6, <2>8, <3>1
    <3>2. CASE i \notin 1..m
      <4>1. i - m \in 1..cut /\ m + (i - m) = i
        BY <2>4, <3>2
      <4> QED BY <2>7, <2>8, <4>1, ZenonT(30)
    <3> QED BY <3>1, <3>2
  <2>10. ASSUME NEW i \in 1..(n - cut) PROVE actions'[i].id = m + cut + i
    <3>1. cut + i \in 1..n /\ m + (cut + i) = m + cut + i
      BY <2>4
    <3> QED BY <2>5, <2>6, <3>1
  <2>11. (m + cut) + (n - cut) = accepted /\ accepted \in Nat
    BY <2>4, <2>6
  <2> QED BY <2>2, <2>3, <2>5, <2>8, <2>9, <2>10, <2>11, ZenonT(30) DEF SlotsInv
<1>3. ASSUME NEW size \in DataSizes, Slots!EnqueueAction(size)
      PROVE  SlotsInv'
  <2> DEFINE a == [id |-> accepted + 1, size |-> size]
             n == Len(actions)
  <2>1. actions' = Append(actions, a) /\ accepted' = accepted + 1 /\ UNCHANGED <<slots, sent>>
    BY <1>3 DEF Slots!EnqueueAction
  <2>2. /\ actions \in Seq(Slots!Actions) /\ n \in Nat /\ accepted \in Nat /\ Len(sent) \in Nat
        /\ Len(sent) + n = accepted /\ \A i \in 1..n : actions[i].id = Len(sent) + i
    BY DEF SlotsInv
  <2>3. a \in Slots!Actions /\ a.id = accepted + 1
    BY <2>2 DEF Slots!Actions
  <2> HIDE DEF a
  <2>4. /\ actions' \in Seq(Slots!Actions) /\ Len(actions') = n + 1 /\ actions'[n + 1] = a
        /\ \A i \in 1..n : actions'[i] = actions[i]
    BY <2>1, <2>2, <2>3
  <2> HIDE DEF n
  <2>5. \A i \in 1..(n + 1) : actions'[i].id = Len(sent) + i
    <3> SUFFICES ASSUME NEW i \in 1..(n + 1) PROVE actions'[i].id = Len(sent) + i
      OBVIOUS
    <3>1. CASE i = n + 1
      <4>1. Len(sent) + i = accepted + 1
        BY <2>2, <3>1
      <4> QED BY <2>3, <2>4, <3>1, <4>1
    <3>2. CASE i # n + 1
      <4>1. i \in 1..n
        BY <2>2, <3>2
      <4> QED BY <2>2, <2>4, <4>1
    <3> QED BY <3>1, <3>2
  <2> QED BY <2>1, <2>2, <2>4, <2>5 DEF SlotsInv
<1> QED BY <1>1, <1>2, <1>3 DEF Slots!Next, Slots!onGameAction

(* Every action that is accepted is sent once and in the order of          *)
(* EnqueueAction, however the turns are split (game.go, splitActions).     *)
THEOREM SendsActionsInOrder == MCSpec => []ActionsInOrder
<1>1. MCInit => SlotsInv
  BY SlotsInit DEF MCInit
<1>2. SlotsInv /\ [MCNext]_<<machine, vars, lagVars, slotVars>> => SlotsInv'
  <2>1. SlotsInv /\ UNCHANGED slotVars => SlotsInv'
    BY DEF SlotsInv, slotVars
  <2> QED BY <2>1, SlotsStep DEF MCNext
<1>3. SlotsInv => ActionsInOrder
  <2> SUFFICES ASSUME SlotsInv PROVE Slots!ActionsInOrder
    BY DEF ActionsInOrder
  <2> DEFINE ids == Slots!Ids(actions)
             m == Len(sent)
             n == Len(actions)
             all == sent \o ids
  <2>1. m \in Nat /\ n \in Nat /\ m + n = accepted /\ sent \in Seq(Nat) /\ DOMAIN actions = 1..n
    BY DEF SlotsInv
  <2>2. ids = [i \in 1..n |-> m + i]
    BY <2>1 DEF SlotsInv, Slots!Ids
  <2>3. ids \in Seq(Nat) /\ Len(ids) = n /\ \A i \in 1..n : ids[i] = m + i
    <3> HIDE DEF ids, m, n
    <3> QED BY <2>1, <2>2
  <2> HIDE DEF ids
  <2>4. /\ all \in Seq(Nat) /\ Len(all) = m + n
        /\ \A i \in 1..m : all[i] = sent[i]
        /\ \A i \in 1..n : all[m + i] = ids[i]
    BY <2>1, <2>3
  <2>5. \A i \in 1..m : sent[i] = i
    BY DEF SlotsInv
  <2> HIDE DEF all, m, n
  <2>6. ASSUME NEW i \in 1..(m + n) PROVE all[i] = i
    <3>1. CASE i \in 1..m
      BY <2>4, <2>5, <3>1
    <3>2. CASE i \notin 1..m
      <4>1. i - m \in 1..n /\ m + (i - m) = i
        BY <2>1, <3>2
      <4> QED BY <2>3, <2>4, <4>1, ZenonT(30)
    <3> QED BY <3>1, <3>2
  <2>7. DOMAIN all = 1..accepted /\ all = [i \in DOMAIN all |-> all[i]]
    BY <2>1, <2>4
  <2> QED BY <2>1, <2>6, <2>7, ZenonT(30) DEF Slots!ActionsInOrder, all, ids
<1> QED BY <1>1, <1>2, <1>3, PTL DEF MCSpec

-----------------------------------------------------------------------------
(* Start (module GameStart).  HandlersHold is not inductive: what holds a  *)
(* player is its RunStop handler, so the invariant says who has that       *)
(* handler while the game loads, and that only the end of the wait or a    *)
(* Start that came too late lets a player reach onLeave.                   *)
INSTANCE FiniteSetTheorems

(* The players the wait group waits for.                                   *)
Loaders == {c \in Clients : onLoaded[c]}

StartTypes ==
  /\ IsFiniteSet(Clients)
  /\ players \subseteq Clients
  /\ pc \in [Clients -> {"idle", "running", "waiting", "ended", "gone"}]
  /\ onLoaded \in [Clients -> BOOLEAN]
  /\ onStop \in [Clients -> BOOLEAN]

Registered == \A c \in Clients : pc[c] \in {"running", "waiting", "ended"} => c \in players

LockedAfterStart == stage # "Lobby" => locked

(* While the game loads: every player who is read from has the handler,    *)
(* and one who is past its wait although the wait goes on is stranded.     *)
Held ==
  stage = "Loading" =>
    \A c \in Clients : /\ pc[c] = "running" => onStop[c]
                       /\ pc[c] = "ended" /\ wg > 0 => onLoaded[c]

StartInv == StartTypes /\ wg = Cardinality(Loaders) /\ Registered /\ LockedAfterStart /\ Held

(* Before anybody joins nobody is counted and no handler is registered.    *)
LEMMA StartInit == IsFiniteSet(Clients) /\ Init => StartInv
<1> SUFFICES ASSUME IsFiniteSet(Clients), Init PROVE StartInv
  OBVIOUS
<1>1. Loaders = {}
  BY DEF Init, Loaders, none
<1>2. wg = Cardinality(Loaders)
  BY <1>1, FS_EmptySet DEF Init
<1>3. StartTypes
  BY DEF Init, StartTypes, none
<1>4. Registered /\ LockedAfterStart /\ Held
  BY DEF Init, Registered, LockedAfterStart, Held
<1> QED BY <1>2, <1>3, <1>4 DEF StartInv

(* GameLoaded counts a player down exactly if its handler is registered.   *)
LEMMA FireCounts ==
  ASSUME StartTypes, wg = Cardinality(Loaders), NEW c \in Clients, FireGameLoaded(c)
  PROVE  /\ wg' = Cardinality(Loaders')
         /\ wg' > 0 => wg > 0
         /\ onLoaded' \in [Clients -> BOOLEAN]
         /\ \A e \in Clients : e # c => onLoaded'[e] = onLoaded[e]
<1>1. IsFiniteSet(Loaders) /\ Cardinality(Loaders) \in Nat
  BY FS_Subset, FS_CardinalityType DEF StartTypes, Loaders
<1>2. /\ onLoaded' \in [Clients -> BOOLEAN]
      /\ \A e \in Clients : e # c => onLoaded'[e] = onLoaded[e]
      /\ ~ onLoaded'[c]
  BY DEF FireGameLoaded, StartTypes
<1>3. Loaders' = Loaders \ {c}
  BY <1>2 DEF Loaders
<1>4. CASE onLoaded[c]
  <2>1. c \in Loaders /\ wg' = wg - 1
    BY <1>4 DEF Loaders, FireGameLoaded
  <2>2. Cardinality(Loaders \ {c}) = Cardinality(Loaders) - 1
    BY <1>1, <2>1, FS_RemoveElement, ZenonT(30)
  <2> QED BY <1>1, <1>2, <1>3, <2>1, <2>2
<1>5. CASE ~ onLoaded[c]
  <2>1. c \notin Loaders /\ wg' = wg
    BY <1>5 DEF Loaders, FireGameLoaded
  <2> QED BY <1>2, <1>3, <2>1
<1> QED BY <1>4, <1>5

(* A step that changes neither the wait group nor its handlers.            *)
LEMMA KeepsCount ==
  ASSUME StartInv, UNCHANGED <<onLoaded, wg>>
  PROVE  wg' = Cardinality(Loaders') /\ IsFiniteSet(Clients)
BY DEF StartInv, StartTypes, Loaders

(* Joining is refused once Start has locked the lobby.                     *)
LEMMA JoinPreserves ==
  ASSUME StartInv, NEW c \in Clients, Join(c)
  PROVE  StartInv'
<1>1. /\ players' = players \cup {c} /\ pc' = [pc EXCEPT ![c] = "running"]
      /\ UNCHANGED <<stage, locked, onLoaded, onStop, wg>> /\ ~ locked
  BY DEF Join, handlers
<1>2. stage = "Lobby"
  BY <1>1 DEF StartInv, LockedAfterStart
<1>3. wg' = Cardinality(Loaders')
  BY <1>1, KeepsCount
<1>4. StartTypes' /\ Registered'
  BY <1>1 DEF StartInv, StartTypes, Registered
<1>5. LockedAfterStart' /\ Held'
  BY <1>1, <1>2 DEF LockedAfterStart, Held
<1> QED BY <1>3, <1>4, <1>5 DEF StartInv

(* Start registers the handlers of all players, also of those whose Run    *)
(* has ended.                                                              *)
LEMMA StartPreserves ==
  ASSUME StartInv, Start
  PROVE  StartInv'
<1>1. /\ wg' = Cardinality(players) /\ stage' = "Loading" /\ locked'
      /\ onLoaded' = [c \in Clients |-> c \in players]
      /\ onStop' = [c \in Clients |-> c \in players]
      /\ UNCHANGED <<players, pc>>
  BY DEF Start, swapStage, connVars
<1>2. Loaders' = players
  BY <1>1, ZenonT(30) DEF Loaders, StartInv, StartTypes
<1>3. StartTypes' /\ Registered' /\ LockedAfterStart'
  BY <1>1 DEF StartInv, StartTypes, Registered, LockedAfterStart
<1>4. Held'
  BY <1>1, ZenonT(30) DEF StartInv, Held, Registered
<1> QED BY <1>1, <1>2, <1>3, <1>4 DEF StartInv

(* GameLoaded counts down its player at most once.                         *)
LEMMA GameLoadedPreserves ==
  ASSUME StartInv, NEW c \in Clients, GameLoaded(c)
  PROVE  StartInv'
<1>1. /\ FireGameLoaded(c) /\ pc[c] = "running"
      /\ UNCHANGED <<stage, locked, players, pc, onStop>>
  BY DEF GameLoaded, Reads, connVars
<1>2. /\ wg' = Cardinality(Loaders')
      /\ wg' > 0 => wg > 0
      /\ onLoaded' \in [Clients -> BOOLEAN]
      /\ \A e \in Clients : e # c => onLoaded'[e] = onLoaded[e]
  BY <1>1, FireCounts DEF StartInv
<1>3. StartTypes' /\ Registered' /\ LockedAfterStart'
  BY <1>1, <1>2 DEF StartInv, StartTypes, Registered, LockedAfterStart
<1>4. Held'
  BY <1>1, <1>2 DEF StartInv, Held
<1> QED BY <1>2, <1>3, <1>4 DEF StartInv

(* A player who is read from while the game loads has the handler, and     *)
(* waits.                                                                  *)
LEMMA RunStopPreserves ==
  ASSUME StartInv, NEW c \in Clients, RunStop(c)
  PROVE  StartInv'
<1>1. pc[c] = "running" /\ UNCHANGED <<stage, locked, players, onStop>>
  BY DEF RunStop
<1>2. CASE onStop[c]
  <2>1. FireGameLoaded(c) /\ pc' = [pc EXCEPT ![c] = "waiting"]
    BY <1>2 DEF RunStop
  <2>2. /\ wg' = Cardinality(Loaders')
        /\ wg' > 0 => wg > 0
        /\ onLoaded' \in [Clients -> BOOLEAN]
        /\ \A e \in Clients : e # c => onLoaded'[e] = onLoaded[e]
    BY <2>1, FireCounts DEF StartInv
  <2>3. StartTypes' /\ Registered' /\ LockedAfterStart'
    BY <1>1, <2>1, <2>2, ZenonT(30) DEF StartInv, StartTypes, Registered, LockedAfterStart
  <2>4. Held'
    BY <1>1, <2>1, <2>2 DEF StartInv, StartTypes, Held
  <2> QED BY <2>2, <2>3, <2>4 DEF StartInv
<1>3. CASE ~ onStop[c]
  <2>1. UNCHANGED <<wg, onLoaded>> /\ pc' = [pc EXCEPT ![c] = "ended"]
    BY <1>3 DEF RunStop
  <2>2. stage # "Loading"
    BY <1>1, <1>3 DEF StartInv, Held
  <2>3. wg' = Cardinality(Loaders')
    BY <2>1, KeepsCount
  <2>4. StartTypes' /\ Registered' /\ LockedAfterStart'
    BY <1>1, <2>1 DEF StartInv, StartTypes, Registered, LockedAfterStart
  <2> QED BY <1>1, <2>2, <2>3, <2>4, ZenonT(30) DEF StartInv, Held
<1> QED BY <1>2, <1>3

(* The wait ends when nobody is left to wait for.                          *)
LEMMA WaitOverPreserves ==
  ASSUME StartInv, NEW c \in Clients, WaitOver(c)
  PROVE  StartInv'
<1>1. /\ pc[c] = "waiting" /\ wg = 0 /\ pc' = [pc EXCEPT ![c] = "ended"]
      /\ onStop' = [onStop EXCEPT ![c] = FALSE]
      /\ UNCHANGED <<stage, locked, players, onLoaded, wg>>
  BY DEF WaitOver
<1>2. wg' = Cardinality(Loaders')
  BY <1>1, KeepsCount
<1>3. StartTypes' /\ Registered' /\ LockedAfterStart'
  BY <1>1 DEF StartInv, StartTypes, Registered, LockedAfterStart
<1>4. Held'
  BY <1>1 DEF StartInv, StartTypes, Held
<1> QED BY <1>2, <1>3, <1>4 DEF StartInv

(* Leaving removes a player whose RunStop handler is done or was too late. *)
LEMMA onLeavePreserves ==
  ASSUME StartInv, NEW c \in Clients, onLeave(c)
  PROVE  StartInv'
<1>1. /\ players' = players \ {c} /\ pc' = [pc EXCEPT ![c] = "gone"]
      /\ UNCHANGED <<stage, locked, onLoaded, onStop, wg>>
  BY DEF onLeave, handlers
<1>2. wg' = Cardinality(Loaders')
  BY <1>1, KeepsCount
<1>3. StartTypes' /\ Registered' /\ LockedAfterStart'
  BY <1>1 DEF StartInv, StartTypes, Registered, LockedAfterStart
<1>4. Held'
  BY <1>1 DEF StartInv, StartTypes, Held
<1> QED BY <1>2, <1>3, <1>4 DEF StartInv

(* Every step keeps the wait group exact and the players held.             *)
LEMMA StartStep ==
  ASSUME StartInv, [Next]_vars
  PROVE  StartInv'
<1>1. ASSUME UNCHANGED <<stage, locked, players, pc, onLoaded, onStop, wg>> PROVE StartInv'
  <2>1. wg' = Cardinality(Loaders')
    BY <1>1, KeepsCount
  <2> QED
    BY <1>1, <2>1 DEF StartInv, StartTypes, Registered, LockedAfterStart, Held
<1>2. CASE UNCHANGED vars
  BY <1>1, <1>2 DEF vars, connVars, handlers
<1>3. CASE Start
  BY <1>3, StartPreserves
<1>4. CASE Play \/ Done
  <2>1. /\ stage \in {"Loading", "Playing"} /\ stage' \in {"Playing", "Done"}
        /\ UNCHANGED <<locked, players, pc, onLoaded, onStop, wg>>
    BY <1>4 DEF Play, Done, swapStage, connVars, handlers
  <2>2. wg' = Cardinality(Loaders')
    BY <2>1, KeepsCount
  <2>3. StartTypes' /\ Registered'
    BY <2>1 DEF StartInv, StartTypes, Registered
  <2>4. LockedAfterStart' /\ Held'
    BY <2>1 DEF StartInv, LockedAfterStart, Held
  <2> QED BY <2>2, <2>3, <2>4 DEF StartInv
<1>5. ASSUME NEW c \in Clients, Client(c) PROVE StartInv'
  <2>1. CASE Join(c)
    BY <2>1, JoinPreserves
  <2>2. CASE GameLoaded(c)
    BY <2>2, GameLoadedPreserves
  <2>3. CASE onPong(c) \/ (\E found \in BOOLEAN : onMapState(c, found)) \/ Disconnect(c)
    BY <1>1, <2>3 DEF onPong, onMapState, Disconnect, handlers
  <2> QED BY <1>5, <2>1, <2>2, <2>3 DEF Client
<1>6. ASSUME NEW c \in Clients, Server(c) PROVE StartInv'
  <2>1. CASE ReadyTimeout(c) \/ LoadTimeout(c)
    BY <1>1, <2>1 DEF ReadyTimeout, LoadTimeout, handlers
  <2>2. CASE RunStop(c)
    BY <2>2, RunStopPreserves
  <2>3. CASE WaitOver(c)
    BY <2>3, WaitOverPreserves
  <2>4. CASE onLeave(c)
    BY <2>4, onLeavePreserves
  <2> QED BY <1>6, <2>1, <2>2, <2>3, <2>4 DEF Server, Goroutine
<1> QED BY <1>2, <1>3, <1>4, <1>5, <1>6 DEF Next

(* The counter of Start's wait group is the number of players whose        *)
(* GameLoaded handler has not run: it never becomes negative, which would  *)
(* panic, and reaches zero only when everybody is accounted for, however   *)
(* GameLoaded, RunStop and the timers interleave (game.go:141-161).        *)
THEOREM WaitGroupIsExact == IsFiniteSet(Clients) /\ Spec => []WaitGroupCounts
<1>1. StartInv => WaitGroupCounts
  BY DEF StartInv, Loaders, WaitGroupCounts
<1> QED BY <1>1, StartInit, StartStep, PTL DEF Spec

(* "Do not leave the game until everyone is done loading" (game.go:155)    *)
(* holds of every player whose Run had not ended when Start was called.    *)
THEOREM PlayersAreHeld == IsFiniteSet(Clients) /\ Spec => HandlersHold
<1>1. ASSUME StartInv, Next PROVE HandlersHoldStep
  <2> SUFFICES ASSUME NEW c \in players \ players', stage = "Loading", wg > 0 PROVE Stranded(c)
    BY DEF HandlersHoldStep
  <2>1. c \in Clients
    BY <1>1 DEF StartInv, StartTypes
  <2>2. pc[c] = "ended"
    BY <1>1, ZenonT(30) DEF Next, Start, Play, Done, Client, Server, Goroutine, Join, onPong, onMapState,
                GameLoaded, Disconnect, ReadyTimeout, LoadTimeout, RunStop, WaitOver, onLeave,
                connVars
  <2> QED BY <1>1, <2>1, <2>2 DEF StartInv, Held, Stranded
<1>2. ASSUME StartInv, [Next]_vars PROVE [HandlersHoldStep]_vars
  BY <1>1, <1>2
<1> QED BY <1>2, StartInit, StartStep, PTL DEF Spec, HandlersHold
=============================================================================
