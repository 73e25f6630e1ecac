----------------------------- MODULE BnetProofs -----------------------------
(***************************************************************************)
(* The chat clients, for any passwords, users and callers: the Battle.net  *)
(* client chats only with a server it has verified and keeps the password  *)
(* the server has, it lists the users of its channel, and a call of the    *)
(* chat bot returns the answer to its own last attempt.                    *)
(***************************************************************************)
EXTENDS MCBnet, FiniteSetTheorems, TLAPS

(* A step that names no prover is tried with SMT, Zenon and SMT again.     *)
USE SMTT(30), ZenonT(30), SMTT(60)

-----------------------------------------------------------------------------
(* Operations of the Battle.net client.                                    *)

(* The exchanges of an operation: EnterChat is the last of Logon, after    *)
(* the proof of the password, and no other operation has it.               *)
LEMMA Operations ==
  ASSUME NEW x \in {Logon!Logon, Logon!CreateAccount, Logon!ChangePassword}
  PROVE  /\ x \in Seq(Logon!Exchanges) /\ Len(x) > 0
         /\ \A i \in DOMAIN x :
              x[i] = "enterChat" => i = Len(x) /\ i > 1 /\ x[i - 1] = "logonProof"
<1>1. /\ Logon!DialWithConn \in Seq(Logon!Exchanges)
      /\ <<"logon", "logonProof", "enterChat">> \in Seq(Logon!Exchanges)
      /\ <<"create">> \in Seq(Logon!Exchanges)
      /\ <<"changePass", "changePassProof">> \in Seq(Logon!Exchanges)
  BY DEF Logon!DialWithConn, Logon!Exchanges
<1>2. CASE x = Logon!Logon
  <2>1. x \in Seq(Logon!Exchanges)
    BY <1>1, <1>2 DEF Logon!Logon
  <2>2. /\ Len(x) = 5 /\ x[1] = "authInfo" /\ x[2] = "authCheck"
        /\ x[3] = "logon" /\ x[4] = "logonProof"
    BY <1>2 DEF Logon!Logon, Logon!DialWithConn
  <2> QED BY <2>1, <2>2
<1>3. CASE x = Logon!CreateAccount
  <2>1. x \in Seq(Logon!Exchanges)
    BY <1>1, <1>3 DEF Logon!CreateAccount
  <2>2. Len(x) = 3 /\ x[1] = "authInfo" /\ x[2] = "authCheck" /\ x[3] = "create"
    BY <1>3 DEF Logon!CreateAccount, Logon!DialWithConn
  <2> QED BY <2>1, <2>2
<1>4. CASE x = Logon!ChangePassword
  <2>1. x \in Seq(Logon!Exchanges)
    BY <1>1, <1>4 DEF Logon!ChangePassword
  <2>2. /\ Len(x) = 4 /\ x[1] = "authInfo" /\ x[2] = "authCheck"
        /\ x[3] = "changePass" /\ x[4] = "changePassProof"
    BY <1>4 DEF Logon!ChangePassword, Logon!DialWithConn
  <2> QED BY <2>1, <2>2
<1> QED BY <1>2, <1>3, <1>4

(* EnterChat is the last exchange, and follows the proof of the password   *)
(* unless that has been accepted.                                          *)
LogonInv ==
  /\ todo \in Seq(Logon!Exchanges)
  /\ \A i \in DOMAIN todo : todo[i] = "enterChat" =>
       /\ i = Len(todo)
       /\ i = 1 => Logon!Accepted
       /\ i > 1 => todo[i - 1] = "logonProof"
  /\ Logon!ChatsWithVerified
  /\ Logon!NoneLeftOpen

(* Nothing runs at first.                                                  *)
LEMMA LogonInit == Logon!Init => LogonInv
BY DEF Logon!Init, LogonInv, Logon!ChatsWithVerified, Logon!NoneLeftOpen

(* An exchange that succeeds is the next one's turn; one that fails ends   *)
(* the operation.                                                          *)
LEMMA LogonStep ==
  ASSUME LogonInv, Logon!Next \/ UNCHANGED logonVars
  PROVE  LogonInv'
<1> USE DEF LogonInv, Logon!ChatsWithVerified, Logon!NoneLeftOpen, Logon!Accepted,
            Logon!VerifyPassword
<1>1. CASE UNCHANGED logonVars
  BY <1>1 DEF logonVars
<1>2. CASE Logon!Dial
  <2>1. /\ todo' \in {Logon!Logon, Logon!CreateAccount, Logon!ChangePassword} /\ open'
        /\ UNCHANGED <<sha1, honest, joined>>
    BY <1>2 DEF Logon!Dial, Logon!Begin
  <2>2. todo' # <<>>
    BY <2>1, Operations
  <2> QED BY <2>1, <2>2, Operations
<1>3. CASE Logon!Exchange
  <2>1. UNCHANGED <<sha1, honest, joined>> /\ todo # <<>> /\ Head(todo) # "enterChat"
    BY <1>3 DEF Logon!Exchange
  <2>2. CASE Logon!Continue /\ (Head(todo) = "logonProof" => Logon!Accepted)
    <3>1. todo' = Tail(todo) /\ open' = (Len(todo) > 1)
      BY <2>2 DEF Logon!Continue
    <3>2. /\ todo' \in Seq(Logon!Exchanges) /\ Len(todo') = Len(todo) - 1
          /\ \A i \in DOMAIN todo' : i + 1 \in DOMAIN todo /\ todo'[i] = todo[i + 1]
      BY <2>1, <3>1
    <3>3. ASSUME NEW i \in DOMAIN todo', todo'[i] = "enterChat"
          PROVE  /\ i = Len(todo')
                 /\ i = 1 => Logon!Accepted'
                 /\ i > 1 => todo'[i - 1] = "logonProof"
      BY <2>1, <2>2, <3>2, <3>3
    <3>4. todo' = <<>> => ~ open'
      <4> HIDE DEF LogonInv
      <4>1. Len(todo) \in Nat
        BY DEF LogonInv
      <4>2. todo' = <<>> => ~ Len(todo) > 1
        <5> SUFFICES ASSUME todo' = <<>> PROVE ~ Len(todo) > 1
          OBVIOUS
        <5>1. Len(todo') = 0
          OBVIOUS
        <5> QED BY <3>2, <4>1, <5>1
      <4> QED BY <3>1, <4>2, ZenonT(30)
    <3> QED BY <2>1, <3>2, <3>3, <3>4
  <2>3. CASE Logon!Fail
    BY <2>1, <2>3 DEF Logon!Fail
  <2> QED BY <1>3, <2>2, <2>3 DEF Logon!Exchange
<1>4. CASE Logon!clanInfo
  BY <1>4 DEF Logon!clanInfo
<1>5. CASE Logon!enterChatFails
  BY <1>5 DEF Logon!enterChatFails, Logon!Fail
<1>6. CASE Logon!logonEnds
  BY <1>6 DEF Logon!logonEnds
<1> QED BY <1>1, <1>2, <1>3, <1>4, <1>5, <1>6 DEF Logon!Next

(* With SRP the client never chats with a server that does not know its    *)
(* password, whatever the server answers (bnet.go, Logon).                 *)
THEOREM VerifiedChat == MCSpec => []ChatsWithVerified
<1>1. MCInit => LogonInv
  BY LogonInit DEF MCInit
<1>2. LogonInv /\ [MCNext]_<<machine, logonVars, chatVars, botVars>> => LogonInv'
  BY LogonStep DEF MCNext
<1>3. LogonInv => ChatsWithVerified
  BY DEF LogonInv, ChatsWithVerified
<1> QED BY <1>1, <1>2, <1>3, PTL DEF MCSpec

(* Every exit of an operation closes its connection or hands it over: none *)
(* is open when no operation runs (bnet.go, the deferred Close).           *)
THEOREM ConnectionsClosed == MCSpec => []Logon!NoneLeftOpen
<1>1. MCInit => LogonInv
  BY LogonInit DEF MCInit
<1>2. LogonInv /\ [MCNext]_<<machine, logonVars, chatVars, botVars>> => LogonInv'
  BY LogonStep DEF MCNext
<1>3. LogonInv => Logon!NoneLeftOpen
  BY DEF LogonInv
<1> QED BY <1>1, <1>2, <1>3, PTL DEF MCSpec

(* ChangePassword changes the client's password only to the one that an    *)
(* honest server has (bnet.go, ChangePassword).                            *)
THEOREM KeepsPassword == MCSpec => PasswordKept
<1>1. Logon!Next => Logon!PasswordKeptStep
  BY ZenonT(30) DEF Logon!Next, Logon!Dial, Logon!Begin, Logon!Exchange, Logon!clanInfo,
         Logon!enterChatFails, Logon!logonEnds, Logon!PasswordKeptStep, Logon!changed,
         Logon!Agrees, Logon!Account
<1>2. [MCNext]_<<machine, logonVars, chatVars, botVars>> => [Logon!PasswordKeptStep]_logonVars
  BY <1>1 DEF MCNext
<1> QED BY <1>2, PTL DEF MCSpec, PasswordKept

-----------------------------------------------------------------------------
(* Calls of the chat bot.                                                  *)

(* What is in the channel of an attempt is the answer to it, and a call    *)
(* that has returned an answer returned that one.                          *)
BotInv ==
  /\ DOMAIN pc = Callers /\ DOMAIN mine = Callers
  /\ DOMAIN rsp = Callers /\ DOMAIN result = Callers
  /\ \A c \in Callers : rsp[c] # None => rsp[c].cmd = c /\ rsp[c].rid = mine[c]
  /\ Bot!OwnAnswer

(* No call has been made at first.                                         *)
LEMMA BotInit == Bot!Init => BotInv
BY DEF Bot!Init, BotInv, Bot!OwnAnswer

(* The end of an attempt, with the answer to it or without one.            *)
LEMMA AttemptEnds ==
  ASSUME BotInv, NEW c \in Callers, NEW s, NEW res, Bot!Ended(c, s, res),
         UNCHANGED <<mine, rsp>>, pc[c] # "done",
         res.status \in Bot!Statuses => res.cmd = c /\ res.rid = mine[c]
  PROVE  BotInv'
<1>1. CASE pc' = [pc EXCEPT ![c] = "done"] /\ result' = [result EXCEPT ![c] = res]
  BY <1>1 DEF BotInv, Bot!OwnAnswer
<1>2. CASE pc' = [pc EXCEPT ![c] = "sleep"] /\ UNCHANGED result
  BY <1>2 DEF BotInv, Bot!OwnAnswer
<1> QED BY <1>1, <1>2 DEF Bot!Ended

(* A new attempt empties the channel, and only the answer with its id and  *)
(* its command is put into it.                                             *)
LEMMA BotStep ==
  ASSUME BotInv, Bot!Next \/ UNCHANGED botVars
  PROVE  BotInv'
<1>1. CASE UNCHANGED botVars
  BY <1>1 DEF BotInv, Bot!OwnAnswer, botVars
<1>2. ASSUME NEW c \in Callers, Bot!RPC(c) PROVE BotInv'
  BY <1>2 DEF BotInv, Bot!OwnAnswer, Bot!RPC
<1>3. ASSUME NEW c \in Callers, Bot!send(c) PROVE BotInv'
  <2>1. CASE pc' = [pc EXCEPT ![c] = "wait"] /\ UNCHANGED result
    BY <1>3, <2>1 DEF BotInv, Bot!OwnAnswer, Bot!send
  <2>2. CASE Bot!Ended(c, "closed", [status |-> "closed"])
    <3>1. [status |-> "closed"].status \notin Bot!Statuses
      BY DEF Bot!Statuses
    <3> QED BY <1>3, <2>2, <3>1, AttemptEnds DEF Bot!send
  <2> QED BY <1>3, <2>1, <2>2 DEF Bot!send
<1>4. ASSUME NEW c \in Callers, Bot!deadline(c) PROVE BotInv'
  <2>1. [status |-> "deadline"].status \notin Bot!Statuses
    BY DEF Bot!Statuses
  <2> QED BY <1>4, <2>1, AttemptEnds DEF Bot!deadline
<1>5. ASSUME NEW c \in Callers, Bot!answered(c) PROVE BotInv'
  <2>1. rsp[c].cmd = c /\ rsp[c].rid = mine[c]
    BY <1>5 DEF BotInv, Bot!answered
  <2> QED BY <1>5, <2>1, AttemptEnds DEF Bot!answered
<1>6. ASSUME NEW q, NEW s, Bot!Serve(q, s) PROVE BotInv'
  BY <1>6 DEF BotInv, Bot!OwnAnswer, Bot!Serve, Bot!callVars
<1>7. ASSUME NEW a, Bot!onPacket(a) PROVE BotInv'
  BY <1>7 DEF BotInv, Bot!OwnAnswer, Bot!onPacket, Bot!Takes
<1>8. CASE Bot!onDisconnectEvent
  BY <1>8 DEF BotInv, Bot!OwnAnswer, Bot!onDisconnectEvent, Bot!callVars
<1> QED BY <1>1, <1>2, <1>3, <1>4, <1>5, <1>6, <1>7, <1>8 DEF Bot!Next

(* RPC returns the answer to its own last attempt, however late, repeated  *)
(* or out of order the answers come (chat.go, RPC).                         *)
THEOREM ReturnsOwnAnswer == MCSpec => []OwnAnswer
<1>1. MCInit => BotInv
  BY BotInit DEF MCInit
<1>2. BotInv /\ [MCNext]_<<machine, logonVars, chatVars, botVars>> => BotInv'
  BY BotStep DEF MCNext
<1>3. BotInv => OwnAnswer
  BY DEF BotInv, OwnAnswer
<1> QED BY <1>1, <1>2, <1>3, PTL DEF MCSpec

(* An answer that says so, wherever it is, was sent by a server that had   *)
(* carried the command out.                                                *)
CarriedInv ==
  /\ executed \in [Callers -> Nat]
  /\ \A q \in requests : q.cmd \in Callers
  /\ \A a \in answers : a.status = "success" => a.cmd \in Callers /\ executed[a.cmd] >= 1
  /\ \A c \in Callers : rsp[c] # None /\ rsp[c].status = "success" => executed[c] >= 1
  /\ Bot!CarriedOut

(* The end of an attempt, with an answer that tells the truth.             *)
LEMMA EndIsTrue ==
  ASSUME BotInv, CarriedInv, NEW c \in Callers, NEW s, NEW res, Bot!Ended(c, s, res),
         UNCHANGED <<rsp, requests, answers, executed>>,
         res.status = "success" => executed[c] >= 1
  PROVE  CarriedInv'
<1>1. CASE pc' = [pc EXCEPT ![c] = "done"] /\ result' = [result EXCEPT ![c] = res]
  BY <1>1 DEF BotInv, CarriedInv, Bot!CarriedOut
<1>2. CASE pc' = [pc EXCEPT ![c] = "sleep"] /\ UNCHANGED result
  BY <1>2 DEF BotInv, CarriedInv, Bot!CarriedOut
<1> QED BY <1>1, <1>2 DEF Bot!Ended

(* A step of a call, of the server or of the network.                      *)
LEMMA CarriedStep ==
  ASSUME BotInv, CarriedInv, Bot!Next \/ UNCHANGED botVars
  PROVE  CarriedInv'
<1>1. CASE UNCHANGED botVars
  BY <1>1 DEF CarriedInv, Bot!CarriedOut, botVars
<1>2. ASSUME NEW c \in Callers, Bot!RPC(c) PROVE CarriedInv'
  BY <1>2 DEF BotInv, CarriedInv, Bot!CarriedOut, Bot!RPC
<1>3. ASSUME NEW c \in Callers, Bot!send(c) PROVE CarriedInv'
  <2>1. CASE /\ pc' = [pc EXCEPT ![c] = "wait"] /\ UNCHANGED result
             /\ requests' = requests \cup {[rid |-> mine[c], cmd |-> c]}
    BY <1>3, <2>1 DEF BotInv, CarriedInv, Bot!CarriedOut, Bot!send
  <2>2. CASE Bot!Ended(c, "closed", [status |-> "closed"]) /\ UNCHANGED requests
    <3>1. [status |-> "closed"].status # "success"
      OBVIOUS
    <3> QED BY <1>3, <2>2, <3>1, EndIsTrue DEF Bot!send
  <2> QED BY <1>3, <2>1, <2>2 DEF Bot!send
<1>4. ASSUME NEW c \in Callers, Bot!deadline(c) PROVE CarriedInv'
  <2>1. [status |-> "deadline"].status # "success"
    OBVIOUS
  <2> QED BY <1>4, <2>1, EndIsTrue DEF Bot!deadline
<1>5. ASSUME NEW c \in Callers, Bot!answered(c) PROVE CarriedInv'
  <2>1. rsp[c].status = "success" => executed[c] >= 1
    BY <1>5 DEF CarriedInv, Bot!answered
  <2> QED BY <1>5, <2>1, EndIsTrue DEF Bot!answered
<1>6. ASSUME NEW q \in requests, NEW s, Bot!Serve(q, s) PROVE CarriedInv'
  <2>1. /\ executed' \in [Callers -> Nat] /\ \A c \in Callers : executed'[c] >= executed[c]
        /\ q.cmd \in Callers /\ (s = "success" => executed'[q.cmd] >= 1)
    BY <1>6 DEF CarriedInv, Bot!Serve
  <2>2. /\ requests' \subseteq requests /\ UNCHANGED <<pc, rsp, result>>
        /\ \A a \in answers' : a \in answers \/ (a.cmd = q.cmd /\ a.status = s)
    BY <1>6 DEF Bot!Serve, Bot!callVars
  <2>3. \A c \in Callers : executed[c] >= 1 => executed'[c] >= 1
    BY <2>1 DEF CarriedInv
  <2> QED BY <2>1, <2>2, <2>3 DEF CarriedInv, Bot!CarriedOut
<1>7. ASSUME NEW a, Bot!onPacket(a) PROVE CarriedInv'
  <2>1. /\ a \in answers /\ answers' \subseteq answers /\ UNCHANGED <<pc, result, requests, executed>>
        /\ \A c \in Callers : rsp'[c] = rsp[c] \/ (rsp'[c] = a /\ a.cmd = c)
    BY <1>7 DEF Bot!onPacket, Bot!Takes
  <2> QED BY <2>1 DEF CarriedInv, Bot!CarriedOut
<1>8. CASE Bot!onDisconnectEvent
  BY <1>8 DEF CarriedInv, Bot!CarriedOut, Bot!onDisconnectEvent, Bot!callVars
<1> QED BY <1>1, <1>2, <1>3, <1>4, <1>5, <1>6, <1>7, <1>8 DEF Bot!Next

(* A call that reports success has been carried out by the server, though  *)
(* attempts are given up and repeated and their answers come late or twice *)
(* (chat.go, RPC).                                                         *)
THEOREM SuccessIsCarriedOut == MCSpec => []Bot!CarriedOut
<1>1. MCInit => BotInv /\ CarriedInv
  BY BotInit DEF MCInit, CarriedInv, Bot!Init, Bot!CarriedOut
<1>2. BotInv /\ CarriedInv /\ [MCNext]_<<machine, logonVars, chatVars, botVars>>
        => BotInv' /\ CarriedInv'
  BY BotStep, CarriedStep DEF MCNext
<1>3. CarriedInv => Bot!CarriedOut
  BY DEF CarriedInv
<1> QED BY <1>1, <1>2, <1>3, PTL DEF MCSpec

-----------------------------------------------------------------------------
(* The users of the channel.                                               *)

(* What a packet does to the list of users, whatever it was before.        *)
Adds(e, u) == e[1] \in {"show", "join"} /\ e[2] = u
Removes(e, u) == e[1] = "channel" \/ (e[1] = "leave" /\ e[2] = u)

(* Whether u will be listed when the packets q have been handled, from the *)
(* list us on: one of them adds it and no later one removes it, or it is   *)
(* listed and none removes it.                                             *)
WillList(q, us, u) ==
  \/ \E i \in DOMAIN q : Adds(q[i], u) /\ \A j \in DOMAIN q : j > i => ~ Removes(q[j], u)
  \/ u \in us /\ \A j \in DOMAIN q : ~ Removes(q[j], u)

Packets ==
  ({"show", "join", "leave", "flags", "talk"} \X Users) \cup ({"channel", "ping"} \X {None})

(* When the packets on their way have been handled, the client lists the   *)
(* users of the channel.                                                   *)
ChatInv ==
  /\ queue \in Seq(Packets) /\ users \subseteq Users /\ room \subseteq Users
  /\ \A u \in Users : WillList(queue, users, u) <=> u \in room
  /\ Chat!EventsTellUsers

(* A packet that is handled.                                               *)
LEMMA HandlesFirst ==
  ASSUME NEW S, NEW q \in Seq(S), q # <<>>, NEW us, NEW vs, NEW u,
         u \in vs <=> Adds(Head(q), u) \/ (u \in us /\ ~ Removes(Head(q), u))
  PROVE  WillList(Tail(q), vs, u) <=> WillList(q, us, u)
<1> DEFINE t == Tail(q)
<1>1. /\ t \in Seq(S) /\ Len(q) = Len(t) + 1 /\ Len(t) \in Nat
      /\ \A i \in 1..Len(t) : t[i] = q[i + 1]
      /\ DOMAIN t = 1..Len(t) /\ DOMAIN q = 1..Len(q) /\ q[1] = Head(q)
  OBVIOUS
<1> HIDE DEF t
<1>2. (\A j \in DOMAIN t : ~ Removes(t[j], u)) <=> \A j \in DOMAIN q : j > 1 => ~ Removes(q[j], u)
  <2>1. ASSUME \A j \in DOMAIN t : ~ Removes(t[j], u), NEW j \in DOMAIN q, j > 1
        PROVE  ~ Removes(q[j], u)
    <3>1. j - 1 \in DOMAIN t /\ t[j - 1] = q[j]
      BY <1>1, <2>1
    <3> QED BY <2>1, <3>1
  <2>2. ASSUME \A j \in DOMAIN q : j > 1 => ~ Removes(q[j], u), NEW j \in DOMAIN t
        PROVE  ~ Removes(t[j], u)
    <3>1. j + 1 \in DOMAIN q /\ j + 1 > 1 /\ t[j] = q[j + 1]
      BY <1>1, <2>2
    <3> QED BY <2>2, <3>1
  <2> QED BY <2>1, <2>2
<1>3. ASSUME NEW i \in DOMAIN t
      PROVE  /\ i + 1 \in DOMAIN q /\ t[i] = q[i + 1]
             /\ (\A j \in DOMAIN t : j > i => ~ Removes(t[j], u))
                  <=> \A j \in DOMAIN q : j > i + 1 => ~ Removes(q[j], u)
  <2>1. i + 1 \in DOMAIN q /\ t[i] = q[i + 1]
    BY <1>1
  <2>2. ASSUME \A j \in DOMAIN t : j > i => ~ Removes(t[j], u),
               NEW j \in DOMAIN q, j > i + 1
        PROVE  ~ Removes(q[j], u)
    <3>1. j - 1 \in DOMAIN t /\ j - 1 > i /\ t[j - 1] = q[j]
      BY <1>1, <2>2
    <3> QED BY <2>2, <3>1
  <2>3. ASSUME \A j \in DOMAIN q : j > i + 1 => ~ Removes(q[j], u),
               NEW j \in DOMAIN t, j > i
        PROVE  ~ Removes(t[j], u)
    <3>1. j + 1 \in DOMAIN q /\ j + 1 > i + 1 /\ t[j] = q[j + 1]
      BY <1>1, <2>3
    <3> QED BY <2>3, <3>1
  <2> QED BY <2>1, <2>2, <2>3
<1>4. ASSUME WillList(t, vs, u) PROVE WillList(q, us, u)
  <2>1. CASE u \in vs /\ \A j \in DOMAIN t : ~ Removes(t[j], u)
    <3>1. 1 \in DOMAIN q /\ \A j \in DOMAIN q : j = 1 \/ j > 1
      BY <1>1
    <3> QED BY <1>1, <1>2, <2>1, <3>1 DEF WillList
  <2>2. ASSUME NEW i \in DOMAIN t, Adds(t[i], u),
               \A j \in DOMAIN t : j > i => ~ Removes(t[j], u)
        PROVE  WillList(q, us, u)
    BY <1>3, <2>2 DEF WillList
  <2> QED BY <1>4, <2>1, <2>2 DEF WillList
<1>5. ASSUME WillList(q, us, u) PROVE WillList(t, vs, u)
  <2>1. 1 \in DOMAIN q /\ \A i \in DOMAIN q : i = 1 \/ (i - 1 \in DOMAIN t /\ i = (i - 1) + 1)
    BY <1>1
  <2>2. CASE u \in us /\ \A j \in DOMAIN q : ~ Removes(q[j], u)
    BY <1>1, <1>2, <2>1, <2>2 DEF WillList
  <2>3. ASSUME NEW i \in DOMAIN q, Adds(q[i], u),
               \A j \in DOMAIN q : j > i => ~ Removes(q[j], u)
        PROVE  WillList(t, vs, u)
    <3>1. CASE i = 1
      BY <1>1, <1>2, <2>3, <3>1 DEF WillList
    <3>2. CASE i - 1 \in DOMAIN t /\ i = (i - 1) + 1
      <4>1. PICK k \in DOMAIN t : i = k + 1
        BY <3>2
      <4> QED BY <1>3, <2>3, <4>1 DEF WillList
    <3> QED BY <2>1, <3>1, <3>2
  <2> QED BY <1>5, <2>2, <2>3 DEF WillList
<1> QED BY <1>4, <1>5 DEF t

(* A packet that is sent.                                                  *)
LEMMA SendsOne ==
  ASSUME NEW S, NEW q \in Seq(S), NEW e \in S, NEW us, NEW u
  PROVE  /\ q \o <<e>> \in Seq(S)
         /\ WillList(q \o <<e>>, us, u)
              <=> Adds(e, u) \/ (WillList(q, us, u) /\ ~ Removes(e, u))
<1> DEFINE r == q \o <<e>>
           n == Len(q) + 1
<1>1. /\ r \in Seq(S) /\ Len(r) = n /\ Len(q) \in Nat /\ r[n] = e
      /\ \A i \in 1..Len(q) : r[i] = q[i]
      /\ DOMAIN r = 1..n /\ DOMAIN q = 1..Len(q)
  OBVIOUS
<1>2. /\ \A i \in DOMAIN q : i \in DOMAIN r /\ r[i] = q[i] /\ n > i
      /\ \A i \in DOMAIN r : i \in DOMAIN q \/ i = n
      /\ n \in DOMAIN r /\ r[n] = e /\ \A i \in DOMAIN r : ~ i > n
  BY <1>1
<1> HIDE DEF r, n
<1>3. ASSUME Adds(e, u) PROVE WillList(r, us, u)
  BY <1>2, <1>3 DEF WillList
<1>4. ASSUME WillList(q, us, u), ~ Removes(e, u) PROVE WillList(r, us, u)
  <2>1. CASE u \in us /\ \A j \in DOMAIN q : ~ Removes(q[j], u)
    BY <1>2, <1>4, <2>1 DEF WillList
  <2>2. ASSUME NEW i \in DOMAIN q, Adds(q[i], u),
               \A j \in DOMAIN q : j > i => ~ Removes(q[j], u)
        PROVE  WillList(r, us, u)
    BY <1>2, <1>4, <2>2 DEF WillList
  <2> QED BY <1>4, <2>1, <2>2 DEF WillList
<1>5. ASSUME WillList(r, us, u), ~ Adds(e, u) PROVE WillList(q, us, u) /\ ~ Removes(e, u)
  <2>1. CASE u \in us /\ \A j \in DOMAIN r : ~ Removes(r[j], u)
    BY <1>2, <2>1 DEF WillList
  <2>2. ASSUME NEW i \in DOMAIN r, Adds(r[i], u),
               \A j \in DOMAIN r : j > i => ~ Removes(r[j], u)
        PROVE  WillList(q, us, u) /\ ~ Removes(e, u)
    BY <1>2, <1>5, <2>2 DEF WillList
  <2> QED BY <1>5, <2>1, <2>2 DEF WillList
<1> QED BY <1>1, <1>3, <1>4, <1>5 DEF r

(* The sequence that Listing makes of a finite set.                        *)
LEMMA ListsAll ==
  ASSUME NEW S, IsFiniteSet(S)
  PROVE  /\ Chat!Cardinality(S) \in Nat
         /\ Chat!Listing(S) \in [1..Chat!Cardinality(S) -> S]
         /\ \A x \in S : \E i \in 1..Chat!Cardinality(S) : Chat!Listing(S)[i] = x
<1> DEFINE n == Cardinality(S)
<1>1. n \in Nat /\ ExistsBijection(1..n, S)
  BY FS_CardinalityType
<1>2. Chat!Cardinality(S) = n
  BY DEF Chat!Cardinality, Cardinality
<1>3. \E f : f \in Injection(1..n, S)
  BY <1>1 DEF ExistsBijection, Bijection
<1>4. Chat!Listing(S) \in Injection(1..n, S)
  BY <1>2, <1>3, ZenonT(30) DEF Chat!Listing, Chat!Injection, Chat!IsInjective, Injection, IsInjective
<1>5. Cardinality(1..n) = n
  BY <1>1, FS_Interval
<1>6. Chat!Listing(S) \in Surjection(1..n, S)
  BY <1>4, <1>5, FS_Injection
<1> QED BY <1>1, <1>2, <1>6 DEF Surjection

(* What the server sends for a new channel replaces the list.              *)
LEMMA SendsChannel ==
  ASSUME NEW q \in Seq(Packets), NEW rm \in SUBSET Users, NEW us, NEW u
  PROVE  /\ Chat!Channel(rm) \in Seq(Packets)
         /\ q \o Chat!Channel(rm) \in Seq(Packets)
         /\ WillList(Chat!Channel(rm), us, u) <=> u \in rm
         /\ WillList(q \o Chat!Channel(rm), us, u) <=> u \in rm
<1> DEFINE m == Chat!Cardinality(rm)
           f == Chat!Listing(rm)
           shows == [i \in 1..m |-> <<"show", f[i]>>]
           c == <<<<"channel", None>>>> \o shows
           r == q \o c
<1>1. IsFiniteSet(rm)
  BY UsersAssumption, FS_Subset
<1>2. m \in Nat /\ f \in [1..m -> rm] /\ \A x \in rm : \E i \in 1..m : f[i] = x
  BY <1>1, ListsAll
<1> HIDE DEF m, f
<1>3. shows \in Seq(Packets) /\ Len(shows) = m
  BY <1>2 DEF Packets
<1>4. <<<<"channel", None>>>> \in Seq(Packets)
  BY DEF Packets
<1>5. /\ c \in Seq(Packets) /\ Len(c) = m + 1 /\ c[1] = <<"channel", None>>
      /\ \A i \in 1..m : c[i + 1] = <<"show", f[i]>>
  <2> HIDE DEF shows
  <2>1. \A i \in 1..m : shows[i] = <<"show", f[i]>>
    BY DEF shows
  <2> QED BY <1>2, <1>3, <1>4, <2>1
<1>6. Chat!Channel(rm) = c
  BY DEF Chat!Channel, m, f
<1> HIDE DEF shows, c
<1>7. ASSUME NEW p \in Seq(Packets), NEW k \in Nat, Len(p) = k + m + 1,
             p[k + 1] = <<"channel", None>>, \A i \in 1..m : p[k + 1 + i] = <<"show", f[i]>>
      PROVE  WillList(p, us, u) <=> u \in rm
  <2>1. DOMAIN p = 1..(k + m + 1) /\ k + 1 \in DOMAIN p
    BY <1>2, <1>7
  <2>2. Removes(p[k + 1], u) /\ ~ Adds(p[k + 1], u)
    BY <1>7 DEF Removes, Adds
  <2>3. \A j \in DOMAIN p : j > k + 1 => j - (k + 1) \in 1..m /\ p[j] = <<"show", f[j - (k + 1)]>>
    BY <1>2, <1>7, <2>1
  <2>4. \A j \in DOMAIN p : j > k + 1 => ~ Removes(p[j], u) /\ (Adds(p[j], u) => u \in rm)
    BY <1>2, <2>3 DEF Removes, Adds
  <2>5. ASSUME u \in rm PROVE WillList(p, us, u)
    <3>1. PICK i \in 1..m : f[i] = u
      BY <1>2, <2>5
    <3>2. k + 1 + i \in DOMAIN p /\ k + 1 + i > k + 1 /\ p[k + 1 + i] = <<"show", u>>
      BY <1>2, <1>7, <2>1, <3>1
    <3>3. Adds(p[k + 1 + i], u)
      BY <3>2 DEF Adds
    <3>4. \A j \in DOMAIN p : j > k + 1 + i => j > k + 1
      BY <1>2, <2>1, <3>1
    <3> QED BY <2>4, <3>2, <3>3, <3>4 DEF WillList
  <2>6. ASSUME WillList(p, us, u) PROVE u \in rm
    <3>1. PICK i \in DOMAIN p : Adds(p[i], u) /\ \A j \in DOMAIN p : j > i => ~ Removes(p[j], u)
      BY <2>1, <2>2, <2>6 DEF WillList
    <3>2. i > k + 1
      BY <2>1, <2>2, <3>1
    <3> QED BY <2>4, <3>1, <3>2
  <2> QED BY <2>5, <2>6
<1>8. WillList(c, us, u) <=> u \in rm
  <2>1. c[0 + 1] = <<"channel", None>> /\ \A i \in 1..m : c[0 + 1 + i] = <<"show", f[i]>>
    <3>1. 0 + 1 = 1 /\ \A i \in 1..m : 0 + 1 + i = i + 1
      BY <1>2
    <3> QED BY <1>5, <3>1, ZenonT(30)
  <2>2. c \in Seq(Packets) /\ 0 \in Nat /\ Len(c) = 0 + m + 1
    BY <1>2, <1>5
  <2> QED BY <1>7, <2>1, <2>2, ZenonT(30)
<1>9. r \in Seq(Packets) /\ (WillList(r, us, u) <=> u \in rm)
  <2>1. /\ r \in Seq(Packets) /\ Len(q) \in Nat /\ Len(r) = Len(q) + Len(c)
        /\ \A i \in 1..Len(c) : r[Len(q) + i] = c[i]
    <3>1. c \in Seq(Packets)
      BY <1>5
    <3> QED BY <3>1
  <2> HIDE DEF r
  <2>2. r[Len(q) + 1] = <<"channel", None>>
    BY <1>2, <1>5, <2>1
  <2>3. \A i \in 1..m : r[Len(q) + 1 + i] = <<"show", f[i]>>
    <3> TAKE i \in 1..m
    <3>1. i + 1 \in 1..Len(c) /\ Len(q) + (i + 1) = Len(q) + 1 + i
      BY <1>2, <1>5, <2>1
    <3>2. r[Len(q) + (i + 1)] = c[i + 1]
      BY <2>1, <3>1
    <3> QED BY <1>5, <3>1, <3>2
  <2>4. Len(r) = Len(q) + m + 1
    BY <1>2, <1>5, <2>1
  <2> QED BY <1>7, <2>1, <2>2, <2>3, <2>4, ZenonT(30)
<1> QED BY <1>5, <1>6, <1>8, <1>9

(* Nobody is in the channel at first.                                      *)
LEMMA ChatInit == Chat!Init => ChatInv
BY DEF Chat!Init, ChatInv, Chat!EventsTellUsers, WillList

(* The server sends one packet about a change of the channel.              *)
LEMMA ServerStep ==
  ASSUME ChatInv, NEW e \in Packets, NEW us \in SUBSET Users, Chat!Says(<<e>>, us),
         \A u \in Users : u \in us <=> Adds(e, u) \/ (u \in room /\ ~ Removes(e, u))
  PROVE  ChatInv'
<1>1. queue' = queue \o <<e>> /\ room' = us /\ UNCHANGED <<users, told>>
  BY DEF Chat!Says
<1>2. queue' \in Seq(Packets)
  BY <1>1, SendsOne DEF ChatInv
<1>3. ASSUME NEW u \in Users PROVE WillList(queue', users', u) <=> u \in room'
  <2>1. WillList(queue', users, u) <=> Adds(e, u) \/ (WillList(queue, users, u) /\ ~ Removes(e, u))
    BY <1>1, SendsOne DEF ChatInv
  <2> QED BY <1>1, <2>1 DEF ChatInv
<1> QED BY <1>1, <1>2, <1>3 DEF ChatInv, Chat!EventsTellUsers

(* Every packet is sent for what happens in the channel, and is handled by *)
(* doing the same to the list.                                             *)
LEMMA ChatStep ==
  ASSUME ChatInv, Chat!Next \/ UNCHANGED chatVars
  PROVE  ChatInv'
<1>1. CASE UNCHANGED Chat!chatVars
  BY <1>1 DEF ChatInv, Chat!chatVars, Chat!EventsTellUsers
<1>2. CASE Chat!SetConnLock
  <2>1. PICK us \in SUBSET Users : room' = us /\ queue' = Chat!Channel(us)
    BY <1>2 DEF Chat!SetConnLock
  <2>2. <<>> \in Seq(Packets)
    OBVIOUS
  <2>3. queue' \in Seq(Packets) /\ \A u \in Users : WillList(queue', users, u) <=> u \in us
    BY <2>1, <2>2, SendsChannel, ZenonT(30)
  <2> QED BY <1>2, <2>1, <2>3 DEF ChatInv, Chat!SetConnLock, Chat!EventsTellUsers
<1>3. CASE Chat!Server
  <2>1. ASSUME NEW us \in SUBSET Users, Chat!Says(Chat!Channel(us), us) PROVE ChatInv'
    <3>1. queue' = queue \o Chat!Channel(us) /\ room' = us /\ UNCHANGED <<users, told>>
      BY <2>1 DEF Chat!Says
    <3>2. queue' \in Seq(Packets) /\ \A u \in Users : WillList(queue', users, u) <=> u \in us
      BY <3>1, SendsChannel DEF ChatInv
    <3> QED BY <3>1, <3>2 DEF ChatInv, Chat!EventsTellUsers
  <2>2. ASSUME NEW v \in Users \ room, Chat!Says(<<<<"join", v>>>>, room \cup {v}) PROVE ChatInv'
    <3>1. <<"join", v>> \in Packets /\ room \cup {v} \in SUBSET Users
      BY <2>2 DEF Packets, ChatInv
    <3>2. \A u \in Users : /\ Adds(<<"join", v>>, u) <=> u = v
                           /\ ~ Removes(<<"join", v>>, u)
      BY DEF Adds, Removes
    <3> QED BY <2>2, <3>1, <3>2, ServerStep
  <2>3. ASSUME NEW v \in room, Chat!Says(<<<<"leave", v>>>>, room \ {v}) PROVE ChatInv'
    <3>1. <<"leave", v>> \in Packets /\ room \ {v} \in SUBSET Users
      BY <2>3 DEF Packets, ChatInv
    <3>2. \A u \in Users : /\ ~ Adds(<<"leave", v>>, u)
                           /\ Removes(<<"leave", v>>, u) <=> u = v
      BY DEF Adds, Removes
    <3> QED BY <2>3, <3>1, <3>2, ServerStep
  <2>4. ASSUME NEW v \in Users, NEW type \in {"flags", "talk", "show"},
               type = "show" => v \in room, Chat!Says(<<<<type, v>>>>, room)
        PROVE  ChatInv'
    <3>1. <<type, v>> \in Packets /\ room \in SUBSET Users
      BY DEF Packets, ChatInv
    <3>2. \A u \in Users : /\ Adds(<<type, v>>, u) => u \in room
                           /\ ~ Removes(<<type, v>>, u)
      BY <2>4 DEF Adds, Removes
    <3> QED BY <2>4, <3>1, <3>2, ServerStep
  <2>5. ASSUME Chat!Says(<<<<"ping", None>>>>, room) PROVE ChatInv'
    <3>1. <<"ping", None>> \in Packets /\ room \in SUBSET Users
      BY DEF Packets, ChatInv
    <3>2. \A u \in Users : ~ Adds(<<"ping", None>>, u) /\ ~ Removes(<<"ping", None>>, u)
      BY DEF Adds, Removes
    <3> QED BY <2>5, <3>1, <3>2, ServerStep
  <2>6. room \subseteq Users
    BY DEF ChatInv
  <2> QED BY <1>3, <2>1, <2>2, <2>3, <2>4, <2>5, <2>6, ZenonT(30) DEF Chat!Server
<1>4. CASE Chat!onPacket
  <2> DEFINE e == Head(queue)
  <2>1. /\ queue # <<>> /\ queue' = Tail(queue) /\ room' = room
        /\ queue \in Seq(Packets) /\ queue' \in Seq(Packets) /\ e \in Packets
    BY <1>4 DEF Chat!onPacket, ChatInv
  <2>2. /\ e[1] \in {"channel", "show", "join", "leave", "flags", "talk", "ping"}
        /\ e[1] \in {"show", "join"} => e[2] \in Users
    BY <2>1 DEF Packets
  <2>3. users' = Chat!usersAfter(e)
    BY <1>4 DEF Chat!onPacket
  <2>4. told' = CASE Chat!eventFor(e) = "Channel" -> {}
                  [] Chat!eventFor(e) = "UserJoined" -> told \cup {e[2]}
                  [] Chat!eventFor(e) = "UserLeft" -> told \ {e[2]}
                  [] OTHER -> told
    BY <1>4 DEF Chat!onPacket
  <2> HIDE DEF e
  <2>5. users' \subseteq Users /\ \A u \in Users :
          u \in users' <=> Adds(e, u) \/ (u \in users /\ ~ Removes(e, u))
    BY <2>2, <2>3 DEF Chat!usersAfter, Adds, Removes, ChatInv
  <2>6. told = users
    BY DEF ChatInv, Chat!EventsTellUsers
  <2>7. told' = users'
    BY <2>2, <2>3, <2>4, <2>6 DEF Chat!usersAfter, Chat!eventFor
  <2>8. ASSUME NEW u \in Users PROVE WillList(queue', users', u) <=> u \in room'
    <3>1. WillList(queue', users', u) <=> WillList(queue, users, u)
      BY <2>1, <2>5, HandlesFirst DEF e
    <3> QED BY <2>1, <3>1 DEF ChatInv
  <2> QED BY <2>1, <2>5, <2>7, <2>8 DEF ChatInv, Chat!EventsTellUsers
<1>5. CASE \/ Chat!SetConn \/ Chat!Run \/ Chat!Close \/ Chat!RunStop
           \/ Chat!stop \/ Chat!tick \/ Chat!keepAliveSent
  BY <1>1, <1>5 DEF Chat!SetConn, Chat!Run, Chat!Close, Chat!RunStop, Chat!stop, Chat!tick,
                    Chat!keepAliveSent
<1>6. UNCHANGED chatVars => UNCHANGED Chat!chatVars
  BY DEF chatVars, Chat!chatVars
<1> QED BY <1>1, <1>2, <1>3, <1>4, <1>5, <1>6 DEF Chat!Next

(* When every packet has been handled, the client lists exactly the users  *)
(* of its channel, also after a change of channel or a new logon (bnet.go, *)
(* onChatEvent).                                                           *)
THEOREM ListsUsers == MCSpec => []UsersUpToDate
<1>1. MCInit => ChatInv
  BY ChatInit DEF MCInit
<1>2. ChatInv /\ [MCNext]_<<machine, logonVars, chatVars, botVars>> => ChatInv'
  BY ChatStep DEF MCNext
<1>3. ChatInv => UsersUpToDate
  BY DEF ChatInv, UsersUpToDate, Chat!UsersUpToDate, WillList
<1> QED BY <1>1, <1>2, <1>3, PTL DEF MCSpec

(* Who follows the events that the client fires knows the users that it    *)
(* lists (bnet.go, onChatEvent).                                           *)
THEOREM TellsUsers == MCSpec => []Chat!EventsTellUsers
<1>1. MCInit => ChatInv
  BY ChatInit DEF MCInit
<1>2. ChatInv /\ [MCNext]_<<machine, logonVars, chatVars, botVars>> => ChatInv'
  BY ChatStep DEF MCNext
<1>3. ChatInv => Chat!EventsTellUsers
  BY DEF ChatInv
<1> QED BY <1>1, <1>2, <1>3, PTL DEF MCSpec
=============================================================================
