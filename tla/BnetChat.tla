------------------------------ MODULE BnetChat ------------------------------
(***************************************************************************)
(* The chat of the Battle.net client (network/bnet): the connection that a *)
(* Logon has handed over, Run with its keep-alive goroutine, and the users *)
(* of the channel that onChatEvent keeps.  Logon may be called again while *)
(* Run is reading: SetConn then closes the old connection and waits.       *)
(* The server is external: it keeps the users of the client's channel and  *)
(* sends a chat event for each change.                                     *)
(***************************************************************************)
EXTENDS Naturals, Sequences, FiniteSets, Functions

CONSTANTS
  None,        \* a packet about no user
  Users,       \* other users in the channel
  MaxQueue     \* bound on the packets in flight

VARIABLES
  conn,       \* the client's connection: "nil", "open" or "closed"
  logon,      \* whether a Logon is in SetConn
  run,        \* Run: "stopped", "reading" or "stop" (waits for runKeepAlive)
  keepalive,  \* runKeepAlive: "off", "waiting" or "sending"
  room,       \* users in the client's channel, at the server
  queue,      \* packets sent by the server over the connection, not read
  users,      \* Client.users
  told        \* users in the channel according to the events fired

chatVars == <<room, queue, users, told>>
vars == <<conn, logon, run, keepalive, chatVars>>

Init ==
  /\ conn = "nil" /\ logon = FALSE /\ run = "stopped" /\ keepalive = "off"
  /\ room = {} /\ queue = <<>> /\ users = {} /\ told = {}

(* What the server sends for a new channel, the users in some order.       *)
Listing(us) == CHOOSE f \in Injection(1..Cardinality(us), us) : TRUE

Channel(us) ==
  <<<<"channel", None>>>> \o [i \in 1..Cardinality(us) |-> <<"show", Listing(us)[i]>>]

(* A Logon has succeeded: SetConn closes the old connection.               *)
SetConn ==
  /\ ~ logon
  /\ logon' = TRUE
  /\ conn' = IF conn = "nil" THEN "nil" ELSE "closed"
  /\ UNCHANGED <<run, keepalive, chatVars>>

(* It waits for Run to let go of it, and takes the new one, with what the  *)
(* server has sent since JoinChannel.                                      *)
SetConnLock ==
  /\ logon /\ run # "reading"
  /\ logon' = FALSE /\ conn' = "open"
  /\ \E us \in SUBSET Users : room' = us /\ queue' = Channel(us)
  /\ UNCHANGED <<run, keepalive, users, told>>
-----------------------------------------------------------------------------
(* Run and runKeepAlive.                                                   *)
Run ==
  /\ run = "stopped" /\ conn # "nil"
  /\ run' = "reading" /\ keepalive' = "waiting"
  /\ UNCHANGED <<logon, conn, chatVars>>

(* The connection is closed by the user, by the server, or because no      *)
(* packet came in 30 seconds.                                              *)
Close ==
  /\ conn = "open"
  /\ conn' = "closed"
  /\ UNCHANGED <<logon, run, keepalive, chatVars>>

(* Reading fails, cmut is unlocked.                                        *)
RunStop ==
  /\ run = "reading" /\ conn = "closed"
  /\ run' = "stop"
  /\ UNCHANGED <<logon, conn, keepalive, chatVars>>

(* The deferred stop(): runKeepAlive receives it while it is not sending.  *)
stop ==
  /\ run = "stop" /\ keepalive = "waiting"
  /\ run' = "stopped" /\ keepalive' = "off"
  /\ UNCHANGED <<logon, conn, chatVars>>

tick ==
  /\ keepalive = "waiting" /\ keepalive' = "sending"
  /\ UNCHANGED <<logon, conn, run, chatVars>>

(* Send, and AsyncError if it fails.                                       *)
keepAliveSent ==
  /\ keepalive = "sending" /\ keepalive' = "waiting"
  /\ UNCHANGED <<logon, conn, run, chatVars>>
-----------------------------------------------------------------------------
(* The server's side of the chat.                                          *)
Says(packets, us) ==
  /\ conn = "open" /\ Len(queue) + Len(packets) <= MaxQueue
  /\ queue' = queue \o packets /\ room' = us
  /\ UNCHANGED <<logon, conn, run, keepalive, users, told>>

Server ==
  \/ \E us \in SUBSET Users : Says(Channel(us), us)
  \/ \E u \in Users \ room : Says(<<<<"join", u>>>>, room \cup {u})
  \/ \E u \in room : Says(<<<<"leave", u>>>>, room \ {u})
  \/ \E u \in room, type \in {"flags", "talk", "show"} : Says(<<<<type, u>>>>, room)
  \/ \E u \in Users \ room : Says(<<<<"flags", u>>>>, room)
  \/ Says(<<<<"ping", None>>>>, room)

(* Mutant: the users of the last channel stay.                             *)
usersAfter_Kept(e) ==
  CASE e[1] = "channel" -> users
    [] e[1] \in {"show", "join"} -> users \cup {e[2]}
    [] e[1] = "leave" -> users \ {e[2]}
    [] OTHER -> users

usersAfter(e) ==
  CASE e[1] = "channel" -> {}
    [] e[1] \in {"show", "join"} -> users \cup {e[2]}
    [] e[1] = "leave" -> users \ {e[2]}
    [] OTHER -> users

(* The event fired: Channel, UserJoined for a user that was not there      *)
(* (UserUpdate for one that was), UserLeft for one that was; flags and     *)
(* talk of users that are not in the channel are ignored.                  *)
eventFor(e) ==
  CASE e[1] = "channel" -> "Channel"
    [] e[1] \in {"show", "join"} -> IF e[2] \in users THEN "UserUpdate" ELSE "UserJoined"
    [] e[1] = "leave" -> IF e[2] \in users THEN "UserLeft" ELSE "none"
    [] e[1] = "flags" /\ e[2] \in users -> "UserUpdate"
    [] e[1] = "talk" /\ e[2] \in users -> "Chat"
    [] OTHER -> "none"

(* Run fires the packet: onChatEvent, or onPing, which sends it back.      *)
(* What has arrived may still be read when the connection is closed.       *)
onPacket ==
  /\ run = "reading" /\ queue # <<>>
  /\ LET e == Head(queue) event == eventFor(e) IN
     /\ users' = usersAfter(e)
     /\ told' = CASE event = "Channel" -> {}
                  [] event = "UserJoined" -> told \cup {e[2]}
                  [] event = "UserLeft" -> told \ {e[2]}
                  [] OTHER -> told
  /\ queue' = Tail(queue)
  /\ UNCHANGED <<logon, conn, run, keepalive, room>>
-----------------------------------------------------------------------------
Next ==
  \/ SetConn \/ SetConnLock
  \/ Run \/ Close \/ RunStop \/ stop \/ tick \/ keepAliveSent
  \/ Server \/ onPacket

Spec == Init /\ [][Next]_vars

(* Goroutines run; a lock that is released again and again is obtained,    *)
(* and select takes the stop that it is offered at every turn.             *)
FairSpec ==
  /\ Spec
  /\ WF_vars(RunStop) /\ WF_vars(onPacket) /\ WF_vars(keepAliveSent)
  /\ SF_vars(SetConnLock) /\ SF_vars(stop)
-----------------------------------------------------------------------------
TypeOK ==
  /\ conn \in {"nil", "open", "closed"} /\ logon \in BOOLEAN
  /\ run \in {"stopped", "reading", "stop"}
  /\ keepalive \in {"off", "waiting", "sending"}
  /\ users \subseteq Users /\ told \subseteq Users /\ room \subseteq Users
  /\ Len(queue) <= MaxQueue + Cardinality(Users)

(* When every packet has been handled, the client lists exactly the users  *)
(* of its channel, also after a change of channel or a new logon.          *)
UsersUpToDate == run = "reading" /\ conn = "open" /\ queue = <<>> => users = room

(* Who follows the events UserJoined and UserLeft knows the same users as  *)
(* Users() reports.                                                        *)
EventsTellUsers == told = users

(* Run returns after the connection is closed, with its keep-alive.        *)
RunReturns == run = "reading" /\ conn = "closed" ~> run = "stopped" /\ keepalive = "off"

(* Logon ends: its SetConn is not blocked by Run for ever.                 *)
LogonEnds == logon ~> ~ logon
=============================================================================
