------------------------------ MODULE ChatBot -------------------------------
(***************************************************************************)
(* Remote procedure calls of the chat bot (network/chat): several          *)
(* goroutines call RPC while Run handles the packets that arrive.  An      *)
(* attempt that times out or is refused for its rate is made again after a *)
(* pause, with a new request id.                                           *)
(*                                                                         *)
(* The server is external: it carries a request out or refuses it, late,   *)
(* in any order, perhaps never, and may answer twice.                      *)
(***************************************************************************)
EXTENDS Naturals, FiniteSets

CONSTANTS
  Callers,   \* goroutines that call RPC, each with a command of its own
  Nil,       \* no answer
  Pause,     \* first pause before an attempt is repeated, in seconds
  MaxPause,  \* an attempt is not repeated after a pause of this length
  MaxRid     \* bound on the request ids

VARIABLES
  rid,       \* Bot.rid
  conn,      \* whether the connection is open
  pc,        \* where RPC is: "idle", "send", "wait", "sleep" or "done"
  mine,      \* the request id of the caller's attempt
  d,         \* the pause RPC has reached
  rsp,       \* the channel of the attempt: an answer, or Nil
  result,    \* what RPC has returned
  requests,  \* requests the server has received
  answers,   \* answers that have not been read
  executed   \* how often the server has carried out the caller's command

callVars == <<pc, mine, d, rsp, result>>
vars == <<rid, conn, callVars, requests, answers, executed>>

(* Statuses of area 6 are timeouts: the call can be made again.  Of the    *)
(* others, only notConnected does more than end the call.                  *)
Statuses == {"success", "rateLimit", "notConnected"}
IsTimeout(s) == s \in {"rateLimit", "deadline"}

Init ==
  /\ rid = 0 /\ conn = TRUE
  /\ pc = [c \in Callers |-> "idle"]
  /\ mine = [c \in Callers |-> 0]
  /\ d = [c \in Callers |-> Pause]
  /\ rsp = [c \in Callers |-> Nil]
  /\ result = [c \in Callers |-> Nil]
  /\ requests = {} /\ answers = {}
  /\ executed = [c \in Callers |-> 0]
-----------------------------------------------------------------------------
(* RPC starts, or makes another attempt: asyncRPC takes a request id.      *)
RPC(c) ==
  /\ pc[c] \in {"idle", "sleep"} /\ rid < MaxRid
  /\ rid' = rid + 1 /\ mine' = [mine EXCEPT ![c] = rid + 1]
  /\ d' = [d EXCEPT ![c] = IF pc[c] = "sleep" THEN 2 * @ ELSE @]
  /\ rsp' = [rsp EXCEPT ![c] = Nil]
  /\ pc' = [pc EXCEPT ![c] = "send"]
  /\ UNCHANGED <<conn, result, requests, answers, executed>>

(* Mutant: an attempt is repeated for ever.                                *)
Ends_Never(c, s) == ~ IsTimeout(s)

(* An attempt ends: RPC returns, or waits before the next one.             *)
Ends(c, s) == ~ IsTimeout(s) \/ d[c] >= MaxPause

Ended(c, s, res) ==
  IF Ends(c, s)
  THEN pc' = [pc EXCEPT ![c] = "done"] /\ result' = [result EXCEPT ![c] = res]
  ELSE pc' = [pc EXCEPT ![c] = "sleep"] /\ UNCHANGED result

(* The handler is registered before the request is sent.                   *)
send(c) ==
  /\ pc[c] = "send"
  /\ \/ /\ conn
        /\ requests' = requests \cup {[rid |-> mine[c], cmd |-> c]}
        /\ pc' = [pc EXCEPT ![c] = "wait"] /\ UNCHANGED result
     \/ ~ conn /\ Ended(c, "closed", [status |-> "closed"]) /\ UNCHANGED requests
  /\ UNCHANGED <<rid, conn, mine, d, rsp, answers, executed>>

(* select: the deadline of the attempt, or the answer; both may be there.  *)
deadline(c) ==
  /\ pc[c] = "wait"
  /\ Ended(c, "deadline", [status |-> "deadline"])
  /\ UNCHANGED <<rid, conn, mine, d, rsp, requests, answers, executed>>

answered(c) ==
  /\ pc[c] = "wait" /\ rsp[c] # Nil
  /\ Ended(c, rsp[c].status, rsp[c])
  /\ UNCHANGED <<rid, conn, mine, d, rsp, requests, answers, executed>>
-----------------------------------------------------------------------------
(* The server carries a request out, or refuses it.                        *)
Serve(q, s) ==
  /\ q \in requests
  /\ requests' = requests \ {q}
  /\ executed' = IF s = "success" THEN [executed EXCEPT ![q.cmd] = @ + 1] ELSE executed
  /\ answers' = IF conn THEN answers \cup {[rid |-> q.rid, cmd |-> q.cmd, status |-> s]} ELSE {}
  /\ UNCHANGED <<rid, conn, callVars>>

(* Mutant: every attempt takes the answer to its command.                  *)
Takes_Command(c, a) == pc[c] = "wait" /\ a.cmd = c

(* The handler of an attempt that is still waiting takes the answer with   *)
(* its id; a second one is ignored, the channel being full.                *)
Takes(c, a) == pc[c] = "wait" /\ a.rid = mine[c] /\ a.cmd = c

(* Run fires an answer: the handlers of the attempts, and onPacket, which  *)
(* closes the connection when the server says it is not connected.  It may *)
(* come again.                                                             *)
onPacket(a) ==
  /\ conn /\ a \in answers
  /\ rsp' = [c \in Callers |-> IF Takes(c, a) /\ rsp[c] = Nil THEN a ELSE rsp[c]]
  /\ conn' = (a.status # "notConnected")
  /\ answers' \in IF conn' THEN {answers, answers \ {a}} ELSE {{}}
  /\ UNCHANGED <<rid, pc, mine, d, result, requests, executed>>

(* A disconnect event, or any other end of the connection.                 *)
onDisconnectEvent ==
  /\ conn
  /\ conn' = FALSE /\ requests' = {} /\ answers' = {}
  /\ UNCHANGED <<rid, callVars, executed>>
-----------------------------------------------------------------------------
Next ==
  \/ \E c \in Callers : RPC(c) \/ send(c) \/ deadline(c) \/ answered(c)
  \/ \E q \in requests, s \in Statuses : Serve(q, s)
  \/ \E a \in answers : onPacket(a)
  \/ onDisconnectEvent

Spec == Init /\ [][Next]_vars

(* Deadlines pass and pauses end; nothing is asked of the server.          *)
FairSpec ==
  /\ Spec
  /\ \A c \in Callers :
       WF_vars(RPC(c) /\ pc[c] = "sleep") /\ WF_vars(send(c)) /\ WF_vars(deadline(c))
-----------------------------------------------------------------------------
Answers == [rid : 1..MaxRid, cmd : Callers, status : Statuses]

TypeOK ==
  /\ rid \in 0..MaxRid /\ conn \in BOOLEAN
  /\ pc \in [Callers -> {"idle", "send", "wait", "sleep", "done"}]
  /\ mine \in [Callers -> 0..MaxRid]
  /\ d \in [Callers -> Nat]
  /\ rsp \in [Callers -> Answers \cup {Nil}]
  /\ result \in [Callers -> Answers \cup {Nil} \cup [status : {"closed", "deadline"}]]
  /\ requests \subseteq [rid : 1..MaxRid, cmd : Callers]
  /\ answers \subseteq Answers
  /\ executed \in [Callers -> Nat]

(* A call returns the answer to its own last attempt: never that of        *)
(* another call, nor a late one to an attempt that was given up.           *)
OwnAnswer ==
  \A c \in Callers :
    pc[c] = "done" /\ result[c].status \in Statuses => result[c].cmd = c /\ result[c].rid = mine[c]

(* A call that reports success has been carried out, though its attempts   *)
(* may have been given up and repeated.                                    *)
CarriedOut ==
  \A c \in Callers : pc[c] = "done" /\ result[c].status = "success" => executed[c] >= 1

(* A command, whatever its call reports, is not carried out more often     *)
(* than it was attempted: once, and once more for every doubling of the    *)
(* pause.                                                                  *)
AttemptsLimit == \A c \in Callers : Pause * 2^executed[c] <= 2 * d[c]

(* A call returns, whatever the server does: attempts have deadlines and   *)
(* their number is bounded.                                                *)
CallsReturn == \A c \in Callers : pc[c] = "send" ~> pc[c] = "done"
=============================================================================
