----------------------------- MODULE PacketConn -----------------------------
(***************************************************************************)
(* A packet connection (network/network.go, W3GSConn): one goroutine runs  *)
(* it, others send, close it or replace the underlying net.Conn.  cmut is  *)
(* a readers-writer lock: Run holds a read lock from RunStart to RunStop,  *)
(* NextPacket, Send and Close take another one inside, and SetConn takes   *)
(* the write lock after it has closed the old connection.  cmut is used    *)
(* through what it promises (RWLock); RWMutex implements that.             *)
(***************************************************************************)
EXTENDS Naturals

CONSTANTS
  Runner,    \* the goroutine that calls Run, and the handlers it calls
  Senders,   \* goroutines that call Send
  Setters,   \* goroutines that call SetConn
  Conns,     \* connections
  Nil,       \* no connection, no packet, nobody
  MaxRuns,   \* bound on the calls of Run
  MaxSends   \* bound on the calls of Send

VARIABLES
  readers, writer,  \* cmut
  conn,      \* W3GSConn.conn
  open,      \* the connections that are not closed
  used,      \* history: the connections that have been set
  smut,      \* W3GSConn.smut: the goroutine that holds it
  buf,       \* the encoder's buffer: whose packet it holds
  pc,        \* where each goroutine is
  newConn,   \* the connection a SetConn sets
  runConn,   \* history: the connection when Run fired RunStart
  runs, sends

connVars == <<conn, open, used>>
sendVars == <<smut, buf, sends>>
lockVars == <<readers, writer>>
vars == <<lockVars, connVars, sendVars, pc, newConn, runConn, runs>>

Goroutines == {Runner} \cup Senders \cup Setters

cmut == INSTANCE RWLock WITH Readers <- Goroutines \X {"run", "next", "send"},
                             Writers <- Setters

Goto(g, l) == pc' = [pc EXCEPT ![g] = l]

(* NewW3GSConn(conn) or NewW3GSConn(nil).                                  *)
Init ==
  /\ cmut!Init
  /\ conn \in Conns \cup {Nil} /\ open = Conns /\ used = {conn} \ {Nil}
  /\ smut = Nil /\ buf = Nil
  /\ pc = [g \in Goroutines |-> "idle"]
  /\ newConn = [g \in Setters |-> Nil] /\ runConn = Nil
  /\ runs = 0 /\ sends = 0
-----------------------------------------------------------------------------
(* Close takes and gives back a read lock around conn.Close.               *)
CloseConn == writer = {} /\ open' = open \ {conn}

(* Anyone may close the connection, a handler called by Run as well.       *)
Close ==
  /\ CloseConn
  /\ UNCHANGED <<lockVars, conn, used, sendVars, pc, newConn, runConn, runs>>

(* SetConn: Close, and then wait for the write lock.                       *)
SetConn(g, c) ==
  /\ pc[g] = "idle" /\ c \notin used
  /\ CloseConn
  /\ newConn' = [newConn EXCEPT ![g] = c]
  /\ used' = used \cup ({c} \ {Nil})
  /\ Goto(g, "wait")
  /\ UNCHANGED <<lockVars, conn, sendVars, runConn, runs>>

SetConnLock(g) ==
  /\ pc[g] = "wait"
  /\ cmut!Lock(g)
  /\ Goto(g, "set")
  /\ UNCHANGED <<connVars, sendVars, newConn, runConn, runs>>

SetConnUnlock(g) ==
  /\ pc[g] = "set"
  /\ conn' = newConn[g]
  /\ cmut!Unlock(g)
  /\ newConn' = [newConn EXCEPT ![g] = Nil]
  /\ Goto(g, "idle")
  /\ UNCHANGED <<open, used, sendVars, runConn, runs>>
-----------------------------------------------------------------------------
(* Send, by a sender or by a handler that Run has called.                  *)
CanSend(g) == IF g = Runner THEN pc[g] = "fire" ELSE pc[g] = "idle"

(* It returns io.EOF if there is no connection.                            *)
Send(g) ==
  /\ CanSend(g) /\ sends < MaxSends
  /\ conn # Nil
  /\ sends' = sends + 1
  /\ cmut!RLock(<<g, "send">>)
  /\ Goto(g, "smut")
  /\ UNCHANGED <<connVars, smut, buf, newConn, runConn, runs>>

(* Mutant: does not wait for smut.                                         *)
SendEncode_NoLock(g) ==
  /\ pc[g] = "smut"
  /\ smut' = g /\ buf' = g
  /\ Goto(g, "write")
  /\ UNCHANGED <<lockVars, connVars, sends, newConn, runConn, runs>>

SendEncode(g) ==
  /\ pc[g] = "smut" /\ smut = Nil
  /\ smut' = g /\ buf' = g
  /\ Goto(g, "write")
  /\ UNCHANGED <<lockVars, connVars, sends, newConn, runConn, runs>>

(* The write succeeds, fails or hits its deadline.                         *)
SendWrite(g) ==
  /\ pc[g] = "write"
  /\ smut' = Nil /\ buf' = Nil
  /\ cmut!RUnlock(<<g, "send">>)
  /\ Goto(g, IF g = Runner THEN "fire" ELSE "idle")
  /\ UNCHANGED <<connVars, sends, newConn, runConn, runs>>
-----------------------------------------------------------------------------
(* Run takes the read lock and fires RunStart.                             *)
Run ==
  /\ pc[Runner] = "idle" /\ runs < MaxRuns
  /\ cmut!RLock(<<Runner, "run">>)
  /\ runs' = runs + 1
  /\ runConn' = conn
  /\ Goto(Runner, "next")
  /\ UNCHANGED <<connVars, sendVars, newConn>>

(* NextPacket fails at once without a connection, or with a closed one.    *)
NextPacket ==
  /\ pc[Runner] = "next" /\ writer = {}
  /\ IF conn \notin open
     THEN Goto(Runner, "stop") /\ UNCHANGED lockVars
     ELSE Goto(Runner, "read") /\ cmut!RLock(<<Runner, "next">>)
  /\ UNCHANGED <<connVars, sendVars, newConn, runConn, runs>>

(* Mutant: a read of a closed connection is tried again.                   *)
Read_Retries ==
  /\ pc[Runner] = "read"
  /\ conn \in open
  /\ cmut!RUnlock(<<Runner, "next">>)
  /\ Goto(Runner, "fire") \/ Goto(Runner, "next") \/ Goto(Runner, "stop")
  /\ UNCHANGED <<connVars, sendVars, newConn, runConn, runs>>

(* The read returns a packet, bytes that cannot be deserialized, or an     *)
(* error: the peer has left, the read has timed out, or the connection has *)
(* been closed here.                                                       *)
Read ==
  /\ pc[Runner] = "read"
  /\ cmut!RUnlock(<<Runner, "next">>)
  /\ \/ conn \in open /\ Goto(Runner, "fire")
     \/ conn \in open /\ Goto(Runner, "next")
     \/ Goto(Runner, "stop")
  /\ UNCHANGED <<connVars, sendVars, newConn, runConn, runs>>

(* The handlers of the packet have returned.                               *)
Fire ==
  /\ pc[Runner] = "fire"
  /\ Goto(Runner, "next")
  /\ UNCHANGED <<lockVars, connVars, sendVars, newConn, runConn, runs>>

(* Run fires RunStop and returns.                                          *)
Stop ==
  /\ pc[Runner] = "stop"
  /\ cmut!RUnlock(<<Runner, "run">>)
  /\ runConn' = Nil
  /\ Goto(Runner, "idle")
  /\ UNCHANGED <<connVars, sendVars, newConn, runs>>
-----------------------------------------------------------------------------
RunStep == NextPacket \/ Fire \/ Stop \/ Read
SendStep(g) == SendEncode(g) \/ SendWrite(g)

Next ==
  \/ Close \/ Run \/ RunStep
  \/ \E g \in Setters : \/ \E c \in Conns \cup {Nil} : SetConn(g, c)
                        \/ SetConnLock(g) \/ SetConnUnlock(g)
  \/ \E g \in Senders \cup {Runner} : Send(g) \/ SendStep(g)

Spec == Init /\ [][Next]_vars

(* Goroutines take their steps, and a read of a closed connection returns; *)
(* a read of an open one may block for ever (Run with NoTimeout).          *)
FairSpec ==
  /\ Spec
  /\ WF_vars(NextPacket \/ Fire \/ Stop \/ (conn \notin open /\ Read))
  /\ \A g \in Senders \cup {Runner} : WF_vars(SendStep(g))
  /\ \A g \in Setters : WF_vars(SetConnLock(g) \/ SetConnUnlock(g))
-----------------------------------------------------------------------------
TypeOK ==
  /\ readers \subseteq Goroutines \X {"run", "next", "send"} /\ writer \subseteq Setters
  /\ conn \in Conns \cup {Nil} /\ open \subseteq Conns /\ used \subseteq Conns
  /\ smut \in Goroutines \cup {Nil} /\ buf \in Goroutines \cup {Nil}
  /\ pc \in [Goroutines -> {"idle", "wait", "set", "smut", "write", "next", "read",
                            "fire", "stop"}]
  /\ newConn \in [Setters -> Conns \cup {Nil}] /\ runConn \in Conns \cup {Nil}
  /\ runs \in 0..MaxRuns /\ sends \in 0..MaxSends

(* From RunStart to RunStop every packet comes from one connection, though *)
(* SetConn may be called meanwhile: Run's handlers never see packets of a  *)
(* connection that RunStart did not announce.                              *)
RunKeepsConn == pc[Runner] # "idle" => conn = runConn

(* The bytes a Send writes are those of its own packet: senders share the  *)
(* encoder and its buffer.                                                 *)
SendsOwnPacket == \A g \in Senders \cup {Runner} : pc[g] = "write" => buf = g

(* "SetConn closes the old connection and starts using the new net.Conn"   *)
(* (network.go:223): a connection that has been set and is not the current *)
(* one, nor about to be, is closed.                                        *)
ReplacedAreClosed ==
  \A c \in used : c # conn /\ (\A g \in Setters : newConn[g] # c) => c \notin open

(* SetConn does not wait for ever: closing the old connection ends the Run *)
(* that holds the lock, whose handlers may be sending.                     *)
SetConnEnds == \A g \in Setters : pc[g] = "wait" ~> pc[g] = "idle"

(* A Run whose connection is closed fires RunStop and returns.             *)
RunStops == pc[Runner] # "idle" /\ conn \notin open ~> pc[Runner] = "idle"
=============================================================================
