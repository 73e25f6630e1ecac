--------------------------- MODULE MCConnections ---------------------------
(***************************************************************************)
(* Small instances of the hosts of two peers, of a packet connection and   *)
(* of its lock for TLC.  Each initial state chooses one of the machines,   *)
(* and the others stand still in their initial states.                     *)
(***************************************************************************)
EXTENDS PeerHost

CONSTANTS Readers, Writers, Free, Runner, Senders, Setters, NetConns, MaxRuns, MaxSends

VARIABLES machine,
          mutex, rmutex, rcount, pc,
          readers, writer, netConn, open, used, smut, buf, doing, newConn, runConn, runs, sends

(* Goroutines are finitely many, and different from what stands for none.  *)
ASSUME MutexAssumption ==
  /\ IsFiniteSet(Readers) /\ Readers \cap Writers = {}
  /\ Free \notin Readers \cup Writers

(* A goroutine that runs a connection does nothing else.                   *)
ASSUME ConnAssumption ==
  /\ Runner \notin Senders \cup Setters /\ Senders \cap Setters = {}
  /\ Nil \notin {Runner} \cup Senders \cup Setters

(* Both hosts dial each other.                                             *)
BothDial == {[from |-> 1, to |-> 2], [from |-> 2, to |-> 1]}

Mutex == INSTANCE RWMutex

Conn == INSTANCE PacketConn WITH Conns <- NetConns, conn <- netConn, pc <- doing

mutexVars == <<mutex, rmutex, rcount, pc>>
connVars == <<readers, writer, netConn, open, used, smut, buf, doing, newConn, runConn, runs,
              sends>>

MCInit ==
  /\ machine \in {"lock", "conn", "peer"}
  /\ Mutex!Init /\ Conn!Init /\ Init
  /\ machine # "conn" => netConn = Nil
  /\ machine # "peer" => ~faulty

MCNext ==
  /\ UNCHANGED machine
  /\ \/ machine = "lock" /\ Mutex!Next /\ UNCHANGED <<connVars, vars>>
     \/ machine = "conn" /\ Conn!Next /\ UNCHANGED <<mutexVars, vars>>
     \/ machine = "peer" /\ Next /\ UNCHANGED <<mutexVars, connVars>>

(* The fairness of PacketConn and PeerHost.                                *)
MCSpec ==
  /\ MCInit /\ [][MCNext]_<<machine, mutexVars, connVars, vars>>
  /\ WF_connVars(/\ machine = "conn"
                 /\ \/ Conn!NextPacket \/ Conn!Fire \/ Conn!Stop
                    \/ netConn \notin open /\ Conn!Read)
  /\ \A g \in Senders \cup {Runner} : WF_connVars(machine = "conn" /\ Conn!SendStep(g))
  /\ \A g \in Setters :
       WF_connVars(machine = "conn" /\ (Conn!SetConnLock(g) \/ Conn!SetConnUnlock(g)))
  /\ \A e \in Ends : WF_vars(machine = "peer" /\ EndStep(e))
  /\ \A c \in Conns : WF_vars(machine = "peer" /\ AcceptTCP(c))

(* RWMutex: it implements the lock its users rely on.                      *)
Implements == Mutex!Implements

(* PacketConn: Send writes its own packet.                                 *)
SendsOwnPacket == Conn!SendsOwnPacket

(* PacketConn: SetConn does not wait for ever.                             *)
SetConnEnds == Conn!SetConnEnds
=============================================================================
