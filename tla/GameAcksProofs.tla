--------------------------- MODULE GameAcksProofs ---------------------------
(***************************************************************************)
(* Proofs about the acknowledgements of a game.                            *)
(***************************************************************************)
EXTENDS GameAcks, TLAPS

(* A step that names no prover is tried with SMT, Zenon and SMT again.     *)
USE SMTT(30), ZenonT(30), SMTT(60)

(* An entry of the players table is the player with that PlayerID, and its *)
(* goroutine has not called onLeave.                                       *)
PlayersKnown ==
  \A p \in IDs : players[p] # Nobody =>
    pid[players[p]] = p /\ pc[players[p]] \in {"joined", "reading", "ticking"}

(* A goroutine runs for a client that has joined.                          *)
HaveIDs == \A c \in Clients : pc[c] # "idle" \/ drainer = c => pid[c] # 0

AckInv == TypeOK /\ PlayersKnown /\ HaveIDs

(* What the assumption on the constants says of the setup of a game.       *)
LEMMA SetupFacts ==
  ASSUME setup \in Setups
  PROVE  /\ Seated \in [Clients -> IDs \cup {0}] /\ Observers \subseteq Clients
         /\ QueueLimit \in Nat \ {0}
         /\ \A c, d \in Clients : Seated[c] = Seated[d] => c = d \/ Seated[c] = 0
BY AcksAssumption DEF Seated, Observers, QueueLimit

(* Return leaves a goroutine that has not left in the game.                *)
LEMMA ReturnKeeps ==
  ASSUME TypeOK, NEW c \in Clients, Return(c)
  PROVE  /\ pc' \in [Clients -> {"idle", "joined", "reading", "ticking", "left", "gone"}]
         /\ \A d \in Clients : \/ pc'[d] = pc[d]
                               \/ d = c /\ pc[c] = "left" /\ pc'[d] = "gone"
                               \/ d = c /\ pc[c] # "left" /\ pc'[d] = "reading"
BY DEF Return, TypeOK

(* What drainAcks does before its loop.                                    *)
LEMMA drainAcksEffect ==
  ASSUME TypeOK, NEW c \in Clients, NEW mask \in SUBSET IDs, drainAcks(c, mask)
  PROVE  /\ ackmask' = mask \ {pid[c]}
         /\ drainer' \in Clients \cup {Nobody}
         /\ pc' \in [Clients -> {"idle", "joined", "reading", "ticking", "left", "gone"}]
         /\ \A d \in Clients : \/ pc'[d] = pc[d]
                               \/ d = c /\ pc[c] = "left" /\ pc'[d] = "gone"
                               \/ d = c /\ pc[c] # "left" /\ pc'[d] = "reading"
<1>1. CASE UNCHANGED pc /\ drainer' = c
  BY <1>1 DEF drainAcks, TypeOK
<1>2. CASE Return(c) /\ UNCHANGED drainer
  BY <1>2, ReturnKeeps DEF drainAcks, TypeOK
<1> QED BY <1>1, <1>2 DEF drainAcks

(* A step that removes players from the table, if it does anything to it.  *)
Removes == \A p \in IDs : players'[p] \in {players[p], Nobody}

(* The goroutines of registered players stay in the game.                  *)
LEMMA KnownStay ==
  ASSUME AckInv, players' \in [IDs -> Clients \cup {Nobody}], Removes, pid' = pid,
         \A d \in Clients : \/ pc'[d] = pc[d]
                            \/ pc[d] = "left" /\ pc'[d] = "gone"
                            \/ pc'[d] \in {"reading", "ticking"}
  PROVE  PlayersKnown'
<1>1. SUFFICES ASSUME NEW p \in IDs, players'[p] # Nobody
               PROVE  pid[players'[p]] = p /\ pc'[players'[p]] \in {"joined", "reading", "ticking"}
  BY DEF PlayersKnown
<1>2. players'[p] = players[p] /\ players[p] \in Clients
  BY <1>1 DEF Removes, AckInv, TypeOK
<1> QED BY <1>1, <1>2 DEF AckInv, PlayersKnown

(* Only onGameTick drops stragglers, and that is not forgotten.            *)
LEMMA StragglersDropped ==
  ASSUME AckInv, [Next]_vars
  PROVE  straggled' \in BOOLEAN /\ (straggled => straggled')
<1>1. straggled \in BOOLEAN
  BY DEF AckInv, TypeOK
<1>2. straggled' = straggled \/ straggled' = TRUE
  BY DEF Next, Client, Start, Tick, drainRound, drainPanic, Join, onPlayerJoined, Disconnect,
         onLeave, onPlayerLeft, onTimeSlotAck, onGameTick, vars
<1> QED BY <1>1, <1>2, ZenonT(30)

-----------------------------------------------------------------------------
(* The type invariant, action by action.                                   *)
LEMMA AckStep ==
  ASSUME AckInv, [Next]_vars
  PROVE  AckInv'
<1>1. TypeOK /\ setup' = setup /\ straggled' \in BOOLEAN
  BY StragglersDropped, ZenonT(30) DEF AckInv, Next, vars
<1>2. CASE UNCHANGED vars
  BY <1>1, <1>2 DEF AckInv, TypeOK, PlayersKnown, HaveIDs, vars
<1>3. CASE Start \/ Tick \/ drainPanic
  <2>1. /\ UNCHANGED <<players, pid, pc, closed, queueVars, ackmask, drainer>>
        /\ locked' \in BOOLEAN /\ panicked' \in BOOLEAN /\ tick' \in 0..MaxTick
    <3>1. CASE Start \/ drainPanic
      BY <1>1, <3>1, ZenonT(30) DEF Start, drainPanic, connVars, TypeOK
    <3>2. CASE Tick
      <4>1. tick \in 0..MaxTick /\ MaxTick \in Nat
        BY <1>1, AcksAssumption DEF TypeOK
      <4>2. tick' \in 0..MaxTick
        BY <3>2, <4>1 DEF Tick
      <4> QED BY <1>1, <3>2, <4>2 DEF Tick, TypeOK
    <3> QED BY <1>3, <3>1, <3>2
  <2> QED BY <1>1, <2>1 DEF AckInv, TypeOK, PlayersKnown, HaveIDs, queueVars
<1>4. CASE drainRound
  <2>1. drainer \in Clients /\ ~CouldNotDequeue
    BY <1>1, <1>4 DEF drainRound, TypeOK
  <2>2. /\ ackq' \in [Clients -> Seq(Checksums)]
        /\ \A c \in Clients : Len(ackq'[c]) <= QueueCap
    <3>1. \A c \in Clients : ackq'[c] = IF c \in Registered THEN Tail(ackq[c]) ELSE ackq[c]
      BY <1>4 DEF drainRound
    <3>2. ASSUME NEW c \in Registered
          PROVE  Tail(ackq[c]) \in Seq(Checksums) /\ Len(Tail(ackq[c])) <= QueueCap
      <4>1. /\ c \in Clients /\ ackq[c] \in Seq(Checksums)
            /\ ackq[c] # <<>> /\ Len(ackq[c]) <= QueueCap
        BY <1>1, <2>1 DEF CouldNotDequeue, TypeOK, Registered
      <4>2. Tail(ackq[c]) \in Seq(Checksums) /\ Len(Tail(ackq[c])) = Len(ackq[c]) - 1
        BY <4>1
      <4> QED BY <4>1, <4>2, AcksAssumption
    <3>3. ackq' = [c \in Clients |-> IF c \in Registered THEN Tail(ackq[c]) ELSE ackq[c]]
      BY <1>4 DEF drainRound
    <3> QED BY <1>1, <3>1, <3>2, <3>3 DEF TypeOK
  <2>3. /\ players' \in [IDs -> Clients \cup {Nobody}] /\ Removes
        /\ closed' \in [Clients -> BOOLEAN] /\ ackmask' \subseteq IDs
    <3>1. PICK max \in Majority :
            LET dropped == {c \in Registered : Head(ackq[c]) # max}
                emptied == {c \in Registered : Len(ackq[c]) = 1}
            IN  /\ closed' = [c \in Clients |-> closed[c] \/ c \in dropped]
                /\ players' = [p \in IDs |-> IF players[p] \in dropped THEN Nobody ELSE players[p]]
                /\ ackmask' = {pid[c] : c \in emptied \ dropped}
      BY <1>4 DEF drainRound
    <3>2. \A c \in Registered : pid[c] \in IDs
      BY <1>1 DEF Registered, TypeOK
    <3> QED BY <1>1, <3>1, <3>2 DEF TypeOK, Removes
  <2>4. /\ pc' \in [Clients -> {"idle", "joined", "reading", "ticking", "left", "gone"}]
        /\ \A d \in Clients : \/ pc'[d] = pc[d]
                              \/ pc[d] = "left" /\ pc'[d] = "gone"
                              \/ pc'[d] = "reading"
        /\ drainer' \in Clients \cup {Nobody}
    <3>1. CASE UNCHANGED <<drainer, pc>>
      BY <1>1, <3>1 DEF TypeOK
    <3>2. CASE drainer' = Nobody /\ Return(drainer)
      BY <1>1, <2>1, <3>2, ReturnKeeps
    <3> QED BY <1>4, <3>1, <3>2, ZenonT(30) DEF drainRound
  <2>5. UNCHANGED <<pid, ptick, queued, locked, tick, panicked>>
    BY <1>4 DEF drainRound
  <2>6. PlayersKnown'
    BY <2>3, <2>4, <2>5, KnownStay
  <2>7. HaveIDs'
    <3>1. CASE UNCHANGED <<drainer, pc>>
      BY <2>5, <3>1 DEF AckInv, HaveIDs
    <3>2. CASE drainer' = Nobody /\ Return(drainer)
      BY <1>1, <2>1, <2>5, <3>2, ReturnKeeps, AcksAssumption DEF AckInv, HaveIDs
    <3> QED BY <1>4, <3>1, <3>2 DEF drainRound
  <2>8. TypeOK'
    BY <1>1, <2>2, <2>3, <2>4, <2>5 DEF TypeOK
  <2> QED BY <2>6, <2>7, <2>8 DEF AckInv
<1>5. ASSUME NEW c \in Clients, Join(c)
      PROVE  AckInv'
  <2>1. PICK q \in IDs :
          /\ players[q] = Nobody
          /\ players' = [players EXCEPT ![q] = c] /\ pid' = [pid EXCEPT ![c] = q]
    BY <1>5, ZenonT(30) DEF Join
  <2>2. /\ pc' = [pc EXCEPT ![c] = "joined"] /\ pc[c] = "idle"
        /\ UNCHANGED <<closed, queueVars, locked, tick, ackmask, drainer, panicked>>
    BY <1>5 DEF Join
  <2>3. TypeOK'
    BY <1>1, <2>1, <2>2 DEF TypeOK, queueVars
  <2>4. PlayersKnown'
    BY <1>1, <2>1, <2>2 DEF AckInv, PlayersKnown, TypeOK
  <2>5. HaveIDs'
    BY <1>1, <2>1, <2>2, AcksAssumption DEF AckInv, HaveIDs, TypeOK
  <2> QED BY <2>3, <2>4, <2>5 DEF AckInv
<1>6. ASSUME NEW c \in Clients, pc[c] # "idle"
      PROVE  pid[c] \in IDs
  BY <1>1, <1>6 DEF AckInv, HaveIDs, TypeOK
<1>7. ASSUME NEW c \in Clients, onPlayerJoined(c)
      PROVE  AckInv'
  <2>1. /\ ackmask' = ackmask \cup {pid[c]} /\ pc' = [pc EXCEPT ![c] = "reading"]
        /\ UNCHANGED <<players, connVars, queueVars, drainer, panicked>>
        /\ pid[c] \in IDs
    BY <1>6, <1>7 DEF onPlayerJoined
  <2>2. TypeOK'
    BY <1>1, <2>1 DEF TypeOK, connVars, queueVars
  <2>3. PlayersKnown'
    BY <1>1, <2>1, <2>2, KnownStay DEF Removes, TypeOK, connVars
  <2>4. HaveIDs'
    BY <1>1, <2>1, AcksAssumption DEF AckInv, HaveIDs, TypeOK, connVars
  <2> QED BY <2>2, <2>3, <2>4 DEF AckInv
<1>8. ASSUME NEW c \in Clients, Disconnect(c)
      PROVE  AckInv'
  <2>1. /\ closed' = [closed EXCEPT ![c] = TRUE]
        /\ UNCHANGED <<players, pid, pc, queueVars, locked, tick, ackmask, drainer, panicked>>
    BY <1>8 DEF Disconnect
  <2> QED BY <1>1, <2>1 DEF AckInv, TypeOK, PlayersKnown, HaveIDs, queueVars
<1>9. ASSUME NEW c \in Clients, onLeave(c)
      PROVE  AckInv'
  <2>1. /\ players' = [players EXCEPT ![pid[c]] = Nobody] /\ pc' = [pc EXCEPT ![c] = "left"]
        /\ UNCHANGED <<connVars, queueVars, ackmask, drainer, panicked>>
        /\ pid[c] \in IDs /\ pc[c] = "reading"
    BY <1>6, <1>9 DEF onLeave
  <2>2. TypeOK'
    BY <1>1, <2>1 DEF TypeOK, connVars, queueVars
  <2>3. PlayersKnown'
    BY <1>1, <2>1 DEF AckInv, PlayersKnown, TypeOK, connVars
  <2>4. HaveIDs'
    BY <1>1, <2>1 DEF AckInv, HaveIDs, TypeOK, connVars
  <2> QED BY <2>2, <2>3, <2>4 DEF AckInv
<1>10. ASSUME NEW c \in Clients, NEW a \in Checksums, onTimeSlotAck(c, a)
       PROVE  AckInv'
  <2>1. UNCHANGED <<players, pid, locked, tick, ackmask, drainer, panicked>>
    BY <1>10 DEF onTimeSlotAck
  <2>2. CASE /\ closed' = [closed EXCEPT ![c] = TRUE] /\ UNCHANGED <<queueVars, pc>>
    BY <1>1, <2>1, <2>2 DEF AckInv, TypeOK, PlayersKnown, HaveIDs, queueVars
  <2>3. CASE /\ Len(ackq[c]) < QueueCap
             /\ ackq' = [ackq EXCEPT ![c] = Append(@, a)]
             /\ ptick' = [ptick EXCEPT ![c] = @ + 1]
             /\ queued' = [queued EXCEPT ![c] = Len(ackq[c]) + 1]
             /\ pc' = [pc EXCEPT ![c] = "ticking"]
             /\ UNCHANGED closed
    <3>1. ackq[c] \in Seq(Checksums) /\ Len(ackq[c]) \in Nat
      BY <1>1 DEF TypeOK
    <3>2. Append(ackq[c], a) \in Seq(Checksums) /\ Len(Append(ackq[c], a)) = Len(ackq[c]) + 1
      BY <3>1
    <3>3. ackq' \in [Clients -> Seq(Checksums)] /\ \A d \in Clients : Len(ackq'[d]) <= QueueCap
      BY <1>1, <2>3, <3>1, <3>2, AcksAssumption DEF TypeOK
    <3>4. Len(ackq[c]) + 1 \in 0..QueueCap
      BY <2>3, <3>1, AcksAssumption
    <3>5. ptick' \in [Clients -> Nat] /\ queued' \in [Clients -> 0..QueueCap]
      BY <1>1, <2>3, <3>4 DEF TypeOK
    <3>6. TypeOK'
      BY <1>1, <2>1, <2>3, <3>3, <3>5 DEF TypeOK
    <3>7. PlayersKnown'
      BY <1>1, <2>1, <2>3, <3>6, KnownStay DEF Removes, TypeOK
    <3>8. HaveIDs'
      BY <1>1, <1>6, <1>10, <2>1, <2>3, AcksAssumption DEF AckInv, HaveIDs, TypeOK, onTimeSlotAck
    <3> QED BY <3>6, <3>7, <3>8 DEF AckInv
  <2> QED BY <1>10, <2>2, <2>3 DEF onTimeSlotAck
<1>11. ASSUME NEW c \in Clients, NEW mask \in SUBSET IDs, drainAcks(c, mask), pc[c] # "idle",
              players' \in [IDs -> Clients \cup {Nobody}], Removes,
              closed' \in [Clients -> BOOLEAN],
              UNCHANGED <<pid, queueVars, locked, tick, panicked>>
       PROVE  AckInv'
  <2>1. TypeOK'
    BY <1>1, <1>11, drainAcksEffect DEF TypeOK, queueVars
  <2>2. PlayersKnown'
    BY <1>1, <1>11, drainAcksEffect, KnownStay
  <2>3. \A d \in Clients : pc'[d] # "idle" \/ drainer' = d => pc[d] # "idle" \/ drainer = d
    BY <1>1, <1>11, drainAcksEffect DEF drainAcks
  <2>4. HaveIDs'
    BY <1>11, <2>3 DEF AckInv, HaveIDs
  <2> QED BY <2>1, <2>2, <2>4 DEF AckInv
<1>12. ASSUME NEW c \in Clients, onGameTick(c)
       PROVE  AckInv'
  <2>1. UNCHANGED <<pid, queueVars, locked, tick, panicked>> /\ pc[c] = "ticking"
    BY <1>12 DEF onGameTick
  <2>2. CASE /\ closed' = [closed EXCEPT ![c] = TRUE] /\ Return(c)
             /\ UNCHANGED <<players, ackmask, drainer>>
    <3>1. TypeOK'
      BY <1>1, <2>1, <2>2, ReturnKeeps DEF TypeOK, queueVars
    <3>2. PlayersKnown'
      BY <1>1, <2>1, <2>2, <3>1, ReturnKeeps, KnownStay, ZenonT(30) DEF Removes, TypeOK
    <3>3. HaveIDs'
      BY <1>1, <1>6, <2>1, <2>2, ReturnKeeps, AcksAssumption DEF AckInv, HaveIDs
    <3> QED BY <3>1, <3>2, <3>3 DEF AckInv
  <2>3. CASE /\ closed' = [d \in Clients |-> closed[d] \/ d \in Stragglers]
             /\ players' = [p \in IDs |-> IF players[p] \in Stragglers THEN Nobody ELSE players[p]]
             /\ drainAcks(c, {})
    <3>1. /\ players' \in [IDs -> Clients \cup {Nobody}] /\ Removes
          /\ closed' \in [Clients -> BOOLEAN]
      BY <1>1, <2>3 DEF TypeOK, Removes
    <3> QED BY <1>11, <2>1, <2>3, <3>1
  <2>4. CASE drainAcks(c, ackmask) /\ UNCHANGED <<players, closed>>
    <3>1. /\ players' \in [IDs -> Clients \cup {Nobody}] /\ Removes
          /\ closed' \in [Clients -> BOOLEAN] /\ ackmask \in SUBSET IDs
      BY <1>1, <2>4 DEF TypeOK, Removes
    <3> QED BY <1>11, <2>1, <2>4, <3>1
  <2> QED BY <1>12, <2>2, <2>3, <2>4 DEF onGameTick
<1>13. ASSUME NEW c \in Clients, onPlayerLeft(c)
       PROVE  AckInv'
  <2>1. /\ UNCHANGED <<players, connVars, queueVars, panicked>> /\ pc[c] = "left"
        /\ drainAcks(c, ackmask)
    BY <1>13 DEF onPlayerLeft
  <2>2. /\ players' \in [IDs -> Clients \cup {Nobody}] /\ Removes
        /\ closed' \in [Clients -> BOOLEAN] /\ ackmask \in SUBSET IDs
    BY <1>1, <2>1 DEF TypeOK, Removes, connVars
  <2> QED BY <1>11, <2>1, <2>2 DEF connVars
<1> QED BY <1>2, <1>3, <1>4, <1>5, <1>7, <1>8, <1>9, <1>10, <1>12, <1>13 DEF Next, Client

(* At first the seated clients are registered and read.                    *)
LEMMA AckInit == Init => AckInv
<1>1. SUFFICES ASSUME Init PROVE AckInv
  OBVIOUS
<1>s. /\ Seated \in [Clients -> IDs \cup {0}]
      /\ \A c, d \in Clients : Seated[c] = Seated[d] => c = d \/ Seated[c] = 0
  BY <1>1, SetupFacts DEF Init
<1>2. /\ pid = Seated
      /\ pc = [c \in Clients |-> IF Seated[c] = 0 THEN "idle" ELSE "reading"]
      /\ drainer = Nobody
  BY <1>1 DEF Init
<1>3. \A p \in IDs : players[p] = IF \E c \in Clients : Seated[c] = p
                                  THEN CHOOSE c \in Clients : Seated[c] = p ELSE Nobody
  BY <1>1 DEF Init
<1>4. \A p \in IDs : \/ players[p] = Nobody
                     \/ players[p] \in Clients /\ Seated[players[p]] = p
  BY <1>3
<1>5. players \in [IDs -> Clients \cup {Nobody}]
  <2>1. DOMAIN players = IDs /\ players = [p \in IDs |-> players[p]]
    BY <1>1 DEF Init
  <2> QED BY <1>4, <2>1
<1>6. 0 \notin IDs
  BY AcksAssumption
<1>7. TypeOK
  <2>1. /\ ackq = [c \in Clients |-> <<>>] /\ <<>> \in Seq(Checksums) /\ Len(<<>>) = 0
        /\ queued = [c \in Clients |-> 0] /\ ptick = [c \in Clients |-> 0]
        /\ tick = 0 /\ 0 \in 0..MaxTick /\ 0 \in 0..QueueCap /\ 0 <= QueueCap
    BY <1>1, AcksAssumption DEF Init
  <2>2. ackmask \subseteq IDs
    BY <1>s, <1>1 DEF Init
  <2>3. /\ pid \in [Clients -> IDs \cup {0}]
        /\ pc \in [Clients -> {"idle", "joined", "reading", "ticking", "left", "gone"}]
    BY <1>s, <1>2
  <2>4. /\ closed = [c \in Clients |-> FALSE] /\ locked = FALSE /\ panicked = FALSE
        /\ straggled = FALSE /\ setup \in Setups
    BY <1>1 DEF Init
  <2>5. /\ ackq \in [Clients -> Seq(Checksums)] /\ \A c \in Clients : Len(ackq[c]) <= QueueCap
        /\ ptick \in [Clients -> Nat] /\ queued \in [Clients -> 0..QueueCap]
    BY <2>1
  <2> QED BY <1>2, <1>5, <2>1, <2>2, <2>3, <2>4, <2>5, ZenonT(30) DEF TypeOK
<1>8. PlayersKnown
  BY <1>s, <1>2, <1>4, <1>6 DEF PlayersKnown
<1>9. HaveIDs
  BY <1>s, <1>2, AcksAssumption DEF HaveIDs
<1> QED BY <1>7, <1>8, <1>9 DEF AckInv

(* The inductive invariant holds always.                                   *)
LEMMA AckInvariant == Spec => []AckInv
BY AckInit, AckStep, PTL DEF Spec

(* Every variable keeps its type; in particular the ring buffers never     *)
(* hold more acknowledgements than they have room for.                     *)
THEOREM AcksTypeCorrect == Spec => []TypeOK
BY AckInvariant, PTL DEF AckInv
-----------------------------------------------------------------------------
(* The game never waits for a player whose goroutine is done, whatever     *)
(* happens to the player's id and acknowledgements meanwhile.              *)
THEOREM NeverWaitsForTheGone == Spec => []WaitsForTheLiving
<1>1. Init => WaitsForTheLiving
  BY SetupFacts DEF Init, WaitsForTheLiving, Alive
<1>2. ASSUME AckInv, WaitsForTheLiving, [Next]_vars
      PROVE  WaitsForTheLiving'
  <2>1. TypeOK
    BY <1>2 DEF AckInv
  <2>2. ASSUME ackmask' \subseteq ackmask, UNCHANGED pid, \A c \in Clients : Alive(c) => Alive(c)'
        PROVE  WaitsForTheLiving'
    BY <1>2, <2>2 DEF WaitsForTheLiving
  <2>3. ASSUME NEW c \in Clients, NEW mask \in SUBSET ackmask, drainAcks(c, mask), UNCHANGED pid
        PROVE  WaitsForTheLiving'
    <3>1. SUFFICES ASSUME NEW p \in ackmask'
                   PROVE  \E d \in Clients : pid[d] = p /\ Alive(d)'
      BY <2>3 DEF WaitsForTheLiving
    <3>2. mask \in SUBSET IDs
      BY <2>1, <2>3 DEF TypeOK
    <3>3. p \in ackmask /\ p # pid[c]
      BY <2>1, <2>3, <3>1, <3>2, drainAcksEffect
    <3>4. PICK d \in Clients : pid[d] = p /\ Alive(d)
      BY <1>2, <3>3 DEF WaitsForTheLiving
    <3>5. Alive(d)'
      BY <2>1, <2>3, <3>2, <3>3, <3>4, drainAcksEffect DEF Alive
    <3> QED BY <3>4, <3>5
  <2>4. CASE UNCHANGED vars
    BY <2>2, <2>4 DEF vars, Alive
  <2>5. CASE Start \/ Tick \/ drainPanic
    BY <2>2, <2>5 DEF Start, Tick, drainPanic, connVars, Alive
  <2>6. CASE drainRound
    <3>1. SUFFICES ASSUME NEW p \in ackmask'
                   PROVE  \E d \in Clients : pid[d] = p /\ Alive(d)'
      BY <2>6, ZenonT(30) DEF WaitsForTheLiving, drainRound
    <3>2. PICK d \in Registered : pid[d] = p
      <4>1. PICK max \in Majority :
              ackmask' = {pid[c] : c \in {c \in Registered : Len(ackq[c]) = 1}
                                          \ {c \in Registered : Head(ackq[c]) # max}}
        BY <2>6 DEF drainRound
      <4> QED BY <3>1, <4>1
    <3>3. d \in Clients /\ pc[d] \in {"joined", "reading", "ticking"}
      <4>1. d \in Clients /\ pid[d] \in IDs /\ players[pid[d]] = d
        BY <2>1, <3>2 DEF Registered, TypeOK
      <4>2. d # Nobody
        BY <4>1, AcksAssumption
      <4> QED BY <1>2, <4>1, <4>2 DEF AckInv, PlayersKnown
    <3>4. pc' = pc \/ (drainer \in Clients /\ Return(drainer))
      <4>1. drainer \in Clients
        BY <2>1, <2>6 DEF drainRound, TypeOK
      <4> QED BY <2>6, <4>1, ZenonT(30) DEF drainRound
    <3>5. Alive(d)'
      BY <2>1, <3>3, <3>4, ReturnKeeps DEF Alive
    <3> QED BY <3>2, <3>3, <3>5
  <2>7. ASSUME NEW c \in Clients, Join(c)
        PROVE  WaitsForTheLiving'
    <3>1. \A d \in Clients : Alive(d) => d # c
      BY <2>7 DEF Join, Alive
    <3> QED BY <1>2, <2>1, <2>7, <3>1 DEF Join, WaitsForTheLiving, Alive, TypeOK
  <2>8. ASSUME NEW c \in Clients, onPlayerJoined(c)
        PROVE  WaitsForTheLiving'
    BY <1>2, <2>1, <2>8 DEF onPlayerJoined, WaitsForTheLiving, Alive, TypeOK, connVars
  <2>9. ASSUME NEW c \in Clients, \/ Disconnect(c) \/ onLeave(c)
                                  \/ \E a \in Checksums : onTimeSlotAck(c, a)
        PROVE  WaitsForTheLiving'
    BY <2>1, <2>2, <2>9 DEF Disconnect, onLeave, onTimeSlotAck, Alive, TypeOK, connVars
  <2>10. ASSUME NEW c \in Clients, onGameTick(c)
         PROVE  WaitsForTheLiving'
    <3>1. CASE Return(c) /\ UNCHANGED <<ackmask, pid>>
      BY <2>1, <2>2, <2>10, <3>1, ReturnKeeps DEF onGameTick, Alive
    <3> QED BY <2>3, <2>10, <3>1 DEF onGameTick
  <2>11. ASSUME NEW c \in Clients, onPlayerLeft(c)
         PROVE  WaitsForTheLiving'
    BY <2>3, <2>11 DEF onPlayerLeft, connVars
  <2> QED BY <1>2, <2>4, <2>5, <2>6, <2>7, <2>8, <2>9, <2>10, <2>11 DEF Next, Client
<1> QED BY <1>1, <1>2, AckInvariant, PTL DEF Spec

(* Until stragglers are dropped, which the code does by clearing ackmask,  *)
(* ackmask never becomes empty outside drainAcks while there are players:  *)
(* somebody's next acknowledgement, or departure, starts the comparison.   *)
THEOREM AlwaysWaitsForSomeone == Spec => []WaitsForSomeone
<1>1. Init => WaitsForSomeone
  <2>1. SUFFICES ASSUME Init, NEW c \in Playing PROVE ackmask # {}
    BY DEF WaitsForSomeone
  <2>2. c \in Clients /\ pid[c] # 0 /\ pid = Seated
    BY <2>1 DEF Init, Playing, Registered
  <2>3. Seated[c] \in ackmask
    BY <2>1, <2>2 DEF Init
  <2> QED BY <2>3
<1>2. ASSUME AckInv, WaitsForSomeone, [Next]_vars
      PROVE  WaitsForSomeone'
  <2>1. TypeOK
    BY <1>2 DEF AckInv
  <2> SUFFICES ASSUME ~straggled' PROVE WaitsForSomeone'
    BY DEF WaitsForSomeone
  <2>s. ~straggled
    BY <1>2, StragglersDropped
  <2>2. ASSUME UNCHANGED <<ackmask, drainer>>, \A c \in Clients : c \in Playing' => c \in Playing
        PROVE  WaitsForSomeone'
    <3>1. Playing' \subseteq Clients
      BY DEF Playing, Registered
    <3> QED BY <1>2, <2>2, <2>s, <3>1 DEF WaitsForSomeone, MutexesFree
  <2>3. CASE UNCHANGED vars
    BY <2>2, <2>3 DEF vars, Playing, Registered
  <2>4. CASE Start \/ Tick \/ drainPanic
    BY <2>2, <2>4 DEF Start, Tick, drainPanic, connVars, Playing, Registered
  <2>5. CASE drainRound
    <3>1. CASE ackmask' = {} /\ Registered # {}
      BY <2>5, <3>1 DEF drainRound, WaitsForSomeone, MutexesFree
    <3>2. CASE ackmask' # {}
      BY <3>2 DEF WaitsForSomeone
    <3>3. CASE Registered = {}
      <4>1. \A p \in IDs : players'[p] \in {players[p], Nobody}
        <5>1. PICK max \in Majority :
                players' = [p \in IDs |-> IF players[p] \in {c \in Registered : Head(ackq[c]) # max}
                                         THEN Nobody ELSE players[p]]
          BY <2>5 DEF drainRound
        <5> QED BY <5>1
      <4>2. Registered' = {}
        <5>1. pid \in [Clients -> IDs \cup {0}] /\ pid' = pid
          BY <2>1, <2>5 DEF TypeOK, drainRound
        <5>2. Nobody \notin Clients
          BY AcksAssumption
        <5> QED BY <3>3, <4>1, <5>1, <5>2 DEF Registered
      <4> QED BY <4>2 DEF WaitsForSomeone, Playing
    <3> QED BY <3>1, <3>2, <3>3
  <2>6. ASSUME NEW c \in Clients, Join(c)
        PROVE  WaitsForSomeone'
    <3>1. PICK q \in IDs : players' = [players EXCEPT ![q] = c] /\ pid' = [pid EXCEPT ![c] = q]
      BY <2>6, ZenonT(30) DEF Join
    <3>2. \A d \in Clients : d \in Playing' => d \in Playing
      BY <2>1, <2>6, <3>1 DEF Join, Playing, Registered, TypeOK
    <3>3. UNCHANGED <<ackmask, drainer>>
      BY <2>6 DEF Join
    <3> QED BY <2>2, <3>2, <3>3
  <2>7. ASSUME NEW c \in Clients, onPlayerJoined(c)
        PROVE  WaitsForSomeone'
    BY <2>7 DEF onPlayerJoined, WaitsForSomeone
  <2>8. ASSUME NEW c \in Clients, Disconnect(c)
        PROVE  WaitsForSomeone'
    BY <2>2, <2>8 DEF Disconnect, Playing, Registered
  <2>9. ASSUME NEW c \in Clients, onLeave(c)
        PROVE  WaitsForSomeone'
    <3>1. /\ players' = [players EXCEPT ![pid[c]] = Nobody] /\ pc' = [pc EXCEPT ![c] = "left"]
          /\ UNCHANGED <<pid, ackmask, drainer>> /\ pc[c] = "reading"
      BY <2>9 DEF onLeave, connVars
    <3>2. \A d \in Clients : d \in Playing' => d \in Playing
      BY <2>1, <3>1, AcksAssumption DEF Playing, Registered, TypeOK
    <3> QED BY <2>2, <3>1, <3>2
  <2>10. ASSUME NEW c \in Clients, NEW a \in Checksums, onTimeSlotAck(c, a)
         PROVE  WaitsForSomeone'
    <3>1. /\ UNCHANGED <<players, pid, ackmask, drainer>> /\ pc[c] = "reading"
          /\ pc' = pc \/ pc' = [pc EXCEPT ![c] = "ticking"]
      BY <2>10 DEF onTimeSlotAck
    <3>2. \A d \in Clients : d \in Playing' => d \in Playing
      BY <2>1, <3>1 DEF Playing, Registered, TypeOK
    <3> QED BY <2>2, <3>1, <3>2
  <2>11. ASSUME NEW c \in Clients, drainAcks(c, ackmask), pc[c] \in {"ticking", "left"},
                UNCHANGED <<players, pid>>, MutexesFree
         PROVE  WaitsForSomeone'
    <3>1. ackmask \in SUBSET IDs
      BY <2>1 DEF TypeOK
    <3>2. CASE pid[c] \in ackmask /\ ackmask' = {}
      BY <2>11, <3>2, AcksAssumption DEF drainAcks, WaitsForSomeone, MutexesFree
    <3>3. CASE ackmask' # {}
      BY <3>3 DEF WaitsForSomeone
    <3>4. CASE pid[c] \notin ackmask
      <4>1. ackmask' = ackmask /\ UNCHANGED drainer
        BY <2>11, <3>4 DEF drainAcks
      <4>2. \A d \in Clients : d \in Playing' => d \in Playing
        BY <2>1, <2>11, <3>1, drainAcksEffect DEF Playing, Registered
      <4> QED BY <2>2, <4>1, <4>2
    <3> QED BY <3>2, <3>3, <3>4
  <2>12. ASSUME NEW c \in Clients, onGameTick(c)
         PROVE  WaitsForSomeone'
    <3>1. CASE ptick[c] > tick /\ Return(c) /\ UNCHANGED <<players, ackmask, drainer>>
      <4>1. \A d \in Clients : d \in Playing' => d \in Playing
        BY <2>1, <2>12, <3>1, ReturnKeeps DEF onGameTick, Playing, Registered
      <4> QED BY <2>2, <3>1, <4>1
    <3>2. CASE MutexesFree /\ drainAcks(c, ackmask) /\ UNCHANGED <<players, closed>>
      BY <2>11, <2>12, <3>2 DEF onGameTick
    <3> QED BY <2>12, <3>1, <3>2 DEF onGameTick
  <2>13. ASSUME NEW c \in Clients, onPlayerLeft(c)
         PROVE  WaitsForSomeone'
    BY <2>11, <2>13 DEF onPlayerLeft, connVars
  <2> QED BY <1>2, <2>3, <2>4, <2>5, <2>6, <2>7, <2>8, <2>9, <2>10, <2>12, <2>13 DEF Next, Client
<1> QED BY <1>1, <1>2, AckInvariant, PTL DEF Spec
-----------------------------------------------------------------------------
(* When nobody joins any more, a round compares acknowledgements of the    *)
(* same turn: equally many of every player have been taken from its queue. *)
THEOREM SameTurnCompared == Spec => []ComparesSameTurn
<1> DEFINE Taken(c) == ptick[c] - Len(ackq[c])
           AllIn == \A c \in Clients : Seated[c] # 0
           NobodyIdle == AllIn => \A c \in Clients : pc[c] # "idle"
<1>1. Init => NobodyIdle /\ ComparesSameTurn
  <2>1. ASSUME Init PROVE \A c \in Clients : ptick[c] = 0 /\ ackq[c] = <<>>
    BY <2>1 DEF Init
  <2>2. ASSUME Init PROVE \A c \in Registered : ptick[c] = 0 /\ Len(ackq[c]) = 0
    BY <2>1, <2>2 DEF Registered
  <2>3. Init => NobodyIdle
    BY DEF Init
  <2> QED BY <2>2, <2>3 DEF ComparesSameTurn
<1>2. ASSUME AckInv, NobodyIdle, ComparesSameTurn, [Next]_vars
      PROVE  NobodyIdle' /\ ComparesSameTurn'
  <2>s. Seated' = Seated
    BY <1>2, ZenonT(30) DEF Next, vars, Seated
  <2>1. SUFFICES ASSUME AllIn
                 PROVE  /\ \A c \in Clients : pc'[c] # "idle"
                        /\ \A c, d \in Registered' : Taken(c)' = Taken(d)'
    BY <2>s DEF ComparesSameTurn
  <2>2. /\ TypeOK /\ \A c \in Clients : pc[c] # "idle"
        /\ \A c, d \in Registered : Taken(c) = Taken(d)
    BY <1>2, <2>1 DEF AckInv, ComparesSameTurn
  <2>3. \A c \in Clients : ptick[c] \in Nat /\ ackq[c] \in Seq(Checksums) /\ Len(ackq[c]) \in Nat
    BY <2>2 DEF TypeOK
  <2>4. ASSUME UNCHANGED <<ackq, ptick, pid>>, Removes,
               \A c \in Clients : pc'[c] # "idle"
        PROVE  /\ \A c \in Clients : pc'[c] # "idle"
               /\ \A c, d \in Registered' : Taken(c)' = Taken(d)'
    <3>1. Registered' \subseteq Registered
      BY <2>2, <2>4, AcksAssumption, ZenonT(30) DEF Registered, Removes, TypeOK
    <3> QED BY <2>2, <2>4, <3>1
  <2>5. CASE UNCHANGED vars
    BY <2>2, <2>4, <2>5 DEF vars, Removes
  <2>6. CASE Start \/ Tick \/ drainPanic
    BY <2>2, <2>4, <2>6 DEF Start, Tick, drainPanic, connVars, queueVars, Removes
  <2>7. CASE drainRound
    <3>1. Removes
      <4>1. PICK max \in Majority :
              players' = [p \in IDs |-> IF players[p] \in {c \in Registered : Head(ackq[c]) # max}
                                       THEN Nobody ELSE players[p]]
        BY <2>7 DEF drainRound
      <4> QED BY <4>1 DEF Removes
    <3>2. Registered' \subseteq Registered
      BY <2>2, <2>7, <3>1, AcksAssumption DEF Registered, Removes, TypeOK, drainRound
    <3>3. ASSUME NEW c \in Registered
          PROVE  Taken(c)' = Taken(c) + 1
      <4>1. /\ c \in Clients /\ ackq[c] \in Seq(Checksums)
            /\ ackq[c] # <<>> /\ ackq'[c] = Tail(ackq[c])
        BY <2>3, <2>7 DEF drainRound, CouldNotDequeue, Registered
      <4>2. Len(ackq'[c]) = Len(ackq[c]) - 1
        BY <4>1
      <4>3. ptick'[c] = ptick[c] /\ ptick[c] \in Nat /\ Len(ackq[c]) \in Nat
        BY <2>3, <2>7, <4>1 DEF drainRound
      <4> QED BY <4>2, <4>3
    <3>4. \A c, d \in Registered' : Taken(c)' = Taken(d)'
      <4> HIDE DEF Taken
      <4> QED BY <2>2, <3>2, <3>3
    <3>5. \A c \in Clients : pc'[c] # "idle"
      <4>1. drainer \in Clients
        BY <2>2, <2>7 DEF drainRound, TypeOK
      <4>2. pc' = pc \/ Return(drainer)
        BY <2>7, ZenonT(30) DEF drainRound
      <4> QED BY <2>2, <4>1, <4>2, ReturnKeeps
    <3> QED BY <3>4, <3>5
  <2>8. ASSUME NEW c \in Clients, NEW a \in Checksums, onTimeSlotAck(c, a)
        PROVE  /\ \A e \in Clients : pc'[e] # "idle"
               /\ \A e, d \in Registered' : Taken(e)' = Taken(d)'
    <3>1. UNCHANGED <<players, pid>> /\ \A e \in Clients : pc'[e] # "idle"
      BY <2>2, <2>8 DEF onTimeSlotAck, TypeOK
    <3>2. \A e \in Clients : Taken(e)' = Taken(e)
      <4>1. CASE UNCHANGED queueVars
        BY <4>1 DEF queueVars
      <4>2. CASE ackq' = [ackq EXCEPT ![c] = Append(@, a)] /\ ptick' = [ptick EXCEPT ![c] = @ + 1]
        <5>1. Len(Append(ackq[c], a)) = Len(ackq[c]) + 1
          BY <2>3
        <5>2. \A e \in Clients : /\ Len(ackq'[e]) = IF e = c THEN Len(ackq[c]) + 1 ELSE Len(ackq[e])
                                 /\ ptick'[e] = IF e = c THEN ptick[c] + 1 ELSE ptick[e]
          <6>1. ackq \in [Clients -> Seq(Checksums)] /\ ptick \in [Clients -> Nat]
            BY <2>2 DEF TypeOK
          <6> QED BY <4>2, <5>1, <6>1
        <5>3. \A e \in Clients : Len(ackq[e]) \in Nat /\ ptick[e] \in Nat
          BY <2>3
        <5>4. ASSUME NEW e \in Clients PROVE Taken(e)' = Taken(e)
          <6>1. CASE e = c
            <7>1. Len(ackq'[c]) = Len(ackq[c]) + 1 /\ ptick'[c] = ptick[c] + 1
              BY <5>2
            <7> QED BY <5>3, <6>1, <7>1
          <6>2. CASE e # c
            <7>1. Len(ackq'[e]) = Len(ackq[e]) /\ ptick'[e] = ptick[e]
              BY <5>2, <6>2
            <7> QED BY <7>1
          <6> QED BY <6>1, <6>2
        <5> HIDE DEF Taken
        <5> QED BY <5>4
      <4> QED BY <2>8, <4>1, <4>2 DEF onTimeSlotAck
    <3>3. Registered' = Registered /\ Registered \subseteq Clients
      BY <3>1 DEF Registered
    <3> HIDE DEF Taken
    <3> QED BY <2>2, <3>1, <3>2, <3>3
  <2>9. ASSUME NEW c \in Clients, onPlayerJoined(c) \/ Disconnect(c)
        PROVE  /\ \A e \in Clients : pc'[e] # "idle"
               /\ \A e, d \in Registered' : Taken(e)' = Taken(d)'
    <3>1. UNCHANGED <<ackq, ptick, pid>> /\ Removes
      BY <2>9 DEF onPlayerJoined, Disconnect, connVars, queueVars, Removes
    <3>2. \A e \in Clients : pc'[e] # "idle"
      BY <2>2, <2>9 DEF onPlayerJoined, Disconnect, TypeOK
    <3> QED BY <2>4, <3>1, <3>2
  <2>10. ASSUME NEW c \in Clients, onLeave(c)
         PROVE  /\ \A e \in Clients : pc'[e] # "idle"
                /\ \A e, d \in Registered' : Taken(e)' = Taken(d)'
    <3>1. UNCHANGED <<ackq, ptick, pid>> /\ Removes
      BY <2>2, <2>10 DEF onLeave, connVars, queueVars, Removes, TypeOK
    <3>2. \A e \in Clients : pc'[e] # "idle"
      BY <2>2, <2>10 DEF onLeave, TypeOK
    <3> QED BY <2>4, <3>1, <3>2
  <2>11. ASSUME NEW c \in Clients, onGameTick(c) \/ onPlayerLeft(c)
         PROVE  /\ \A e \in Clients : pc'[e] # "idle"
                /\ \A e, d \in Registered' : Taken(e)' = Taken(d)'
    <3>1. UNCHANGED <<ackq, ptick, pid>> /\ Removes
      BY <2>11 DEF onGameTick, onPlayerLeft, connVars, queueVars, Removes
    <3>2. Return(c) \/ pc' = pc
      BY <2>11 DEF onGameTick, onPlayerLeft, drainAcks
    <3>3. \A e \in Clients : pc'[e] # "idle"
      BY <2>2, <3>2, ReturnKeeps
    <3> QED BY <2>4, <3>1, <3>3
  <2>12. \A c \in Clients : ~Join(c)
    BY <2>2 DEF Join
  <2> QED BY <1>2, <2>5, <2>6, <2>7, <2>8, <2>9, <2>10, <2>11, <2>12 DEF Next, Client
<1> QED BY <1>1, <1>2, AckInvariant, PTL DEF Spec
-----------------------------------------------------------------------------
INSTANCE FiniteSetTheorems

(* At most one player has each of the PlayerIDs, which are no more than    *)
(* 32: observers have fewer votes, all together, than one player.          *)
LEMMA FewVoters ==
  ASSUME TypeOK, NEW S \in SUBSET Registered
  PROVE  IsFiniteSet(S) /\ Cardinality(S) \in 0..32
<1>1. IsFiniteSet(1..32) /\ Cardinality(1..32) = 32
  <2>1. 1 \in Int /\ 32 \in Int
    OBVIOUS
  <2>2. IsFiniteSet(1..32) /\ Cardinality(1..32) = IF 1 > 32 THEN 0 ELSE 32 - 1 + 1
    BY <2>1, FS_Interval, ZenonT(30)
  <2> QED BY <2>2
<1>2. IsFiniteSet(IDs) /\ Cardinality(IDs) <= 32
  BY <1>1, FS_Subset, AcksAssumption, ZenonT(30)
<1>3. PICK f : f = [c \in Registered |-> pid[c]]
  OBVIOUS
<1>4. \A c \in Registered : pid[c] \in IDs /\ players[pid[c]] = c
  BY DEF TypeOK, Registered
<1>5. f \in Injection(Registered, IDs)
  <2>1. f \in [Registered -> IDs]
    BY <1>3, <1>4
  <2>2. \A c, d \in Registered : f[c] = f[d] => c = d
    BY <1>3, <1>4, ZenonT(30)
  <2> QED BY <2>1, <2>2 DEF Injection, IsInjective
<1>6. IsFiniteSet(Registered) /\ Cardinality(Registered) <= Cardinality(IDs)
  BY <1>2, <1>5, FS_Injection, ZenonT(30)
<1>7. IsFiniteSet(S) /\ Cardinality(S) <= Cardinality(Registered)
  BY <1>6, FS_Subset, ZenonT(30)
<1>8. Cardinality(S) \in Nat /\ Cardinality(Registered) \in Nat /\ Cardinality(IDs) \in Nat
  BY <1>2, <1>6, <1>7, FS_CardinalityType, ZenonT(30)
<1> QED BY <1>2, <1>6, <1>7, <1>8

(* Players are not dropped on the word of observers: when a round drops a  *)
(* player, another player computed something else.                         *)
THEOREM ObserversNeverDecide == Spec => ObserversDoNotDecide
<1>1. ASSUME AckInv, drainRound, NEW c \in Registered \ Observers, players'[pid[c]] # c,
             \A d \in Registered \ Observers : Head(ackq[d]) = Head(ackq[c])
      PROVE  FALSE
  <2>1. TypeOK /\ c \in Clients /\ pid[c] \in IDs /\ players[pid[c]] = c
    BY <1>1 DEF AckInv, TypeOK, Registered
  <2>2. PICK max \in Majority :
          players' = [p \in IDs |-> IF players[p] \in {d \in Registered : Head(ackq[d]) # max}
                                    THEN Nobody ELSE players[p]]
    BY <1>1, ZenonT(30) DEF drainRound
  <2>3. Head(ackq[c]) # max
    BY <1>1, <2>1, <2>2
  <2>4. Head(ackq[c]) \in Checksums
    <3>1. ackq[c] \in Seq(Checksums) /\ ackq[c] # <<>>
      BY <1>1, <2>1 DEF TypeOK, drainRound, CouldNotDequeue
    <3> QED BY <3>1
  <2>5. Votes(max) >= Votes(Head(ackq[c]))
    BY <2>2, <2>4 DEF Majority
  <2> DEFINE For(a) == {d \in Registered : Head(ackq[d]) = a}
  <2>6. \A a : /\ Cardinality(For(a) \ Observers) \in 0..32
               /\ Cardinality(For(a) \cap Observers) \in 0..32
    <3>1. \A a : /\ For(a) \ Observers \in SUBSET Registered
                 /\ For(a) \cap Observers \in SUBSET Registered
      OBVIOUS
    <3> QED BY <2>1, <3>1, FewVoters, ZenonT(30)
  <2>7. Cardinality(For(max) \ Observers) = 0
    <3>1. For(max) \ Observers = {}
      BY <1>1, <2>3
    <3> QED BY <3>1, FS_EmptySet
  <2>8. Cardinality(For(Head(ackq[c])) \ Observers) # 0
    <3>1. /\ c \in For(Head(ackq[c])) \ Observers
          /\ For(Head(ackq[c])) \ Observers \in SUBSET Registered
      BY <1>1
    <3>2. IsFiniteSet(For(Head(ackq[c])) \ Observers)
      BY <2>1, <3>1, FewVoters, ZenonT(30)
    <3> QED BY <3>1, <3>2, FS_EmptySet, ZenonT(30)
  <2>9. \A a : Votes(a) = 255 * Cardinality(For(a) \ Observers) + Cardinality(For(a) \cap Observers)
    BY ZenonT(30) DEF Votes, Extra
  <2> HIDE DEF For
  <2>10. PICK x, y, z : /\ x = Cardinality(For(max) \cap Observers)
                        /\ y = Cardinality(For(Head(ackq[c])) \ Observers)
                        /\ z = Cardinality(For(Head(ackq[c])) \cap Observers)
    OBVIOUS
  <2>11. x \in 0..32 /\ y \in 0..32 /\ z \in 0..32 /\ y # 0
    BY <2>6, <2>8, <2>10, ZenonT(30)
  <2>12. Votes(max) = 255 * 0 + x /\ Votes(Head(ackq[c])) = 255 * y + z
    BY <2>7, <2>9, <2>10, ZenonT(30)
  <2>13. ~(255 * 0 + x >= 255 * y + z)
    BY <2>11
  <2> QED BY <2>5, <2>12, <2>13, ZenonT(30)
<1>2. AckInv => (drainRound => \A c \in Registered \ Observers :
        players'[pid[c]] # c => \E d \in Registered \ Observers : Head(ackq[d]) # Head(ackq[c]))
  BY <1>1, ZenonT(30)
<1> QED BY <1>2, AckInvariant, PTL DEF ObserversDoNotDecide
=============================================================================
