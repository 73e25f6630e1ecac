------------------------------- MODULE Replay -------------------------------
(***************************************************************************)
(* The Replay struct of file/w3g/w3g.go: Decode collects the records of a  *)
(* replay in it and Encode writes them again.  Each state is a replay as   *)
(* the game records it, one record after the other.                        *)
(***************************************************************************)
EXTENDS Integers, Sequences, SequencesExt

CONSTANTS Host,             \* ID of the player who hosts the game
          Players,          \* IDs of the others
          MaxTurns,         \* bound: records of the game itself
          NoSlots           \* a SlotInfo without slots

VARIABLE records            \* the records of the game

Rec(kind, arg) == [kind |-> kind, arg |-> arg]

Kind(kind) == SelectSeq(records, LAMBDA r : r.kind = kind)

Started == Kind("GameStart") # <<>>

Init == records = <<Rec("GameInfo", Host)>>

\* What the game records before it starts: the other players in some order,
\* extra information on any of them, and the slots, except in old replays.
Lobby ==
    /\ ~Started
    /\ \/ \E p \in Players : /\ Rec("PlayerInfo", p) \notin Range(records)
                             /\ records' = Append(records, Rec("PlayerInfo", p))
       \/ /\ Kind("PlayerExtra") = <<>>
          /\ \E p \in {Host} \cup Players :
                records' = Append(records, Rec("PlayerExtra", p))
       \/ /\ Kind("SlotInfo") = <<>>
          /\ records' = Append(records, Rec("SlotInfo", <<"slots">>))

\* CountDownStart, CountDownEnd and GameStart, with or without chat before.
Start ==
    /\ ~Started
    /\ \E chat \in {<<>>, <<Rec("MsgChat", Host)>>} :
        records' = records \o chat \o
            <<Rec("CountDownStart", 0), Rec("CountDownEnd", 0), Rec("GameStart", 0)>>

\* The turns of the game, their acknowledgements, chat and leaving players.
Turns == {Rec(kind, p) : kind \in {"TimeSlot", "TimeSlotAck", "MsgChatExtra", "PlayerLeft"},
                         p \in {Host} \cup Players}

Turn ==
    /\ Started
    /\ Len(SelectSeq(records, LAMBDA r : r \in Turns)) < MaxTurns
    /\ \E r \in Turns : records' = Append(records, r)

Done == Started /\ UNCHANGED records

Next == Lobby \/ Start \/ Turn \/ Done

Spec == Init /\ [][Next]_records

-----------------------------------------------------------------------------
\* The callback that Decode passes to ForEach.
Collect(res, r) ==
    CASE r.kind = "GameInfo" -> [res EXCEPT !.GameInfo = r.arg, !.PlayerInfo = <<r.arg>>]
      [] r.kind = "SlotInfo" -> [res EXCEPT !.SlotInfo = r.arg]
      [] r.kind = "PlayerInfo" -> [res EXCEPT !.PlayerInfo = Append(@, r.arg)]
      [] r.kind = "PlayerExtra" -> [res EXCEPT !.PlayerExtra = Append(@, r.arg)]
      [] r.kind \in {"CountDownStart", "CountDownEnd", "GameStart", "TimeSlotAck", "MsgChat"} ->
            res
      [] OTHER -> [res EXCEPT !.Records = Append(@, r)]

\* Decode: without slots every player gets one.
Decode(rs) ==
    LET res == FoldLeft(Collect,
                        [GameInfo |-> NoSlots, SlotInfo |-> NoSlots, PlayerInfo |-> <<>>,
                         PlayerExtra |-> <<>>, Records |-> <<>>], rs)
    IN  IF res.SlotInfo # NoSlots THEN res
        ELSE [res EXCEPT !.SlotInfo = [i \in DOMAIN res.PlayerInfo |-> i]]

\* Mutant: the host gets a record of its own.
Encode_HostTwice(r) ==
    <<Rec("GameInfo", r.GameInfo)>>
    \o [i \in DOMAIN r.PlayerInfo |-> Rec("PlayerInfo", r.PlayerInfo[i])]
    \o [i \in DOMAIN r.PlayerExtra |-> Rec("PlayerExtra", r.PlayerExtra[i])]
    \o <<Rec("SlotInfo", r.SlotInfo), Rec("GameStart", 0)>>
    \o r.Records

\* Replay.Encode: the record of the host is the GameInfo.
Encode(r) ==
    <<Rec("GameInfo", r.GameInfo)>>
    \o SelectSeq([i \in DOMAIN r.PlayerInfo |-> Rec("PlayerInfo", r.PlayerInfo[i])],
                 LAMBDA p : p.arg # r.GameInfo)
    \o [i \in DOMAIN r.PlayerExtra |-> Rec("PlayerExtra", r.PlayerExtra[i])]
    \o <<Rec("SlotInfo", r.SlotInfo), Rec("CountDownStart", 0), Rec("CountDownEnd", 0),
         Rec("GameStart", 0)>>
    \o r.Records

-----------------------------------------------------------------------------
\* A replay that is opened, saved and opened again is the same replay.
SavedReplayIsTheSame == Decode(Encode(Decode(records))) = Decode(records)

\* Decoding keeps the players, and the turns, chat and departures of the
\* game, in the order in which they were recorded.
NothingIsLost ==
    LET replay == Decode(records)
        kept(rs) == SelectSeq(rs, LAMBDA r : r \in Turns /\ r.kind # "TimeSlotAck")
        players == [i \in DOMAIN Kind("PlayerInfo") |-> Kind("PlayerInfo")[i].arg]
    IN  /\ replay.Records = kept(records)
        /\ kept(Encode(replay)) = kept(records)
        /\ replay.PlayerInfo = <<Host>> \o players
=============================================================================
