---------------------------- MODULE W3GSPackets ----------------------------
(***************************************************************************)
(* The packets of the game protocol, protocol/w3gs: for each packet type   *)
(* the layout that its Serialize method writes and its Deserialize method  *)
(* reads (see Layouts), and the factory that picks the type of a packet ID. *)
(***************************************************************************)
EXTENDS Layouts, Integers, Sequences

UnknownPacket == Layout("unknown", 4, 4, 4, <<Blob("Blob")>>)

Ping == Exactly("PingFromHost", 8, <<Fixed(4, "Payload")>>)

\* Pong embeds Ping and overwrites the packet ID.
Pong == [Ping EXCEPT !.pid = "PongToHost"]

PeerPing ==
    Exactly("PingFromOthers", 16,
        <<Fixed(4, "Payload"), Fixed(4, "PeerSet"), Fixed(4, "GameTicks")>>)

PeerPong == [Ping EXCEPT !.pid = "PongToOthers"]

\* Two bytes follow their number; Deserialize skips as many as it is told.
Join ==
    Layout("ReqJoin", 39, 37, 37 + 2,
        <<Fixed(4, "HostCounter"), Fixed(4, "EntryKey"), Const(1, 0),
          Fixed(2, "ListenPort"), Fixed(4, "JoinCounter"), CString("PlayerName"),
          Skipped(1, 2), Skipped(1, 0), Skipped(1, 0), SockAddr("InternalAddr")>>)

RejectJoin == Exactly("RejectJoin", 8, <<Fixed(4, "Reason")>>)

SlotData ==
    <<Fixed(1, "PlayerID"), Fixed(1, "DownloadStatus"), Fixed(1, "SlotStatus"),
      Fixed(1, "Computer"), Fixed(1, "Team"), Fixed(1, "Color"), Fixed(1, "Race"),
      Fixed(1, "ComputerType"), Fixed(1, "Handicap")>>

\* SerializeContent and DeserializeContent of SlotInfo, for slots of nine
\* bytes.
SlotInfoContent ==
    Sized(2, 7, <<List(1, "Slots", 9, SlotData), Fixed(4, "RandomSeed"),
                  Fixed(1, "SlotLayout"), Fixed(1, "NumPlayers")>>)

SlotInfo == Layout("SlotInfo", 13, 13, 13, <<SlotInfoContent>>)

SlotInfoJoin ==
    Layout("SlotInfoJoin", 30, 23, 30,
        <<SlotInfoContent, Fixed(1, "PlayerID"), SockAddr("ExternalAddr")>>)

PlayerInfo ==
    Layout("PlayerInfo", 44, 43, 43 + 1,
        <<Fixed(4, "JoinCounter"), Fixed(1, "PlayerID"), CString("PlayerName"),
          Skipped(1, 1), Skipped(1, 0),
          SockAddr("ExternalAddr"), SockAddr("InternalAddr")>>)

Leave == Exactly("LeaveReq", 8, <<Fixed(4, "Reason")>>)

PlayerKicked == [Leave EXCEPT !.pid = "PlayerKicked"]

LeaveAck == Exactly("LeaveAck", 4, <<>>)

PlayerLeft == Exactly("PlayerLeft", 9, <<Fixed(1, "PlayerID"), Fixed(4, "Reason")>>)

CountDownStart == Exactly("CountDownStart", 4, <<>>)

CountDownEnd == Exactly("CountDownEnd", 4, <<>>)

GameLoaded == Exactly("GameLoadedSelf", 4, <<>>)

PlayerLoaded == Exactly("PlayerLoaded", 5, <<Fixed(1, "PlayerID")>>)

GameOver == Exactly("GameOver", 5, <<Fixed(1, "PlayerID")>>)

LagPlayer == <<Fixed(1, "PlayerID"), Fixed(4, "LagDurationMS")>>

StartLag == Layout("StartLag", 5, 5, 5, <<List(1, "Players", 5, LagPlayer)>>)

StopLag == Exactly("StopLag", 9, LagPlayer)

DropLaggers == Exactly("DropReq", 4, <<>>)

GameAction ==
    Layout("OutgoingAction", 8, 8, 8, <<Checksum(4, "Data"), Blob("Data")>>)

\* The packet ID tells a fragment of a turn from its end.
TimeSlot ==
    Layout("IncomingAction", Measured, 6, 8,
        <<Fixed(2, "TimeIncrementMS"), Checksum(2, "Actions"),
          Elements("Actions", 3, 3, <<Fixed(1, "PlayerID"), Counted(2, "Data")>>)>>)

TimeSlotFragment == [TimeSlot EXCEPT !.pid = "IncomingAction2"]

TimeSlotAck == Exactly("OutgoingKeepAlive", 9, <<Fixed(1, "Unknown1"), Fixed(4, "Checksum")>>)

DesyncContent ==
    <<Fixed(4, "Unknown1"), Const(1, 4), Fixed(4, "Checksum"), Counted(1, "PlayersInState")>>

Desync == Layout("Desync", 14, 14, 14, DesyncContent)

\* What follows the type of a chat message: MsgChat, MsgChatExtra, or one of
\* the four lobby requests.
MsgChat == 16
MsgTeamChange == 17
MsgChatExtra == 32

\* Mutant: the fields of another type of message stay.
MessageBody_Keeps ==
    Switch("Type",
           [t \in {MsgChat, MsgTeamChange, MsgChatExtra} |->
                CASE t = MsgChat       -> <<CString("Content")>>
                  [] t = MsgTeamChange -> <<Fixed(1, "NewVal")>>
                  [] t = MsgChatExtra  -> <<Fixed(4, "Scope"), CString("Content")>>],
           [t \in {MsgChat, MsgTeamChange, MsgChatExtra} |->
                IF t = MsgChatExtra THEN 4 ELSE 0],
           {})

MessageBody ==
    Switch("Type",
           [t \in {MsgChat, MsgTeamChange, MsgChatExtra} |->
                CASE t = MsgChat       -> <<CString("Content")>>
                  [] t = MsgTeamChange -> <<Fixed(1, "NewVal")>>
                  [] t = MsgChatExtra  -> <<Fixed(4, "Scope"), CString("Content")>>],
           [t \in {MsgChat, MsgTeamChange, MsgChatExtra} |->
                IF t = MsgChatExtra THEN 4 ELSE 0],
           {"Scope", "NewVal", "Content"})

MessagePacket ==
    Layout("ChatToHost", 8, 8, 8,
        <<Counted(1, "RecipientIDs"), Fixed(1, "SenderID"),
          Tag(1, "Type", {MsgChat, MsgTeamChange, MsgChatExtra}), MessageBody>>)

MessageRelay == [MessagePacket EXCEPT !.pid = "ChatFromHost"]

PeerMessage == [MessagePacket EXCEPT !.pid = "ChatFromOthers"]

GameVersion == <<Fixed(4, "Product"), Fixed(4, "Version")>>

SearchGame == Exactly("SearchGame", 16, GameVersion \o <<Fixed(4, "HostCounter")>>)

GameInfo ==
    Layout("GameInfo", 44, 45, 44,
        GameVersion \o
        <<Fixed(4, "HostCounter"), Fixed(4, "EntryKey"), CString("GameName"),
          Const(1, 0), StatString("GameSettings"), Fixed(4, "SlotsTotal"),
          Fixed(4, "GameFlags"), Fixed(4, "SlotsUsed"), Fixed(4, "SlotsAvailable"),
          Fixed(4, "UptimeSec"), Fixed(2, "GamePort")>>)

CreateGame == Exactly("CreateGame", 16, GameVersion \o <<Fixed(4, "HostCounter")>>)

RefreshGame ==
    Exactly("RefreshGame", 16,
        <<Fixed(4, "HostCounter"), Fixed(4, "SlotsUsed"), Fixed(4, "SlotsAvailable")>>)

DecreateGame == Exactly("DecreateGame", 8, <<Fixed(4, "HostCounter")>>)

PeerConnect ==
    Exactly("ClientInfo", 18,
        <<Fixed(4, "JoinCounter"), Fixed(4, "EntryKey"), Fixed(1, "PlayerID"),
          Const(1, 255), Fixed(4, "PeerSet")>>)

PeerSet == Exactly("PeerSet", 6, <<Fixed(2, "PeerSet")>>)

MapCheck ==
    Layout("MapCheck", 41, 41, 41,
        <<Const(4, 1), CString("FilePath"), Fixed(4, "FileSize"), Fixed(4, "FileCRC"),
          Fixed(4, "MapXoro"), Fixed(20, "MapSha1")>>)

StartDownload == Exactly("StartDownload", 9, <<Const(4, 1), Fixed(1, "PlayerID")>>)

MapState ==
    Exactly("MapSize", 13,
        <<Const(4, 1),
          Coded(1, "Ready", [b \in {0, 1} |-> IF b = 1 THEN 1 ELSE 3],
                [c \in {1, 3} |-> IF c = 1 THEN 1 ELSE 0]),
          Fixed(4, "FileSize")>>)

MapPart ==
    Layout("MapPart", 18, 18, 18,
        <<Fixed(1, "RecipientID"), Fixed(1, "SenderID"), Const(4, 1),
          Fixed(4, "ChunkPos"), Checksum(4, "Data"), Blob("Data")>>)

MapPartOK ==
    Exactly("MapPartOK", 14,
        <<Fixed(1, "SenderID"), Fixed(1, "RecipientID"), Const(4, 1), Fixed(4, "ChunkPos")>>)

MapPartError == Exactly("MapPartError", 4, <<>>)

\* PlayerProfile, PlayerSkins and PlayerExtra5, of one or several players,
\* whose protobuf encoding is external.
PlayerExtraContent ==
    LET of == [t \in 3..5 |-> <<"Profiles", "Skins", "Unknown5">>[t - 2]]
    IN  <<Tag(1, "Type", 3..5), Message(4, "Type", of, {of[t] : t \in 3..5})>>

PlayerExtra == Layout("PlayerExtra", Measured, 6, Measured, PlayerExtraContent)

-----------------------------------------------------------------------------
\* DefaultFactory: the type for each packet ID; any other ID is an
\* UnknownPacket.
DefaultFactory ==
    [PingFromHost |-> Ping, SlotInfoJoin |-> SlotInfoJoin, RejectJoin |-> RejectJoin,
     PlayerInfo |-> PlayerInfo, PlayerLeft |-> PlayerLeft, PlayerLoaded |-> PlayerLoaded,
     SlotInfo |-> SlotInfo, CountDownStart |-> CountDownStart,
     CountDownEnd |-> CountDownEnd, IncomingAction |-> TimeSlot, Desync |-> Desync,
     ChatFromHost |-> MessageRelay, StartLag |-> StartLag, StopLag |-> StopLag,
     GameOver |-> GameOver, PlayerKicked |-> PlayerKicked, LeaveAck |-> LeaveAck,
     ReqJoin |-> Join, LeaveReq |-> Leave, GameLoadedSelf |-> GameLoaded,
     OutgoingAction |-> GameAction, OutgoingKeepAlive |-> TimeSlotAck,
     ChatToHost |-> MessagePacket, DropReq |-> DropLaggers, SearchGame |-> SearchGame,
     GameInfo |-> GameInfo, CreateGame |-> CreateGame, RefreshGame |-> RefreshGame,
     DecreateGame |-> DecreateGame, ChatFromOthers |-> PeerMessage,
     PingFromOthers |-> PeerPing, PongToOthers |-> PeerPong, ClientInfo |-> PeerConnect,
     PeerSet |-> PeerSet, MapCheck |-> MapCheck, StartDownload |-> StartDownload,
     MapSize |-> MapState, MapPart |-> MapPart, MapPartOK |-> MapPartOK,
     MapPartError |-> MapPartError, PongToHost |-> Pong,
     IncomingAction2 |-> TimeSlotFragment, PlayerExtra |-> PlayerExtra]

\* Every packet type, to be written.
Packets ==
    {UnknownPacket, Ping, Pong, PeerPing, PeerPong, Join, RejectJoin, SlotInfoJoin,
     SlotInfo, PlayerInfo, Leave, PlayerKicked, LeaveAck, PlayerLeft, CountDownStart,
     CountDownEnd, GameLoaded, PlayerLoaded, GameOver, StartLag, StopLag, DropLaggers,
     GameAction, TimeSlot, TimeSlotFragment, TimeSlotAck, Desync, MessagePacket,
     MessageRelay, PeerMessage, SearchGame, GameInfo, CreateGame, RefreshGame,
     DecreateGame, PeerConnect, PeerSet, MapCheck, StartDownload, MapState, MapPart,
     MapPartOK, MapPartError, PlayerExtra}
=============================================================================
