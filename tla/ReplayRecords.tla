--------------------------- MODULE ReplayRecords ---------------------------
(***************************************************************************)
(* The records of a replay, file/w3g/records.go: the layout of each record *)
(* type (see Layouts) and the factory.  A record has no size: it starts    *)
(* with its ID and ends where its Deserialize stops.  Several records have *)
(* the contents of a packet of the game protocol, W3GS.                    *)
(*                                                                         *)
(* old tells replays of game version 1.02 and earlier, which use other     *)
(* record IDs, from later ones.                                            *)
(***************************************************************************)
EXTENDS Layouts, Integers, Sequences

W3GS == INSTANCE W3GSPackets

\* A record: its ID, the least size that Deserialize accepts, its fields.
Record(rid, min, fs) == Layout(rid, 1, min, 1, fs)

\* SerializeContent of PlayerInfo.  Extra, the size of the additional data,
\* is 1 when join counter and race are both zero and 8 otherwise.
PlayerInfoContent ==
    <<Fixed(1, "ID"), CString("Name"), Tag(1, "Extra", {1, 8}),
      Switch("Extra",
             [n \in {1, 8} |-> IF n = 1 THEN <<Skipped(1, 0)>>
                               ELSE <<Fixed(4, "JoinCounter"), Fixed(4, "Race")>>],
             [n \in {1, 8} |-> n],
             {"JoinCounter", "Race"})>>

GameInfo ==
    Record("GameInfo", 24,
        <<Const(4, 1)>> \o PlayerInfoContent \o
        <<CString("GameName"), Const(1, 0), StatString("GameSettings"),
          Fixed(4, "NumSlots"), Fixed(4, "GameFlags"), Fixed(4, "LanguageID")>>)

PlayerInfo == Record("PlayerInfo", 9, PlayerInfoContent \o <<Skipped(4, 0)>>)

PlayerLeft ==
    Record("PlayerLeft", 14,
        <<Coded(4, "Local", [b \in {0, 1} |-> IF b = 1 THEN 12 ELSE 1],
                [c \in {1, 12, 14} |-> IF c = 12 THEN 1 ELSE 0]),
          Fixed(1, "PlayerID"), Fixed(4, "Reason"), Fixed(4, "Counter")>>)

SlotInfo == Record("SlotInfo", 10, <<W3GS!SlotInfoContent>>)

GameStart == Record("GameStart", 5, <<Const(4, 1)>>)

CountDownStart == [GameStart EXCEPT !.pid = "CountDownStart"]

CountDownEnd == [GameStart EXCEPT !.pid = "CountDownEnd"]

\* The size of what follows it, two bytes for the time and the actions.
TimeSlotContent ==
    <<Sized(2, 2, <<Fixed(2, "TimeIncrementMS"),
                    Elements("Actions", 3, 3, <<Fixed(1, "PlayerID"), Counted(2, "Data")>>)>>)>>

\* Old replays use the ID of a fragment for every time slot.
TimeSlot(old) == Record(IF old THEN "TimeSlot2" ELSE "TimeSlot", 5, TimeSlotContent)

TimeSlotFragment == Record("TimeSlot2", 5, TimeSlotContent)

ChatMessage ==
    Record("ChatMessage", 3,
        <<Fixed(1, "SenderID"),
          Sized(2, 2, <<Tag(1, "Type", {W3GS!MsgChat, W3GS!MsgTeamChange, W3GS!MsgChatExtra}),
                        W3GS!MessageBody>>)>>)

\* Old replays have no chat messages and use their ID for acknowledgements.
TimeSlotAck(old) ==
    Record(IF old THEN "ChatMessage" ELSE "TimeSlotAck", 2, <<Counted(1, "Checksum")>>)

Desync == Record("Desync", 11, W3GS!DesyncContent)

EndTimer == Record("EndTimer", 9, <<Fixed(4, "GameOver"), Fixed(4, "CountDownSec")>>)

PlayerExtra == Record("PlayerExtra", 6, W3GS!PlayerExtraContent)

-----------------------------------------------------------------------------
\* DefaultFactory: the type for each record ID.
DefaultFactory(old) ==
    [GameInfo |-> GameInfo, PlayerInfo |-> PlayerInfo, PlayerLeft |-> PlayerLeft,
     SlotInfo |-> SlotInfo, CountDownStart |-> CountDownStart,
     CountDownEnd |-> CountDownEnd, GameStart |-> GameStart,
     TimeSlot2 |-> IF old THEN TimeSlot(old) ELSE TimeSlotFragment,
     TimeSlot |-> TimeSlot(FALSE),
     ChatMessage |-> IF old THEN TimeSlotAck(old) ELSE ChatMessage,
     TimeSlotAck |-> TimeSlotAck(FALSE), Desync |-> Desync, EndTimer |-> EndTimer,
     PlayerExtra |-> PlayerExtra]

\* The records that are written to a replay.
Records(old) ==
    {GameInfo, PlayerInfo, PlayerLeft, SlotInfo, CountDownStart, CountDownEnd, GameStart,
     TimeSlot(old), TimeSlotAck(old), Desync, EndTimer, PlayerExtra}
        \cup IF old THEN {} ELSE {TimeSlotFragment, ChatMessage}
=============================================================================
