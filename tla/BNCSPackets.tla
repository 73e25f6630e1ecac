---------------------------- MODULE BNCSPackets ----------------------------
(***************************************************************************)
(* The packets of the Battle.net chat server protocol, protocol/bncs: the  *)
(* layout of each packet type (see Layouts) and the factory, which needs   *)
(* the direction of a packet as well as its ID.                            *)
(***************************************************************************)
EXTENDS Layouts, Integers, Sequences, FiniteSetsExt

CONSTANT HostCounters       \* host counters of the games in the packets

UnknownPacket == Layout("unknown", 4, 4, 4, <<Blob("Blob")>>)

KeepAlive == Exactly("Null", 4, <<>>)

Ping == Exactly("Ping", 8, <<Fixed(4, "Payload")>>)

EnterChatReq == Exactly("EnterChat", 6, <<Const(2, 0)>>)

EnterChatResp ==
    Layout("EnterChat", 7, 7, 7,
        <<CString("UniqueName"), CString("StatString"), CString("AccountName")>>)

JoinChannel == Layout("JoinChannel", 9, 9, 9, <<Fixed(4, "Flag"), CString("Channel")>>)

ChatCommand == Layout("ChatCommand", 5, 5, 5, <<CString("Text")>>)

\* The flags of a ChatChannelInfo event are those of the channel, of any
\* other event those of the user.
ChatTalk == 5

ChatChannelInfo == 7

\* 0xbaadf00d as a signed number.
BAADF00D == -1163005939

ChatEvent ==
    Layout("ChatEvent", 30, 30, 30,
        <<Tag(4, "Type", {ChatTalk, ChatChannelInfo}),
          Switch("Type",
                 [t \in {ChatTalk, ChatChannelInfo} |->
                    <<Fixed(4, IF t = ChatChannelInfo THEN "ChannelFlags" ELSE "UserFlags")>>],
                 [t \in {ChatTalk, ChatChannelInfo} |-> 0],
                 {"ChannelFlags", "UserFlags"}),
          Fixed(4, "Ping"), Const(4, 0), Const(4, BAADF00D), Const(4, BAADF00D),
          CString("Username"), CString("Text")>>)

FloodDetected == Exactly("FloodDetected", 4, <<>>)

MessageBox ==
    Layout("MessageBox", 10, 10, 10,
        <<Fixed(4, "Style"), CString("Text"), CString("Caption")>>)

-----------------------------------------------------------------------------
\* The free slots of a game as a character, '0' to '9' and then from 'a'.
SlotsFree ==
    Coded(1, "SlotsFree",
        [n \in {0, 9, 10, 24} |-> IF n >= 10 THEN 49 + 48 + n - 10 ELSE 48 + n],
        [c \in 0..255 |-> IF c >= 49 + 48 THEN c - (49 + 48 - 10)
                          ELSE IF c >= 48 THEN c - 48 ELSE c])

\* The text of a host counter: its hexadecimal digits, least significant
\* first.  strconv.AppendInt writes the reversed number over eight '0'
\* characters from the left, and leaves out the leading zeros, the digits
\* that are the last ones of the host counter.
HexText(n) ==
    LET digit(i) == (n \div 16^i) % 16
        first == IF n = 0 THEN 0 ELSE Min({i \in 0..7 : digit(i) # 0})
    IN  [i \in 0..7 |-> IF i + first <= 7 THEN digit(i + first) ELSE 0]

\* strconv.ParseUint and the reversal of the digits.
HexValue(text) == SumSet({text[i] * 16^i : i \in {j \in 0..7 : text[j] # 0}})

HostCounter ==
    Coded(8, "HostCounter", [n \in HostCounters |-> HexText(n)],
          [t \in {HexText(n) : n \in HostCounters} |-> HexValue(t)])

\* SerializeContent of GameSettings, of which Size counts 9 and the stat string.
GameSettings == <<SlotsFree, HostCounter, StatString("GameSettings")>>

GetAdvListGame ==
    <<Fixed(4, "GameFlags"), Fixed(4, "LanguageID"), SockAddr("Addr"),
      Fixed(4, "GameStateFlags"), Fixed(4, "UptimeSec"), CString("GameName"), Const(1, 0)>>
        \o GameSettings

\* The result is there only when no games are listed.
GetAdvListResp ==
    Layout("GetAdvListEx", Measured, 12, 8,
        <<List(4, "Games", 33 + 1 + 9, GetAdvListGame),
          IfEmpty("Games", 4, <<Fixed(4, "Result")>>)>>)

GetAdvListReq ==
    Layout("GetAdvListEx", 23, 23, 23,
        <<Fixed(4, "Filter"), Fixed(4, "FilterMask"), Const(4, 0),
          Fixed(4, "NumberOfGames"), CString("GameName"), Const(1, 0), Const(1, 0)>>)

StartAdvex3Resp == Exactly("StartAdvex3", 8, <<Fixed(4, "Failed")>>)

StartAdvex3Req ==
    Layout("StartAdvex3", 26 + 9, 27, 26 + 9,
        <<Fixed(4, "GameStateFlags"), Fixed(4, "UptimeSec"), Fixed(4, "GameFlags"),
          Const(4, 1023), Fixed(4, "Ladder"), CString("GameName"), Const(1, 0)>>
            \o GameSettings)

StopAdv == Exactly("StopAdv", 4, <<>>)

GameVersion == <<Fixed(4, "Product"), Fixed(4, "Version")>>

NotifyJoin ==
    Layout("NotifyJoin", 14, 14, 14, GameVersion \o <<CString("GameName"), Const(1, 0)>>)

NetGamePort == Exactly("NetGamePort", 6, <<Fixed(2, "Port")>>)

-----------------------------------------------------------------------------
AuthInfoResp ==
    Layout("AuthInfo", 154, 154, 154,
        <<Const(4, 2), Fixed(4, "ServerToken"), Fixed(4, "Unknown1"),
          Fixed(8, "MpqFileTime"), CString("MpqFileName"), CString("ValueString"),
          Fixed(128, "ServerSignature")>>)

AuthInfoReq ==
    Layout("AuthInfo", 42, 42, 42,
        <<Const(4, 0), Fixed(4, "PlatformCode")>> \o GameVersion \o
        <<Fixed(4, "LanguageCode"), Fixed(4, "LocalIP"), Fixed(4, "TimeZoneBias"),
          Fixed(4, "MpqLocaleID"), Fixed(4, "UserLanguageID"),
          CString("CountryAbbreviation"), CString("Country")>>)

AuthCheckResp ==
    Layout("AuthCheck", 9, 9, 9, <<Fixed(4, "Result"), CString("AdditionalInformation")>>)

CDKey ==
    <<Fixed(4, "KeyLength"), Fixed(4, "KeyProductValue"), Fixed(4, "KeyPublicValue"),
      Const(4, 0), Fixed(20, "HashedKeyData")>>

\* The number of keys, a constant, and then the keys.
AuthCheckReq ==
    Layout("AuthCheck", 26, 26, 26,
        <<Fixed(4, "ClientToken"), Fixed(4, "ExeVersion"), Fixed(4, "ExeHash"),
          ListAfter(4, "CDKeys", 36, <<Const(4, 0)>>, CDKey),
          CString("ExeInformation"), CString("KeyOwnerName")>>)

AuthAccountCreateResp == Exactly("AuthAccountCreate", 8, <<Fixed(4, "Result")>>)

AuthAccountCreateReq ==
    Layout("AuthAccountCreate", 69, 69, 69,
        <<Fixed(32, "Salt"), Fixed(32, "Verifier"), CString("Username")>>)

AuthAccountLogonResp ==
    Exactly("AuthAccountLogon", 72,
        <<Fixed(4, "Result"), Fixed(32, "Salt"), Fixed(32, "ServerKey")>>)

AuthAccountLogonReq ==
    Layout("AuthAccountLogon", 37, 37, 37, <<Fixed(32, "ClientKey"), CString("Username")>>)

\* The additional information is there only with LogonProofCustomError, and
\* with any other result Deserialize leaves the field as it was.
LogonProofSuccess == 0
LogonProofCustomError == 15

AuthAccountLogonProofResp ==
    Layout("AuthAccountLogonProof", 28, 28, 28,
        <<Tag(4, "Result", {LogonProofSuccess, LogonProofCustomError}),
          Fixed(20, "ServerPasswordProof"),
          Switch("Result",
                 [r \in {LogonProofSuccess, LogonProofCustomError} |->
                    IF r = LogonProofCustomError THEN <<CString("AdditionalInformation")>>
                    ELSE <<>>],
                 [r \in {LogonProofSuccess, LogonProofCustomError} |->
                    IF r = LogonProofCustomError THEN 1 ELSE 0],
                 {})>>)

AuthAccountLogonProofReq ==
    Exactly("AuthAccountLogonProof", 24, <<Fixed(20, "ClientPasswordProof")>>)

\* The packets of a password change embed those of a logon.
AuthAccountChangePassResp == [AuthAccountLogonResp EXCEPT !.pid = "AuthAccountChange"]

AuthAccountChangePassReq == [AuthAccountLogonReq EXCEPT !.pid = "AuthAccountChange"]

AuthAccountChangePassProofResp ==
    [AuthAccountLogonProofResp EXCEPT !.pid = "AuthAccountChangeProof"]

AuthAccountChangePassProofReq ==
    Exactly("AuthAccountChangeProof", 88,
        <<Fixed(20, "ClientPasswordProof"), Fixed(32, "NewSalt"), Fixed(32, "NewVerifier")>>)

SetEmail == Layout("SetEmail", 5, 5, 5, <<CString("EmailAddress")>>)

ClanInfo == Exactly("ClanInfo", 10, <<Const(1, 0), Fixed(4, "Tag"), Fixed(1, "Rank")>>)

-----------------------------------------------------------------------------
\* DefaultFactory: the type for each packet ID in either direction...
Both ==
    [Null |-> KeepAlive, StopAdv |-> StopAdv, JoinChannel |-> JoinChannel,
     ChatCommand |-> ChatCommand, ChatEvent |-> ChatEvent,
     FloodDetected |-> FloodDetected, MessageBox |-> MessageBox,
     NotifyJoin |-> NotifyJoin, Ping |-> Ping, NetGamePort |-> NetGamePort,
     SetEmail |-> SetEmail, ClanInfo |-> ClanInfo]

\* ... and with ReqResp the ones that differ: a request and a response.
ReqResp ==
    [GetAdvListEx |-> <<GetAdvListReq, GetAdvListResp>>,
     EnterChat |-> <<EnterChatReq, EnterChatResp>>,
     StartAdvex3 |-> <<StartAdvex3Req, StartAdvex3Resp>>,
     AuthInfo |-> <<AuthInfoReq, AuthInfoResp>>,
     AuthCheck |-> <<AuthCheckReq, AuthCheckResp>>,
     AuthAccountCreate |-> <<AuthAccountCreateReq, AuthAccountCreateResp>>,
     AuthAccountLogon |-> <<AuthAccountLogonReq, AuthAccountLogonResp>>,
     AuthAccountLogonProof |-> <<AuthAccountLogonProofReq, AuthAccountLogonProofResp>>,
     AuthAccountChange |-> <<AuthAccountChangePassReq, AuthAccountChangePassResp>>,
     AuthAccountChangeProof |->
        <<AuthAccountChangePassProofReq, AuthAccountChangePassProofResp>>]

DefaultFactory(request) ==
    [pid \in DOMAIN Both \cup DOMAIN ReqResp |->
        IF pid \in DOMAIN Both THEN Both[pid]
        ELSE ReqResp[pid][IF request THEN 1 ELSE 2]]

\* The packet types that a client sends, and those that a server sends.
Requests ==
    {KeepAlive, Ping, EnterChatReq, JoinChannel, ChatCommand, GetAdvListReq,
     StartAdvex3Req, StopAdv, NotifyJoin, NetGamePort, AuthInfoReq, AuthCheckReq,
     AuthAccountCreateReq, AuthAccountLogonReq, AuthAccountLogonProofReq,
     AuthAccountChangePassReq, AuthAccountChangePassProofReq, SetEmail}

Responses ==
    {UnknownPacket, KeepAlive, Ping, EnterChatResp, ChatEvent, FloodDetected, MessageBox,
     GetAdvListResp, StartAdvex3Resp, AuthInfoResp, AuthCheckResp,
     AuthAccountCreateResp, AuthAccountLogonResp, AuthAccountLogonProofResp,
     AuthAccountChangePassResp, AuthAccountChangePassProofResp, ClanInfo}
=============================================================================
