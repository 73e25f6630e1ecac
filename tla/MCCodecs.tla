------------------------------ MODULE MCCodecs ------------------------------
(***************************************************************************)
(* Small instances for TLC of what is written and read back: a stream of   *)
(* packets or of replay records, the stat string of a game, a replay file  *)
(* and the replay in it.  Each initial state chooses one of them, and the  *)
(* others stand still in their initial states.                             *)
(***************************************************************************)
EXTENDS Naturals, Sequences

CONSTANTS HostCounters, Types, Factory, Probe, MaxPackets, Values, MaxLen,
          BufSize, PeekSize, MaxBlock, Sizes, MaxRecords,
          Host, Players, MaxTurns, NoSlots

VARIABLES machine,
          protocol, stream, sent, got, cache,
          statstring,
          old, seeker, game, written, wbuf, file, b, count, phase, d, rbuf, peek, read, err,
          records

W3GS == INSTANCE W3GSPackets

BNCS == INSTANCE BNCSPackets

W3G == INSTANCE ReplayRecords

(* The game protocol, the chat server protocol in both directions, and the *)
(* records of new and old replays.                                         *)
AllTypes ==
  [w3gs |-> W3GS!Packets, request |-> BNCS!Requests, response |-> BNCS!Responses,
   replay |-> W3G!Records(FALSE), oldreplay |-> W3G!Records(TRUE)]

AllFactories ==
  [w3gs |-> W3GS!DefaultFactory,
   request |-> BNCS!DefaultFactory(TRUE), response |-> BNCS!DefaultFactory(FALSE),
   replay |-> W3G!DefaultFactory(FALSE), oldreplay |-> W3G!DefaultFactory(TRUE)]

AllProbes ==
  [w3gs |-> W3GS!PlayerLoaded, request |-> BNCS!Ping, response |-> BNCS!Ping,
   replay |-> W3G!EndTimer, oldreplay |-> W3G!EndTimer]

(* Packets with empty strings and lists, with short ones, and with lists   *)
(* of two elements and long strings.                                       *)
Stream == INSTANCE PacketStream WITH Shapes <- {<<0, 0>>, <<1, 1>>, <<200, 2>>}

Stat == INSTANCE StatString

(* Records below, at and above what is peeked, the buffer and a block.     *)
RecordSizes == [counted |-> {2, 3, 7, 8, 9, 11}, slots |-> {2, 5}, strings |-> {7, 9}]

File == INSTANCE ReplayFile

Saved == INSTANCE Replay

streamVars == <<protocol, stream, sent, got, cache>>
fileVars == <<old, seeker, game, written, wbuf, file, b, count, phase, d, rbuf, peek, read, err>>

MCInit ==
  /\ machine \in {"stream", "stat", "file", "saved"}
  /\ Stream!Init /\ Stat!Init /\ File!Init /\ Saved!Init
  /\ machine # "stream" => protocol = "w3gs"
  /\ machine # "file" => old /\ seeker /\ game

MCNext ==
  /\ UNCHANGED machine
  /\ \/ machine = "stream" /\ Stream!Next /\ UNCHANGED <<statstring, fileVars, records>>
     \/ machine = "stat" /\ Stat!Next /\ UNCHANGED <<streamVars, fileVars, records>>
     \/ machine = "file" /\ File!Next /\ UNCHANGED <<streamVars, statstring, records>>
     \/ machine = "saved" /\ Saved!Next /\ UNCHANGED <<streamVars, statstring, fileVars>>

MCSpec == MCInit /\ [][MCNext]_<<machine, streamVars, statstring, fileVars, records>>

(* PacketStream: packets are read as they were written, except for fields  *)
(* that the cached struct has from an earlier packet.                      *)
ReadsWhatWasWritten == Stream!ReadsWhatWasWritten

(* StatString: what is encoded is decoded again.                           *)
StatRoundTrip == Stat!StatRoundTrip

(* ReplayFile: every record is read back, unless it is larger than the     *)
(* buffer of the reader, or has slots or strings and is larger than what   *)
(* the reader peeks first.                                                 *)
AllReadBack == File!AllReadBack

(* Replay: a replay that is saved and opened again is the same.            *)
SavedReplayIsTheSame == Saved!SavedReplayIsTheSame
=============================================================================
