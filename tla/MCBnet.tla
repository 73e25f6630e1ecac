------------------------------- MODULE MCBnet -------------------------------
(***************************************************************************)
(* Small instances for TLC of the two chat clients: the Battle.net         *)
(* client's operations, its chat, and the calls of the chat bot.  Each     *)
(* initial state chooses one of them, and the others stand still in their  *)
(* initial states.                                                         *)
(***************************************************************************)
EXTENDS Naturals, Sequences, FiniteSets

CONSTANTS None, Passwords, MaxClan, Users, MaxQueue, Callers, Pause, MaxPause, MaxRid

(* A channel holds finitely many users.                                    *)
ASSUME UsersAssumption == IsFiniteSet(Users)

VARIABLES machine,
          sha1, honest, account, password, todo, srp, newPass, open, clan, joined,
          conn, logon, run, keepalive, room, queue, users, told,
          rid, connected, pc, mine, d, rsp, result, requests, answers, executed

Logon == INSTANCE BnetLogon WITH conn <- joined

Chat == INSTANCE BnetChat

Bot == INSTANCE ChatBot WITH Nil <- None, conn <- connected

logonVars == <<sha1, honest, account, password, todo, srp, newPass, open, clan, joined>>
chatVars == <<conn, logon, run, keepalive, room, queue, users, told>>
botVars == <<rid, connected, pc, mine, d, rsp, result, requests, answers, executed>>

MCInit ==
  /\ machine \in {"logon", "chat", "bot"}
  /\ Logon!Init /\ Chat!Init /\ Bot!Init
  /\ machine # "logon" => /\ ~ sha1 /\ honest /\ account = None
                          /\ password = CHOOSE p \in Passwords : TRUE

MCNext ==
  /\ UNCHANGED machine
  /\ \/ machine = "logon" /\ Logon!Next /\ UNCHANGED <<chatVars, botVars>>
     \/ machine = "chat" /\ Chat!Next /\ UNCHANGED <<logonVars, botVars>>
     \/ machine = "bot" /\ Bot!Next /\ UNCHANGED <<logonVars, chatVars>>

(* The fairness of BnetLogon and ChatBot.                                  *)
MCSpec ==
  /\ MCInit /\ [][MCNext]_<<machine, logonVars, chatVars, botVars>>
  /\ WF_logonVars(machine = "logon" /\ Logon!Exchange)
  /\ WF_logonVars(machine = "logon" /\ Logon!enterChatFails)
  /\ \A c \in Callers :
       /\ WF_botVars(machine = "bot" /\ Bot!RPC(c) /\ pc[c] = "sleep")
       /\ WF_botVars(machine = "bot" /\ Bot!send(c))
       /\ WF_botVars(machine = "bot" /\ Bot!deadline(c))

(* BnetLogon: with SRP the client chats only with a server that knows its  *)
(* password.                                                               *)
ChatsWithVerified == Logon!ChatsWithVerified

(* BnetLogon: the password changes only to the one the server has.         *)
PasswordKept == [][Logon!PasswordKeptStep]_logonVars

(* BnetLogon: every operation ends, whatever the server does.              *)
OperationsEnd == Logon!OperationsEnd

(* BnetChat: Users is up to date when every packet has been handled.       *)
UsersUpToDate == Chat!UsersUpToDate

(* ChatBot: a call returns the answer to its own last attempt.             *)
OwnAnswer == Bot!OwnAnswer

(* ChatBot: every call returns, whatever the server does.                  *)
CallsReturn == Bot!CallsReturn
=============================================================================
