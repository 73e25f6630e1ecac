----------------------------- MODULE BnetLogon ------------------------------
(***************************************************************************)
(* The Battle.net client's operations (network/bnet): Logon, CreateAccount *)
(* and ChangePassword, each a sequence of exchanges over a connection of   *)
(* its own, any of which can fail.  A successful Logon hands its           *)
(* connection to the client (module BnetChat).                             *)
(*                                                                         *)
(* The server is external.  An honest server keeps the account's password  *)
(* and checks the client's proofs against it; another one answers anything *)
(* but cannot prove that it knows the password.  An exchange fails when a  *)
(* packet cannot be sent, none comes in time, an unexpected one comes, or  *)
(* the server refuses; only a refusal and a lost answer are told apart.    *)
(***************************************************************************)
EXTENDS Naturals, Sequences

CONSTANTS
  Passwords,   \* passwords of the account
  None,        \* no password: there is no account
  MaxClan      \* bound on the ClanInfo packets before the answer to EnterChat

VARIABLES
  sha1,       \* Config.SHA1Auth, frozen
  honest,     \* whether the server knows the password, frozen
  account,    \* the password the server has, None without account
  password,   \* Config.Password
  todo,       \* exchanges left of the operation, <<>> between operations
  srp,        \* the password the operation has started with
  newPass,    \* ChangePassword's new password
  open,       \* whether the operation's own connection is open
  clan,       \* ClanInfo packets received by sendEnterChat
  conn        \* whether the client has got a connection

opVars == <<todo, srp, newPass, open, clan>>
vars == <<sha1, honest, account, password, opVars, conn>>

NoAccount == None

Init ==
  /\ sha1 \in BOOLEAN /\ honest \in BOOLEAN
  /\ account \in Passwords \cup {NoAccount}
  /\ password \in Passwords
  /\ todo = <<>> /\ srp = None /\ newPass = None /\ open = FALSE /\ clan = 0
  /\ conn = FALSE
-----------------------------------------------------------------------------
(* The exchanges of DialWithConn and of the three operations.              *)
DialWithConn == <<"authInfo", "authCheck">>
Logon == DialWithConn \o <<"logon", "logonProof", "enterChat">>
CreateAccount == DialWithConn \o <<"create">>
ChangePassword == DialWithConn \o <<"changePass", "changePassProof">>

(* An operation starts: the SRP is made of the password now, and the       *)
(* server is dialled, which may fail.                                      *)
Begin(exchanges, p) ==
  /\ todo = <<>>
  /\ srp' = password /\ newPass' = p
  /\ todo' = exchanges /\ open' = TRUE /\ clan' = 0
  /\ UNCHANGED <<sha1, honest, account, password, conn>>

Dial ==
  \/ Begin(Logon, None) \/ Begin(CreateAccount, None)
  \/ \E p \in Passwords : Begin(ChangePassword, p)

(* VerifyPassword of the NLS and SHA1 providers.                           *)
VerifyPassword == sha1 \/ honest

(* Mutant: the server's proof is not verified.                             *)
Accepted_Unverified == TRUE

(* What Logon and ChangePassword require of a proof that the server has    *)
(* accepted.                                                               *)
Accepted == VerifyPassword

(* What the server answers: whether it accepts the request.                *)
Agrees(exchange) ==
  CASE ~ honest -> BOOLEAN
    [] exchange \in {"logon", "changePass"} -> {account # NoAccount}
    [] exchange \in {"logonProof", "changePassProof"} -> {srp = account}
    [] exchange = "create" -> {account = NoAccount}
    [] OTHER -> BOOLEAN

(* The account after a request that was accepted.                          *)
Account(exchange) ==
  CASE ~ honest -> account
    [] exchange = "create" -> srp
    [] exchange = "changePassProof" -> newPass
    [] OTHER -> account

(* An error: the connection is closed and the operation returns.           *)
Fail ==
  /\ todo' = <<>> /\ open' = FALSE
  /\ UNCHANGED <<srp, newPass, clan>>

Continue ==
  /\ todo' = Tail(todo)
  /\ open' = (Len(todo) > 1)
  /\ UNCHANGED <<srp, newPass, clan>>

(* Mutant: the password is changed when the request has been sent.         *)
changed_Early(exchange, success) ==
  IF exchange = "changePassProof" THEN newPass ELSE password

(* ChangePassword ends with an assignment to b.Password.                   *)
changed(exchange, success) ==
  IF exchange = "changePassProof" /\ success THEN newPass ELSE password

(* One exchange: the request does not reach the server, or it does and the *)
(* server accepts or refuses it, and its answer arrives or not.            *)
Exchange ==
  /\ todo # <<>> /\ Head(todo) # "enterChat"
  /\ \E reached, answered \in BOOLEAN : \E agrees \in Agrees(Head(todo)) :
       LET proof == Head(todo) \in {"logonProof", "changePassProof"}
           success == reached /\ agrees /\ answered /\ (proof => Accepted) IN
       /\ account' = IF reached /\ agrees THEN Account(Head(todo)) ELSE account
       /\ IF success THEN Continue ELSE Fail
       /\ password' = changed(Head(todo), success)
  /\ UNCHANGED <<sha1, honest, conn>>

(* sendEnterChat reads on after a ClanInfo packet, which it fires.         *)
clanInfo ==
  /\ todo = <<"enterChat">> /\ clan < MaxClan
  /\ clan' = clan + 1
  /\ UNCHANGED <<sha1, honest, account, password, todo, srp, newPass, open, conn>>

(* Mutant: after a ClanInfo packet there is no deadline any more.          *)
enterChatFails_NoDeadline ==
  /\ todo = <<"enterChat">> /\ clan = 0
  /\ Fail
  /\ UNCHANGED <<sha1, honest, account, password, conn>>

(* NoTimeout leaves the deadline of the first NextPacket in place.         *)
enterChatFails ==
  /\ todo = <<"enterChat">>
  /\ Fail
  /\ UNCHANGED <<sha1, honest, account, password, conn>>

(* The answer to EnterChat: JoinChannel is sent and the client takes the   *)
(* connection over.                                                        *)
logonEnds ==
  /\ todo = <<"enterChat">>
  /\ todo' = <<>> /\ open' = FALSE /\ conn' = TRUE
  /\ UNCHANGED <<sha1, honest, account, password, srp, newPass, clan>>
-----------------------------------------------------------------------------
Next == Dial \/ Exchange \/ clanInfo \/ enterChatFails \/ logonEnds

Spec == Init /\ [][Next]_vars

(* Every NextPacket of an operation has a deadline.                        *)
FairSpec == Spec /\ WF_vars(Exchange) /\ WF_vars(enterChatFails)
-----------------------------------------------------------------------------
Exchanges == {"authInfo", "authCheck", "logon", "logonProof", "enterChat", "create",
              "changePass", "changePassProof"}

TypeOK ==
  /\ account \in Passwords \cup {NoAccount} /\ password \in Passwords
  /\ todo \in Seq(Exchanges)
  /\ srp \in Passwords \cup {None} /\ newPass \in Passwords \cup {None}
  /\ open \in BOOLEAN /\ clan \in 0..MaxClan /\ conn \in BOOLEAN

(* A client that verifies with SRP never chats with a server that does not *)
(* know its password.                                                      *)
ChatsWithVerified == conn => honest \/ sha1

(* Every exit of an operation closes its connection or hands it over: none *)
(* is open when no operation runs.                                         *)
NoneLeftOpen == todo = <<>> => ~ open

(* ChangePassword changes the client's password only to the one that an    *)
(* honest server has.                                                      *)
PasswordKeptStep == honest /\ password' # password => password' = account'

(* Every operation ends, whatever the server does.                         *)
OperationsEnd == todo # <<>> ~> todo = <<>>
=============================================================================
