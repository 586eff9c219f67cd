------------------------------ MODULE OpenHost ------------------------------
(***************************************************************************)
(* Opening a session: FTPOpenHost's dial loop, OpenControlConnection, the  *)
(* login automaton of FTPLoginHost with its firewall dialogues, the first  *)
(* PWD, FTPQueryFeatures, and FTPCloseHost (src/libncftp/open.c, ftp.c,    *)
(* c_opennologin.c).                                                       *)
(*                                                                         *)
(* The server, and the firewall that stands before it, are external.  What *)
(* they expect is the dialogue that doc/libncftp.html describes for each   *)
(* type of firewall; they may refuse any step of it, ask for less, ask     *)
(* again, be slow, or hang up.                                             *)
(***************************************************************************)
EXTENDS Naturals, Sequences

CONSTANTS
  FirewallTypes,  \* values of cip->firewallType, 0 to 9
  Users,          \* who logs in: "anonymous", "ftp" or "named"
  AcctTypes,      \* those with cip->acct set and a target that asks for it
  MaxDials,       \* cip->maxDials
  MaxOpens,       \* bound: the number of calls made
  MaxAsks,        \* bound: how often a server repeats a question
  Greetings       \* bound: the greetings a server sends

ASSUME FirewallAssumption == FirewallTypes \subseteq 0..9
ASSUME UsersAssumption == Users \subseteq {"anonymous", "ftp", "named"}
ASSUME AcctAssumption == AcctTypes \subseteq {0, 1}
ASSUME BoundsAssumption == /\ MaxDials \in Nat \ {0}
                           /\ MaxOpens \in Nat /\ MaxAsks \in Nat
ASSUME GreetingsAssumption == Greetings \subseteq {220, 120, 421, 500}

VARIABLES
  pc,        \* where the library's thread is
  cip,       \* the fields of the FTPConnectionInfo
  login,     \* FTPLoginHost's local variables
  call,      \* the call in progress, or the last one, and its result
  cmdQ,      \* commands the server has not read yet
  repQ,      \* reply codes the library has not read yet
  srv,       \* the server, with the firewall before it
  rejected,  \* history: the user's password has been refused in this call
  delayed    \* history: the greeting of this connection was a 120

vars == <<pc, cip, login, call, cmdQ, repQ, srv, rejected, delayed>>
history == <<rejected, delayed>>

\* What is said is abstracted to which of the application's fields it carries.
Fields == {"user", "fwuser", "host", "pass", "stars", "fwpass", "acct"}
Verbs == {"USER", "PASS", "ACCT", "SITE", "OPEN", "PWD", "FEAT", "HELP", "QUIT"}
Command == [verb : Verbs, args : SUBSET Fields]
Cmd(verb, args) == [verb |-> verb, args |-> args]

Codes == {120, 200, 220, 230, 331, 332, 421, 500, 503, 530, 550}
Awaiting == {"greeting", "login", "pwd", "pwd2", "feat", "help", "quit"}

AnonLogin == cip.user \in {"anonymous", "ftp"}
Direct == cip.firewallType = 0

NewLogin == [sentpass |-> FALSE, fwsentpass |-> FALSE, fwloggedin |-> FALSE]
NewSrv == [up |-> TRUE, greeted |-> "no", step |-> 1, asks |-> 0]

Init ==
  /\ pc = "idle"
  /\ \E fw \in FirewallTypes, user \in Users, leave \in BOOLEAN :
       cip = [firewallType |-> fw, user |-> user, leavePass |-> leave,
              pass |-> "pass", buf |-> FALSE, ctrl |-> "closed",
              connected |-> FALSE, loggedIn |-> FALSE, dataTimedOut |-> FALSE,
              curTransferType |-> "none", cwd |-> "null", cwdSize |-> TRUE]
  /\ login = NewLogin
  /\ call = [no |-> 0, name |-> "close", numDials |-> 0, result |-> "ok"]
  /\ cmdQ = <<>> /\ repQ = <<>>
  /\ srv = [NewSrv EXCEPT !.up = FALSE]
  /\ rejected = FALSE /\ delayed = FALSE

-----------------------------------------------------------------------------
(* Replies, and the ways of not getting one.                                *)

\* GetResponse returns the next reply, unless it is a 421.
Reply(p, S) ==
  /\ pc = p /\ cip.ctrl = "open"
  /\ repQ # <<>> /\ Head(repQ) \in S \ {421}
  /\ repQ' = Tail(repQ)

Positive == {200, 220, 230}                        \* codeType 2
Asked == {331, 332}                                \* codeType 3
Refusals == {500, 503, 530, 550}                   \* codeType 5

\* FTPDeallocateHost: the size of the PWD cache goes with the cache.
Deallocated(c) == [c EXCEPT !.buf = FALSE, !.cwd = "null",
                            !.cwdSize = @ /\ c.cwd = "null"]
CloseControl(c) == [c EXCEPT !.ctrl = "closed", !.connected = FALSE, !.loggedIn = FALSE]
Shutdown(c) == Deallocated(CloseControl(c))

\* Mutant of Lost: the library waits for ever.
LostNoTimeout(result) ==
  /\ result = "hostClosed" /\ cip.ctrl = "open"
  /\ IF repQ = <<>> THEN ~srv.up ELSE Head(repQ) = 421

\* GetResponse's ways out that shut the session down, with the error returned.
Lost(result) ==
  /\ cip.ctrl = "open"
  /\ \/ result = "ctrlTimedOut" /\ repQ = <<>> /\ srv.up
     \/ result = "hostClosed" /\ repQ = <<>> /\ ~srv.up
     \/ result = "hostClosed" /\ repQ # <<>> /\ Head(repQ) = 421

\* RCmd cannot write, and does not read: the session stays open.
Unwritten(result) ==
  /\ result = "writeFailed" /\ cip.ctrl = "open"
  /\ ~srv.up /\ cmdQ # <<>>

\* The library's end of the connection is closed, or left as it is.
Hangup == srv' = [srv EXCEPT !.up = FALSE] /\ UNCHANGED <<cmdQ, repQ>>

Send(verb, args) == cmdQ' = Append(cmdQ, Cmd(verb, args))

-----------------------------------------------------------------------------
(* FTPOpenHost and FTPOpenHostNoLogin: the dial loop.                       *)

Return(result, c) ==
  /\ pc' = "idle"
  /\ call' = [call EXCEPT !.result = result]
  /\ cip' = c

\* Mutant of Redial: nothing is disposed of at the end.
RedialKeepsAll(result, c) ==
  IF call.numDials < MaxDials
    THEN pc' = "dial" /\ UNCHANGED call /\ cip' = c
    ELSE Return(result, c)

\* The end of the loop's body: dial again, or give up with the last result.
Redial(result, c) ==
  IF call.numDials < MaxDials
    THEN pc' = "dial" /\ UNCHANGED call /\ cip' = c
    ELSE Return(result, IF call.name = "open" THEN Deallocated(c) ELSE c)

Retryable(result) == result \in {"connRetry", "connRefused", "hostClosed"}

\* OpenControlConnection has failed: errors that may pass are dialled again.
ConnectFailed(result, c) ==
  IF Retryable(result)
    THEN Redial(result, c)
    ELSE Return(result, IF call.name = "open" THEN Deallocated(c) ELSE c)

\* FTPOpenHost resets the status of the last session, FTPOpenHostNoLogin does
\* not.  The application has set user and pass.
ResetStatus(c) == [c EXCEPT !.dataTimedOut = FALSE, !.connected = FALSE,
                            !.loggedIn = FALSE, !.curTransferType = "none"]

OpenHost(name, c) ==
  /\ pc = "idle" /\ cip.ctrl = "closed" /\ call.no < MaxOpens
  /\ cip' = [c EXCEPT !.pass = "pass"]
  /\ call' = [no |-> call.no + 1, name |-> name, numDials |-> 0, result |-> "ok"]
  /\ rejected' = FALSE /\ delayed' = FALSE
  /\ pc' = "dial"
  /\ UNCHANGED <<login, cmdQ, repQ, srv>>

FTPOpenHost == OpenHost("open", ResetStatus(cip))
FTPOpenHostNoLogin == OpenHost("openNoLogin", cip)

\* FTPAllocateHost, then OpenControlConnection up to its connect().
Dial ==
  /\ pc = "dial"
  /\ call' = [call EXCEPT !.numDials = @ + 1]
  /\ cip' = [cip EXCEPT !.buf = TRUE, !.ctrl = "open"]
  /\ srv' = NewSrv
  /\ cmdQ' = <<>> /\ repQ' = <<>>
  /\ delayed' = FALSE
  /\ pc' = "greeting"
  /\ UNCHANGED <<login, rejected>>

\* No address, no socket, or no answer to connect().
DialFails ==
  /\ pc = "dial"
  /\ \E result \in {"connRetry", "connRefused", "connMisc"} :
       LET c == [cip EXCEPT !.buf = TRUE]
           last == call.numDials + 1 = MaxDials
       IN IF Retryable(result) /\ ~last
            THEN /\ cip' = c /\ pc' = "dial"
                 /\ call' = [call EXCEPT !.numDials = @ + 1]
            ELSE /\ cip' = IF call.name = "open" THEN Deallocated(c) ELSE c
                 /\ pc' = "idle"
                 /\ call' = [call EXCEPT !.numDials = @ + 1, !.result = result]
  /\ UNCHANGED <<login, cmdQ, repQ, srv, history>>

\* A greeting of 1xx to 3xx will do.  FTPLoginHost begins with USER.
UserArgs(direct) ==
  IF direct THEN {"user"}
  ELSE CASE cip.firewallType \in {1, 8, 9} -> {"user", "host"}
         [] cip.firewallType \in {5, 7} -> {"user", "fwuser", "host"}
         [] cip.firewallType = 6 -> {"fwuser", "host"}
         [] OTHER -> {"fwuser"}

Greeted ==
  /\ Reply("greeting", {120} \cup Positive)
  /\ delayed' = (Head(repQ) = 120)
  /\ IF call.name = "open"
       THEN /\ cip' = [cip EXCEPT !.connected = TRUE]
            /\ login' = NewLogin
            /\ Send("USER", UserArgs(Direct))
            /\ pc' = "login"
            /\ UNCHANGED call
       ELSE /\ Return("ok", [cip EXCEPT !.connected = TRUE])
            /\ UNCHANGED <<login, cmdQ>>
  /\ UNCHANGED <<srv, rejected>>

\* fatal: the socket is closed and nothing else.
TurnedAway ==
  /\ Reply("greeting", Refusals)
  /\ ConnectFailed("connRetry", [cip EXCEPT !.ctrl = "closed"])
  /\ srv' = [srv EXCEPT !.up = FALSE]
  /\ UNCHANGED <<login, cmdQ, history>>

\* A 421 is a message with a code of 4xx, so it counts as connRetry.
NotGreeted ==
  /\ pc = "greeting"
  /\ \E result \in {"ctrlTimedOut", "hostClosed"} :
       /\ Lost(result)
       /\ ConnectFailed(IF repQ # <<>> THEN "connRetry" ELSE result, Shutdown(cip))
  /\ Hangup
  /\ UNCHANGED <<login, history>>

-----------------------------------------------------------------------------
(* FTPLoginHost's automaton: each reply decides the next command.           *)

Answer(verb, args) == Send(verb, args) /\ pc' = "login" /\ UNCHANGED <<cip, call>>

\* Mutant of PastFirewall: what the firewall has been told is forgotten.
NeverPastFirewall == Direct

\* The host behind the firewall is being talked to.
PastFirewall == Direct \/ login.fwloggedin \/ login.fwsentpass

\* 220: another USER, to the firewall or past it.
Welcome ==
  /\ Reply("login", {220})
  /\ Answer("USER", UserArgs(PastFirewall))
  /\ UNCHANGED <<login, srv, history>>

\* 230 from a firewall that has the target still to be named.
FirewallPassed ==
  /\ Reply("login", {230})
  /\ ~Direct /\ ~login.fwloggedin /\ cip.firewallType \in {2, 3, 4, 6}
  /\ login' = [login EXCEPT !.fwloggedin = TRUE]
  /\ CASE cip.firewallType = 2 -> Answer("USER", {"user", "host"})
       [] cip.firewallType = 3 -> Answer("SITE", {"host"})
       [] cip.firewallType = 4 -> Answer("OPEN", {"host"})
       [] cip.firewallType = 6 -> Answer("USER", {"user"})
  /\ UNCHANGED <<srv, history>>

\* 331: whose password depends on who is asking.
NeedPassword ==
  /\ Reply("login", {331})
  /\ LET mine == PastFirewall \/ cip.firewallType \in {1, 7, 8, 9}
     IN /\ Answer("PASS", IF mine THEN {cip.pass}
                          ELSE IF cip.firewallType = 5 THEN {cip.pass, "fwpass"}
                          ELSE {"fwpass"})
        /\ login' = IF mine THEN [login EXCEPT !.sentpass = TRUE]
                            ELSE [login EXCEPT !.fwsentpass = TRUE]
  /\ UNCHANGED <<srv, history>>

HasAcct == cip.firewallType \in AcctTypes

NeedAccount ==
  /\ Reply("login", {332})
  /\ Answer("ACCT", IF HasAcct THEN {"acct"} ELSE {"fwpass"})
  /\ UNCHANGED <<login, srv, history>>

\* done: the password is kept only for the errors FTPLoginHost takes to be
\* dialled again, then FTPOpenHost closes the host.
Wiped(result, c) ==
  IF AnonLogin \/ c.leavePass \/ Retryable(result)
    THEN c ELSE [c EXCEPT !.pass = "stars"]

\* Mutant of AfterLoginFailed: every failed login is dialled again.
AlwaysRedials(result, c) == Redial(result, c)

\* After FTPCloseHost: a rejected password is not worth another dial.
AfterLoginFailed(result, c) ==
  IF result = "badUserOrPassword" /\ cip.user # "anonymous"
    THEN Return(result, Deallocated(c))
    ELSE Redial(result, c)

LoginRefused ==
  /\ Reply("login", Refusals \cup {200, 120})
  /\ LET result == CASE Head(repQ) # 530 -> "loginMisc"
                     [] Head(repQ) = 530 /\ login.sentpass -> "badUserOrPassword"
                     [] OTHER -> "badUser"
     IN /\ call' = [call EXCEPT !.result = result]
        /\ cip' = Wiped(result, cip)
  /\ Send("QUIT", {})
  /\ pc' = "quit"
  /\ UNCHANGED <<login, srv, history>>

\* The session is gone already: FTPCloseHost has nothing to say.
LoginLost ==
  /\ pc = "login"
  /\ \E result \in {"ctrlTimedOut", "hostClosed"} :
       /\ Lost(result)
       /\ AfterLoginFailed(result, Wiped(result, Shutdown(cip)))
  /\ Hangup
  /\ UNCHANGED <<login, history>>

LoginUnwritten ==
  /\ pc = "login"
  /\ Unwritten("writeFailed")
  /\ AfterLoginFailed("writeFailed", Wiped("writeFailed", Shutdown(cip)))
  /\ Hangup
  /\ UNCHANGED <<login, history>>

-----------------------------------------------------------------------------
(* Logged in: the first PWD, then FTPQueryFeatures.                         *)

\* Mutant of LoggedIn: any 230, and a 332, is taken for the target's.
LoggedInEarly ==
  /\ Reply("login", {230, 332})
  /\ LET has == cip.cwd # "null" \/ cip.cwdSize
     IN /\ cip' = [cip EXCEPT !.loggedIn = TRUE,
                              !.cwd = IF has /\ @ = "null" THEN "empty" ELSE @]
        /\ pc' = IF has THEN "pwd" ELSE "pwd2"
  /\ Send("PWD", {})
  /\ UNCHANGED <<login, call, srv, history>>

\* okay: the PWD cache is set up unless its size is zero, and filled.
LoggedIn ==
  /\ Reply("login", {230})
  /\ Direct \/ login.fwloggedin \/ cip.firewallType \notin {2, 3, 4, 6}
  /\ LET has == cip.cwd # "null" \/ cip.cwdSize
     IN /\ cip' = [cip EXCEPT !.loggedIn = TRUE,
                              !.cwd = IF has /\ @ = "null" THEN "empty" ELSE @]
        /\ pc' = IF has THEN "pwd" ELSE "pwd2"
  /\ Send("PWD", {})
  /\ UNCHANGED <<login, call, srv, history>>

\* The rest of FTPLoginHost, and FTPQueryFeatures' first command.
Ready(c) == [c EXCEPT !.curTransferType = "A",
                      !.pass = IF AnonLogin \/ c.leavePass THEN @ ELSE "stars"]
QueryFeatures(c) == cip' = Ready(c) /\ Send("FEAT", {}) /\ pc' = "feat"

\* FTPGetCWD into the cache.  A name that is too long for it is an error.
PwdReply ==
  /\ \/ /\ Reply("pwd", Positive)
        /\ \/ QueryFeatures([cip EXCEPT !.cwd = "set"])
           \/ Send("PWD", {}) /\ pc' = "pwd2" /\ UNCHANGED cip
     \/ /\ Reply("pwd", Asked \cup Refusals)
        /\ Send("PWD", {}) /\ pc' = "pwd2" /\ UNCHANGED cip
  /\ UNCHANGED <<login, call, srv, history>>

\* FTPGetCWD into a local array looks at the cache all the same when PWD has
\* succeeded; with no cache it reads through a null pointer.
Pwd2Reply ==
  /\ \/ /\ Reply("pwd2", Positive)
        /\ IF cip.cwd = "null"
             THEN pc' = "crashed" /\ UNCHANGED <<cip, cmdQ>>
             ELSE \E cwd \in {"empty", "set"} : QueryFeatures([cip EXCEPT !.cwd = cwd])
     \/ /\ Reply("pwd2", Asked \cup Refusals)
        /\ QueryFeatures(cip)
  /\ UNCHANGED <<login, call, srv, history>>

FeatReply ==
  /\ Reply("feat", Codes)
  /\ Send("HELP", {}) /\ pc' = "help"
  /\ UNCHANGED <<cip, login, call, srv, history>>

\* FTPQueryFeatures' outcome is not looked at.
HelpReply ==
  /\ Reply("help", Codes)
  /\ Return("ok", cip)
  /\ UNCHANGED <<login, cmdQ, srv, history>>

\* Nor is the loss of the session, at any of these steps: each further command
\* fails and FTPOpenHost returns kNoErr.
SetupLost ==
  /\ pc \in {"pwd", "pwd2", "feat", "help"}
  /\ \E result \in {"ctrlTimedOut", "hostClosed", "writeFailed"} :
       LET c == IF result = "writeFailed" THEN cip ELSE Shutdown(cip)
       IN /\ Lost(result) \/ Unwritten(result)
          /\ Return("ok", IF pc \in {"pwd", "pwd2"} THEN Ready(c) ELSE c)
  /\ Hangup
  /\ UNCHANGED <<login, history>>

-----------------------------------------------------------------------------
(* Using and closing the session.                                           *)

\* What transfers leave behind in the fields this module is about.
Transfer ==
  /\ pc = "idle" /\ cip.connected
  /\ \E type \in {"A", "I"}, timedOut \in BOOLEAN :
       cip' = [cip EXCEPT !.curTransferType = type, !.dataTimedOut = timedOut]
  /\ UNCHANGED <<pc, login, call, cmdQ, repQ, srv, history>>

\* FTPCloseHost says QUIT when connected, and disposes of everything.
FTPCloseHost ==
  /\ pc = "idle"
  /\ cip.connected /\ call.no < MaxOpens
  /\ call' = [call EXCEPT !.no = @ + 1, !.name = "close", !.result = "ok"]
  /\ Send("QUIT", {})
  /\ pc' = "quit"
  /\ UNCHANGED <<cip, login, repQ, srv, history>>

Closed(c) ==
  IF call.name = "open" THEN AfterLoginFailed(call.result, Shutdown(c))
                        ELSE Return("ok", Shutdown(c))

QuitReply ==
  /\ Reply("quit", Codes)
  /\ Closed(cip)
  /\ srv' = [srv EXCEPT !.up = FALSE]
  /\ UNCHANGED <<login, cmdQ, history>>

QuitUnanswered ==
  /\ pc = "quit"
  /\ \E result \in {"ctrlTimedOut", "hostClosed", "writeFailed"} :
       Lost(result) \/ Unwritten(result)
  /\ Closed(cip)
  /\ Hangup
  /\ UNCHANGED <<login, history>>

-----------------------------------------------------------------------------
(* The server and the firewall before it (external).                        *)

Step(verb, args, code) == [verb |-> verb, args |-> args, code |-> code]
FwLogin == <<Step("USER", {"fwuser"}, 331), Step("PASS", {"fwpass"}, 230)>>
UserLogin == <<Step("USER", {"user"}, 331), Step("PASS", {"pass"}, 230)>>
UserAtSite == <<Step("USER", {"user", "host"}, 331), Step("PASS", {"pass"}, 230)>>

\* The dialogues of libncftp.html, "Firewall fields", up to the last password.
Dialogue ==
  CASE cip.firewallType = 0 -> UserLogin
    [] cip.firewallType \in {1, 8, 9} -> UserAtSite
    [] cip.firewallType = 2 -> FwLogin \o UserAtSite
    [] cip.firewallType = 3 -> FwLogin \o <<Step("SITE", {"host"}, 220)>> \o UserLogin
    [] cip.firewallType = 4 -> FwLogin \o <<Step("OPEN", {"host"}, 220)>> \o UserLogin
    [] cip.firewallType = 5 ->
         <<Step("USER", {"user", "fwuser", "host"}, 331),
           Step("PASS", {"pass", "fwpass"}, 230)>>
    [] cip.firewallType = 6 ->
         <<Step("USER", {"fwuser", "host"}, 331), Step("PASS", {"fwpass"}, 230)>>
           \o UserLogin
    [] cip.firewallType = 7 ->
         <<Step("USER", {"user", "fwuser", "host"}, 331), Step("PASS", {"pass"}, 332),
           Step("ACCT", {"fwpass"}, 230)>>

\* A target that wants an account asks for it before the login is complete.
Script ==
  IF HasAcct
    THEN <<Dialogue[1], [Dialogue[2] EXCEPT !.code = 332], Step("ACCT", {"acct"}, 230)>>
    ELSE Dialogue

Expected == Cmd(Script[srv.step].verb, Script[srv.step].args)

Says(code, s) ==
  /\ repQ' = Append(repQ, code)
  /\ srv' = s
  /\ cmdQ' = Tail(cmdQ)

SrvGreets ==
  /\ srv.up /\ srv.greeted # "yes" /\ cip.ctrl = "open"
  /\ \E code \in Greetings :
       /\ code = 120 => srv.greeted = "no"
       /\ repQ' = Append(repQ, code)
       /\ srv' = [srv EXCEPT !.greeted = IF code = 120 THEN "soon" ELSE "yes",
                             !.up = code # 421]
  /\ UNCHANGED <<pc, cip, login, call, cmdQ, history>>

\* The command is the next step of the dialogue: it is taken, perhaps without
\* asking for the password that follows, or the question it answers is asked again.
SrvAgrees ==
  /\ srv.step <= Len(Script) /\ Head(cmdQ) = Expected
  /\ \/ Says(Script[srv.step].code, [srv EXCEPT !.step = @ + 1])
     \/ /\ Script[srv.step].code = 331
        /\ Says(Script[srv.step + 1].code, [srv EXCEPT !.step = @ + 2])
     \/ /\ srv.asks < MaxAsks /\ srv.step > 1
        /\ Script[srv.step - 1].code \in Asked \cup {220}
        /\ Says(Script[srv.step - 1].code, [srv EXCEPT !.asks = @ + 1])
  /\ UNCHANGED rejected

\* Anything may be refused, and what is out of place is.
SrvRefuses ==
  /\ \E code \in Refusals : Says(code, srv)
  /\ rejected' = (rejected \/ (/\ ~delayed /\ Head(cmdQ).verb = "PASS"
                               /\ Head(cmdQ).args \cap {"pass", "stars"} # {}
                               /\ repQ'[Len(repQ')] = 530))

SrvObeys ==
  /\ Head(cmdQ).verb \in {"PWD", "FEAT", "HELP", "QUIT"}
  /\ Says(200, srv)
  /\ UNCHANGED rejected

SrvCommand ==
  /\ srv.up /\ srv.greeted = "yes" /\ cmdQ # <<>>
  /\ SrvAgrees \/ SrvRefuses \/ SrvObeys
  /\ UNCHANGED <<pc, cip, login, call, delayed>>

SrvHangsUp ==
  /\ srv.up /\ cip.ctrl = "open"
  /\ srv' = [srv EXCEPT !.up = FALSE]
  /\ repQ' \in {repQ, Append(repQ, 421)}
  /\ UNCHANGED <<pc, cip, login, call, cmdQ, history>>

-----------------------------------------------------------------------------
(* The specification.                                                       *)

Library ==
  \/ Dial \/ DialFails \/ Greeted \/ TurnedAway \/ NotGreeted
  \/ Welcome \/ FirewallPassed \/ NeedPassword \/ NeedAccount
  \/ LoginRefused \/ LoginLost \/ LoginUnwritten
  \/ LoggedIn \/ PwdReply \/ Pwd2Reply \/ FeatReply \/ HelpReply \/ SetupLost
  \/ QuitReply \/ QuitUnanswered

Application == FTPOpenHost \/ FTPOpenHostNoLogin \/ Transfer \/ FTPCloseHost

Server == SrvGreets \/ SrvCommand \/ SrvHangsUp

Next == Library \/ Application \/ Server

Spec == Init /\ [][Next]_vars

\* The library's thread runs and ctrlTimeout and connTimeout bound its waits.
FairSpec == Spec /\ WF_vars(Library)

-----------------------------------------------------------------------------
(* Properties.                                                              *)

CipType ==
  [firewallType : 0..9, user : {"anonymous", "ftp", "named"}, leavePass : BOOLEAN,
   pass : {"pass", "stars"}, buf : BOOLEAN, ctrl : {"open", "closed"},
   connected : BOOLEAN, loggedIn : BOOLEAN, dataTimedOut : BOOLEAN,
   curTransferType : {"none", "A", "I"}, cwd : {"null", "empty", "set"},
   cwdSize : BOOLEAN]

Results == {"ok", "connRetry", "connRefused", "connMisc", "ctrlTimedOut", "hostClosed",
            "writeFailed", "loginMisc", "badUser", "badUserOrPassword"}

\* The state is well formed.
TypeOK ==
  /\ pc \in {"idle", "dial", "crashed"} \cup Awaiting
  /\ cip \in CipType
  /\ login \in [sentpass : BOOLEAN, fwsentpass : BOOLEAN, fwloggedin : BOOLEAN]
  /\ call \in [no : Nat, name : {"open", "openNoLogin", "close"}, numDials : 0..MaxDials,
               result : Results]
  /\ cmdQ \in Seq(Command)
  /\ repQ \in Seq(Codes)
  /\ srv \in [up : BOOLEAN, greeted : {"no", "soon", "yes"}, step : Nat, asks : Nat]
  /\ rejected \in BOOLEAN /\ delayed \in BOOLEAN

LoginVerbs == {"USER", "PASS", "ACCT", "SITE", "OPEN"}

\* Every command of a login is the next step of the dialogue the firewall's
\* type calls for: each name and each password goes to the one it is meant for,
\* in turn, whichever steps the firewall and the target leave out or repeat.
\* (Not when the greeting was a 120, after which USER is sent too early, when
\* the password has been wiped, or when a firewall that has had its own password
\* asks for it again: a password sent counts as the firewall passed, and what it
\* gets is the user's, open.c:256.)
Misled == srv.asks > 0 /\ srv.step = 2 /\ cip.firewallType \in 2..6
DialogueFollowed ==
  (/\ srv.up /\ cmdQ # <<>> /\ ~delayed /\ ~Misled
   /\ Head(cmdQ).verb \in LoginVerbs /\ "stars" \notin Head(cmdQ).args)
    => srv.step <= Len(Script) /\ Head(cmdQ) = Expected

\* loggedIn is set only when the target host has accepted the login, not when
\* the firewall before it has.
LoginComplete ==
  cip.loggedIn /\ srv.up /\ ~delayed => srv.step = Len(Script) + 1

\* While connected there is a buffer to transfer with: the buffer freed by
\* every FTPShutdownHost on the way is allocated again by the next dial.
BufferWhileConnected == cip.connected => cip.buf /\ cip.ctrl = "open"

\* A FTPOpenHost that fails leaves nothing open and nothing allocated,
\* whichever of its steps failed on whichever dial.
FailedIsClean ==
  (pc = "idle" /\ call.name = "open" /\ call.result # "ok") =>
    ~cip.buf /\ cip.ctrl = "closed" /\ ~cip.connected /\ cip.cwd = "null"

\* What is held agrees with what the session is, at every step of every dial.
Inv == TypeOK /\ BufferWhileConnected /\ FailedIsClean

\* open.c: "Non-anonymous login was denied, and retrying is not going to help."
\* No password is offered again in a call in which the user's was refused.
\* (Except by type 5, where the PASS that carries both passwords counts as the
\* firewall's alone, and a refusal of it as one of the user name.)
RejectedNotRetried ==
  rejected /\ cip.user # "anonymous" /\ cip.firewallType # 5 =>
    \A i \in 1..Len(cmdQ) : cmdQ[i].verb # "PASS" \/ ~srv.up

\* FTPOpenHost and FTPCloseHost return, however slow, repetitive or absent the
\* server is.  (But for a FTPOpenHost of a structure that has been closed: it
\* returns, or crashes in FTPGetCWD, as the PWD cache's size went with the cache,
\* c_getcwd.c:82 and open.c:69.)
CallsReturn ==
  pc # "idle" ~>
    \/ pc = "idle"
    \/ pc = "crashed" /\ call.name = "open" /\ call.no > 1 /\ ~cip.cwdSize
=============================================================================
