--------------------------- MODULE OpenHost_proofs ---------------------------
(***************************************************************************)
(* Proofs that OpenHost's login follows the dialogue of each type of       *)
(* firewall and that opening and closing leave nothing behind, for every   *)
(* value of the constants.                                                 *)
(***************************************************************************)
EXTENDS OpenHost, SequenceTheorems, TLAPS

-----------------------------------------------------------------------------
(* The inductive invariant.                                                 *)

\* The firewalls that are logged in to before the target is named.
TwoLogins == cip.firewallType \in {2, 3, 4, 6}
Setup == {"pwd", "pwd2", "feat", "help"}

\* What is open, and who has called, at each point of the library's thread.
StageOK ==
  /\ cip.loggedIn => cip.connected
  /\ cip.ctrl = "closed" => ~srv.up
  /\ pc = "dial" => cip.ctrl = "closed" /\ call.numDials < MaxDials
  /\ pc = "greeting" => cip.buf /\ cip.ctrl = "open" /\ ~cip.connected /\ ~delayed
  /\ pc \in {"dial", "greeting", "login"} => ~cip.loggedIn
  /\ pc \in {"login"} \cup Setup => call.name = "open" /\ cip.connected
  /\ pc \in {"dial", "greeting"} => call.name # "close"

Inv1 == Inv /\ StageOK

\* The firewalls that have a password of their own asked for first.
FwAsks == cip.firewallType \in 2..6

\* What the login has noted when the server has taken the first k - 1 steps.
Noted(k) == /\ login.fwloggedin <=> TwoLogins /\ k >= 3
            /\ k = 1 \/ ~FwAsks => ~login.fwsentpass

\* A PASS with the user's password, or with what is left of it.
MinePassed(c) == c.verb = "PASS" /\ c.args \cap {"pass", "stars"} # {}

\* The step that the server waits for has been sent, or would have been had the
\* password not been wiped, or the firewall's not been asked for twice.
Offered ==
  /\ repQ = <<>> /\ Len(cmdQ) = 1
  /\ srv.step \in 1..Len(Script)
  /\ cmdQ[1].verb \in LoginVerbs
  /\ \/ Noted(srv.step) /\ (cmdQ[1] = Expected \/ "stars" \in cmdQ[1].args)
     \/ Misled /\ cmdQ[1] # Expected
  /\ MinePassed(cmdQ[1]) /\ cip.firewallType # 5 => login.sentpass

\* The firewall asks again for the password it has been given.
AskedTwice ==
  /\ Misled /\ srv.step \in 1..Len(Script) /\ repQ[1] = 331
  /\ login.fwsentpass /\ ~login.fwloggedin

\* The server has refused, or taken the step before the one it waits for.
Replied ==
  /\ cmdQ = <<>> /\ Len(repQ) = 1
  /\ \/ repQ[1] \in Refusals
     \/ /\ srv.step \in 2..(Len(Script) + 1) /\ repQ[1] = Script[srv.step - 1].code
        /\ Noted(srv.step - 1)
     \/ AskedTwice

\* No step of a login is under way, but perhaps another command.
Besides ==
  \/ Len(cmdQ) = 1 /\ cmdQ[1].verb \notin LoginVerbs /\ repQ = <<>>
  \/ cmdQ = <<>> /\ Len(repQ) = 1

\* What is under way with a server that is there and was not late to greet.
TalkOK ==
  /\ pc = "greeting" =>
       /\ cmdQ = <<>> /\ srv.step = 1
       /\ srv.greeted = "no" => repQ = <<>>
       /\ srv.greeted = "soon" => repQ = <<120>>
       /\ srv.greeted = "yes" => repQ # <<>> /\ (Len(repQ) = 1 \/ repQ[1] = 120)
  /\ pc # "greeting" => srv.greeted = "yes"
  /\ pc = "login" => Offered \/ Replied
  /\ pc \in Setup \cup {"quit"} => Besides
  /\ pc \in {"idle", "crashed"} => cmdQ = <<>> /\ repQ = <<>>
  /\ cip.loggedIn => srv.step = Len(Script) + 1

\* Where a call can be once the user's password has been refused in it.
NoPass == \A i \in 1..Len(cmdQ) : cmdQ[i].verb # "PASS"
RejectedOK ==
  \/ pc = "login" /\ cmdQ = <<>> /\ repQ # <<>> /\ repQ[1] = 530 /\ login.sentpass
  \/ pc = "quit" /\ NoPass /\ call.name = "open" /\ call.result = "badUserOrPassword"
  \/ pc = "idle" /\ NoPass /\ cip.ctrl = "closed"

\* The inductive invariant: OpenHost's own, and what is under way.
IInv ==
  /\ Inv1 /\ srv.step >= 1
  /\ srv.up /\ ~delayed => TalkOK
  /\ rejected /\ cip.user # "anonymous" /\ cip.firewallType # 5 => RejectedOK
-----------------------------------------------------------------------------
(* What is held, at every step of every dial.                               *)

\* Reading a reply takes the first one, and there is one on an open connection.
LEMMA ReplyReads ==
  ASSUME TypeOK, NEW p, NEW S, Reply(p, S)
  PROVE  /\ pc = p /\ cip.ctrl = "open" /\ repQ # <<>> /\ repQ[1] \in S \ {421}
         /\ Head(repQ) = repQ[1] /\ repQ' = Tail(repQ) /\ repQ' \in Seq(Codes)
BY DEF Reply, TypeOK

\* What is sent comes last, and is a command.
LEMMA SendType ==
  ASSUME TypeOK, NEW verb \in Verbs, NEW args \in SUBSET Fields, Send(verb, args)
  PROVE  cmdQ' \in Seq(Command)
BY DEF Send, Cmd, Command, TypeOK

\* What the disposal of a session makes of its fields.
LEMMA ShutdownFields ==
  ASSUME NEW c \in CipType
  PROVE  /\ Deallocated(c) \in CipType /\ CloseControl(c) \in CipType /\ Shutdown(c) \in CipType
         /\ ~Deallocated(c).buf /\ Deallocated(c).cwd = "null"
         /\ Deallocated(c).ctrl = c.ctrl /\ Deallocated(c).connected = c.connected
         /\ Deallocated(c).loggedIn = c.loggedIn /\ Deallocated(c).firewallType = c.firewallType
         /\ Deallocated(c).user = c.user
         /\ ~Shutdown(c).buf /\ Shutdown(c).cwd = "null" /\ Shutdown(c).ctrl = "closed"
         /\ ~Shutdown(c).connected /\ ~Shutdown(c).loggedIn
         /\ Shutdown(c).firewallType = c.firewallType /\ Shutdown(c).user = c.user
BY DEF Deallocated, CloseControl, Shutdown, CipType

\* Wiping the password leaves the rest.
LEMMA WipedFields ==
  ASSUME NEW c \in CipType, NEW result
  PROVE  /\ Wiped(result, c) \in CipType
         /\ Wiped(result, c) \in {c, [c EXCEPT !.pass = "stars"]}
         /\ Wiped(result, c).buf = c.buf /\ Wiped(result, c).ctrl = c.ctrl
         /\ Wiped(result, c).connected = c.connected /\ Wiped(result, c).loggedIn = c.loggedIn
         /\ Wiped(result, c).cwd = c.cwd
         /\ Wiped(result, c).firewallType = c.firewallType /\ Wiped(result, c).user = c.user
BY DEF Wiped, CipType

\* The types of the other fields.
LoginType == [sentpass : BOOLEAN, fwsentpass : BOOLEAN, fwloggedin : BOOLEAN]
CallType == [no : Nat, name : {"open", "openNoLogin", "close"}, numDials : 0..MaxDials,
             result : Results]
SrvType == [up : BOOLEAN, greeted : {"no", "soon", "yes"}, step : Nat, asks : Nat]

\* The ways on from a failed dial: another dial, or the return with an error.
Over(result, c) ==
  \/ pc' = "dial" /\ UNCHANGED call /\ cip' = c /\ call.numDials < MaxDials
  \/ /\ pc' = "idle" /\ call' = [call EXCEPT !.result = result]
     /\ cip' \in {c, Deallocated(c)} /\ (call.name = "open" => cip' = Deallocated(c))

\* The loop's ways on are those.
LEMMA Overs ==
  ASSUME NEW result, NEW c,
         \/ Redial(result, c) \/ ConnectFailed(result, c)
         \/ AfterLoginFailed(result, c) /\ call.name = "open"
  PROVE  Over(result, c)
BY DEF Over, Redial, ConnectFailed, AfterLoginFailed, Return

\* A session that is over leaves nothing open.
LEMMA OverInv1 ==
  ASSUME Inv1, NEW c \in CipType, NEW result \in Results, Over(result, c),
         c.ctrl = "closed", ~c.connected, ~c.loggedIn, call.name # "close",
         ~srv'.up, srv' \in SrvType, cmdQ' \in Seq(Command), repQ' \in Seq(Codes),
         UNCHANGED <<login, history>>
  PROVE  Inv1'
<1>1. /\ call \in CallType
      /\ login' = login /\ rejected' = rejected /\ delayed' = delayed
  BY DEF Inv1, Inv, TypeOK, history, CallType
<1>2. CASE pc' = "dial" /\ UNCHANGED call /\ cip' = c /\ call.numDials < MaxDials
  BY <1>1, <1>2
     DEF CallType, Inv1, Inv, TypeOK, StageOK, BufferWhileConnected, FailedIsClean, SrvType, Setup
<1>3. CASE /\ pc' = "idle" /\ call' = [call EXCEPT !.result = result]
           /\ cip' \in {c, Deallocated(c)} /\ (call.name = "open" => cip' = Deallocated(c))
  <2>1. /\ cip' \in CipType /\ cip'.ctrl = "closed" /\ ~cip'.connected /\ ~cip'.loggedIn
        /\ call.name = "open" => ~cip'.buf /\ cip'.cwd = "null"
    BY <1>3, ShutdownFields
  <2>2. call' \in CallType /\ call'.name = call.name
    BY <1>1, <1>3 DEF CallType
  <2> QED
    BY <1>1, <1>3, <2>1, <2>2
       DEF CallType, Inv1, Inv, TypeOK, StageOK, BufferWhileConnected, FailedIsClean, SrvType, Setup
<1> QED
  BY <1>2, <1>3 DEF Over

\* A call made on a closed session, and its dials.
LEMMA OpenHostInv1 ==
  ASSUME Inv1, FTPOpenHost \/ FTPOpenHostNoLogin
  PROVE  Inv1'
<1>1. PICK name \in {"open", "openNoLogin"}, c \in {ResetStatus(cip), cip} : OpenHost(name, c)
  BY DEF FTPOpenHost, FTPOpenHostNoLogin
<1>2. /\ cip \in CipType /\ cip.ctrl = "closed" /\ ~cip.connected /\ ~cip.loggedIn /\ ~srv.up
      /\ call.no \in Nat
  BY <1>1 DEF OpenHost, Inv1, Inv, TypeOK, StageOK, BufferWhileConnected
<1>3. c \in CipType /\ c.ctrl = "closed" /\ ~c.connected /\ ~c.loggedIn
  BY <1>2 DEF ResetStatus, CipType
<1>4. cip' \in CipType /\ cip'.ctrl = "closed" /\ ~cip'.connected /\ ~cip'.loggedIn
  BY <1>1, <1>3 DEF OpenHost, CipType
<1>5. /\ pc' = "dial" /\ call'.numDials = 0 /\ call'.name = name /\ call'.result = "ok"
      /\ call' \in CallType
      /\ rejected' = FALSE /\ delayed' = FALSE
      /\ login' = login /\ cmdQ' = cmdQ /\ repQ' = repQ /\ srv' = srv
  BY <1>1, <1>2, BoundsAssumption DEF CallType, OpenHost, Results
<1>6. TypeOK'
  BY <1>4, <1>5 DEF Inv1, Inv, TypeOK, CallType
<1> QED
  BY <1>2, <1>4, <1>5, <1>6, BoundsAssumption
     DEF Inv1, Inv, TypeOK, StageOK, BufferWhileConnected, FailedIsClean, Setup

\* A dial that connects, and one that does not.
LEMMA DialInv1 ==
  ASSUME Inv1, Dial
  PROVE  Inv1'
<1>1. /\ pc = "dial" /\ cip \in CipType /\ ~cip.connected /\ ~cip.loggedIn /\ call.name # "close"
      /\ call \in CallType
      /\ call.numDials < MaxDials
  BY DEF CallType, Dial, Inv1, Inv, TypeOK, StageOK, BufferWhileConnected
<1>2. /\ cip' \in CipType /\ ~cip'.connected /\ ~cip'.loggedIn /\ cip'.ctrl = "open" /\ cip'.buf
  BY <1>1 DEF Dial, CipType
<1>3. /\ call' \in CallType
      /\ call'.name = call.name
  BY <1>1, BoundsAssumption DEF Dial, CallType
<1>4. /\ srv' \in SrvType /\ cmdQ' = <<>> /\ repQ' = <<>> /\ delayed' = FALSE /\ pc' = "greeting"
      /\ UNCHANGED <<login, rejected>>
  BY DEF Dial, NewSrv, SrvType
<1>5. <<>> \in Seq(Command) /\ <<>> \in Seq(Codes) /\ login' = login /\ rejected' = rejected
  BY <1>4
<1>6. TypeOK'
  BY <1>1, <1>2, <1>3, <1>4, <1>5 DEF Inv1, Inv, TypeOK, CallType, SrvType, Awaiting
<1> QED
  BY <1>1, <1>2, <1>3, <1>4, <1>6
     DEF CallType, Inv1, Inv, TypeOK, StageOK, BufferWhileConnected, FailedIsClean, Setup,
         SrvType, Awaiting

LEMMA DialFailsInv1 ==
  ASSUME Inv1, DialFails
  PROVE  Inv1'
<1> DEFINE c == [cip EXCEPT !.buf = TRUE]
<1>1. /\ pc = "dial" /\ cip \in CipType /\ ~cip.connected /\ ~cip.loggedIn /\ call.name # "close"
      /\ call \in CallType /\ call.numDials < MaxDials /\ cip.ctrl = "closed" /\ ~srv.up
      /\ UNCHANGED <<login, cmdQ, repQ, srv, rejected, delayed>>
  BY DEF CallType, DialFails, Inv1, Inv, TypeOK, StageOK, BufferWhileConnected, history
<1>2. c \in CipType /\ ~c.connected /\ ~c.loggedIn /\ c.ctrl = "closed"
  BY <1>1 DEF CipType
<1>3. PICK result \in {"connRetry", "connRefused", "connMisc"} :
        \/ /\ cip' = c /\ pc' = "dial" /\ call.numDials + 1 # MaxDials
           /\ call' = [call EXCEPT !.numDials = @ + 1]
        \/ /\ cip' = IF call.name = "open" THEN Deallocated(c) ELSE c
           /\ pc' = "idle"
           /\ call' = [call EXCEPT !.numDials = @ + 1, !.result = result]
  BY DEF DialFails
<1> HIDE DEF c
<1>4. call' \in CallType /\ call'.name = call.name /\ call'.numDials = call.numDials + 1
  <2>1. /\ result \in Results /\ call.numDials + 1 \in 0..MaxDials
        /\ \/ call' = [call EXCEPT !.numDials = call.numDials + 1]
           \/ call' = [call EXCEPT !.numDials = call.numDials + 1, !.result = result]
    BY <1>1, <1>3, BoundsAssumption DEF Results, CallType
  <2> QED
    BY <1>1, <2>1 DEF CallType
<1>5. CASE /\ cip' = c /\ pc' = "dial" /\ call.numDials + 1 # MaxDials
           /\ call' = [call EXCEPT !.numDials = @ + 1]
  <2>1. call'.numDials < MaxDials
    BY <1>1, <1>4, <1>5, BoundsAssumption DEF CallType
  <2> QED
    BY <1>1, <1>2, <1>4, <1>5, <2>1
       DEF CallType, Inv1, Inv, TypeOK, StageOK, BufferWhileConnected, FailedIsClean, Setup
<1>6. CASE /\ cip' = IF call.name = "open" THEN Deallocated(c) ELSE c
           /\ pc' = "idle"
  <2>1. /\ cip' \in CipType /\ cip'.ctrl = "closed" /\ ~cip'.connected /\ ~cip'.loggedIn
        /\ call.name = "open" => ~cip'.buf /\ cip'.cwd = "null"
    BY <1>2, <1>6, ShutdownFields
  <2> QED
    BY <1>1, <1>4, <1>6, <2>1
       DEF CallType, Inv1, Inv, TypeOK, StageOK, BufferWhileConnected, FailedIsClean, Setup
<1> QED
  BY <1>3, <1>5, <1>6

\* A step of the login, or of what follows it, on a connection that stays open.
LEMMA TalkInv1 ==
  ASSUME Inv1, pc \in {"login"} \cup Setup, cip.ctrl = "open",
         pc' \in {"login", "crashed", "quit"} \cup Setup, pc' = "login" => pc = "login",
         cip' \in CipType, cip'.buf = cip.buf, cip'.ctrl = cip.ctrl,
         cip'.connected = cip.connected, cip'.loggedIn = cip.loggedIn \/ pc' \in Setup,
         call' \in CallType, call'.name = call.name, login' \in LoginType,
         cmdQ' \in Seq(Command), repQ' \in Seq(Codes),
         srv' = srv, rejected' = rejected, delayed' = delayed
  PROVE  Inv1'
<1>1. TypeOK'
  BY DEF Inv1, Inv, TypeOK, CallType, LoginType, Setup, Awaiting
<1>2. StageOK'
  BY DEF Inv1, StageOK, Setup
<1>3. BufferWhileConnected' /\ FailedIsClean'
  BY DEF Inv1, Inv, BufferWhileConnected, FailedIsClean, Setup
<1> QED
  BY <1>1, <1>2, <1>3 DEF Inv1, Inv

\* The greeting will do: USER is sent, or the call returns.
LEMMA GreetedInv1 ==
  ASSUME Inv1, Greeted
  PROVE  Inv1'
<1>1. /\ pc = "greeting" /\ cip.ctrl = "open" /\ repQ # <<>> /\ repQ' \in Seq(Codes)
      /\ cip \in CipType /\ call \in CallType /\ cip.buf /\ ~cip.connected /\ ~cip.loggedIn
      /\ call.name # "close" /\ TypeOK
  BY ReplyReads DEF Greeted, Inv1, Inv, StageOK, TypeOK, CallType, Reply
<1>2. /\ srv' = srv /\ rejected' = rejected /\ delayed' \in BOOLEAN
      /\ cip' = [cip EXCEPT !.connected = TRUE]
  BY DEF Greeted, Return
<1>3. cip' \in CipType /\ cip'.connected /\ cip'.buf /\ cip'.ctrl = "open" /\ ~cip'.loggedIn
  BY <1>1, <1>2 DEF CipType
<1>4. CASE call.name = "open"
  <2>1. /\ login' = NewLogin /\ Send("USER", UserArgs(Direct)) /\ pc' = "login" /\ call' = call
    BY <1>4 DEF Greeted
  <2>2. UserArgs(Direct) \in SUBSET Fields /\ "USER" \in Verbs /\ NewLogin \in LoginType
    BY DEF UserArgs, Fields, Verbs, NewLogin, LoginType
  <2>3. cmdQ' \in Seq(Command)
    BY <1>1, <2>1, <2>2, SendType
  <2>4. TypeOK'
    BY <1>1, <1>2, <1>3, <2>1, <2>2, <2>3 DEF Inv1, Inv, TypeOK, LoginType, Awaiting
  <2> QED
    BY <1>1, <1>2, <1>3, <1>4, <2>1, <2>4
       DEF Inv1, Inv, StageOK, BufferWhileConnected, FailedIsClean, Setup
<1>5. CASE call.name # "open"
  <2>1. /\ call' = [call EXCEPT !.result = "ok"] /\ pc' = "idle" /\ login' = login /\ cmdQ' = cmdQ
    BY <1>5 DEF Greeted, Return
  <2>2. call' \in CallType /\ call'.name = call.name
    BY <1>1, <2>1 DEF CallType, Results
  <2>3. TypeOK'
    BY <1>1, <1>2, <1>3, <2>1, <2>2 DEF Inv1, Inv, TypeOK, CallType
  <2> QED
    BY <1>1, <1>2, <1>3, <1>5, <2>1, <2>2, <2>3
       DEF Inv1, Inv, StageOK, BufferWhileConnected, FailedIsClean, Setup
<1> QED
  BY <1>4, <1>5

\* The session is over once the greeting is a refusal, or does not come.
LEMMA NoGreetingInv1 ==
  ASSUME Inv1, TurnedAway \/ NotGreeted
  PROVE  Inv1'
<1>1. /\ pc = "greeting" /\ TypeOK /\ cip \in CipType /\ srv \in SrvType
      /\ ~cip.connected /\ ~cip.loggedIn /\ call.name # "close"
      /\ repQ \in Seq(Codes) /\ cmdQ \in Seq(Command)
  BY DEF TurnedAway, NotGreeted, Reply, Inv1, Inv, StageOK, TypeOK, SrvType
<1>2. CASE TurnedAway
  <2> DEFINE c == [cip EXCEPT !.ctrl = "closed"]
  <2>1. /\ c \in CipType /\ c.ctrl = "closed" /\ ~c.connected /\ ~c.loggedIn
    BY <1>1 DEF CipType
  <2>2. /\ ConnectFailed("connRetry", c) /\ repQ' \in Seq(Codes) /\ cmdQ' = cmdQ
        /\ srv' = [srv EXCEPT !.up = FALSE] /\ UNCHANGED <<login, history>>
    BY <1>1, <1>2, ReplyReads DEF TurnedAway, history
  <2>3. srv' \in SrvType /\ ~srv'.up /\ "connRetry" \in Results
    BY <1>1, <2>2 DEF SrvType, Results
  <2>4. Over("connRetry", c)
    BY <2>2, Overs
  <2> HIDE DEF c
  <2> QED
    BY <1>1, <2>1, <2>2, <2>3, <2>4, OverInv1
<1>3. CASE NotGreeted
  <2>1. PICK result \in {"ctrlTimedOut", "hostClosed"} :
          ConnectFailed(IF repQ # <<>> THEN "connRetry" ELSE result, Shutdown(cip))
    BY <1>3 DEF NotGreeted
  <2>2. PICK error \in Results : ConnectFailed(error, Shutdown(cip))
    BY <2>1 DEF Results
  <2>3. /\ srv' = [srv EXCEPT !.up = FALSE] /\ cmdQ' = cmdQ /\ repQ' = repQ
        /\ UNCHANGED <<login, history>>
    BY <1>3 DEF NotGreeted, Hangup, history
  <2>4. srv' \in SrvType /\ ~srv'.up
    BY <1>1, <2>3 DEF SrvType
  <2>5. Over(error, Shutdown(cip))
    BY <2>2, Overs
  <2> QED
    BY <1>1, <2>3, <2>4, <2>5, OverInv1, ShutdownFields
<1> QED
  BY <1>2, <1>3

\* FTPLoginHost's answers to a reply: the next command of the login.
LEMMA AnswerInv1 ==
  ASSUME Inv1, Welcome \/ FirewallPassed \/ NeedPassword \/ NeedAccount
  PROVE  Inv1'
<1>1. PICK S \in {{220}, {230}, {331}, {332}} : Reply("login", S)
  <2>1. Welcome => Reply("login", {220})
    BY DEF Welcome
  <2>2. FirewallPassed => Reply("login", {230})
    BY DEF FirewallPassed
  <2>3. NeedPassword => Reply("login", {331})
    BY DEF NeedPassword
  <2>4. NeedAccount => Reply("login", {332})
    BY DEF NeedAccount
  <2> QED
    BY <2>1, <2>2, <2>3, <2>4
<1>2. /\ pc = "login" /\ cip.ctrl = "open" /\ repQ' \in Seq(Codes)
      /\ cip \in CipType /\ call \in CallType /\ login \in LoginType /\ TypeOK
  BY <1>1, ReplyReads DEF Inv1, Inv, TypeOK, CallType, LoginType
<1>3. srv' = srv /\ rejected' = rejected /\ delayed' = delayed
  BY DEF Welcome, FirewallPassed, NeedPassword, NeedAccount, history
<1>4. PICK verb \in Verbs, args \in SUBSET Fields : Answer(verb, args)
  <2>1. CASE Welcome
    <3>1. UserArgs(PastFirewall) \in SUBSET Fields
      BY DEF UserArgs, Fields
    <3> QED
      BY <2>1, <3>1 DEF Welcome, Verbs
  <2>2. CASE FirewallPassed
    <3>1. \/ Answer("USER", {"user", "host"}) \/ Answer("SITE", {"host"})
          \/ Answer("OPEN", {"host"}) \/ Answer("USER", {"user"})
      BY <2>2 DEF FirewallPassed
    <3>2. /\ {"USER", "SITE", "OPEN"} \subseteq Verbs
          /\ {{"user", "host"}, {"host"}, {"user"}} \subseteq SUBSET Fields
      BY DEF Verbs, Fields
    <3> QED
      BY <3>1, <3>2
  <2>3. CASE NeedPassword
    <3> DEFINE mine == PastFirewall \/ cip.firewallType \in {1, 7, 8, 9}
               given == IF mine THEN {cip.pass}
                        ELSE IF cip.firewallType = 5 THEN {cip.pass, "fwpass"} ELSE {"fwpass"}
    <3>1. Answer("PASS", given)
      BY <2>3 DEF NeedPassword
    <3>2. given \in SUBSET Fields /\ "PASS" \in Verbs
      <4>1. cip.pass \in {"pass", "stars"}
        BY <1>2 DEF CipType
      <4> QED
        BY <4>1 DEF Fields, Verbs
    <3> QED
      BY <3>1, <3>2
  <2>4. CASE NeedAccount
    BY <2>4 DEF NeedAccount, Verbs, Fields
  <2> QED
    BY <2>1, <2>2, <2>3, <2>4
<1>5. Send(verb, args) /\ pc' = "login" /\ cip' = cip /\ call' = call
  BY <1>4 DEF Answer
<1>6. cmdQ' \in Seq(Command)
  BY <1>2, <1>5, SendType
<1>7. login' \in LoginType
  <2>1. \/ login' = login \/ login' = [login EXCEPT !.fwloggedin = TRUE]
        \/ login' = [login EXCEPT !.sentpass = TRUE]
        \/ login' = [login EXCEPT !.fwsentpass = TRUE]
    <3>1. CASE Welcome \/ NeedAccount
      BY <3>1 DEF Welcome, NeedAccount
    <3>2. CASE FirewallPassed
      BY <3>2 DEF FirewallPassed
    <3>3. CASE NeedPassword
      BY <3>3 DEF NeedPassword
    <3> QED
      BY <3>1, <3>2, <3>3
  <2>2. /\ [login EXCEPT !.fwloggedin = TRUE] \in LoginType
        /\ [login EXCEPT !.sentpass = TRUE] \in LoginType
        /\ [login EXCEPT !.fwsentpass = TRUE] \in LoginType
    BY <1>2 DEF LoginType
  <2>3. login \in LoginType
    BY <1>2
  <2> QED
    BY <2>1, <2>2, <2>3
<1> QED
  BY <1>2, <1>3, <1>5, <1>6, <1>7, TalkInv1

\* The login is over: QUIT is sent, with the result noted.
LEMMA LoginRefusedInv1 ==
  ASSUME Inv1, LoginRefused
  PROVE  Inv1'
<1>1. /\ pc = "login" /\ cip.ctrl = "open" /\ repQ' \in Seq(Codes)
      /\ cip \in CipType /\ call \in CallType /\ login \in LoginType /\ TypeOK
  BY ReplyReads DEF LoginRefused, Inv1, Inv, TypeOK, CallType, LoginType
<1>2. PICK result \in {"loginMisc", "badUserOrPassword", "badUser"} :
        call' = [call EXCEPT !.result = result] /\ cip' = Wiped(result, cip)
  BY DEF LoginRefused
<1>3. /\ Send("QUIT", {}) /\ pc' = "quit" /\ login' = login /\ srv' = srv
      /\ rejected' = rejected /\ delayed' = delayed
  BY DEF LoginRefused, history
<1>4. call' \in CallType /\ call'.name = call.name
  BY <1>1, <1>2 DEF CallType, Results
<1>5. cmdQ' \in Seq(Command)
  BY <1>1, <1>3, SendType DEF Verbs
<1>6. /\ cip' \in CipType /\ cip'.buf = cip.buf /\ cip'.ctrl = cip.ctrl
      /\ cip'.connected = cip.connected /\ cip'.loggedIn = cip.loggedIn
  BY <1>1, <1>2, WipedFields
<1> QED
  BY <1>1, <1>3, <1>4, <1>5, <1>6, TalkInv1

\* A login, or a QUIT, whose session is lost, and the end of a QUIT.
LEMMA HangupType ==
  ASSUME TypeOK, Hangup
  PROVE  /\ srv' \in SrvType /\ ~srv'.up /\ cmdQ' \in Seq(Command) /\ repQ' \in Seq(Codes)
         /\ cmdQ' = cmdQ /\ repQ' = repQ
BY DEF TypeOK, Hangup, SrvType

\* The session is lost in the middle of the login.
LEMMA LoginLostInv1 ==
  ASSUME Inv1, LoginLost \/ LoginUnwritten
  PROVE  Inv1'
<1>1. /\ pc = "login" /\ cip \in CipType /\ TypeOK /\ call.name = "open" /\ Hangup
      /\ UNCHANGED <<login, history>>
  BY DEF LoginLost, LoginUnwritten, Inv1, Inv, StageOK, TypeOK, history
<1>2. PICK result \in {"ctrlTimedOut", "hostClosed", "writeFailed"} :
        AfterLoginFailed(result, Wiped(result, Shutdown(cip)))
  BY DEF LoginLost, LoginUnwritten
<1>3. result \in Results /\ Over(result, Wiped(result, Shutdown(cip)))
  BY <1>1, <1>2, Overs DEF Results
<1>4. /\ Shutdown(cip) \in CipType /\ Shutdown(cip).ctrl = "closed"
      /\ ~Shutdown(cip).connected /\ ~Shutdown(cip).loggedIn
  BY <1>1, ShutdownFields
<1>5. /\ Wiped(result, Shutdown(cip)) \in CipType
      /\ Wiped(result, Shutdown(cip)).ctrl = "closed"
      /\ ~Wiped(result, Shutdown(cip)).connected /\ ~Wiped(result, Shutdown(cip)).loggedIn
  BY <1>4, WipedFields
<1> QED
  BY <1>1, <1>3, <1>5, OverInv1, HangupType

\* QUIT has been answered, or will not be.
LEMMA QuitInv1 ==
  ASSUME Inv1, QuitReply \/ QuitUnanswered
  PROVE  Inv1'
<1>1. /\ pc = "quit" /\ cip \in CipType /\ TypeOK /\ call \in CallType /\ srv \in SrvType
      /\ login' = login /\ rejected' = rejected /\ delayed' = delayed
      /\ UNCHANGED <<login, history>>
  BY DEF QuitReply, QuitUnanswered, Inv1, Inv, TypeOK, history, CallType, SrvType, Reply
<1>2. srv' \in SrvType /\ ~srv'.up /\ cmdQ' \in Seq(Command) /\ repQ' \in Seq(Codes)
  <2>1. CASE QuitReply
    <3>1. srv' = [srv EXCEPT !.up = FALSE] /\ cmdQ' = cmdQ /\ Reply("quit", Codes)
      BY <2>1 DEF QuitReply
    <3>2. repQ' \in Seq(Codes)
      BY <1>1, <3>1, ReplyReads
    <3> QED
      BY <1>1, <3>1, <3>2 DEF SrvType, TypeOK
  <2>2. CASE QuitUnanswered
    BY <1>1, <2>2, HangupType DEF QuitUnanswered
  <2> QED
    BY <2>1, <2>2
<1>3. Closed(cip)
  BY DEF QuitReply, QuitUnanswered
<1>4. /\ Shutdown(cip) \in CipType /\ Shutdown(cip).ctrl = "closed"
      /\ ~Shutdown(cip).connected /\ ~Shutdown(cip).loggedIn
      /\ ~Shutdown(cip).buf /\ Shutdown(cip).cwd = "null"
  BY <1>1, ShutdownFields
<1>5. CASE call.name = "open"
  <2>1. AfterLoginFailed(call.result, Shutdown(cip)) /\ call.result \in Results
    BY <1>1, <1>3, <1>5 DEF Closed, CallType
  <2>2. Over(call.result, Shutdown(cip))
    BY <1>5, <2>1, Overs
  <2> QED
    BY <1>1, <1>2, <1>4, <1>5, <2>1, <2>2, OverInv1
<1>6. CASE call.name # "open"
  <2>1. /\ pc' = "idle" /\ call' = [call EXCEPT !.result = "ok"] /\ cip' = Shutdown(cip)
    BY <1>3, <1>6 DEF Closed, Return
  <2>2. call' \in CallType /\ call'.name = call.name
    BY <1>1, <2>1 DEF CallType, Results
  <2>3. TypeOK'
    BY <1>1, <1>2, <1>4, <2>1, <2>2 DEF TypeOK, CallType, SrvType
  <2> QED
    BY <1>1, <1>2, <1>4, <1>6, <2>1, <2>2, <2>3
       DEF Inv1, Inv, StageOK, BufferWhileConnected, FailedIsClean, Setup
<1> QED
  BY <1>5, <1>6

\* The first PWD, FEAT and HELP of a session.
LEMMA LoggedInInv1 ==
  ASSUME Inv1, LoggedIn
  PROVE  Inv1'
<1>1. /\ pc = "login" /\ cip.ctrl = "open" /\ repQ' \in Seq(Codes)
      /\ cip \in CipType /\ call \in CallType /\ login \in LoginType /\ TypeOK
  BY ReplyReads DEF LoggedIn, Inv1, Inv, TypeOK, CallType, LoginType
<1>2. /\ Send("PWD", {}) /\ pc' \in Setup /\ login' = login /\ srv' = srv /\ call' = call
      /\ rejected' = rejected /\ delayed' = delayed
  BY DEF LoggedIn, history, Setup
<1>3. cmdQ' \in Seq(Command)
  BY <1>1, <1>2, SendType DEF Verbs
<1>4. PICK cwd \in {"empty", cip.cwd} : cip' = [cip EXCEPT !.loggedIn = TRUE, !.cwd = cwd]
  BY <1>1 DEF LoggedIn, CipType
<1>5. /\ cip' \in CipType /\ cip'.buf = cip.buf /\ cip'.ctrl = cip.ctrl
      /\ cip'.connected = cip.connected
  BY <1>1, <1>4 DEF CipType
<1> QED
  BY <1>1, <1>2, <1>3, <1>5, TalkInv1 DEF Setup

\* What is done once the first PWD has been answered keeps the session.
LEMMA ReadyFields ==
  ASSUME NEW c \in CipType
  PROVE  /\ Ready(c) \in CipType /\ Ready(c).buf = c.buf /\ Ready(c).ctrl = c.ctrl
         /\ Ready(c).connected = c.connected /\ Ready(c).loggedIn = c.loggedIn
         /\ Ready(c).firewallType = c.firewallType /\ Ready(c).user = c.user
BY DEF Ready, CipType

\* A step of the setting up: what it sends, and the cache that it fills.
SetupStep ==
  /\ \E S : Reply(pc, S)
  /\ pc \in Setup /\ pc' \in Setup \cup {"crashed"}
  /\ cmdQ' = cmdQ \/ \E verb \in {"PWD", "FEAT", "HELP"} : Send(verb, {})
  /\ (cmdQ' = cmdQ) <=> pc' = "crashed"
  /\ \E cwd \in {cip.cwd, "empty", "set"} :
        cip' = [cip EXCEPT !.cwd = cwd] \/ cip' = Ready([cip EXCEPT !.cwd = cwd])
  /\ login' = login /\ call' = call /\ srv' = srv
  /\ rejected' = rejected /\ delayed' = delayed

\* Each reply of the setting up makes such a step.
LEMMA SetupSteps ==
  ASSUME Inv1, PwdReply \/ Pwd2Reply \/ FeatReply
  PROVE  SetupStep
<1>1. /\ login' = login /\ call' = call /\ srv' = srv
      /\ rejected' = rejected /\ delayed' = delayed
  BY DEF PwdReply, Pwd2Reply, FeatReply, history
<1>2. cip = [cip EXCEPT !.cwd = cip.cwd] /\ cmdQ \in Seq(Command)
  BY DEF Inv1, Inv, TypeOK, CipType
<1>3. ASSUME NEW verb \in {"PWD", "FEAT", "HELP"}, Send(verb, {})
      PROVE  cmdQ' # cmdQ
  BY <1>2, <1>3 DEF Send, Cmd, Command
<1>4. ASSUME NEW c, QueryFeatures(c)
      PROVE  pc' \in Setup /\ Send("FEAT", {}) /\ cip' = Ready(c) /\ pc' # "crashed"
  BY <1>4 DEF QueryFeatures, Setup
<1>5. CASE PwdReply
  <2>1. /\ \E S : Reply(pc, S)
        /\ pc = "pwd"
        /\ \/ QueryFeatures([cip EXCEPT !.cwd = "set"])
           \/ Send("PWD", {}) /\ pc' = "pwd2" /\ cip' = cip
    BY <1>5 DEF PwdReply, Reply
  <2> QED
    BY <1>1, <1>2, <1>3, <1>4, <2>1 DEF SetupStep, Setup
<1>6. CASE Pwd2Reply
  <2>1. /\ \E S : Reply(pc, S)
        /\ pc = "pwd2"
        /\ \/ pc' = "crashed" /\ cip' = cip /\ cmdQ' = cmdQ
           \/ \E cwd \in {"empty", "set"} : QueryFeatures([cip EXCEPT !.cwd = cwd])
           \/ QueryFeatures(cip)
    BY <1>6 DEF Pwd2Reply, Reply
  <2> QED
    BY <1>1, <1>2, <1>3, <1>4, <2>1 DEF SetupStep, Setup
<1>7. CASE FeatReply
  <2>1. (\E S : Reply(pc, S)) /\ pc = "feat" /\ pc' = "help" /\ Send("HELP", {}) /\ cip' = cip
    BY <1>7 DEF FeatReply, Reply
  <2> QED
    BY <1>1, <1>2, <1>3, <2>1 DEF SetupStep, Setup
<1> QED
  BY <1>5, <1>6, <1>7

\* Such a step keeps the session as it is.
LEMMA SetupInv1 ==
  ASSUME Inv1, SetupStep
  PROVE  Inv1'
<1>1. /\ pc \in Setup /\ cip.ctrl = "open" /\ repQ' \in Seq(Codes)
      /\ cip \in CipType /\ call \in CallType /\ login \in LoginType /\ TypeOK
      /\ cmdQ \in Seq(Command)
  BY ReplyReads DEF SetupStep, Inv1, Inv, TypeOK, CallType, LoginType
<1>2. PICK cwd \in {cip.cwd, "empty", "set"} :
        cip' = [cip EXCEPT !.cwd = cwd] \/ cip' = Ready([cip EXCEPT !.cwd = cwd])
  BY DEF SetupStep
<1> DEFINE c == [cip EXCEPT !.cwd = cwd]
<1>3. /\ c \in CipType /\ c.buf = cip.buf /\ c.ctrl = cip.ctrl
      /\ c.connected = cip.connected /\ c.loggedIn = cip.loggedIn
  BY <1>1 DEF CipType
<1>4. cip' = c \/ cip' = Ready(c)
  BY <1>2
<1> HIDE DEF c
<1>5. /\ cip' \in CipType /\ cip'.buf = cip.buf /\ cip'.ctrl = cip.ctrl
      /\ cip'.connected = cip.connected /\ cip'.loggedIn = cip.loggedIn
  BY <1>3, <1>4, ReadyFields
<1>6. cmdQ' \in Seq(Command)
  BY <1>1, SendType DEF SetupStep, Verbs
<1> QED
  BY <1>1, <1>5, <1>6, TalkInv1 DEF SetupStep, Setup

\* FTPOpenHost returns, with the session or, unnoticed, without it.
LEMMA ReturnedInv1 ==
  ASSUME Inv1, HelpReply \/ SetupLost
  PROVE  Inv1'
<1>1. /\ pc \in Setup /\ cip \in CipType /\ call \in CallType /\ TypeOK /\ srv \in SrvType
      /\ pc' = "idle" /\ login' = login /\ rejected' = rejected /\ delayed' = delayed
      /\ call' = [call EXCEPT !.result = "ok"] /\ cmdQ' = cmdQ
  BY DEF HelpReply, SetupLost, Return, Reply, Inv1, Inv, TypeOK, CallType, SrvType, history, Setup,
         Hangup
<1>2. call' \in CallType /\ call'.result = "ok"
  BY <1>1 DEF CallType, Results
<1>3. CASE HelpReply
  <2>1. cip' = cip /\ srv' = srv /\ repQ' \in Seq(Codes)
    BY <1>1, <1>3, ReplyReads DEF HelpReply, Return
  <2>2. TypeOK'
    BY <1>1, <1>2, <2>1 DEF TypeOK, CallType, SrvType
  <2> QED
    BY <1>1, <1>2, <2>1, <2>2
       DEF Inv1, Inv, StageOK, BufferWhileConnected, FailedIsClean, Setup
<1>4. CASE SetupLost
  <2>1. /\ \E c \in {cip, Shutdown(cip)} : cip' \in {c, Ready(c)}
        /\ Hangup
    BY <1>4 DEF SetupLost, Return
  <2>2. /\ cip' \in CipType
        /\ \/ /\ cip'.buf = cip.buf /\ cip'.ctrl = cip.ctrl
              /\ cip'.connected = cip.connected /\ cip'.loggedIn = cip.loggedIn
           \/ ~cip'.connected /\ ~cip'.loggedIn
    BY <1>1, <2>1, ShutdownFields, ReadyFields
  <2>3. srv' \in SrvType /\ ~srv'.up /\ cmdQ' \in Seq(Command) /\ repQ' \in Seq(Codes)
    BY <1>1, <2>1, HangupType
  <2>4. TypeOK'
    BY <1>1, <1>2, <2>2, <2>3 DEF TypeOK, CallType, SrvType
  <2> QED
    BY <1>1, <1>2, <2>2, <2>3, <2>4
       DEF Inv1, Inv, StageOK, BufferWhileConnected, FailedIsClean, Setup
<1> QED
  BY <1>3, <1>4

\* The session is used, or about to be closed.
LEMMA UseInv1 ==
  ASSUME Inv1, Transfer \/ FTPCloseHost
  PROVE  Inv1'
<1>1. /\ pc = "idle" /\ cip.connected /\ cip \in CipType /\ call \in CallType /\ TypeOK
      /\ login' = login /\ rejected' = rejected /\ delayed' = delayed /\ srv' = srv /\ repQ' = repQ
  BY DEF Transfer, FTPCloseHost, Inv1, Inv, TypeOK, CallType, history
<1>2. CASE Transfer
  <2>1. /\ pc' = "idle" /\ call' = call /\ cmdQ' = cmdQ
        /\ \E type \in {"A", "I"}, timedOut \in BOOLEAN :
             cip' = [cip EXCEPT !.curTransferType = type, !.dataTimedOut = timedOut]
    BY <1>1, <1>2 DEF Transfer
  <2>2. /\ cip' \in CipType /\ cip'.buf = cip.buf /\ cip'.ctrl = cip.ctrl /\ cip'.cwd = cip.cwd
        /\ cip'.connected = cip.connected /\ cip'.loggedIn = cip.loggedIn
    BY <1>1, <2>1 DEF CipType
  <2>3. TypeOK'
    BY <1>1, <2>1, <2>2 DEF TypeOK
  <2> QED
    BY <1>1, <2>1, <2>2, <2>3
       DEF Inv1, Inv, StageOK, BufferWhileConnected, FailedIsClean, Setup
<1>3. CASE FTPCloseHost
  <2>1. /\ pc' = "quit" /\ cip' = cip /\ Send("QUIT", {})
        /\ call' = [call EXCEPT !.no = call.no + 1, !.name = "close", !.result = "ok"]
    BY <1>1, <1>3 DEF FTPCloseHost, CallType
  <2>2. call' \in CallType
    <3>1. call.no + 1 \in Nat /\ "ok" \in Results
      BY <1>1 DEF CallType, Results
    <3> QED
      BY <1>1, <2>1, <3>1 DEF CallType
  <2>3. cmdQ' \in Seq(Command)
    BY <1>1, <2>1, SendType DEF Verbs
  <2>4. TypeOK'
    BY <1>1, <2>1, <2>2, <2>3 DEF TypeOK, CallType, Awaiting
  <2> QED
    BY <1>1, <2>1, <2>4
       DEF Inv1, Inv, StageOK, BufferWhileConnected, FailedIsClean, Setup
<1> QED
  BY <1>2, <1>3

-----------------------------------------------------------------------------
(* The dialogues.                                                           *)

\* The step that follows a firewall's 230, and the one that follows a 331.
AfterPassed(s) ==
  /\ cip.firewallType = 2 => s.verb = "USER" /\ s.args = {"user", "host"}
  /\ cip.firewallType = 3 => s.verb = "SITE" /\ s.args = {"host"}
  /\ cip.firewallType = 4 => s.verb = "OPEN" /\ s.args = {"host"}
  /\ cip.firewallType = 6 => s.verb = "USER" /\ s.args = {"user"}
Mine(i) == cip.firewallType \in {0, 1, 7, 8, 9} \/ i >= 3
PassArgs(i) == IF Mine(i) THEN {"pass"}
               ELSE IF cip.firewallType = 5 THEN {"pass", "fwpass"} ELSE {"fwpass"}

\* What is true of step i of a dialogue, and of the one after it.
StepOK(d, i) ==
  LET next == d[i + 1] IN
  /\ d[i].verb \in LoginVerbs /\ d[i].args \in SUBSET Fields /\ "stars" \notin d[i].args
  /\ d[i].code \in {220, 230, 331, 332}
  /\ d[i].code = 331 =>
       i < Len(d) /\ (i = 1 \/ (i >= 3 /\ TwoLogins))
         /\ next.verb = "PASS" /\ next.args = PassArgs(i) /\ next.code \in {230, 332}
  /\ d[i].code = 220 =>
       i = 3 /\ TwoLogins /\ i < Len(d) /\ next.verb = "USER" /\ next.args = {"user"}
  /\ d[i].code = 332 =>
       i < Len(d) /\ ~TwoLogins
         /\ next.verb = "ACCT" /\ next.args = IF HasAcct THEN {"acct"} ELSE {"fwpass"}
  /\ d[i].code = 230 =>
       i = Len(d) \/ (i = 2 /\ TwoLogins /\ ~HasAcct /\ AfterPassed(next))
  /\ d[i].verb = "PASS" /\ d[i].args \cap {"pass", "stars"} # {} =>
       (i > 1 /\ Mine(i - 1)) \/ cip.firewallType = 5
DialogueOK(d) ==
  /\ Len(d) \in 2..5 /\ (TwoLogins => Len(d) >= 4)
  /\ d[1].verb = "USER" /\ d[1].args = UserArgs(Direct) /\ d[1].code = 331
  /\ \A i \in 1..Len(d) : StepOK(d, i)

\* Joined to the firewall's login, the dialogue with the target comes after it.
LEMMA Joined ==
  ASSUME NEW S, NEW a \in Seq(S), NEW b \in Seq(S)
  PROVE  /\ a \o b \in Seq(S) /\ Len(a \o b) = Len(a) + Len(b)
         /\ Len(a) = 2 /\ Len(b) = 1 =>
              (a \o b)[1] = a[1] /\ (a \o b)[2] = a[2] /\ (a \o b)[3] = b[1]
         /\ Len(a) = 2 /\ Len(b) = 2 =>
              /\ (a \o b)[1] = a[1] /\ (a \o b)[2] = a[2]
              /\ (a \o b)[3] = b[1] /\ (a \o b)[4] = b[2]
         /\ Len(a) = 3 /\ Len(b) = 2 =>
              /\ (a \o b)[1] = a[1] /\ (a \o b)[2] = a[2] /\ (a \o b)[3] = a[3]
              /\ (a \o b)[4] = b[1] /\ (a \o b)[5] = b[2]
<1>1. Len(a) \in Nat /\ Len(b) \in Nat
  OBVIOUS
<1>2. /\ a \o b \in Seq(S) /\ Len(a \o b) = Len(a) + Len(b)
      /\ \A i \in 1..Len(a) + Len(b) : (a \o b)[i] = IF i <= Len(a) THEN a[i] ELSE b[i - Len(a)]
  BY ConcatProperties
<1> DEFINE c == a \o b
           m == Len(a)
           n == Len(b)
<1>3. /\ m \in Nat /\ n \in Nat
      /\ \A i \in 1..m + n : c[i] = IF i <= m THEN a[i] ELSE b[i - m]
  BY <1>1, <1>2
<1> HIDE DEF c, m, n
<1>4. /\ m = 2 /\ n = 1 => c[1] = a[1] /\ c[2] = a[2] /\ c[3] = b[1]
      /\ m = 2 /\ n = 2 => c[1] = a[1] /\ c[2] = a[2] /\ c[3] = b[1] /\ c[4] = b[2]
  BY <1>3
<1>5. m = 3 /\ n = 2 => c[1] = a[1] /\ c[2] = a[2] /\ c[3] = a[3] /\ c[4] = b[1] /\ c[5] = b[2]
  BY <1>3
<1> QED
  BY <1>2, <1>4, <1>5 DEF c, m, n

\* Two steps make a sequence of steps.
LEMMA TwoSteps ==
  ASSUME NEW S, NEW x \in S, NEW y \in S
  PROVE  /\ <<x, y>> \in Seq(S) /\ Len(<<x, y>>) = 2 /\ <<x, y>>[1] = x /\ <<x, y>>[2] = y
         /\ <<x>> \in Seq(S) /\ Len(<<x>>) = 1 /\ <<x>>[1] = x
OBVIOUS

\* Each type of firewall's dialogue, step by step.
LEMMA DialogueFacts ==
  ASSUME cip.firewallType \in 0..9
  PROVE  LET d == Dialogue IN
         /\ cip.firewallType = 0 =>
              /\ Len(d) = 2 /\ d[1] = Step("USER", {"user"}, 331)
              /\ d[2] = Step("PASS", {"pass"}, 230)
         /\ cip.firewallType \in {1, 8, 9} =>
              /\ Len(d) = 2 /\ d[1] = Step("USER", {"user", "host"}, 331)
              /\ d[2] = Step("PASS", {"pass"}, 230)
         /\ cip.firewallType \in {2, 3, 4} =>
              /\ d[1] = Step("USER", {"fwuser"}, 331) /\ d[2] = Step("PASS", {"fwpass"}, 230)
         /\ cip.firewallType = 2 =>
              /\ Len(d) = 4 /\ d[3] = Step("USER", {"user", "host"}, 331)
              /\ d[4] = Step("PASS", {"pass"}, 230)
         /\ cip.firewallType \in {3, 4} =>
              /\ Len(d) = 5 /\ d[4] = Step("USER", {"user"}, 331)
              /\ d[5] = Step("PASS", {"pass"}, 230)
         /\ cip.firewallType = 3 => d[3] = Step("SITE", {"host"}, 220)
         /\ cip.firewallType = 4 => d[3] = Step("OPEN", {"host"}, 220)
         /\ cip.firewallType = 5 =>
              /\ Len(d) = 2 /\ d[1] = Step("USER", {"user", "fwuser", "host"}, 331)
              /\ d[2] = Step("PASS", {"pass", "fwpass"}, 230)
         /\ cip.firewallType = 6 =>
              /\ Len(d) = 4 /\ d[1] = Step("USER", {"fwuser", "host"}, 331)
              /\ d[2] = Step("PASS", {"fwpass"}, 230)
              /\ d[3] = Step("USER", {"user"}, 331) /\ d[4] = Step("PASS", {"pass"}, 230)
         /\ cip.firewallType = 7 =>
              /\ Len(d) = 3 /\ d[1] = Step("USER", {"user", "fwuser", "host"}, 331)
              /\ d[2] = Step("PASS", {"pass"}, 332) /\ d[3] = Step("ACCT", {"fwpass"}, 230)
<1> DEFINE S == [verb : Verbs, args : SUBSET Fields, code : Codes]
<1>1. ASSUME NEW verb \in {"USER", "PASS", "SITE", "OPEN"}, NEW args \in SUBSET Fields,
             NEW code \in {220, 230, 331}
      PROVE  Step(verb, args, code) \in S
  BY DEF Step, Verbs, Codes
<1>2. /\ {{"user"}, {"fwuser"}, {"pass"}, {"fwpass"}, {"host"}} \subseteq SUBSET Fields
      /\ {{"user", "host"}, {"fwuser", "host"}} \subseteq SUBSET Fields
  BY DEF Fields
<1> HIDE DEF S
<1>3. /\ FwLogin \in Seq(S) /\ UserLogin \in Seq(S) /\ UserAtSite \in Seq(S)
      /\ Len(FwLogin) = 2 /\ Len(UserLogin) = 2 /\ Len(UserAtSite) = 2
      /\ FwLogin[1] = Step("USER", {"fwuser"}, 331) /\ FwLogin[2] = Step("PASS", {"fwpass"}, 230)
      /\ UserLogin[1] = Step("USER", {"user"}, 331) /\ UserLogin[2] = Step("PASS", {"pass"}, 230)
      /\ UserAtSite[1] = Step("USER", {"user", "host"}, 331)
      /\ UserAtSite[2] = Step("PASS", {"pass"}, 230)
  <2>1. /\ Step("USER", {"fwuser"}, 331) \in S /\ Step("PASS", {"fwpass"}, 230) \in S
        /\ Step("USER", {"user"}, 331) \in S /\ Step("PASS", {"pass"}, 230) \in S
        /\ Step("USER", {"user", "host"}, 331) \in S
    BY <1>1, <1>2
  <2> QED
    BY <2>1, TwoSteps DEF FwLogin, UserLogin, UserAtSite
<1>4. CASE cip.firewallType \in {0, 1, 5, 7, 8, 9}
  BY <1>3, <1>4 DEF Dialogue
<1>5. CASE cip.firewallType = 2
  <2>1. Dialogue = FwLogin \o UserAtSite
    BY <1>5 DEF Dialogue
  <2> QED
    <3>1. /\ Len(FwLogin \o UserAtSite) = 4
          /\ (FwLogin \o UserAtSite)[1] = FwLogin[1] /\ (FwLogin \o UserAtSite)[2] = FwLogin[2]
          /\ (FwLogin \o UserAtSite)[3] = UserAtSite[1]
          /\ (FwLogin \o UserAtSite)[4] = UserAtSite[2]
      BY <1>3, Joined
    <3> QED
      BY <1>3, <1>5, <2>1, <3>1
<1>6. CASE cip.firewallType \in {3, 4}
  <2>1. PICK open \in {Step("SITE", {"host"}, 220), Step("OPEN", {"host"}, 220)} :
          /\ Dialogue = (FwLogin \o <<open>>) \o UserLogin
          /\ cip.firewallType = 3 => open = Step("SITE", {"host"}, 220)
          /\ cip.firewallType = 4 => open = Step("OPEN", {"host"}, 220)
    <3>1. CASE cip.firewallType = 3
      <4>1. Dialogue = FwLogin \o <<Step("SITE", {"host"}, 220)>> \o UserLogin
        BY <3>1 DEF Dialogue
      <4> QED
        BY <3>1, <4>1
    <3>2. CASE cip.firewallType = 4
      <4>1. Dialogue = FwLogin \o <<Step("OPEN", {"host"}, 220)>> \o UserLogin
        BY <3>2 DEF Dialogue
      <4> QED
        BY <3>2, <4>1
    <3> QED
      BY <1>6, <3>1, <3>2
  <2>2. open \in S
    BY <1>1, <1>2
  <2>3. <<open>> \in Seq(S) /\ Len(<<open>>) = 1 /\ <<open>>[1] = open
    BY <2>2, TwoSteps
  <2>4. /\ FwLogin \o <<open>> \in Seq(S) /\ Len(FwLogin \o <<open>>) = 3
        /\ (FwLogin \o <<open>>)[1] = FwLogin[1] /\ (FwLogin \o <<open>>)[2] = FwLogin[2]
        /\ (FwLogin \o <<open>>)[3] = open
    BY <1>3, <2>3, Joined
  <2>5. /\ Len(Dialogue) = 5 /\ Dialogue[1] = FwLogin[1] /\ Dialogue[2] = FwLogin[2]
        /\ Dialogue[3] = open /\ Dialogue[4] = UserLogin[1] /\ Dialogue[5] = UserLogin[2]
    BY <1>3, <2>1, <2>4, Joined
  <2> QED
    BY <1>3, <1>6, <2>1, <2>5
<1>7. CASE cip.firewallType = 6
  <2> DEFINE fw == <<Step("USER", {"fwuser", "host"}, 331), Step("PASS", {"fwpass"}, 230)>>
  <2>1. Dialogue = fw \o UserLogin
    BY <1>7 DEF Dialogue
  <2>2. Step("USER", {"fwuser", "host"}, 331) \in S /\ Step("PASS", {"fwpass"}, 230) \in S
    BY <1>1, <1>2
  <2>3. /\ fw \in Seq(S) /\ Len(fw) = 2
        /\ fw[1] = Step("USER", {"fwuser", "host"}, 331) /\ fw[2] = Step("PASS", {"fwpass"}, 230)
    BY <2>2, TwoSteps
  <2> HIDE DEF fw
  <2>4. /\ Len(fw \o UserLogin) = 4 /\ (fw \o UserLogin)[1] = fw[1]
        /\ (fw \o UserLogin)[2] = fw[2]
        /\ (fw \o UserLogin)[3] = UserLogin[1] /\ (fw \o UserLogin)[4] = UserLogin[2]
    BY <1>3, <2>3, Joined
  <2> QED
    BY <1>3, <1>7, <2>1, <2>3, <2>4
<1> QED
  BY <1>4, <1>5, <1>6, <1>7

\* The target's request for an account comes in place of its 230.
LEMMA ScriptFacts ==
  ASSUME cip.firewallType \in 0..9
  PROVE  /\ ~HasAcct => Script = Dialogue
         /\ HasAcct =>
              /\ cip.firewallType \in {0, 1} /\ Len(Script) = 3
              /\ Script[1] = Dialogue[1] /\ Script[2] = Step("PASS", {"pass"}, 332)
              /\ Script[3] = Step("ACCT", {"acct"}, 230)
<1>1. HasAcct => cip.firewallType \in {0, 1}
  BY AcctAssumption DEF HasAcct
<1>2. CASE HasAcct
  <2>1. Dialogue[2] = Step("PASS", {"pass"}, 230)
    BY <1>1, <1>2, DialogueFacts
  <2>2. [Dialogue[2] EXCEPT !.code = 332] = Step("PASS", {"pass"}, 332)
    BY <2>1 DEF Step
  <2>3. Script = <<Dialogue[1], [Dialogue[2] EXCEPT !.code = 332], Step("ACCT", {"acct"}, 230)>>
    BY <1>2 DEF Script
  <2>4. Script = <<Dialogue[1], Step("PASS", {"pass"}, 332), Step("ACCT", {"acct"}, 230)>>
    BY <2>2, <2>3
  <2> QED
    BY <1>1, <1>2, <2>4
<1> QED
  BY <1>2 DEF Script

\* Every step of every dialogue is one that the automaton can find its way to.
LEMMA ScriptOK ==
  ASSUME cip.firewallType \in 0..9
  PROVE  DialogueOK(Script)
<1> DEFINE d == Script
<1>1. /\ "stars" \notin {"user"} /\ "stars" \notin {"fwuser"} /\ "stars" \notin {"host"}
      /\ "stars" \notin {"user", "host"} /\ "stars" \notin {"fwuser", "host"}
      /\ "stars" \notin {"user", "fwuser", "host"} /\ "stars" \notin {"pass"}
      /\ "stars" \notin {"fwpass"} /\ "stars" \notin {"pass", "fwpass"} /\ "stars" \notin {"acct"}
      /\ {"fwpass"} \cap {"pass", "stars"} = {}
  OBVIOUS
<1>2. /\ {"user"} \in SUBSET Fields /\ {"fwuser"} \in SUBSET Fields /\ {"host"} \in SUBSET Fields
      /\ {"user", "host"} \in SUBSET Fields /\ {"fwuser", "host"} \in SUBSET Fields
      /\ {"user", "fwuser", "host"} \in SUBSET Fields /\ {"pass"} \in SUBSET Fields
      /\ {"fwpass"} \in SUBSET Fields /\ {"pass", "fwpass"} \in SUBSET Fields
      /\ {"acct"} \in SUBSET Fields
  BY DEF Fields
<1>3. \A verb, args, code :
        LET s == Step(verb, args, code) IN s.verb = verb /\ s.args = args /\ s.code = code
  BY DEF Step
<1>4. CASE HasAcct
  <2>1. /\ cip.firewallType \in {0, 1} /\ Len(d) = 3
        /\ d[1] = Step("USER", UserArgs(Direct), 331)
        /\ d[2] = Step("PASS", {"pass"}, 332) /\ d[3] = Step("ACCT", {"acct"}, 230)
    BY <1>4, DialogueFacts, ScriptFacts DEF UserArgs, Direct
  <2>2. UserArgs(Direct) \in SUBSET Fields /\ "stars" \notin UserArgs(Direct)
    BY <1>1, <1>2, <2>1 DEF UserArgs, Direct
  <2> HIDE DEF d
  <2>3. StepOK(d, 1) /\ StepOK(d, 2) /\ StepOK(d, 3)
    BY <1>1, <1>2, <1>3, <1>4, <2>1, <2>2
          DEF StepOK, LoginVerbs, TwoLogins, Mine, PassArgs
  <2>4. \A i \in 1..Len(d) : i \in {1, 2, 3}
    BY <2>1
  <2>5. DialogueOK(d)
    BY <1>3, <2>1, <2>3, <2>4 DEF DialogueOK, TwoLogins
  <2> QED
    BY <2>5 DEF d
<1>5. CASE ~HasAcct
  <2>1. d = Dialogue
    BY <1>5, ScriptFacts
  <2>2. UserArgs(Direct) \in SUBSET Fields /\ "stars" \notin UserArgs(Direct)
    BY <1>1, <1>2 DEF UserArgs, Direct
  <2> HIDE DEF d
  <2>3. ASSUME cip.firewallType \in {0, 1, 5, 8, 9}
        PROVE  DialogueOK(d)
    <3>1. /\ Len(d) = 2 /\ d[1] = Step("USER", UserArgs(Direct), 331)
          /\ d[2] = Step("PASS", PassArgs(1), 230)
      BY <2>1, <2>3, DialogueFacts DEF UserArgs, Direct, PassArgs, Mine
    <3>2. PassArgs(1) \in SUBSET Fields /\ "stars" \notin PassArgs(1)
      BY <1>1, <1>2, <2>3 DEF PassArgs, Mine
    <3>3. StepOK(d, 1) /\ StepOK(d, 2)
      BY <1>1, <1>2, <1>3, <1>5, <2>2, <2>3, <3>1, <3>2 DEF StepOK, LoginVerbs, TwoLogins, Mine
    <3>4. \A i \in 1..Len(d) : i \in {1, 2}
      BY <3>1
    <3> QED
      BY <1>3, <2>3, <3>1, <3>3, <3>4 DEF DialogueOK, TwoLogins
  <2>4. ASSUME cip.firewallType = 7
        PROVE  DialogueOK(d)
    <3>1. /\ Len(d) = 3 /\ d[1] = Step("USER", UserArgs(Direct), 331)
          /\ d[2] = Step("PASS", {"pass"}, 332) /\ d[3] = Step("ACCT", {"fwpass"}, 230)
      BY <2>1, <2>4, DialogueFacts DEF UserArgs, Direct
    <3>2. StepOK(d, 1) /\ StepOK(d, 2) /\ StepOK(d, 3)
      BY <1>1, <1>2, <1>3, <1>5, <2>2, <2>4, <3>1
          DEF StepOK, LoginVerbs, TwoLogins, Mine, PassArgs
    <3>3. \A i \in 1..Len(d) : i \in {1, 2, 3}
      BY <3>1
    <3> QED
      BY <1>3, <2>4, <3>1, <3>2, <3>3 DEF DialogueOK, TwoLogins
  <2>5. ASSUME cip.firewallType \in {2, 6}
        PROVE  DialogueOK(d)
    <3> DEFINE target == IF cip.firewallType = 2 THEN {"user", "host"} ELSE {"user"}
    <3>1. /\ Len(d) = 4 /\ d[1] = Step("USER", UserArgs(Direct), 331)
          /\ d[2] = Step("PASS", {"fwpass"}, 230)
          /\ d[3] = Step("USER", target, 331) /\ d[4] = Step("PASS", {"pass"}, 230)
      BY <2>1, <2>5, DialogueFacts DEF UserArgs, Direct
    <3>2. target \in SUBSET Fields /\ "stars" \notin target
      BY <1>1, <1>2
    <3>3. AfterPassed(d[3])
      BY <1>3, <2>5, <3>1 DEF AfterPassed
    <3> HIDE DEF target
    <3>4. StepOK(d, 1) /\ StepOK(d, 2)
      BY <1>1, <1>2, <1>3, <1>5, <2>2, <2>5, <3>1, <3>3
          DEF StepOK, LoginVerbs, TwoLogins, Mine, PassArgs
    <3>5. StepOK(d, 3) /\ StepOK(d, 4)
      BY <1>1, <1>2, <1>3, <1>5, <2>5, <3>1, <3>2
          DEF StepOK, LoginVerbs, TwoLogins, Mine, PassArgs
    <3>6. \A i \in 1..Len(d) : i \in {1, 2, 3, 4}
      BY <3>1
    <3> QED
      BY <1>3, <3>1, <3>4, <3>5, <3>6 DEF DialogueOK, TwoLogins
  <2>6. ASSUME cip.firewallType \in {3, 4}
        PROVE  DialogueOK(d)
    <3> DEFINE verb == IF cip.firewallType = 3 THEN "SITE" ELSE "OPEN"
    <3>1. /\ Len(d) = 5 /\ d[1] = Step("USER", UserArgs(Direct), 331)
          /\ d[2] = Step("PASS", {"fwpass"}, 230) /\ d[3] = Step(verb, {"host"}, 220)
          /\ d[4] = Step("USER", {"user"}, 331) /\ d[5] = Step("PASS", {"pass"}, 230)
      BY <2>1, <2>6, DialogueFacts DEF UserArgs, Direct
    <3>2. AfterPassed(d[3])
      BY <1>3, <2>6, <3>1 DEF AfterPassed
    <3>3. verb \in LoginVerbs /\ verb # "PASS"
      BY DEF LoginVerbs
    <3> HIDE DEF verb
    <3>4. StepOK(d, 1) /\ StepOK(d, 2)
      BY <1>1, <1>2, <1>3, <1>5, <2>2, <2>6, <3>1, <3>2
          DEF StepOK, LoginVerbs, TwoLogins, Mine, PassArgs
    <3>5. StepOK(d, 3)
      BY <1>1, <1>2, <1>3, <1>5, <2>6, <3>1, <3>3 DEF StepOK, TwoLogins
    <3>6. StepOK(d, 4) /\ StepOK(d, 5)
      BY <1>1, <1>2, <1>3, <1>5, <2>6, <3>1
          DEF StepOK, LoginVerbs, TwoLogins, Mine, PassArgs
    <3>7. \A i \in 1..Len(d) : i \in {1, 2, 3, 4, 5}
      BY <3>1
    <3> QED
      BY <1>3, <3>1, <3>4, <3>5, <3>6, <3>7 DEF DialogueOK, TwoLogins
  <2>7. DialogueOK(d)
    BY <2>3, <2>4, <2>5, <2>6
  <2> QED
    BY <2>7 DEF d
<1> QED
  BY <1>4, <1>5

\* The dialogue is a matter of the firewall's type alone.
LEMMA SameScript ==
  ASSUME cip'.firewallType = cip.firewallType
  PROVE  /\ Script' = Script /\ (TwoLogins' <=> TwoLogins) /\ (Direct' <=> Direct)
         /\ FwAsks' <=> FwAsks
BY DEF Script, Dialogue, HasAcct, TwoLogins, FwAsks, Direct, FwLogin, UserLogin, UserAtSite, Step
-----------------------------------------------------------------------------
(* The server's turn.                                                       *)

\* The command is a step of the dialogue: what the server says to it is what it
\* says to that step, to the next one, or to the one before.
Agrees(code) ==
  /\ srv.step \in 1..Len(Script) /\ Head(cmdQ) = Expected
  /\ srv'.step \in 2..(Len(Script) + 1) /\ code = Script[srv'.step - 1].code
  /\ \/ srv'.step = srv.step + 1
     \/ srv'.step = srv.step + 2 /\ Script[srv.step].code = 331
     \/ srv'.step = srv.step /\ srv'.asks > 0 /\ code \in {220, 331, 332}
  /\ rejected' = rejected
Refuses(code) ==
  /\ code \in Refusals /\ srv'.step = srv.step
  /\ rejected' = rejected \/ rejected' = (~delayed /\ MinePassed(Head(cmdQ)) /\ code = 530)
Obeys(code) == code = 200 /\ srv'.step = srv.step /\ rejected' = rejected
               /\ Head(cmdQ).verb \notin LoginVerbs

SrvTurn(code) ==
  /\ srv.up /\ srv.greeted = "yes" /\ cmdQ # <<>>
  /\ cmdQ' = Tail(cmdQ) /\ repQ' = Append(repQ, code)
  /\ srv' \in SrvType /\ srv'.up /\ srv'.greeted = "yes"
  /\ rejected' \in BOOLEAN
  /\ Agrees(code) \/ Refuses(code) \/ Obeys(code)
  /\ pc' = pc /\ cip' = cip /\ login' = login /\ call' = call /\ delayed' = delayed

\* What is said to a step of a dialogue, and that a 331 is not the last of it.
LEMMA CodeTypes ==
  ASSUME TypeOK, NEW i \in 1..Len(Script)
  PROVE  Script[i].code \in {220, 230, 331, 332} /\ (Script[i].code = 331 => i < Len(Script))
BY ScriptOK DEF TypeOK, CipType, DialogueOK, StepOK

\* A server that reads a command agrees to it, refuses it or obeys it.
LEMMA SrvTurns ==
  ASSUME TypeOK, srv.step >= 1, SrvCommand
  PROVE  \E code \in Codes : SrvTurn(code)
<1>1. /\ srv.up /\ srv.greeted = "yes" /\ cmdQ # <<>> /\ srv \in SrvType /\ srv.step \in Nat
      /\ pc' = pc /\ cip' = cip /\ login' = login /\ call' = call /\ delayed' = delayed
      /\ rejected \in BOOLEAN /\ delayed \in BOOLEAN /\ repQ \in Seq(Codes)
  BY DEF SrvCommand, TypeOK, SrvType
<1>2. Len(Script) \in 2..5
  BY ScriptOK DEF TypeOK, CipType, DialogueOK
<1>3. CASE SrvAgrees
  <2>1. srv.step \in 1..Len(Script) /\ Head(cmdQ) = Expected /\ rejected' = rejected
    BY <1>1, <1>2, <1>3 DEF SrvAgrees
  <2>2. CASE Says(Script[srv.step].code, [srv EXCEPT !.step = @ + 1])
    <3>1. /\ cmdQ' = Tail(cmdQ) /\ repQ' = Append(repQ, Script[srv.step].code)
          /\ srv' = [srv EXCEPT !.step = srv.step + 1]
      BY <1>1, <2>2 DEF Says, SrvType
    <3>2. /\ srv' \in SrvType /\ srv'.up /\ srv'.greeted = "yes" /\ srv'.step = srv.step + 1
      BY <1>1, <3>1 DEF SrvType
    <3>3. srv'.step \in 2..(Len(Script) + 1) /\ srv'.step - 1 = srv.step
      BY <1>1, <1>2, <2>1, <3>2
    <3>4. Agrees(Script[srv.step].code)
      BY <2>1, <3>2, <3>3 DEF Agrees
    <3>5. Script[srv.step].code \in Codes
      BY <2>1, CodeTypes DEF Codes
    <3> QED
      BY <1>1, <2>1, <3>1, <3>2, <3>4, <3>5 DEF SrvTurn
  <2>3. CASE /\ Script[srv.step].code = 331
             /\ Says(Script[srv.step + 1].code, [srv EXCEPT !.step = @ + 2])
    <3>1. /\ cmdQ' = Tail(cmdQ) /\ repQ' = Append(repQ, Script[srv.step + 1].code)
          /\ srv' = [srv EXCEPT !.step = srv.step + 2]
      BY <1>1, <2>3 DEF Says, SrvType
    <3>2. /\ srv' \in SrvType /\ srv'.up /\ srv'.greeted = "yes" /\ srv'.step = srv.step + 2
      BY <1>1, <3>1 DEF SrvType
    <3>3. srv.step < Len(Script)
      BY <2>1, <2>3, CodeTypes
    <3>4. srv'.step \in 2..(Len(Script) + 1) /\ srv'.step - 1 = srv.step + 1
          /\ srv.step + 1 \in 1..Len(Script)
      BY <1>1, <1>2, <2>1, <3>2, <3>3
    <3>5. Agrees(Script[srv.step + 1].code)
      BY <2>1, <2>3, <3>2, <3>4 DEF Agrees
    <3>6. Script[srv.step + 1].code \in Codes
      BY <3>4, CodeTypes DEF Codes
    <3> QED
      BY <1>1, <2>1, <3>1, <3>2, <3>5, <3>6 DEF SrvTurn
  <2>4. CASE /\ Script[srv.step - 1].code \in Asked \cup {220} /\ srv.step > 1
             /\ Says(Script[srv.step - 1].code, [srv EXCEPT !.asks = @ + 1])
    <3>1. /\ cmdQ' = Tail(cmdQ) /\ repQ' = Append(repQ, Script[srv.step - 1].code)
          /\ srv' = [srv EXCEPT !.asks = srv.asks + 1]
      BY <1>1, <2>4 DEF Says, SrvType
    <3>2. /\ srv' \in SrvType /\ srv'.up /\ srv'.greeted = "yes" /\ srv'.step = srv.step
          /\ srv'.asks > 0
      BY <1>1, <3>1 DEF SrvType
    <3>3. srv'.step \in 2..(Len(Script) + 1) /\ srv.step - 1 \in 1..Len(Script)
      BY <1>1, <1>2, <2>1, <2>4, <3>2
    <3>4. Agrees(Script[srv.step - 1].code)
      BY <2>1, <2>4, <3>2, <3>3 DEF Agrees, Asked
    <3>5. Script[srv.step - 1].code \in Codes
      BY <3>3, CodeTypes DEF Codes
    <3> QED
      BY <1>1, <2>1, <3>1, <3>2, <3>4, <3>5 DEF SrvTurn
  <2> QED
    BY <1>3, <2>2, <2>3, <2>4 DEF SrvAgrees
<1>4. CASE SrvRefuses
  <2>1. PICK code \in Refusals : Says(code, srv)
    BY <1>4 DEF SrvRefuses
  <2>2. /\ cmdQ' = Tail(cmdQ) /\ repQ' = Append(repQ, code) /\ srv' = srv /\ code \in Codes
    BY <2>1 DEF Says, Refusals, Codes
  <2>3. repQ'[Len(repQ')] = code
    BY <1>1, <2>2
  <2>4. rejected' = (rejected \/ (~delayed /\ MinePassed(Head(cmdQ)) /\ code = 530))
    BY <1>4, <2>3 DEF SrvRefuses, MinePassed
  <2>5. Refuses(code) /\ rejected' \in BOOLEAN
    BY <1>1, <2>1, <2>2, <2>4 DEF Refuses
  <2> QED
    BY <1>1, <2>2, <2>5 DEF SrvTurn
<1>5. CASE SrvObeys
  <2>1. /\ cmdQ' = Tail(cmdQ) /\ repQ' = Append(repQ, 200) /\ srv' = srv /\ rejected' = rejected
        /\ Obeys(200)
    BY <1>5 DEF SrvObeys, Says, Obeys, LoginVerbs
  <2> QED
    BY <1>1, <2>1 DEF SrvTurn, Codes
<1> QED
  BY <1>3, <1>4, <1>5 DEF SrvCommand

\* The server leaves what the library holds alone.
LEMMA ServerInv1 ==
  ASSUME Inv1, srv' \in SrvType, srv'.up => srv.up, cmdQ' \in Seq(Command), repQ' \in Seq(Codes),
         pc' = pc, cip' = cip, login' = login, call' = call, delayed' = delayed,
         rejected' \in BOOLEAN
  PROVE  Inv1'
<1>1. TypeOK'
  BY DEF Inv1, Inv, TypeOK, SrvType
<1>2. StageOK'
  BY DEF Inv1, StageOK, Setup
<1>3. BufferWhileConnected' /\ FailedIsClean'
  BY DEF Inv1, Inv, BufferWhileConnected, FailedIsClean
<1> QED
  BY <1>1, <1>2, <1>3 DEF Inv1, Inv

\* A command that is read, greetings, and a hangup.
LEMMA SrvCommandInv1 ==
  ASSUME Inv1, NEW code \in Codes, SrvTurn(code)
  PROVE  Inv1'
<1>1. cmdQ \in Seq(Command) /\ repQ \in Seq(Codes) /\ cmdQ # <<>>
  BY DEF Inv1, Inv, TypeOK, SrvTurn
<1>2. cmdQ' \in Seq(Command) /\ repQ' \in Seq(Codes)
  BY <1>1 DEF SrvTurn
<1> QED
  BY <1>2, ServerInv1 DEF SrvTurn

\* A greeting: the fields of the server after it.
GreetTurn(code) ==
  /\ srv.up /\ srv.greeted # "yes" /\ (code = 120 => srv.greeted = "no")
  /\ repQ' = Append(repQ, code)
  /\ srv' \in SrvType /\ srv'.step = srv.step
  /\ srv'.greeted = IF code = 120 THEN "soon" ELSE "yes"
  /\ pc' = pc /\ cip' = cip /\ login' = login /\ call' = call /\ cmdQ' = cmdQ
  /\ rejected' = rejected /\ delayed' = delayed

\* A server that greets does so.
LEMMA GreetTurns ==
  ASSUME TypeOK, SrvGreets
  PROVE  \E code \in {220, 120, 421, 500} : GreetTurn(code)
<1>1. PICK code \in Greetings :
        /\ code = 120 => srv.greeted = "no"
        /\ repQ' = Append(repQ, code)
        /\ srv' = [srv EXCEPT !.greeted = IF code = 120 THEN "soon" ELSE "yes", !.up = code # 421]
  BY Zenon DEF SrvGreets
<1>2. code \in {220, 120, 421, 500}
  BY GreetingsAssumption
<1> DEFINE greeted == IF code = 120 THEN "soon" ELSE "yes"
           up == code # 421
<1>3. greeted \in {"no", "soon", "yes"} /\ up \in BOOLEAN
  OBVIOUS
<1>4. srv' = [srv EXCEPT !.greeted = greeted, !.up = up]
  BY <1>1
<1> HIDE DEF greeted, up
<1>5. srv \in SrvType
  BY DEF TypeOK, SrvType
<1>6. srv' \in SrvType /\ srv'.step = srv.step /\ srv'.greeted = greeted
  BY <1>3, <1>4, <1>5 DEF SrvType
<1>7. /\ srv.up /\ srv.greeted # "yes" /\ pc' = pc /\ cip' = cip /\ login' = login
      /\ call' = call /\ delayed' = delayed /\ rejected' = rejected /\ cmdQ' = cmdQ
  BY DEF SrvGreets, history
<1> QED
  BY <1>1, <1>2, <1>6, <1>7 DEF GreetTurn, greeted

LEMMA SrvGreetsInv1 ==
  ASSUME Inv1, SrvGreets
  PROVE  Inv1'
<1>1. PICK code \in {220, 120, 421, 500} : GreetTurn(code)
  BY GreetTurns DEF Inv1, Inv
<1>2. repQ \in Seq(Codes) /\ cmdQ \in Seq(Command) /\ rejected \in BOOLEAN
  BY DEF Inv1, Inv, TypeOK
<1>3. repQ' \in Seq(Codes)
  BY <1>1, <1>2 DEF Codes, GreetTurn
<1> QED
  BY <1>1, <1>2, <1>3, ServerInv1 DEF GreetTurn

LEMMA SrvHangsUpInv1 ==
  ASSUME Inv1, SrvHangsUp
  PROVE  Inv1'
<1>1. srv \in SrvType /\ repQ \in Seq(Codes) /\ cmdQ \in Seq(Command) /\ rejected \in BOOLEAN
  BY DEF Inv1, Inv, TypeOK, SrvType
<1>2. repQ' \in Seq(Codes) /\ srv' \in SrvType
  <2>1. srv' = [srv EXCEPT !.up = FALSE] /\ repQ' \in {repQ, Append(repQ, 421)}
    BY DEF SrvHangsUp
  <2>2. [srv EXCEPT !.up = FALSE] \in SrvType
    BY <1>1 DEF SrvType
  <2>3. Append(repQ, 421) \in Seq(Codes)
    BY <1>1 DEF Codes
  <2> QED
    BY <1>1, <2>1, <2>2, <2>3
<1>3. /\ srv.up /\ pc' = pc /\ cip' = cip /\ login' = login /\ call' = call /\ delayed' = delayed
      /\ rejected' = rejected /\ cmdQ' = cmdQ
  BY DEF SrvHangsUp, history
<1> QED
  BY <1>1, <1>2, <1>3, ServerInv1

\* Every step keeps it.
LEMMA NextInv1 ==
  ASSUME Inv1, srv.step >= 1, [Next]_vars
  PROVE  Inv1'
<1>1. CASE Library
  <2>1. TypeOK
    BY DEF Inv1, Inv
  <2> QED
    BY <1>1, DialInv1, DialFailsInv1, GreetedInv1, NoGreetingInv1, AnswerInv1, LoginRefusedInv1,
       LoginLostInv1, LoggedInInv1, SetupSteps, SetupInv1, ReturnedInv1, QuitInv1 DEF Library
<1>2. CASE Application
  BY <1>2, OpenHostInv1, UseInv1 DEF Application
<1>3. CASE Server
  <2>1. CASE SrvCommand
    <3>1. PICK code \in Codes : SrvTurn(code)
      BY <2>1, SrvTurns DEF Inv1, Inv
    <3> QED
      BY <3>1, SrvCommandInv1
  <2> QED
    BY <1>3, <2>1, SrvGreetsInv1, SrvHangsUpInv1 DEF Server
<1>4. CASE UNCHANGED vars
  <2>1. /\ pc' = pc /\ cip' = cip /\ login' = login /\ call' = call /\ cmdQ' = cmdQ /\ repQ' = repQ
        /\ srv' = srv /\ rejected' = rejected /\ delayed' = delayed
    BY <1>4 DEF vars
  <2> QED
    BY <2>1, ServerInv1 DEF Inv1, Inv, TypeOK, SrvType
<1> QED
  BY <1>1, <1>2, <1>3, <1>4 DEF Next

\* The server's place in the dialogue.
LEMMA StepPositive ==
  ASSUME TypeOK, srv.step >= 1, [Next]_vars
  PROVE  srv'.step >= 1
<1>1. srv \in SrvType /\ srv.step \in Nat
  BY DEF TypeOK, SrvType
<1>2. ASSUME srv' = srv
      PROVE  srv'.step >= 1
  BY <1>2
<1>3. ASSUME NEW up, srv' = [srv EXCEPT !.up = up]
      PROVE  srv'.step >= 1
  BY <1>1, <1>3 DEF SrvType
<1>4. CASE Dial
  BY <1>4 DEF Dial, NewSrv
<1>5. CASE SrvGreets
  BY <1>1, <1>5, GreetTurns DEF GreetTurn
<1>6. CASE SrvCommand
  <2>1. PICK code \in Codes : SrvTurn(code)
    BY <1>6, SrvTurns
  <2> QED
    BY <1>1, <2>1 DEF SrvTurn, Agrees, Refuses, Obeys
<1>7. CASE TurnedAway \/ NotGreeted \/ LoginLost \/ LoginUnwritten \/ SetupLost \/ QuitReply
           \/ QuitUnanswered \/ SrvHangsUp
  BY <1>3, <1>7 DEF TurnedAway, NotGreeted, LoginLost, LoginUnwritten, SetupLost, QuitReply,
                    QuitUnanswered, SrvHangsUp, Hangup
<1>8. CASE \/ DialFails \/ Greeted \/ Welcome \/ FirewallPassed \/ NeedPassword \/ NeedAccount
           \/ LoginRefused \/ LoggedIn \/ PwdReply \/ Pwd2Reply \/ FeatReply \/ HelpReply
           \/ Application \/ UNCHANGED vars
  <2>1. srv' = srv
    BY <1>8 DEF DialFails, Greeted, Welcome, FirewallPassed, NeedPassword, NeedAccount,
                LoginRefused, LoggedIn, PwdReply, Pwd2Reply, FeatReply, HelpReply,
                Application, FTPOpenHost, FTPOpenHostNoLogin, OpenHost, Transfer, FTPCloseHost, vars
  <2> QED
    BY <1>2, <2>1
<1> QED
  BY <1>4, <1>5, <1>6, <1>7, <1>8 DEF Next, Library, Application, Server
-----------------------------------------------------------------------------
(* What is under way: the library's side.                                   *)

\* A command sent when none is waiting, and a reply read when it is the only one.
LEMMA SentAlone ==
  ASSUME cmdQ = <<>>, NEW verb, NEW args, Send(verb, args)
  PROVE  Len(cmdQ') = 1 /\ cmdQ'[1].verb = verb /\ cmdQ'[1].args = args
         /\ cmdQ'[1] = Cmd(verb, args)
<1>1. cmdQ' = <<Cmd(verb, args)>>
  BY DEF Send
<1> QED
  BY <1>1 DEF Cmd

LEMMA ReadAlone ==
  ASSUME TypeOK, NEW p, NEW S, Reply(p, S), Len(repQ) = 1
  PROVE  repQ' = <<>>
BY DEF Reply, TypeOK

\* A reply to a step of the login is the server's to the step before its own, or asks
\* for the firewall's password a second time.
LEMMA LoginReply ==
  ASSUME Inv1, TalkOK, NEW S, Reply("login", S)
  PROVE  /\ cmdQ = <<>> /\ repQ' = <<>> /\ repQ[1] \in S \ {421} /\ Head(repQ) = repQ[1]
         /\ pc = "login" /\ DialogueOK(Script) /\ ~cip.loggedIn
         /\ TypeOK /\ login \in LoginType /\ cip \in CipType /\ srv.greeted = "yes"
         /\ Len(Script) \in Nat
         /\ S \cap Refusals = {} =>
              \/ AskedTwice
              \/ \E i \in 1..Len(Script) :
                   srv.step = i + 1 /\ repQ[1] = Script[i].code /\ Noted(i) /\ StepOK(Script, i)
<1>1. /\ pc = "login" /\ repQ # <<>> /\ repQ[1] \in S \ {421} /\ Head(repQ) = repQ[1]
      /\ TypeOK /\ ~cip.loggedIn
  BY ReplyReads DEF Inv1, Inv, StageOK
<1>2. Replied
  BY <1>1 DEF TalkOK, Offered
<1>3. repQ' = <<>> /\ cmdQ = <<>>
  BY <1>1, <1>2, ReadAlone DEF Replied
<1>4. DialogueOK(Script)
  BY <1>1, ScriptOK DEF TypeOK, CipType
<1>5. ASSUME S \cap Refusals = {}, ~AskedTwice
      PROVE  \E i \in 1..Len(Script) :
                srv.step = i + 1 /\ repQ[1] = Script[i].code /\ Noted(i) /\ StepOK(Script, i)
  <2>1. /\ srv.step \in 2..(Len(Script) + 1) /\ repQ[1] = Script[srv.step - 1].code
        /\ Noted(srv.step - 1)
    BY <1>1, <1>2, <1>5 DEF Replied
  <2>2. srv.step - 1 \in 1..Len(Script) /\ srv.step = (srv.step - 1) + 1
    BY <1>4, <2>1 DEF DialogueOK
  <2> QED
    BY <1>4, <2>1, <2>2 DEF DialogueOK
<1>6. /\ login \in LoginType /\ cip \in CipType /\ srv.greeted = "yes"
      /\ Len(Script) \in Nat
  BY <1>1, <1>4 DEF TypeOK, LoginType, TalkOK, DialogueOK
<1> QED
  BY <1>1, <1>3, <1>4, <1>5, <1>6

\* The library's answer is the step that the server waits for.
LEMMA AnswerOffered ==
  ASSUME TypeOK, NEW verb \in LoginVerbs, NEW args, Send(verb, args), cmdQ = <<>>,
         repQ' = <<>>, pc' = "login", cip'.firewallType = cip.firewallType, ~cip'.loggedIn,
         srv' = srv, srv.greeted = "yes",
         NEW i \in 1..Len(Script), srv.step = i,
         \/ Noted(i)' /\ verb = Script[i].verb /\ args = Script[i].args
         \/ Noted(i)' /\ "stars" \in args
         \/ Misled /\ args # Script[i].args,
         verb = "PASS" /\ args \cap {"pass", "stars"} # {} /\ cip.firewallType # 5
           => login'.sentpass
  PROVE  TalkOK'
<1>1. /\ Len(cmdQ') = 1 /\ cmdQ'[1].verb = verb /\ cmdQ'[1].args = args
      /\ cmdQ'[1] = Cmd(verb, args)
  BY SentAlone
<1>2. Script' = Script
  BY SameScript
<1>3. Expected' = Cmd(Script[i].verb, Script[i].args)
  BY <1>2 DEF Expected
<1>4. \/ Noted(i)' /\ (cmdQ'[1] = Expected' \/ "stars" \in cmdQ'[1].args)
      \/ Misled' /\ cmdQ'[1] # Expected'
  BY <1>1, <1>3 DEF Misled, Cmd
<1>5. MinePassed(cmdQ'[1]) /\ cip'.firewallType # 5 => login'.sentpass
  BY <1>1 DEF MinePassed
<1>6. srv'.step \in 1..Len(Script') /\ srv'.step = i
  BY <1>2
<1>7. Offered'
  <2>1. Noted(i)' => Noted(srv.step)'
    BY <1>6 DEF Noted
  <2> QED
    BY <1>1, <1>4, <1>5, <1>6, <2>1 DEF Offered, MinePassed
<1> QED
  BY <1>7 DEF TalkOK, Setup

\* 220, from the target that has been named: its USER comes next.
LEMMA WelcomeTalk ==
  ASSUME Inv1, TalkOK, Welcome
  PROVE  TalkOK'
<1>1. /\ Reply("login", {220}) /\ Send("USER", UserArgs(PastFirewall))
      /\ pc' = "login" /\ cip' = cip /\ login' = login /\ srv' = srv
  BY DEF Welcome, Answer
<1>2. {220} \cap Refusals = {}
  BY DEF Refusals
<1>3. PICK i \in 1..Len(Script) :
        srv.step = i + 1 /\ repQ[1] = Script[i].code /\ Noted(i) /\ StepOK(Script, i)
  BY <1>1, <1>2, LoginReply DEF AskedTwice
<1>4. /\ cmdQ = <<>> /\ repQ' = <<>> /\ repQ[1] = 220 /\ ~cip.loggedIn /\ TypeOK /\ pc = "login"
      /\ Len(Script) \in Nat /\ srv.greeted = "yes"
  BY <1>1, LoginReply
<1>5. /\ i >= 3 /\ TwoLogins /\ i + 1 \in 1..Len(Script)
      /\ Script[i + 1].verb = "USER" /\ Script[i + 1].args = {"user"}
  BY <1>3, <1>4 DEF StepOK
<1>6. UserArgs(PastFirewall) = {"user"}
  BY <1>3, <1>5 DEF Noted, PastFirewall, UserArgs
<1>7. Noted(i + 1)'
  BY <1>1, <1>3, <1>5, SameScript DEF Noted, TwoLogins, FwAsks
<1>8. PICK verb \in LoginVerbs, args \in {{"user"}} :
        /\ Send(verb, args) /\ verb = Script[i + 1].verb /\ args = Script[i + 1].args
        /\ verb # "PASS"
  BY <1>1, <1>5, <1>6 DEF LoginVerbs
<1>9. /\ pc' = "login" /\ cip'.firewallType = cip.firewallType /\ ~cip'.loggedIn /\ srv' = srv
      /\ i + 1 \in 1..Len(Script) /\ srv.step = i + 1
  BY <1>1, <1>3, <1>4, <1>5
<1> QED
  BY <1>4, <1>7, <1>8, <1>9, AnswerOffered

\* 230, from the firewall: the target is named next.
LEMMA FirewallPassedTalk ==
  ASSUME Inv1, TalkOK, FirewallPassed
  PROVE  TalkOK'
<1>1. /\ Reply("login", {230}) /\ TwoLogins /\ ~login.fwloggedin /\ srv' = srv
      /\ login' = [login EXCEPT !.fwloggedin = TRUE]
  BY DEF FirewallPassed, TwoLogins
<1>2. {230} \cap Refusals = {}
  BY DEF Refusals
<1>3. PICK i \in 1..Len(Script) :
        srv.step = i + 1 /\ repQ[1] = Script[i].code /\ Noted(i) /\ StepOK(Script, i)
  BY <1>1, <1>2, LoginReply DEF AskedTwice
<1>4. /\ cmdQ = <<>> /\ repQ' = <<>> /\ repQ[1] = 230 /\ ~cip.loggedIn /\ TypeOK /\ pc = "login"
      /\ Len(Script) \in Nat /\ Len(Script) >= 4 /\ srv.greeted = "yes" /\ login \in LoginType
  BY <1>1, LoginReply DEF DialogueOK
<1>5. /\ i = 2 /\ AfterPassed(Script[i + 1]) /\ i + 1 \in 1..Len(Script)
  BY <1>1, <1>3, <1>4 DEF StepOK, Noted
<1>6. PICK verb \in {"USER", "SITE", "OPEN"},
           args \in {{"user", "host"}, {"host"}, {"user"}} :
        Answer(verb, args) /\ verb = Script[i + 1].verb /\ args = Script[i + 1].args
  <2>1. CASE cip.firewallType = 2
    BY <1>5, <2>1 DEF FirewallPassed, AfterPassed
  <2>2. CASE cip.firewallType = 3
    BY <1>5, <2>2 DEF FirewallPassed, AfterPassed
  <2>3. CASE cip.firewallType = 4
    BY <1>5, <2>3 DEF FirewallPassed, AfterPassed
  <2>4. CASE cip.firewallType = 6
    BY <1>5, <2>4 DEF FirewallPassed, AfterPassed
  <2> QED
    BY <1>1, <2>1, <2>2, <2>3, <2>4 DEF TwoLogins
<1>7. Send(verb, args) /\ pc' = "login" /\ cip' = cip
  BY <1>6 DEF Answer
<1>8. login'.fwloggedin /\ ~Direct
  BY <1>1, <1>4 DEF LoginType, TwoLogins, Direct
<1>9. Noted(i + 1)'
  BY <1>1, <1>5, <1>7, <1>8, SameScript DEF Noted, TwoLogins, FwAsks
<1> QED
  BY <1>1, <1>3, <1>4, <1>5, <1>6, <1>7, <1>9, AnswerOffered DEF LoginVerbs

\* 331: the password that is asked for comes next, whosever it is.
LEMMA NeedPasswordTalk ==
  ASSUME Inv1, TalkOK, NeedPassword
  PROVE  TalkOK'
<1> DEFINE mine == PastFirewall \/ cip.firewallType \in {1, 7, 8, 9}
           args == IF mine THEN {cip.pass}
                   ELSE IF cip.firewallType = 5 THEN {cip.pass, "fwpass"} ELSE {"fwpass"}
<1>1. /\ Reply("login", {331}) /\ Send("PASS", args) /\ pc' = "login" /\ cip' = cip /\ srv' = srv
      /\ login' = IF mine THEN [login EXCEPT !.sentpass = TRUE]
                          ELSE [login EXCEPT !.fwsentpass = TRUE]
  BY DEF NeedPassword, Answer
<1>2. {331} \cap Refusals = {}
  BY DEF Refusals
<1>4. /\ cmdQ = <<>> /\ repQ' = <<>> /\ repQ[1] = 331 /\ ~cip.loggedIn /\ TypeOK /\ pc = "login"
      /\ Len(Script) \in Nat /\ srv.greeted = "yes" /\ login \in LoginType
      /\ cip.firewallType \in 0..9 /\ cip.pass \in {"pass", "stars"}
  BY <1>1, LoginReply DEF CipType
<1>12. CASE AskedTwice
  <2>1. /\ mine /\ args = {cip.pass} /\ login'.sentpass /\ srv.step = 2 /\ Misled
        /\ 2 \in 1..Len(Script) /\ cip.firewallType \in 2..6
    BY <1>1, <1>4, <1>12 DEF AskedTwice, Misled, PastFirewall, LoginType
  <2>2. Script = Dialogue
    BY <1>4, <2>1, ScriptFacts
  <2>3. Script[2].args \in {{"fwpass"}, {"pass", "fwpass"}}
    BY <1>4, <2>1, <2>2, DialogueFacts DEF Step
  <2>4. args # Script[2].args
    <3>1. "fwpass" \in Script[2].args /\ "fwpass" \notin {cip.pass}
      BY <1>4, <2>3
    <3> QED
      BY <2>1, <3>1
  <2> HIDE DEF mine, args
  <2> QED
    BY <1>1, <1>4, <2>1, <2>4, AnswerOffered DEF LoginVerbs
<1> SUFFICES ASSUME ~AskedTwice
             PROVE  TalkOK'
  BY <1>12
<1>3. PICK i \in 1..Len(Script) :
        srv.step = i + 1 /\ repQ[1] = Script[i].code /\ Noted(i) /\ StepOK(Script, i)
  BY <1>1, <1>2, LoginReply
<1>5. /\ i = 1 \/ (i >= 3 /\ TwoLogins) 
      /\ i + 1 \in 1..Len(Script)
      /\ Script[i + 1].verb = "PASS" /\ Script[i + 1].args = PassArgs(i)
  BY <1>3, <1>4 DEF StepOK
<1>6. mine <=> Mine(i)
  BY <1>3, <1>4, <1>5 DEF Noted, PastFirewall, Mine, Direct, TwoLogins, FwAsks
<1>7. args = Script[i + 1].args \/ "stars" \in args
  <2>1. CASE cip.pass = "pass"
    BY <1>5, <1>6, <2>1 DEF PassArgs
  <2>2. CASE cip.pass = "stars"
    BY <1>5, <1>6, <2>2 DEF PassArgs
  <2> QED
    BY <1>4, <2>1, <2>2
<1>8. args \cap {"pass", "stars"} # {} /\ cip.firewallType # 5 => mine
  OBVIOUS
<1> HIDE DEF mine, args
<1>9. /\ login'.fwloggedin = login.fwloggedin
      /\ mine => login'.sentpass /\ login'.fwsentpass = login.fwsentpass
  BY <1>1, <1>4 DEF LoginType
<1>10. ~FwAsks => mine
  BY <1>4 DEF mine, PastFirewall, Direct, FwAsks
<1>11. Noted(i + 1)'
  BY <1>1, <1>3, <1>5, <1>9, <1>10, SameScript DEF Noted, TwoLogins, FwAsks
<1> QED
  BY <1>1, <1>3, <1>4, <1>5, <1>7, <1>8, <1>9, <1>11, AnswerOffered DEF LoginVerbs

\* 332: the account comes next.
LEMMA NeedAccountTalk ==
  ASSUME Inv1, TalkOK, NeedAccount
  PROVE  TalkOK'
<1> DEFINE args == IF HasAcct THEN {"acct"} ELSE {"fwpass"}
<1>1. /\ Reply("login", {332}) /\ Send("ACCT", args) /\ pc' = "login" /\ cip' = cip
      /\ login' = login /\ srv' = srv
  BY DEF NeedAccount, Answer
<1>2. {332} \cap Refusals = {}
  BY DEF Refusals
<1>3. PICK i \in 1..Len(Script) :
        srv.step = i + 1 /\ repQ[1] = Script[i].code /\ Noted(i) /\ StepOK(Script, i)
  BY <1>1, <1>2, LoginReply DEF AskedTwice
<1>4. /\ cmdQ = <<>> /\ repQ' = <<>> /\ repQ[1] = 332 /\ ~cip.loggedIn /\ TypeOK /\ pc = "login"
      /\ Len(Script) \in Nat /\ srv.greeted = "yes"
  BY <1>1, LoginReply
<1>5. /\ ~TwoLogins /\ i + 1 \in 1..Len(Script)
      /\ Script[i + 1].verb = "ACCT" /\ Script[i + 1].args = args
  BY <1>3, <1>4 DEF StepOK
<1>6. Noted(i + 1)'
  BY <1>1, <1>3, <1>5, SameScript DEF Noted, TwoLogins, FwAsks
<1> QED
  BY <1>1, <1>3, <1>4, <1>5, <1>6, AnswerOffered DEF LoginVerbs

\* Other replies to a login: it is over, or the session is set up.
LEMMA RefusedTalk ==
  ASSUME Inv1, TalkOK, LoginRefused
  PROVE  TalkOK'
<1>1. /\ Reply("login", Refusals \cup {200, 120}) /\ Send("QUIT", {}) /\ pc' = "quit"
      /\ srv' = srv
      /\ \E result : cip' = Wiped(result, cip)
  BY DEF LoginRefused
<1>2. /\ cmdQ = <<>> /\ repQ' = <<>> /\ ~cip.loggedIn /\ cip \in CipType /\ srv.greeted = "yes"
  BY <1>1, LoginReply
<1>3. ~cip'.loggedIn
  BY <1>1, <1>2, WipedFields
<1>4. Len(cmdQ') = 1 /\ cmdQ'[1].verb = "QUIT"
  BY <1>1, <1>2, SentAlone
<1>5. Besides'
  BY <1>2, <1>4 DEF Besides, LoginVerbs
<1> QED
  BY <1>1, <1>2, <1>3, <1>5 DEF TalkOK, Setup

\* 230, from the target: the dialogue is at its end.
LEMMA LoggedInTalk ==
  ASSUME Inv1, TalkOK, LoggedIn
  PROVE  TalkOK'
<1>1. /\ Reply("login", {230}) /\ Send("PWD", {}) /\ pc' \in Setup /\ srv' = srv
      /\ Direct \/ login.fwloggedin \/ ~TwoLogins
      /\ \E cwd : cip' = [cip EXCEPT !.loggedIn = TRUE, !.cwd = cwd]
  BY DEF LoggedIn, Setup, TwoLogins
<1>2. {230} \cap Refusals = {}
  BY DEF Refusals
<1>3. PICK i \in 1..Len(Script) :
        srv.step = i + 1 /\ repQ[1] = Script[i].code /\ Noted(i) /\ StepOK(Script, i)
  BY <1>1, <1>2, LoginReply DEF AskedTwice
<1>4. /\ cmdQ = <<>> /\ repQ' = <<>> /\ repQ[1] = 230 /\ cip \in CipType /\ srv.greeted = "yes"
      /\ Len(Script) \in Nat
  BY <1>1, LoginReply
<1>5. i = Len(Script)
  BY <1>1, <1>3, <1>4 DEF StepOK, Noted, TwoLogins, Direct
<1>6. cip'.firewallType = cip.firewallType
  BY <1>1, <1>4 DEF CipType
<1>7. srv'.step = Len(Script') + 1
  BY <1>1, <1>3, <1>5, <1>6, SameScript
<1>8. Len(cmdQ') = 1 /\ cmdQ'[1].verb = "PWD"
  BY <1>1, <1>4, SentAlone
<1>9. Besides'
  BY <1>4, <1>8 DEF Besides, LoginVerbs
<1> QED
  BY <1>1, <1>4, <1>7, <1>9 DEF TalkOK, Setup

\* The setting up has one command or reply under way.
LEMMA SetupTalk ==
  ASSUME Inv1, TalkOK, SetupStep
  PROVE  TalkOK'
<1>1. PICK S : Reply(pc, S)
  BY DEF SetupStep
<1>2. /\ TypeOK /\ cip \in CipType /\ pc \in Setup /\ Besides /\ repQ # <<>> /\ srv.greeted = "yes"
  BY <1>1, ReplyReads DEF Inv1, Inv, TypeOK, SetupStep, TalkOK, Setup
<1>3. cmdQ = <<>> /\ repQ' = <<>>
  BY <1>1, <1>2, ReadAlone DEF Besides
<1>4. PICK cwd \in {cip.cwd, "empty", "set"} :
        cip' = [cip EXCEPT !.cwd = cwd] \/ cip' = Ready([cip EXCEPT !.cwd = cwd])
  BY DEF SetupStep
<1> DEFINE c == [cip EXCEPT !.cwd = cwd]
<1>5. c \in CipType /\ c.loggedIn = cip.loggedIn /\ c.firewallType = cip.firewallType
  BY <1>2 DEF CipType
<1>6. cip' = c \/ cip' = Ready(c)
  BY <1>4
<1> HIDE DEF c
<1>7. cip'.loggedIn = cip.loggedIn /\ cip'.firewallType = cip.firewallType
  BY <1>5, <1>6, ReadyFields
<1>8. cip'.loggedIn => srv'.step = Len(Script') + 1
  BY <1>7, SameScript DEF SetupStep, TalkOK
<1>9. CASE pc' = "crashed"
  <2>1. cmdQ' = <<>> /\ srv' = srv
    BY <1>3, <1>9 DEF SetupStep
  <2> QED
    BY <1>2, <1>3, <1>8, <1>9, <2>1 DEF TalkOK, Setup
<1>10. CASE pc' \in Setup
  <2>1. PICK verb \in {"PWD", "FEAT", "HELP"} : Send(verb, {})
    BY <1>10 DEF SetupStep, Setup
  <2>2. Len(cmdQ') = 1 /\ cmdQ'[1].verb = verb
    BY <1>3, <2>1, SentAlone
  <2>3. Besides' /\ srv' = srv
    BY <1>3, <2>2 DEF Besides, LoginVerbs, SetupStep
  <2> QED
    BY <1>2, <1>8, <1>10, <2>3 DEF TalkOK, Setup
<1> QED
  BY <1>9, <1>10 DEF SetupStep

\* The returns to the application, and what it does next.
LEMMA IdleTalk ==
  ASSUME Inv1, TalkOK, HelpReply \/ Transfer \/ FTPCloseHost
  PROVE  TalkOK'
<1>1. /\ TypeOK /\ cip \in CipType
  BY DEF Inv1, Inv, TypeOK
<1>2. CASE HelpReply
  <2>1. Reply("help", Codes) /\ cmdQ' = cmdQ /\ pc' = "idle" /\ cip' = cip /\ srv' = srv
    BY <1>2 DEF HelpReply, Return
  <2>2. Besides /\ repQ # <<>> /\ srv.greeted = "yes"
    BY <2>1 DEF Reply, TalkOK, Setup
  <2>3. cmdQ = <<>> /\ repQ' = <<>>
    BY <1>1, <2>1, <2>2, ReadAlone DEF Besides
  <2>4. Script' = Script
    BY <2>1, SameScript
  <2> QED
    BY <2>1, <2>2, <2>3, <2>4 DEF TalkOK, Setup
<1>3. CASE Transfer
  <2>1. /\ pc = "idle" /\ pc' = pc /\ cmdQ' = cmdQ /\ repQ' = repQ /\ srv' = srv
        /\ \E type, timedOut :
             cip' = [cip EXCEPT !.curTransferType = type, !.dataTimedOut = timedOut]
    BY <1>3 DEF Transfer
  <2>2. cip'.loggedIn = cip.loggedIn /\ cip'.firewallType = cip.firewallType
    BY <1>1, <2>1 DEF CipType
  <2>3. Script' = Script
    BY <2>2, SameScript
  <2> QED
    BY <2>1, <2>2, <2>3 DEF TalkOK, Setup
<1>4. CASE FTPCloseHost
  <2>1. /\ pc = "idle" /\ pc' = "quit" /\ Send("QUIT", {}) /\ repQ' = repQ /\ srv' = srv
        /\ cip' = cip
    BY <1>4 DEF FTPCloseHost
  <2>2. cmdQ = <<>> /\ repQ = <<>> /\ srv.greeted = "yes"
    BY <2>1 DEF TalkOK
  <2>3. Len(cmdQ') = 1 /\ cmdQ'[1].verb = "QUIT"
    BY <2>1, <2>2, SentAlone
  <2>4. Besides'
    BY <2>1, <2>2, <2>3 DEF Besides, LoginVerbs
  <2>5. Script' = Script
    BY <2>1, SameScript
  <2> QED
    BY <2>1, <2>2, <2>4, <2>5 DEF TalkOK, Setup
<1> QED
  BY <1>2, <1>3, <1>4
-----------------------------------------------------------------------------
(* What is under way: the connection's start, and the server's side.        *)

\* A new connection begins with nothing said.
LEMMA DialTalk ==
  ASSUME Inv1, Dial
  PROVE  TalkOK'
<1>1. /\ pc' = "greeting" /\ cmdQ' = <<>> /\ repQ' = <<>> /\ srv'.greeted = "no" /\ srv'.step = 1
  BY DEF Dial, NewSrv
<1>2. ~cip'.loggedIn
  BY DEF Dial, Inv1, Inv, TypeOK, CipType, StageOK
<1> QED
  BY <1>1, <1>2 DEF TalkOK, Setup

\* The first USER is the dialogue's first step.
LEMMA GreetedTalk ==
  ASSUME Inv1, TalkOK, Greeted, ~delayed'
  PROVE  TalkOK'
<1>1. /\ Reply("greeting", {120} \cup Positive) /\ delayed' = (Head(repQ) = 120)
      /\ srv' = srv /\ cip' = [cip EXCEPT !.connected = TRUE]
  BY DEF Greeted, Return
<1>2. /\ pc = "greeting" /\ TypeOK /\ cip \in CipType /\ ~cip.loggedIn /\ repQ # <<>>
      /\ Head(repQ) = repQ[1]
  BY <1>1, ReplyReads DEF Inv1, Inv, TypeOK, StageOK
<1>3. repQ[1] # 120
  BY <1>1, <1>2
<1>4. cmdQ = <<>> /\ srv.step = 1 /\ srv.greeted \in {"no", "soon", "yes"}
  BY <1>2 DEF TalkOK, TypeOK
<1>5. srv.greeted = "yes" /\ Len(repQ) = 1
  <2>1. srv.greeted # "no"
    BY <1>2 DEF TalkOK
  <2>2. srv.greeted # "soon"
    BY <1>2, <1>3 DEF TalkOK
  <2> QED
    BY <1>2, <1>3, <1>4, <2>1, <2>2 DEF TalkOK
<1>6. repQ' = <<>>
  BY <1>1, <1>2, <1>5, ReadAlone
<1>7. ~cip'.loggedIn /\ cip'.firewallType = cip.firewallType
  BY <1>1, <1>2 DEF CipType
<1>8. CASE call.name = "open"
  <2>1. /\ pc' = "login" /\ login' = NewLogin /\ Send("USER", UserArgs(Direct))
    BY <1>8 DEF Greeted
  <2>2. DialogueOK(Script)
    BY <1>2, ScriptOK DEF CipType
  <2>3. /\ 1 \in 1..Len(Script) /\ Script[1].verb = "USER" /\ Script[1].args = UserArgs(Direct)
    BY <2>2 DEF DialogueOK
  <2>4. Noted(1)'
    BY <2>1 DEF Noted, NewLogin
  <2>5. PICK verb \in LoginVerbs, args \in {UserArgs(Direct)} :
          /\ Send(verb, args) /\ verb = Script[1].verb /\ args = Script[1].args
          /\ verb # "PASS"
    BY <2>1, <2>3 DEF LoginVerbs
  <2> QED
    BY <1>1, <1>2, <1>4, <1>5, <1>6, <1>7, <2>1, <2>3, <2>4, <2>5, AnswerOffered
<1>9. CASE call.name # "open"
  <2>1. pc' = "idle" /\ cmdQ' = cmdQ
    BY <1>9 DEF Greeted, Return
  <2> QED
    BY <1>1, <1>4, <1>5, <1>6, <1>7, <2>1 DEF TalkOK, Setup
<1> QED
  BY <1>8, <1>9

\* One greeting comes, or two of which the first is a 120.
LEMMA GreetTalk ==
  ASSUME Inv1, TalkOK, NEW code \in {220, 120, 421, 500}, GreetTurn(code)
  PROVE  TalkOK'
<1>1. /\ pc = "greeting" /\ cmdQ = <<>> /\ srv.step = 1 /\ ~cip.loggedIn
      /\ repQ \in Seq(Codes)
      /\ srv.greeted \in {"no", "soon", "yes"} /\ srv.greeted # "yes"
  BY DEF GreetTurn, TalkOK, Inv1, Inv, StageOK, TypeOK
<1>2. \/ repQ = <<>> /\ srv.greeted = "no"
      \/ repQ = <<120>> /\ srv.greeted = "soon"
  BY <1>1 DEF TalkOK
<1>5. /\ repQ = <<>> => Len(repQ') = 1 /\ repQ'[1] = code /\ repQ' = <<code>>
      /\ repQ = <<120>> => repQ' # <<>> /\ repQ'[1] = 120
  <2>1. repQ' = Append(repQ, code) /\ code \in Codes
    BY DEF GreetTurn, Codes
  <2>2. CASE repQ = <<>>
    BY <2>1, <2>2
  <2>3. CASE repQ = <<120>>
    <3>1. Len(repQ) = 1 /\ repQ[1] = 120
      BY <2>3
    <3>2. /\ Append(repQ, code) # <<>>
          /\ \A i \in 1..Len(repQ) : Append(repQ, code)[i] = repQ[i]
      BY <1>1, <2>1, AppendProperties
    <3>3. repQ # <<>> /\ 1 \in 1..Len(repQ)
      BY <3>1
    <3> QED
      BY <2>1, <3>1, <3>2, <3>3
  <2> QED
    BY <2>2, <2>3
<1>3. CASE code = 120
  <2>1. srv.greeted = "no" /\ srv'.greeted = "soon"
    BY <1>3 DEF GreetTurn
  <2>2. repQ' = <<120>>
    BY <1>2, <1>3, <1>5, <2>1
  <2> QED
    BY <1>1, <2>1, <2>2 DEF GreetTurn, TalkOK, Setup
<1>4. CASE code # 120
  <2>2. repQ' # <<>> /\ (Len(repQ') = 1 \/ repQ'[1] = 120)
    BY <1>2, <1>5
  <2>1. srv'.greeted = "yes"
    BY <1>4 DEF GreetTurn
  <2> QED
    BY <1>1, <2>1, <2>2 DEF GreetTurn, TalkOK, Setup
<1> QED
  BY <1>3, <1>4

\* The reply of a server that has read the only command.
LEMMA SrvTurnTalk ==
  ASSUME Inv1, TalkOK, NEW code \in Codes, SrvTurn(code), srv.up
  PROVE  TalkOK'
<1>1. /\ TypeOK /\ cip \in CipType /\ cmdQ \in Seq(Command) /\ cmdQ # <<>> /\ repQ \in Seq(Codes)
      /\ srv.step \in Nat /\ pc \in {"idle", "dial", "crashed"} \cup Awaiting
  BY DEF Inv1, Inv, TypeOK, SrvTurn
<1>2. pc \in {"login", "quit"} \cup Setup
  BY <1>1 DEF Inv1, StageOK, TalkOK, Awaiting, Setup
<1>3. Len(cmdQ) = 1 /\ repQ = <<>>
  BY <1>1, <1>2 DEF TalkOK, Offered, Replied, Besides
<1>4. cmdQ' = <<>> /\ Len(repQ') = 1 /\ repQ'[1] = code /\ Head(cmdQ) = cmdQ[1]
  BY <1>1, <1>3 DEF SrvTurn
<1>5. Script' = Script /\ DialogueOK(Script) /\ Len(Script) \in Nat
  <2>1. DialogueOK(Script)
    BY <1>1, ScriptOK DEF CipType
  <2> QED
    BY <2>1, SameScript DEF SrvTurn, DialogueOK
<1>6. CASE pc = "login"
  <2>1. Offered
    BY <1>3, <1>6 DEF TalkOK, Replied
  <2>2. ~cip.loggedIn
    BY <1>6 DEF Inv1, StageOK
  <2>3. CASE Agrees(code)
    <3>9. cmdQ[1] = Expected
      BY <1>4, <2>3 DEF Agrees
    <3>1. PICK k \in 1..Len(Script) :
            /\ srv'.step = k + 1 /\ code = Script[k].code
            /\ \/ k = srv.step
               \/ k = srv.step + 1 /\ Script[srv.step].code = 331
               \/ k + 1 = srv.step /\ srv'.asks > 0 /\ code # 230
      <4> DEFINE k == srv'.step - 1
      <4>1. /\ k \in 1..Len(Script) /\ srv'.step = k + 1 /\ code = Script[k].code
            /\ \/ k = srv.step
               \/ k = srv.step + 1 /\ Script[srv.step].code = 331
               \/ k + 1 = srv.step /\ srv'.asks > 0 /\ code # 230
        <5>1. srv'.step \in 2..(Len(Script) + 1) /\ code = Script[srv'.step - 1].code
          BY <2>3 DEF Agrees
        <5>2. k \in 1..Len(Script) /\ srv'.step = k + 1
          BY <1>5, <5>1
        <5>3. \/ srv'.step = srv.step + 1
              \/ srv'.step = srv.step + 2 /\ Script[srv.step].code = 331
              \/ srv'.step = srv.step /\ srv'.asks > 0 /\ code # 230
          BY <2>3 DEF Agrees
        <5> QED
          BY <1>1, <5>1, <5>2, <5>3
      <4> HIDE DEF k
      <4> QED
        BY <4>1
    <3>2. Noted(k) \/ (k = 1 /\ k + 1 = srv.step /\ srv'.asks > 0 /\ FwAsks
                        /\ login.fwsentpass /\ ~login.fwloggedin)
      <4>1. Noted(srv.step) /\ srv.step \in 1..Len(Script) /\ StepOK(Script, srv.step)
        BY <1>5, <2>1, <3>9 DEF Offered, DialogueOK
      <4>2. CASE k = srv.step
        BY <4>1, <4>2
      <4>3. CASE k = srv.step + 1 /\ Script[srv.step].code = 331
        <5>1. srv.step = 1 \/ (srv.step >= 3 /\ TwoLogins)
          BY <4>1, <4>3 DEF StepOK
        <5> QED
          BY <1>1, <4>1, <4>3, <5>1 DEF Noted
      <4>4. CASE k + 1 = srv.step /\ srv'.asks > 0 /\ code # 230
        <5>1. StepOK(Script, k) /\ code = Script[k].code /\ k \in 1..Len(Script)
          BY <1>5, <3>1 DEF DialogueOK
        <5>2. k = 2 => ~TwoLogins
          BY <4>4, <5>1 DEF StepOK
        <5> QED
          BY <4>1, <4>4, <5>1, <5>2 DEF Noted
      <4> QED
        BY <3>1, <4>2, <4>3, <4>4
    <3>3. \/ Noted(srv.step - 1)'
          \/ AskedTwice'
      <4>1. CASE Noted(k)
        BY <3>1, <4>1, SameScript DEF Noted, SrvTurn
      <4>2. CASE k = 1 /\ k + 1 = srv.step /\ srv'.asks > 0 /\ FwAsks
                 /\ login.fwsentpass /\ ~login.fwloggedin
        <5>1. srv'.step = 2 /\ 2 \in 1..Len(Script') /\ Misled'
          BY <1>5, <2>1, <3>1, <4>2 DEF Misled, FwAsks, SrvTurn, Offered
        <5>2. repQ'[1] = 331 /\ login' = login
          BY <1>4, <1>5, <3>1, <4>2 DEF DialogueOK, SrvTurn
        <5> QED
          BY <4>2, <5>1, <5>2 DEF AskedTwice
      <4> QED
        BY <3>2, <4>1, <4>2
    <3>4. srv'.step \in 2..(Len(Script') + 1) /\ repQ'[1] = Script'[srv'.step - 1].code
      BY <1>4, <1>5, <3>1
    <3>5. Replied'
      BY <1>4, <3>3, <3>4 DEF Replied
    <3> QED
      BY <1>6, <2>2, <3>5 DEF TalkOK, SrvTurn, Setup
  <2>4. CASE Refuses(code)
    <3>1. Replied'
      BY <1>4, <2>4 DEF Replied, Refuses
    <3> QED
      BY <1>6, <2>2, <3>1 DEF TalkOK, SrvTurn, Setup
  <2>5. CASE Obeys(code)
    BY <1>4, <2>1, <2>5 DEF Obeys, Offered
  <2> QED
    BY <2>3, <2>4, <2>5 DEF SrvTurn
<1>7. CASE pc \in Setup \cup {"quit"}
  <2>1. Besides /\ Besides'
    BY <1>3, <1>4, <1>7 DEF TalkOK, Besides
  <2>2. ~Agrees(code)
    <3>1. ASSUME srv.step \in 1..Len(Script)
          PROVE  Expected.verb \in LoginVerbs
      BY <1>5, <3>1 DEF Expected, Cmd, DialogueOK, StepOK
    <3> QED
      BY <1>3, <1>4, <2>1, <3>1 DEF Besides, Agrees
  <2>3. srv'.step = srv.step
    BY <2>2 DEF SrvTurn, Refuses, Obeys
  <2> QED
    BY <1>5, <1>7, <2>1, <2>3 DEF TalkOK, SrvTurn, Setup
<1> QED
  BY <1>2, <1>6, <1>7

\* A server that is not there.
LEMMA ServerGone ==
  ASSUME Inv1,
         \/ DialFails \/ TurnedAway \/ NotGreeted \/ LoginLost \/ LoginUnwritten \/ SetupLost
         \/ QuitReply \/ QuitUnanswered \/ FTPOpenHost \/ FTPOpenHostNoLogin \/ SrvHangsUp
  PROVE  ~srv'.up
<1>1. srv \in SrvType
  BY DEF Inv1, Inv, TypeOK, SrvType
<1>2. CASE DialFails \/ FTPOpenHost \/ FTPOpenHostNoLogin
  <2>1. srv' = srv /\ (pc = "dial" \/ cip.ctrl = "closed")
    BY <1>2 DEF DialFails, FTPOpenHost, FTPOpenHostNoLogin, OpenHost
  <2> QED
    BY <2>1 DEF Inv1, StageOK
<1>3. CASE \/ TurnedAway \/ NotGreeted \/ LoginLost \/ LoginUnwritten \/ SetupLost
           \/ QuitReply \/ QuitUnanswered \/ SrvHangsUp
  <2>1. srv' = [srv EXCEPT !.up = FALSE]
    BY <1>3 DEF TurnedAway, NotGreeted, LoginLost, LoginUnwritten, SetupLost, QuitReply,
                QuitUnanswered, SrvHangsUp, Hangup
  <2> QED
    BY <1>1, <2>1 DEF SrvType
<1> QED
  BY <1>2, <1>3

\* What is under way stays what it should be.
LEMMA NextTalk ==
  ASSUME Inv1, srv.step >= 1, srv.up /\ ~delayed => TalkOK, [Next]_vars, srv'.up, ~delayed'
  PROVE  TalkOK'
<1>1. TypeOK
  BY DEF Inv1, Inv
<1>2. CASE \/ DialFails \/ TurnedAway \/ NotGreeted \/ LoginLost \/ LoginUnwritten \/ SetupLost
           \/ QuitReply \/ QuitUnanswered \/ FTPOpenHost \/ FTPOpenHostNoLogin \/ SrvHangsUp
  BY <1>2, ServerGone
<1>3. CASE Dial
  BY <1>3, DialTalk
<1>4. CASE Greeted
  <2>1. srv' = srv /\ pc = "greeting"
    BY <1>4 DEF Greeted, Reply
  <2> QED
    BY <1>4, <2>1, GreetedTalk DEF Inv1, StageOK
<1>5. CASE \/ Welcome \/ FirewallPassed \/ NeedPassword \/ NeedAccount \/ LoginRefused \/ LoggedIn
           \/ PwdReply \/ Pwd2Reply \/ FeatReply \/ HelpReply \/ Transfer \/ FTPCloseHost
  <2>1. srv' = srv /\ delayed' = delayed
    BY <1>5 DEF Welcome, FirewallPassed, NeedPassword, NeedAccount, LoginRefused, LoggedIn,
                PwdReply, Pwd2Reply, FeatReply, HelpReply, Transfer, FTPCloseHost, history
  <2> QED
    BY <1>5, <2>1, WelcomeTalk, FirewallPassedTalk, NeedPasswordTalk, NeedAccountTalk,
       RefusedTalk, LoggedInTalk, SetupSteps, SetupTalk, IdleTalk
<1>6. CASE SrvGreets
  <2>1. PICK code \in {220, 120, 421, 500} : GreetTurn(code)
    BY <1>1, <1>6, GreetTurns
  <2> QED
    BY <2>1, GreetTalk DEF GreetTurn
<1>7. CASE SrvCommand
  <2>1. PICK code \in Codes : SrvTurn(code)
    BY <1>1, <1>7, SrvTurns
  <2> QED
    BY <2>1, SrvTurnTalk DEF SrvTurn
<1>8. CASE UNCHANGED vars
  <2>1. /\ pc' = pc /\ cip' = cip /\ login' = login /\ call' = call /\ cmdQ' = cmdQ /\ repQ' = repQ
        /\ srv' = srv /\ rejected' = rejected /\ delayed' = delayed
    BY <1>8 DEF vars
  <2>2. /\ Script' = Script /\ (TwoLogins' <=> TwoLogins) /\ (Direct' <=> Direct)
        /\ FwAsks' <=> FwAsks
    BY <2>1, SameScript
  <2>3. (Offered' <=> Offered) /\ (Replied' <=> Replied) /\ (Besides' <=> Besides)
    BY <2>1, <2>2 DEF Offered, Replied, Besides, Noted, Expected, MinePassed, Misled, AskedTwice
  <2> QED
    BY <2>1, <2>2, <2>3 DEF TalkOK, Setup
<1> QED
  BY <1>2, <1>3, <1>4, <1>5, <1>6, <1>7, <1>8 DEF Next, Library, Application, Server

-----------------------------------------------------------------------------
(* A password that has been refused.                                        *)

\* Who logs in, and through what, is the application's choice.
LEMMA SameUser ==
  ASSUME Inv1, [Next]_vars
  PROVE  cip'.user = cip.user /\ cip'.firewallType = cip.firewallType
<1> DEFINE Same(c) == c \in CipType /\ c.user = cip.user /\ c.firewallType = cip.firewallType
<1>1. Same(cip) /\ Same(Shutdown(cip)) /\ TypeOK
  BY ShutdownFields DEF Inv1, Inv, TypeOK
<1>2. ASSUME NEW c, Same(c), NEW result
      PROVE  Same(Deallocated(c)) /\ Same(Wiped(result, c)) /\ Same(Ready(c)) /\ Same(Shutdown(c))
  BY <1>2, ShutdownFields, WipedFields, ReadyFields
<1>3. ASSUME NEW c, Same(c), NEW result, Over(result, c)
      PROVE  Same(cip')
  BY <1>2, <1>3 DEF Over
<1>4. CASE FTPOpenHost \/ FTPOpenHostNoLogin
  <2>1. PICK c \in {ResetStatus(cip), cip} : cip' = [c EXCEPT !.pass = "pass"]
    BY <1>4 DEF FTPOpenHost, FTPOpenHostNoLogin, OpenHost
  <2> QED
    BY <1>1, <2>1 DEF ResetStatus, CipType
<1>5. CASE Dial \/ DialFails \/ Greeted
  <2>1. CASE Dial \/ Greeted
    BY <1>1, <2>1 DEF Dial, Greeted, Return, CipType
  <2>2. CASE DialFails
    <3> DEFINE c == [cip EXCEPT !.buf = TRUE]
    <3>1. Same(c)
      BY <1>1 DEF CipType
    <3>2. cip' \in {c, Deallocated(c)}
      BY <2>2 DEF DialFails
    <3> HIDE DEF c
    <3> QED
      BY <1>2, <3>1, <3>2
  <2> QED
    BY <1>5, <2>1, <2>2
<1>6. CASE TurnedAway \/ NotGreeted
  <2>1. CASE TurnedAway
    <3> DEFINE c == [cip EXCEPT !.ctrl = "closed"]
    <3>1. Same(c)
      BY <1>1 DEF CipType
    <3>2. Over("connRetry", c)
      BY <2>1, Overs DEF TurnedAway
    <3> HIDE DEF c
    <3> QED
      BY <1>3, <3>1, <3>2
  <2>2. CASE NotGreeted
    <3>1. \E error : ConnectFailed(error, Shutdown(cip))
      BY <2>2 DEF NotGreeted
    <3> QED
      BY <1>1, <1>3, <3>1, Overs
  <2> QED
    BY <1>6, <2>1, <2>2
<1>7. CASE \/ Welcome \/ FirewallPassed \/ NeedPassword \/ NeedAccount \/ FeatReply \/ HelpReply
           \/ FTPCloseHost \/ UNCHANGED vars \/ SrvGreets \/ SrvCommand \/ SrvHangsUp
  <2>1. CASE FirewallPassed
    BY <2>1 DEF FirewallPassed, Answer
  <2>2. CASE NeedPassword
    BY <2>2 DEF NeedPassword, Answer
  <2>3. CASE Welcome \/ NeedAccount
    BY <2>3 DEF Welcome, NeedAccount, Answer
  <2>4. CASE FeatReply \/ HelpReply \/ FTPCloseHost \/ UNCHANGED vars
    BY <2>4 DEF FeatReply, HelpReply, Return, FTPCloseHost, vars
  <2>5. CASE SrvGreets \/ SrvCommand \/ SrvHangsUp
    BY <2>5 DEF SrvGreets, SrvCommand, SrvHangsUp
  <2> QED
    BY <1>7, <2>1, <2>2, <2>3, <2>4, <2>5
<1>8. CASE LoginRefused \/ LoginLost \/ LoginUnwritten
  <2>1. CASE LoginRefused
    <3>1. \E result : cip' = Wiped(result, cip)
      BY <2>1 DEF LoginRefused
    <3> QED
      BY <1>1, <1>2, <3>1
  <2>2. CASE LoginLost \/ LoginUnwritten
    <3>1. PICK result : AfterLoginFailed(result, Wiped(result, Shutdown(cip)))
      BY <2>2 DEF LoginLost, LoginUnwritten
    <3>2. call.name = "open"
      BY <2>2 DEF LoginLost, LoginUnwritten, Inv1, StageOK
    <3>3. Same(Wiped(result, Shutdown(cip)))
      BY <1>1, <1>2
    <3> QED
      BY <1>3, <3>1, <3>2, <3>3, Overs
  <2> QED
    BY <1>8, <2>1, <2>2
<1>9. CASE LoggedIn \/ Transfer
  <2>1. \E type, timedOut, cwd, in :
          \/ cip' = [cip EXCEPT !.loggedIn = in, !.cwd = cwd]
          \/ cip' = [cip EXCEPT !.curTransferType = type, !.dataTimedOut = timedOut]
    BY <1>9 DEF LoggedIn, Transfer
  <2> QED
    BY <1>1, <2>1 DEF CipType
<1>10. CASE PwdReply \/ Pwd2Reply
  <2>1. PICK cwd \in {cip.cwd, "empty", "set"} :
          cip' = [cip EXCEPT !.cwd = cwd] \/ cip' = Ready([cip EXCEPT !.cwd = cwd])
    BY <1>10, SetupSteps DEF SetupStep
  <2> DEFINE c == [cip EXCEPT !.cwd = cwd]
  <2>2. Same(c)
    BY <1>1 DEF CipType
  <2>3. cip' = c \/ cip' = Ready(c)
    BY <2>1
  <2> HIDE DEF c
  <2> QED
    BY <1>2, <2>2, <2>3
<1>11. CASE SetupLost
  <2>1. \E c \in {cip, Shutdown(cip)} : cip' \in {c, Ready(c)}
    BY <1>11 DEF SetupLost, Return
  <2> QED
    BY <1>1, <1>2, <2>1
<1>12. CASE QuitReply \/ QuitUnanswered
  <2>1. Closed(cip)
    BY <1>12 DEF QuitReply, QuitUnanswered
  <2>2. Over(call.result, Shutdown(cip)) \/ cip' = Shutdown(cip)
    BY <2>1, Overs DEF Closed, Return
  <2> QED
    BY <1>1, <1>3, <2>2
<1> QED
  BY <1>4, <1>5, <1>6, <1>7, <1>8, <1>9, <1>10, <1>11, <1>12 DEF Next, Library, Application, Server

\* A refusal that counts is the answer to the only command, a PASS that has been
\* noted.
LEMMA NewlyRejected ==
  ASSUME Inv1, TalkOK, NEW code \in Codes, SrvTurn(code), ~delayed, cip.firewallType # 5,
         MinePassed(Head(cmdQ)), code = 530
  PROVE  RejectedOK'
<1>1. /\ cmdQ \in Seq(Command) /\ cmdQ # <<>> /\ repQ \in Seq(Codes) /\ Head(cmdQ) = cmdQ[1]
      /\ pc \in {"idle", "dial", "crashed"} \cup Awaiting
  BY DEF SrvTurn, Inv1, Inv, TypeOK
<1>2. pc \in {"login", "quit"} \cup Setup
  BY <1>1 DEF Inv1, StageOK, TalkOK, Awaiting, Setup, SrvTurn
<1>3. pc = "login" /\ Offered
  BY <1>1, <1>2 DEF TalkOK, Besides, Replied, MinePassed, LoginVerbs
<1>4. /\ cmdQ' = <<>> /\ repQ' = Append(<<>>, 530) /\ login.sentpass /\ login' = login /\ pc' = pc
  BY <1>1, <1>3 DEF Offered, SrvTurn
<1> QED
  BY <1>3, <1>4 DEF RejectedOK

\* The library's way from the refusal to the application.
LEMMA LibraryRejected ==
  ASSUME Inv1, RejectedOK, cip.user # "anonymous", Library
  PROVE  RejectedOK'
<1>1. /\ TypeOK /\ cip \in CipType /\ call \in CallType /\ cmdQ \in Seq(Command)
      /\ repQ \in Seq(Codes)
  BY DEF Inv1, Inv, TypeOK, CallType
<1>2. pc \in {"login", "quit", "idle"}
  BY DEF RejectedOK
<1>3. CASE pc = "login"
  <2>1. cmdQ = <<>> /\ repQ # <<>> /\ repQ[1] = 530 /\ Head(repQ) = 530 /\ login.sentpass
    BY <1>1, <1>3 DEF RejectedOK
  <2>2. \A S : Reply("login", S) => 530 \in S
    BY <2>1 DEF Reply
  <2>3. ~Welcome /\ ~FirewallPassed /\ ~NeedPassword /\ ~NeedAccount /\ ~LoggedIn
    <3>1. /\ ~Reply("login", {220}) /\ ~Reply("login", {230})
          /\ ~Reply("login", {331}) /\ ~Reply("login", {332})
      BY <2>2
    <3>2. ~Welcome /\ ~NeedAccount
      BY <3>1 DEF Welcome, NeedAccount
    <3>3. ~FirewallPassed /\ ~LoggedIn
      BY <3>1 DEF FirewallPassed, LoggedIn
    <3>4. ~NeedPassword
      BY <3>1 DEF NeedPassword
    <3> QED
      BY <3>2, <3>3, <3>4
  <2>4. ~LoginLost /\ ~LoginUnwritten
    BY <2>1 DEF LoginLost, LoginUnwritten, Lost, Unwritten
  <2>5. LoginRefused
    <3>1. ~Dial /\ ~DialFails /\ ~Greeted /\ ~TurnedAway /\ ~NotGreeted
      BY <1>3 DEF Dial, DialFails, Greeted, TurnedAway, NotGreeted, Reply
    <3>2. ~PwdReply /\ ~Pwd2Reply /\ ~FeatReply /\ ~HelpReply /\ ~SetupLost
      BY <1>3 DEF PwdReply, Pwd2Reply, FeatReply, HelpReply, SetupLost, Reply
    <3>3. ~QuitReply /\ ~QuitUnanswered
      BY <1>3 DEF QuitReply, QuitUnanswered, Reply
    <3> QED
      BY <2>3, <2>4, <3>1, <3>2, <3>3 DEF Library
  <2>6. /\ call' = [call EXCEPT !.result = "badUserOrPassword"]
        /\ Send("QUIT", {}) /\ pc' = "quit"
    BY <2>1, <2>5 DEF LoginRefused
  <2>7. call'.name = "open" /\ call'.result = "badUserOrPassword"
    BY <1>1, <1>3, <2>6 DEF CallType, Inv1, StageOK
  <2>8. NoPass'
    BY <2>1, <2>6, SentAlone DEF NoPass
  <2> QED
    BY <2>6, <2>7, <2>8 DEF RejectedOK
<1>4. CASE pc = "quit"
  <2>1. NoPass /\ call.name = "open" /\ call.result = "badUserOrPassword"
    BY <1>4 DEF RejectedOK
  <2>2. QuitReply \/ QuitUnanswered
    BY <1>4 DEF Library, Dial, DialFails, Greeted, TurnedAway, NotGreeted, Welcome, FirewallPassed,
       NeedPassword, NeedAccount, LoginRefused, LoginLost, LoginUnwritten, LoggedIn, PwdReply,
       Pwd2Reply, FeatReply, HelpReply, SetupLost, Reply
  <2>3. Closed(cip) /\ cmdQ' = cmdQ
    BY <2>2 DEF QuitReply, QuitUnanswered, Hangup
  <2>4. Shutdown(cip) \in CipType /\ Shutdown(cip).ctrl = "closed"
    BY <1>1, ShutdownFields
  <2>5. pc' = "idle" /\ cip' = Deallocated(Shutdown(cip))
    BY <2>1, <2>3 DEF Closed, AfterLoginFailed, Return
  <2>6. cip'.ctrl = "closed" /\ NoPass'
    BY <2>1, <2>3, <2>4, <2>5, ShutdownFields DEF NoPass
  <2> QED
    BY <2>5, <2>6 DEF RejectedOK
<1>5. CASE pc = "idle"
  BY <1>5 DEF Library, Dial, DialFails, Greeted, TurnedAway, NotGreeted, Welcome, FirewallPassed,
     NeedPassword, NeedAccount, LoginRefused, LoginLost, LoginUnwritten, LoggedIn, PwdReply,
     Pwd2Reply, FeatReply, HelpReply, SetupLost, QuitReply, QuitUnanswered, Reply
<1> QED
  BY <1>2, <1>3, <1>4, <1>5

\* A server's command that is answered, once the password has been refused.
LEMMA SrvTurnRejected ==
  ASSUME Inv1, RejectedOK, NEW code \in Codes, SrvTurn(code)
  PROVE  RejectedOK'
<1>1. /\ cmdQ \in Seq(Command) /\ cmdQ # <<>> /\ srv.up /\ cmdQ' = Tail(cmdQ)
      /\ pc' = pc /\ call' = call /\ cip' = cip
  BY DEF SrvTurn, Inv1, Inv, TypeOK
<1>2. pc = "quit" /\ NoPass /\ call.name = "open" /\ call.result = "badUserOrPassword"
  BY <1>1 DEF RejectedOK, Inv1, StageOK
<1>3. NoPass'
  <2>1. /\ Len(Tail(cmdQ)) = Len(cmdQ) - 1 /\ Len(cmdQ) \in Nat
        /\ \A i \in 1..Len(Tail(cmdQ)) : Tail(cmdQ)[i] = cmdQ[i + 1]
    BY <1>1, HeadTailProperties
  <2>2. \A i \in 1..Len(Tail(cmdQ)) : i + 1 \in 1..Len(cmdQ)
    BY <2>1
  <2>3. \A i \in 1..Len(Tail(cmdQ)) : Tail(cmdQ)[i].verb # "PASS"
    BY <1>2, <2>1, <2>2 DEF NoPass
  <2> QED
    BY <1>1, <2>3 DEF NoPass
<1> QED
  BY <1>1, <1>2, <1>3 DEF RejectedOK

\* Once refused, the password is on its way to the application and not back to
\* the server.
LEMMA NextRejected ==
  ASSUME IInv, [Next]_vars, rejected', cip'.user # "anonymous", cip'.firewallType # 5
  PROVE  RejectedOK'
<1>1. /\ Inv1 /\ TypeOK /\ srv.step >= 1 /\ cip.user # "anonymous" /\ cip.firewallType # 5
      /\ rejected => RejectedOK
      /\ repQ \in Seq(Codes)
  BY SameUser DEF IInv, Inv1, Inv, TypeOK
<1>2. CASE FTPOpenHost \/ FTPOpenHostNoLogin
  BY <1>2 DEF FTPOpenHost, FTPOpenHostNoLogin, OpenHost
<1>3. CASE Library
  <2>1. CASE FirewallPassed \/ NeedPassword
    BY <1>1, <1>3, <2>1, LibraryRejected DEF FirewallPassed, NeedPassword, history
  <2>2. CASE ~FirewallPassed /\ ~NeedPassword
    <3>1. rejected' = rejected
      BY <1>3, <2>2 DEF Library, Dial, DialFails, Greeted, TurnedAway, NotGreeted, Welcome,
         NeedAccount, LoginRefused, LoginLost, LoginUnwritten, LoggedIn, PwdReply,
         Pwd2Reply, FeatReply, HelpReply, SetupLost, QuitReply, QuitUnanswered, history
    <3> QED
      BY <1>1, <1>3, <3>1, LibraryRejected
  <2> QED
    BY <2>1, <2>2
<1>4. CASE Transfer \/ FTPCloseHost
  <2>1. rejected' = rejected /\ pc = "idle" /\ cip.connected
    BY <1>4 DEF Transfer, FTPCloseHost, history
  <2> QED
    BY <1>1, <2>1 DEF RejectedOK, Inv1, Inv, BufferWhileConnected
<1>5. CASE SrvCommand
  <2>1. PICK code \in Codes : SrvTurn(code)
    BY <1>1, <1>5, SrvTurns
  <2>2. CASE rejected
    BY <1>1, <2>1, <2>2, SrvTurnRejected
  <2>3. CASE ~rejected
    <3>1. ~delayed /\ MinePassed(Head(cmdQ)) /\ code = 530 /\ srv.up
      BY <2>1, <2>3 DEF SrvTurn, Agrees, Refuses, Obeys
    <3> QED
      BY <1>1, <2>1, <3>1, NewlyRejected DEF IInv
  <2> QED
    BY <2>2, <2>3
<1>6. CASE SrvGreets \/ SrvHangsUp
  <2>1. /\ rejected' = rejected /\ pc' = pc /\ cip' = cip /\ login' = login /\ call' = call
        /\ cmdQ' = cmdQ
        /\ \E code \in {220, 120, 421, 500} : repQ' \in {repQ, Append(repQ, code)}
    <3>1. CASE SrvGreets
      BY <1>1, <3>1, GreetTurns DEF GreetTurn
    <3>2. CASE SrvHangsUp
      BY <3>2 DEF SrvHangsUp, history
    <3> QED
      BY <1>6, <3>1, <3>2
  <2>2. ASSUME repQ # <<>>
        PROVE  repQ' # <<>> /\ repQ'[1] = repQ[1]
    <3>1. PICK code \in {220, 120, 421, 500} : repQ' \in {repQ, Append(repQ, code)}
      BY <2>1
    <3>2. code \in Codes /\ 1 \in 1..Len(repQ)
      BY <1>1, <2>2 DEF Codes
    <3>3. Append(repQ, code) # <<>> /\ Append(repQ, code)[1] = repQ[1]
      BY <1>1, <3>2, AppendProperties
    <3> QED
      BY <2>2, <3>1, <3>3
  <2> QED
    BY <1>1, <2>1, <2>2 DEF RejectedOK, NoPass
<1>7. CASE UNCHANGED vars
  BY <1>1, <1>7 DEF vars, RejectedOK, NoPass
<1> QED
  BY <1>2, <1>3, <1>4, <1>5, <1>6, <1>7 DEF Next, Application, Server

-----------------------------------------------------------------------------
(* The theorems.                                                            *)

\* The inductive invariant holds at the start and is kept by every step.
THEOREM Invariance == Spec => []IInv
<1>1. Init => IInv
  <2> SUFFICES ASSUME Init
               PROVE  IInv
    OBVIOUS
  <2>1. PICK fw \in FirewallTypes, user \in Users, leave \in BOOLEAN :
          cip = [firewallType |-> fw, user |-> user, leavePass |-> leave,
                 pass |-> "pass", buf |-> FALSE, ctrl |-> "closed",
                 connected |-> FALSE, loggedIn |-> FALSE, dataTimedOut |-> FALSE,
                 curTransferType |-> "none", cwd |-> "null", cwdSize |-> TRUE]
    BY DEF Init
  <2>2. fw \in 0..9 /\ user \in {"anonymous", "ftp", "named"}
    BY FirewallAssumption, UsersAssumption
  <2>3. cip \in CipType /\ cip.ctrl = "closed" /\ ~cip.connected /\ ~cip.loggedIn /\ ~cip.buf
    BY <2>1, <2>2 DEF CipType
  <2>4. /\ pc = "idle" /\ login \in LoginType /\ cmdQ = <<>> /\ repQ = <<>> /\ rejected = FALSE
        /\ delayed = FALSE /\ srv \in SrvType /\ ~srv.up /\ srv.step = 1
    BY DEF Init, NewLogin, LoginType, NewSrv, SrvType
  <2>5. call \in CallType /\ call.name = "close"
    BY BoundsAssumption DEF Init, CallType, Results
  <2>6. <<>> \in Seq(Command) /\ <<>> \in Seq(Codes)
    OBVIOUS
  <2>7. TypeOK
    BY <2>3, <2>4, <2>5, <2>6 DEF TypeOK, CallType, LoginType, SrvType
  <2>8. Inv1
    BY <2>3, <2>4, <2>5, <2>7 DEF Inv1, Inv, StageOK, BufferWhileConnected, FailedIsClean, Setup
  <2> QED
    BY <2>4, <2>8 DEF IInv
<1>2. IInv /\ [Next]_vars => IInv'
  <2> SUFFICES ASSUME IInv, [Next]_vars
               PROVE  IInv'
    OBVIOUS
  <2>1. Inv1 /\ srv.step >= 1 /\ TypeOK /\ (srv.up /\ ~delayed => TalkOK)
    BY DEF IInv, Inv1, Inv
  <2>2. Inv1' /\ srv'.step >= 1
    BY <2>1, NextInv1, StepPositive
  <2>3. srv'.up /\ ~delayed' => TalkOK'
    BY <2>1, NextTalk
  <2> QED
    BY <2>2, <2>3, NextRejected DEF IInv
<1> QED
  BY <1>1, <1>2, PTL DEF Spec

\* What is held agrees with what the session is, at every step of every dial:
\* the buffer is there while connected, and a failed FTPOpenHost leaves nothing.
THEOREM HeldRight == Spec => []Inv
<1>1. IInv => Inv
  BY DEF IInv, Inv1
<1> QED
  BY <1>1, Invariance, PTL

\* Every command of a login is the next step of its firewall's dialogue, unless the
\* greeting was a 120, the password has been wiped, or the firewall has asked twice for
\* its own password.
THEOREM Dialogues == Spec => []DialogueFollowed
<1>1. IInv => DialogueFollowed
  <2> SUFFICES ASSUME IInv, srv.up, cmdQ # <<>>, ~delayed, ~Misled,
                      Head(cmdQ).verb \in LoginVerbs, "stars" \notin Head(cmdQ).args
               PROVE  srv.step <= Len(Script) /\ Head(cmdQ) = Expected
    BY DEF DialogueFollowed
  <2>1. /\ Inv1 /\ TalkOK /\ cmdQ \in Seq(Command) /\ Head(cmdQ) = cmdQ[1]
        /\ pc \in {"idle", "dial", "crashed"} \cup Awaiting
    BY DEF IInv, Inv1, Inv, TypeOK
  <2>2. pc \in {"login", "quit"} \cup Setup
    BY <2>1 DEF Inv1, StageOK, TalkOK, Awaiting, Setup
  <2>3. Offered
    BY <2>1, <2>2 DEF TalkOK, Besides, Replied
  <2>4. Len(Script) \in 2..5
    BY <2>1, ScriptOK DEF Inv1, Inv, TypeOK, CipType, DialogueOK
  <2> QED
    BY <2>1, <2>3, <2>4 DEF Offered
<1> QED
  BY <1>1, Invariance, PTL

\* loggedIn is set only when the target has accepted the login.
THEOREM Logins == Spec => []LoginComplete
<1>1. IInv => LoginComplete
  BY DEF IInv, TalkOK, LoginComplete
<1> QED
  BY <1>1, Invariance, PTL

\* No password is offered again in a call in which the user's was refused.
THEOREM Rejections == Spec => []RejectedNotRetried
<1>1. IInv => RejectedNotRetried
  BY DEF IInv, RejectedOK, NoPass, RejectedNotRetried
<1> QED
  BY <1>1, Invariance, PTL
=============================================================================
