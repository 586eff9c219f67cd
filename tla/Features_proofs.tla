-------------------------- MODULE Features_proofs --------------------------
(***************************************************************************)
(* That what the library holds of a server is so, that its answers about   *)
(* an item are what the item was, that FTPUtime finds a way when there is  *)
(* one, and that nothing is asked again that the server does not have:     *)
(* proved of Features for any servers, overrides, items and bounds.        *)
(***************************************************************************)
EXTENDS Features, SequenceTheorems, TLAPS

------------------------------------------------------------------------------
(* The invariant *)

Values  == {"unknown", "yes", "no"}

\* The commands that the library sends before it knows whether the server has them.
Tried   == {"SIZE", "MDTM", "MLST", "UTIME", "MDTM_set"}
Queries == {"FileSize", "ModTime", "SizeTime", "Exists", "FileType", "Utime"}
Results == {"none", "ok", "refused", "unavailable", "passed", "yes", "no", "cannotTell",
            "exists", "file", "dir", "failed"}

CallRecords == [name: Queries \cup {"none", "Open"}, type: {"A", "I"}, want: Nat,
                size: Nat \cup {Unknown}, mdtm: Nat \cup {Unknown}, create: BOOLEAN,
                res: Results, denied: BOOLEAN]

Types ==
  /\ srv \in Servers /\ item \in Item /\ item \in seen /\ over \in Overrides
  /\ feat \in [listed: BOOLEAN, refused: BOOLEAN]
  /\ has \in [Commands -> Values] /\ usedMLS \in BOOLEAN /\ opts \in BOOLEAN
  /\ refused \subseteq Tried /\ denials \in 0 .. MaxDenials /\ opens \in Nat
  /\ call \in CallRecords

Steps == {"SIZE", "MDTM", "MLST", "CWD", "MFF", "MFMT", "UTIME", "MDTM_set", "STAT", "NLST"}
Words == Steps \cup {"STAT entry", "NLST entry"}

\* What is left of a plan is the end of it, with the first step perhaps half done.
EndOf(p, whole) ==
  /\ p \in Seq(Words) /\ Len(p) <= Len(whole)
  /\ \A i \in 1 .. Len(p) :
       LET c == whole[i + Len(whole) - Len(p)]
       IN p[i] = c \/ (i = 1 /\ c \in {"STAT", "NLST"} /\ p[i] = EntryStep(c))

PlanOK ==
  /\ call.name \in Queries => EndOf(plan, Plans[call.name])
  /\ call.name \notin Queries => plan \in {<<>>, <<"FEAT">>, <<"opened">>}
  /\ (plan = <<>>) = (call.res # "none" \/ call.name = "none")
  /\ call.name # "none" <=> opens > 0

\* What is known of a command goes with what is known of another, and with what has
\* been heard in this session.
HeardOK ==
  /\ refused # {} => ~IsNext("FEAT")
  /\ \A c \in refused \ DOMAIN over : has[c] = "no"
  /\ DOMAIN over = {} /\ has["MDTM"] = "no" => has["MDTM_set"] = "no"
  /\ DOMAIN over = {} /\ denials = 0 /\ call.name # "none" /\ ~IsNext("FEAT") =>
       \A c \in {"MFMT", "MFF"} : c \in srv.does => has[c] = "yes"
  /\ IsNext("STAT entry") /\ "STAT" \in srv.does => srv.param = "yes"

\* What the call has heard of the item.
CallOK ==
  /\ call.type = "A" => call.name \in {"FileSize", "SizeTime"}
  /\ (call.name = "SizeTime" /\ call.type = "A" => "MLST" \notin srv.does) =>
       /\ call.size # Unknown => \E i \in seen : call.size = SizeAs(i, call.type)
       /\ call.mdtm # Unknown => \E i \in seen : call.mdtm = i.mtime
  /\ call.res = "ok" /\ call.name = "FileSize" => call.size # Unknown
  /\ call.res = "ok" /\ call.name = "ModTime" => call.mdtm # Unknown

\* How FTPUtime has got as far as it has.
Excused == denials > 0 \/ DOMAIN over # {} \/ \E i \in seen : i.kind = "none"

UtimeOK ==
  call.name = "Utime" /\ plan # <<>> =>
    \/ Excused
    \/ /\ ~call.denied
       /\ Len(plan) <= 3 /\ call.create => "MFF" \notin srv.does
       /\ Len(plan) <= 2 => "MFMT" \notin srv.does
       /\ Len(plan) <= 1 => "UTIME" \notin srv.does

IInv == /\ Types /\ PlanOK /\ HeardOK /\ CallOK /\ UtimeOK
        /\ LearntIsTrue /\ OverridesHold /\ ExistsRight /\ UtimeSets

------------------------------------------------------------------------------
(* The end of a plan *)

Outs  == {"ok", "refused", "unavailable", "passed"}

\* The call is at command c, or in the middle of finding out about it.
IsAt(c) == IsNext(c) \/ (c \in {"STAT", "NLST"} /\ IsNext(EntryStep(c)))

LEMMA PlansAre ==
  ASSUME NEW name \in Queries
  PROVE  /\ Plans[name] \in Seq(Words)
         /\ \A i \in 1 .. Len(Plans[name]) : Plans[name][i] \in Steps
<1>1. /\ <<"SIZE">> \in Seq(Words) /\ <<"MDTM">> \in Seq(Words)
      /\ <<"MLST", "SIZE", "MDTM">> \in Seq(Words)
      /\ <<"MDTM", "SIZE", "MLST", "STAT", "NLST">> \in Seq(Words)
      /\ <<"MLST", "CWD", "MDTM", "SIZE", "STAT", "NLST">> \in Seq(Words)
      /\ <<"MFF", "MFMT", "UTIME", "MDTM_set">> \in Seq(Words)
  BY DEF Words, Steps
<1>2. CASE name = "FileSize"
  BY <1>1, <1>2 DEF Plans, Steps
<1>3. CASE name = "ModTime"
  BY <1>1, <1>3 DEF Plans, Steps
<1>4. CASE name = "SizeTime"
  BY <1>1, <1>4 DEF Plans, Steps
<1>5. CASE name = "Exists"
  BY <1>1, <1>5 DEF Plans, Steps
<1>6. CASE name = "FileType"
  BY <1>1, <1>6 DEF Plans, Steps
<1>7. CASE name = "Utime"
  BY <1>1, <1>7 DEF Plans, Steps
<1> QED
  BY <1>2, <1>3, <1>4, <1>5, <1>6, <1>7 DEF Queries

LEMMA EndTail ==
  ASSUME NEW whole \in Seq(Words), NEW p, EndOf(p, whole), p # <<>>
  PROVE  /\ EndOf(Tail(p), whole)
         /\ Len(p) \in Nat /\ Len(p) >= 1 /\ Len(Tail(p)) = Len(p) - 1
         /\ Tail(p) = <<>> <=> Len(p) = 1
<1>1. p \in Seq(Words) /\ Len(p) \in Nat /\ Len(whole) \in Nat
  BY DEF EndOf
<1>2. Len(p) >= 1
  BY <1>1
<1>3. /\ Tail(p) \in Seq(Words) /\ Len(Tail(p)) = Len(p) - 1
      /\ \A i \in 1 .. Len(Tail(p)) : Tail(p)[i] = p[i + 1]
  BY <1>1, <1>2
<1>4. ASSUME NEW i \in 1 .. Len(Tail(p))
      PROVE  Tail(p)[i] = whole[i + Len(whole) - Len(Tail(p))]
  <2>1. i + 1 \in 1 .. Len(p) /\ i + 1 # 1
    BY <1>1, <1>3
  <2>2. i + Len(whole) - Len(Tail(p)) = (i + 1) + Len(whole) - Len(p)
    BY <1>1, <1>3
  <2> QED
    BY <1>3, <2>1, <2>2 DEF EndOf
<1>5. Len(Tail(p)) <= Len(whole)
  BY <1>1, <1>3 DEF EndOf
<1>6. Tail(p) = <<>> <=> Len(p) = 1
  <2>1. Tail(p) = <<>> <=> Len(Tail(p)) = 0
    BY <1>3, EmptySeq
  <2> QED
    BY <1>1, <1>3, <2>1
<1> QED
  BY <1>1, <1>2, <1>3, <1>4, <1>5, <1>6 DEF EndOf

\* Which commands come where.
LEMMA Where ==
  ASSUME NEW name \in Queries, EndOf(plan, Plans[name]), NEW c \in Steps, IsAt(c)
  PROVE  /\ plan \in Seq(Words) /\ Len(plan) \in Nat /\ Len(plan) >= 1
         /\ Len(plan) <= Len(Plans[name])
         /\ c = Plans[name][1 + Len(Plans[name]) - Len(plan)]
<1> DEFINE d == Plans[name][1 + Len(Plans[name]) - Len(plan)]
<1>1. plan # <<>> /\ Plans[name] \in Seq(Words) /\ Len(Plans[name]) \in Nat
  BY PlansAre DEF IsAt, IsNext
<1>2. plan \in Seq(Words) /\ Len(plan) \in Nat /\ Len(plan) <= Len(Plans[name])
  BY <1>1 DEF EndOf
<1>3. Len(plan) >= 1 /\ Head(plan) = plan[1]
  BY <1>1, <1>2
<1>4. Head(plan) = d \/ (d \in {"STAT", "NLST"} /\ Head(plan) = EntryStep(d))
  BY <1>1, <1>2, <1>3 DEF EndOf
<1>5. d \in Steps
  <2>1. 1 + Len(Plans[name]) - Len(plan) \in 1 .. Len(Plans[name])
    BY <1>1, <1>2, <1>3
  <2> QED
    BY <2>1, PlansAre
<1>6. c = d
  <2>1. Head(plan) = c \/ (c \in {"STAT", "NLST"} /\ Head(plan) = EntryStep(c))
    BY DEF IsAt, IsNext
  <2> HIDE DEF d
  <2>2. CASE d = "STAT"
    BY <1>4, <2>1, <2>2 DEF EntryStep, Steps
  <2>3. CASE d = "NLST"
    BY <1>4, <2>1, <2>3 DEF EntryStep, Steps
  <2>4. CASE d \notin {"STAT", "NLST"}
    BY <1>4, <1>5, <2>1, <2>4 DEF EntryStep, Steps
  <2> QED
    BY <2>2, <2>3, <2>4
<1> QED
  BY <1>2, <1>3, <1>6

\* Command c comes when n are left of what the call tries.
Left(name, c, n) ==
  /\ name = "FileSize" =>
       (c = "SIZE" /\ n = 1)
  /\ name = "ModTime" =>
       (c = "MDTM" /\ n = 1)
  /\ name = "SizeTime" =>
       (c = "MLST" /\ n = 3) \/ (c = "SIZE" /\ n = 2) \/ (c = "MDTM" /\ n = 1)
  /\ name = "Exists" =>
       (c = "MDTM" /\ n = 5) \/ (c = "SIZE" /\ n = 4) \/ (c = "MLST" /\ n = 3) \/ (c = "STAT" /\ n = 2) \/ (c = "NLST" /\ n = 1)
  /\ name = "FileType" =>
       (c = "MLST" /\ n = 6) \/ (c = "CWD" /\ n = 5) \/ (c = "MDTM" /\ n = 4) \/ (c = "SIZE" /\ n = 3) \/ (c = "STAT" /\ n = 2) \/ (c = "NLST" /\ n = 1)
  /\ name = "Utime" =>
       (c = "MFF" /\ n = 4) \/ (c = "MFMT" /\ n = 3) \/ (c = "UTIME" /\ n = 2) \/ (c = "MDTM_set" /\ n = 1)

LEMMA WhereInCall ==
  ASSUME NEW name \in Queries, EndOf(plan, Plans[name]), NEW c \in Steps, IsAt(c)
  PROVE  /\ Len(plan) \in Nat
         /\ Left(name, c, Len(plan))
<1> DEFINE n == Len(plan)
<1>1. n \in Nat /\ n >= 1 /\ n <= Len(Plans[name])
      /\ c = Plans[name][1 + Len(Plans[name]) - n]
  BY Where
<1> HIDE DEF n
<1>2. ASSUME name = "FileSize" PROVE Left(name, c, n)
  <2>1. Plans[name] = <<"SIZE">>
    BY <1>2 DEF Plans
  <2> QED
    BY <1>1, <1>2, <2>1 DEF Left
<1>3. ASSUME name = "ModTime" PROVE Left(name, c, n)
  <2>1. Plans[name] = <<"MDTM">>
    BY <1>3 DEF Plans
  <2> QED
    BY <1>1, <1>3, <2>1 DEF Left
<1>4. ASSUME name = "SizeTime" PROVE Left(name, c, n)
  <2>1. Plans[name] = <<"MLST", "SIZE", "MDTM">>
    BY <1>4 DEF Plans
  <2>2. n = 3 \/ n = 2 \/ n = 1
    BY <1>1, <2>1
  <2> QED
    BY <1>1, <1>4, <2>1, <2>2 DEF Left
<1>5. ASSUME name = "Exists" PROVE Left(name, c, n)
  <2>1. Plans[name] = <<"MDTM", "SIZE", "MLST", "STAT", "NLST">>
    BY <1>5 DEF Plans
  <2>2. n = 5 \/ n = 4 \/ n = 3 \/ n = 2 \/ n = 1
    BY <1>1, <2>1
  <2> QED
    BY <1>1, <1>5, <2>1, <2>2 DEF Left
<1>6. ASSUME name = "FileType" PROVE Left(name, c, n)
  <2>1. Plans[name] = <<"MLST", "CWD", "MDTM", "SIZE", "STAT", "NLST">>
    BY <1>6 DEF Plans
  <2>2. n = 6 \/ n = 5 \/ n = 4 \/ n = 3 \/ n = 2 \/ n = 1
    BY <1>1, <2>1
  <2> QED
    BY <1>1, <1>6, <2>1, <2>2 DEF Left
<1>7. ASSUME name = "Utime" PROVE Left(name, c, n)
  <2>1. Plans[name] = <<"MFF", "MFMT", "UTIME", "MDTM_set">>
    BY <1>7 DEF Plans
  <2>2. n = 4 \/ n = 3 \/ n = 2 \/ n = 1
    BY <1>1, <2>1
  <2> QED
    BY <1>1, <1>7, <2>1, <2>2 DEF Left
<1>8. Left(name, c, n)
  BY <1>2, <1>3, <1>4, <1>5, <1>6, <1>7 DEF Queries
<1> QED
  BY <1>1, <1>8 DEF n

\* Half of a step done, or the whole step open again, is still an end of the plan.
LEMMA EndReplaced ==
  ASSUME NEW name \in Queries, EndOf(plan, Plans[name]), NEW c \in {"STAT", "NLST"}, IsAt(c),
         NEW d \in {c, EntryStep(c)}
  PROVE  /\ EndOf(<<d>> \o Tail(plan), Plans[name])
         /\ <<d>> \o Tail(plan) # <<>> /\ Head(<<d>> \o Tail(plan)) = d
         /\ Len(<<d>> \o Tail(plan)) = Len(plan)
<1> DEFINE P == Plans[name]
           q == <<d>> \o Tail(plan)
<1>1. P \in Seq(Words) /\ c \in Steps
  BY PlansAre DEF Steps
<1>2. /\ plan \in Seq(Words) /\ Len(plan) \in Nat /\ Len(plan) >= 1 /\ Len(plan) <= Len(P)
      /\ c = P[1 + Len(P) - Len(plan)]
  BY <1>1, Where
<1>3. d \in Words
  BY DEF EntryStep, Words, Steps
<1>4. EndOf(Tail(plan), P) /\ Len(Tail(plan)) = Len(plan) - 1 /\ Tail(plan) \in Seq(Words)
  <2>1. plan # <<>>
    BY <1>2
  <2> QED
    BY <1>1, <2>1, EndTail DEF EndOf
<1>5. /\ q \in Seq(Words) /\ Len(q) = Len(plan) /\ q[1] = d
      /\ \A i \in 2 .. Len(plan) : q[i] = Tail(plan)[i - 1]
  BY <1>2, <1>3, <1>4
<1>6. \A i \in 2 .. Len(plan) : Tail(plan)[i - 1] = plan[i]
  BY <1>2
<1> HIDE DEF P, q
<1>7. ASSUME NEW i \in 1 .. Len(q)
      PROVE  LET e == P[i + Len(P) - Len(q)]
             IN q[i] = e \/ (i = 1 /\ e \in {"STAT", "NLST"} /\ q[i] = EntryStep(e))
  <2>1. CASE i = 1
    BY <1>2, <1>5, <2>1
  <2>2. CASE i # 1
    <3>1. i \in 2 .. Len(plan) /\ i \in 1 .. Len(plan)
      BY <2>2, <1>5, <1>2
    <3>2. plan[i] = P[i + Len(P) - Len(plan)]
      BY <3>1, <2>2 DEF EndOf, P
    <3> QED
      BY <1>5, <1>6, <3>1, <3>2
  <2> QED
    BY <2>1, <2>2
<1>8. EndOf(q, P)
  BY <1>2, <1>5, <1>7 DEF EndOf
<1>9. q # <<>> /\ Head(q) = q[1]
  BY <1>2, <1>5
<1> QED
  BY <1>5, <1>8, <1>9 DEF q, P

------------------------------------------------------------------------------
(* What becomes of a call *)

\* Only the last command of a call has nothing after it.
LastAttempt == [FileSize |-> "SIZE", ModTime |-> "MDTM", SizeTime |-> "MDTM", Exists |-> "NLST",
         FileType |-> "NLST", Utime |-> "MDTM_set"]

LEMMA LeftCounts ==
  ASSUME NEW name \in Queries, NEW c \in Steps, NEW n \in Nat, Left(name, c, n)
  PROVE  n >= 1 /\ (c # LastAttempt[name] => n >= 2)
BY DEF Queries, Steps, Left, LastAttempt

\* The parts of the invariant that place a call under way at one of its commands.
LEMMA CallPlace ==
  ASSUME Types, PlanOK, NEW c \in Steps, IsAt(c)
  PROVE  /\ call.name \in Queries /\ EndOf(plan, Plans[call.name])
         /\ plan # <<>> /\ call.res = "none"
         /\ Len(plan) \in Nat /\ Left(call.name, c, Len(plan))
         /\ Len(plan) >= 1 /\ (c # LastAttempt[call.name] => Len(plan) >= 2)
         /\ ~IsNext("FEAT") /\ (c # "STAT" => ~IsNext("STAT entry"))
<1>1. plan # <<>> /\ (Head(plan) = c \/ (c \in {"STAT", "NLST"} /\ Head(plan) = EntryStep(c)))
  BY DEF IsAt, IsNext
<1>2. call.name \in Queries
  <2>1. Head(plan) # "FEAT" /\ Head(plan) # "opened"
    BY <1>1 DEF EntryStep, Steps
  <2>2. plan \notin {<<>>, <<"FEAT">>, <<"opened">>}
    BY <1>1, <2>1
  <2> QED
    BY <2>2 DEF PlanOK
<1>3. EndOf(plan, Plans[call.name]) /\ call.res = "none"
  BY <1>1, <1>2 DEF PlanOK
<1>4. Len(plan) \in Nat /\ Left(call.name, c, Len(plan))
  BY <1>2, <1>3, WhereInCall
<1>5. Len(plan) >= 1 /\ (c # LastAttempt[call.name] => Len(plan) >= 2)
  BY <1>2, <1>4, LeftCounts
<1>6. Head(plan) # "FEAT" /\ (c # "STAT" => Head(plan) # "STAT entry")
  BY <1>1 DEF EntryStep, Steps
<1> QED
  BY <1>1, <1>2, <1>3, <1>4, <1>5, <1>6 DEF IsNext

\* What `a' says of the plan and the result: the plan goes on by one command exactly
\* when there is no result.
GoesOn(a) ==
  /\ a.res \in Results
  /\ \/ a.plan = Tail(plan) /\ a.res = "none" /\ Len(plan) >= 2
     \/ a.plan = <<>> /\ a.res # "none"

\* What a result says of how the last command came out.
ResultOf(res, c, out) ==
  /\ res = "ok" => out = "ok"
  /\ res = "yes" => call.name = "Exists" /\ out = "ok"
  /\ res = "no" => call.name \in {"Exists", "FileType"} /\ out = "refused"
                   /\ c \in {"MDTM", "MLST", "STAT", "NLST"}
                   /\ (c = "MLST" => call.name = "Exists")
  /\ call.name = "FileType" /\ res \in {"file", "dir"} =>
       out = "ok" /\ ((c = "CWD" /\ res = "dir") \/ (c = "MLST" /\ res = item.kind))

\* What FTPUtime goes on from, and what it gives up on.
UtimeAfter(res, c, out) ==
  call.name = "Utime" =>
    /\ res = "none" => \/ c = "MFF" /\ out # "ok"
                       \/ c = "MFMT" /\ out \notin {"ok", "refused"}
                       \/ c = "UTIME" /\ (out = "unavailable" \/ (out = "passed" /\ ~call.denied))
    /\ res \in {"failed", "unavailable"} =>
         \/ c \in {"MFMT", "UTIME"} /\ out = "refused"
         \/ c = "UTIME" /\ out = "passed" /\ call.denied
         \/ c = "MDTM_set" /\ out # "ok"

LEMMA ExistsGives ==
  ASSUME NEW c \in {"MDTM", "SIZE", "MLST", "STAT", "NLST"}, NEW out \in Outs, Len(plan) \in Nat,
         c # "NLST" => Len(plan) >= 2, Len(plan) >= 1
  PROVE  LET a == AfterExists(c, out)
         IN /\ \/ a.plan = Tail(plan) /\ a.res = "none" /\ Len(plan) >= 2
               \/ a.plan = <<>> /\ a.res \in {"yes", "no", "cannotTell"}
            /\ a.res = "yes" => out = "ok"
            /\ a.res = "no" => out = "refused" /\ c # "SIZE"
BY DEF AfterExists, Tries, Ends, Outs

LEMMA AfterGives ==
  ASSUME Types, PlanOK, NEW c \in Steps, IsAt(c), NEW out \in Outs,
         out = "ok" /\ c = "MLST" => item.kind # "none"
  PROVE  LET a == After(c, out)
         IN GoesOn(a) /\ ResultOf(a.res, c, out) /\ UtimeAfter(a.res, c, out)
<1> DEFINE a == After(c, out)
<1>1. /\ call.name \in Queries /\ Len(plan) \in Nat /\ Left(call.name, c, Len(plan))
      /\ Len(plan) >= 1 /\ (c # LastAttempt[call.name] => Len(plan) >= 2)
  BY CallPlace
<1>2. item.kind \in {"none", "file", "dir"}
  BY DEF Types, Item
<1>3. ASSUME call.name \in {"FileSize", "ModTime"}
      PROVE  GoesOn(a) /\ ResultOf(a.res, c, out) /\ UtimeAfter(a.res, c, out)
  <2>1. a.plan = <<>> /\ a.res = out
    BY <1>3 DEF After, Ends
  <2> HIDE DEF a
  <2> QED
    BY <1>3, <2>1 DEF GoesOn, Results, ResultOf, UtimeAfter, Outs
<1>4. ASSUME call.name = "SizeTime"
      PROVE  GoesOn(a) /\ ResultOf(a.res, c, out) /\ UtimeAfter(a.res, c, out)
  <2>1. c \in {"MLST", "SIZE", "MDTM"} /\ (c # "MDTM" => Len(plan) >= 2)
    BY <1>1, <1>4 DEF Left, LastAttempt
  <2>2. \/ a.plan = Tail(plan) /\ a.res = "none" /\ Len(plan) >= 2
        \/ a.plan = <<>> /\ a.res = out
    BY <1>4, <2>1 DEF After, Ends, Tries
  <2> HIDE DEF a
  <2> QED
    BY <1>4, <2>2 DEF GoesOn, Results, ResultOf, UtimeAfter, Outs
<1>5. ASSUME call.name = "Exists"
      PROVE  GoesOn(a) /\ ResultOf(a.res, c, out) /\ UtimeAfter(a.res, c, out)
  <2>1. c \in {"MDTM", "SIZE", "MLST", "STAT", "NLST"} /\ (c # "NLST" => Len(plan) >= 2)
    BY <1>1, <1>5 DEF Left, LastAttempt
  <2>2. a = AfterExists(c, out)
    BY <1>5 DEF After
  <2>3. /\ \/ a.plan = Tail(plan) /\ a.res = "none" /\ Len(plan) >= 2
           \/ a.plan = <<>> /\ a.res \in {"yes", "no", "cannotTell"}
        /\ a.res = "yes" => out = "ok"
        /\ a.res = "no" => out = "refused" /\ c # "SIZE"
    BY <1>1, <2>1, <2>2, ExistsGives
  <2> HIDE DEF a
  <2> QED
    BY <1>5, <2>1, <2>3 DEF GoesOn, Results, ResultOf, UtimeAfter
<1>6. ASSUME call.name = "FileType"
      PROVE  GoesOn(a) /\ ResultOf(a.res, c, out) /\ UtimeAfter(a.res, c, out)
  <2>1. a = AfterType(c, out)
    BY <1>6 DEF After
  <2>2. ASSUME c \in {"MLST", "CWD"}
        PROVE  GoesOn(a) /\ ResultOf(a.res, c, out) /\ UtimeAfter(a.res, c, out)
    <3>1. Len(plan) >= 2
      BY <1>1, <1>6, <2>2 DEF LastAttempt
    <3>2. \/ out # "ok" /\ a.plan = Tail(plan) /\ a.res = "none"
          \/ out = "ok" /\ a.plan = <<>> /\ a.res = IF c = "CWD" THEN "dir" ELSE item.kind
      BY <2>1, <2>2 DEF AfterType, Ends, Tries
    <3> HIDE DEF a
    <3> QED
      BY <1>1, <1>2, <1>6, <2>2, <3>1, <3>2 DEF GoesOn, Results, ResultOf, UtimeAfter
  <2>3. ASSUME c \notin {"MLST", "CWD"}
        PROVE  GoesOn(a) /\ ResultOf(a.res, c, out) /\ UtimeAfter(a.res, c, out)
    <3> DEFINE e == AfterExists(c, out)
    <3>1. c \in {"MDTM", "SIZE", "STAT", "NLST"} /\ (c # "NLST" => Len(plan) >= 2)
      BY <1>1, <1>6, <2>3 DEF Left, LastAttempt
    <3>2. /\ \/ e.plan = Tail(plan) /\ e.res = "none" /\ Len(plan) >= 2
             \/ e.plan = <<>> /\ e.res \in {"yes", "no", "cannotTell"}
          /\ e.res = "yes" => out = "ok"
          /\ e.res = "no" => out = "refused" /\ c # "SIZE"
      BY <1>1, <3>1, ExistsGives
    <3>3. \/ a = e /\ e.res \in {"none", "no"}
          \/ a.plan = <<>> /\ a.res = "exists" /\ e.res \notin {"none", "no"}
      BY <2>1, <2>3 DEF AfterType, Ends
    <3> HIDE DEF a, e
    <3> QED
      BY <1>6, <3>1, <3>2, <3>3 DEF GoesOn, Results, ResultOf, UtimeAfter
  <2> QED
    BY <2>2, <2>3
<1>7. ASSUME call.name = "Utime"
      PROVE  GoesOn(a) /\ ResultOf(a.res, c, out) /\ UtimeAfter(a.res, c, out)
  <2>1. c \in {"MFF", "MFMT", "UTIME", "MDTM_set"} /\ (c # "MDTM_set" => Len(plan) >= 2)
    BY <1>1, <1>7 DEF Left, LastAttempt
  <2>2. a = AfterUtime(c, out)
    BY <1>7 DEF After
  <2>3. \/ a.plan = Tail(plan) /\ a.res = "none" /\ c # "MDTM_set" /\ out # "ok"
           /\ (out = "refused" => c = "MFF") /\ ~(out = "passed" /\ c = "UTIME" /\ call.denied)
        \/ a.plan = <<>> /\ a.res = "ok" /\ out = "ok"
        \/ a.plan = <<>> /\ a.res = "unavailable" /\ c = "MDTM_set" /\ out # "ok"
        \/ a.plan = <<>> /\ a.res = "failed" /\ c \notin {"MDTM_set", "MFF"} /\ out = "refused"
        \/ a.plan = <<>> /\ a.res = "failed" /\ c = "UTIME" /\ out = "passed" /\ call.denied
    BY <2>1, <2>2 DEF AfterUtime, Ends, Tries, Outs
  <2> HIDE DEF a
  <2>4. GoesOn(a)
    BY <2>1, <2>3 DEF GoesOn, Results
  <2>5. ResultOf(a.res, c, out)
    BY <1>7, <2>3 DEF ResultOf
  <2>6. UtimeAfter(a.res, c, out)
    BY <2>1, <2>3 DEF UtimeAfter, Outs
  <2> QED
    BY <2>4, <2>5, <2>6
<1> QED
  BY <1>1, <1>3, <1>4, <1>5, <1>6, <1>7 DEF Queries

------------------------------------------------------------------------------
(* A command of a call, whichever it is *)

LEMMA NextIsWhole ==
  ASSUME NEW name \in Queries, EndOf(plan, Plans[name]), plan # <<>>, Tail(plan) # <<>>
  PROVE  Head(Tail(plan)) \in Steps
<1> DEFINE P == Plans[name]
           t == Tail(plan)
<1>1. /\ P \in Seq(Words) /\ Len(P) \in Nat /\ \A i \in 1 .. Len(P) : P[i] \in Steps
      /\ plan \in Seq(Words) /\ Len(plan) \in Nat /\ Len(plan) <= Len(P)
  <2>1. P \in Seq(Words) /\ \A i \in 1 .. Len(P) : P[i] \in Steps
    BY PlansAre
  <2>2. plan \in Seq(Words) /\ Len(plan) <= Len(P)
    BY DEF EndOf
  <2> QED
    BY <2>1, <2>2
<1>2. t \in Seq(Words) /\ Len(t) \in Nat /\ Len(t) = Len(plan) - 1 /\ Len(t) >= 1
  <2>1. t \in Seq(Words) /\ Len(t) \in Nat /\ Len(t) = Len(plan) - 1
    BY <1>1, EndTail DEF EndOf
  <2>2. Len(t) # 0
    BY <2>1, EmptySeq
  <2> QED
    BY <2>1, <2>2
<1>3. t[1] = plan[2] /\ Head(t) = t[1]
  BY <1>1, <1>2
<1>4. plan[2] = P[2 + Len(P) - Len(plan)]
  <2>1. 2 \in 1 .. Len(plan)
    BY <1>1, <1>2
  <2> QED
    BY <2>1 DEF EndOf
<1>5. 2 + Len(P) - Len(plan) \in 1 .. Len(P)
  BY <1>1, <1>2
<1> QED
  BY <1>1, <1>3, <1>4, <1>5

\* What the reply changes in the call: the size and the time are the item's.
Answers(c, out) ==
  /\ plan' = After(c, out).plan /\ call'.res = After(c, out).res
  /\ call'.name = call.name /\ call'.type = call.type
  /\ call'.want = call.want /\ call'.create = call.create
  /\ call'.denied => call.denied \/ out = "refused"
  /\ call'.size # call.size =>
       out = "ok" /\ (\/ c = "SIZE" /\ call'.size = SizeAs(item, call.type)
                      \/ c = "MLST" /\ call'.size = item.bytes)
  /\ call'.mdtm # call.mdtm => out = "ok" /\ c \in {"MDTM", "MLST"} /\ call'.mdtm = item.mtime
  /\ out = "ok" /\ c = "SIZE" => call'.size # Unknown
  /\ out = "ok" /\ c = "MDTM" => call'.mdtm # Unknown
  /\ srv' = srv /\ over' = over /\ opens' = opens
  /\ seen \subseteq seen' /\ denials <= denials'
  /\ has'["MFMT"] = has["MFMT"] /\ has'["MFF"] = has["MFF"] /\ has'["NLST"] \in {has["NLST"], "no"}

\* What the reply says of the item and of the server.
Means(c, out) ==
  /\ out = "ok" =>
       /\ c \in {"MDTM", "SIZE", "MLST"} => item.kind # "none"
       /\ c = "MLST" => c \in srv.does
       /\ c = "CWD" => item.kind = "dir"
       /\ c \in {"STAT", "NLST"} => item.kind # "none" \/ TakenOnTrust'
       /\ c \in {"MFF", "MFMT", "UTIME", "MDTM_set"} => item'.mtime = call.want
  /\ out = "refused" =>
       /\ c \in {"MDTM", "MLST", "STAT", "NLST"} =>
            item.kind = "none" \/ Overlooked(item) \/ denials' > 0 \/ TakenOnTrust'
       /\ c \in {"MFF", "MFMT", "UTIME"} => Excused'
  /\ out \in {"passed", "unavailable"} =>
       /\ c = "MFF" /\ call.create => Excused' \/ c \notin srv.does
       /\ c \in {"MFMT", "UTIME"} => Excused' \/ c \notin srv.does
  /\ out # "ok" /\ c = "MDTM_set" => Excused' \/ (c \in srv.does => has'[c] = "no")

\* What is held of the server after it.
HasOK ==
  /\ \A c \in refused \ DOMAIN over : has[c] = "no"
  /\ DOMAIN over = {} /\ has["MDTM"] = "no" => has["MDTM_set"] = "no"

LEMMA AnsweredPlan ==
  ASSUME Types, PlanOK, NEW c \in Steps, IsAt(c), NEW a, GoesOn(a), plan' = a.plan,
         call'.res = a.res, call'.name = call.name, opens' = opens
  PROVE  /\ PlanOK' /\ ~IsNext("FEAT")' /\ ~IsNext("STAT entry")'
         /\ plan' # <<>> => Len(plan') = Len(plan) - 1
         /\ call'.res = "none" <=> plan' # <<>>
<1>1. /\ call.name \in Queries /\ EndOf(plan, Plans[call.name]) /\ plan # <<>>
      /\ Plans[call.name] \in Seq(Words) /\ Len(plan) \in Nat
  BY CallPlace, PlansAre
<1>2. CASE a.plan = Tail(plan) /\ a.res = "none" /\ Len(plan) >= 2
  <2>1. EndOf(Tail(plan), Plans[call.name]) /\ Len(Tail(plan)) = Len(plan) - 1 /\ Tail(plan) # <<>>
    <3>1. /\ EndOf(Tail(plan), Plans[call.name]) /\ Len(Tail(plan)) = Len(plan) - 1
          /\ Tail(plan) = <<>> <=> Len(plan) = 1
      BY <1>1, EndTail
    <3>2. ASSUME NEW n \in Nat, n >= 2 PROVE n # 1
      BY <3>2
    <3>3. Len(plan) # 1
      BY <1>1, <1>2, <3>2
    <3> QED
      BY <3>1, <3>3
  <2>2. Head(Tail(plan)) \in Steps
    BY <1>1, <2>1, NextIsWhole
  <2>3. Head(Tail(plan)) # "FEAT" /\ Head(Tail(plan)) # "STAT entry"
    BY <2>2 DEF Steps
  <2>4. PlanOK'
    BY <1>1, <1>2, <2>1 DEF PlanOK, Queries
  <2> QED
    BY <1>2, <2>1, <2>3, <2>4 DEF IsNext
<1>3. CASE a.plan = <<>> /\ a.res # "none"
  <2>1. EndOf(<<>>, Plans[call.name])
    BY <1>1 DEF EndOf
  <2>2. PlanOK'
    BY <1>1, <1>3, <2>1 DEF PlanOK, Queries
  <2> QED
    BY <1>3, <2>2 DEF IsNext
<1> QED
  BY <1>2, <1>3 DEF GoesOn

LEMMA AnsweredInv ==
  ASSUME IInv, NEW c \in Steps, IsAt(c), NEW out \in Outs, Answers(c, out), Means(c, out),
         Types', LearntIsTrue', HasOK'
  PROVE  IInv'
<1> DEFINE a == After(c, out)
<1>1. Types /\ PlanOK /\ HeardOK /\ CallOK /\ UtimeOK
  BY DEF IInv
<1>2. /\ call.name \in Queries /\ plan # <<>> /\ call.res = "none" /\ ~IsNext("FEAT")
      /\ Len(plan) \in Nat /\ Left(call.name, c, Len(plan))
  BY <1>1, CallPlace
<1>3. out = "ok" /\ c = "MLST" => item.kind # "none"
  BY DEF Means
<1>4. GoesOn(a) /\ ResultOf(a.res, c, out) /\ UtimeAfter(a.res, c, out)
  BY <1>1, <1>3, AfterGives
<1> HIDE DEF a
<1>5. /\ plan' = a.plan /\ call'.res = a.res /\ call'.name = call.name /\ call'.type = call.type
      /\ call'.want = call.want /\ call'.create = call.create
      /\ srv' = srv /\ over' = over /\ opens' = opens
      /\ seen \subseteq seen' /\ has'["MFMT"] = has["MFMT"] /\ has'["MFF"] = has["MFF"]
  BY DEF Answers, a
<1>6. /\ PlanOK' /\ ~IsNext("FEAT")' /\ ~IsNext("STAT entry")'
      /\ plan' # <<>> => Len(plan') = Len(plan) - 1
      /\ call'.res = "none" <=> plan' # <<>>
  BY <1>1, <1>4, <1>5, AnsweredPlan
<1>7. HeardOK'
  <2>1. denials' = 0 => denials = 0
    BY <1>1, ConstantsAssumption DEF Answers, Types, ConstantsAssumption
  <2>2. call.name # "none"
    BY <1>2 DEF Queries
  <2>3. \A c1 \in {"MFMT", "MFF"} : has'[c1] = has[c1]
    BY <1>5
  <2> QED
    BY <1>1, <1>2, <1>5, <1>6, <2>1, <2>2, <2>3 DEF HeardOK, HasOK
<1>8. /\ item \in seen /\ item \in seen' /\ item' \in seen'
      /\ denials \in Nat /\ denials' \in Nat /\ item \in Item
      /\ ConstantsAssumption
  BY <1>1, <1>5, ConstantsAssumption DEF Types, ConstantsAssumption
<1>9. Excused => Excused'
  BY <1>5, <1>8 DEF Excused, Answers
<1>10. CallOK'
  <2>1. call'.type = "A" => call'.name \in {"FileSize", "SizeTime"}
    BY <1>1, <1>5 DEF CallOK
  <2>2. ASSUME call'.name = "SizeTime" /\ call'.type = "A" => "MLST" \notin srv'.does,
               call'.size # Unknown
        PROVE  \E i \in seen' : call'.size = SizeAs(i, call'.type)
    <3>1. CASE call'.size = call.size
      BY <1>1, <1>5, <2>2, <3>1 DEF CallOK
    <3>2. CASE call'.size = SizeAs(item, call.type)
      BY <1>5, <1>8, <3>2
    <3>3. CASE out = "ok" /\ c = "MLST" /\ call'.size = item.bytes
      <4>1. call.type # "A"
        BY <1>1, <1>2, <1>5, <2>2, <3>3 DEF Means, CallOK, Left
      <4> QED
        BY <1>5, <1>8, <3>3, <4>1 DEF SizeAs
    <3> QED
      BY <3>1, <3>2, <3>3 DEF Answers
  <2>3. ASSUME call'.name = "SizeTime" /\ call'.type = "A" => "MLST" \notin srv'.does,
               call'.mdtm # Unknown
        PROVE  \E i \in seen' : call'.mdtm = i.mtime
    <3>1. CASE call'.mdtm = call.mdtm
      BY <1>1, <1>5, <2>3, <3>1 DEF CallOK
    <3>2. CASE call'.mdtm = item.mtime
      BY <1>8, <3>2
    <3> QED
      BY <3>1, <3>2 DEF Answers
  <2>4. call'.res = "ok" /\ call'.name = "FileSize" => call'.size # Unknown
    BY <1>2, <1>4, <1>5 DEF ResultOf, Answers, Left
  <2>5. call'.res = "ok" /\ call'.name = "ModTime" => call'.mdtm # Unknown
    BY <1>2, <1>4, <1>5 DEF ResultOf, Answers, Left
  <2> QED
    BY <2>1, <2>2, <2>3, <2>4, <2>5 DEF CallOK
<1>11. ExistsRight'
  <2>1. call'.res = "yes" => TakenOnTrust' \/ \E i \in seen' : i.kind # "none"
    <3>1. ASSUME call'.res = "yes"
          PROVE  TakenOnTrust' \/ item.kind # "none"
      <4>1. out = "ok" /\ call.name = "Exists"
        BY <1>4, <1>5, <3>1 DEF ResultOf
      <4>2. c \in {"MDTM", "SIZE", "MLST", "STAT", "NLST"}
        BY <1>2, <4>1 DEF Left
      <4> QED
        BY <4>1, <4>2 DEF Means
    <3> QED
      BY <1>8, <3>1
  <2>2. call'.res = "no" =>
          TakenOnTrust' \/ denials' > 0 \/ \E i \in seen' : i.kind = "none" \/ Overlooked(i)'
    <3>1. ASSUME call'.res = "no"
          PROVE  TakenOnTrust' \/ denials' > 0 \/ item.kind = "none" \/ Overlooked(item)
      BY <1>4, <1>5, <3>1 DEF ResultOf, Means
    <3>2. \A i : Overlooked(i)' = Overlooked(i)
      BY <1>5 DEF Overlooked
    <3> QED
      BY <1>8, <3>1, <3>2
  <2>3. ASSUME call'.name = "FileType", call'.res \in {"file", "dir"}
        PROVE  \E i \in seen' : i.kind = call'.res
    <3>1. call'.res = item.kind
      BY <1>4, <1>5, <2>3 DEF ResultOf, Means
    <3> QED
      BY <1>8, <3>1
  <2> QED
    BY <2>1, <2>2, <2>3 DEF ExistsRight
<1>12. UtimeOK'
  <2> SUFFICES ASSUME call'.name = "Utime", plan' # <<>>, ~Excused'
               PROVE  /\ ~call'.denied
                      /\ Len(plan') <= 3 /\ call'.create => "MFF" \notin srv'.does
                      /\ Len(plan') <= 2 => "MFMT" \notin srv'.does
                      /\ Len(plan') <= 1 => "UTIME" \notin srv'.does
    BY DEF UtimeOK
  <2>1. /\ call.name = "Utime" /\ ~Excused /\ a.res = "none" /\ Len(plan') = Len(plan) - 1
        /\ srv' = srv /\ call'.create = call.create
    BY <1>5, <1>6, <1>9
  <2>2. /\ ~call.denied
        /\ Len(plan) <= 3 /\ call.create => "MFF" \notin srv.does
        /\ Len(plan) <= 2 => "MFMT" \notin srv.does
        /\ Len(plan) <= 1 => "UTIME" \notin srv.does
    BY <1>1, <1>2, <2>1 DEF UtimeOK
  <2>3. \/ c = "MFF" /\ Len(plan) = 4
        \/ c = "MFMT" /\ Len(plan) = 3
        \/ c = "UTIME" /\ Len(plan) = 2
    BY <1>2, <1>4, <2>1 DEF Left, UtimeAfter
  <2>4. out # "refused" /\ out # "ok"
    BY <1>4, <2>1, <2>3 DEF UtimeAfter, Means
  <2>5. ~call'.denied
    BY <2>2, <2>4 DEF Answers
  <2>6. out \in {"passed", "unavailable"}
    BY <2>4 DEF Outs
  <2>7. CASE c = "MFF" /\ Len(plan) = 4
    <3>1. call.create => "MFF" \notin srv.does
      BY <2>6, <2>7 DEF Means
    <3> QED
      BY <2>1, <2>5, <2>7, <3>1
  <2>8. CASE c = "MFMT" /\ Len(plan) = 3
    <3>1. "MFMT" \notin srv.does
      BY <2>6, <2>8 DEF Means
    <3>2. call.create => "MFF" \notin srv.does
      BY <2>2, <2>8
    <3> QED
      BY <2>1, <2>5, <2>8, <3>1, <3>2
  <2>9. CASE c = "UTIME" /\ Len(plan) = 2
    <3>1. "UTIME" \notin srv.does
      BY <2>6, <2>9 DEF Means
    <3>2. "MFMT" \notin srv.does /\ (call.create => "MFF" \notin srv.does)
      BY <2>2, <2>9
    <3> QED
      BY <2>1, <2>5, <3>1, <3>2
  <2> QED
    BY <2>3, <2>7, <2>8, <2>9
<1>13. UtimeSets'
  <2> SUFFICES ASSUME call'.name = "Utime"
               PROVE  /\ call'.res = "ok" => \E i \in seen' : i.mtime = call'.want
                      /\ call'.res \in {"failed", "unavailable"} /\ ~Excused' =>
                           /\ "UTIME" \notin srv'.does /\ "MFMT" \notin srv'.does
                           /\ call'.create => "MFF" \notin srv'.does
                           /\ "MDTM_set" \in srv'.does => has'["MDTM_set"] = "no"
    BY DEF UtimeSets, Excused
  <2>1. c \in {"MFF", "MFMT", "UTIME", "MDTM_set"}
    BY <1>2, <1>5 DEF Left
  <2>2. call'.res = "ok" => item'.mtime = call'.want
    BY <1>4, <1>5, <2>1 DEF ResultOf, Means
  <2>3. ASSUME call'.res \in {"failed", "unavailable"}, ~Excused'
        PROVE  /\ "UTIME" \notin srv.does /\ "MFMT" \notin srv.does
               /\ call'.create => "MFF" \notin srv.does
               /\ "MDTM_set" \in srv.does => has'["MDTM_set"] = "no"
    <3>1. /\ ~call.denied /\ call'.create = call.create
          /\ Len(plan) <= 3 /\ call.create => "MFF" \notin srv.does
          /\ Len(plan) <= 2 => "MFMT" \notin srv.does
          /\ Len(plan) <= 1 => "UTIME" \notin srv.does
      BY <1>1, <1>2, <1>5, <1>9, <2>3 DEF UtimeOK
    <3>2. c = "MDTM_set" /\ out # "ok"
      BY <1>4, <1>5, <2>3, <3>1 DEF UtimeAfter, Means
    <3>3. Len(plan) = 1
      BY <1>2, <1>5, <3>2 DEF Left
    <3>4. "MDTM_set" \in srv.does => has'["MDTM_set"] = "no"
      BY <2>3, <3>2 DEF Means
    <3> QED
      BY <3>1, <3>3, <3>4
  <2> QED
    BY <1>5, <1>8, <2>2, <2>3
<1>14. OverridesHold'
  BY <1>2, <1>5 DEF OverridesHold, Queries
<1> QED
  BY <1>6, <1>7, <1>10, <1>11, <1>12, <1>13, <1>14 DEF IInv

------------------------------------------------------------------------------
(* Replies *)

LEMMA RepliesTell ==
  ASSUME Types, NEW c \in Commands, NEW type \in {"A", "I"}, NEW r \in Replies(c, type)
  PROVE  /\ r \in {"ok", "refused", "unimplemented"}
         /\ r = "ok" => c \in srv.does /\ Can(c, type)
         /\ r = "unimplemented" => c \notin srv.does
         /\ r = "refused" /\ c # "MDTM_set" => c \in srv.does
         /\ r = "refused" /\ c \in srv.does /\ Can(c, type) => denials < MaxDenials
BY DEF Replies

LEMMA DeniedCounts ==
  ASSUME Types, NEW c \in Commands, NEW type \in {"A", "I"}, NEW r \in Replies(c, type),
         Denied(c, r, type)
  PROVE  /\ denials' \in 0 .. MaxDenials /\ denials <= denials'
         /\ r = "refused" /\ c \in srv.does /\ Can(c, type) => denials' > 0
<1>1. denials \in 0 .. MaxDenials /\ MaxDenials \in Nat
  BY ConstantsAssumption DEF Types, ConstantsAssumption
<1>2. r = "refused" /\ c \in srv.does /\ Can(c, type) => denials < MaxDenials
  BY RepliesTell
<1>3. denials' = IF r = "refused" /\ c \in srv.does /\ Can(c, type) THEN denials + 1 ELSE denials
  BY DEF Denied
<1> QED
  BY <1>1, <1>2, <1>3

\* What the reply puts into the call.
LEMMA GotAnswers ==
  ASSUME Types, PlanOK, NEW c \in Steps, IsAt(c), NEW r \in {"ok", "refused", "unimplemented"},
         NEW size \in Nat \cup {Unknown}, NEW mdtm \in Nat \cup {Unknown},
         Got(c, r, size, mdtm), r = "ok" /\ c = "MLST" => item.kind # "none",
         NEW out, out = IF r = "unimplemented" THEN "unavailable" ELSE r
  PROVE  /\ out \in Outs /\ call' \in CallRecords
         /\ plan' = After(c, out).plan /\ call'.res = After(c, out).res
         /\ call'.name = call.name /\ call'.type = call.type
         /\ call'.want = call.want /\ call'.create = call.create
         /\ call'.denied => call.denied \/ out = "refused"
         /\ call'.size = IF r = "ok" /\ size # Unknown THEN size ELSE call.size
         /\ call'.mdtm = IF r = "ok" /\ mdtm # Unknown THEN mdtm ELSE call.mdtm
<1> DEFINE a == After(c, out)
<1>1. out \in Outs /\ (out = "ok" /\ c = "MLST" => item.kind # "none")
  BY DEF Outs
<1>2. a.res \in Results
  <2>1. GoesOn(a)
    BY <1>1, AfterGives
  <2> QED
    BY <2>1 DEF GoesOn
<1>3. /\ plan' = a.plan
      /\ call' = [call EXCEPT !.res = a.res, !.denied = @ \/ r = "refused",
                              !.size = IF r = "ok" /\ size # Unknown THEN size ELSE @,
                              !.mdtm = IF r = "ok" /\ mdtm # Unknown THEN mdtm ELSE @]
  BY DEF Got
<1> HIDE DEF a
<1>4. call \in CallRecords
  BY DEF Types
<1>5. /\ call'.res = a.res /\ call'.name = call.name /\ call'.type = call.type
      /\ call'.want = call.want /\ call'.create = call.create
      /\ call'.size = IF r = "ok" /\ size # Unknown THEN size ELSE call.size
      /\ call'.mdtm = IF r = "ok" /\ mdtm # Unknown THEN mdtm ELSE call.mdtm
  BY <1>3, <1>4 DEF CallRecords
<1>6. call'.denied = (call.denied \/ r = "refused")
  BY <1>3, <1>4 DEF CallRecords
<1>7. call' \in CallRecords
  <2>1. (call.denied \/ r = "refused") \in BOOLEAN
    BY <1>4 DEF CallRecords
  <2>2. (IF r = "ok" /\ size # Unknown THEN size ELSE call.size) \in Nat \cup {Unknown}
    BY <1>4 DEF CallRecords
  <2>3. (IF r = "ok" /\ mdtm # Unknown THEN mdtm ELSE call.mdtm) \in Nat \cup {Unknown}
    BY <1>4 DEF CallRecords
  <2> QED
    BY <1>2, <1>3, <1>4, <2>1, <2>2, <2>3 DEF CallRecords
<1>8. call'.denied => call.denied \/ out = "refused"
  BY <1>6
<1> QED
  BY <1>1, <1>3, <1>5, <1>7, <1>8 DEF a

\* A command that is passed by, or has been found to be of no use: only the result
\* changes.
LEMMA OnlyResult ==
  ASSUME Types, PlanOK, NEW c \in Steps, IsAt(c), NEW out \in {"passed", "unavailable"},
         plan' = After(c, out).plan, call' = [call EXCEPT !.res = After(c, out).res]
  PROVE  /\ call' \in CallRecords /\ call'.res = After(c, out).res
         /\ call'.name = call.name /\ call'.type = call.type
         /\ call'.want = call.want /\ call'.create = call.create
         /\ call'.denied = call.denied /\ call'.size = call.size /\ call'.mdtm = call.mdtm
<1> DEFINE a == After(c, out)
<1>1. a.res \in Results
  <2>1. out \in Outs /\ out # "ok"
    BY DEF Outs
  <2>2. GoesOn(a)
    BY <2>1, AfterGives
  <2> QED
    BY <2>2 DEF GoesOn
<1>2. call \in CallRecords
  BY DEF Types
<1>3. call' = [call EXCEPT !.res = a.res]
  OBVIOUS
<1> HIDE DEF a
<1>4. /\ call' \in CallRecords /\ call'.res = a.res
      /\ call'.name = call.name /\ call'.type = call.type
      /\ call'.want = call.want /\ call'.create = call.create
      /\ call'.size = call.size /\ call'.mdtm = call.mdtm
  BY <1>1, <1>2, <1>3 DEF CallRecords
<1>5. call'.denied = call.denied
  BY <1>2, <1>3 DEF CallRecords
<1> QED
  BY <1>4, <1>5 DEF a

\* What passing by a command says: the server does not have it.
LEMMA PassesInv ==
  ASSUME IInv, NEW c \in Steps, IsNext(c), Passes(c),
         c = "MFMT" => has[c] # "yes", c = "MFF" => has[c] # "yes" \/ ~call.create,
         c = "UTIME" => has[c] = "no", c = "MDTM_set" => "no" \in {has["MDTM"], has[c]}
  PROVE  IInv'
<1>1. Types /\ PlanOK /\ HeardOK /\ LearntIsTrue /\ IsAt(c)
  BY DEF IInv, IsAt
<1>2. /\ plan' = After(c, "passed").plan /\ call' = [call EXCEPT !.res = After(c, "passed").res]
      /\ srv' = srv /\ feat' = feat /\ item' = item /\ over' = over /\ seen' = seen /\ opens' = opens
      /\ has' = has /\ usedMLS' = usedMLS /\ opts' = opts /\ refused' = refused
      /\ denials' = denials
  BY DEF Passes, world
<1>3. /\ call' \in CallRecords /\ call'.res = After(c, "passed").res
      /\ call'.name = call.name /\ call'.type = call.type
      /\ call'.want = call.want /\ call'.create = call.create
      /\ call'.denied = call.denied /\ call'.size = call.size /\ call'.mdtm = call.mdtm
  BY <1>1, <1>2, OnlyResult
<1>4. Types'
  BY <1>1, <1>2, <1>3 DEF Types
<1>5. LearntIsTrue'
  BY <1>1, <1>2 DEF LearntIsTrue
<1>6. HasOK'
  BY <1>1, <1>2 DEF HeardOK, HasOK
<1>7. Answers(c, "passed")
  <2>1. denials <= denials'
    BY <1>1, <1>2, ConstantsAssumption DEF Types, ConstantsAssumption
  <2> QED
    BY <1>2, <1>3, <2>1 DEF Answers
<1>8. Means(c, "passed")
  <2>1. ~Excused' => DOMAIN over = {} /\ denials = 0
    <3>1. denials \in Nat /\ denials' = denials /\ over' = over
      BY <1>1, <1>2, ConstantsAssumption DEF Types, ConstantsAssumption
    <3>2. ~Excused' => ~(denials > 0) /\ DOMAIN over = {}
      BY <3>1 DEF Excused
    <3>3. ~(denials > 0) => denials = 0
      BY <3>1
    <3> QED
      BY <3>2, <3>3
  <2>2. c = "MFMT" \/ (c = "MFF" /\ call.create) => Excused' \/ c \notin srv.does
    <3>1. call.name # "none" /\ ~IsNext("FEAT")
      BY <1>1, CallPlace DEF Queries
    <3> QED
      BY <1>1, <2>1, <3>1 DEF HeardOK
  <2>3. c = "UTIME" => Excused' \/ c \notin srv.does
    BY <1>1, <2>1 DEF LearntIsTrue, Commands
  <2>4. c = "MDTM_set" => Excused' \/ has'[c] = "no"
    BY <1>1, <1>2, <2>1 DEF HeardOK
  <2> QED
    BY <2>2, <2>3, <2>4 DEF Means
<1> QED
  BY <1>1, <1>4, <1>5, <1>6, <1>7, <1>8, AnsweredInv DEF Outs

------------------------------------------------------------------------------
(* The commands of the calls *)

\* A command was sent, and its reply is in the call.
LEMMA AskedInv ==
  ASSUME IInv, NEW c \in Steps, IsNext(c), NEW r \in {"ok", "refused", "unimplemented"},
         NEW size \in Nat \cup {Unknown}, NEW mdtm \in Nat \cup {Unknown},
         Got(c, r, size, mdtm), NEW out, out = IF r = "unimplemented" THEN "unavailable" ELSE r,
         size # Unknown => \/ c = "SIZE" /\ size = SizeAs(item, call.type)
                           \/ c = "MLST" /\ size = item.bytes,
         mdtm # Unknown => c \in {"MDTM", "MLST"} /\ mdtm = item.mtime,
         c = "SIZE" => size # Unknown, c = "MDTM" => mdtm # Unknown,
         srv' = srv, feat' = feat, over' = over, opens' = opens, usedMLS' = usedMLS, opts' = opts,
         item' \in Item, item' \in seen', seen \subseteq seen',
         denials' \in 0 .. MaxDenials, denials <= denials',
         has' \in [Commands -> Values], has'["MFMT"] = has["MFMT"] /\ has'["MFF"] = has["MFF"], has'["NLST"] = has["NLST"],
         r = "unimplemented" => c \in Tried,
         LearntIsTrue', HasOK', Means(c, out)
  PROVE  IInv'
<1>1. Types /\ PlanOK /\ IsAt(c)
  BY DEF IInv, IsAt
<1>2. r = "ok" /\ c = "MLST" => item.kind # "none"
  BY DEF Means
<1>3. /\ out \in Outs /\ call' \in CallRecords
      /\ plan' = After(c, out).plan /\ call'.res = After(c, out).res
      /\ call'.name = call.name /\ call'.type = call.type
      /\ call'.want = call.want /\ call'.create = call.create
      /\ call'.denied => call.denied \/ out = "refused"
      /\ call'.size = IF r = "ok" /\ size # Unknown THEN size ELSE call.size
      /\ call'.mdtm = IF r = "ok" /\ mdtm # Unknown THEN mdtm ELSE call.mdtm
  BY <1>1, <1>2, GotAnswers
<1>4. Types'
  <2>1. refused' \subseteq Tried
    BY <1>1 DEF Got, Types
  <2> QED
    BY <1>1, <1>3, <2>1 DEF Types
<1>5. Answers(c, out)
  BY <1>3 DEF Answers
<1> QED
  BY <1>1, <1>3, <1>4, <1>5, AnsweredInv

LEMMA ItemIs ==
  ASSUME Types
  PROVE  /\ item.kind \in {"none", "file", "dir"} /\ item.bytes \in Nat /\ item.mtime \in Nat
         /\ \A type \in {"A", "I"} : SizeAs(item, type) \in Nat
         /\ call.type \in {"A", "I"} /\ call.want \in Nat /\ Unknown \notin Nat
         /\ denials \in Nat /\ denials <= denials /\ MaxDenials \in Nat
<1>1. item \in Item /\ call \in CallRecords /\ denials \in 0 .. MaxDenials /\ MaxDenials \in Nat
  BY ConstantsAssumption DEF Types, ConstantsAssumption
<1>2. /\ item.kind \in {"none", "file", "dir"} /\ item.bytes \in Nat /\ item.mtime \in Nat
      /\ call.type \in {"A", "I"} /\ call.want \in Nat
  BY <1>1 DEF Item, CallRecords
<1> QED
  BY <1>1, <1>2 DEF SizeAs, Unknown

LEMMA SIZEInv ==
  ASSUME IInv, AskSIZE
  PROVE  IInv'
<1>1. Types /\ HeardOK /\ LearntIsTrue /\ IsNext("SIZE") /\ "SIZE" \in Steps /\ "SIZE" \in Commands
  BY DEF IInv, AskSIZE, Steps, Commands
<1>2. CASE has["SIZE"] = "no" /\ Passes("SIZE")
  BY <1>1, <1>2, PassesInv
<1>3. ASSUME has["SIZE"] # "no", NEW r \in Replies("SIZE", Type),
             Got("SIZE", r, SizeAs(item, Type), Unknown), Denied("SIZE", r, Type),
             has' = [has EXCEPT !["SIZE"] = IF r = "ok" THEN "yes"
                                            ELSE IF r = "unimplemented" THEN "no" ELSE @],
             UNCHANGED <<world, usedMLS, opts>>
      PROVE  IInv'
  <2> DEFINE out == IF r = "unimplemented" THEN "unavailable" ELSE r
  <2>1. Type = call.type /\ Type \in {"A", "I"} /\ SizeAs(item, Type) \in Nat /\ Unknown \notin Nat
    BY <1>1, ItemIs DEF Type
  <2>2. /\ r \in {"ok", "refused", "unimplemented"}
        /\ r = "ok" => "SIZE" \in srv.does /\ Can("SIZE", Type)
        /\ r = "unimplemented" => "SIZE" \notin srv.does
    BY <1>1, <1>3, <2>1, RepliesTell
  <2>3. denials' \in 0 .. MaxDenials /\ denials <= denials'
    BY <1>1, <1>3, <2>1, DeniedCounts
  <2>4. /\ has' \in [Commands -> Values] /\ has["SIZE"] # "no"
        /\ has'["SIZE"] = IF r = "ok" THEN "yes" ELSE IF r = "unimplemented" THEN "no" ELSE has["SIZE"]
        /\ \A d \in Commands \ {"SIZE"} : has'[d] = has[d]
    BY <1>1, <1>3 DEF Types, Commands, Values
  <2>5. srv' = srv /\ feat' = feat /\ item' = item /\ over' = over /\ seen' = seen /\ opens' = opens
        /\ usedMLS' = usedMLS /\ opts' = opts
    BY <1>3 DEF world
  <2>6. LearntIsTrue'
    BY <1>1, <2>2, <2>4, <2>5 DEF LearntIsTrue
  <2>7. HasOK'
    <3>1. refused' = IF r = "unimplemented" THEN refused \cup {"SIZE"} ELSE refused
      BY <1>3 DEF Got
    <3>2. refused \subseteq Commands
      BY <1>1 DEF Types, Tried, Commands
    <3> QED
      BY <1>1, <2>4, <2>5, <3>1, <3>2 DEF HeardOK, HasOK, Commands
  <2>8. Means("SIZE", out)
    BY <2>2 DEF Means, Can
  <2>9. /\ has'["MFMT"] = has["MFMT"] /\ has'["MFF"] = has["MFF"] /\ has'["NLST"] = has["NLST"]
        /\ item \in Item /\ item \in seen /\ "SIZE" \in Tried
    BY <1>1, <2>4 DEF Commands, Types, Tried
  <2> HIDE DEF out
  <2>10. out = IF r = "unimplemented" THEN "unavailable" ELSE r
    BY DEF out
  <2> QED
    BY <1>1, <1>3, <2>1, <2>2, <2>3, <2>4, <2>5, <2>6, <2>7, <2>8, <2>9, <2>10, AskedInv
<1> QED
  BY <1>2, <1>3 DEF AskSIZE

LEMMA MDTMInv ==
  ASSUME IInv, AskMDTM
  PROVE  IInv'
<1>1. Types /\ HeardOK /\ LearntIsTrue /\ IsNext("MDTM") /\ "MDTM" \in Steps /\ "MDTM" \in Commands
  BY DEF IInv, AskMDTM, Steps, Commands
<1>2. CASE has["MDTM"] = "no" /\ Passes("MDTM")
  BY <1>1, <1>2, PassesInv
<1>3. ASSUME has["MDTM"] # "no", NEW r \in Replies("MDTM", "I"),
             Got("MDTM", r, Unknown, item.mtime), Denied("MDTM", r, "I"),
             has' = LearntFromMDTM(has, r), UNCHANGED <<world, usedMLS, opts>>
      PROVE  IInv'
  <2> DEFINE out == IF r = "unimplemented" THEN "unavailable" ELSE r
  <2>1. item.mtime \in Nat /\ Unknown \notin Nat /\ item.kind \in {"none", "file", "dir"}
    BY <1>1, ItemIs
  <2>2. /\ r \in {"ok", "refused", "unimplemented"}
        /\ r = "ok" => "MDTM" \in srv.does /\ Can("MDTM", "I")
        /\ r = "unimplemented" => "MDTM" \notin srv.does
        /\ r = "refused" => "MDTM" \in srv.does
    BY <1>1, <1>3, RepliesTell
  <2>3. /\ denials' \in 0 .. MaxDenials /\ denials <= denials'
        /\ r = "refused" /\ "MDTM" \in srv.does /\ Can("MDTM", "I") => denials' > 0
    BY <1>1, <1>3, DeniedCounts
  <2>4. /\ has' \in [Commands -> Values] /\ has["MDTM"] # "no"
        /\ has'["MDTM"] = IF r = "ok" THEN "yes" ELSE IF r = "unimplemented" THEN "no" ELSE has["MDTM"]
        /\ has'["MDTM_set"] = IF r = "unimplemented" THEN "no" ELSE has["MDTM_set"]
        /\ \A d \in Commands \ {"MDTM", "MDTM_set"} : has'[d] = has[d]
    BY <1>1, <1>3, <2>2 DEF Types, Commands, Values, LearntFromMDTM
  <2>5. srv' = srv /\ feat' = feat /\ item' = item /\ over' = over /\ seen' = seen /\ opens' = opens
        /\ usedMLS' = usedMLS /\ opts' = opts
    BY <1>3 DEF world
  <2>6. LearntIsTrue'
    BY <1>1, <2>2, <2>4, <2>5 DEF LearntIsTrue
  <2>7. HasOK'
    <3>1. refused' = IF r = "unimplemented" THEN refused \cup {"MDTM"} ELSE refused
      BY <1>3 DEF Got
    <3>2. refused \subseteq Commands
      BY <1>1 DEF Types, Tried, Commands
    <3> QED
      BY <1>1, <2>2, <2>4, <2>5, <3>1, <3>2 DEF HeardOK, HasOK
  <2>8. Means("MDTM", out)
    BY <2>1, <2>2, <2>3 DEF Means, Can, Overlooked
  <2>9. /\ has'["MFMT"] = has["MFMT"] /\ has'["MFF"] = has["MFF"] /\ has'["NLST"] = has["NLST"]
        /\ item \in Item /\ item \in seen /\ "MDTM" \in Tried
    BY <1>1, <2>4 DEF Commands, Types, Tried
  <2> HIDE DEF out
  <2>10. out = IF r = "unimplemented" THEN "unavailable" ELSE r
    BY DEF out
  <2> QED
    BY <1>1, <1>3, <2>1, <2>2, <2>3, <2>4, <2>5, <2>6, <2>7, <2>8, <2>9, <2>10, AskedInv
<1> QED
  BY <1>2, <1>3 DEF AskMDTM

LEMMA MLSTInv ==
  ASSUME IInv, AskMLST
  PROVE  IInv'
<1>1. Types /\ HeardOK /\ LearntIsTrue /\ IsNext("MLST") /\ "MLST" \in Steps /\ "MLST" \in Commands
  BY DEF IInv, AskMLST, Steps, Commands
<1>2. CASE Passes("MLST")
  BY <1>1, <1>2, PassesInv
<1>3. ASSUME has["MLST"] # "no", NEW r \in Replies("MLST", "I"),
             Got("MLST", r, IF opts \/ srv.facts THEN item.bytes ELSE Unknown,
                 IF opts \/ srv.facts THEN item.mtime ELSE Unknown),
             Denied("MLST", r, "I"),
             has' = [has EXCEPT !["MLST"] = IF r = "unimplemented" THEN "no" ELSE @],
             UNCHANGED <<world, usedMLS, opts>>
      PROVE  IInv'
  <2> DEFINE out == IF r = "unimplemented" THEN "unavailable" ELSE r
             size == IF opts \/ srv.facts THEN item.bytes ELSE Unknown
             mdtm == IF opts \/ srv.facts THEN item.mtime ELSE Unknown
  <2>1. /\ size \in Nat \cup {Unknown} /\ (size # Unknown => size = item.bytes)
        /\ mdtm \in Nat \cup {Unknown} /\ (mdtm # Unknown => mdtm = item.mtime)
    BY <1>1, ItemIs
  <2>2. /\ r \in {"ok", "refused", "unimplemented"}
        /\ r = "ok" => "MLST" \in srv.does /\ Can("MLST", "I")
        /\ r = "unimplemented" => "MLST" \notin srv.does
        /\ r = "refused" => "MLST" \in srv.does
    BY <1>1, <1>3, RepliesTell
  <2>3. /\ denials' \in 0 .. MaxDenials /\ denials <= denials'
        /\ r = "refused" /\ "MLST" \in srv.does /\ Can("MLST", "I") => denials' > 0
    BY <1>1, <1>3, DeniedCounts
  <2>4. /\ has' \in [Commands -> Values] /\ has["MLST"] # "no"
        /\ has'["MLST"] = IF r = "unimplemented" THEN "no" ELSE has["MLST"]
        /\ \A d \in Commands \ {"MLST"} : has'[d] = has[d]
    BY <1>1, <1>3 DEF Types, Commands, Values
  <2>5. srv' = srv /\ feat' = feat /\ item' = item /\ over' = over /\ seen' = seen /\ opens' = opens
        /\ usedMLS' = usedMLS /\ opts' = opts
    BY <1>3 DEF world
  <2>6. LearntIsTrue'
    BY <1>1, <2>2, <2>4, <2>5 DEF LearntIsTrue
  <2>7. HasOK'
    <3>1. refused' = IF r = "unimplemented" THEN refused \cup {"MLST"} ELSE refused
      BY <1>3 DEF Got
    <3>2. refused \subseteq Commands
      BY <1>1 DEF Types, Tried, Commands
    <3> QED
      BY <1>1, <2>4, <2>5, <3>1, <3>2 DEF HeardOK, HasOK, Commands
  <2>8. Means("MLST", out)
    BY <2>2, <2>3 DEF Means, Can
  <2>9. /\ has'["MFMT"] = has["MFMT"] /\ has'["MFF"] = has["MFF"] /\ has'["NLST"] = has["NLST"]
        /\ item \in Item /\ item \in seen /\ "MLST" \in Tried
    BY <1>1, <2>4 DEF Commands, Types, Tried
  <2>10. Got("MLST", r, size, mdtm)
    BY <1>3
  <2> HIDE DEF out, size, mdtm
  <2>11. out = IF r = "unimplemented" THEN "unavailable" ELSE r
    BY DEF out
  <2> QED
    BY <1>1, <2>1, <2>2, <2>3, <2>4, <2>5, <2>6, <2>7, <2>8, <2>9, <2>10, <2>11, AskedInv
<1> QED
  BY <1>2, <1>3 DEF AskMLST, NoMLST

\* FTPFileType enters the item: nothing is learnt of the server.
LEMMA CWDInv ==
  ASSUME IInv, AskCWD
  PROVE  IInv'
<1>1. Types /\ HeardOK /\ LearntIsTrue /\ IsNext("CWD") /\ "CWD" \in Steps
  BY DEF IInv, AskCWD, Steps
<1>2. PICK r \in {"ok", "refused"} :
        /\ r = "ok" => item.kind = "dir"
        /\ r = "refused" => item.kind # "dir" \/ denials < MaxDenials
        /\ Got("CWD", r, Unknown, Unknown)
        /\ denials' = IF r = "refused" /\ item.kind = "dir" THEN denials + 1 ELSE denials
  BY DEF AskCWD
<1>3. srv' = srv /\ feat' = feat /\ item' = item /\ over' = over /\ seen' = seen /\ opens' = opens
      /\ usedMLS' = usedMLS /\ opts' = opts /\ has' = has
  BY DEF AskCWD, world
<1>4. denials' \in 0 .. MaxDenials /\ denials <= denials'
  BY <1>1, <1>2, ItemIs DEF Types
<1>5. LearntIsTrue' /\ HasOK'
  <2>1. refused' = refused
    BY <1>2 DEF Got
  <2> QED
    BY <1>1, <1>3, <2>1 DEF LearntIsTrue, HeardOK, HasOK
<1>6. Means("CWD", r)
  BY <1>2 DEF Means
<1>7. r = IF r = "unimplemented" THEN "unavailable" ELSE r
  BY <1>2
<1>8. has' \in [Commands -> Values] /\ item \in Item /\ item \in seen
  BY <1>1, <1>3 DEF Types
<1> QED
  BY <1>1, <1>2, <1>3, <1>4, <1>5, <1>6, <1>7, <1>8, AskedInv

\* FTPUtime's commands put the time that was asked for on the item.
LEMMA SetsTime ==
  ASSUME Types, NEW r, Sets(r)
  PROVE  /\ item' \in Item /\ item' \in seen' /\ seen \subseteq seen'
         /\ r = "ok" => item'.mtime = call.want
<1>1. item \in Item /\ item \in seen /\ call.want \in Nat
  BY ItemIs DEF Types
<1>2. CASE r = "ok"
  BY <1>1, <1>2 DEF Sets, Item
<1>3. CASE r # "ok"
  BY <1>1, <1>3 DEF Sets
<1> QED
  BY <1>2, <1>3

LEMMA ListedInv ==
  ASSUME IInv, NEW c \in {"MFF", "MFMT"}, AskListed(c)
  PROVE  IInv'
<1>1. Types /\ HeardOK /\ LearntIsTrue /\ IsNext(c) /\ c \in Steps /\ c \in Commands
  BY DEF IInv, AskListed, Steps, Commands
<1>2. CASE (has[c] # "yes" \/ (c = "MFF" /\ ~call.create)) /\ Passes(c)
  <2>1. c = "MFMT" => has[c] # "yes"
    BY <1>2
  <2>2. c = "MFF" => has[c] # "yes" \/ ~call.create
    BY <1>2
  <2> QED
    BY <1>1, <1>2, <2>1, <2>2, PassesInv
<1>3. ASSUME has[c] = "yes", NEW r \in Replies(c, "I"),
             Got(c, IF r = "ok" THEN "ok" ELSE "refused", Unknown, Unknown),
             Denied(c, r, "I"), Sets(r),
             UNCHANGED <<srv, feat, over, has, usedMLS, opts, opens, calls, meddles>>
      PROVE  IInv'
  <2> DEFINE out == IF r = "ok" THEN "ok" ELSE "refused"
  <2>1. /\ item' \in Item /\ item' \in seen' /\ seen \subseteq seen'
        /\ r = "ok" => item'.mtime = call.want
    BY <1>1, <1>3, SetsTime
  <2>2. /\ r = "unimplemented" => c \notin srv.does
        /\ r \in {"ok", "refused", "unimplemented"} /\ (r = "refused" => c \in srv.does)
    BY <1>1, <1>3, RepliesTell
  <2>3. /\ denials' \in 0 .. MaxDenials /\ denials <= denials'
        /\ r = "refused" /\ c \in srv.does /\ Can(c, "I") => denials' > 0
    BY <1>1, <1>3, DeniedCounts
  <2>4. srv' = srv /\ feat' = feat /\ over' = over /\ has' = has /\ opens' = opens /\ usedMLS' = usedMLS
        /\ opts' = opts
    BY <1>3
  <2>5. LearntIsTrue' /\ HasOK'
    <3>1. refused' = refused
      BY <1>3 DEF Got
    <3> QED
      BY <1>1, <2>4, <3>1 DEF LearntIsTrue, HeardOK, HasOK
  <2>6. r # "ok" => Excused'
    <3>1. CASE r = "unimplemented"
      BY <1>1, <1>3, <2>2, <2>4, <3>1 DEF LearntIsTrue, Excused
    <3>2. CASE r = "refused" /\ Can(c, "I")
      BY <2>2, <2>3, <3>2 DEF Excused
    <3>3. CASE ~Can(c, "I")
      <4>1. item.kind = "none" /\ item \in seen
        BY <1>1, <3>3 DEF Can, Types
      <4> QED
        BY <2>1, <4>1 DEF Excused
    <3> QED
      BY <2>2, <3>1, <3>2, <3>3
  <2>7. Means(c, out)
    BY <2>1, <2>6 DEF Means
  <2>8. has' \in [Commands -> Values] /\ out \in {"ok", "refused", "unimplemented"}
        /\ Got(c, out, Unknown, Unknown)
    BY <1>1, <1>3, <2>4 DEF Types
  <2>9. out = IF out = "unimplemented" THEN "unavailable" ELSE out
    OBVIOUS
  <2>10. out # "unimplemented"
    OBVIOUS
  <2> HIDE DEF out
  <2> QED
    BY <1>1, <2>1, <2>3, <2>4, <2>5, <2>7, <2>8, <2>9, <2>10, AskedInv
<1> QED
  BY <1>2, <1>3 DEF AskListed

LEMMA UTIMEInv ==
  ASSUME IInv, AskUTIME
  PROVE  IInv'
<1>1. Types /\ HeardOK /\ LearntIsTrue /\ IsNext("UTIME") /\ "UTIME" \in Steps /\ "UTIME" \in Commands
  BY DEF IInv, AskUTIME, Steps, Commands
<1>2. CASE has["UTIME"] = "no" /\ Passes("UTIME")
  BY <1>1, <1>2, PassesInv
<1>3. ASSUME has["UTIME"] # "no", NEW r \in Replies("UTIME", "I"),
             Got("UTIME", r, Unknown, Unknown), Denied("UTIME", r, "I"), Sets(r),
             has' = LearntFromUTIME(has, r),
             UNCHANGED <<srv, feat, over, usedMLS, opts, opens, calls, meddles>>
      PROVE  IInv'
  <2> DEFINE out == IF r = "unimplemented" THEN "unavailable" ELSE r
  <2>1. /\ item' \in Item /\ item' \in seen' /\ seen \subseteq seen'
        /\ r = "ok" => item'.mtime = call.want
    BY <1>1, <1>3, SetsTime
  <2>2. /\ r \in {"ok", "refused", "unimplemented"}
        /\ r = "ok" => "UTIME" \in srv.does
        /\ r = "unimplemented" => "UTIME" \notin srv.does
        /\ r = "refused" => "UTIME" \in srv.does
    BY <1>1, <1>3, RepliesTell
  <2>3. /\ denials' \in 0 .. MaxDenials /\ denials <= denials'
        /\ r = "refused" /\ "UTIME" \in srv.does /\ Can("UTIME", "I") => denials' > 0
    BY <1>1, <1>3, DeniedCounts
  <2>4. /\ has' \in [Commands -> Values] /\ has["UTIME"] # "no"
        /\ has'["UTIME"] = IF r = "ok" THEN "yes" ELSE IF r = "unimplemented" THEN "no" ELSE has["UTIME"]
        /\ \A d \in Commands \ {"UTIME"} : has'[d] = has[d]
    BY <1>1, <1>3 DEF Types, Commands, Values, LearntFromUTIME
  <2>5. srv' = srv /\ feat' = feat /\ over' = over /\ opens' = opens /\ usedMLS' = usedMLS /\ opts' = opts
    BY <1>3
  <2>6. LearntIsTrue'
    BY <1>1, <2>2, <2>4, <2>5 DEF LearntIsTrue
  <2>7. HasOK'
    <3>1. refused' = IF r = "unimplemented" THEN refused \cup {"UTIME"} ELSE refused
      BY <1>3 DEF Got
    <3>2. refused \subseteq Commands
      BY <1>1 DEF Types, Tried, Commands
    <3> QED
      BY <1>1, <2>4, <2>5, <3>1, <3>2 DEF HeardOK, HasOK, Commands
  <2>8. r = "refused" => Excused'
    <3>1. CASE Can("UTIME", "I")
      BY <2>2, <2>3, <3>1 DEF Excused
    <3>2. CASE ~Can("UTIME", "I")
      <4>1. item.kind = "none" /\ item \in seen
        BY <1>1, <3>2 DEF Can, Types
      <4> QED
        BY <2>1, <4>1 DEF Excused
    <3> QED
      BY <3>1, <3>2
  <2>9. Means("UTIME", out)
    BY <2>1, <2>2, <2>8 DEF Means
  <2>10. has'["MFMT"] = has["MFMT"] /\ has'["MFF"] = has["MFF"] /\ has'["NLST"] = has["NLST"] /\ "UTIME" \in Tried
    BY <2>4 DEF Commands, Tried
  <2>11. Got("UTIME", r, Unknown, Unknown)
    BY <1>3
  <2> HIDE DEF out
  <2>12. out = IF r = "unimplemented" THEN "unavailable" ELSE r
    BY DEF out
  <2> QED
    BY <1>1, <2>1, <2>2, <2>3, <2>4, <2>5, <2>6, <2>7, <2>9, <2>10, <2>11, <2>12, AskedInv
<1> QED
  BY <1>2, <1>3 DEF AskUTIME

LEMMA SetByMDTMInv ==
  ASSUME IInv, SetByMDTM
  PROVE  IInv'
<1>1. /\ Types /\ HeardOK /\ LearntIsTrue /\ IsNext("MDTM_set") /\ "MDTM_set" \in Steps
      /\ "MDTM_set" \in Commands
  BY DEF IInv, SetByMDTM, Steps, Commands
<1>2. CASE "no" \in {has["MDTM"], has["MDTM_set"]} /\ Passes("MDTM_set")
  BY <1>1, <1>2, PassesInv
<1>3. ASSUME "no" \notin {has["MDTM"], has["MDTM_set"]}, NEW r \in Replies("MDTM_set", "I"),
             Got("MDTM_set", r, Unknown, Unknown), Denied("MDTM_set", r, "I"), Sets(r),
             has' = [has EXCEPT !["MDTM_set"] = IF r = "ok" THEN "yes" ELSE "no"],
             UNCHANGED <<srv, feat, over, usedMLS, opts, opens, calls, meddles>>
      PROVE  IInv'
  <2> DEFINE out == IF r = "unimplemented" THEN "unavailable" ELSE r
  <2>1. /\ item' \in Item /\ item' \in seen' /\ seen \subseteq seen'
        /\ r = "ok" => item'.mtime = call.want
    BY <1>1, <1>3, SetsTime
  <2>2. r \in {"ok", "refused", "unimplemented"}
    BY <1>1, <1>3, RepliesTell
  <2>3. denials' \in 0 .. MaxDenials /\ denials <= denials'
    BY <1>1, <1>3, DeniedCounts
  <2>4. /\ has' \in [Commands -> Values]
        /\ has'["MDTM_set"] = IF r = "ok" THEN "yes" ELSE "no"
        /\ \A d \in Commands \ {"MDTM_set"} : has'[d] = has[d]
    BY <1>1, <1>3 DEF Types, Commands, Values
  <2>5. srv' = srv /\ feat' = feat /\ over' = over /\ opens' = opens /\ usedMLS' = usedMLS /\ opts' = opts
    BY <1>3
  <2>6. LearntIsTrue'
    BY <1>1, <2>4, <2>5 DEF LearntIsTrue
  <2>7. HasOK'
    <3>1. refused' = IF r = "unimplemented" THEN refused \cup {"MDTM_set"} ELSE refused
      BY <1>3 DEF Got
    <3>2. refused \subseteq Commands /\ has'["MDTM"] # "no"
      BY <1>1, <1>3, <2>4 DEF Types, Tried, Commands
    <3>3. \A d \in refused' \ DOMAIN over' : has'[d] = "no"
      <4> TAKE d \in refused' \ DOMAIN over'
      <4>1. CASE d = "MDTM_set"
        <5>1. r # "ok"
          BY <1>1, <1>3, <2>5, <3>1, <4>1 DEF HeardOK
        <5> QED
          BY <2>4, <4>1, <5>1
      <4>2. CASE d # "MDTM_set"
        <5>1. d \in refused /\ d \notin DOMAIN over
          BY <2>5, <3>1, <4>2
        <5> QED
          BY <1>1, <2>4, <3>2, <4>2, <5>1 DEF HeardOK
      <4> QED
        BY <4>1, <4>2
    <3> QED
      BY <3>2, <3>3 DEF HasOK
  <2>8. Means("MDTM_set", out)
    BY <2>1, <2>2, <2>4 DEF Means
  <2>9. has'["MFMT"] = has["MFMT"] /\ has'["MFF"] = has["MFF"] /\ has'["NLST"] = has["NLST"] /\ "MDTM_set" \in Tried
    BY <2>4 DEF Commands, Tried
  <2>10. Got("MDTM_set", r, Unknown, Unknown)
    BY <1>3
  <2> HIDE DEF out
  <2>11. out = IF r = "unimplemented" THEN "unavailable" ELSE r
    BY DEF out
  <2> QED
    BY <1>1, <2>1, <2>2, <2>3, <2>4, <2>5, <2>6, <2>7, <2>8, <2>9, <2>10, <2>11, AskedInv
<1> QED
  BY <1>2, <1>3 DEF SetByMDTM

------------------------------------------------------------------------------
(* STAT and NLST *)

\* A probe that comes to nothing, whether that is kept in mind or not.
LEMMA FruitlessInv ==
  ASSUME IInv, NEW c \in {"STAT", "NLST"}, IsAt(c), Fruitless(c),
         has' = has \/ has' = [has EXCEPT ![c] = "no"],
         denials' \in 0 .. MaxDenials, denials <= denials',
         UNCHANGED <<world, usedMLS, opts, refused>>
  PROVE  IInv'
<1>1. Types /\ PlanOK /\ HeardOK /\ LearntIsTrue /\ c \in Steps /\ c \in Commands
  BY DEF IInv, Steps, Commands
<1>2. /\ plan' = After(c, "unavailable").plan
      /\ call' = [call EXCEPT !.res = After(c, "unavailable").res]
      /\ srv' = srv /\ feat' = feat /\ item' = item /\ over' = over /\ seen' = seen /\ opens' = opens
      /\ usedMLS' = usedMLS /\ opts' = opts /\ refused' = refused
  BY DEF Fruitless, world
<1>3. /\ has' \in [Commands -> Values] /\ has'[c] \in {has[c], "no"}
      /\ \A d \in Commands \ {c} : has'[d] = has[d]
  BY <1>1 DEF Types, Values
<1>4. /\ call' \in CallRecords /\ call'.res = After(c, "unavailable").res
      /\ call'.name = call.name /\ call'.type = call.type
      /\ call'.want = call.want /\ call'.create = call.create
      /\ call'.denied = call.denied /\ call'.size = call.size /\ call'.mdtm = call.mdtm
  BY <1>1, <1>2, OnlyResult
<1>5. Types'
  BY <1>1, <1>2, <1>3, <1>4 DEF Types
<1>6. LearntIsTrue'
  BY <1>1, <1>2, <1>3 DEF LearntIsTrue
<1>7. HasOK'
  BY <1>1, <1>2, <1>3 DEF HeardOK, HasOK, Types, Tried, Commands
<1>8. Answers(c, "unavailable")
  <2>2. has'["MFMT"] = has["MFMT"] /\ has'["MFF"] = has["MFF"] /\ has'["NLST"] \in {has["NLST"], "no"}
    BY <1>3 DEF Commands
  <2> QED
    BY <1>2, <1>4, <2>2 DEF Answers
<1>9. Means(c, "unavailable")
  BY DEF Means
<1> QED
  BY <1>1, <1>5, <1>6, <1>7, <1>8, <1>9, AnsweredInv DEF Outs

\* Half of the probe is done, or all of it, and the call has still to ask.
LEMMA InPlaceInv ==
  ASSUME IInv, NEW c \in {"STAT", "NLST"}, IsAt(c), NEW d \in {c, EntryStep(c)},
         plan' = <<d>> \o Tail(plan), call' = call,
         UNCHANGED <<world, usedMLS, opts, refused, denials>>,
         has' \in [Commands -> Values], \A e \in Commands \ {c} : has'[e] = has[e],
         LearntIsTrue', d = "STAT entry" /\ "STAT" \in srv.does => srv.param = "yes"
  PROVE  IInv'
<1>1. Types /\ PlanOK /\ HeardOK /\ CallOK /\ c \in Steps
  BY DEF IInv, Steps
<1>2. /\ srv' = srv /\ feat' = feat /\ item' = item /\ over' = over /\ seen' = seen /\ opens' = opens
      /\ usedMLS' = usedMLS /\ opts' = opts /\ refused' = refused /\ denials' = denials
  BY DEF world
<1>3. /\ call.name \in Queries /\ EndOf(plan, Plans[call.name]) /\ call.res = "none"
      /\ Left(call.name, c, Len(plan)) /\ ~IsNext("FEAT")
  BY <1>1, CallPlace
<1>4. EndOf(plan', Plans[call.name]) /\ plan' # <<>> /\ Head(plan') = d
  BY <1>3, EndReplaced
<1>5. Types'
  BY <1>1, <1>2 DEF Types
<1>6. PlanOK'
  BY <1>1, <1>2, <1>3, <1>4 DEF PlanOK, Queries
<1>7. HeardOK'
  <2>1. d # "FEAT"
    BY DEF EntryStep
  <2>2. has'["MDTM"] = has["MDTM"] /\ has'["MDTM_set"] = has["MDTM_set"] /\ has'["MFMT"] = has["MFMT"] /\ has'["MFF"] = has["MFF"]
    BY DEF Commands
  <2>3. \A e \in refused : has'[e] = has[e]
    BY <1>1 DEF Types, Tried, Commands
  <2> QED
    BY <1>1, <1>2, <1>3, <1>4, <2>1, <2>2, <2>3 DEF HeardOK, IsNext
<1>8. CallOK'
  BY <1>1, <1>2 DEF CallOK
<1>9. call'.name # "Utime" /\ call'.name # "Open" /\ call'.res = "none"
  BY <1>3 DEF Left, Queries
<1>10. UtimeOK' /\ UtimeSets' /\ OverridesHold' /\ ExistsRight'
  BY <1>9 DEF UtimeOK, UtimeSets, OverridesHold, ExistsRight
<1> QED
  BY <1>5, <1>6, <1>7, <1>8, <1>10 DEF IInv

LEMMA ServerIs ==
  ASSUME Types
  PROVE  srv \in Servers /\ srv.param \in {"yes", "ignored"} /\ srv \in Server
<1>1. srv \in Servers /\ srv \in Server
  BY ConstantsAssumption DEF Types, ConstantsAssumption
<1> QED
  BY <1>1 DEF Server

LEMMA ProbeMissingInv ==
  ASSUME IInv, NEW c \in {"STAT", "NLST"}, ProbeMissing(c)
  PROVE  IInv'
<1>1. /\ Types /\ LearntIsTrue /\ IsAt(c) /\ c \in Commands
      /\ denials \in 0 .. MaxDenials /\ denials <= denials
  BY ItemIs DEF IInv, ProbeMissing, IsAt, Commands, Types
<1>2. UNCHANGED <<world, usedMLS, opts, refused, denials>>
  BY DEF ProbeMissing
<1>3. CASE Useless(c)
  BY <1>1, <1>2, <1>3, FruitlessInv DEF Useless
<1>4. ASSUME NEW entries \in BOOLEAN, ~Lines(c, FALSE, entries),
             plan' = <<EntryStep(c)>> \o Tail(plan), UNCHANGED <<has, call>>
      PROVE  IInv'
  <2>1. EntryStep(c) = "STAT entry" /\ "STAT" \in srv.does => srv.param = "yes"
    BY <1>1, <1>4, ServerIs DEF EntryStep, Lines
  <2>2. srv' = srv /\ feat' = feat /\ over' = over /\ has' = has
    BY <1>2, <1>4 DEF world
  <2>3. LearntIsTrue' /\ has' \in [Commands -> Values]
    BY <1>1, <2>2 DEF LearntIsTrue, Types
  <2> QED
    BY <1>1, <1>2, <1>4, <2>1, <2>2, <2>3, InPlaceInv
<1> QED
  BY <1>3, <1>4 DEF ProbeMissing

LEMMA ProbeEntryInv ==
  ASSUME IInv, NEW c \in {"STAT", "NLST"}, ProbeEntry(c)
  PROVE  IInv'
<1>1. Types /\ HeardOK /\ LearntIsTrue /\ IsAt(c) /\ c \in Commands /\ IsNext(EntryStep(c))
  BY DEF IInv, ProbeEntry, IsAt, Commands
<1>2. UNCHANGED <<world, usedMLS, opts, refused>>
  BY DEF ProbeEntry
<1>3. denials \in Nat /\ MaxDenials \in Nat /\ denials \in 0 .. MaxDenials
  BY <1>1, ItemIs DEF Types
<1>5. CASE Useless(c) /\ UNCHANGED denials
  <2>1. denials' \in 0 .. MaxDenials /\ denials <= denials'
    BY <1>3, <1>5
  <2>2. Fruitless(c) /\ has' = [has EXCEPT ![c] = "no"]
    BY <1>5 DEF Useless
  <2> QED
    BY <1>1, <1>2, <2>1, <2>2, FruitlessInv
<1>6. CASE /\ denials < MaxDenials /\ denials' = denials + 1
           /\ Fruitless(c) /\ UNCHANGED has
  BY <1>1, <1>2, <1>3, <1>6, FruitlessInv
<1>4. ASSUME UNCHANGED denials, Lines(c, TRUE, TRUE), has' = [has EXCEPT ![c] = "yes"],
             plan' = <<c>> \o Tail(plan), UNCHANGED call
      PROVE  IInv'
  <2>1. /\ has' \in [Commands -> Values] /\ has'[c] = "yes"
        /\ \A d \in Commands \ {c} : has'[d] = has[d]
    BY <1>1, <1>4 DEF Types, Values
  <2>2. c \in srv.does /\ (c = "STAT" => srv.param = "yes")
    BY <1>1, <1>4 DEF Lines, HeardOK, EntryStep
  <2>3. LearntIsTrue'
    <3>1. srv' = srv /\ feat' = feat /\ over' = over
      BY <1>2 DEF world
    <3> QED
      BY <1>1, <2>1, <2>2, <3>1 DEF LearntIsTrue
  <2>4. c # "STAT entry"
    OBVIOUS
  <2> QED
    BY <1>1, <1>2, <1>4, <2>1, <2>3, <2>4, InPlaceInv
<1> QED
  BY <1>4, <1>5, <1>6 DEF ProbeEntry

LEMMA ParamInv ==
  ASSUME IInv, NEW c \in {"STAT", "NLST"}, AskParam(c)
  PROVE  IInv'
<1>1. Types /\ HeardOK /\ LearntIsTrue /\ IsNext(c) /\ c \in Steps /\ c \in Commands
  BY DEF IInv, AskParam, Steps, Commands
<1>2. CASE has[c] = "no" /\ Passes(c)
  BY <1>1, <1>2, PassesInv
<1>3. ASSUME has[c] = "yes", NEW entries \in BOOLEAN, NEW denied \in BOOLEAN,
             denied => denials < MaxDenials,
             denials' = IF denied THEN denials + 1 ELSE denials,
             Got(c, IF ~denied /\ Lines(c, Listable, entries) THEN "ok" ELSE "refused",
                 Unknown, Unknown),
             UNCHANGED <<world, has, usedMLS, opts>>
      PROVE  IInv'
  <2> DEFINE out == IF ~denied /\ Lines(c, Listable, entries) THEN "ok" ELSE "refused"
  <2>1. srv' = srv /\ feat' = feat /\ item' = item /\ over' = over /\ seen' = seen /\ opens' = opens
        /\ usedMLS' = usedMLS /\ opts' = opts /\ has' = has
    BY <1>3 DEF world
  <2>2. Got(c, out, Unknown, Unknown)
    BY <1>3
  <2>3. LearntIsTrue' /\ HasOK'
    <3>1. refused' = refused
      BY <2>2 DEF Got
    <3> QED
      BY <1>1, <2>1, <3>1 DEF LearntIsTrue, HeardOK, HasOK
  <2>4. c \notin DOMAIN over => c \in srv.does /\ (c = "STAT" => srv.param = "yes")
    BY <1>1, <1>3 DEF LearntIsTrue
  <2>5. c \in DOMAIN over \/ (srv.param = "ignored" /\ c = "NLST") => TakenOnTrust'
    BY <1>3, <2>1 DEF TakenOnTrust
  <2>6. out = "ok" => item.kind # "none" \/ TakenOnTrust'
    <3>1. ASSUME Lines(c, Listable, entries), c \notin DOMAIN over
          PROVE  Listable \/ (srv.param = "ignored" /\ c = "NLST")
      BY <2>4, <3>1 DEF Lines
    <3>2. Listable => item.kind # "none"
      BY DEF Listable
    <3> QED
      BY <2>5, <3>1, <3>2
  <2>7. denials' \in 0 .. MaxDenials /\ denials <= denials' /\ (denied => denials' > 0)
    BY <1>1, <1>3, ItemIs DEF Types
  <2>8. out = "refused" =>
          item.kind = "none" \/ Overlooked(item) \/ denials' > 0 \/ TakenOnTrust'
    <3>1. ASSUME ~Lines(c, Listable, entries), c \notin DOMAIN over
          PROVE  ~Listable
      BY <2>4, <3>1 DEF Lines
    <3>2. ~Listable => item.kind = "none" \/ Overlooked(item)
      BY <1>1, ItemIs DEF Listable, Overlooked
    <3> QED
      BY <2>5, <2>7, <3>1, <3>2
  <2>9. out \in {"ok", "refused"}
    OBVIOUS
  <2> HIDE DEF out
  <2>10. Means(c, out)
    BY <2>6, <2>8, <2>9 DEF Means
  <2>11. out = IF out = "unimplemented" THEN "unavailable" ELSE out
    BY <2>9
  <2>12. has' \in [Commands -> Values] /\ item \in Item /\ item \in seen
    BY <1>1, <2>1 DEF Types
  <2> QED
    BY <1>1, <2>1, <2>2, <2>3, <2>7, <2>9, <2>10, <2>11, <2>12, AskedInv
<1> QED
  BY <1>2, <1>3 DEF AskParam

------------------------------------------------------------------------------
(* Opening a session *)

LEMMA InitInv ==
  ASSUME Init
  PROVE  IInv
<1>1. Types
  <2>1. /\ srv \in Servers /\ item \in Item /\ item \in seen /\ over \in Overrides
        /\ usedMLS \in BOOLEAN /\ opts \in BOOLEAN /\ refused \subseteq Tried
        /\ feat \in [listed: BOOLEAN, refused: BOOLEAN]
    BY ConstantsAssumption DEF Init, ConstantsAssumption
  <2>4. denials \in 0 .. MaxDenials /\ opens \in Nat
    BY ConstantsAssumption DEF Init, ConstantsAssumption
  <2>2. has \in [Commands -> Values]
    BY DEF Init, Values
  <2>3. call \in CallRecords
    BY DEF Init, NoCall, CallRecords, Queries, Results, Unknown
  <2> QED
    BY <2>1, <2>2, <2>3, <2>4 DEF Types
<1>2. /\ call.name = "none" /\ call.res = "none" /\ call.type = "I" /\ call.size = Unknown
      /\ call.mdtm = Unknown
  BY DEF Init, NoCall
<1>3. PlanOK
  BY <1>2 DEF Init, PlanOK, Queries
<1>4. HeardOK
  BY <1>2 DEF Init, HeardOK, IsNext, Commands
<1>5. CallOK /\ UtimeOK /\ OverridesHold /\ ExistsRight /\ UtimeSets
  BY <1>2 DEF CallOK, UtimeOK, OverridesHold, ExistsRight, UtimeSets
<1>6. LearntIsTrue
  BY DEF Init, LearntIsTrue
<1> QED
  BY <1>1, <1>3, <1>4, <1>5, <1>6 DEF IInv

LEMMA OverriddenIs ==
  ASSUME Types
  PROVE  /\ \A c \in DOMAIN over : c \in Commands /\ over[c] \in Values
         /\ Overridden(has) \in [Commands -> Values]
         /\ \A c \in Commands \ DOMAIN over : Overridden(has)[c] = has[c]
         /\ \A c \in DOMAIN over : Overridden(has)[c] = over[c]
<1>1. \A c \in DOMAIN over : c \in Commands /\ over[c] \in Values
  BY ConstantsAssumption DEF Types, ConstantsAssumption, Values
<1> QED
  BY <1>1 DEF Overridden, Types

LEMMA PresumedIs ==
  ASSUME Types, NEW h \in [Commands -> Values], NEW p, p = Presumed(h)
  PROVE  /\ p \in [Commands -> Values]
         /\ \A c \in Commands \ {"MDTM_set"} :
              \/ p[c] = h[c]
              \/ p[c] = "no" /\ c \notin srv.does
              \/ p[c] = "yes" /\ c \in srv.does /\ c # "STAT"
         /\ p["MDTM"] = "no" => p["MDTM_set"] = "no" \/ (h["MDTM"] = "no" /\ p["MDTM_set"] = h["MDTM_set"])
<1>1. srv \in Servers
  BY DEF Types
<1>2. /\ srv.kind = "NetWare" =>
           srv.does \cap {"FEAT", "SIZE", "MDTM", "MLST", "UTIME"} = {} /\ "NLST" \in srv.does
      /\ srv.kind = "Microsoft" => "UTIME" \notin srv.does
      /\ srv.kind = "Dgux" => srv.does \cap {"MLST", "UTIME", "MFMT", "MFF"} = {}
      /\ srv.kind \in {"WuFTPd", "NcFTPd"} => {"SIZE", "MDTM", "NLST"} \subseteq srv.does
  BY <1>1, KindsAssumption DEF KindsAssumption
<1>3. p \in [Commands -> Values]
  BY DEF Presumed, Values
<1>4. \A c \in Commands : p[c] =
        IF srv.kind = "NetWare" /\ c \in {"SIZE", "MDTM", "MDTM_set", "MLST", "UTIME"} THEN "no"
        ELSE IF srv.kind = "NetWare" /\ c = "NLST" THEN "yes"
        ELSE IF srv.kind = "Microsoft" /\ c = "UTIME" THEN "no"
        ELSE IF srv.kind = "Dgux" /\ c \in {"MLST", "UTIME", "MFMT", "MFF"} THEN "no"
        ELSE IF srv.kind \in {"WuFTPd", "NcFTPd"} /\ c \in {"SIZE", "MDTM", "NLST"} THEN "yes"
        ELSE IF srv.kind = "WuFTPd" /\ c = "MDTM_set" THEN "yes"
        ELSE h[c]
  BY DEF Presumed
<1>5. ASSUME NEW c \in Commands \ {"MDTM_set"}
      PROVE  \/ p[c] = h[c]
             \/ p[c] = "no" /\ c \notin srv.does
             \/ p[c] = "yes" /\ c \in srv.does /\ c # "STAT"
  <2>1. CASE srv.kind = "NetWare"
    BY <1>2, <1>4, <1>5, <2>1
  <2>2. CASE srv.kind = "Microsoft"
    BY <1>2, <1>4, <1>5, <2>2
  <2>3. CASE srv.kind = "Dgux"
    BY <1>2, <1>4, <1>5, <2>3
  <2>4. CASE srv.kind \in {"WuFTPd", "NcFTPd"}
    BY <1>2, <1>4, <1>5, <2>4
  <2>5. CASE srv.kind \notin {"NetWare", "Microsoft", "Dgux", "WuFTPd", "NcFTPd"}
    BY <1>4, <1>5, <2>5
  <2> QED
    BY <2>1, <2>2, <2>3, <2>4, <2>5
<1>6. p["MDTM"] = "no" => p["MDTM_set"] = "no" \/ (h["MDTM"] = "no" /\ p["MDTM_set"] = h["MDTM_set"])
  BY <1>4 DEF Commands
<1> QED
  BY <1>3, <1>5, <1>6

LEMMA OpenInv ==
  ASSUME IInv, FTPOpenHost
  PROVE  IInv'
<1>1. Types /\ LearntIsTrue /\ HeardOK
  BY DEF IInv
<1> DEFINE h == Overridden(has)
           p == Presumed(h)
<1>2. /\ srv' = srv /\ feat' = feat /\ item' = item /\ over' = over /\ usedMLS' = usedMLS /\ denials' = denials
      /\ opens' = opens + 1 /\ opts' = FALSE /\ refused' = {} /\ seen' = {item}
      /\ call' = [NoCall EXCEPT !.name = "Open"] /\ has' = p
      /\ plan' = <<IF srv.kind = "NetWare" \/ has'["FEAT"] = "no" THEN "opened" ELSE "FEAT">>
  BY DEF FTPOpenHost
<1>3. /\ h \in [Commands -> Values] /\ \A c \in Commands \ DOMAIN over : h[c] = has[c]
  BY <1>1, OverriddenIs
<1> HIDE DEF h
<1>4. /\ p \in [Commands -> Values]
      /\ \A c \in Commands \ {"MDTM_set"} :
           \/ p[c] = h[c]
           \/ p[c] = "no" /\ c \notin srv.does
           \/ p[c] = "yes" /\ c \in srv.does /\ c # "STAT"
      /\ p["MDTM"] = "no" => p["MDTM_set"] = "no" \/ (h["MDTM"] = "no" /\ p["MDTM_set"] = h["MDTM_set"])
  BY <1>1, <1>3, PresumedIs
<1> HIDE DEF p
<1>5. /\ call' \in CallRecords /\ call'.name = "Open" /\ call'.res = "none" /\ call'.type = "I"
      /\ call'.size = Unknown /\ call'.mdtm = Unknown
  BY <1>2 DEF NoCall, CallRecords, Queries, Results, Unknown
<1>6. Types'
  <2>1. opens' \in Nat
    BY <1>1, <1>2 DEF Types
  <2>2. item' \in seen' /\ refused' \subseteq Tried
    BY <1>2
  <2> QED
    BY <1>1, <1>2, <1>4, <1>5, <2>1, <2>2 DEF Types
<1>7. PlanOK'
  <2>1. opens' > 0
    BY <1>1, <1>2 DEF Types
  <2>2. plan' \in {<<"FEAT">>, <<"opened">>} /\ plan' # <<>>
    BY <1>2
  <2> QED
    BY <1>5, <2>1, <2>2 DEF PlanOK, Queries
<1>8. LearntIsTrue'
  BY <1>1, <1>2, <1>3, <1>4 DEF LearntIsTrue
<1>9. HeardOK'
  <2>1. ASSUME DOMAIN over = {}, p["MDTM"] = "no" PROVE p["MDTM_set"] = "no"
    BY <1>1, <1>3, <1>4, <2>1 DEF HeardOK, Commands
  <2>2. ASSUME DOMAIN over = {}, NEW c \in {"MFMT", "MFF"}, c \in srv.does
        PROVE  IsNext("FEAT")'
    <3>0. "FEAT" \in srv.does
      BY <1>1, <2>2, KindsAssumption DEF Types, KindsAssumption
    <3>1. srv.kind # "NetWare"
      BY <1>1, <3>0, KindsAssumption DEF Types, KindsAssumption
    <3>2. has'["FEAT"] # "no"
      BY <1>2, <1>8, <2>2, <3>0 DEF LearntIsTrue, Commands
    <3>3. plan' = <<"FEAT">>
      BY <1>2, <3>1, <3>2
    <3> QED
      BY <3>3 DEF IsNext
  <2>3. ~IsNext("STAT entry")'
    BY <1>2 DEF IsNext
  <2> QED
    BY <1>2, <2>1, <2>2, <2>3 DEF HeardOK
<1>10. CallOK' /\ UtimeOK' /\ ExistsRight' /\ UtimeSets'
  BY <1>5 DEF CallOK, UtimeOK, ExistsRight, UtimeSets
<1>11. OverridesHold'
  BY <1>2 DEF OverridesHold
<1> QED
  BY <1>6, <1>7, <1>8, <1>9, <1>10, <1>11 DEF IInv

\* Only the opening asks for FEAT and ends with "opened".
LEMMA OpeningIs ==
  ASSUME Types, PlanOK, NEW c \in {"FEAT", "opened"}, IsNext(c)
  PROVE  call.name = "Open" /\ call.res = "none" /\ opens > 0
<1>1. plan # <<>> /\ Head(plan) = c
  BY DEF IsNext
<1>2. call.name \notin Queries
  <2> SUFFICES ASSUME call.name \in Queries PROVE FALSE
    OBVIOUS
  <2>1. plan \in Seq(Words)
    BY DEF PlanOK, EndOf
  <2>2. Head(plan) \in Words
    BY <1>1, <2>1
  <2> QED
    BY <1>1, <2>2 DEF Words, Steps
<1>3. call.name \in Queries \cup {"none", "Open"}
  BY DEF Types, CallRecords
<1> QED
  BY <1>1, <1>2, <1>3 DEF PlanOK

LEMMA FEATInv ==
  ASSUME IInv, AskFEAT
  PROVE  IInv'
<1>1. Types /\ LearntIsTrue /\ HeardOK /\ PlanOK /\ CallOK /\ IsNext("FEAT")
  BY DEF IInv, AskFEAT
<1>0. PICK r \in {"ok", "refused", "unimplemented"} :
        /\ (r = "unimplemented") = ("FEAT" \notin srv.does)
        /\ r = "refused" => denials < MaxDenials
        /\ denials' = IF r = "refused" THEN denials + 1 ELSE denials
        /\ feat' = [listed |-> feat.listed \/ r = "ok", refused |-> r = "refused"]
        /\ has' = LearntFromFEAT(has, r)
  BY DEF AskFEAT
<1>2. /\ srv' = srv /\ item' = item /\ over' = over /\ seen' = seen /\ opens' = opens
      /\ usedMLS' = usedMLS /\ opts' = opts /\ call' = call /\ refused' = refused
      /\ plan' = <<"opened">>
  BY DEF AskFEAT
<1>3. call.name = "Open" /\ call.res = "none" /\ opens > 0 /\ refused = {}
  BY <1>1, OpeningIs DEF HeardOK
<1>4. /\ has' \in [Commands -> Values]
      /\ r = "ok" =>
           \A c \in Commands : has'[c] = IF c = "FEAT" \/ (c \in Listed /\ c \in srv.does)
                                         THEN "yes" ELSE has[c]
      /\ r # "ok" =>
           \A c \in Commands : has'[c] = IF c \in {"MLST", "MFMT", "MFF"} THEN "no" ELSE has[c]
  <2>1. has \in [Commands -> Values]
    BY <1>1 DEF Types
  <2>2. CASE r = "ok"
    BY <1>0, <2>1, <2>2 DEF LearntFromFEAT, Values
  <2>3. CASE r # "ok"
    BY <1>0, <2>1, <2>3 DEF LearntFromFEAT, Values, Commands
  <2> QED
    BY <2>2, <2>3
<1>5. "FEAT" \notin srv.does => srv.does \cap {"MLST", "MFMT", "MFF"} = {}
  BY <1>1, KindsAssumption DEF Types, KindsAssumption
<1>6. Types'
  <2>1. denials' \in 0 .. MaxDenials
    BY <1>0, <1>1, ItemIs DEF Types
  <2>2. feat' \in [listed: BOOLEAN, refused: BOOLEAN]
    <3>1. (feat.listed \/ r = "ok") \in BOOLEAN /\ (r = "refused") \in BOOLEAN
      BY <1>1 DEF Types
    <3> QED
      BY <1>0, <3>1
  <2> QED
    BY <1>1, <1>2, <1>4, <2>1, <2>2 DEF Types
<1>7. PlanOK'
  BY <1>2, <1>3 DEF PlanOK, Queries
<1>8. LearntIsTrue'
  <2>1. CASE r = "ok"
    <3>1. "FEAT" \in srv.does
      BY <1>0, <2>1
    <3>2. ASSUME NEW c \in Commands \ ({"MDTM_set"} \cup DOMAIN over)
          PROVE  /\ has'[c] = "yes" => c \in srv.does /\ (c = "STAT" => srv.param = "yes")
                 /\ has'[c] = "no" =>
                      \/ c \notin srv.does \/ c \in {"STAT", "NLST"}
                      \/ feat'.refused /\ c \in {"MLST", "MFMT", "MFF"}
      <4>1. CASE c = "FEAT" \/ c \in Listed
        BY <1>1, <1>4, <2>1, <3>1, <4>1 DEF LearntIsTrue, Listed
      <4>2. CASE c \notin Listed /\ c # "FEAT"
        BY <1>1, <1>4, <2>1, <4>2 DEF LearntIsTrue, Listed
      <4> QED
        BY <4>1, <4>2
    <3> QED
      BY <1>2, <3>2 DEF LearntIsTrue
  <2>2. CASE r = "refused"
    <3>1. feat'.refused
      BY <1>0, <2>2
    <3> QED
      BY <1>1, <1>2, <1>4, <2>2, <3>1 DEF LearntIsTrue
  <2>3. CASE r = "unimplemented"
    BY <1>0, <1>1, <1>2, <1>4, <1>5, <2>3 DEF LearntIsTrue
  <2> QED
    BY <2>1, <2>2, <2>3
<1>9. HeardOK'
  <2>1. ASSUME DOMAIN over = {}, has'["MDTM"] = "no" PROVE has'["MDTM_set"] = "no"
    BY <1>1, <1>4, <2>1 DEF HeardOK, Commands, Listed
  <2>2. ASSUME denials' = 0, NEW c \in {"MFMT", "MFF"}, c \in srv.does
        PROVE  has'[c] = "yes"
    <3>1. "FEAT" \in srv.does
      BY <1>5, <2>2
    <3>2. r # "refused"
      BY <1>0, <1>1, <2>2, ItemIs DEF Types
    <3>3. r = "ok"
      BY <1>0, <3>1, <3>2
    <3> QED
      BY <1>4, <2>2, <3>3 DEF Commands, Listed
  <2>3. ~IsNext("STAT entry")'
    BY <1>2 DEF IsNext
  <2> QED
    BY <1>2, <1>3, <2>1, <2>2, <2>3 DEF HeardOK
<1>10. CallOK'
  BY <1>1, <1>2 DEF CallOK
<1>11. UtimeOK' /\ ExistsRight' /\ UtimeSets'
  BY <1>2, <1>3 DEF UtimeOK, ExistsRight, UtimeSets
<1>12. OverridesHold'
  BY <1>2 DEF OverridesHold
<1> QED
  BY <1>6, <1>7, <1>8, <1>9, <1>10, <1>11, <1>12 DEF IInv

LEMMA OpenedInv ==
  ASSUME IInv, Opened
  PROVE  IInv'
<1>1. Types /\ LearntIsTrue /\ HeardOK /\ PlanOK /\ CallOK /\ IsNext("opened")
  BY DEF IInv, Opened
<1>2. /\ srv' = srv /\ feat' = feat /\ item' = item /\ over' = over /\ seen' = seen /\ opens' = opens
      /\ usedMLS' = usedMLS /\ opts' = opts /\ call' = [call EXCEPT !.res = "ok"]
      /\ refused' = refused /\ denials' = denials /\ has' = Overridden(has) /\ plan' = <<>>
  BY DEF Opened, world
<1>3. call.name = "Open" /\ opens > 0 /\ ~IsNext("FEAT")
  BY <1>1, OpeningIs DEF IsNext
<1>4. /\ has' \in [Commands -> Values] /\ \A c \in Commands \ DOMAIN over : has'[c] = has[c]
      /\ \A c \in DOMAIN over : has'[c] = over[c]
  BY <1>1, <1>2, OverriddenIs
<1>5. /\ call' \in CallRecords /\ call'.res = "ok" /\ call'.name = call.name
      /\ call'.type = call.type /\ call'.size = call.size /\ call'.mdtm = call.mdtm
  BY <1>1, <1>2 DEF Types, CallRecords, Results
<1>6. Types'
  BY <1>1, <1>2, <1>4, <1>5 DEF Types
<1>7. PlanOK'
  BY <1>2, <1>3, <1>5 DEF PlanOK, Queries
<1>8. LearntIsTrue'
  BY <1>1, <1>2, <1>4 DEF LearntIsTrue
<1>9. HeardOK'
  <2>1. refused \subseteq Commands
    BY <1>1 DEF Types, Tried, Commands
  <2>2. ~IsNext("STAT entry")' /\ ~IsNext("FEAT")'
    BY <1>2 DEF IsNext
  <2>3. \A c \in refused' \ DOMAIN over' : has'[c] = "no"
    BY <1>1, <1>2, <1>4, <2>1 DEF HeardOK
  <2>4. DOMAIN over = {} => /\ has'["MDTM"] = has["MDTM"] /\ has'["MDTM_set"] = has["MDTM_set"]
                            /\ has'["MFMT"] = has["MFMT"] /\ has'["MFF"] = has["MFF"]
    BY <1>4 DEF Commands
  <2> QED
    BY <1>1, <1>2, <1>3, <2>2, <2>3, <2>4 DEF HeardOK
<1>10. CallOK'
  BY <1>1, <1>2, <1>3, <1>5 DEF CallOK
<1>11. UtimeOK' /\ ExistsRight' /\ UtimeSets'
  BY <1>3, <1>5 DEF UtimeOK, ExistsRight, UtimeSets
<1>12. OverridesHold'
  BY <1>2, <1>4 DEF OverridesHold
<1> QED
  BY <1>6, <1>7, <1>8, <1>9, <1>10, <1>11, <1>12 DEF IInv

------------------------------------------------------------------------------
(* The calls begin, and the rest of the world *)

LEMMA WholePlan ==
  ASSUME NEW name \in Queries
  PROVE  /\ EndOf(Plans[name], Plans[name]) /\ Plans[name] # <<>>
         /\ Head(Plans[name]) \in Steps /\ (name = "Utime" => Len(Plans[name]) = 4)
<1> DEFINE P == Plans[name]
<1>1. P \in Seq(Words) /\ Len(P) \in Nat /\ \A i \in 1 .. Len(P) : P[i] \in Steps
  BY PlansAre
<1>2. P # <<>> /\ (name = "Utime" => Len(P) = 4)
  BY DEF Plans, Queries
<1> HIDE DEF P
<1>3. \A i \in 1 .. Len(P) : i + Len(P) - Len(P) = i
  BY <1>1
<1>4. EndOf(P, P)
  BY <1>1, <1>3 DEF EndOf
<1>5. Len(P) >= 1 /\ Head(P) = P[1]
  BY <1>1, <1>2, EmptySeq
<1> QED
  BY <1>1, <1>2, <1>4, <1>5 DEF P

LEMMA CallInv ==
  ASSUME IInv, NEW name \in Queries, Call(name), call' \in CallRecords, call'.name = name,
         call'.res = "none", call'.size = Unknown, call'.mdtm = Unknown, ~call'.denied,
         call'.type = "A" => name \in {"FileSize", "SizeTime"}
  PROVE  IInv'
<1>1. Types /\ LearntIsTrue /\ HeardOK /\ PlanOK
  BY DEF IInv
<1>2. /\ plan = <<>> /\ opens > 0 /\ plan' = Plans[name] /\ seen' = {item}
      /\ srv' = srv /\ feat' = feat /\ item' = item /\ over' = over /\ has' = has /\ usedMLS' = usedMLS
      /\ opts' = opts /\ refused' = refused /\ opens' = opens /\ denials' = denials
  BY DEF Call
<1>3. /\ EndOf(plan', Plans[name]) /\ plan' # <<>> /\ Head(plan') \in Steps
      /\ name = "Utime" => Len(plan') = 4
  BY <1>2, WholePlan
<1>4. Types'
  BY <1>1, <1>2 DEF Types
<1>5. PlanOK'
  BY <1>2, <1>3 DEF PlanOK, Queries
<1>6. LearntIsTrue'
  BY <1>1, <1>2 DEF LearntIsTrue
<1>7. HeardOK'
  <2>1. ~IsNext("FEAT") /\ ~IsNext("FEAT")' /\ ~IsNext("STAT entry")'
    BY <1>2, <1>3 DEF IsNext, Steps
  <2>2. call.name # "none"
    BY <1>1, <1>2 DEF PlanOK
  <2> QED
    BY <1>1, <1>2, <2>1, <2>2 DEF HeardOK
<1>8. CallOK' /\ ExistsRight' /\ UtimeSets'
  BY DEF CallOK, ExistsRight, UtimeSets
<1>9. UtimeOK'
  <2>1. ASSUME NEW n \in Nat, n = 4 PROVE ~(n <= 3) /\ ~(n <= 2) /\ ~(n <= 1)
    BY <2>1
  <2>2. name = "Utime" => ~(Len(plan') <= 3) /\ ~(Len(plan') <= 2) /\ ~(Len(plan') <= 1)
    BY <1>3, <2>1
  <2> QED
    BY <2>2 DEF UtimeOK
<1>10. OverridesHold'
  BY DEF OverridesHold, Queries
<1> QED
  BY <1>4, <1>5, <1>6, <1>7, <1>8, <1>9, <1>10 DEF IInv

LEMMA CallsInv ==
  ASSUME IInv, \/ FTPFileSize \/ FTPFileModificationTime \/ FTPFileSizeAndModificationTime
               \/ FTPFileExists \/ FTPFileType \/ FTPUtime
  PROVE  IInv'
<1>1. CASE FTPFileSize
  <2>1. PICK t \in {"A", "I"} : call' = [NoCall EXCEPT !.name = "FileSize", !.type = t]
    BY <1>1 DEF FTPFileSize
  <2>2. Call("FileSize")
    BY <1>1 DEF FTPFileSize
  <2>3. /\ call' \in CallRecords /\ call'.name = "FileSize" /\ call'.res = "none"
        /\ call'.size = Unknown /\ call'.mdtm = Unknown /\ ~call'.denied
    BY <2>1 DEF NoCall, CallRecords, Queries, Results, Unknown
  <2> QED
    BY <2>2, <2>3, CallInv DEF Queries
<1>2. CASE FTPFileModificationTime
  <2>1. Call("ModTime") /\ call' = [NoCall EXCEPT !.name = "ModTime"]
    BY <1>2 DEF FTPFileModificationTime
  <2>2. /\ call' \in CallRecords /\ call'.name = "ModTime" /\ call'.res = "none" /\ call'.type = "I"
        /\ call'.size = Unknown /\ call'.mdtm = Unknown /\ ~call'.denied
    BY <2>1 DEF NoCall, CallRecords, Queries, Results, Unknown
  <2> QED
    BY <2>1, <2>2, CallInv DEF Queries
<1>3. CASE FTPFileSizeAndModificationTime
  <2>1. PICK t \in {"A", "I"} : call' = [NoCall EXCEPT !.name = "SizeTime", !.type = t]
    BY <1>3 DEF FTPFileSizeAndModificationTime
  <2>2. Call("SizeTime")
    BY <1>3 DEF FTPFileSizeAndModificationTime
  <2>3. /\ call' \in CallRecords /\ call'.name = "SizeTime" /\ call'.res = "none"
        /\ call'.size = Unknown /\ call'.mdtm = Unknown /\ ~call'.denied
    BY <2>1 DEF NoCall, CallRecords, Queries, Results, Unknown
  <2> QED
    BY <2>2, <2>3, CallInv DEF Queries
<1>4. CASE FTPFileExists
  <2>1. Call("Exists") /\ call' = [NoCall EXCEPT !.name = "Exists"]
    BY <1>4 DEF FTPFileExists
  <2>2. /\ call' \in CallRecords /\ call'.name = "Exists" /\ call'.res = "none" /\ call'.type = "I"
        /\ call'.size = Unknown /\ call'.mdtm = Unknown /\ ~call'.denied
    BY <2>1 DEF NoCall, CallRecords, Queries, Results, Unknown
  <2> QED
    BY <2>1, <2>2, CallInv DEF Queries
<1>5. CASE FTPFileType
  <2>1. Call("FileType") /\ call' = [NoCall EXCEPT !.name = "FileType"]
    BY <1>5 DEF FTPFileType
  <2>2. /\ call' \in CallRecords /\ call'.name = "FileType" /\ call'.res = "none" /\ call'.type = "I"
        /\ call'.size = Unknown /\ call'.mdtm = Unknown /\ ~call'.denied
    BY <2>1 DEF NoCall, CallRecords, Queries, Results, Unknown
  <2> QED
    BY <2>1, <2>2, CallInv DEF Queries
<1>6. CASE FTPUtime
  <2>1. PICK t \in {7, 8}, cr \in BOOLEAN :
          call' = [NoCall EXCEPT !.name = "Utime", !.want = t, !.create = cr]
    BY <1>6 DEF FTPUtime
  <2>2. Call("Utime")
    BY <1>6 DEF FTPUtime
  <2>3. /\ call'.name = "Utime" /\ call'.res = "none" /\ call'.type = "I"
        /\ call'.size = Unknown /\ call'.mdtm = Unknown /\ ~call'.denied
    BY <2>1 DEF NoCall
  <2>4. call' \in CallRecords
    <3>1. NoCall \in CallRecords
      BY DEF NoCall, CallRecords, Queries, Results, Unknown
    <3>2. [NoCall EXCEPT !.name = "Utime"] \in CallRecords
      BY <3>1 DEF CallRecords, Queries
    <3>3. t \in Nat
      OBVIOUS
    <3>4. ASSUME NEW c \in CallRecords, NEW n \in Nat
          PROVE  [c EXCEPT !.want = n] \in CallRecords
      BY <3>4 DEF CallRecords
    <3>5. ASSUME NEW c \in CallRecords, NEW b \in BOOLEAN
          PROVE  [c EXCEPT !.create = b] \in CallRecords
      BY <3>5 DEF CallRecords
    <3>6. call' = [[[NoCall EXCEPT !.name = "Utime"] EXCEPT !.want = t] EXCEPT !.create = cr]
      BY <2>1
    <3> QED
      BY <3>2, <3>3, <3>4, <3>5, <3>6
  <2> QED
    BY <2>2, <2>3, <2>4, CallInv DEF Queries
<1> QED
  BY <1>1, <1>2, <1>3, <1>4, <1>5, <1>6

\* Steps that change neither the call nor what is held of the server: OPTS, another
\* client's, and none.
LEMMA AsideInv ==
  ASSUME IInv, srv' = srv, feat' = feat, over' = over, has' = has, plan' = plan, call' = call,
         refused' = refused, opens' = opens, denials' = denials,
         usedMLS' \in BOOLEAN, opts' \in BOOLEAN,
         item' \in Item, item' \in seen', seen \subseteq seen'
  PROVE  IInv'
<1>1. /\ Types /\ PlanOK /\ HeardOK /\ CallOK /\ UtimeOK
      /\ LearntIsTrue /\ OverridesHold /\ ExistsRight /\ UtimeSets
  BY DEF IInv
<1>2. Types'
  BY <1>1 DEF Types
<1>3. PlanOK'
  BY <1>1 DEF PlanOK
<1>4. HeardOK'
  BY <1>1 DEF HeardOK, IsNext
<1>5. CallOK'
  BY <1>1 DEF CallOK
<1>6. UtimeOK'
  BY <1>1 DEF UtimeOK, Excused
<1>7. LearntIsTrue'
  BY <1>1 DEF LearntIsTrue
<1>8. OverridesHold'
  BY <1>1 DEF OverridesHold
<1>9. ExistsRight'
  BY <1>1 DEF ExistsRight, TakenOnTrust, Overlooked
<1>10. UtimeSets'
  BY <1>1 DEF UtimeSets
<1> QED
  BY <1>2, <1>3, <1>4, <1>5, <1>6, <1>7, <1>8, <1>9, <1>10 DEF IInv

LEMMA RequestMlsOptionsInv ==
  ASSUME IInv, RequestMlsOptions
  PROVE  IInv'
<1>1. Types
  BY DEF IInv
<1>2. /\ srv' = srv /\ feat' = feat /\ over' = over /\ has' = has /\ plan' = plan /\ call' = call
      /\ refused' = refused /\ opens' = opens /\ denials' = denials
      /\ usedMLS' \in BOOLEAN /\ opts' \in BOOLEAN /\ item' = item /\ seen' = seen
  BY <1>1 DEF RequestMlsOptions, world, FactsListed, Types
<1>3. item \in Item /\ item \in seen
  BY <1>1 DEF Types
<1> QED
  BY <1>2, <1>3, AsideInv

LEMMA MeddleInv ==
  ASSUME IInv, Meddle
  PROVE  IInv'
<1>1. Types
  BY DEF IInv
<1>2. /\ srv' = srv /\ feat' = feat /\ over' = over /\ has' = has /\ plan' = plan /\ call' = call
      /\ refused' = refused /\ opens' = opens /\ denials' = denials
      /\ usedMLS' = usedMLS /\ opts' = opts /\ item' \in Items /\ seen' = seen \cup {item'}
  BY DEF Meddle
<1>3. item' \in Item /\ usedMLS \in BOOLEAN /\ opts \in BOOLEAN
  BY <1>1, <1>2, ConstantsAssumption DEF Types, ConstantsAssumption
<1> QED
  BY <1>2, <1>3, AsideInv

LEMMA NextInv ==
  ASSUME IInv, [Next]_vars
  PROVE  IInv'
<1>1. CASE FTPOpenHost
  BY <1>1, OpenInv
<1>2. CASE AskFEAT
  BY <1>2, FEATInv
<1>3. CASE Opened
  BY <1>3, OpenedInv
<1>4. CASE \/ FTPFileSize \/ FTPFileModificationTime \/ FTPFileSizeAndModificationTime
           \/ FTPFileExists \/ FTPFileType \/ FTPUtime
  BY <1>4, CallsInv
<1>5. CASE AskSIZE
  BY <1>5, SIZEInv
<1>6. CASE AskMDTM
  BY <1>6, MDTMInv
<1>7. CASE RequestMlsOptions
  BY <1>7, RequestMlsOptionsInv
<1>8. CASE AskMLST
  BY <1>8, MLSTInv
<1>9. CASE AskCWD
  BY <1>9, CWDInv
<1>10. CASE AskMFF \/ AskMFMT
  BY <1>10, ListedInv DEF AskMFF, AskMFMT
<1>11. CASE AskUTIME
  BY <1>11, UTIMEInv
<1>12. CASE SetByMDTM
  BY <1>12, SetByMDTMInv
<1>13. CASE ProbeSTAT \/ ProbeNLST
  BY <1>13, ProbeMissingInv, ProbeEntryInv DEF ProbeSTAT, ProbeNLST
<1>14. CASE AskSTAT \/ AskNLST
  BY <1>14, ParamInv DEF AskSTAT, AskNLST
<1>15. CASE Meddle
  BY <1>15, MeddleInv
<1>16. CASE UNCHANGED vars
  <2>1. Types
    BY DEF IInv
  <2>2. /\ srv' = srv /\ feat' = feat /\ over' = over /\ has' = has /\ plan' = plan /\ call' = call
        /\ refused' = refused /\ opens' = opens /\ denials' = denials
        /\ usedMLS' = usedMLS /\ opts' = opts /\ item' = item /\ seen' = seen
    BY <1>16 DEF vars
  <2>3. item \in Item /\ item \in seen /\ usedMLS \in BOOLEAN /\ opts \in BOOLEAN
    BY <2>1 DEF Types
  <2> QED
    BY <2>2, <2>3, AsideInv
<1> QED
  BY <1>1, <1>2, <1>3, <1>4, <1>5, <1>6, <1>7, <1>8, <1>9, <1>10, <1>11, <1>12, <1>13, <1>14,
     <1>15, <1>16 DEF Next

------------------------------------------------------------------------------
(* The theorems *)

\* The inductive invariant holds in every state: what is left of a call's plan, what is
\* held of the server and what has been heard of the item belong together.
THEOREM Invariance == Spec => []IInv
<1>1. Init => IInv
  BY InitInv
<1>2. IInv /\ [Next]_vars => IInv'
  BY NextInv
<1> QED
  BY <1>1, <1>2, PTL DEF Spec

\* What the library holds of a server is what it is, or what the user has said: no
\* command that it has is given up because of a refusal, and none is relied on that it
\* has not (c_*.c, open.c:450-625, u_feat.c:108).  The exceptions are LearntIsTrue's:
\* MDTM with a time, fruitless probes of STAT and NLST, and MLST, MFMT and MFF while
\* the last FEAT was refused for the moment.
THEOREM HeldIsTrue == Spec => []HeldIsRight
<1>1. IInv => TypeOK
  <2> SUFFICES ASSUME IInv PROVE TypeOK
    OBVIOUS
  <2>1. Types /\ PlanOK
    BY DEF IInv
  <2>2. item.kind \in {"none", "file", "dir"}
    BY <2>1, ItemIs
  <2>3. call.size \in Nat \cup {Unknown} /\ call.mdtm \in Nat \cup {Unknown}
    BY <2>1 DEF Types, CallRecords
  <2>4. refused \subseteq Commands /\ has \in [Commands -> {"unknown", "yes", "no"}]
    BY <2>1 DEF Types, Tried, Commands, Values
  <2> QED
    BY <2>1, <2>2, <2>3, <2>4 DEF TypeOK, Types, PlanOK
<1>2. IInv => HeldIsRight
  BY <1>1 DEF HeldIsRight, IInv
<1> QED
  BY <1>2, Invariance, PTL

\* A size, a time, a type or the existence of an item is answered as it was at some
\* moment of the call, whatever other clients do between its commands.  A "no" may be
\* wrong of a directory whose MDTM the server refuses, and of an empty one that STAT or
\* NLST lists as nothing (c_exists.c:390-395, 172-209, 350-369).
THEOREM AnswersAreTrue == Spec => []AnswersRight
<1>1. IInv => AnswersRight
  BY DEF IInv, CallOK, AnswersRight, AnswersTrue
<1> QED
  BY <1>1, Invariance, PTL

\* FTPUtime's success means that the time was set, and its failure that something was
\* denied or overridden, or that the server has none of MFMT, UTIME and, as far as the
\* library has not given it up, MDTM with a time, nor MFF when a time of creation was
\* given: without one MFF is not tried (c_utime.c:92).
THEOREM UtimeIsRight == Spec => []UtimeSets
<1>1. IInv => UtimeSets
  BY DEF IInv
<1> QED
  BY <1>1, Invariance, PTL

\* What the server has called unimplemented is not sent again in the session.
THEOREM RefusalsHeeded == Spec => NotAskedAgain
<1> DEFINE Heeded == sent' # "none" /\ sent' \notin DOMAIN over => sent' \notin refused
<1>1. ASSUME IInv, [Next]_vars
      PROVE  [Heeded]_vars
  <2>1. refused \subseteq Tried /\ \A c \in refused \ DOMAIN over : has[c] = "no"
    BY <1>1 DEF IInv, Types, HeardOK
  <2>2. CASE \/ FTPOpenHost \/ Opened \/ Meddle
             \/ FTPFileSize \/ FTPFileModificationTime \/ FTPFileSizeAndModificationTime
             \/ FTPFileExists \/ FTPFileType \/ FTPUtime
    <3>1. sent' = "none"
      BY <2>2 DEF FTPOpenHost, Opened, Meddle, Call, FTPFileSize, FTPFileModificationTime,
                  FTPFileSizeAndModificationTime, FTPFileExists, FTPFileType, FTPUtime
    <3> QED
      BY <3>1
  <2>3. CASE AskFEAT \/ RequestMlsOptions \/ AskCWD \/ ProbeSTAT \/ ProbeNLST
    <3>1. sent' \in {"none", "FEAT", "OPTS", "CWD", "STAT", "NLST"}
      BY <2>3 DEF AskFEAT, RequestMlsOptions, AskCWD, Got, ProbeSTAT, ProbeNLST, ProbeMissing,
                  ProbeEntry
    <3>2. sent' # "none" => sent' \notin Tried
      BY <3>1 DEF Tried
    <3> QED
      BY <2>1, <3>2
  <2>4. CASE AskMFF \/ AskMFMT \/ AskSTAT \/ AskNLST
    <3>1. sent' \in {"none", "MFF", "MFMT", "STAT", "NLST"}
      BY <2>4 DEF AskMFF, AskMFMT, AskListed, AskSTAT, AskNLST, AskParam, Passes, Got
    <3>2. sent' # "none" => sent' \notin Tried
      BY <3>1 DEF Tried
    <3> QED
      BY <2>1, <3>2
  <2>5. CASE AskSIZE \/ AskMDTM \/ AskMLST \/ AskUTIME \/ SetByMDTM
    <3>1. sent' = "none" \/ (sent' \in Tried /\ has[sent'] # "no")
      BY <2>5 DEF AskSIZE, AskMDTM, AskMLST, AskUTIME, SetByMDTM, NoMLST, Passes, Got, Tried
    <3> QED
      BY <2>1, <3>1
  <2>6. CASE UNCHANGED vars
    BY <2>6
  <2> QED
    BY <1>1, <2>2, <2>3, <2>4, <2>5, <2>6 DEF Next
<1> QED
  BY <1>1, Invariance, PTL DEF Spec, NotAskedAgain
==============================================================================
