------------------------- MODULE RemoteDirs_proofs -------------------------
(***************************************************************************)
(* Proofs about RemoteDirs, for any directories, paths and bounds.         *)
(***************************************************************************)
EXTENDS RemoteDirs, SequenceTheorems, WellFoundedInduction, TLAPS

\* The two records have their fields, whatever is in them: a directory that a
\* path resolves to need not be one of Dirs.
Shape ==
  /\ cip = [cwd |-> cip.cwd, start |-> cip.start, buf |-> cip.buf,
            hasMLST |-> cip.hasMLST, stat |-> cip.stat, nlst |-> cip.nlst]
  /\ srv = [cwd |-> srv.cwd, dirs |-> srv.dirs, mlst |-> srv.mlst]

CacheInv == Shape /\ CacheCoherent

\* A change of directory, taken or refused, with what FTPChdir does to the cache.
LEMMA ChdirStep ==
  ASSUME CacheInv, NEW path, NEW ok, NEW c, CWD(path, ok, c), cip' = Moved(cip, ok)
  PROVE  CacheInv'
<1>1. CASE ok
  BY <1>1 DEF CacheInv, Shape, CacheCoherent, CWD, Moved, Unasked, Denied
<1>2. CASE ~ok
  BY <1>2 DEF CacheInv, Shape, CacheCoherent, CWD, Moved, Unasked, Denied
<1> QED
  BY <1>1, <1>2

\* FTPGetCWD: the cache holds what it held, or what the server has just said.
LEMMA GetCWDStep ==
  ASSUME CacheInv, NEW ok, NEW got, NEW c, NEW buf, GetCWD(ok, got, c),
         \/ cip' = [cip EXCEPT !.cwd = got]
         \/ cip' = [cip EXCEPT !.cwd = got, !.buf = buf]
  PROVE  CacheInv'
BY DEF CacheInv, Shape, CacheCoherent, GetCWD, Unasked, Denied

\* Steps that leave the cache and the server's working directory alone.
LEMMA StillStep ==
  ASSUME CacheInv, Shape', cip'.cwd = cip.cwd, srv'.cwd = srv.cwd
  PROVE  CacheInv'
BY DEF CacheInv, CacheCoherent

\* A step without a command.
LEMMA UnaskedStep ==
  ASSUME CacheInv, NEW c, Unasked(c), UNCHANGED cip
  PROVE  CacheInv'
BY DEF CacheInv, CacheCoherent, Shape, Unasked

\* Making a directory does not move the session.
LEMMA MKDStep ==
  ASSUME CacheInv, NEW path, NEW ok, NEW c, MKD(path, ok, c), UNCHANGED cip
  PROVE  CacheInv'
BY DEF CacheInv, CacheCoherent, Shape, MKD, Unasked, Denied

\* Nor does removing one.
LEMMA RMDStep ==
  ASSUME CacheInv, NEW path, NEW ok, NEW c, RMD(path, ok, c), UNCHANGED cip
  PROVE  CacheInv'
BY DEF CacheInv, CacheCoherent, Shape, RMD, Unasked, Denied

-----------------------------------------------------------------------------
(* One lemma for each group of actions.                                     *)

\* Changes of directory on behalf of the application.
LEMMA ChangeDirStep ==
  ASSUME CacheInv, ChangeDir
  PROVE  CacheInv'
<1>1. PICK ok \in BOOLEAN, quoted \in BOOLEAN :
        \E c : /\ CWD(Step, ok, c)
               /\ WithPWD => Step # <<"">>
               /\ cip' = IF ok /\ quoted /\ WithPWD
                         THEN [Moved(cip, ok) EXCEPT !.cwd = {PathOf(Target(Step))}]
                         ELSE Moved(cip, ok)
  BY DEF ChangeDir
<1>2. PICK c : /\ CWD(Step, ok, c)
               /\ WithPWD => Step # <<"">>
               /\ cip' = IF ok /\ quoted /\ WithPWD
                         THEN [Moved(cip, ok) EXCEPT !.cwd = {PathOf(Target(Step))}]
                         ELSE Moved(cip, ok)
  BY <1>1
<1>3. CASE ok /\ quoted /\ WithPWD
  <2>1. cip' = [cip EXCEPT !.cwd = {PathOf(Target(Step))}]
    BY <1>2, <1>3 DEF Moved, CacheInv, Shape
  <2>2. srv' = [srv EXCEPT !.cwd = Target(Step)]
    BY <1>2, <1>3 DEF CWD
  <2> QED
    BY <2>1, <2>2 DEF CacheInv, Shape, CacheCoherent
<1>4. CASE ~(ok /\ quoted /\ WithPWD)
  <2>1. cip' = Moved(cip, ok)
    BY <1>2, <1>4
  <2> QED
    BY <1>2, <2>1, ChdirStep
<1> QED
  BY <1>3, <1>4

\* The actions that are one CWD or CDUP, and the step that follows it.
LEMMA ChdirSteps ==
  ASSUME CacheInv,
         \/ TryExisting \/ LeaveExisting \/ FindParent \/ GoBack
         \/ TryToEnter \/ LeaveEntered
  PROVE  CacheInv'
<1>1. CASE TryExisting
  BY <1>1, ChdirStep DEF TryExisting
<1>2. CASE LeaveExisting
  BY <1>2, ChdirStep DEF LeaveExisting
<1>3. CASE FindParent
  BY <1>3, ChdirStep DEF FindParent
<1>4. CASE GoBack
  BY <1>4, ChdirStep DEF GoBack
<1>5. CASE TryToEnter
  BY <1>5, ChdirStep DEF TryToEnter
<1>6. CASE LeaveEntered
  BY <1>6, ChdirStep DEF LeaveEntered
<1> QED
  BY <1>1, <1>2, <1>3, <1>4, <1>5, <1>6

\* The actions that are a FTPGetCWD, from the cache or from the server.
LEMMA GetCWDSteps ==
  ASSUME CacheInv, AskPWD \/ NotePlace \/ NotePlaceForType \/ NotePlaceForRmdir
  PROVE  CacheInv'
<1>1. CASE AskPWD
  BY <1>1, GetCWDStep DEF AskPWD
<1>2. CASE NotePlace
  BY <1>2, GetCWDStep DEF NotePlace
<1>3. CASE NotePlaceForType
  BY <1>3, GetCWDStep DEF NotePlaceForType
<1>4. CASE NotePlaceForRmdir
  BY <1>4, GetCWDStep DEF NotePlaceForRmdir
<1> QED
  BY <1>1, <1>2, <1>3, <1>4

\* What is learnt about STAT and NLST is no part of the cache.
LEMMA LearntStep ==
  ASSUME CacheInv, NEW d, NEW works,
         d = [cwd |-> d.cwd, start |-> d.start, buf |-> d.buf,
              hasMLST |-> d.hasMLST, stat |-> d.stat, nlst |-> d.nlst]
  PROVE  /\ Learnt(d, works).cwd = d.cwd
         /\ Learnt(d, works) = [cwd |-> Learnt(d, works).cwd, start |-> Learnt(d, works).start,
                buf |-> Learnt(d, works).buf, hasMLST |-> Learnt(d, works).hasMLST,
                stat |-> Learnt(d, works).stat, nlst |-> Learnt(d, works).nlst]
<1>1. CASE call.probe = "stat"
  BY <1>1 DEF Learnt
<1>2. CASE call.probe # "stat"
  BY <1>2 DEF Learnt
<1> QED
  BY <1>1, <1>2

\* The probes move the session and come back, learning on the way.
LEMMA ProbeSteps ==
  ASSUME CacheInv, Probe \/ SkipProbe \/ ProbeKnown \/ ProbeStart \/ ProbeBack
  PROVE  CacheInv'
<1>1. CASE Probe
  <2>1. CASE \E c : Unasked(c) /\ cip' = Learnt(cip, "no")
    <3>1. PICK c : Unasked(c) /\ cip' = Learnt(cip, "no")
      BY <2>1
    <3>2. Shape' /\ cip'.cwd = cip.cwd /\ srv'.cwd = srv.cwd
      BY <3>1, LearntStep DEF CacheInv, Shape, Unasked
    <3> QED
      BY <3>2, StillStep
  <2>2. CASE \E ok, got, c : GetCWD(ok, got, c) /\ cip' = [cip EXCEPT !.cwd = got]
    BY <2>2, GetCWDStep
  <2> QED
    BY <1>1, <2>1, <2>2 DEF Probe
<1>2. CASE SkipProbe
  BY <1>2, UnaskedStep DEF SkipProbe
<1>3. CASE ProbeKnown
  BY <1>3, UnaskedStep DEF ProbeKnown
<1>4. CASE ProbeStart
  BY <1>4, UnaskedStep, ChdirStep DEF ProbeStart
<1>5. CASE ProbeBack
  <2>1. PICK ok \in BOOLEAN, works \in {"yes", "no"} :
          \E c : CWD(Str(call.saved), ok, c) /\ cip' = Learnt(Moved(cip, ok), works)
    BY <1>5 DEF ProbeBack
  <2>2. PICK c : CWD(Str(call.saved), ok, c) /\ cip' = Learnt(Moved(cip, ok), works)
    BY <2>1
  <2> DEFINE d == Moved(cip, ok)
  <2>3. d = [cwd |-> d.cwd, start |-> d.start, buf |-> d.buf,
             hasMLST |-> d.hasMLST, stat |-> d.stat, nlst |-> d.nlst]
    BY DEF Moved, CacheInv, Shape
  <2>4. d.cwd \subseteq {PathOf(srv'.cwd)}
    BY <2>2 DEF CWD, Moved, Unasked, Denied, CacheInv, Shape, CacheCoherent
  <2>5. srv' = [cwd |-> srv'.cwd, dirs |-> srv'.dirs, mlst |-> srv'.mlst]
    BY <2>2 DEF CWD, Unasked, Denied, CacheInv, Shape
  <2> HIDE DEF d
  <2>6. cip' = Learnt(d, works)
    BY <2>2 DEF d
  <2> QED
    BY <2>3, <2>4, <2>5, <2>6, LearntStep DEF CacheInv, Shape, CacheCoherent
<1> QED
  BY <1>1, <1>2, <1>3, <1>4, <1>5

\* The library's other steps leave the session where it is.
LEMMA OtherSteps ==
  ASSUME CacheInv,
         \/ Nowhere \/ Split \/ MakeStep \/ MakeOne \/ MakeNext \/ AskMLST
         \/ ExistsAnswer \/ RemoveDir \/ EnterNoDir
  PROVE  CacheInv'
<1>1. CASE Nowhere
  BY <1>1, UnaskedStep DEF Nowhere
<1>2. CASE Split
  BY <1>2 DEF Split, Unasked, CacheInv, Shape, CacheCoherent
<1>3. CASE MakeStep
  BY <1>3, MKDStep DEF MakeStep
<1>4. CASE MakeOne
  BY <1>4, MKDStep DEF MakeOne
<1>5. CASE MakeNext
  BY <1>5, MKDStep DEF MakeNext
<1>6. CASE AskMLST
  <2>1. srv' = srv /\ (cip' = cip \/ cip' = [cip EXCEPT !.hasMLST = FALSE])
    BY <1>6 DEF AskMLST, Unasked
  <2> QED
    BY <2>1 DEF CacheInv, Shape, CacheCoherent
<1>7. CASE ExistsAnswer
  BY <1>7, UnaskedStep DEF ExistsAnswer
<1>8. CASE RemoveDir
  BY <1>8, RMDStep DEF RemoveDir
<1>9. CASE EnterNoDir
  <2>1. PICK c : CWD(call.path, FALSE, c) /\ cip' = cip
    BY <1>9 DEF EnterNoDir
  <2>2. cip' = Moved(cip, FALSE)
    BY <2>1 DEF Moved
  <2> QED
    BY <2>1, <2>2, ChdirStep
<1> QED
  BY <1>1, <1>2, <1>3, <1>4, <1>5, <1>6, <1>7, <1>8, <1>9

\* What the application begins, and what somebody else does, moves nothing.
LEMMA OutsideSteps ==
  ASSUME CacheInv, Application \/ Meddle
  PROVE  CacheInv'
<1>1. CASE Application
  <2>1. UNCHANGED <<cip, srv>>
    BY <1>1 DEF Application, FTPGetCWD, FTPChdir, FTPChdirAndGetCWD, FTPFileType,
                FTPChdir3, FTPRmdir, FTPMkdir2, Begins
  <2> QED
    BY <2>1 DEF CacheInv, Shape, CacheCoherent
<1>2. CASE Meddle
  BY <1>2 DEF Meddle, CacheInv, Shape, CacheCoherent
<1> QED
  BY <1>1, <1>2

\* After the login.
LEMMA InitCache == ASSUME Init PROVE CacheInv
BY DEF Init, CacheInv, Shape, CacheCoherent

\* The invariant is inductive.
LEMMA StepCache == ASSUME CacheInv, [Next]_vars PROVE CacheInv'
<1>1. CASE Library
  BY <1>1, ChangeDirStep, ChdirSteps, GetCWDSteps, ProbeSteps, OtherSteps DEF Library
<1>2. CASE Application \/ Meddle
  BY <1>2, OutsideSteps
<1>3. CASE UNCHANGED vars
  BY <1>3 DEF vars, CacheInv, Shape, CacheCoherent
<1> QED
  BY <1>1, <1>2, <1>3 DEF Next

\* FTPGetCWD answers from the cache what the server would answer: whatever the
\* calls, their failures and the directories, no path through the commands of
\* c_chdir.c, c_getcwd.c, c_mkdir.c, c_filetype.c and c_exists.c moves the
\* session and keeps the cache.
THEOREM CacheIsServers == Spec => []CacheCoherent
<1>1. Init => CacheInv
  BY InitCache
<1>2. CacheInv /\ [Next]_vars => CacheInv'
  BY StepCache
<1>3. CacheInv => CacheCoherent
  BY DEF CacheInv
<1> QED
  BY <1>1, <1>2, <1>3, PTL DEF Spec

-----------------------------------------------------------------------------
(* Where a path leads.                                                     *)

\* A set of naturals has a least element.
LEMMA Least ==
  ASSUME NEW T, T \subseteq Nat, T # {}
  PROVE  \E m \in T : \A k \in T : m <= k
<1> DEFINE Less == {ss \in Nat \X Nat : ss[1] < ss[2]}
<1>1. IsWellFoundedOn(Less, Nat)
  BY NatLessThanWellFounded, Zenon DEF OpToRel
<1>2. PICK m \in T : \A k \in T : ~(<<k, m>> \in Less)
  <2> HIDE DEF Less
  <2> QED
    BY <1>1, WFMin
<1>3. ASSUME NEW k \in T
      PROVE  m <= k
  <2>1. <<k, m>> \notin Less
    BY <1>2
  <2> QED
    BY <2>1
<1> QED
  BY <1>2, <1>3

\* The directories that a path comes to are those its definition says.
LEMMA AlongIs ==
  ASSUME NEW cwd, NEW path, NEW n \in Nat, Len(path) = n
  PROVE  /\ Along(cwd, path)[0] = From(cwd, path)
         /\ \A i \in 1..n : Along(cwd, path)[i] = Piece(Along(cwd, path)[i - 1], path[i])
<1> DEFINE Is(g, k) == g = [i \in 0..k |-> IF i = 0 THEN From(cwd, path)
                                           ELSE Piece(g[i - 1], path[i])]
           Bad == {k \in 0..n : ~ \E g : Is(g, k)}
<1>1. ASSUME Bad # {}
      PROVE  FALSE
  <2>1. PICK m \in Bad : \A k \in Bad : m <= k
    <3>1. Bad \subseteq Nat
      OBVIOUS
    <3> HIDE DEF Bad
    <3> QED
      BY <1>1, <3>1, Least
  <2>2. m \in 0..n /\ ~ \E g : Is(g, m)
    OBVIOUS
  <2>3. m # 0
    <3>1. SUFFICES ASSUME m = 0
                   PROVE  FALSE
      OBVIOUS
    <3> DEFINE g == [i \in 0..0 |-> From(cwd, path)]
    <3>2. Is(g, 0)
      OBVIOUS
    <3> QED
      BY <2>2, <3>1, <3>2
  <2>4. m - 1 \in 0..n /\ m - 1 \notin Bad
    BY <2>1, <2>2, <2>3
  <2>5. PICK g : Is(g, m - 1)
    BY <2>4
  <2> DEFINE h == [i \in 0..m |-> IF i = m THEN Piece(g[m - 1], path[m]) ELSE g[i]]
  <2>6. ASSUME NEW i \in 0..m
        PROVE  h[i] = IF i = 0 THEN From(cwd, path) ELSE Piece(h[i - 1], path[i])
    <3>1. CASE i = m
      BY <2>2, <2>3, <3>1
    <3>2. CASE i = 0
      BY <2>2, <2>3, <2>5, <3>2
    <3>3. CASE i # m /\ i # 0
      <4>1. i \in 0..(m - 1) /\ i - 1 \in 0..m /\ i - 1 # m
        BY <2>2, <3>3
      <4>2. g[i] = Piece(g[i - 1], path[i])
        BY <2>5, <3>3, <4>1
      <4> QED
        BY <3>3, <4>1, <4>2
    <3> QED
      BY <3>1, <3>2, <3>3
  <2>7. Is(h, m)
    <3>1. h = [i \in 0..m |-> h[i]]
      OBVIOUS
    <3> HIDE DEF h
    <3> QED
      BY <2>6, <3>1
  <2> QED
    BY <2>2, <2>7
<1>2. \E g : Is(g, n)
  BY <1>1
<1>3. Is(Along(cwd, path), n)
  <2>1. Along(cwd, path) = CHOOSE g : Is(g, n)
    BY DEF Along
  <2> QED
    BY <1>2, <2>1
<1> QED
  BY <1>3

\* The k pieces of p after s are the first of q; and so are the directories.
SamePieces(p, q, s, k) == \A i \in 1..k : p[s + i] = q[i]
SameWay(a, p, b, q, s, k) == \A i \in 0..k : Along(a, p)[s + i] = Along(b, q)[i]

\* Two paths go on alike from a place where both have come to the same directory.
LEMMA GoOnAlike ==
  ASSUME NEW a, NEW p, NEW b, NEW q, NEW s, NEW k, s \in Nat, k \in Nat,
         Len(p) \in Nat, Len(q) \in Nat, s + k <= Len(p), k <= Len(q),
         Along(a, p)[s] = Along(b, q)[0], SamePieces(p, q, s, k)
  PROVE  SameWay(a, p, b, q, s, k)
<1> DEFINE Bad == {i \in 0..k : Along(a, p)[s + i] # Along(b, q)[i]}
<1>1. SUFFICES ASSUME Bad # {}
               PROVE  FALSE
  BY DEF SameWay
<1>2. PICK m \in Bad : \A i \in Bad : m <= i
  <2>1. Bad \subseteq Nat
    OBVIOUS
  <2> HIDE DEF Bad
  <2> QED
    BY <1>1, <2>1, Least
<1>3. m \in 1..k /\ m - 1 \in 0..k /\ m - 1 \notin Bad
  BY <1>2
<1>4. s + m \in 1..Len(p) /\ m \in 1..Len(q) /\ (s + m) - 1 = s + (m - 1)
  BY <1>3
<1>5. Along(a, p)[s + m] = Piece(Along(a, p)[s + (m - 1)], p[s + m])
  BY <1>4, AlongIs
<1>6. Along(b, q)[m] = Piece(Along(b, q)[m - 1], q[m])
  BY <1>4, AlongIs
<1>7. Along(a, p)[s + (m - 1)] = Along(b, q)[m - 1] /\ p[s + m] = q[m]
  BY <1>3 DEF SamePieces
<1> QED
  BY <1>2, <1>5, <1>6, <1>7

\* The pieces of a part of a path.
LEMMA PartOf ==
  ASSUME NEW U, NEW p \in Seq(U), NEW s \in 0..Len(p), NEW k \in s..Len(p)
  PROVE  /\ SubSeq(p, s + 1, k) \in Seq(U) /\ Len(SubSeq(p, s + 1, k)) = k - s
         /\ \A i \in 1..(k - s) : SubSeq(p, s + 1, k)[i] = p[s + i]
<1>1. Len(p) \in Nat /\ \A i \in 1..Len(p) : p[i] \in U
  BY LenProperties, ElementOfSeq
<1>2. s + 1 \in Int /\ k \in Int /\ \A i \in (s + 1)..k : p[i] \in U
  BY <1>1
<1>3. /\ SubSeq(p, s + 1, k) \in Seq(U)
      /\ Len(SubSeq(p, s + 1, k)) = IF s + 1 <= k THEN k - (s + 1) + 1 ELSE 0
      /\ \A i \in 1..(k - (s + 1) + 1) : SubSeq(p, s + 1, k)[i] = p[s + 1 + i - 1]
  BY <1>2, SubSeqProperties
<1> QED
  BY <1>1, <1>3

\* The empty piece, and where a path starts; its value is only needed here.
Nothing == ""

LEMMA FromIs ==
  ASSUME NEW a, NEW p
  PROVE  /\ Len(p) = 1 \/ p[1] # Nothing => From(a, p) = a
         /\ p[1] = Nothing /\ Len(p) > 1 => From(a, p) = <<>>
<1>1. ~(1 > 1)
  OBVIOUS
<1> QED
  BY <1>1 DEF From, Nothing

LEMMA NothingIs ==
  ASSUME NEW d
  PROVE  Piece(d, Nothing) = d /\ PathOf(<<>>) = <<Nothing, Nothing>>
<1>2. Piece(d, Nothing) = d
  BY DEF Nothing, Piece
<1>3. PathOf(<<>>) = <<Nothing, Nothing>>
  BY DEF Nothing, PathOf
<1> QED
  BY <1>2, <1>3

LEMMA NameIs ==
  ASSUME NEW d, NEW t, t \notin Special
  PROVE  Piece(d, t) = Append(d, t)
BY DEF Piece, Special

LEMMA DirNames ==
  ASSUME NEW d \in Dirs
  PROVE  /\ d \in Seq(STRING) /\ Len(d) \in Nat /\ \A i \in 1..Len(d) : d[i] \notin Special
         /\ d # <<>> => PathOf(d) = <<Nothing>> \o d
<1>1. d \in Seq(STRING \ Special) /\ Len(d) \in Nat
  BY DirsAssumption, LenProperties DEF DirsAssumption
<1>2. \A i \in 1..Len(d) : d[i] \in STRING \ Special
  BY <1>1, ElementOfSeq
<1>3. d \in Seq(STRING)
  <2>1. \A i \in 1..Len(d) : d[i] \in STRING
    BY <1>2
  <2>2. d \in [1..Len(d) -> STRING]
    BY <1>1, <2>1, LenProperties
  <2> QED
    BY <1>1, <2>2, SeqDef
<1> QED
  BY <1>1, <1>2, <1>3 DEF PathOf, Nothing

\* The beginning of a path leads to where the path comes to; "" alone is no beginning
\* of an absolute path.
LEMMA Beginning ==
  ASSUME NEW a, NEW p \in Seq(STRING), NEW k \in 1..Len(p), k = 1 => p[1] # Nothing \/ Len(p) = 1
  PROVE  Resolve(a, SubSeq(p, 1, k)) = Along(a, p)[k]
<1> DEFINE q == SubSeq(p, 0 + 1, k)
<1>1. Len(p) \in Nat /\ 0 \in 0..Len(p) /\ k \in 0..Len(p) /\ k \in Nat
  BY LenProperties
<1>2. Len(q) = k /\ \A i \in 1..k : q[i] = p[0 + i]
  <2> HIDE DEF q
  <2>1. q = SubSeq(p, 0 + 1, k)
    BY DEF q
  <2> QED
    BY <1>1, <2>1, PartOf
<1> HIDE DEF q
<1>3. From(a, p) = From(a, q)
  <2>1. q[1] = p[1] /\ (k = 1 <=> Len(q) = 1) /\ (k # 1 => Len(p) > 1 /\ Len(q) > 1)
    BY <1>1, <1>2
  <2> QED
    BY <2>1, FromIs
<1>4. Along(a, p)[0] = Along(a, q)[0]
  BY <1>1, <1>2, <1>3, AlongIs
<1>5. \A i \in 0..k : Along(a, p)[0 + i] = Along(a, q)[i]
  <2>1. 0 \in Nat /\ Len(q) \in Nat /\ 0 + k <= Len(p) /\ k <= Len(q)
    BY <1>1, <1>2
  <2>2. SamePieces(p, q, 0, k)
    BY <1>2 DEF SamePieces
  <2>3. SameWay(a, p, a, q, 0, k)
    BY <1>1, <1>4, <2>1, <2>2, GoOnAlike, Zenon
  <2> QED
    BY <2>3 DEF SameWay
<1>6. k \in 0..k /\ 0 + k = k /\ Resolve(a, q) = Along(a, q)[k]
  BY <1>1, <1>2 DEF Resolve
<1>7. q = SubSeq(p, 1, k)
  BY DEF q
<1> QED
  BY <1>5, <1>6, <1>7

\* The rest of a path leads on from there, unless it begins with a slash.
LEMMA Rest ==
  ASSUME NEW a, NEW p \in Seq(STRING), NEW s \in 0..Len(p), NEW k \in (s + 1)..Len(p),
         p[s + 1] # Nothing \/ k = s + 1
  PROVE  Resolve(Along(a, p)[s], SubSeq(p, s + 1, k)) = Along(a, p)[k]
<1> DEFINE q == SubSeq(p, s + 1, k)
           d == Along(a, p)[s]
<1>1. Len(p) \in Nat /\ s \in Nat /\ k \in s..Len(p) /\ k - s \in Nat /\ k - s >= 1
  BY LenProperties
<1>2. Len(q) = k - s /\ \A i \in 1..(k - s) : q[i] = p[s + i]
  BY <1>1, PartOf
<1> HIDE DEF q
<1>3. q[1] = p[s + 1] /\ (k = s + 1 => Len(q) = 1)
  BY <1>1, <1>2
<1> HIDE DEF d
<1>4. From(d, q) = d
  BY <1>3, FromIs
<1>5. Along(d, q)[0] = d
  BY <1>1, <1>2, <1>4, AlongIs
<1>6. \A i \in 0..(k - s) : Along(a, p)[s + i] = Along(d, q)[i]
  <2> DEFINE j == k - s
  <2>1. Along(a, p)[s] = Along(d, q)[0]
    BY <1>5 DEF d
  <2>2. SamePieces(p, q, s, j)
    BY <1>2 DEF SamePieces
  <2>3. j \in Nat /\ s + j <= Len(p) /\ Len(q) \in Nat /\ j <= Len(q)
    BY <1>1, <1>2
  <2> HIDE DEF j
  <2>4. SameWay(a, p, d, q, s, j)
    BY <1>1, <2>1, <2>2, <2>3, GoOnAlike, Zenon
  <2> QED
    BY <2>4 DEF j, SameWay
<1>7. k - s \in 0..(k - s) /\ s + (k - s) = k /\ Resolve(d, q) = Along(d, q)[k - s]
  BY <1>1, <1>2 DEF Resolve
<1> QED
  BY <1>6, <1>7 DEF d, q

\* A path of one piece, and the root.
LEMMA OnePiece ==
  ASSUME NEW d, NEW t
  PROVE  Resolve(d, <<t>>) = Piece(d, t)
<1>1. Len(<<t>>) = 1 /\ <<t>>[1] = t /\ 1 \in Nat /\ 1 \in 1..1
  OBVIOUS
<1>2. From(d, <<t>>) = d
  BY <1>1, FromIs
<1>3. Along(d, <<t>>)[0] = d /\ Along(d, <<t>>)[1] = Piece(Along(d, <<t>>)[1 - 1], <<t>>[1])
  BY <1>1, <1>2, AlongIs
<1> QED
  BY <1>1, <1>3 DEF Resolve

LEMMA TheRoot ==
  ASSUME NEW d
  PROVE  Resolve(d, PathOf(<<>>)) = <<>>
<1> DEFINE q == <<Nothing, Nothing>>
<1>1. Len(q) = 2 /\ q[1] = Nothing /\ q[2] = Nothing /\ 2 \in Nat /\ 1 \in 1..2 /\ 2 \in 1..2
  OBVIOUS
<1> HIDE DEF q
<1>2. From(d, q) = <<>>
  <2>1. Len(q) > 1
    BY <1>1
  <2> QED
    BY <1>1, <2>1, FromIs
<1>3. /\ Along(d, q)[0] = <<>> /\ Along(d, q)[1] = Piece(Along(d, q)[1 - 1], q[1])
      /\ Along(d, q)[2] = Piece(Along(d, q)[2 - 1], q[2])
  BY <1>1, <1>2, AlongIs
<1>4. Along(d, q)[1] = <<>>
  BY <1>1, <1>3, NothingIs
<1>5. Along(d, q)[2] = <<>>
  BY <1>1, <1>3, <1>4, NothingIs
<1> QED
  BY <1>1, <1>5, NothingIs DEF Resolve, q

\* Slashes at the end lead nowhere else.
EmptyAfter(p, n) == \A j \in 1..Len(p) : j > n => p[j] = Nothing

LEMMA TrailingSlashes ==
  ASSUME NEW a, NEW p \in Seq(STRING), NEW n \in 0..Len(p), EmptyAfter(p, n)
  PROVE  Resolve(a, p) = Along(a, p)[n]
<1> DEFINE Bad == {i \in Nat : n + i <= Len(p) /\ Along(a, p)[n + i] # Along(a, p)[n]}
<1>1. Len(p) \in Nat
  BY LenProperties
<1>5. n \in Nat /\ n <= Len(p)
  BY <1>1
<1>2. ASSUME Bad # {}
      PROVE  FALSE
  <2>1. PICK m \in Bad : \A i \in Bad : m <= i
    <3>1. Bad \subseteq Nat
      OBVIOUS
    <3> HIDE DEF Bad
    <3> QED
      BY <1>2, <3>1, Least
  <2>2. m # 0 /\ m \in Nat /\ n + m <= Len(p)
    BY <2>1
  <2>3. m - 1 \notin Bad /\ m - 1 \in Nat
    BY <2>1, <2>2
  <2>4. n + m \in 1..Len(p) /\ n + m > n /\ (n + m) - 1 = n + (m - 1)
    BY <1>1, <1>5, <2>2
  <2>5. Along(a, p)[n + m] = Piece(Along(a, p)[n + (m - 1)], p[n + m])
    BY <1>1, <2>4, AlongIs
  <2>6. Along(a, p)[n + (m - 1)] = Along(a, p)[n]
    BY <1>1, <1>5, <2>2, <2>3
  <2>7. p[n + m] = Nothing
    BY <2>4 DEF EmptyAfter
  <2> QED
    BY <2>1, <2>5, <2>6, <2>7, NothingIs
<1>3. Len(p) - n \in Nat /\ n + (Len(p) - n) = Len(p) /\ Len(p) <= Len(p)
  BY <1>1, <1>5
<1>4. Along(a, p)[Len(p)] = Along(a, p)[n]
  <2>1. Len(p) - n \notin Bad
    BY <1>2
  <2> QED
    BY <1>3, <2>1
<1> QED
  BY <1>4 DEF Resolve

\* One more piece before a path.
LEMMA PieceBefore ==
  ASSUME NEW U, NEW t \in U, NEW d \in Seq(U)
  PROVE  /\ Len(<<t>> \o d) = Len(d) + 1 /\ (<<t>> \o d)[1] = t
         /\ \A i \in 1..Len(d) : (<<t>> \o d)[i + 1] = d[i]
<1>1. <<t>> \in Seq(U) /\ Len(<<t>>) = 1 /\ <<t>>[1] = t /\ Len(d) \in Nat
  BY LenProperties
<1>2. /\ Len(<<t>> \o d) = 1 + Len(d)
      /\ \A i \in 1..(1 + Len(d)) : (<<t>> \o d)[i] = IF i <= 1 THEN <<t>>[i] ELSE d[i - 1]
  BY <1>1, ConcatProperties
<1>3. 1 \in 1..(1 + Len(d)) /\ \A i \in 1..Len(d) : i + 1 \in 1..(1 + Len(d)) /\ ~(i + 1 <= 1)
  BY <1>1
<1> QED
  BY <1>1, <1>2, <1>3

\* What is printed of a directory leads to it, from everywhere.
LEMMA PrintedLeads ==
  ASSUME NEW d \in Dirs, NEW e
  PROVE  Resolve(e, PathOf(d)) = d
<1>1. d \in Seq(STRING) /\ Len(d) \in Nat /\ \A i \in 1..Len(d) : d[i] \notin Special
  BY DirNames
<1>2. CASE d = <<>>
  BY <1>2, TheRoot
<1>3. CASE d # <<>>
  <2> DEFINE n == Len(d)
             q == <<Nothing>> \o d
  <2>1. n \in Nat /\ n > 0 /\ \A i \in 1..n : d[i] \notin Special
    BY <1>1, <1>3, EmptySeq
  <2>2. Len(q) = n + 1 /\ q[1] = Nothing /\ \A i \in 1..n : q[i + 1] = d[i]
    <3> DEFINE U == STRING \cup {Nothing}
    <3>1. Nothing \in U /\ d \in Seq(U)
      <4>1. \A i \in 1..Len(d) : d[i] \in U
        BY <1>1, ElementOfSeq
      <4>2. d \in [1..Len(d) -> U]
        BY <1>1, <4>1, LenProperties
      <4> HIDE DEF U
      <4>3. d \in Seq(U)
        BY <1>1, <4>2, SeqDef
      <4> QED
        BY <4>3 DEF U
    <3> HIDE DEF U
    <3> QED
      BY <3>1, PieceBefore
  <2> HIDE DEF q, n
  <2>3. From(e, q) = <<>> /\ n + 1 \in Nat
    <3>1. n + 1 \in Nat /\ n + 1 > 1
      BY <2>1
    <3> QED
      BY <2>2, <3>1, FromIs
  <2>4. /\ Along(e, q)[0] = <<>>
        /\ \A i \in 1..(n + 1) : Along(e, q)[i] = Piece(Along(e, q)[i - 1], q[i])
    BY <2>2, <2>3, AlongIs
  <2>5. Along(e, q)[1] = <<>>
    <3>1. 1 \in 1..(n + 1) /\ 1 - 1 = 0
      BY <2>1
    <3> QED
      BY <2>2, <2>4, <3>1, NothingIs
  <2> DEFINE Bad == {i \in 0..n : Along(e, q)[i + 1] # SubSeq(d, 1, i)}
  <2>6. ASSUME Bad # {}
        PROVE  FALSE
    <3>1. PICK m \in Bad : \A i \in Bad : m <= i
      <4>1. Bad \subseteq Nat
        BY <2>1
      <4> HIDE DEF Bad
      <4> QED
        BY <2>6, <4>1, Least
    <3>2. m \in 0..n /\ m # 0
      <4>1. SubSeq(d, 1, 0) = <<>>
        BY <1>1
      <4>2. Along(e, q)[0 + 1] = <<>>
        BY <2>5
      <4> QED
        BY <3>1, <4>1, <4>2
    <3>3. m - 1 \in 0..n /\ m - 1 \notin Bad /\ m \in 1..n /\ m + 1 \in 1..(n + 1)
          /\ (m + 1) - 1 = m /\ (m - 1) + 1 = m
      BY <2>1, <3>1, <3>2
    <3>4. Along(e, q)[m] = SubSeq(d, 1, m - 1)
      BY <3>3
    <3>5. Along(e, q)[m + 1] = Piece(SubSeq(d, 1, m - 1), d[m])
      BY <2>2, <2>4, <3>3, <3>4
    <3>6. Piece(SubSeq(d, 1, m - 1), d[m]) = Append(SubSeq(d, 1, m - 1), d[m])
      BY <2>1, <3>3, NameIs
    <3>7. Append(SubSeq(d, 1, m - 1), d[m]) = SubSeq(d, 1, m)
      BY <1>1, <3>3 DEF n
    <3> QED
      BY <3>1, <3>5, <3>6, <3>7
  <2>7. Along(e, q)[n + 1] = SubSeq(d, 1, n)
    <3>1. n \in 0..n /\ n \notin Bad
      BY <2>1, <2>6
    <3> QED
      BY <3>1
  <2>8. SubSeq(d, 1, n) = d
    BY <1>1 DEF n
  <2>9. PathOf(d) = q
    BY <1>3, DirNames DEF q
  <2> QED
    BY <2>2, <2>7, <2>8, <2>9 DEF Resolve
<1> QED
  BY <1>2, <1>3

-----------------------------------------------------------------------------
(* The way back, and what a call reports.                                  *)

\* A call has its fields.
Fields == {"name", "path", "flags", "recurse", "cur", "from", "at", "k", "base", "saved",
           "probe", "result", "report", "denied", "meddled", "noPWD", "strayed", "seen"}
IsCall(c) == c = [f \in Fields |-> c[f]]

\* The session is always in one of the directories.
DirsOK == srv.cwd \in Dirs /\ srv.dirs \subseteq Dirs

\* Which calls are in which steps: only FTPChdir3 is anywhere but at its one step.
PlaceOK(p, c) ==
  /\ c.at \in {"simple", "full", "again", "one", "oneMade"}
  /\ c.at # "simple" \/ c.flags # {} => c.name = "chdir3"
  /\ p = "cd" => c.name \in {"chdir", "chdirpwd", "chdir3"}
  /\ p = "cdPwd" => c.name \in {"getcwd", "chdirpwd", "chdir3"}
  /\ p \in {"split", "cdMkd"} => c.name = "chdir3"
  /\ p \in {"mkPwd", "mkTry", "mkUndo", "mkOne", "mkUp", "mkDo", "mkBack"}
       => c.name \in {"mkdir", "chdir3"}
  /\ p \in {"ftMlst", "ftPwd", "ftTry", "ftBack", "exists", "exists2", "pbStart", "pbBack", "rmIn"}
       => c.name \in {"filetype", "rmdir"}
  /\ p \in {"rmTry", "rmPwd"} => c.name = "rmdir"

\* The calls that are to leave the session where it was, the steps at which it is
\* there, and those at which the way back is needed.
Stays == {"mkdir", "filetype", "rmdir", "getcwd"}
AtHome == {"idle", "cdPwd", "mkPwd", "mkTry", "mkOne", "mkUp", "ftMlst", "ftPwd", "ftTry",
           "exists", "exists2", "pbStart", "rmTry", "rmPwd", "rmIn"}
WayNeeded == {"mkTry", "mkUndo", "mkOne", "mkUp", "mkDo", "mkBack", "ftTry", "ftBack"}
WayOf(c, buf) == IF c.cur # {} THEN Str(c.cur) ELSE Str(buf)

\* Until a way back is refused, the call is where it began or knows the way: by the
\* caller's curDir, by cip->buf, or by what a probe has saved.
HomeOK(p, c, cwd, buf) ==
  /\ c.cur = {} \/ c.cur = {PathOf(c.from)}
  /\ c.from \in Dirs
  /\ c.strayed \in BOOLEAN /\ c.noPWD \in BOOLEAN
  /\ c.strayed /\ c.name = "mkdir" => p = "idle" /\ c.result # "ok"
  /\ c.name \in Stays /\ ~c.noPWD /\ ~c.strayed =>
       /\ p \in AtHome => cwd = c.from
       /\ p \in WayNeeded => WayOf(c, buf) = PathOf(c.from)
       /\ p \in {"pbStart", "pbBack"} => c.saved = {PathOf(c.from)}

\* The path that a successful call has reported.
ReportOK(p, c, cwd) ==
  /\ p = "idle" /\ c.result = "ok"
  /\ c.name \in {"getcwd", "chdirpwd"} \/ (c.name = "chdir3" /\ "pwd" \in c.flags)
  => c.report = {PathOf(cwd)}

Good(p, c, cwd, buf) ==
  IsCall(c) /\ PlaceOK(p, c) /\ HomeOK(p, c, cwd, buf) /\ ReportOK(p, c, cwd)

CallInv == CacheInv /\ DirsOK /\ Good(pc, call, srv.cwd, cip.buf)


\* What Good says of a call does not depend on what it has seen or been denied.
Like(d, c) ==
  /\ IsCall(d)
  /\ d.name = c.name /\ d.flags = c.flags /\ d.cur = c.cur /\ d.from = c.from
  /\ d.at = c.at /\ d.saved = c.saved /\ d.result = c.result /\ d.report = c.report
  /\ d.noPWD = c.noPWD /\ d.strayed = c.strayed

LEMMA LikeGood ==
  ASSUME NEW p, NEW c, NEW d, NEW cwd, NEW buf, Good(p, c, cwd, buf), Like(d, c)
  PROVE  Good(p, d, cwd, buf)
BY DEF Good, Like, PlaceOK, HomeOK, ReportOK, WayOf

\* What is printed of a directory is not empty.
LEMMA Printed ==
  ASSUME NEW d \in Dirs
  PROVE  PathOf(d) # <<"">>
<1>1. d \in Seq(STRING) /\ Len(d) \in Nat
  BY DirNames
<1>2. CASE d = <<>>
  BY <1>2 DEF PathOf
<1>3. CASE d # <<>>
  <2>1. Len(d) > 0
    BY <1>1, <1>3
  <2>2. Len(<<"">> \o d) = 1 + Len(d)
    BY <1>1
  <2> DEFINE two == <<"">> \o d
             one == <<"">>
  <2>3. Len(one) = 1
    OBVIOUS
  <2>4. Len(two) # Len(one)
    BY <1>1, <2>1, <2>2, <2>3
  <2>5. PathOf(d) = two
    BY <1>3 DEF PathOf
  <2> HIDE DEF two, one
  <2>6. PathOf(d) # one
    BY <2>4, <2>5
  <2> QED
    BY <2>6 DEF one
<1> QED
  BY <1>2, <1>3

LEMMA TheOne == ASSUME NEW x PROVE Str({x}) = x
BY DEF Str

-----------------------------------------------------------------------------
(* What the commands do.                                                   *)

LEMMA CWDDoes ==
  ASSUME CacheInv, DirsOK, NEW path, NEW ok \in BOOLEAN, NEW c, IsCall(c), CWD(path, ok, c)
  PROVE  /\ DirsOK' /\ Like(call', c)
         /\ ~ok => srv'.cwd = srv.cwd
         /\ ok /\ path # <<"">> => srv'.cwd = Target(path)
<1>1. Like(call', c)
  <2>1. call' = c \/ call' = [c EXCEPT !.denied = TRUE]
    BY DEF CWD, Unasked, Denied
  <2> QED
    BY <2>1 DEF Like, IsCall, Fields
<1>2. DirsOK'
  BY DEF CWD, Unasked, Denied, DirsOK, CacheInv, Shape
<1>3. ~ok => srv'.cwd = srv.cwd
  BY DEF CWD, Unasked, Denied
<1>4. ok /\ path # <<"">> => srv'.cwd = Target(path)
  BY DEF CWD, CacheInv, Shape
<1> QED
  BY <1>1, <1>2, <1>3, <1>4

\* The way back leads back.
LEMMA WayLeadsBack ==
  ASSUME CacheInv, DirsOK, NEW d \in Dirs, NEW ok \in BOOLEAN, NEW c, IsCall(c),
         CWD(PathOf(d), ok, c)
  PROVE  ok => srv'.cwd = d
<1>1. PathOf(d) # <<"">>
  BY Printed
<1>2. ok => srv'.cwd = Target(PathOf(d))
  BY <1>1, CWDDoes
<1>3. Target(PathOf(d)) = d
  BY PrintedLeads DEF Target
<1> QED
  BY <1>2, <1>3

LEMMA MKDDoes ==
  ASSUME CacheInv, DirsOK, NEW path, NEW ok \in BOOLEAN, NEW c, IsCall(c), MKD(path, ok, c)
  PROVE  DirsOK' /\ Like(call', c) /\ srv'.cwd = srv.cwd
<1>1. Like(call', c)
  <2>1. \/ call' = c \/ call' = [c EXCEPT !.denied = TRUE]
        \/ call' = [c EXCEPT !.seen = @ \cup {Target(path)}]
    BY DEF MKD, Unasked, Denied
  <2> QED
    BY <2>1 DEF Like, IsCall, Fields
<1>2. DirsOK' /\ srv'.cwd = srv.cwd
  BY DEF MKD, Unasked, Denied, DirsOK, CacheInv, Shape
<1> QED
  BY <1>1, <1>2

LEMMA RMDDoes ==
  ASSUME CacheInv, DirsOK, NEW path, NEW ok \in BOOLEAN, NEW c, IsCall(c), RMD(path, ok, c)
  PROVE  DirsOK' /\ Like(call', c) /\ srv'.cwd = srv.cwd
<1>1. Like(call', c)
  <2>1. call' = c \/ call' = [c EXCEPT !.denied = TRUE]
    BY DEF RMD, Unasked, Denied
  <2> QED
    BY <2>1 DEF Like, IsCall, Fields
<1>2. DirsOK' /\ srv'.cwd = srv.cwd
  BY DEF RMD, Unasked, Denied, DirsOK, CacheInv, Shape
<1> QED
  BY <1>1, <1>2

\* FTPGetCWD gives the server's directory, or nothing, and the call is marked.
LEMMA GetCWDDoes ==
  ASSUME CacheInv, DirsOK, NEW ok \in BOOLEAN, NEW got, NEW c, IsCall(c), GetCWD(ok, got, c)
  PROVE  /\ DirsOK' /\ srv'.cwd = srv.cwd
         /\ ok => got = {PathOf(srv.cwd)} /\ Like(call', c)
         /\ ~ok => Like(call', [c EXCEPT !.noPWD = TRUE])
<1>1. srv' = srv
  BY DEF GetCWD, Unasked, Denied
<1>2. ok => got = {PathOf(srv.cwd)} /\ Like(call', c)
  BY DEF GetCWD, Unasked, CacheInv, CacheCoherent, Like
<1>3. ~ok => Like(call', [c EXCEPT !.noPWD = TRUE])
  <2>1. ~ok => call' = [[c EXCEPT !.noPWD = TRUE] EXCEPT !.denied = TRUE]
    BY DEF GetCWD, Denied
  <2> QED
    BY <2>1 DEF Like, IsCall, Fields
<1> QED
  BY <1>1, <1>2, <1>3 DEF DirsOK

-----------------------------------------------------------------------------
(* Where a call goes next.                                                 *)

\* What Good says of a call at every step.
Sound(c) ==
  /\ IsCall(c)
  /\ c.at \in {"simple", "full", "again", "one", "oneMade"}
  /\ c.at # "simple" \/ c.flags # {} => c.name = "chdir3"
  /\ c.cur = {} \/ c.cur = {PathOf(c.from)}
  /\ c.from \in Dirs
  /\ c.strayed \in BOOLEAN /\ c.noPWD \in BOOLEAN

\* A call that is to stay has stayed, or could not be made to.
Stayed(c, cwd) == c.name \in Stays /\ ~c.noPWD /\ ~c.strayed => cwd = c.from

Reporting(c) == c.name \in {"getcwd", "chdirpwd"} \/ (c.name = "chdir3" /\ "pwd" \in c.flags)

\* After a change of directory, what was reported is what the server would say,
\* unless there is more of the path to come.
LEMMA AfterCdGood ==
  ASSUME NEW c, Sound(c), c.at = call.at, NEW cwd, NEW buf, NEW ok \in BOOLEAN,
         c.name \in {"getcwd", "chdir", "chdirpwd", "chdir3"}, Stayed(c, cwd),
         ok /\ Reporting(c) /\ ~(c.at = "one" /\ ~AtLast) => c.report = {PathOf(cwd)}
  PROVE  /\ IsCall(AfterCd(ok, c).call)
         /\ Good(AfterCd(ok, c).pc, AfterCd(ok, c).call, cwd, buf)
<1> DEFINE n == AfterCd(ok, c)
<1>1. CASE call.at = "simple"
  <2> DEFINE r == IF ok THEN "ok" ELSE "failed"
             d == n.call
  <2>1. n.pc = "idle" /\ d = [c EXCEPT !.result = r] /\ (r = "ok" => ok)
    BY <1>1 DEF AfterCd, End
  <2> HIDE DEF n, d, r
  <2>2. /\ IsCall(d) /\ d.name = c.name /\ d.flags = c.flags /\ d.at = c.at /\ d.cur = c.cur
        /\ d.from = c.from /\ d.strayed = c.strayed /\ d.noPWD = c.noPWD
        /\ d.report = c.report /\ d.result = r
    BY <2>1 DEF Sound, IsCall, Fields
  <2>3. PlaceOK("idle", d)
    BY <2>2 DEF Sound, PlaceOK
  <2>4. HomeOK("idle", d, cwd, buf)
    BY <2>2 DEF Sound, Stayed, HomeOK, WayNeeded
  <2>5. ReportOK("idle", d, cwd)
    BY <1>1, <2>1, <2>2 DEF ReportOK, Reporting
  <2>6. Good("idle", d, cwd, buf)
    BY <2>2, <2>3, <2>4, <2>5 DEF Good
  <2> QED
    BY <2>1, <2>2, <2>6 DEF n, d
<1>2. CASE call.at # "simple"
  <2>1. c.name = "chdir3"
    BY <1>2 DEF Sound
  <2>2. \/ n = [pc |-> "idle", call |-> [c EXCEPT !.result = "failed"]]
        \/ n = [pc |-> "idle", call |-> [c EXCEPT !.result = "ok"]] /\ ok /\ ~(c.at = "one" /\ ~AtLast)
        \/ n = [pc |-> "cd", call |-> [c EXCEPT !.at = "one", !.k = @ + 1]]
        \/ n.pc \in {"mkPwd", "split", "cdMkd"} /\ n.call = c
    <3>1. CASE call.at = "full"
      BY <3>1 DEF AfterCd, To, End
    <3>2. CASE call.at = "again"
      BY <3>2 DEF AfterCd, To, End
    <3>3. CASE call.at = "one"
      BY <3>3 DEF AfterCd, To, End
    <3>4. CASE call.at = "oneMade"
      BY <3>4 DEF AfterCd, To, End
    <3> QED
      BY <1>2, <3>1, <3>2, <3>3, <3>4 DEF Sound
  <2> HIDE DEF n
  <2>3. IsCall(n.call) /\ Good(n.pc, n.call, cwd, buf)
    <3>1. CASE n = [pc |-> "idle", call |-> [c EXCEPT !.result = "failed"]]
      BY <1>2, <2>1, <3>1 DEF Good, PlaceOK, HomeOK, ReportOK, IsCall, Fields, Sound, Stays
    <3>2. CASE /\ n = [pc |-> "idle", call |-> [c EXCEPT !.result = "ok"]]
               /\ ok /\ ~(c.at = "one" /\ ~AtLast)
      BY <1>2, <2>1, <3>2 DEF Good, PlaceOK, HomeOK, ReportOK, IsCall, Fields, Sound, Stays, Reporting
    <3>3. CASE n = [pc |-> "cd", call |-> [c EXCEPT !.at = "one", !.k = @ + 1]]
      BY <1>2, <2>1, <3>3 DEF Good, PlaceOK, HomeOK, ReportOK, IsCall, Fields, Sound, Stays
    <3>4. CASE n.pc \in {"mkPwd", "split", "cdMkd"} /\ n.call = c
      BY <1>2, <2>1, <3>4 DEF Good, PlaceOK, HomeOK, ReportOK, IsCall, Fields, Sound, Stays
    <3> QED
      BY <2>2, <3>1, <3>2, <3>3, <3>4
  <2> QED
    BY <2>3 DEF n
<1> QED
  BY <1>1, <1>2

\* After FTPMkdir2, which has gone back or says that it has not.
LEMMA AfterMkdirGood ==
  ASSUME NEW c, Sound(c), c.name = call.name, c.name \in {"mkdir", "chdir3"}, NEW cwd, NEW buf,
         NEW result, Stayed(c, cwd), c.strayed /\ c.name = "mkdir" => result # "ok"
  PROVE  /\ IsCall(AfterMkdir(result, c).call)
         /\ Good(AfterMkdir(result, c).pc, AfterMkdir(result, c).call, cwd, buf)
<1> DEFINE n == AfterMkdir(result, c)
<1>1. CASE c.name = "mkdir"
  <2>1. n = [pc |-> "idle", call |-> [c EXCEPT !.result = result]]
    BY <1>1 DEF AfterMkdir, End
  <2> QED
    BY <1>1, <2>1 DEF Good, PlaceOK, HomeOK, ReportOK, IsCall, Fields, Sound, Stayed, AtHome, WayNeeded
<1>2. CASE c.name = "chdir3"
  <2>1. \/ n = [pc |-> "idle", call |-> [c EXCEPT !.result = "failed"]]
        \/ n = [pc |-> "cd", call |-> [c EXCEPT !.at = "again"]]
        \/ n = [pc |-> "split", call |-> c]
    BY <1>2 DEF AfterMkdir, End, To
  <2> HIDE DEF n
  <2>2. IsCall(n.call) /\ Good(n.pc, n.call, cwd, buf)
    BY <1>2, <2>1 DEF Good, PlaceOK, HomeOK, ReportOK, IsCall, Fields, Sound, Stays
  <2> QED
    BY <2>2 DEF n
<1> QED
  BY <1>1, <1>2

\* After FTPFileType.
LEMMA AfterTypeGood ==
  ASSUME NEW c, Sound(c), c.name \in {"filetype", "rmdir"}, NEW cwd, NEW buf, NEW result, Stayed(c, cwd)
  PROVE  /\ IsCall(AfterType(result, c).call)
         /\ Good(AfterType(result, c).pc, AfterType(result, c).call, cwd, buf)
<1> DEFINE n == AfterType(result, c)
<1>1. \/ n = [pc |-> "rmIn", call |-> c]
      \/ \E r : n = [pc |-> "idle", call |-> [c EXCEPT !.result = r]]
  BY DEF AfterType, End, To
<1> HIDE DEF n
<1>2. IsCall(n.call) /\ Good(n.pc, n.call, cwd, buf)
  BY <1>1 DEF Good, PlaceOK, HomeOK, ReportOK, IsCall, Fields, Sound, Stayed, AtHome, WayNeeded
<1> QED
  BY <1>2 DEF n

\* After one of the probes, or without it.
LEMMA NextProbeGood ==
  ASSUME NEW c, Sound(c), c.name \in {"filetype", "rmdir"}, NEW cwd, NEW buf, Stayed(c, cwd)
  PROVE  /\ IsCall(NextProbe(c).call)
         /\ Good(NextProbe(c).pc, NextProbe(c).call, cwd, buf)
<1>1. CASE c.probe = "stat"
  <2>1. NextProbe(c) = [pc |-> "exists2", call |-> [c EXCEPT !.probe = "nlst"]]
    BY <1>1 DEF NextProbe, To
  <2> QED
    BY <2>1 DEF Good, PlaceOK, HomeOK, ReportOK, IsCall, Fields, Sound, Stayed, AtHome, WayNeeded
<1>2. CASE c.probe # "stat"
  BY <1>2, AfterTypeGood DEF NextProbe
<1> QED
  BY <1>1, <1>2

LEMMA GoodIsSound ==
  ASSUME NEW p, NEW c, NEW cwd, NEW buf, Good(p, c, cwd, buf)
  PROVE  Sound(c)
BY DEF Good, Sound, PlaceOK, HomeOK

-----------------------------------------------------------------------------
(* One lemma for each action.  That the cache stays right is known by then. *)

LEMMA Concludes ==
  ASSUME CacheInv', DirsOK', NEW p, NEW c, NEW buf, pc' = p, Like(call', c), cip'.buf = buf,
         Good(p, c, srv'.cwd, buf)
  PROVE  CallInv'
BY LikeGood DEF CallInv

\* What is written to the structure and leaves cip->buf alone.
LEMMA BufStays ==
  ASSUME CacheInv, NEW ok, NEW x, NEW w
  PROVE  /\ Moved(cip, ok).buf = cip.buf
         /\ [cip EXCEPT !.cwd = x].buf = cip.buf
         /\ [Moved(cip, ok) EXCEPT !.cwd = x].buf = cip.buf
         /\ Learnt(cip, w).buf = cip.buf
         /\ Learnt(Moved(cip, ok), w).buf = cip.buf
BY DEF CacheInv, Shape, Moved, Learnt

\* A call that could not note where it is.
LEMMA MarkedGood ==
  ASSUME NEW p, NEW c, NEW cwd, NEW buf, Good(p, c, cwd, buf),
         NEW d, d = [c EXCEPT !.noPWD = TRUE]
  PROVE  Good(p, d, cwd, buf)
<1>1. IsCall(c)
  BY DEF Good
<1>2. /\ d.name = c.name /\ d.flags = c.flags /\ d.cur = c.cur /\ d.from = c.from
      /\ d.at = c.at /\ d.result = c.result /\ d.report = c.report /\ d.strayed = c.strayed
  BY <1>1 DEF IsCall, Fields
<1>3. IsCall(d)
  BY <1>1 DEF IsCall, Fields
<1>4. d.noPWD = TRUE
  BY <1>1 DEF IsCall, Fields
<1>5. PlaceOK(p, d) /\ ReportOK(p, d, cwd)
  BY <1>2 DEF Good, PlaceOK, ReportOK
<1>6. HomeOK(p, d, cwd, buf)
  BY <1>2, <1>4 DEF Good, HomeOK
<1> QED
  BY <1>3, <1>5, <1>6 DEF Good

LEMMA LikeItself ==
  ASSUME NEW c, IsCall(c)
  PROVE  Like(c, c)
BY DEF Like

LEMMA NowhereCall ==
  ASSUME CallInv, CacheInv', Nowhere
  PROVE  CallInv'
<1> DEFINE n == IF WithPWD THEN To("cdPwd", call) ELSE AfterCd(TRUE, call)
<1>1. /\ pc = "cd" /\ UNCHANGED <<srv, cip>>
      /\ pc' = n.pc /\ call' = n.call
  BY DEF Nowhere, Goes, Unasked
<1>2. Good(pc, call, srv.cwd, cip.buf) /\ Sound(call)
  BY GoodIsSound DEF CallInv
<1>3. call.name \in {"chdir", "chdirpwd", "chdir3"}
  BY <1>1, <1>2 DEF Good, PlaceOK
<1>4. IsCall(n.call) /\ Good(n.pc, n.call, srv.cwd, cip.buf)
  <2>1. CASE WithPWD
    <3>1. n.pc = "cdPwd" /\ n.call = call
      BY <2>1 DEF To
    <3>2. call.name \in {"chdirpwd", "chdir3"}
      BY <1>2, <1>3, <2>1 DEF WithPWD, Good, PlaceOK
    <3> HIDE DEF n
    <3> QED
      BY <1>2, <3>1, <3>2 DEF Good, PlaceOK, HomeOK, ReportOK, Stays
  <2>2. CASE ~WithPWD
    <3>1. ~(TRUE /\ Reporting(call) /\ ~(call.at = "one" /\ ~AtLast))
      BY <1>3, <2>2 DEF WithPWD, Reporting
    <3>2. Stayed(call, srv.cwd)
      BY <1>3 DEF Stayed, Stays
    <3>3. n = AfterCd(TRUE, call)
      BY <2>2
    <3> HIDE DEF n
    <3> QED
      BY <1>2, <1>3, <3>1, <3>2, <3>3, AfterCdGood
  <2> QED
    BY <2>1, <2>2
<1> HIDE DEF n
<1> QED
  BY <1>1, <1>4, Concludes, LikeItself DEF CallInv, DirsOK

LEMMA ChangeDirCall ==
  ASSUME CallInv, CacheInv', ChangeDir
  PROVE  CallInv'
<1>1. PICK ok \in BOOLEAN, quoted \in BOOLEAN :
        LET named == ok /\ quoted /\ WithPWD
            at == {PathOf(Target(Step))}
            n == IF ok /\ WithPWD /\ ~quoted THEN To("cdPwd", call)
                 ELSE AfterCd(ok, IF named THEN [call EXCEPT !.report = at] ELSE call)
        IN /\ CWD(Step, ok, n.call)
           /\ Goes(n)
           /\ cip' = IF named THEN [Moved(cip, ok) EXCEPT !.cwd = at] ELSE Moved(cip, ok)
  BY DEF ChangeDir
<1> DEFINE named == ok /\ quoted /\ WithPWD
           at == {PathOf(Target(Step))}
           c == IF named THEN [call EXCEPT !.report = at] ELSE call
           n == IF ok /\ WithPWD /\ ~quoted THEN To("cdPwd", call) ELSE AfterCd(ok, c)
<1>2. /\ pc = "cd" /\ (WithPWD => Step # <<"">>)
      /\ CWD(Step, ok, n.call) /\ pc' = n.pc
  BY <1>1 DEF ChangeDir, Goes
<1>3. cip'.buf = cip.buf
  BY <1>1, BufStays DEF CallInv
<1>4. Good(pc, call, srv.cwd, cip.buf) /\ Sound(call)
  BY GoodIsSound DEF CallInv
<1>5. call.name \in {"chdir", "chdirpwd", "chdir3"}
  BY <1>2, <1>4 DEF Good, PlaceOK
<1>6. /\ Sound(c) /\ c.at = call.at /\ c.name = call.name /\ c.flags = call.flags
      /\ (named => c.report = at)
  BY <1>4 DEF Sound, IsCall, Fields
<1>7. /\ IsCall(n.call)
      /\ (ok /\ WithPWD => srv'.cwd = Target(Step)) => Good(n.pc, n.call, srv'.cwd, cip.buf)
  <2>1. CASE ok /\ WithPWD /\ ~quoted
    <3>1. n.pc = "cdPwd" /\ n.call = call
      BY <2>1 DEF To
    <3>2. call.name \in {"chdirpwd", "chdir3"}
      BY <1>4, <1>5, <2>1 DEF WithPWD, Sound
    <3> HIDE DEF n
    <3> QED
      BY <1>4, <3>1, <3>2 DEF Good, PlaceOK, HomeOK, ReportOK, Stays
  <2>2. CASE ~(ok /\ WithPWD /\ ~quoted)
    <3>1. n = AfterCd(ok, c)
      BY <2>2
    <3>2. Stayed(c, srv'.cwd)
      BY <1>5, <1>6 DEF Stayed, Stays
    <3>3. ASSUME ok, Reporting(c), ~(c.at = "one" /\ ~AtLast)
          PROVE  named
      BY <1>5, <1>6, <2>2, <3>3 DEF WithPWD, Reporting
    <3> HIDE DEF n, c, named, at
    <3>4. IsCall(AfterCd(ok, c).call)
      <4>1. \E cwd : Stayed(c, cwd) /\ (ok /\ Reporting(c) /\ ~(c.at = "one" /\ ~AtLast) => c.report = {PathOf(cwd)})
        <5>1. CASE named
          BY <1>6, <3>2, <5>1, <1>5 DEF at, Stayed, Stays
        <5>2. CASE ~named
          BY <3>2, <3>3, <5>2
        <5> QED
          BY <5>1, <5>2
      <4> QED
        BY <1>5, <1>6, <4>1, AfterCdGood
    <3>5. ASSUME ok /\ WithPWD => srv'.cwd = Target(Step)
          PROVE  Good(AfterCd(ok, c).pc, AfterCd(ok, c).call, srv'.cwd, cip.buf)
      <4>1. ok /\ Reporting(c) /\ ~(c.at = "one" /\ ~AtLast) => c.report = {PathOf(srv'.cwd)}
        BY <1>6, <3>3, <3>5 DEF named, at
      <4> QED
        BY <1>5, <1>6, <3>2, <4>1, AfterCdGood
    <3> QED
      BY <3>1, <3>4, <3>5
  <2> QED
    BY <2>1, <2>2
<1> HIDE DEF n, c, named, at
<1>8. DirsOK' /\ Like(call', n.call)
  BY <1>2, <1>7, CWDDoes DEF CallInv
<1>9. ok /\ WithPWD => srv'.cwd = Target(Step)
  BY <1>2, <1>7, CWDDoes DEF CallInv
<1>10. Good(n.pc, n.call, srv'.cwd, cip.buf)
  BY <1>7, <1>9
<1> QED
  BY <1>2, <1>3, <1>8, <1>10, Concludes

LEMMA AskPWDCall ==
  ASSUME CallInv, CacheInv', AskPWD
  PROVE  CallInv'
<1>1. PICK ok \in BOOLEAN, got \in {{}, cip.cwd, {PathOf(srv.cwd)}} :
        LET n == AfterCd(ok, [call EXCEPT !.report = got]) IN
        /\ GetCWD(ok, got, n.call) /\ Goes(n)
        /\ cip' = [cip EXCEPT !.cwd = got]
  BY DEF AskPWD
<1> DEFINE c == [call EXCEPT !.report = got]
           n == AfterCd(ok, c)
<1>2. pc = "cdPwd" /\ pc' = n.pc /\ GetCWD(ok, got, n.call) /\ cip'.buf = cip.buf
  BY <1>1, BufStays DEF AskPWD, Goes, CallInv
<1>3. Good(pc, call, srv.cwd, cip.buf) /\ Sound(call)
  BY GoodIsSound DEF CallInv
<1>4. /\ Sound(c) /\ c.at = call.at /\ c.report = got
      /\ c.name \in {"getcwd", "chdirpwd", "chdir3"}
  BY <1>2, <1>3 DEF Sound, IsCall, Fields, Good, PlaceOK
<1>5. Stayed(c, srv.cwd)
  BY <1>2, <1>3 DEF Stayed, Good, HomeOK, AtHome, IsCall, Fields
<1>6. ok => got = {PathOf(srv.cwd)}
  BY <1>2 DEF GetCWD, CallInv, CacheInv, CacheCoherent
<1> HIDE DEF c
<1>7. IsCall(n.call) /\ Good(n.pc, n.call, srv.cwd, cip.buf)
  BY <1>4, <1>5, <1>6, AfterCdGood
<1> HIDE DEF n
<1>8. /\ DirsOK' /\ srv'.cwd = srv.cwd
      /\ ok => Like(call', n.call)
      /\ ~ok => Like(call', [n.call EXCEPT !.noPWD = TRUE])
  BY <1>2, <1>7, GetCWDDoes DEF CallInv
<1>9. Good(n.pc, [n.call EXCEPT !.noPWD = TRUE], srv.cwd, cip.buf)
  BY <1>7, MarkedGood
<1> QED
  BY <1>2, <1>7, <1>8, <1>9, Concludes

\* A call that knows the way back.
HasWay(c, buf) ==
  c.name \in Stays /\ ~c.noPWD /\ ~c.strayed => WayOf(c, buf) = PathOf(c.from)

\* A call that has tried its way back.
LEMMA TriedWay ==
  ASSUME Sound(call), NEW ok \in BOOLEAN, NEW c, c = [call EXCEPT !.strayed = @ \/ ~ok]
  PROVE  /\ Sound(c)
         /\ c.name = call.name /\ c.flags = call.flags /\ c.cur = call.cur /\ c.from = call.from
         /\ c.at = call.at /\ c.saved = call.saved /\ c.result = call.result
         /\ c.noPWD = call.noPWD
         /\ c.strayed <=> (call.strayed \/ ~ok)
<1>1. IsCall(call)
  BY DEF Sound
<1>2. c.strayed = (call.strayed \/ ~ok)
  BY <1>1 DEF IsCall, Fields
<1>3. /\ c.name = call.name /\ c.flags = call.flags /\ c.cur = call.cur /\ c.from = call.from
      /\ c.at = call.at /\ c.saved = call.saved /\ c.result = call.result
      /\ c.noPWD = call.noPWD
  BY <1>1 DEF IsCall, Fields
<1>4. IsCall(c)
  BY <1>1 DEF IsCall, Fields
<1> QED
  BY <1>2, <1>3, <1>4 DEF Sound

\* From a step back by the way that is known, the call has stayed.
LEMMA WentBack ==
  ASSUME CacheInv, DirsOK, Sound(call), HasWay(call, cip.buf), NEW ok \in BOOLEAN,
         NEW c, c = [call EXCEPT !.strayed = @ \/ ~ok], NEW d, IsCall(d), CWD(Way, ok, d)
  PROVE  Stayed(c, srv'.cwd)
<1>1. Way = WayOf(call, cip.buf)
  BY DEF Way, WayOf
<1>2. /\ c.name = call.name /\ c.from = call.from /\ c.noPWD = call.noPWD
      /\ c.strayed <=> (call.strayed \/ ~ok)
  BY TriedWay
<1>3. SUFFICES ASSUME c.name \in Stays, ~c.noPWD, ~c.strayed
               PROVE  srv'.cwd = c.from
  BY DEF Stayed
<1>4. Way = PathOf(call.from) /\ ok
  BY <1>1, <1>2, <1>3 DEF HasWay
<1>5. call.from \in Dirs
  BY DEF Sound
<1> QED
  BY <1>2, <1>4, <1>5, WayLeadsBack

\* What Good says of the steps of FTPMkdir2 and FTPFileType.
LEMMA GoodOnTheWay ==
  ASSUME NEW p \in WayNeeded, Good(p, call, srv.cwd, cip.buf)
  PROVE  /\ Sound(call) /\ HasWay(call, cip.buf)
         /\ p \in AtHome => Stayed(call, srv.cwd)
         /\ call.name = "mkdir" => ~call.strayed
         /\ p \in {"mkTry", "mkUndo", "mkOne", "mkUp", "mkDo", "mkBack"}
              => call.name \in {"mkdir", "chdir3"}
         /\ p \in {"ftTry", "ftBack"} => call.name \in {"filetype", "rmdir"}
<1>1. Sound(call)
  BY GoodIsSound
<1> QED
  BY <1>1 DEF Good, HasWay, HomeOK, Stayed, PlaceOK, WayNeeded

\* On to another step of FTPMkdir2 or FTPFileType.
LEMMA OnTheWay ==
  ASSUME NEW c, Sound(c), NEW p \in WayNeeded, NEW cwd, NEW buf, HasWay(c, buf),
         p \in AtHome => Stayed(c, cwd), c.name = "mkdir" => ~c.strayed,
         \/ p \in {"ftTry", "ftBack"} /\ c.name \in {"filetype", "rmdir"}
         \/ p \notin {"ftTry", "ftBack"} /\ c.name \in {"mkdir", "chdir3"}
  PROVE  Good(p, c, cwd, buf)
<1>1. PlaceOK(p, c)
  BY DEF Sound, PlaceOK, WayNeeded
<1>2. HomeOK(p, c, cwd, buf)
  BY DEF Sound, HomeOK, Stayed, HasWay, WayNeeded
<1>3. ReportOK(p, c, cwd)
  BY DEF ReportOK, WayNeeded
<1> QED
  BY <1>1, <1>2, <1>3 DEF Good, Sound

LEMMA FromParentGood ==
  ASSUME Sound(call), call.name \in {"mkdir", "chdir3"}, NEW k, NEW cwd, NEW buf,
         Stayed(call, cwd), HasWay(call, buf), call.name = "mkdir" => ~call.strayed
  PROVE  /\ IsCall(FromParent(k, call).call)
         /\ Good(FromParent(k, call).pc, FromParent(k, call).call, cwd, buf)
<1> DEFINE n == FromParent(k, call)
<1>1. IsCall(call)
  BY DEF Sound
<1>2. CASE k = 0
  <2>1. n.pc = "mkDo" /\ n.call = [call EXCEPT !.base = 0, !.k = 1]
    BY <1>2 DEF FromParent, To
  <2> HIDE DEF n
  <2>2. IsCall(n.call) /\ Like(n.call, call)
    BY <1>1, <2>1 DEF IsCall, Fields, Like
  <2>3. Good("mkDo", call, cwd, buf)
    BY OnTheWay DEF WayNeeded, AtHome
  <2>4. IsCall(n.call) /\ Good(n.pc, n.call, cwd, buf)
    BY <2>1, <2>2, <2>3, LikeGood
  <2> QED
    BY <2>4 DEF n
<1>3. CASE k # 0 /\ First(k) = <<"">>
  <2>1. n = AfterMkdir("mkdFailed", call)
    BY <1>3 DEF FromParent
  <2> QED
    BY <2>1, AfterMkdirGood
<1>4. CASE k # 0 /\ First(k) # <<"">>
  <2>1. n.pc = "mkUp" /\ n.call = [call EXCEPT !.k = k]
    BY <1>4 DEF FromParent, To
  <2> HIDE DEF n
  <2>2. IsCall(n.call) /\ Like(n.call, call)
    BY <1>1, <2>1 DEF IsCall, Fields, Like
  <2>3. Good("mkUp", call, cwd, buf)
    BY OnTheWay DEF WayNeeded
  <2>4. IsCall(n.call) /\ Good(n.pc, n.call, cwd, buf)
    BY <2>1, <2>2, <2>3, LikeGood
  <2> QED
    BY <2>4 DEF n
<1> QED
  BY <1>2, <1>3, <1>4

-----------------------------------------------------------------------------
(* FTPChdir3's own steps.                                                  *)

\* On to a piece of the path.
LEMMA PieceIsCall ==
  ASSUME NEW c, IsCall(c), NEW x, NEW y, NEW d, d = [c EXCEPT !.at = x, !.k = y]
  PROVE  IsCall(d)
BY DEF IsCall

LEMMA SplitCall ==
  ASSUME CallInv, CacheInv', Split
  PROVE  CallInv'
<1> DEFINE c == [call EXCEPT !.at = "one", !.k = 1]
           n == IF call.path # <<"">> THEN To("cd", c)
                ELSE IF "pwd" \in call.flags THEN To("cdPwd", c) ELSE End("ok", c)
<1>1. pc = "split" /\ pc' = n.pc /\ call' = n.call /\ srv' = srv
  BY DEF Split, Goes, Unasked
<1>2. Good(pc, call, srv.cwd, cip.buf) /\ Sound(call)
  BY GoodIsSound DEF CallInv
<1>3. call.name = "chdir3"
  BY <1>1, <1>2 DEF Good, PlaceOK
<1>4. /\ Sound(c) /\ c.name = "chdir3" /\ c.flags = call.flags
  <2>1. IsCall(call)
    BY <1>2 DEF Sound
  <2>2. /\ c.name = call.name /\ c.flags = call.flags /\ c.cur = call.cur
        /\ c.from = call.from /\ c.at = "one" /\ c.strayed = call.strayed
        /\ c.noPWD = call.noPWD
    BY <2>1 DEF IsCall, Fields
  <2>3. IsCall(c)
    BY <2>1, PieceIsCall
  <2> HIDE DEF c
  <2> QED
    BY <1>2, <1>3, <2>2, <2>3 DEF Sound
<1>5. \/ n = [pc |-> "cd", call |-> c]
      \/ n = [pc |-> "cdPwd", call |-> c]
      \/ n = [pc |-> "idle", call |-> [c EXCEPT !.result = "ok"]] /\ "pwd" \notin c.flags
  BY <1>4 DEF To, End
<1> HIDE DEF n, c
<1>6. IsCall(n.call) /\ Good(n.pc, n.call, srv.cwd, cip'.buf)
  BY <1>4, <1>5 DEF Good, PlaceOK, HomeOK, ReportOK, IsCall, Fields, Sound, Stays
<1> QED
  BY <1>1, <1>6, Concludes, LikeItself DEF CallInv, DirsOK

LEMMA MakeStepCall ==
  ASSUME CallInv, CacheInv', MakeStep
  PROVE  CallInv'
<1>1. PICK ok \in BOOLEAN :
        LET n == IF ok THEN To("cd", [call EXCEPT !.at = "oneMade"]) ELSE End("failed", call)
        IN MKD(<<Token>>, ok, n.call) /\ Goes(n)
  BY DEF MakeStep
<1> DEFINE n == IF ok THEN To("cd", [call EXCEPT !.at = "oneMade"]) ELSE End("failed", call)
<1>2. pc = "cdMkd" /\ pc' = n.pc /\ MKD(<<Token>>, ok, n.call) /\ cip' = cip
  BY <1>1 DEF MakeStep, Goes
<1>3. Good(pc, call, srv.cwd, cip.buf) /\ Sound(call)
  BY GoodIsSound DEF CallInv
<1>4. call.name = "chdir3"
  BY <1>2, <1>3 DEF Good, PlaceOK
<1>5. \/ n = [pc |-> "cd", call |-> [call EXCEPT !.at = "oneMade"]]
      \/ n = [pc |-> "idle", call |-> [call EXCEPT !.result = "failed"]]
  BY DEF To, End
<1> HIDE DEF n
<1>6. IsCall(n.call) /\ Good(n.pc, n.call, srv.cwd, cip.buf)
  BY <1>3, <1>4, <1>5 DEF Good, PlaceOK, HomeOK, ReportOK, IsCall, Fields, Sound, Stays
<1>7. DirsOK' /\ Like(call', n.call) /\ srv'.cwd = srv.cwd
  BY <1>2, <1>6, MKDDoes DEF CallInv
<1> QED
  BY <1>2, <1>6, <1>7, Concludes

-----------------------------------------------------------------------------
(* FTPMkdir2's.                                                            *)

\* Noting where the session is, for a way back.
LEMMA Noted ==
  ASSUME CallInv, NEW ok \in BOOLEAN, NEW got, GetCWD(ok, got, call), Stayed(call, srv.cwd),
         cip' = [cip EXCEPT !.cwd = got, !.buf = IF ok THEN got ELSE @]
  PROVE  /\ DirsOK' /\ IsCall(call') /\ Sound(call')
         /\ call'.name = call.name /\ call'.strayed = call.strayed
         /\ Stayed(call', srv'.cwd) /\ HasWay(call', cip'.buf)
<1>1. Good(pc, call, srv.cwd, cip.buf) /\ Sound(call)
  BY GoodIsSound DEF CallInv
<1>2. /\ DirsOK' /\ srv'.cwd = srv.cwd
      /\ ok => got = {PathOf(srv.cwd)} /\ Like(call', call)
      /\ ~ok => Like(call', [call EXCEPT !.noPWD = TRUE])
  BY <1>1, GetCWDDoes DEF CallInv, Sound
<1>3. CASE ok
  <2>1. cip'.buf = {PathOf(srv.cwd)}
    BY <1>2, <1>3 DEF CallInv, CacheInv, Shape
  <2>2. /\ Like(call', call)
        /\ Sound(call') /\ Stayed(call', srv'.cwd)
    BY <1>1, <1>2, <1>3 DEF Like, Sound, Stayed
  <2>3. HasWay(call', cip'.buf)
    BY <1>1, <1>2, <2>1, <2>2, TheOne DEF HasWay, WayOf, Sound, Stayed
  <2> QED
    BY <1>2, <2>2, <2>3 DEF Like
<1>4. CASE ~ok
  <2> DEFINE d == [call EXCEPT !.noPWD = TRUE]
  <2>1. /\ d.name = call.name /\ d.flags = call.flags /\ d.cur = call.cur /\ d.from = call.from
        /\ d.at = call.at /\ d.strayed = call.strayed
    BY <1>1 DEF Sound, IsCall, Fields
  <2>2. d.noPWD = TRUE
    BY <1>1 DEF Sound, IsCall, Fields
  <2> HIDE DEF d
  <2>3. Like(call', d)
    BY <1>2, <1>4 DEF d
  <2>4. /\ call'.noPWD = TRUE /\ IsCall(call')
        /\ call'.name = call.name /\ call'.flags = call.flags /\ call'.cur = call.cur
        /\ call'.from = call.from /\ call'.at = call.at /\ call'.strayed = call.strayed
    BY <2>1, <2>2, <2>3 DEF Like
  <2> QED
    BY <1>1, <1>2, <2>4 DEF Sound, Stayed, HasWay
<1> QED
  BY <1>3, <1>4

LEMMA NotePlaceCall ==
  ASSUME CallInv, CacheInv', NotePlace
  PROVE  CallInv'
<1>1. PICK ok \in BOOLEAN, got \in {{}, cip.cwd, {PathOf(srv.cwd)}} :
        /\ GetCWD(ok, got, call)
        /\ cip' = [cip EXCEPT !.cwd = got, !.buf = IF ok THEN got ELSE @]
  BY DEF NotePlace
<1>2. pc = "mkPwd" /\ pc' = "mkTry"
  BY DEF NotePlace
<1>3. /\ call.name \in {"mkdir", "chdir3"} /\ Stayed(call, srv.cwd)
      /\ call.name = "mkdir" => ~call.strayed
  BY <1>2 DEF CallInv, Good, PlaceOK, HomeOK, Stayed, AtHome
<1>4. /\ DirsOK' /\ IsCall(call') /\ Sound(call')
      /\ call'.name = call.name /\ call'.strayed = call.strayed
      /\ Stayed(call', srv'.cwd) /\ HasWay(call', cip'.buf)
  BY <1>1, <1>3, Noted
<1>5. Good("mkTry", call', srv'.cwd, cip'.buf)
  BY <1>3, <1>4, OnTheWay DEF WayNeeded
<1> QED
  BY <1>2, <1>4, <1>5 DEF CallInv

LEMMA TryExistingCall ==
  ASSUME CallInv, CacheInv', TryExisting
  PROVE  CallInv'
<1>1. PICK ok \in BOOLEAN :
        LET n == IF ok THEN To("mkUndo", call)
                 ELSE IF ~Recursive \/ (Len(Bare) = 2 /\ Bare[1] = "") THEN To("mkOne", call)
                 ELSE FromParent(Len(Bare) - 1, call)
        IN CWD(call.path, ok, n.call) /\ Goes(n) /\ cip' = Moved(cip, ok)
  BY DEF TryExisting
<1> DEFINE n == IF ok THEN To("mkUndo", call)
                ELSE IF ~Recursive \/ (Len(Bare) = 2 /\ Bare[1] = "") THEN To("mkOne", call)
                ELSE FromParent(Len(Bare) - 1, call)
<1>2. pc = "mkTry" /\ pc' = n.pc /\ CWD(call.path, ok, n.call) /\ cip'.buf = cip.buf
  BY <1>1, BufStays DEF TryExisting, Goes, CallInv
<1>3. /\ Sound(call) /\ HasWay(call, cip.buf) /\ Stayed(call, srv.cwd)
      /\ call.name = "mkdir" => ~call.strayed
      /\ call.name \in {"mkdir", "chdir3"}
  BY <1>2, GoodOnTheWay DEF CallInv, WayNeeded, AtHome
<1>4. \/ ok /\ n = [pc |-> "mkUndo", call |-> call]
      \/ ~ok /\ n = [pc |-> "mkOne", call |-> call]
      \/ ~ok /\ n = FromParent(Len(Bare) - 1, call)
  BY DEF To
<1> HIDE DEF n
<1>5. /\ IsCall(n.call)
      /\ \A cwd : (~ok => cwd = srv.cwd) => Good(n.pc, n.call, cwd, cip.buf)
  <2>1. CASE ok /\ n = [pc |-> "mkUndo", call |-> call]
    BY <1>3, <2>1, OnTheWay DEF WayNeeded, AtHome, Sound
  <2>2. CASE ~ok /\ n = [pc |-> "mkOne", call |-> call]
    BY <1>3, <2>2, OnTheWay DEF WayNeeded, Sound
  <2>3. CASE ~ok /\ n = FromParent(Len(Bare) - 1, call)
    BY <1>3, <2>3, FromParentGood
  <2> QED
    BY <1>4, <2>1, <2>2, <2>3
<1>6. DirsOK' /\ Like(call', n.call) /\ (~ok => srv'.cwd = srv.cwd)
  BY <1>2, <1>5, CWDDoes DEF CallInv
<1> QED
  BY <1>2, <1>5, <1>6, Concludes

LEMMA LeaveExistingCall ==
  ASSUME CallInv, CacheInv', LeaveExisting
  PROVE  CallInv'
<1>1. PICK ok \in BOOLEAN :
        LET n == AfterMkdir(IF ok THEN "ok" ELSE "cannotGoToPrevDir",
                            [call EXCEPT !.strayed = @ \/ ~ok])
        IN CWD(Way, ok, n.call) /\ Goes(n) /\ cip' = Moved(cip, ok)
  BY DEF LeaveExisting
<1> DEFINE c == [call EXCEPT !.strayed = @ \/ ~ok]
           result == IF ok THEN "ok" ELSE "cannotGoToPrevDir"
           n == AfterMkdir(result, c)
<1>2. pc = "mkUndo" /\ pc' = n.pc /\ CWD(Way, ok, n.call) /\ cip'.buf = cip.buf
  BY <1>1, BufStays DEF LeaveExisting, Goes, CallInv
<1>3. /\ Sound(call) /\ HasWay(call, cip.buf)
      /\ call.name = "mkdir" => ~call.strayed
      /\ call.name \in {"mkdir", "chdir3"}
  BY <1>2, GoodOnTheWay DEF CallInv, WayNeeded
<1>4. /\ Sound(c) /\ c.name = call.name /\ (c.strayed <=> (call.strayed \/ ~ok))
  BY <1>3, TriedWay
<1>5. c.strayed /\ c.name = "mkdir" => result # "ok"
  BY <1>3, <1>4
<1>6. IsCall(c) /\ IsCall(n.call)
  <2>1. n = [pc |-> "idle", call |-> [c EXCEPT !.result = result]]
        \/ n.call = [c EXCEPT !.at = "again"] \/ n.call = c
        \/ n.call = [c EXCEPT !.result = "failed"]
    BY DEF AfterMkdir, End, To
  <2> HIDE DEF n, c, result
  <2> QED
    BY <1>4, <2>1 DEF Sound, IsCall, Fields
<1>7. Stayed(c, srv'.cwd)
  BY <1>2, <1>3, <1>6, WentBack DEF CallInv
<1> HIDE DEF c, result
<1>8. Good(n.pc, n.call, srv'.cwd, cip.buf)
  BY <1>3, <1>4, <1>5, <1>7, AfterMkdirGood
<1> HIDE DEF n
<1>9. DirsOK' /\ Like(call', n.call)
  BY <1>2, <1>6, CWDDoes DEF CallInv, Way
<1> QED
  BY <1>2, <1>8, <1>9, Concludes

LEMMA MakeOneCall ==
  ASSUME CallInv, CacheInv', MakeOne
  PROVE  CallInv'
<1>1. PICK ok \in BOOLEAN :
        LET n == AfterMkdir(IF ok THEN "ok" ELSE "mkdFailed", call)
        IN MKD(Bare, ok, n.call) /\ Goes(n)
  BY DEF MakeOne
<1> DEFINE result == IF ok THEN "ok" ELSE "mkdFailed"
           n == AfterMkdir(result, call)
<1>2. pc = "mkOne" /\ pc' = n.pc /\ MKD(Bare, ok, n.call) /\ cip' = cip
  BY <1>1 DEF MakeOne, Goes
<1>3. /\ Sound(call) /\ Stayed(call, srv.cwd)
      /\ call.name = "mkdir" => ~call.strayed
      /\ call.name \in {"mkdir", "chdir3"}
  BY <1>2, GoodOnTheWay DEF CallInv, WayNeeded, AtHome
<1> HIDE DEF result
<1>4. IsCall(n.call) /\ Good(n.pc, n.call, srv.cwd, cip.buf)
  BY <1>3, AfterMkdirGood
<1> HIDE DEF n
<1>5. DirsOK' /\ Like(call', n.call) /\ srv'.cwd = srv.cwd
  BY <1>2, <1>4, MKDDoes DEF CallInv
<1> QED
  BY <1>2, <1>4, <1>5, Concludes

LEMMA FindParentCall ==
  ASSUME CallInv, CacheInv', FindParent
  PROVE  CallInv'
<1>1. PICK ok \in BOOLEAN :
        LET n == IF ok THEN To("mkDo", [call EXCEPT !.base = call.k, !.k = @ + 1])
                 ELSE FromParent(call.k - 1, call)
        IN CWD(First(call.k), ok, n.call) /\ Goes(n) /\ cip' = Moved(cip, ok)
  BY DEF FindParent
<1> DEFINE c == [call EXCEPT !.base = call.k, !.k = @ + 1]
           n == IF ok THEN To("mkDo", c) ELSE FromParent(call.k - 1, call)
<1>2. pc = "mkUp" /\ pc' = n.pc /\ CWD(First(call.k), ok, n.call) /\ cip'.buf = cip.buf
  BY <1>1, BufStays DEF FindParent, Goes, CallInv
<1>3. /\ Sound(call) /\ HasWay(call, cip.buf) /\ Stayed(call, srv.cwd)
      /\ call.name = "mkdir" => ~call.strayed
      /\ call.name \in {"mkdir", "chdir3"}
  BY <1>2, GoodOnTheWay DEF CallInv, WayNeeded, AtHome
<1>4. Like(c, call)
  BY <1>3 DEF Like, Sound, IsCall, Fields
<1>5. \/ ok /\ n = [pc |-> "mkDo", call |-> c]
      \/ ~ok /\ n = FromParent(call.k - 1, call)
  BY DEF To
<1> HIDE DEF n, c
<1>6. /\ IsCall(n.call)
      /\ \A cwd : (~ok => cwd = srv.cwd) => Good(n.pc, n.call, cwd, cip.buf)
  <2>1. CASE ok /\ n = [pc |-> "mkDo", call |-> c]
    <3>1. \A cwd : Good("mkDo", call, cwd, cip.buf)
      BY <1>3, OnTheWay DEF WayNeeded, AtHome
    <3> QED
      BY <1>4, <2>1, <3>1, LikeGood DEF Like
  <2>2. CASE ~ok /\ n = FromParent(call.k - 1, call)
    BY <1>3, <2>2, FromParentGood
  <2> QED
    BY <1>5, <2>1, <2>2
<1>7. DirsOK' /\ Like(call', n.call) /\ (~ok => srv'.cwd = srv.cwd)
  BY <1>2, <1>6, CWDDoes DEF CallInv
<1> QED
  BY <1>2, <1>6, <1>7, Concludes

LEMMA MakeNextCall ==
  ASSUME CallInv, CacheInv', MakeNext
  PROVE  CallInv'
<1>1. PICK ok \in BOOLEAN :
        LET n == IF ok /\ MoreToMake THEN To("mkDo", [call EXCEPT !.k = @ + 1])
                 ELSE To("mkBack", [call EXCEPT !.result = IF ok THEN "ok" ELSE "mkdFailed"])
        IN MKD(SubSeq(Bare, call.base + 1, call.k), ok, n.call) /\ Goes(n)
  BY DEF MakeNext
<1> DEFINE result == IF ok THEN "ok" ELSE "mkdFailed"
           n == IF ok /\ MoreToMake THEN To("mkDo", [call EXCEPT !.k = @ + 1])
                ELSE To("mkBack", [call EXCEPT !.result = result])
<1>2. /\ pc = "mkDo" /\ pc' = n.pc /\ cip' = cip
      /\ MKD(SubSeq(Bare, call.base + 1, call.k), ok, n.call)
  BY <1>1 DEF MakeNext, Goes
<1>3. /\ Sound(call) /\ HasWay(call, cip.buf)
      /\ call.name = "mkdir" => ~call.strayed
      /\ call.name \in {"mkdir", "chdir3"}
  BY <1>2, GoodOnTheWay DEF CallInv, WayNeeded
<1>4. \/ n = [pc |-> "mkDo", call |-> [call EXCEPT !.k = @ + 1]]
      \/ n = [pc |-> "mkBack", call |-> [call EXCEPT !.result = result]]
  BY DEF To
<1> HIDE DEF n, result
<1>5. /\ IsCall(n.call) /\ n.pc \in {"mkDo", "mkBack"}
      /\ n.call.name = call.name /\ n.call.flags = call.flags /\ n.call.cur = call.cur
      /\ n.call.from = call.from /\ n.call.at = call.at /\ n.call.strayed = call.strayed
      /\ n.call.noPWD = call.noPWD
  BY <1>3, <1>4 DEF Sound, IsCall, Fields
<1>6. Sound(n.call) /\ HasWay(n.call, cip.buf)
  BY <1>3, <1>5 DEF Sound, HasWay, WayOf
<1>7. Good(n.pc, n.call, srv.cwd, cip.buf)
  BY <1>3, <1>5, <1>6, OnTheWay DEF WayNeeded, AtHome
<1>8. DirsOK' /\ Like(call', n.call) /\ srv'.cwd = srv.cwd
  BY <1>2, <1>5, MKDDoes DEF CallInv
<1> QED
  BY <1>2, <1>7, <1>8, Concludes

LEMMA GoBackCall ==
  ASSUME CallInv, CacheInv', GoBack
  PROVE  CallInv'
<1>1. PICK ok \in BOOLEAN :
        LET n == AfterMkdir(IF call.result = "ok" /\ ~ok THEN "cannotGoToPrevDir"
                            ELSE call.result, [call EXCEPT !.strayed = @ \/ ~ok])
        IN CWD(Way, ok, n.call) /\ Goes(n) /\ cip' = Moved(cip, ok)
  BY DEF GoBack
<1> DEFINE c == [call EXCEPT !.strayed = @ \/ ~ok]
           result == IF call.result = "ok" /\ ~ok THEN "cannotGoToPrevDir" ELSE call.result
           n == AfterMkdir(result, c)
<1>2. pc = "mkBack" /\ pc' = n.pc /\ CWD(Way, ok, n.call) /\ cip'.buf = cip.buf
  BY <1>1, BufStays DEF GoBack, Goes, CallInv
<1>3. /\ Sound(call) /\ HasWay(call, cip.buf)
      /\ call.name = "mkdir" => ~call.strayed
      /\ call.name \in {"mkdir", "chdir3"}
  BY <1>2, GoodOnTheWay DEF CallInv, WayNeeded
<1>4. /\ Sound(c) /\ c.name = call.name /\ (c.strayed <=> (call.strayed \/ ~ok))
  BY <1>3, TriedWay
<1>5. c.strayed /\ c.name = "mkdir" => result # "ok"
  BY <1>3, <1>4
<1>6. IsCall(c) /\ IsCall(n.call)
  <2>1. n = [pc |-> "idle", call |-> [c EXCEPT !.result = result]]
        \/ n.call = [c EXCEPT !.at = "again"] \/ n.call = c
        \/ n.call = [c EXCEPT !.result = "failed"]
    BY DEF AfterMkdir, End, To
  <2> HIDE DEF n, c, result
  <2> QED
    BY <1>4, <2>1 DEF Sound, IsCall, Fields
<1>7. Stayed(c, srv'.cwd)
  BY <1>2, <1>3, <1>6, WentBack DEF CallInv
<1> HIDE DEF c, result
<1>8. Good(n.pc, n.call, srv'.cwd, cip.buf)
  BY <1>3, <1>4, <1>5, <1>7, AfterMkdirGood
<1> HIDE DEF n
<1>9. DirsOK' /\ Like(call', n.call)
  BY <1>2, <1>6, CWDDoes DEF CallInv, Way
<1> QED
  BY <1>2, <1>8, <1>9, Concludes

-----------------------------------------------------------------------------
(* FTPFileType's, and the probes'.                                         *)

\* At a step of FTPFileType at which the session is where the call began.
LEMMA GoodAtHome ==
  ASSUME NEW p \in AtHome, Good(p, call, srv.cwd, cip.buf),
         p \in {"ftMlst", "ftPwd", "ftTry", "exists", "exists2", "pbStart", "rmIn"}
  PROVE  /\ Sound(call) /\ Stayed(call, srv.cwd) /\ call.name \in {"filetype", "rmdir"}
<1>1. Sound(call)
  BY GoodIsSound
<1> QED
  BY <1>1 DEF Good, HomeOK, Stayed, PlaceOK

\* On to such a step, at which the way is not yet needed.
LEMMA StillAtHome ==
  ASSUME NEW c, Sound(c), NEW p \in {"ftMlst", "ftPwd", "exists", "exists2"}, NEW cwd, NEW buf,
         Stayed(c, cwd), c.name \in {"filetype", "rmdir"}
  PROVE  Good(p, c, cwd, buf)
BY DEF Good, Sound, PlaceOK, HomeOK, ReportOK, Stayed, WayNeeded

LEMMA AskMLSTCall ==
  ASSUME CallInv, CacheInv', AskMLST
  PROVE  CallInv'
<1>1. pc = "ftMlst" /\ srv' = srv /\ cip'.buf = cip.buf
  BY DEF AskMLST, Unasked, CallInv, CacheInv, Shape
<1>2. /\ Sound(call) /\ Stayed(call, srv.cwd) /\ call.name \in {"filetype", "rmdir"}
  BY <1>1, GoodAtHome DEF CallInv, AtHome
<1>3. Good("ftPwd", call, srv.cwd, cip.buf)
  BY <1>2, StillAtHome
<1>4. \/ pc' = "ftPwd" /\ call' = call
      \/ \E kind : pc' = AfterType(kind, call).pc /\ call' = AfterType(kind, call).call
  BY DEF AskMLST, Unasked, Goes, To
<1>5. Good(pc', call', srv.cwd, cip.buf)
  BY <1>2, <1>3, <1>4, AfterTypeGood
<1> QED
  BY <1>1, <1>5 DEF CallInv, DirsOK

LEMMA NotePlaceForTypeCall ==
  ASSUME CallInv, CacheInv', NotePlaceForType
  PROVE  CallInv'
<1>1. PICK ok \in BOOLEAN, got \in {{}, cip.cwd, {PathOf(srv.cwd)}} :
        /\ GetCWD(ok, got, call)
        /\ cip' = [cip EXCEPT !.cwd = got, !.buf = IF ok THEN got ELSE @]
  BY DEF NotePlaceForType
<1>2. pc = "ftPwd" /\ pc' = "ftTry"
  BY DEF NotePlaceForType
<1>3. /\ Sound(call) /\ Stayed(call, srv.cwd) /\ call.name \in {"filetype", "rmdir"}
  BY <1>2, GoodAtHome DEF CallInv, AtHome
<1>4. /\ DirsOK' /\ IsCall(call') /\ Sound(call')
      /\ call'.name = call.name /\ call'.strayed = call.strayed
      /\ Stayed(call', srv'.cwd) /\ HasWay(call', cip'.buf)
  BY <1>1, <1>3, Noted
<1>5. Good("ftTry", call', srv'.cwd, cip'.buf)
  BY <1>3, <1>4, OnTheWay DEF WayNeeded
<1> QED
  BY <1>2, <1>4, <1>5 DEF CallInv

LEMMA TryToEnterCall ==
  ASSUME CallInv, CacheInv', TryToEnter
  PROVE  CallInv'
<1>1. PICK ok \in BOOLEAN : /\ CWD(call.path, ok, call) /\ cip' = Moved(cip, ok)
                            /\ pc' = IF ok THEN "ftBack" ELSE "exists"
  BY DEF TryToEnter
<1>2. pc = "ftTry" /\ cip'.buf = cip.buf
  BY <1>1, BufStays DEF TryToEnter, CallInv
<1>3. /\ Sound(call) /\ HasWay(call, cip.buf) /\ Stayed(call, srv.cwd)
      /\ call.name \in {"filetype", "rmdir"}
  BY <1>2, GoodOnTheWay DEF CallInv, WayNeeded, AtHome
<1>4. DirsOK' /\ Like(call', call) /\ (~ok => srv'.cwd = srv.cwd)
  BY <1>1, <1>3, CWDDoes DEF CallInv, Sound
<1>5. CASE ok
  <2>1. Good("ftBack", call, srv'.cwd, cip.buf)
    BY <1>3, OnTheWay DEF WayNeeded, AtHome
  <2> QED
    BY <1>1, <1>2, <1>4, <1>5, <2>1, Concludes
<1>6. CASE ~ok
  <2>1. Good("exists", call, srv'.cwd, cip.buf)
    BY <1>3, <1>4, <1>6, StillAtHome
  <2> QED
    BY <1>1, <1>2, <1>4, <1>6, <2>1, Concludes
<1> QED
  BY <1>5, <1>6

LEMMA LeaveEnteredCall ==
  ASSUME CallInv, CacheInv', LeaveEntered
  PROVE  CallInv'
<1>1. PICK ok \in BOOLEAN :
        LET n == AfterType("dir", [call EXCEPT !.strayed = @ \/ ~ok])
        IN CWD(Way, ok, n.call) /\ Goes(n) /\ cip' = Moved(cip, ok)
  BY DEF LeaveEntered
<1> DEFINE c == [call EXCEPT !.strayed = @ \/ ~ok]
           n == AfterType("dir", c)
<1>2. pc = "ftBack" /\ pc' = n.pc /\ CWD(Way, ok, n.call) /\ cip'.buf = cip.buf
  BY <1>1, BufStays DEF LeaveEntered, Goes, CallInv
<1>3. Sound(call) /\ HasWay(call, cip.buf) /\ call.name \in {"filetype", "rmdir"}
  BY <1>2, GoodOnTheWay DEF CallInv, WayNeeded
<1>4. Sound(c) /\ c.name = call.name
  BY <1>3, TriedWay
<1>5. IsCall(n.call)
  <2>1. \/ n.call = c
        \/ \E r : n.call = [c EXCEPT !.result = r]
    BY DEF AfterType, End, To
  <2> HIDE DEF n, c
  <2> QED
    BY <1>4, <2>1 DEF Sound, IsCall, Fields
<1>6. Stayed(c, srv'.cwd)
  BY <1>2, <1>3, <1>5, WentBack DEF CallInv
<1> HIDE DEF c
<1>7. Good(n.pc, n.call, srv'.cwd, cip.buf)
  BY <1>3, <1>4, <1>6, AfterTypeGood
<1> HIDE DEF n
<1>8. DirsOK' /\ Like(call', n.call)
  BY <1>2, <1>5, CWDDoes DEF CallInv, Way
<1> QED
  BY <1>2, <1>7, <1>8, Concludes

LEMMA ExistsAnswerCall ==
  ASSUME CallInv, CacheInv', ExistsAnswer
  PROVE  CallInv'
<1>1. /\ pc = "exists" /\ UNCHANGED <<srv, cip>>
      /\ \E result : pc' = AfterType(result, call).pc /\ call' = AfterType(result, call).call
  BY DEF ExistsAnswer, Unasked, Goes
<1>2. /\ Sound(call) /\ Stayed(call, srv.cwd) /\ call.name \in {"filetype", "rmdir"}
  BY <1>1, GoodAtHome DEF CallInv, AtHome
<1>3. Good(pc', call', srv.cwd, cip.buf)
  BY <1>1, <1>2, AfterTypeGood
<1> QED
  BY <1>1, <1>3 DEF CallInv, DirsOK

LEMMA SkipProbeCall ==
  ASSUME CallInv, CacheInv', SkipProbe \/ ProbeKnown
  PROVE  CallInv'
<1>1. /\ pc \in {"exists", "exists2"} /\ UNCHANGED <<srv, cip>>
      /\ \/ pc' = NextProbe(call).pc /\ call' = NextProbe(call).call
         \/ \E result : pc' = AfterType(result, call).pc /\ call' = AfterType(result, call).call
  <2>1. CASE SkipProbe
    BY <2>1 DEF SkipProbe, Unasked, Goes
  <2>2. CASE ProbeKnown
    BY <2>2 DEF ProbeKnown, Unasked, Goes
  <2> QED
    BY <2>1, <2>2
<1>2. /\ Sound(call) /\ Stayed(call, srv.cwd) /\ call.name \in {"filetype", "rmdir"}
  BY <1>1, GoodAtHome DEF CallInv, AtHome
<1>3. Good(pc', call', srv.cwd, cip.buf)
  BY <1>1, <1>2, AfterTypeGood, NextProbeGood
<1> QED
  BY <1>1, <1>3 DEF CallInv, DirsOK

LEMMA ProbeCall ==
  ASSUME CallInv, CacheInv', Probe
  PROVE  CallInv'
<1>1. pc \in {"exists", "exists2"}
  BY DEF Probe
<1>2. /\ Sound(call) /\ Stayed(call, srv.cwd) /\ call.name \in {"filetype", "rmdir"}
  BY <1>1, GoodAtHome DEF CallInv, AtHome
<1>3. /\ IsCall(NextProbe(call).call)
      /\ Good(NextProbe(call).pc, NextProbe(call).call, srv.cwd, cip.buf)
  BY <1>2, NextProbeGood
<1>4. CASE /\ pc' = NextProbe(call).pc /\ call' = NextProbe(call).call /\ srv' = srv
           /\ cip' = Learnt(cip, "no")
  BY <1>3, <1>4, BufStays DEF CallInv, DirsOK
<1>5. ASSUME NEW ok \in BOOLEAN, NEW got,
             LET n == IF ok THEN To("pbStart", [call EXCEPT !.saved = got]) ELSE NextProbe(call)
             IN GetCWD(ok, got, n.call) /\ Goes(n) /\ cip' = [cip EXCEPT !.cwd = got]
      PROVE  CallInv'
  <2> DEFINE c == [call EXCEPT !.saved = got]
             n == IF ok THEN To("pbStart", c) ELSE NextProbe(call)
  <2>1. pc' = n.pc /\ GetCWD(ok, got, n.call) /\ cip'.buf = cip.buf
    BY <1>5, BufStays DEF Goes, CallInv
  <2>2. \/ ok /\ n = [pc |-> "pbStart", call |-> c]
        \/ ~ok /\ n = NextProbe(call)
    BY DEF To
  <2>3. /\ IsCall(c) /\ c.saved = got
        /\ c.name = call.name /\ c.flags = call.flags /\ c.cur = call.cur
        /\ c.from = call.from /\ c.at = call.at /\ c.strayed = call.strayed
        /\ c.noPWD = call.noPWD
    BY <1>2 DEF Sound, IsCall, Fields
  <2> HIDE DEF n, c
  <2>4. IsCall(n.call)
    BY <1>3, <2>2, <2>3
  <2>5. /\ DirsOK' /\ srv'.cwd = srv.cwd
        /\ ok => got = {PathOf(srv.cwd)} /\ Like(call', n.call)
        /\ ~ok => Like(call', [n.call EXCEPT !.noPWD = TRUE])
    BY <2>1, <2>4, GetCWDDoes DEF CallInv
  <2>6. CASE ok
    <3>1. Sound(c) /\ Stayed(c, srv.cwd)
      BY <1>2, <2>3 DEF Sound, Stayed
    <3>2. c.saved = {PathOf(srv.cwd)}
      BY <2>3, <2>5, <2>6
    <3>3. Good("pbStart", c, srv.cwd, cip.buf)
      BY <1>2, <2>3, <3>1, <3>2 DEF Good, Sound, PlaceOK, HomeOK, ReportOK, Stayed, WayNeeded
    <3> QED
      BY <2>1, <2>2, <2>5, <2>6, <3>3, Concludes
  <2>7. CASE ~ok
    <3>1. Good(n.pc, n.call, srv.cwd, cip.buf)
      BY <1>3, <2>2, <2>7
    <3>2. Good(n.pc, [n.call EXCEPT !.noPWD = TRUE], srv.cwd, cip.buf)
      BY <3>1, MarkedGood
    <3> QED
      BY <2>1, <2>5, <2>7, <3>2, Concludes
  <2> QED
    BY <2>6, <2>7
<1> QED
  BY <1>4, <1>5 DEF Probe, Unasked, Goes

LEMMA ProbeStartCall ==
  ASSUME CallInv, CacheInv', ProbeStart
  PROVE  CallInv'
<1>1. pc = "pbStart"
  BY DEF ProbeStart
<1>2. /\ Sound(call) /\ Stayed(call, srv.cwd) /\ call.name \in {"filetype", "rmdir"}
  BY <1>1, GoodAtHome DEF CallInv, AtHome
<1>3. /\ IsCall(NextProbe(call).call)
      /\ Good(NextProbe(call).pc, NextProbe(call).call, srv.cwd, cip.buf)
  BY <1>2, NextProbeGood
<1>4. CASE /\ pc' = NextProbe(call).pc /\ call' = NextProbe(call).call
           /\ UNCHANGED <<srv, cip>>
  BY <1>3, <1>4 DEF CallInv, DirsOK
<1>5. ASSUME NEW ok \in BOOLEAN,
             LET n == IF ok THEN To("pbBack", call) ELSE NextProbe(call)
             IN CWD(Str(cip.start), ok, n.call) /\ Goes(n) /\ cip' = Moved(cip, ok)
      PROVE  CallInv'
  <2> DEFINE n == IF ok THEN To("pbBack", call) ELSE NextProbe(call)
  <2>1. pc' = n.pc /\ CWD(Str(cip.start), ok, n.call) /\ cip'.buf = cip.buf
    BY <1>5, BufStays DEF Goes, CallInv
  <2>2. \/ ok /\ n = [pc |-> "pbBack", call |-> call]
        \/ ~ok /\ n = NextProbe(call)
    BY DEF To
  <2> HIDE DEF n
  <2>3. IsCall(n.call)
    BY <1>2, <1>3, <2>2 DEF Sound
  <2>4. DirsOK' /\ Like(call', n.call) /\ (~ok => srv'.cwd = srv.cwd)
    BY <2>1, <2>3, CWDDoes DEF CallInv
  <2>5. CASE ok
    <3>1. Good("pbBack", call, srv'.cwd, cip.buf)
      BY <1>1, <1>2 DEF CallInv, Good, PlaceOK, HomeOK, ReportOK, AtHome, WayNeeded
    <3> QED
      BY <2>1, <2>2, <2>4, <2>5, <3>1, Concludes
  <2>6. CASE ~ok
    BY <1>3, <2>1, <2>2, <2>4, <2>6, Concludes
  <2> QED
    BY <2>5, <2>6
<1> QED
  BY <1>4, <1>5 DEF ProbeStart, Unasked, Goes

LEMMA ProbeBackCall ==
  ASSUME CallInv, CacheInv', ProbeBack
  PROVE  CallInv'
<1>1. PICK ok \in BOOLEAN, works \in {"yes", "no"}, result \in {"file", "noSuch"} :
        LET c == [call EXCEPT !.strayed = @ \/ ~ok]
            n == IF works = "yes" THEN AfterType(result, c) ELSE NextProbe(c)
        IN CWD(Str(call.saved), ok, n.call) /\ Goes(n) /\ cip' = Learnt(Moved(cip, ok), works)
  BY DEF ProbeBack
<1> DEFINE c == [call EXCEPT !.strayed = @ \/ ~ok]
           n == IF works = "yes" THEN AfterType(result, c) ELSE NextProbe(c)
<1>2. pc = "pbBack" /\ pc' = n.pc /\ CWD(Str(call.saved), ok, n.call) /\ cip'.buf = cip.buf
  BY <1>1, BufStays DEF ProbeBack, Goes, CallInv
<1>3. /\ Sound(call) /\ call.name \in {"filetype", "rmdir"}
      /\ ~call.noPWD /\ ~call.strayed => call.saved = {PathOf(call.from)}
  BY <1>2, GoodIsSound DEF CallInv, Good, PlaceOK, HomeOK, Stays
<1>4. /\ Sound(c) /\ c.name = call.name /\ c.from = call.from /\ c.noPWD = call.noPWD
      /\ (c.strayed <=> (call.strayed \/ ~ok))
  BY <1>3, TriedWay
<1>5. n = AfterType(result, c) \/ n = NextProbe(c)
  OBVIOUS
<1> HIDE DEF c, n
<1>6. IsCall(n.call)
  <2>1. Stayed(c, c.from)
    BY DEF Stayed
  <2> QED
    BY <1>3, <1>4, <1>5, <2>1, AfterTypeGood, NextProbeGood
<1>7. Stayed(c, srv'.cwd)
  <2>1. SUFFICES ASSUME ~c.noPWD, ~c.strayed
                 PROVE  srv'.cwd = c.from
    BY DEF Stayed
  <2>2. ok /\ Str(call.saved) = PathOf(call.from)
    BY <1>3, <1>4, <2>1, TheOne
  <2>3. call.from \in Dirs
    BY <1>3 DEF Sound
  <2> QED
    BY <1>2, <1>4, <1>6, <2>2, <2>3, WayLeadsBack DEF CallInv
<1>8. Good(n.pc, n.call, srv'.cwd, cip.buf)
  BY <1>3, <1>4, <1>5, <1>7, AfterTypeGood, NextProbeGood
<1>9. DirsOK' /\ Like(call', n.call)
  BY <1>2, <1>6, CWDDoes DEF CallInv
<1> QED
  BY <1>2, <1>8, <1>9, Concludes

-----------------------------------------------------------------------------
(* FTPRmdir's.                                                             *)

LEMMA RemoveDirCall ==
  ASSUME CallInv, CacheInv', RemoveDir
  PROVE  CallInv'
<1>1. PICK ok \in BOOLEAN :
        LET n == IF ok THEN End("ok", call)
                 ELSE IF call.recurse THEN To("rmPwd", call) ELSE End("rmdFailed", call)
        IN RMD(call.path, ok, n.call) /\ Goes(n)
  BY DEF RemoveDir
<1> DEFINE n == IF ok THEN End("ok", call)
                ELSE IF call.recurse THEN To("rmPwd", call) ELSE End("rmdFailed", call)
<1>2. pc = "rmTry" /\ pc' = n.pc /\ RMD(call.path, ok, n.call) /\ cip' = cip
  BY <1>1 DEF RemoveDir, Goes
<1>3. /\ Sound(call) /\ call.name = "rmdir" /\ Stayed(call, srv.cwd)
  BY <1>2, GoodIsSound DEF CallInv, Good, PlaceOK, HomeOK, Stayed, AtHome
<1>4. \/ n = [pc |-> "rmPwd", call |-> call]
      \/ \E r : n = [pc |-> "idle", call |-> [call EXCEPT !.result = r]]
  BY DEF To, End
<1> HIDE DEF n
<1>5. IsCall(n.call) /\ Good(n.pc, n.call, srv.cwd, cip.buf)
  BY <1>3, <1>4 DEF Good, PlaceOK, HomeOK, ReportOK, IsCall, Fields, Sound, Stayed, WayNeeded
<1>6. DirsOK' /\ Like(call', n.call) /\ srv'.cwd = srv.cwd
  BY <1>2, <1>5, RMDDoes DEF CallInv
<1> QED
  BY <1>2, <1>5, <1>6, Concludes

LEMMA NotePlaceForRmdirCall ==
  ASSUME CallInv, CacheInv', NotePlaceForRmdir
  PROVE  CallInv'
<1>1. PICK ok \in BOOLEAN, got \in {{}, cip.cwd, {PathOf(srv.cwd)}} :
        /\ GetCWD(ok, got, call)
        /\ cip' = [cip EXCEPT !.cwd = got, !.buf = IF ok THEN got ELSE @]
  BY DEF NotePlaceForRmdir
<1>2. pc = "rmPwd" /\ pc' = "ftMlst"
  BY DEF NotePlaceForRmdir
<1>3. call.name = "rmdir" /\ Stayed(call, srv.cwd)
  BY <1>2 DEF CallInv, Good, PlaceOK, HomeOK, Stayed, AtHome
<1>4. /\ DirsOK' /\ Sound(call') /\ call'.name = call.name /\ Stayed(call', srv'.cwd)
  BY <1>1, <1>3, Noted
<1>5. Good("ftMlst", call', srv'.cwd, cip'.buf)
  BY <1>3, <1>4, StillAtHome
<1> QED
  BY <1>2, <1>4, <1>5 DEF CallInv

LEMMA EnterNoDirCall ==
  ASSUME CallInv, CacheInv', EnterNoDir
  PROVE  CallInv'
<1> DEFINE n == End("rmdFailed", call)
<1>1. pc = "rmIn" /\ pc' = n.pc /\ CWD(call.path, FALSE, n.call) /\ cip' = cip
  BY DEF EnterNoDir, Goes
<1>2. Sound(call) /\ Stayed(call, srv.cwd) /\ call.name \in {"filetype", "rmdir"}
  BY <1>1, GoodAtHome DEF CallInv, AtHome
<1>3. n = [pc |-> "idle", call |-> [call EXCEPT !.result = "rmdFailed"]]
  BY DEF End
<1> HIDE DEF n
<1>4. IsCall(n.call) /\ Good(n.pc, n.call, srv.cwd, cip.buf)
  BY <1>2, <1>3 DEF Good, PlaceOK, HomeOK, ReportOK, IsCall, Fields, Sound, Stayed, WayNeeded
<1>5. DirsOK' /\ Like(call', n.call) /\ srv'.cwd = srv.cwd
  BY <1>1, <1>4, CWDDoes DEF CallInv
<1> QED
  BY <1>1, <1>4, <1>5, Concludes

-----------------------------------------------------------------------------
(* The application and another client.                                     *)

\* A call begins where the session is, and knows the way if it is told.
LEMMA BeginsAt ==
  ASSUME CallInv, NEW name, NEW path, NEW flags, NEW recurse, NEW cur,
         Begins(name, path, flags, recurse, cur),
         flags # {} => name = "chdir3", cur \in {{}, {PathOf(srv.cwd)}}
  PROVE  /\ UNCHANGED <<cip, srv>> /\ DirsOK'
         /\ Sound(call') /\ Stayed(call', srv.cwd)
         /\ call'.name = name /\ ~call'.strayed
         /\ cur # {} => HasWay(call', cip.buf)
<1>1. /\ UNCHANGED <<cip, srv>>
      /\ call' = [NoCall EXCEPT !.name = name, !.path = path, !.flags = flags,
                                !.at = IF name = "chdir3" THEN "full" ELSE "simple",
                                !.recurse = recurse, !.cur = cur, !.from = srv.cwd,
                                !.k = 1, !.seen = srv.dirs]
  BY DEF Begins
<1>2. IsCall(NoCall) /\ NoCall.strayed = FALSE /\ NoCall.noPWD = FALSE
  BY DEF IsCall, Fields, NoCall
<1>3. /\ call'.name = name /\ call'.flags = flags /\ call'.cur = cur /\ call'.from = srv.cwd
      /\ call'.at = IF name = "chdir3" THEN "full" ELSE "simple"
  BY <1>1, <1>2 DEF IsCall, Fields
<1>4. call'.strayed = FALSE /\ call'.noPWD = FALSE
  BY <1>1, <1>2 DEF IsCall, Fields
<1>5. IsCall(call')
  BY <1>1, <1>2 DEF IsCall
<1>6. srv.cwd \in Dirs
  BY DEF CallInv, DirsOK
<1>7. Sound(call') /\ Stayed(call', srv.cwd)
  BY <1>3, <1>4, <1>5, <1>6 DEF Sound, Stayed
<1>8. cur # {} => HasWay(call', cip.buf)
  BY <1>3, TheOne DEF HasWay, WayOf
<1> QED
  BY <1>1, <1>3, <1>4, <1>7, <1>8 DEF CallInv, DirsOK

\* Its first step.
LEMMA FirstStep ==
  ASSUME NEW p, NEW c, Sound(c), NEW cwd, NEW buf, Stayed(c, cwd), ~c.strayed,
         \/ p = "cdPwd" /\ c.name = "getcwd"
         \/ p = "cd" /\ c.name \in {"chdir", "chdirpwd", "chdir3"}
         \/ p = "split" /\ c.name = "chdir3"
         \/ p = "mkPwd" /\ c.name = "mkdir"
         \/ p = "ftMlst" /\ c.name = "filetype"
         \/ p = "rmTry" /\ c.name = "rmdir"
  PROVE  Good(p, c, cwd, buf)
BY DEF Good, Sound, PlaceOK, HomeOK, ReportOK, Stayed, WayNeeded, Stays

LEMMA ApplicationCall ==
  ASSUME CallInv, CacheInv', Application
  PROVE  CallInv'
<1>1. CASE FTPGetCWD
  <2>1. Begins("getcwd", <<"">>, {}, FALSE, {}) /\ pc' = "cdPwd"
    BY <1>1 DEF FTPGetCWD
  <2>2. /\ UNCHANGED <<cip, srv>> /\ DirsOK' /\ Sound(call') /\ Stayed(call', srv.cwd)
        /\ call'.name = "getcwd" /\ ~call'.strayed
    BY <2>1, BeginsAt
  <2> QED
    BY <2>1, <2>2, FirstStep DEF CallInv
<1>2. ASSUME NEW path, FTPChdir(path)
      PROVE  CallInv'
  <2>1. Begins("chdir", path, {}, FALSE, {}) /\ pc' = "cd"
    BY <1>2 DEF FTPChdir
  <2>2. /\ UNCHANGED <<cip, srv>> /\ DirsOK' /\ Sound(call') /\ Stayed(call', srv.cwd)
        /\ call'.name = "chdir" /\ ~call'.strayed
    BY <2>1, BeginsAt
  <2> QED
    BY <2>1, <2>2, FirstStep DEF CallInv
<1>3. ASSUME NEW path, FTPChdirAndGetCWD(path)
      PROVE  CallInv'
  <2>1. Begins("chdirpwd", path, {}, FALSE, {}) /\ pc' = "cd"
    BY <1>3 DEF FTPChdirAndGetCWD
  <2>2. /\ UNCHANGED <<cip, srv>> /\ DirsOK' /\ Sound(call') /\ Stayed(call', srv.cwd)
        /\ call'.name = "chdirpwd" /\ ~call'.strayed
    BY <2>1, BeginsAt
  <2> QED
    BY <2>1, <2>2, FirstStep DEF CallInv
<1>4. ASSUME NEW path, FTPFileType(path)
      PROVE  CallInv'
  <2>1. Begins("filetype", path, {}, FALSE, {}) /\ pc' = "ftMlst"
    BY <1>4 DEF FTPFileType
  <2>2. /\ UNCHANGED <<cip, srv>> /\ DirsOK' /\ Sound(call') /\ Stayed(call', srv.cwd)
        /\ call'.name = "filetype" /\ ~call'.strayed
    BY <2>1, BeginsAt
  <2> QED
    BY <2>1, <2>2, FirstStep DEF CallInv
<1>5. ASSUME NEW path, NEW flags, FTPChdir3(path, flags)
      PROVE  CallInv'
  <2>1. Begins("chdir3", path, flags, FALSE, {}) /\ pc' \in {"cd", "split"}
    BY <1>5 DEF FTPChdir3
  <2>2. /\ UNCHANGED <<cip, srv>> /\ DirsOK' /\ Sound(call') /\ Stayed(call', srv.cwd)
        /\ call'.name = "chdir3" /\ ~call'.strayed
    BY <2>1, BeginsAt
  <2> QED
    BY <2>1, <2>2, FirstStep DEF CallInv
<1>6. ASSUME NEW path, NEW recurse, FTPRmdir(path, recurse)
      PROVE  CallInv'
  <2>1. Begins("rmdir", path, {}, recurse, {}) /\ pc' = "rmTry"
    BY <1>6 DEF FTPRmdir
  <2>2. /\ UNCHANGED <<cip, srv>> /\ DirsOK' /\ Sound(call') /\ Stayed(call', srv.cwd)
        /\ call'.name = "rmdir" /\ ~call'.strayed
    BY <2>1, BeginsAt
  <2> QED
    BY <2>1, <2>2, FirstStep DEF CallInv
<1>7. ASSUME NEW path, NEW recurse, NEW cur \in {{}, {PathOf(srv.cwd)}},
             FTPMkdir2(path, recurse, cur)
      PROVE  CallInv'
  <2>1. /\ Begins("mkdir", path, {}, recurse, cur)
        /\ pc' = IF cur = {} THEN "mkPwd" ELSE "mkTry"
    BY <1>7 DEF FTPMkdir2
  <2>2. /\ UNCHANGED <<cip, srv>> /\ DirsOK' /\ Sound(call') /\ Stayed(call', srv.cwd)
        /\ call'.name = "mkdir" /\ ~call'.strayed
        /\ cur # {} => HasWay(call', cip.buf)
    BY <2>1, BeginsAt
  <2>3. CASE cur = {}
    BY <2>1, <2>2, <2>3, FirstStep DEF CallInv
  <2>4. CASE cur # {}
    BY <2>1, <2>2, <2>4, OnTheWay DEF CallInv, WayNeeded
  <2> QED
    BY <2>3, <2>4
<1> QED
  BY <1>1, <1>2, <1>3, <1>4, <1>5, <1>6, <1>7 DEF Application

LEMMA MeddleCall ==
  ASSUME CallInv, CacheInv', Meddle
  PROVE  CallInv'
<1>1. /\ pc' = pc /\ cip' = cip /\ srv'.cwd = srv.cwd /\ DirsOK'
  BY DEF Meddle, CallInv, CacheInv, Shape, DirsOK
<1>2. Like(call', call)
  <2>1. call' = [call EXCEPT !.meddled = TRUE, !.seen = @ \cup srv'.dirs]
    BY DEF Meddle
  <2> QED
    BY <2>1 DEF CallInv, Good, Like, IsCall, Fields
<1> QED
  BY <1>1, <1>2, LikeGood DEF CallInv

-----------------------------------------------------------------------------

\* After the login no call is under way.
LEMMA InitCall == ASSUME Init PROVE CallInv
<1>1. CacheInv
  BY InitCache
<1>2. DirsOK
  BY DirsAssumption DEF Init, DirsOK, DirsAssumption
<1>3. /\ pc = "idle" /\ call = NoCall
  BY DEF Init
<1>4. /\ IsCall(call) /\ call.name = "chdir" /\ call.flags = {} /\ call.at = "simple"
      /\ call.cur = {} /\ call.from = Home
  BY <1>3 DEF NoCall, IsCall, Fields
<1>5. call.strayed = FALSE /\ call.noPWD = FALSE
  BY <1>3 DEF NoCall
<1>6. Good(pc, call, srv.cwd, cip.buf)
  BY <1>3, <1>4, <1>5, DirsAssumption
  DEF Good, PlaceOK, HomeOK, ReportOK, Stays, DirsAssumption
<1> QED
  BY <1>1, <1>2, <1>6 DEF CallInv

LEMMA StepCall == ASSUME CallInv, [Next]_vars PROVE CallInv'
<1>1. CacheInv'
  BY StepCache DEF CallInv
<1>2. CASE Nowhere \/ ChangeDir \/ AskPWD \/ Split \/ MakeStep
  BY <1>1, <1>2, NowhereCall, ChangeDirCall, AskPWDCall, SplitCall, MakeStepCall
<1>3. CASE \/ NotePlace \/ TryExisting \/ LeaveExisting \/ MakeOne
           \/ FindParent \/ MakeNext \/ GoBack
  BY <1>1, <1>3, NotePlaceCall, TryExistingCall, LeaveExistingCall, MakeOneCall,
     FindParentCall, MakeNextCall, GoBackCall
<1>4. CASE AskMLST \/ NotePlaceForType \/ TryToEnter \/ LeaveEntered \/ ExistsAnswer
  BY <1>1, <1>4, AskMLSTCall, NotePlaceForTypeCall, TryToEnterCall, LeaveEnteredCall,
     ExistsAnswerCall
<1>5. CASE Probe \/ SkipProbe \/ ProbeKnown \/ ProbeStart \/ ProbeBack
  BY <1>1, <1>5, ProbeCall, SkipProbeCall, ProbeStartCall, ProbeBackCall
<1>6. CASE RemoveDir \/ NotePlaceForRmdir \/ EnterNoDir
  BY <1>1, <1>6, RemoveDirCall, NotePlaceForRmdirCall, EnterNoDirCall
<1>7. CASE Application \/ Meddle
  BY <1>1, <1>7, ApplicationCall, MeddleCall
<1>8. CASE UNCHANGED vars
  BY <1>1, <1>8 DEF vars, CallInv, DirsOK, Good, IsCall, PlaceOK, HomeOK, ReportOK, WayOf
<1> QED
  BY <1>2, <1>3, <1>4, <1>5, <1>6, <1>7, <1>8 DEF Next, Library

\* What a call knows of its way back and of the session is inductive: which steps
\* leave the session where the call began, and at which of the others the way is
\* in curDir, in cip->buf or in a probe's own copy.
THEOREM CallInvariance == Spec => []CallInv
<1>1. Init => CallInv
  BY InitCall
<1>2. CallInv /\ [Next]_vars => CallInv'
  BY StepCall
<1> QED
  BY <1>1, <1>2, PTL DEF Spec

\* Calls that are not asked to change the directory leave it where it was, unless
\* the server refuses PWD or the way back; and when FTPMkdir could not go back
\* (c_mkdir.c's goback) it does not say that all went well.
THEOREM ComesBack == Spec => []WayBack
<1>1. CallInv => WayBack
  BY DEF CallInv, Good, HomeOK, WayBack, Ended, Stays, AtHome
<1> QED
  BY <1>1, CallInvariance, PTL

\* The path that FTPGetCWD, FTPChdirAndGetCWD and FTPChdir3 report with success is
\* the server's, from the cache, from the reply to CWD or from PWD, and by
\* whichever of its ways FTPChdir3 got there.
THEOREM ReportsRight == Spec => []Reported
<1>1. CallInv => Reported
  BY DEF CallInv, Good, ReportOK, Reported, Ended
<1> QED
  BY <1>1, CallInvariance, PTL


-----------------------------------------------------------------------------
(* Where a change of directory arrives.                                     *)

Chdirs == {"chdir", "chdirpwd", "chdir3"}

\* A path that has no empty piece after its first slash.
Plain(path) == \A i \in 2..Len(path) : path[i] # ""

\* Where the session is before a piece, or the whole, of the path, and after it.
InPieces(c) == c.at \in {"one", "oneMade"}
BeforePiece(a, path, k) == IF k = 1 THEN a ELSE Along(a, path)[k - 1]
Before(c) == IF InPieces(c) THEN BeforePiece(c.from, c.path, c.k) ELSE c.from
After(c) == IF InPieces(c) THEN Along(c.from, c.path)[c.k] ELSE Resolve(c.from, c.path)

\* FTPMkdir2 on behalf of FTPChdir3: when the session is where the call began, and
\* when the way back is needed.
AtStart == {"split", "mkPwd", "mkTry", "mkOne", "mkUp"}
KnowsWay == {"mkTry", "mkUndo", "mkOne", "mkUp", "mkDo", "mkBack"}

\* A change of directory that could ask where it is, and come back.
OnCourse(c) == c.name \in Chdirs /\ ~c.noPWD /\ ~c.strayed /\ Plain(c.path)

\* A path, which may be the empty string.
Texts == STRING \cup {""}
IsPath(path) == path \in Seq(Texts) /\ path # <<>>

LEMMA PathLen ==
  ASSUME NEW path, IsPath(path)
  PROVE  /\ Len(path) \in Nat /\ Len(path) >= 1 /\ 1 \in 1..Len(path)
         /\ Len(path) = 1 => path = <<path[1]>>
<1>1. Len(path) \in Nat /\ Len(path) # 0
  BY EmptySeq, LenProperties DEF IsPath
<1>2. Len(path) = 1 => path = <<path[1]>>
  <2> SUFFICES ASSUME Len(path) = 1
               PROVE  path = <<path[1]>>
    OBVIOUS
  <2>1. path[1] \in Texts
    BY <1>1, ElementOfSeq DEF IsPath
  <2>2. Len(<<path[1]>>) = 1 /\ <<path[1]>>[1] = path[1] /\ <<path[1]>> \in Seq(Texts)
    BY <2>1
  <2>3. \A i \in 1..1 : path[i] = <<path[1]>>[i]
    BY <2>2
  <2> QED
    BY <2>2, <2>3, SeqEqual DEF IsPath
<1> QED
  BY <1>1, <1>2

ArriveOK(p, c, cwd, buf) ==
  /\ c.name \in Chdirs => IsPath(c.path)
  /\ OnCourse(c) =>
       /\ InPieces(c) /\ p \in {"cd", "cdPwd", "cdMkd"} => c.k \in 1..Len(c.path)
       /\ InPieces(c) /\ p = "cd" => Len(c.path) # 1 \/ c.path[1] # ""
       /\ p = "cdMkd" => c.at = "one"
       /\ p = "cdMkd" \/ (p = "cd" /\ c.at = "oneMade") => c.path[c.k] # ""
       /\ p \in {"cd", "cdMkd"} => cwd = Before(c)
       /\ p = "cdPwd" => cwd = After(c)
       /\ p \in AtStart => cwd = c.from
       /\ p \in KnowsWay => WayOf(c, buf) = PathOf(c.from)
       /\ p = "idle" /\ c.result = "ok" => cwd = Resolve(c.from, c.path)

ArriveInv == ArriveOK(pc, call, srv.cwd, cip.buf)

\* Two calls that differ only in what they have seen and been denied.
Same(d, c) ==
  /\ IsCall(d)
  /\ \A f \in Fields \ {"denied", "meddled", "seen"} : d[f] = c[f]

\* The arguments of the calls are paths.
LEMMA PathsArePaths ==
  ASSUME NEW path \in Paths
  PROVE  IsPath(path) /\ path \in Seq(STRING)
<1>1. path \in Seq(STRING) /\ path # <<>>
  BY PathsAssumption DEF PathsAssumption
<1>2. path \in [1..Len(path) -> STRING] /\ Len(path) \in Nat
  BY <1>1, LenProperties
<1>3. path \in [1..Len(path) -> Texts]
  BY <1>2 DEF Texts
<1>4. path \in Seq(Texts)
  BY <1>2, <1>3, SeqDef
<1> QED
  BY <1>1, <1>4 DEF IsPath

LEMMA SameArrives ==
  ASSUME NEW p, NEW c, NEW d, NEW cwd, NEW buf, ArriveOK(p, c, cwd, buf), Same(d, c)
  PROVE  ArriveOK(p, d, cwd, buf)
<1>1. /\ d.name = c.name /\ d.path = c.path /\ d.cur = c.cur /\ d.from = c.from /\ d.at = c.at
      /\ d.k = c.k /\ d.result = c.result /\ d.noPWD = c.noPWD /\ d.strayed = c.strayed
  BY DEF Same, Fields
<1> QED
  BY <1>1 DEF ArriveOK, OnCourse, InPieces, Before, After, WayOf

\* What the commands leave of a call.
LEMMA CommandSame ==
  ASSUME NEW c, IsCall(c), NEW path, NEW ok,
         CWD(path, ok, c) \/ MKD(path, ok, c) \/ RMD(path, ok, c) \/ Unasked(c)
  PROVE  Same(call', c)
<1>1. \/ call' = c \/ call' = [c EXCEPT !.denied = TRUE]
      \/ \E dir : call' = [c EXCEPT !.seen = @ \cup {dir}]
  BY DEF CWD, MKD, RMD, Unasked, Denied
<1> QED
  BY <1>1 DEF Same, IsCall, Fields

LEMMA GetCWDSame ==
  ASSUME NEW c, IsCall(c), NEW ok \in BOOLEAN, NEW got, GetCWD(ok, got, c)
  PROVE  /\ ok => Same(call', c)
         /\ IsCall(call') /\ call'.name = c.name /\ call'.path = c.path
         /\ ~ok => call'.noPWD = TRUE
<1>1. ok => call' = c
  BY DEF GetCWD, Unasked
<1>2. ~ok => call' = [c EXCEPT !.noPWD = TRUE, !.denied = TRUE]
  <2>1. ~ok => call' = [[c EXCEPT !.noPWD = TRUE] EXCEPT !.denied = TRUE]
    BY DEF GetCWD, Denied
  <2> QED
    BY <2>1
<1>3. CASE ok
  BY <1>1, <1>3 DEF Same
<1>4. CASE ~ok
  BY <1>2, <1>4 DEF IsCall, Fields
<1> QED
  BY <1>3, <1>4

\* CWD comes to where the path leads.
LEMMA CWDGoes ==
  ASSUME CacheInv, NEW path, NEW ok \in BOOLEAN, NEW c, CWD(path, ok, c)
  PROVE  /\ ok => srv'.cwd = Resolve(srv.cwd, path)
         /\ ~ok => srv'.cwd = srv.cwd
<1>1. CASE ok /\ path = <<Nothing>>
  <2>1. srv' = srv
    BY <1>1 DEF CWD, Unasked, Nothing
  <2>2. Resolve(srv.cwd, path) = srv.cwd
    BY <1>1, OnePiece, NothingIs
  <2> QED
    BY <1>1, <2>1, <2>2
<1>2. CASE ok /\ path # <<Nothing>>
  BY <1>2 DEF CWD, CacheInv, Shape, Target, Nothing
<1>3. CASE ~ok
  BY <1>3 DEF CWD, Unasked, Denied
<1> QED
  BY <1>1, <1>2, <1>3

PieceStep(path, k) == IF path[k] = Nothing THEN PathOf(<<>>) ELSE <<path[k]>>

\* A piece of a path, the root for the empty one, leads from where the pieces before
\* it lead to where it does.
LEMMA PieceLeads ==
  ASSUME NEW a, NEW path, NEW k, NEW cwd, IsPath(path), Plain(path), k \in 1..Len(path),
         Len(path) # 1 \/ path[1] # Nothing, cwd = BeforePiece(a, path, k)
  PROVE  Resolve(cwd, PieceStep(path, k)) = Along(a, path)[k]
<1> DEFINE n == Len(path)
           at == Along(a, path)
<1>1. n \in Nat /\ n >= 1 /\ k \in 1..n /\ k \in Nat
  BY PathLen
<1>2. at[0] = From(a, path) /\ at[k] = Piece(at[k - 1], path[k])
  BY <1>1, AlongIs
<1>3. \A i \in 2..n : path[i] # Nothing
  BY DEF Plain, Nothing
<1>4. (k = 1 => cwd = a) /\ (k # 1 => cwd = at[k - 1])
  BY DEF BeforePiece
<1>5. n # 1 \/ path[1] # Nothing
  OBVIOUS
<1> HIDE DEF n, at
<1>6. CASE path[k] = Nothing
  <2>1. k = 1
    BY <1>1, <1>3, <1>6
  <2>2. n > 1 /\ path[1] = Nothing
    BY <1>1, <1>5, <1>6, <2>1
  <2>3. From(a, path) = <<>>
    BY <2>2, FromIs DEF n
  <2>4. at[k - 1] = <<>>
    <3>1. k - 1 = 0
      BY <2>1
    <3> QED
      BY <1>2, <2>3, <3>1
  <2>5. at[k] = <<>>
    BY <1>2, <1>6, <2>4, NothingIs
  <2> QED
    BY <1>6, <2>5, TheRoot DEF at, PieceStep
<1>7. CASE path[k] # Nothing
  <2>1. cwd = at[k - 1]
    <3>1. CASE k = 1
      <4>1. at[0] = a
        BY <1>2, <1>7, <3>1, FromIs
      <4>2. k - 1 = 0 /\ cwd = a
        BY <1>4, <3>1
      <4> QED
        BY <4>1, <4>2
    <3>2. CASE k # 1
      BY <1>4, <3>2
    <3> QED
      BY <3>1, <3>2
  <2>2. Resolve(cwd, <<path[k]>>) = Piece(cwd, path[k])
    BY OnePiece
  <2> QED
    BY <1>2, <1>7, <2>1, <2>2 DEF at, PieceStep
<1> QED
  BY <1>6, <1>7

\* What is passed to CWD for a piece of the path, or for the whole.
LEMMA StepIs ==
  ASSUME NEW t, t = Token
  PROVE  /\ ~InPieces(call) => Step = call.path
         /\ InPieces(call) /\ t # Nothing => Step = <<t>>
         /\ call.at = "one" /\ t = Nothing => Step = PathOf(<<>>)
<1>1. CASE ~InPieces(call)
  BY <1>1 DEF InPieces, Step
<1>2. CASE call.at = "one" /\ t = Nothing
  <2>1. Step = <<"", "">>
    BY <1>2 DEF Step, Nothing
  <2> QED
    BY <1>2, <2>1, NothingIs DEF Nothing, InPieces
<1>3. CASE InPieces(call) /\ t # Nothing
  <2>1. Step = <<t>>
    BY <1>3 DEF InPieces, Step, Nothing
  <2> QED
    BY <1>3, <2>1
<1> QED
  BY <1>1, <1>2, <1>3

\* The step before a piece of the path, or the whole, leads to the step after it.
LEMMA StepLeads ==
  ASSUME OnCourse(call), IsPath(call.path), NEW cwd, cwd = Before(call),
         InPieces(call) => call.k \in 1..Len(call.path),
         InPieces(call) => Len(call.path) # 1 \/ call.path[1] # "",
         call.at = "oneMade" => call.path[call.k] # ""
  PROVE  Resolve(cwd, Step) = After(call)
<1>1. CASE ~InPieces(call)
  BY <1>1, StepIs DEF Before, After
<1>2. CASE InPieces(call)
  <2> DEFINE k == call.k
             path == call.path
  <2>1. /\ IsPath(path) /\ Plain(path) /\ k \in 1..Len(path)
        /\ Len(path) # 1 \/ path[1] # Nothing
        /\ cwd = BeforePiece(call.from, path, k)
    BY <1>2 DEF OnCourse, Nothing, Before
  <2>2. After(call) = Along(call.from, path)[k]
    BY <1>2 DEF After
  <2>3. Step = PieceStep(path, k)
    BY <1>2, StepIs DEF InPieces, Token, Nothing, PieceStep
  <2> HIDE DEF path, k
  <2>4. Resolve(cwd, PieceStep(path, k)) = Along(call.from, path)[k]
    BY <2>1, PieceLeads
  <2> QED
    BY <2>2, <2>3, <2>4
<1> QED
  BY <1>1, <1>2

\* After a change of directory the session is where the next step expects it.
LEMMA AfterCdArrives ==
  ASSUME NEW c, IsCall(c), NEW cwd, NEW buf, NEW ok \in BOOLEAN,
         c.name \in Chdirs => IsPath(c.path),
         c.at \in {"simple", "full", "again", "one", "oneMade"},
         c.at = call.at, c.k = call.k, c.path = call.path,
         OnCourse(c) /\ InPieces(c) => c.k \in 1..Len(c.path),
         OnCourse(c) /\ ok => cwd = After(c),
         OnCourse(c) /\ ~ok => cwd = Before(c)
  PROVE  /\ IsCall(AfterCd(ok, c).call)
         /\ ArriveOK(AfterCd(ok, c).pc, AfterCd(ok, c).call, cwd, buf)
<1> DEFINE n == AfterCd(ok, c)
           d == n.call
<1>1. \/ n = End("ok", c) /\ ok /\ (InPieces(c) => AtLast)
      \/ n = End("failed", c)
      \/ n = To("cd", [c EXCEPT !.at = "one", !.k = @ + 1]) /\ ok /\ InPieces(c) /\ ~AtLast
      \/ n.pc \in {"mkPwd", "split"} /\ n.call = c /\ ~ok /\ ~InPieces(c)
      \/ n = To("cdMkd", c) /\ ~ok /\ c.at = "one" /\ Token # ""
  <2>1. CASE call.at = "simple"
    BY <2>1 DEF AfterCd, InPieces
  <2>2. CASE call.at = "full"
    BY <2>2 DEF AfterCd, InPieces, To
  <2>3. CASE call.at = "again"
    BY <2>3 DEF AfterCd, InPieces, To
  <2>4. CASE call.at = "one"
    BY <2>4 DEF AfterCd, InPieces
  <2>5. CASE call.at = "oneMade"
    BY <2>5 DEF AfterCd, InPieces
  <2> QED
    BY <2>1, <2>2, <2>3, <2>4, <2>5
<1>2. CASE n = End("ok", c) /\ ok /\ (InPieces(c) => AtLast)
  <2> HIDE DEF n
  <2>1. n.pc = "idle" /\ d = [c EXCEPT !.result = "ok"]
    BY <1>2 DEF End
  <2> HIDE DEF d, n
  <2>2. /\ IsCall(d) /\ d.name = c.name /\ d.path = c.path /\ d.from = c.from
        /\ d.noPWD = c.noPWD /\ d.strayed = c.strayed
    BY <2>1 DEF IsCall, Fields
  <2>3. OnCourse(c) => cwd = Resolve(c.from, c.path)
    <3>1. CASE InPieces(c)
      BY <1>2, <3>1 DEF After, AtLast, Resolve
    <3>2. CASE ~InPieces(c)
      BY <1>2, <3>2 DEF After
    <3> QED
      BY <3>1, <3>2
  <2>4. ArriveOK("idle", d, cwd, buf)
    BY <2>2, <2>3 DEF ArriveOK, OnCourse, AtStart, KnowsWay
  <2> QED
    BY <2>1, <2>2, <2>4 DEF d, n
<1>3. CASE n = End("failed", c)
  <2> HIDE DEF n
  <2>1. n.pc = "idle" /\ d = [c EXCEPT !.result = "failed"]
    BY <1>3 DEF End
  <2> HIDE DEF d, n
  <2>2. /\ IsCall(d) /\ d.name = c.name /\ d.path = c.path /\ d.result = "failed"
    BY <2>1 DEF IsCall, Fields
  <2>3. ArriveOK("idle", d, cwd, buf)
    BY <2>2 DEF ArriveOK, AtStart, KnowsWay
  <2> QED
    BY <2>1, <2>2, <2>3 DEF d, n
<1>4. CASE /\ n = To("cd", [c EXCEPT !.at = "one", !.k = @ + 1])
           /\ ok /\ InPieces(c) /\ ~AtLast
  <2> HIDE DEF n
  <2>1. n.pc = "cd" /\ d = [c EXCEPT !.at = "one", !.k = @ + 1]
    BY <1>4 DEF To
  <2> HIDE DEF d, n
  <2>2. /\ IsCall(d) /\ d.name = c.name /\ d.path = c.path /\ d.from = c.from
        /\ d.noPWD = c.noPWD /\ d.strayed = c.strayed /\ d.at = "one" /\ d.k = c.k + 1
    BY <2>1 DEF IsCall, Fields
  <2>3. OnCourse(d) <=> OnCourse(c)
    BY <2>2 DEF OnCourse
  <2>4. ASSUME OnCourse(c)
        PROVE  d.k \in 1..Len(d.path) /\ Len(d.path) # 1 /\ cwd = Before(d)
    <3> DEFINE k == c.k
               len == Len(c.path)
    <3>1. k \in 1..len /\ len \in Nat /\ k # len
      BY <1>4, <2>4, PathLen DEF AtLast, OnCourse
    <3> HIDE DEF k, len
    <3>2. k + 1 \in 1..len /\ len # 1 /\ k + 1 # 1 /\ (k + 1) - 1 = k
      BY <3>1
    <3>3. cwd = Along(c.from, c.path)[k]
      BY <1>4, <2>4 DEF After, k
    <3>4. BeforePiece(c.from, c.path, k + 1) = Along(c.from, c.path)[k]
      BY <3>2 DEF BeforePiece
    <3>5. Before(d) = BeforePiece(c.from, c.path, k + 1)
      BY <2>2 DEF Before, InPieces, k
    <3> QED
      BY <2>2, <3>2, <3>3, <3>4, <3>5 DEF k, len
  <2>5. ArriveOK("cd", d, cwd, buf)
    BY <2>2, <2>3, <2>4 DEF ArriveOK, AtStart, KnowsWay
  <2> QED
    BY <2>1, <2>2, <2>5 DEF d, n
<1>5. CASE n.pc \in {"mkPwd", "split"} /\ n.call = c /\ ~ok /\ ~InPieces(c)
  <2>1. OnCourse(c) => cwd = c.from
    BY <1>5 DEF Before
  <2>2. \A p \in {"mkPwd", "split"} : ArriveOK(p, c, cwd, buf)
    BY <1>5, <2>1 DEF ArriveOK, AtStart, KnowsWay, InPieces
  <2> HIDE DEF n
  <2> QED
    BY <1>5, <2>2 DEF n
<1>6. CASE n = To("cdMkd", c) /\ ~ok /\ c.at = "one" /\ Token # ""
  <2> HIDE DEF n
  <2>1. n.pc = "cdMkd" /\ n.call = c
    BY <1>6 DEF To
  <2>2. c.path[c.k] # ""
    BY <1>6 DEF Token
  <2>3. ArriveOK("cdMkd", c, cwd, buf)
    BY <1>6, <2>2 DEF ArriveOK, AtStart, KnowsWay, InPieces
  <2> QED
    BY <2>1, <2>3 DEF n
<1> QED
  BY <1>1, <1>2, <1>3, <1>4, <1>5, <1>6

\* What AfterCd leaves of a call.
LEMMA AfterCdKeeps ==
  ASSUME NEW c, IsCall(c), NEW ok \in BOOLEAN,
         call.at \in {"simple", "full", "again", "one", "oneMade"}
  PROVE  LET d == AfterCd(ok, c).call IN
         IsCall(d) /\ d.name = c.name /\ d.path = c.path /\ d.from = c.from
<1> DEFINE n == AfterCd(ok, c)
<1>1. \/ n.call = [c EXCEPT !.result = "ok"]
      \/ n.call = [c EXCEPT !.result = "failed"]
      \/ n.call = [c EXCEPT !.at = "one", !.k = @ + 1]
      \/ n.call = c
  <2>1. CASE call.at = "simple"
    BY <2>1 DEF AfterCd, End
  <2>2. CASE call.at = "full"
    BY <2>2 DEF AfterCd, End, To
  <2>3. CASE call.at = "again"
    BY <2>3 DEF AfterCd, End, To
  <2>4. CASE call.at = "one"
    BY <2>4 DEF AfterCd, End, To
  <2>5. CASE call.at = "oneMade"
    BY <2>5 DEF AfterCd, End, To
  <2> QED
    BY <2>1, <2>2, <2>3, <2>4, <2>5
<1> HIDE DEF n
<1>2. IsCall(n.call) /\ n.call.name = c.name /\ n.call.path = c.path /\ n.call.from = c.from
  BY <1>1 DEF IsCall, Fields
<1> QED
  BY <1>2 DEF n

LEMMA ArriveConcludes ==
  ASSUME NEW p, NEW c, pc' = p, Same(call', c), ArriveOK(p, c, srv'.cwd, cip'.buf)
  PROVE  ArriveInv'
BY SameArrives DEF ArriveInv

\* A call that could not ask where it is need not arrive.
LEMMA LostArrives ==
  ASSUME NEW p, NEW c, NEW cwd, NEW buf, c.noPWD \/ c.strayed,
         c.name \in Chdirs => IsPath(c.path)
  PROVE  ArriveOK(p, c, cwd, buf)
BY DEF ArriveOK, OnCourse

\* What CallInv says of a call.
LEMMA CallIs ==
  ASSUME CallInv
  PROVE  /\ IsCall(call) /\ CacheInv /\ DirsOK /\ call.from \in Dirs
         /\ call.at \in {"simple", "full", "again", "one", "oneMade"}
         /\ call.cur = {} \/ call.cur = {PathOf(call.from)}
BY DEF CallInv, Good, PlaceOK, HomeOK

\* What AfterMkdir leaves of a call.
LEMMA AfterMkdirKeeps ==
  ASSUME NEW c, IsCall(c), NEW result
  PROVE  /\ IsCall(AfterMkdir(result, c).call)
         /\ AfterMkdir(result, c).call.name = c.name
         /\ AfterMkdir(result, c).call.path = c.path
<1> DEFINE n == AfterMkdir(result, c)
<1>1. \/ n.call = [c EXCEPT !.result = result]
      \/ n.call = [c EXCEPT !.result = "failed"]
      \/ n.call = [c EXCEPT !.at = "again"]
      \/ n.call = c
  BY DEF AfterMkdir, End, To
<1> HIDE DEF n
<1>2. IsCall(n.call) /\ n.call.name = c.name /\ n.call.path = c.path
  BY <1>1 DEF IsCall, Fields
<1> QED
  BY <1>2 DEF n

\* After FTPMkdir2 on behalf of FTPChdir3 the session is where the call began.
LEMMA AfterMkdirArrives ==
  ASSUME NEW c, IsCall(c), NEW cwd, NEW buf, NEW result,
         c.name = call.name, c.name \in {"mkdir", "chdir3"},
         c.name \in Chdirs => IsPath(c.path),
         OnCourse(c) => cwd = c.from
  PROVE  /\ IsCall(AfterMkdir(result, c).call)
         /\ ArriveOK(AfterMkdir(result, c).pc, AfterMkdir(result, c).call, cwd, buf)
<1> DEFINE n == AfterMkdir(result, c)
           d == n.call
<1>1. \/ c.name = "mkdir" /\ n = End(result, c)
      \/ n = End("failed", c)
      \/ n = To("cd", [c EXCEPT !.at = "again"])
      \/ n = To("split", c)
  BY DEF AfterMkdir
<1> HIDE DEF n
<1>2. CASE c.name = "mkdir" /\ n = End(result, c)
  <2>1. n.pc = "idle" /\ d = [c EXCEPT !.result = result]
    BY <1>2 DEF End
  <2> HIDE DEF d
  <2>2. IsCall(d) /\ d.name = "mkdir"
    BY <1>2, <2>1 DEF IsCall, Fields
  <2>3. ArriveOK("idle", d, cwd, buf)
    BY <2>2 DEF ArriveOK, OnCourse, Chdirs
  <2> QED
    BY <2>1, <2>2, <2>3 DEF d, n
<1>3. CASE n = End("failed", c)
  <2>1. n.pc = "idle" /\ d = [c EXCEPT !.result = "failed"]
    BY <1>3 DEF End
  <2> HIDE DEF d
  <2>2. IsCall(d) /\ d.name = c.name /\ d.path = c.path /\ d.result = "failed"
    BY <2>1 DEF IsCall, Fields
  <2>3. ArriveOK("idle", d, cwd, buf)
    BY <2>2 DEF ArriveOK, AtStart, KnowsWay
  <2> QED
    BY <2>1, <2>2, <2>3 DEF d, n
<1>4. CASE n = To("cd", [c EXCEPT !.at = "again"])
  <2>1. n.pc = "cd" /\ d = [c EXCEPT !.at = "again"]
    BY <1>4 DEF To
  <2> HIDE DEF d
  <2>2. /\ IsCall(d) /\ d.name = c.name /\ d.path = c.path /\ d.from = c.from
        /\ d.noPWD = c.noPWD /\ d.strayed = c.strayed /\ d.at = "again"
    BY <2>1 DEF IsCall, Fields
  <2>3. ArriveOK("cd", d, cwd, buf)
    BY <2>2 DEF ArriveOK, OnCourse, AtStart, KnowsWay, InPieces, Before
  <2> QED
    BY <2>1, <2>2, <2>3 DEF d, n
<1>5. CASE n = To("split", c)
  <2>1. n.pc = "split" /\ n.call = c
    BY <1>5 DEF To
  <2>2. ArriveOK("split", c, cwd, buf)
    BY DEF ArriveOK, AtStart, KnowsWay
  <2> QED
    BY <2>1, <2>2 DEF n
<1> QED
  BY <1>1, <1>2, <1>3, <1>4, <1>5

\* On another step of FTPMkdir2 the way is known as before.
LEMMA StillKnowsWay ==
  ASSUME NEW p \in KnowsWay, NEW q \in KnowsWay, NEW c, NEW d, NEW cwd, NEW e, NEW buf,
         ArriveOK(p, c, cwd, buf), q \in AtStart => p \in AtStart /\ e = cwd,
         d.name = c.name, d.path = c.path, d.from = c.from, d.cur = c.cur,
         d.noPWD = c.noPWD, d.strayed = c.strayed
  PROVE  ArriveOK(q, d, e, buf)
BY DEF ArriveOK, OnCourse, KnowsWay, AtStart, WayOf

LEMMA FromParentArrives ==
  ASSUME IsCall(call), NEW cwd, NEW buf, NEW k, call.name \in {"mkdir", "chdir3"},
         NEW p \in {"mkTry", "mkUp"}, ArriveOK(p, call, cwd, buf)
  PROVE  /\ IsCall(FromParent(k, call).call)
         /\ ArriveOK(FromParent(k, call).pc, FromParent(k, call).call, cwd, buf)
<1> DEFINE n == FromParent(k, call)
           d == n.call
<1>1. \/ n = To("mkDo", [call EXCEPT !.base = 0, !.k = 1])
      \/ n = AfterMkdir("mkdFailed", call)
      \/ n = To("mkUp", [call EXCEPT !.k = k])
  BY DEF FromParent
<1> HIDE DEF n
<1>2. CASE n = AfterMkdir("mkdFailed", call)
  <2>1. OnCourse(call) => cwd = call.from
    BY DEF ArriveOK, AtStart
  <2>2. call.name \in Chdirs => IsPath(call.path)
    BY DEF ArriveOK
  <2> QED
    BY <1>2, <2>1, <2>2, AfterMkdirArrives DEF n
<1>3. CASE \/ n = To("mkDo", [call EXCEPT !.base = 0, !.k = 1])
           \/ n = To("mkUp", [call EXCEPT !.k = k])
  <2>1. /\ n.pc \in {"mkDo", "mkUp"}
        /\ d = [call EXCEPT !.base = 0, !.k = 1] \/ d = [call EXCEPT !.k = k]
    BY <1>3 DEF To
  <2> HIDE DEF d
  <2>2. /\ IsCall(d) /\ d.name = call.name /\ d.path = call.path /\ d.from = call.from
        /\ d.cur = call.cur /\ d.noPWD = call.noPWD /\ d.strayed = call.strayed
    BY <2>1 DEF IsCall, Fields
  <2>3. n.pc \in KnowsWay /\ p \in KnowsWay /\ p \in AtStart
    BY <2>1 DEF KnowsWay, AtStart
  <2>4. ArriveOK(n.pc, d, cwd, buf)
    BY <2>2, <2>3, StillKnowsWay
  <2> QED
    BY <2>2, <2>4 DEF d, n
<1> QED
  BY <1>1, <1>2, <1>3

-----------------------------------------------------------------------------
(* One lemma for each action of a change of directory.                      *)

LEMMA NowhereArrives ==
  ASSUME CallInv, ArriveInv, Nowhere
  PROVE  ArriveInv'
<1> DEFINE n == IF WithPWD THEN To("cdPwd", call) ELSE AfterCd(TRUE, call)
<1>1. /\ pc = "cd" /\ UNCHANGED <<srv, cip>> /\ pc' = n.pc /\ Unasked(n.call)
      /\ (call.at = "one" /\ Token = ".") \/ Step = <<"">>
  BY DEF Nowhere, Goes, Unasked
<1>2. ArriveOK("cd", call, srv.cwd, cip.buf)
  BY <1>1 DEF ArriveInv
<1>3. OnCourse(call) => srv.cwd = After(call)
  <2> SUFFICES ASSUME OnCourse(call)
               PROVE  srv.cwd = After(call)
    OBVIOUS
  <2>1. Resolve(srv.cwd, Step) = After(call)
    BY <1>2, StepLeads DEF ArriveOK, OnCourse, InPieces
  <2>2. CASE Step = <<"">>
    BY <2>1, <2>2, OnePiece, NothingIs DEF Nothing
  <2>3. CASE call.at = "one" /\ Token = "."
    <3>1. Step = <<".">>
      BY <2>3 DEF Step
    <3>2. Piece(srv.cwd, ".") = srv.cwd
      BY DEF Piece
    <3> QED
      BY <2>1, <3>1, <3>2, OnePiece
  <2> QED
    BY <1>1, <2>2, <2>3
<1>4. /\ IsCall(call) /\ call.at \in {"simple", "full", "again", "one", "oneMade"}
      /\ call.name \in Chdirs => IsPath(call.path)
      /\ OnCourse(call) /\ InPieces(call) => call.k \in 1..Len(call.path)
  BY <1>2, CallIs DEF ArriveOK
<1>5. IsCall(n.call) /\ ArriveOK(n.pc, n.call, srv.cwd, cip.buf)
  <2>1. CASE WithPWD
    <3>1. n.pc = "cdPwd" /\ n.call = call
      BY <2>1 DEF To
    <3>2. ArriveOK("cdPwd", call, srv.cwd, cip.buf)
      BY <1>3, <1>4 DEF ArriveOK, AtStart, KnowsWay
    <3> HIDE DEF n
    <3> QED
      BY <1>4, <3>1, <3>2
  <2>2. CASE ~WithPWD
    <3>1. n = AfterCd(TRUE, call)
      BY <2>2
    <3> HIDE DEF n
    <3> QED
      BY <1>3, <1>4, <3>1, AfterCdArrives
  <2> QED
    BY <2>1, <2>2
<1> HIDE DEF n
<1> QED
  BY <1>1, <1>5, ArriveConcludes, CommandSame

LEMMA ChangeDirArrives ==
  ASSUME CallInv, ArriveInv, ChangeDir
  PROVE  ArriveInv'
<1>1. PICK ok \in BOOLEAN, quoted \in BOOLEAN :
        LET named == ok /\ quoted /\ WithPWD
            at == {PathOf(Target(Step))}
            n == IF ok /\ WithPWD /\ ~quoted THEN To("cdPwd", call)
                 ELSE AfterCd(ok, IF named THEN [call EXCEPT !.report = at] ELSE call)
        IN /\ CWD(Step, ok, n.call)
           /\ Goes(n)
           /\ cip' = IF named THEN [Moved(cip, ok) EXCEPT !.cwd = at] ELSE Moved(cip, ok)
  BY DEF ChangeDir
<1> DEFINE c == IF ok /\ quoted /\ WithPWD
                THEN [call EXCEPT !.report = {PathOf(Target(Step))}] ELSE call
           n == IF ok /\ WithPWD /\ ~quoted THEN To("cdPwd", call) ELSE AfterCd(ok, c)
<1>2. pc = "cd" /\ CWD(Step, ok, n.call) /\ pc' = n.pc
  BY <1>1 DEF ChangeDir, Goes
<1>3. IsCall(call) /\ call.at \in {"simple", "full", "again", "one", "oneMade"} /\ CacheInv
  BY CallIs
<1>4. ArriveOK("cd", call, srv.cwd, cip.buf)
  BY <1>2 DEF ArriveInv
<1>5. /\ IsCall(c) /\ c.at = call.at /\ c.k = call.k /\ c.path = call.path
      /\ c.name = call.name /\ c.from = call.from /\ c.noPWD = call.noPWD
      /\ c.strayed = call.strayed
  BY <1>3 DEF IsCall, Fields
<1>6. /\ call.name \in Chdirs => IsPath(call.path)
      /\ OnCourse(call) /\ InPieces(call) => call.k \in 1..Len(call.path)
      /\ OnCourse(call) => srv.cwd = Before(call) /\ Resolve(srv.cwd, Step) = After(call)
  BY <1>4, StepLeads DEF ArriveOK, OnCourse, InPieces
<1> HIDE DEF c
<1>7. /\ OnCourse(c) <=> OnCourse(call)
      /\ Before(c) = Before(call) /\ After(c) = After(call) /\ (InPieces(c) <=> InPieces(call))
  BY <1>5 DEF OnCourse, Before, After, InPieces
<1>8. /\ ok => srv'.cwd = Resolve(srv.cwd, Step)
      /\ ~ok => srv'.cwd = srv.cwd
  BY <1>2, <1>3, CWDGoes
<1>9. IsCall(n.call) /\ ArriveOK(n.pc, n.call, srv'.cwd, cip'.buf)
  <2>1. CASE ok /\ WithPWD /\ ~quoted
    <3>1. n.pc = "cdPwd" /\ n.call = call
      BY <2>1 DEF To
    <3>2. ArriveOK("cdPwd", call, srv'.cwd, cip'.buf)
      BY <1>6, <1>8, <2>1 DEF ArriveOK, AtStart, KnowsWay
    <3> HIDE DEF n
    <3> QED
      BY <1>3, <3>1, <3>2
  <2>2. CASE ~(ok /\ WithPWD /\ ~quoted)
    <3>1. n = AfterCd(ok, c)
      BY <2>2
    <3>2. /\ c.name \in Chdirs => IsPath(c.path)
          /\ c.at \in {"simple", "full", "again", "one", "oneMade"}
          /\ OnCourse(c) /\ InPieces(c) => c.k \in 1..Len(c.path)
          /\ OnCourse(c) /\ ok => srv'.cwd = After(c)
          /\ OnCourse(c) /\ ~ok => srv'.cwd = Before(c)
      BY <1>3, <1>5, <1>6, <1>7, <1>8
    <3> HIDE DEF n
    <3> QED
      BY <1>5, <3>1, <3>2, AfterCdArrives
  <2> QED
    BY <2>1, <2>2
<1> HIDE DEF n
<1> QED
  BY <1>2, <1>9, ArriveConcludes, CommandSame

LEMMA AskPWDArrives ==
  ASSUME CallInv, ArriveInv, AskPWD
  PROVE  ArriveInv'
<1>1. PICK ok \in BOOLEAN, got \in {{}, cip.cwd, {PathOf(srv.cwd)}} :
        LET n == AfterCd(ok, [call EXCEPT !.report = got]) IN
        /\ GetCWD(ok, got, n.call) /\ Goes(n)
        /\ cip' = [cip EXCEPT !.cwd = got]
  BY DEF AskPWD
<1> DEFINE c == [call EXCEPT !.report = got]
           n == AfterCd(ok, c)
<1>2. pc = "cdPwd" /\ pc' = n.pc /\ GetCWD(ok, got, n.call)
  BY <1>1 DEF AskPWD, Goes
<1>3. /\ IsCall(call) /\ call.at \in {"simple", "full", "again", "one", "oneMade"}
      /\ CacheInv /\ DirsOK
  BY CallIs
<1>4. ArriveOK("cdPwd", call, srv.cwd, cip.buf)
  BY <1>2 DEF ArriveInv
<1>5. /\ IsCall(c) /\ c.at = call.at /\ c.k = call.k /\ c.path = call.path
      /\ c.name = call.name /\ c.from = call.from /\ c.noPWD = call.noPWD
      /\ c.strayed = call.strayed
  BY <1>3 DEF IsCall, Fields
<1> HIDE DEF c
<1>6. /\ c.name \in Chdirs => IsPath(c.path)
      /\ OnCourse(c) /\ InPieces(c) => c.k \in 1..Len(c.path)
      /\ OnCourse(c) => srv.cwd = After(c)
  <2>1. /\ OnCourse(c) <=> OnCourse(call)
        /\ After(c) = After(call) /\ (InPieces(c) <=> InPieces(call))
    BY <1>5 DEF OnCourse, After, InPieces
  <2> QED
    BY <1>4, <1>5, <2>1 DEF ArriveOK
<1>7. srv'.cwd = srv.cwd
  BY <1>2 DEF GetCWD, Unasked, Denied
<1>8. CASE ok
  <2>1. IsCall(n.call) /\ ArriveOK(n.pc, n.call, srv'.cwd, cip'.buf)
    BY <1>3, <1>5, <1>6, <1>7, <1>8, AfterCdArrives
  <2> HIDE DEF n
  <2>2. Same(call', n.call)
    BY <1>2, <1>8, <2>1, GetCWDSame
  <2> QED
    BY <1>2, <2>1, <2>2, ArriveConcludes
<1>9. CASE ~ok
  <2>1. IsCall(n.call) /\ n.call.name = c.name /\ n.call.path = c.path
    BY <1>3, <1>5, <1>6, AfterCdKeeps
  <2> HIDE DEF n
  <2>2. call'.name = c.name /\ call'.path = c.path /\ call'.noPWD = TRUE
    BY <1>2, <1>9, <2>1, GetCWDSame
  <2> QED
    BY <1>6, <2>2, LostArrives DEF ArriveInv
<1> QED
  BY <1>8, <1>9

LEMMA SplitArrives ==
  ASSUME CallInv, ArriveInv, Split
  PROVE  ArriveInv'
<1> DEFINE c == [call EXCEPT !.at = "one", !.k = 1]
           n == IF call.path # <<"">> THEN To("cd", c)
                ELSE IF "pwd" \in call.flags THEN To("cdPwd", c) ELSE End("ok", c)
<1>1. pc = "split" /\ pc' = n.pc /\ Unasked(n.call)
  BY DEF Split, Goes
<1>2. IsCall(call) /\ call.name = "chdir3"
  BY <1>1, CallIs DEF CallInv, Good, PlaceOK
<1>3. IsPath(call.path) /\ (OnCourse(call) => srv.cwd = call.from)
  BY <1>1, <1>2 DEF ArriveInv, ArriveOK, AtStart, Chdirs
<1>4. /\ IsCall(c) /\ c.name = call.name /\ c.path = call.path /\ c.from = call.from
      /\ c.noPWD = call.noPWD /\ c.strayed = call.strayed /\ c.at = "one" /\ c.k = 1
  BY <1>2 DEF IsCall, Fields
<1> HIDE DEF c
<1>5. OnCourse(c) => srv.cwd = c.from
  BY <1>3, <1>4 DEF OnCourse
<1>6. InPieces(c) /\ IsPath(c.path) /\ 1 \in 1..Len(c.path)
  BY <1>3, <1>4, PathLen DEF InPieces
<1>7. CASE call.path # <<Nothing>>
  <2>1. n = To("cd", c)
    BY <1>7 DEF Nothing
  <2> HIDE DEF n
  <2>2. n.pc = "cd" /\ n.call = c
    BY <2>1 DEF To
  <2>3. Len(c.path) # 1 \/ c.path[1] # ""
    BY <1>3, <1>4, <1>7, PathLen DEF Nothing
  <2>4. ArriveOK("cd", c, srv.cwd, cip'.buf)
    BY <1>4, <1>5, <1>6, <2>3 DEF ArriveOK, AtStart, KnowsWay, Before, BeforePiece
  <2>5. srv' = srv
    BY <1>1 DEF Unasked
  <2> QED
    BY <1>1, <1>4, <2>2, <2>4, <2>5, ArriveConcludes, CommandSame
<1>8. CASE call.path = <<Nothing>>
  <2>1. n = To("cdPwd", c) \/ n = End("ok", c)
    BY <1>8 DEF Nothing
  <2> HIDE DEF n
  <2> DEFINE d == n.call
  <2>2. \/ n.pc = "cdPwd" /\ d = c
        \/ n.pc = "idle" /\ d = [c EXCEPT !.result = "ok"]
    BY <2>1 DEF To, End
  <2> HIDE DEF d
  <2>3. /\ IsCall(d) /\ d.name = c.name /\ d.path = c.path /\ d.from = c.from
        /\ d.noPWD = c.noPWD /\ d.strayed = c.strayed /\ d.at = "one" /\ d.k = 1
    BY <1>4, <2>2 DEF IsCall, Fields
  <2>4. Resolve(c.from, c.path) = c.from
    BY <1>4, <1>8, OnePiece, NothingIs
  <2>5. Len(c.path) = 1 /\ Resolve(c.from, c.path) = Along(c.from, c.path)[1]
    BY <1>4, <1>8 DEF Resolve
  <2>6. After(d) = c.from
    BY <2>3, <2>4, <2>5 DEF After, InPieces
  <2>7. OnCourse(d) => OnCourse(c)
    BY <2>3 DEF OnCourse
  <2>8. ArriveOK(n.pc, d, srv.cwd, cip'.buf)
    BY <1>4, <1>5, <1>6, <2>2, <2>3, <2>4, <2>6, <2>7 DEF ArriveOK, AtStart, KnowsWay
  <2>9. srv' = srv /\ call' = d
    BY <1>1 DEF Unasked, d
  <2> QED
    BY <1>1, <2>8, <2>9 DEF ArriveInv
<1> QED
  BY <1>7, <1>8

LEMMA MakeStepArrives ==
  ASSUME CallInv, ArriveInv, MakeStep
  PROVE  ArriveInv'
<1>1. PICK ok \in BOOLEAN :
        LET n == IF ok THEN To("cd", [call EXCEPT !.at = "oneMade"]) ELSE End("failed", call)
        IN MKD(<<Token>>, ok, n.call) /\ Goes(n)
  BY DEF MakeStep
<1> DEFINE n == IF ok THEN To("cd", [call EXCEPT !.at = "oneMade"]) ELSE End("failed", call)
           d == n.call
<1>2. pc = "cdMkd" /\ pc' = n.pc /\ MKD(<<Token>>, ok, n.call) /\ cip' = cip
  BY <1>1 DEF MakeStep, Goes
<1>3. IsCall(call) /\ call.name = "chdir3" /\ CacheInv /\ DirsOK
  BY <1>2, CallIs DEF CallInv, Good, PlaceOK
<1>4. ArriveOK("cdMkd", call, srv.cwd, cip.buf)
  BY <1>2 DEF ArriveInv
<1>5. \/ n.pc = "cd" /\ d = [call EXCEPT !.at = "oneMade"]
      \/ n.pc = "idle" /\ d = [call EXCEPT !.result = "failed"]
  BY DEF To, End
<1> HIDE DEF n, d
<1>6. /\ IsCall(d) /\ d.name = call.name /\ d.path = call.path /\ d.from = call.from
      /\ d.noPWD = call.noPWD /\ d.strayed = call.strayed /\ d.k = call.k
      /\ \/ n.pc = "cd" /\ d.at = "oneMade"
         \/ n.pc = "idle" /\ d.result = "failed"
  BY <1>3, <1>5 DEF IsCall, Fields
<1>7. ArriveOK(n.pc, d, srv.cwd, cip.buf)
  <2>1. CASE n.pc = "idle" /\ d.result = "failed"
    BY <1>4, <1>6, <2>1 DEF ArriveOK, AtStart, KnowsWay
  <2>2. CASE n.pc = "cd" /\ d.at = "oneMade"
    <3>1. OnCourse(d) => OnCourse(call)
      BY <1>6 DEF OnCourse
    <3>2. ASSUME OnCourse(call)
          PROVE  /\ call.k \in 1..Len(call.path) /\ call.path[call.k] # ""
                 /\ srv.cwd = Before(call) /\ InPieces(call) /\ IsPath(call.path)
      BY <1>4, <3>2 DEF ArriveOK, InPieces, OnCourse
    <3>3. ASSUME OnCourse(call), Len(call.path) = 1
          PROVE  call.path[1] # ""
      <4>1. call.k = 1
        <5>1. call.k \in 1..1
          BY <3>2, <3>3
        <5> QED
          BY <5>1
      <4> QED
        BY <3>2, <3>3, <4>1
    <3>4. InPieces(call) => Before(d) = Before(call)
      BY <1>6, <2>2 DEF Before, InPieces
    <3> QED
      BY <1>4, <1>6, <2>2, <3>1, <3>2, <3>3, <3>4 DEF ArriveOK, AtStart, KnowsWay
  <2> QED
    BY <1>6, <2>1, <2>2
<1>8. srv'.cwd = srv.cwd
  BY <1>2, <1>3 DEF MKD, Unasked, Denied, CacheInv, Shape
<1> QED
  BY <1>2, <1>6, <1>7, <1>8, ArriveConcludes, CommandSame DEF d

LEMMA NotePlaceArrives ==
  ASSUME CallInv, ArriveInv, NotePlace
  PROVE  ArriveInv'
<1>1. PICK ok \in BOOLEAN, got \in {{}, cip.cwd, {PathOf(srv.cwd)}} :
        /\ GetCWD(ok, got, call)
        /\ cip' = [cip EXCEPT !.cwd = got, !.buf = IF ok THEN got ELSE @]
  BY DEF NotePlace
<1>2. pc = "mkPwd" /\ pc' = "mkTry"
  BY DEF NotePlace
<1>3. /\ IsCall(call) /\ CacheInv /\ DirsOK
      /\ call.cur = {} \/ call.cur = {PathOf(call.from)}
  BY CallIs
<1>4. ArriveOK("mkPwd", call, srv.cwd, cip.buf)
  BY <1>2 DEF ArriveInv
<1>5. srv'.cwd = srv.cwd
  BY <1>1 DEF GetCWD, Unasked, Denied
<1>6. CASE ok
  <2>1. got = {PathOf(srv.cwd)} /\ Same(call', call)
    BY <1>1, <1>3, <1>6, GetCWDDoes, GetCWDSame
  <2>2. cip'.buf = {PathOf(srv.cwd)}
    BY <1>1, <1>3, <1>6, <2>1 DEF CacheInv, Shape
  <2>3. OnCourse(call) => srv.cwd = call.from
    BY <1>4 DEF ArriveOK, AtStart
  <2>4. OnCourse(call) => WayOf(call, cip'.buf) = PathOf(call.from)
    BY <1>3, <2>2, <2>3, TheOne DEF WayOf
  <2>5. ArriveOK("mkTry", call, srv.cwd, cip'.buf)
    BY <1>4, <2>3, <2>4 DEF ArriveOK, AtStart, KnowsWay
  <2> QED
    BY <1>2, <1>5, <2>1, <2>5, ArriveConcludes
<1>7. CASE ~ok
  <2>1. call'.name = call.name /\ call'.path = call.path /\ call'.noPWD = TRUE
    BY <1>1, <1>3, <1>7, GetCWDSame
  <2> QED
    BY <1>4, <2>1, LostArrives DEF ArriveInv, ArriveOK
<1> QED
  BY <1>6, <1>7

LEMMA TryExistingArrives ==
  ASSUME CallInv, ArriveInv, TryExisting
  PROVE  ArriveInv'
<1>1. PICK ok \in BOOLEAN :
        LET n == IF ok THEN To("mkUndo", call)
                 ELSE IF ~Recursive \/ (Len(Bare) = 2 /\ Bare[1] = "") THEN To("mkOne", call)
                 ELSE FromParent(Len(Bare) - 1, call)
        IN CWD(call.path, ok, n.call) /\ Goes(n) /\ cip' = Moved(cip, ok)
  BY DEF TryExisting
<1> DEFINE n == IF ok THEN To("mkUndo", call)
                ELSE IF ~Recursive \/ (Len(Bare) = 2 /\ Bare[1] = "") THEN To("mkOne", call)
                ELSE FromParent(Len(Bare) - 1, call)
<1>2. pc = "mkTry" /\ pc' = n.pc /\ CWD(call.path, ok, n.call) /\ cip'.buf = cip.buf
  BY <1>1, BufStays DEF TryExisting, Goes, CallInv
<1>3. IsCall(call) /\ call.name \in {"mkdir", "chdir3"} /\ CacheInv
  BY <1>2, CallIs DEF CallInv, Good, PlaceOK
<1>4. ArriveOK("mkTry", call, srv.cwd, cip.buf)
  BY <1>2 DEF ArriveInv
<1>5. ~ok => srv'.cwd = srv.cwd
  BY <1>2, <1>3, CWDGoes
<1>6. \/ ok /\ n = To("mkUndo", call)
      \/ ~ok /\ n = To("mkOne", call)
      \/ ~ok /\ n = FromParent(Len(Bare) - 1, call)
  OBVIOUS
<1> HIDE DEF n
<1>7. IsCall(n.call) /\ ArriveOK(n.pc, n.call, srv'.cwd, cip.buf)
  <2>1. CASE ok /\ n = To("mkUndo", call)
    <3>1. n.pc = "mkUndo" /\ n.call = call
      BY <2>1 DEF To
    <3>2. ArriveOK("mkUndo", call, srv'.cwd, cip.buf)
      BY <1>4, StillKnowsWay DEF KnowsWay, AtStart
    <3> QED
      BY <1>3, <3>1, <3>2
  <2>2. CASE ~ok /\ n = To("mkOne", call)
    <3>1. n.pc = "mkOne" /\ n.call = call
      BY <2>2 DEF To
    <3>2. ArriveOK("mkOne", call, srv.cwd, cip.buf)
      BY <1>4, StillKnowsWay DEF KnowsWay, AtStart
    <3> QED
      BY <1>3, <1>5, <2>2, <3>1, <3>2
  <2>3. CASE ~ok /\ n = FromParent(Len(Bare) - 1, call)
    BY <1>3, <1>4, <1>5, <2>3, FromParentArrives
  <2> QED
    BY <1>6, <2>1, <2>2, <2>3
<1> QED
  BY <1>2, <1>7, ArriveConcludes, CommandSame

\* A call that has tried its way back is there, or is marked as strayed.
LEMMA BackArrives ==
  ASSUME CallInv, NEW p \in {"mkUndo", "mkBack"}, ArriveOK(p, call, srv.cwd, cip.buf),
         NEW ok \in BOOLEAN, NEW d, IsCall(d), CWD(Way, ok, d),
         NEW c, c = [call EXCEPT !.strayed = @ \/ ~ok]
  PROVE  /\ IsCall(c) /\ c.name = call.name
         /\ c.name \in Chdirs => IsPath(c.path)
         /\ OnCourse(c) => srv'.cwd = c.from
<1>1. /\ IsCall(call) /\ CacheInv /\ DirsOK /\ call.from \in Dirs
  BY CallIs
<1>2. /\ IsCall(c) /\ c.name = call.name /\ c.path = call.path /\ c.from = call.from
      /\ c.noPWD = call.noPWD /\ c.strayed = (call.strayed \/ ~ok)
  BY <1>1 DEF IsCall, Fields
<1>3. ASSUME OnCourse(c)
      PROVE  srv'.cwd = c.from
  <2>1. OnCourse(call) /\ ok
    <3>1. call.strayed \in BOOLEAN
      BY DEF CallInv, Good, HomeOK
    <3> QED
      BY <1>2, <1>3, <3>1 DEF OnCourse
  <2>2. Way = PathOf(call.from)
    BY <2>1 DEF ArriveOK, KnowsWay, Way, WayOf
  <2> QED
    BY <1>1, <1>2, <2>1, <2>2, WayLeadsBack
<1>4. c.name \in Chdirs => IsPath(c.path)
  BY <1>2 DEF ArriveOK
<1> QED
  BY <1>2, <1>3, <1>4

LEMMA LeaveExistingArrives ==
  ASSUME CallInv, ArriveInv, LeaveExisting
  PROVE  ArriveInv'
<1>1. PICK ok \in BOOLEAN :
        LET n == AfterMkdir(IF ok THEN "ok" ELSE "cannotGoToPrevDir",
                            [call EXCEPT !.strayed = @ \/ ~ok])
        IN CWD(Way, ok, n.call) /\ Goes(n) /\ cip' = Moved(cip, ok)
  BY DEF LeaveExisting
<1> DEFINE c == [call EXCEPT !.strayed = @ \/ ~ok]
           result == IF ok THEN "ok" ELSE "cannotGoToPrevDir"
           n == AfterMkdir(result, c)
<1>2. pc = "mkUndo" /\ pc' = n.pc /\ CWD(Way, ok, n.call)
  BY <1>1 DEF LeaveExisting, Goes
<1>3. IsCall(call) /\ call.name \in {"mkdir", "chdir3"}
  BY <1>2, CallIs DEF CallInv, Good, PlaceOK
<1>4. ArriveOK("mkUndo", call, srv.cwd, cip.buf)
  BY <1>2 DEF ArriveInv
<1>5. IsCall(n.call)
  <2>1. IsCall(c)
    BY <1>3 DEF IsCall, Fields
  <2> HIDE DEF c, result
  <2> QED
    BY <2>1, AfterMkdirKeeps
<1>6. /\ IsCall(c) /\ c.name = call.name
      /\ c.name \in Chdirs => IsPath(c.path)
      /\ OnCourse(c) => srv'.cwd = c.from
  <2> HIDE DEF n
  <2> QED
    BY <1>2, <1>4, <1>5, BackArrives
<1> HIDE DEF c, result
<1>7. ArriveOK(n.pc, n.call, srv'.cwd, cip'.buf)
  BY <1>3, <1>6, AfterMkdirArrives
<1> HIDE DEF n
<1> QED
  BY <1>2, <1>5, <1>7, ArriveConcludes, CommandSame

LEMMA GoBackArrives ==
  ASSUME CallInv, ArriveInv, GoBack
  PROVE  ArriveInv'
<1>1. PICK ok \in BOOLEAN :
        LET n == AfterMkdir(IF call.result = "ok" /\ ~ok THEN "cannotGoToPrevDir"
                            ELSE call.result, [call EXCEPT !.strayed = @ \/ ~ok])
        IN CWD(Way, ok, n.call) /\ Goes(n) /\ cip' = Moved(cip, ok)
  BY DEF GoBack
<1> DEFINE c == [call EXCEPT !.strayed = @ \/ ~ok]
           result == IF call.result = "ok" /\ ~ok THEN "cannotGoToPrevDir" ELSE call.result
           n == AfterMkdir(result, c)
<1>2. pc = "mkBack" /\ pc' = n.pc /\ CWD(Way, ok, n.call)
  BY <1>1 DEF GoBack, Goes
<1>3. IsCall(call) /\ call.name \in {"mkdir", "chdir3"}
  BY <1>2, CallIs DEF CallInv, Good, PlaceOK
<1>4. ArriveOK("mkBack", call, srv.cwd, cip.buf)
  BY <1>2 DEF ArriveInv
<1>5. IsCall(n.call)
  <2>1. IsCall(c)
    BY <1>3 DEF IsCall, Fields
  <2> HIDE DEF c, result
  <2> QED
    BY <2>1, AfterMkdirKeeps
<1>6. /\ IsCall(c) /\ c.name = call.name
      /\ c.name \in Chdirs => IsPath(c.path)
      /\ OnCourse(c) => srv'.cwd = c.from
  <2> HIDE DEF n
  <2> QED
    BY <1>2, <1>4, <1>5, BackArrives
<1> HIDE DEF c, result
<1>7. ArriveOK(n.pc, n.call, srv'.cwd, cip'.buf)
  BY <1>3, <1>6, AfterMkdirArrives
<1> HIDE DEF n
<1> QED
  BY <1>2, <1>5, <1>7, ArriveConcludes, CommandSame

LEMMA MakeOneArrives ==
  ASSUME CallInv, ArriveInv, MakeOne
  PROVE  ArriveInv'
<1>1. PICK ok \in BOOLEAN :
        LET n == AfterMkdir(IF ok THEN "ok" ELSE "mkdFailed", call)
        IN MKD(Bare, ok, n.call) /\ Goes(n)
  BY DEF MakeOne
<1> DEFINE result == IF ok THEN "ok" ELSE "mkdFailed"
           n == AfterMkdir(result, call)
<1>2. pc = "mkOne" /\ pc' = n.pc /\ MKD(Bare, ok, n.call)
  BY <1>1 DEF MakeOne, Goes
<1>3. IsCall(call) /\ call.name \in {"mkdir", "chdir3"} /\ CacheInv
  BY <1>2, CallIs DEF CallInv, Good, PlaceOK
<1>4. /\ call.name \in Chdirs => IsPath(call.path)
      /\ OnCourse(call) => srv.cwd = call.from
  BY <1>2 DEF ArriveInv, ArriveOK, AtStart
<1>5. srv'.cwd = srv.cwd
  BY <1>2, <1>3 DEF MKD, Unasked, Denied, CacheInv, Shape
<1> HIDE DEF result
<1>6. IsCall(n.call) /\ ArriveOK(n.pc, n.call, srv'.cwd, cip'.buf)
  BY <1>3, <1>4, <1>5, AfterMkdirArrives
<1> HIDE DEF n
<1> QED
  BY <1>2, <1>6, ArriveConcludes, CommandSame

LEMMA FindParentArrives ==
  ASSUME CallInv, ArriveInv, FindParent
  PROVE  ArriveInv'
<1>1. PICK ok \in BOOLEAN :
        LET n == IF ok THEN To("mkDo", [call EXCEPT !.base = call.k, !.k = @ + 1])
                 ELSE FromParent(call.k - 1, call)
        IN CWD(First(call.k), ok, n.call) /\ Goes(n) /\ cip' = Moved(cip, ok)
  BY DEF FindParent
<1> DEFINE c == [call EXCEPT !.base = call.k, !.k = @ + 1]
           n == IF ok THEN To("mkDo", c) ELSE FromParent(call.k - 1, call)
<1>2. pc = "mkUp" /\ pc' = n.pc /\ CWD(First(call.k), ok, n.call) /\ cip'.buf = cip.buf
  BY <1>1, BufStays DEF FindParent, Goes, CallInv
<1>3. IsCall(call) /\ call.name \in {"mkdir", "chdir3"} /\ CacheInv
  BY <1>2, CallIs DEF CallInv, Good, PlaceOK
<1>4. ArriveOK("mkUp", call, srv.cwd, cip.buf)
  BY <1>2 DEF ArriveInv
<1>5. ~ok => srv'.cwd = srv.cwd
  BY <1>2, <1>3, CWDGoes
<1>6. \/ ok /\ n = To("mkDo", c)
      \/ ~ok /\ n = FromParent(call.k - 1, call)
  OBVIOUS
<1>7. /\ IsCall(c) /\ c.name = call.name /\ c.path = call.path /\ c.from = call.from
      /\ c.cur = call.cur /\ c.noPWD = call.noPWD /\ c.strayed = call.strayed
  BY <1>3 DEF IsCall, Fields
<1> HIDE DEF n, c
<1>8. IsCall(n.call) /\ ArriveOK(n.pc, n.call, srv'.cwd, cip.buf)
  <2>1. CASE ok /\ n = To("mkDo", c)
    <3>1. n.pc = "mkDo" /\ n.call = c
      BY <2>1 DEF To
    <3>2. ArriveOK("mkDo", c, srv'.cwd, cip.buf)
      BY <1>4, <1>7, StillKnowsWay DEF KnowsWay, AtStart
    <3> QED
      BY <1>7, <3>1, <3>2
  <2>2. CASE ~ok /\ n = FromParent(call.k - 1, call)
    BY <1>3, <1>4, <1>5, <2>2, FromParentArrives
  <2> QED
    BY <1>6, <2>1, <2>2
<1> QED
  BY <1>2, <1>8, ArriveConcludes, CommandSame

LEMMA MakeNextArrives ==
  ASSUME CallInv, ArriveInv, MakeNext
  PROVE  ArriveInv'
<1>1. PICK ok \in BOOLEAN :
        LET n == IF ok /\ MoreToMake THEN To("mkDo", [call EXCEPT !.k = @ + 1])
                 ELSE To("mkBack", [call EXCEPT !.result = IF ok THEN "ok" ELSE "mkdFailed"])
        IN MKD(SubSeq(Bare, call.base + 1, call.k), ok, n.call) /\ Goes(n)
  BY DEF MakeNext
<1> DEFINE n == IF ok /\ MoreToMake THEN To("mkDo", [call EXCEPT !.k = @ + 1])
                ELSE To("mkBack", [call EXCEPT !.result = IF ok THEN "ok" ELSE "mkdFailed"])
           d == n.call
<1>2. /\ pc = "mkDo" /\ pc' = n.pc /\ cip' = cip
      /\ MKD(SubSeq(Bare, call.base + 1, call.k), ok, d)
  BY <1>1 DEF MakeNext, Goes
<1>3. IsCall(call) /\ CacheInv
  BY CallIs
<1>4. ArriveOK("mkDo", call, srv.cwd, cip.buf)
  BY <1>2 DEF ArriveInv
<1>5. /\ n.pc \in {"mkDo", "mkBack"}
      /\ d = [call EXCEPT !.k = @ + 1] \/ \E r : d = [call EXCEPT !.result = r]
  BY DEF To
<1> HIDE DEF n, d
<1>6. /\ IsCall(d) /\ d.name = call.name /\ d.path = call.path /\ d.from = call.from
      /\ d.cur = call.cur /\ d.noPWD = call.noPWD /\ d.strayed = call.strayed
  BY <1>3, <1>5 DEF IsCall, Fields
<1>7. ArriveOK(n.pc, d, srv'.cwd, cip.buf)
  BY <1>4, <1>5, <1>6, StillKnowsWay DEF KnowsWay, AtStart
<1> QED
  BY <1>2, <1>6, <1>7, ArriveConcludes, CommandSame

-----------------------------------------------------------------------------
(* The calls that do not change the directory.                              *)

\* A call keeps its arguments and its place in the path.
Kept(c) == /\ c.name = call.name /\ c.path = call.path /\ c.flags = call.flags
           /\ c.recurse = call.recurse /\ c.cur = call.cur /\ c.from = call.from
           /\ c.k = call.k /\ c.base = call.base
Named(c) == IsCall(c) /\ Kept(c)

LEMMA AfterTypeNamed ==
  ASSUME NEW c, Named(c), NEW r
  PROVE  Named(AfterType(r, c).call)
<1> DEFINE n == AfterType(r, c)
<1>1. n.call = c \/ \E x : n.call = [c EXCEPT !.result = x]
  BY DEF AfterType, End, To
<1> HIDE DEF n
<1>2. Named(n.call)
  BY <1>1 DEF Named, Kept, IsCall, Fields
<1> QED
  BY <1>2 DEF n

LEMMA NextProbeNamed ==
  ASSUME NEW c, Named(c)
  PROVE  Named(NextProbe(c).call)
<1>1. CASE c.probe = "stat"
  <2>1. NextProbe(c).call = [c EXCEPT !.probe = "nlst"]
    BY <1>1 DEF NextProbe, To
  <2> QED
    BY <2>1 DEF Named, Kept, IsCall, Fields
<1>2. CASE c.probe # "stat"
  BY <1>2, AfterTypeNamed DEF NextProbe
<1> QED
  BY <1>1, <1>2

LEMMA CommandNamed ==
  ASSUME NEW c, Named(c),
         \/ \E path, ok : CWD(path, ok, c) \/ MKD(path, ok, c) \/ RMD(path, ok, c)
         \/ Unasked(c)
         \/ \E got : \E ok \in BOOLEAN : GetCWD(ok, got, c)
  PROVE  Named(call')
<1>1. CASE \/ \E path, ok : CWD(path, ok, c) \/ MKD(path, ok, c) \/ RMD(path, ok, c)
           \/ Unasked(c)
  <2>1. Same(call', c)
    BY <1>1, CommandSame DEF Named
  <2> QED
    BY <2>1 DEF Same, Fields, Named, Kept
<1>2. CASE \E got : \E ok \in BOOLEAN : GetCWD(ok, got, c)
  <2>1. PICK got : \E ok \in BOOLEAN : GetCWD(ok, got, c)
    BY <1>2
  <2>2. call' = c \/ call' = [[c EXCEPT !.noPWD = TRUE] EXCEPT !.denied = TRUE]
    BY <2>1 DEF GetCWD, Unasked, Denied
  <2> QED
    BY <2>2 DEF Named, Kept, IsCall, Fields
<1> QED
  BY <1>1, <1>2

TypeSteps ==
  \/ AskMLST \/ NotePlaceForType \/ TryToEnter \/ LeaveEntered \/ ExistsAnswer
  \/ Probe \/ SkipProbe \/ ProbeKnown \/ ProbeStart \/ ProbeBack
  \/ RemoveDir \/ NotePlaceForRmdir \/ EnterNoDir

LEMMA TypeStepsNamed ==
  ASSUME CallInv, TypeSteps
  PROVE  call.name \in {"filetype", "rmdir"} /\ Named(call')
<1>1. /\ pc \in {"ftMlst", "ftPwd", "ftTry", "ftBack", "exists", "exists2", "pbStart",
                 "pbBack", "rmTry", "rmPwd", "rmIn"}
      /\ IsCall(call)
  BY CallIs DEF TypeSteps, AskMLST, NotePlaceForType, TryToEnter, LeaveEntered, ExistsAnswer, Probe,
     SkipProbe, ProbeKnown, ProbeStart, ProbeBack, RemoveDir, NotePlaceForRmdir, EnterNoDir
<1>2. call.name \in {"filetype", "rmdir"} /\ Named(call)
  BY <1>1 DEF CallInv, Good, PlaceOK, Named, Kept
<1>3. \A r : Named(AfterType(r, call).call)
  BY <1>2, AfterTypeNamed
<1>4. Named(NextProbe(call).call)
  BY <1>2, NextProbeNamed
<1>5. CASE AskMLST
  <2>1. \E c : Named(c) /\ Unasked(c)
    BY <1>2, <1>3, <1>5 DEF AskMLST, To
  <2> QED
    BY <1>2, <2>1, CommandNamed
<1>6. CASE NotePlaceForType \/ NotePlaceForRmdir
  BY <1>2, <1>6, CommandNamed DEF NotePlaceForType, NotePlaceForRmdir
<1>7. CASE TryToEnter
  BY <1>2, <1>7, CommandNamed DEF TryToEnter
<1>8. CASE LeaveEntered
  <2>1. PICK ok \in BOOLEAN :
          CWD(Way, ok, AfterType("dir", [call EXCEPT !.strayed = @ \/ ~ok]).call)
    BY <1>8 DEF LeaveEntered
  <2>2. Named([call EXCEPT !.strayed = @ \/ ~ok])
    BY <1>2 DEF Named, Kept, IsCall, Fields
  <2>3. Named(AfterType("dir", [call EXCEPT !.strayed = @ \/ ~ok]).call)
    BY <2>2, AfterTypeNamed
  <2> QED
    BY <1>2, <2>1, <2>3, CommandNamed
<1>9. CASE ExistsAnswer
  <2>1. \E c : Named(c) /\ Unasked(c)
    BY <1>3, <1>9 DEF ExistsAnswer
  <2> QED
    BY <1>2, <2>1, CommandNamed
<1>10. CASE Probe
  <2>1. CASE \E c : Named(c) /\ Unasked(c)
    BY <1>2, <2>1, CommandNamed
  <2>3. \A got : Named([call EXCEPT !.saved = got])
    BY <1>2 DEF Named, Kept, IsCall, Fields
  <2>4. CASE \E ok \in BOOLEAN, got \in {{}, cip.cwd, {PathOf(srv.cwd)}} :
               LET n == IF ok THEN To("pbStart", [call EXCEPT !.saved = got]) ELSE NextProbe(call)
               IN GetCWD(ok, got, n.call)
    <3>1. PICK ok \in BOOLEAN, got \in {{}, cip.cwd, {PathOf(srv.cwd)}} :
            LET n == IF ok THEN To("pbStart", [call EXCEPT !.saved = got]) ELSE NextProbe(call)
            IN GetCWD(ok, got, n.call)
      BY <2>4
    <3> DEFINE d == (IF ok THEN To("pbStart", [call EXCEPT !.saved = got])
                     ELSE NextProbe(call)).call
    <3>2. Named(d)
      BY <1>4, <2>3 DEF To
    <3>3. GetCWD(ok, got, d)
      BY <3>1
    <3> HIDE DEF d
    <3> QED
      BY <1>2, <3>2, <3>3, CommandNamed
  <2> QED
    BY <1>4, <1>10, <2>1, <2>4 DEF Probe
<1>11. CASE SkipProbe
  <2>1. Unasked(NextProbe(call).call)
    BY <1>11 DEF SkipProbe
  <2> QED
    BY <1>2, <1>4, <2>1, CommandNamed
<1>12. CASE ProbeKnown
  <2>1. \E c : Named(c) /\ Unasked(c)
    BY <1>3, <1>12 DEF ProbeKnown
  <2> QED
    BY <1>2, <2>1, CommandNamed
<1>13. CASE ProbeStart
  <2>1. \E c : Named(c) /\ (Unasked(c) \/ \E path, ok : CWD(path, ok, c))
    BY <1>2, <1>4, <1>13 DEF ProbeStart, To
  <2> QED
    BY <1>2, <2>1, CommandNamed
<1>14. CASE ProbeBack
  <2>1. PICK ok \in BOOLEAN, works \in {"yes", "no"}, result \in {"file", "noSuch"} :
          LET c == [call EXCEPT !.strayed = @ \/ ~ok]
              n == IF works = "yes" THEN AfterType(result, c) ELSE NextProbe(c)
          IN CWD(Str(call.saved), ok, n.call)
    BY <1>14 DEF ProbeBack
  <2> DEFINE c == [call EXCEPT !.strayed = @ \/ ~ok]
  <2>2. Named(c)
    BY <1>2 DEF Named, Kept, IsCall, Fields
  <2> HIDE DEF c
  <2>3. Named(AfterType(result, c).call) /\ Named(NextProbe(c).call)
    BY <2>2, AfterTypeNamed, NextProbeNamed
  <2>4. \E d : Named(d) /\ CWD(Str(call.saved), ok, d)
    BY <2>1, <2>3 DEF c
  <2> QED
    BY <1>2, <2>4, CommandNamed
<1>15. CASE RemoveDir
  <2>1. \A r : Named([call EXCEPT !.result = r])
    BY <1>2 DEF Named, Kept, IsCall, Fields
  <2>2. \E c, ok : Named(c) /\ RMD(call.path, ok, c)
    BY <1>2, <1>15, <2>1 DEF RemoveDir, To, End
  <2> QED
    BY <1>2, <2>2, CommandNamed
<1>16. CASE EnterNoDir
  <2>1. Named([call EXCEPT !.result = "rmdFailed"])
    BY <1>2 DEF Named, Kept, IsCall, Fields
  <2>2. CWD(call.path, FALSE, [call EXCEPT !.result = "rmdFailed"])
    BY <1>16 DEF EnterNoDir, End
  <2> QED
    BY <1>2, <2>1, <2>2, CommandNamed
<1> QED
  BY <1>2, <1>5, <1>6, <1>7, <1>8, <1>9, <1>10, <1>11, <1>12, <1>13, <1>14, <1>15, <1>16
  DEF TypeSteps

LEMMA TypeStepsArrive ==
  ASSUME CallInv, TypeSteps
  PROVE  ArriveInv'
BY TypeStepsNamed DEF Named, Kept, ArriveInv, ArriveOK, OnCourse, Chdirs

LEMMA ApplicationArrives ==
  ASSUME CallInv, ArriveInv, Application
  PROVE  ArriveInv'
<1>1. ASSUME NEW name, NEW path, NEW flags, NEW recurse, NEW cur,
             Begins(name, path, flags, recurse, cur), pc' # "idle",
             name \in Chdirs => path \in Paths /\ pc' \in {"cd", "split"}
      PROVE  ArriveInv'
  <2>1. /\ call' = [NoCall EXCEPT !.name = name, !.path = path, !.flags = flags,
                                  !.at = IF name = "chdir3" THEN "full" ELSE "simple",
                                  !.recurse = recurse, !.cur = cur, !.from = srv.cwd,
                                  !.k = 1, !.seen = srv.dirs]
        /\ UNCHANGED srv
    BY <1>1 DEF Begins
  <2>2. /\ call'.name = name /\ call'.path = path /\ call'.from = srv.cwd
        /\ call'.at = IF name = "chdir3" THEN "full" ELSE "simple"
    BY <2>1 DEF NoCall
  <2>3. name \in Chdirs => IsPath(path)
    BY <1>1, PathsArePaths
  <2>4. CASE name \notin Chdirs
    BY <2>2, <2>4 DEF ArriveInv, ArriveOK, OnCourse
  <2>5. CASE name \in Chdirs
    <3>1. ~InPieces(call') /\ call'.at # "oneMade"
      BY <2>2 DEF InPieces
    <3>2. IsPath(call'.path) /\ srv'.cwd = Before(call') /\ srv'.cwd = call'.from
      BY <2>1, <2>2, <2>3, <2>5, <3>1 DEF Before
    <3>3. \A p \in {"cd", "split"} : ArriveOK(p, call', srv'.cwd, cip'.buf)
      BY <3>1, <3>2 DEF ArriveOK, AtStart, KnowsWay
    <3> QED
      BY <1>1, <2>5, <3>3 DEF ArriveInv
  <2> QED
    BY <2>4, <2>5
<1>2. CASE FTPGetCWD
  BY <1>1, <1>2 DEF FTPGetCWD, Chdirs
<1>3. ASSUME NEW path \in Paths, FTPChdir(path) \/ FTPChdirAndGetCWD(path)
      PROVE  ArriveInv'
  BY <1>1, <1>3 DEF FTPChdir, FTPChdirAndGetCWD
<1>4. ASSUME NEW path \in Paths, FTPFileType(path)
      PROVE  ArriveInv'
  BY <1>1, <1>4 DEF FTPFileType, Chdirs
<1>5. ASSUME NEW path \in Paths, NEW flags, FTPChdir3(path, flags)
      PROVE  ArriveInv'
  BY <1>1, <1>5 DEF FTPChdir3
<1>6. ASSUME NEW path \in Paths, NEW recurse, FTPRmdir(path, recurse)
      PROVE  ArriveInv'
  BY <1>1, <1>6 DEF FTPRmdir, Chdirs
<1>7. ASSUME NEW path \in Paths, NEW recurse, NEW cur, FTPMkdir2(path, recurse, cur)
      PROVE  ArriveInv'
  BY <1>1, <1>7 DEF FTPMkdir2, Chdirs
<1> QED
  BY <1>2, <1>3, <1>4, <1>5, <1>6, <1>7 DEF Application

LEMMA MeddleArrives ==
  ASSUME CallInv, ArriveInv, Meddle
  PROVE  ArriveInv'
<1>1. /\ pc' = pc /\ cip' = cip /\ srv'.cwd = srv.cwd
      /\ call' = [call EXCEPT !.meddled = TRUE, !.seen = @ \cup srv'.dirs]
  BY DEF Meddle, CallInv, CacheInv, Shape
<1>2. IsCall(call)
  BY CallIs
<1>3. Same(call', call)
  <2> DEFINE s == call.seen \cup srv'.dirs
  <2>1. call' = [call EXCEPT !.meddled = TRUE, !.seen = s]
    BY <1>1
  <2> HIDE DEF s
  <2> QED
    BY <1>2, <2>1 DEF Same, IsCall, Fields
<1> QED
  BY <1>1, <1>3, ArriveConcludes DEF ArriveInv

LEMMA InitArrives == ASSUME Init PROVE ArriveInv
<1>1. pc = "idle" /\ srv.cwd = Home
  BY DEF Init
<1>2. call.path = <<Nothing>> /\ call.from = Home
  BY DEF Init, NoCall, Nothing
<1>3. Resolve(Home, <<Nothing>>) = Home
  BY OnePiece, NothingIs
<1>4. IsPath(<<Nothing>>)
  BY DEF IsPath, Texts, Nothing
<1> QED
  BY <1>1, <1>2, <1>3, <1>4 DEF ArriveInv, ArriveOK, AtStart, KnowsWay

LEMMA StepArrives == ASSUME CallInv, ArriveInv, [Next]_vars PROVE ArriveInv'
<1>1. CASE Nowhere \/ ChangeDir \/ AskPWD \/ Split \/ MakeStep
  BY <1>1, NowhereArrives, ChangeDirArrives, AskPWDArrives, SplitArrives, MakeStepArrives
<1>2. CASE \/ NotePlace \/ TryExisting \/ LeaveExisting \/ MakeOne
           \/ FindParent \/ MakeNext \/ GoBack
  BY <1>2, NotePlaceArrives, TryExistingArrives, LeaveExistingArrives, MakeOneArrives,
     FindParentArrives, MakeNextArrives, GoBackArrives
<1>3. CASE TypeSteps
  BY <1>3, TypeStepsArrive
<1>4. CASE Application \/ Meddle
  BY <1>4, ApplicationArrives, MeddleArrives
<1>5. CASE UNCHANGED vars
  BY <1>5 DEF vars, ArriveInv, ArriveOK, OnCourse, InPieces, Before, After, WayOf
<1> QED
  BY <1>1, <1>2, <1>3, <1>4, <1>5 DEF Next, Library, TypeSteps

\* A change of directory that reports success has arrived: whichever of its ways
\* FTPChdir3 takes after the others have failed, with the directories it makes
\* between, and FTPMkdir2's own trips up the path and back (c_chdir3.c).
THEOREM GetsThere == Spec => []Arrives
<1>1. Init => CallInv /\ ArriveInv
  BY InitCall, InitArrives
<1>2. CallInv /\ ArriveInv /\ [Next]_vars => (CallInv /\ ArriveInv)'
  BY StepCall, StepArrives
<1>3. CallInv /\ ArriveInv => Arrives
  BY DEF ArriveInv, ArriveOK, Arrives, Ended, OnCourse, Chdirs, Plain
<1> QED
  BY <1>1, <1>2, <1>3, PTL DEF Spec

-----------------------------------------------------------------------------
(* What FTPMkdir2 makes.                                                    *)

\* The number of pieces of a path without its trailing slashes.
IsBare(path, i) == path[i] # "" /\ \A j \in 1..Len(path) : j > i => path[j] = ""
BareLen(path) == CHOOSE i \in 1..Len(path) : IsBare(path, i)

LEMMA BareLenIs ==
  ASSUME NEW path \in Seq(STRING), Names(path)
  PROVE  /\ BareLen(path) \in 1..Len(path) /\ Len(path) \in Nat
         /\ path[BareLen(path)] # Nothing /\ EmptyAfter(path, BareLen(path))
<1> DEFINE T == {i \in 0..Len(path) : EmptyAfter(path, i)}
<1>1. Len(path) \in Nat
  BY LenProperties
<1>2. Len(path) \in T
  BY <1>1 DEF EmptyAfter
<1>3. T \subseteq Nat /\ T # {}
  BY <1>1, <1>2
<1>4. PICK m \in T : \A i \in T : m <= i
  <2> HIDE DEF T
  <2> QED
    BY <1>3, Least
<1>5. m \in 0..Len(path) /\ EmptyAfter(path, m)
  OBVIOUS
<1>6. PICK i \in 1..Len(path) : path[i] # Nothing
  BY DEF Names, Special, Nothing
<1>7. m \in 1..Len(path)
  BY <1>1, <1>5, <1>6 DEF EmptyAfter
<1>8. path[m] # Nothing
  <2>1. SUFFICES ASSUME path[m] = Nothing
                 PROVE  FALSE
    OBVIOUS
  <2>2. m - 1 \in 0..Len(path) /\ m - 1 < m
    BY <1>1, <1>7
  <2>3. EmptyAfter(path, m - 1)
    BY <1>1, <1>5, <1>7, <2>1 DEF EmptyAfter
  <2>4. m - 1 \in T
    BY <2>2, <2>3
  <2> QED
    BY <1>4, <1>7, <2>2, <2>4
<1>9. IsBare(path, m)
  BY <1>5, <1>8 DEF IsBare, EmptyAfter, Nothing
<1>10. BareLen(path) \in 1..Len(path) /\ IsBare(path, BareLen(path))
  BY <1>7, <1>9 DEF BareLen
<1> QED
  BY <1>1, <1>10 DEF IsBare, EmptyAfter, Nothing

\* The parts of the path that FTPMkdir2 passes to CWD and MKD.
LEMMA BareIs ==
  ASSUME call.path \in Seq(STRING), Names(call.path), NEW n, n = BareLen(call.path)
  PROVE  /\ Bare = SubSeq(call.path, 1, n) /\ Len(Bare) = n /\ Bare[1] = call.path[1]
         /\ \A s \in 0..n, k \in 0..n : s <= k =>
              SubSeq(Bare, s + 1, k) = SubSeq(call.path, s + 1, k)
<1> DEFINE path == call.path
           bare == SubSeq(path, 0 + 1, n)
<1>1. n \in 1..Len(path) /\ Len(path) \in Nat
  BY BareLenIs
<1>2. Bare = SubSeq(path, 1, n)
  BY DEF Bare, BareLen, IsBare
<1>3. bare \in Seq(STRING) /\ Len(bare) = n /\ \A i \in 1..n : bare[i] = path[i]
  <2>1. 0 \in 0..Len(path) /\ n \in 0..Len(path) /\ n - 0 = n
    BY <1>1
  <2>2. bare \in Seq(STRING) /\ Len(bare) = n - 0 /\ \A i \in 1..(n - 0) : bare[i] = path[0 + i]
    BY <2>1, PartOf
  <2>3. \A i \in 1..n : 0 + i = i
    OBVIOUS
  <2> HIDE DEF bare, path
  <2> QED
    BY <2>1, <2>2, <2>3
<1>4. Bare = bare
  BY <1>2
<1> HIDE DEF bare, path
<1>5. ASSUME NEW s \in 0..n, NEW k \in 0..n, s <= k
      PROVE  SubSeq(bare, s + 1, k) = SubSeq(path, s + 1, k)
  <2>1. /\ s \in 0..Len(bare) /\ k \in s..Len(bare) /\ s \in 0..Len(path) /\ k \in s..Len(path)
        /\ k - s \in Nat
    BY <1>1, <1>3, <1>5
  <2>2. /\ SubSeq(bare, s + 1, k) \in Seq(STRING) /\ Len(SubSeq(bare, s + 1, k)) = k - s
        /\ \A i \in 1..(k - s) : SubSeq(bare, s + 1, k)[i] = bare[s + i]
    BY <1>3, <2>1, PartOf
  <2>3. /\ SubSeq(path, s + 1, k) \in Seq(STRING) /\ Len(SubSeq(path, s + 1, k)) = k - s
        /\ \A i \in 1..(k - s) : SubSeq(path, s + 1, k)[i] = path[s + i]
    BY <2>1, PartOf DEF path
  <2>4. \A i \in 1..(k - s) : s + i \in 1..n
    BY <1>1, <1>5
  <2> DEFINE u == SubSeq(bare, s + 1, k)
             v == SubSeq(path, s + 1, k)
  <2>5. \A i \in 1..(k - s) : u[i] = v[i]
    BY <1>3, <2>2, <2>3, <2>4
  <2> HIDE DEF u, v
  <2>6. u = v
    BY <2>2, <2>3, <2>5, SeqEqual DEF u, v
  <2> QED
    BY <2>6 DEF u, v
<1>6. bare[1] = path[1]
  <2>1. 1 \in 1..n
    BY <1>1
  <2> QED
    BY <1>3, <2>1
<1> QED
  BY <1>2, <1>3, <1>4, <1>5, <1>6 DEF path

\* Where a call is in its path: all of them, and FTPMkdir2's steps in particular.
MkSteps == {"mkPwd", "mkTry", "mkUndo", "mkOne", "mkUp", "mkDo", "mkBack"}
Makes(c) == c.name = "mkdir" \/ "mkd" \in c.flags
PartOK(p, c) ==
  /\ c.path \in Paths \cup {<<Nothing>>}
  /\ c.k \in 0..Len(c.path) /\ c.base \in 0..Len(c.path)
  /\ Makes(c) => c.path \in Paths /\ Names(c.path)
  /\ p \in MkSteps => Makes(c)
  /\ p = "mkUp" => c.k \in 1..Len(c.path) /\ c.k < BareLen(c.path)
  /\ p = "mkDo" => c.base < c.k /\ c.k <= BareLen(c.path)
PartInv == PartOK(pc, call)

LEMMA SamePart ==
  ASSUME NEW p, NEW c, NEW d, PartOK(p, c), Same(d, c)
  PROVE  PartOK(p, d)
<1>1. d.name = c.name /\ d.path = c.path /\ d.flags = c.flags /\ d.k = c.k /\ d.base = c.base
  BY DEF Same, Fields
<1> QED
  BY <1>1 DEF PartOK, Makes

LEMMA PartConcludes ==
  ASSUME NEW c, Same(call', c), PartOK(pc', c)
  PROVE  PartInv'
BY SamePart DEF PartInv

\* A step to a place where nothing more is asked of k and base.
LEMMA PartStays ==
  ASSUME NEW p, NEW c, PartOK(p, c), NEW q, NEW d,
         d.name = c.name, d.path = c.path, d.flags = c.flags, d.base = c.base,
         d.k \in 0..Len(c.path), q \notin {"mkUp", "mkDo"}, q \in MkSteps => Makes(c)
  PROVE  PartOK(q, d)
BY DEF PartOK, Makes

LEMMA AfterCdPart ==
  ASSUME NEW c, IsCall(c), NEW p, PartOK(p, c), NEW ok \in BOOLEAN,
         c.at \in {"simple", "full", "again", "one", "oneMade"},
         c.at = call.at, c.k = call.k, c.path = call.path
  PROVE  IsCall(AfterCd(ok, c).call) /\ PartOK(AfterCd(ok, c).pc, AfterCd(ok, c).call)
<1> DEFINE n == AfterCd(ok, c)
           d == n.call
<1>1. \/ \E r : n = End(r, c)
      \/ n = To("cd", [c EXCEPT !.at = "one", !.k = @ + 1]) /\ ~AtLast
      \/ n.pc \in {"split", "cdMkd"} /\ n.call = c
      \/ n.pc = "mkPwd" /\ n.call = c /\ "mkd" \in c.flags
  <2>1. CASE call.at = "simple"
    BY <2>1 DEF AfterCd
  <2>2. CASE call.at = "full"
    BY <2>2 DEF AfterCd, To
  <2>3. CASE call.at = "again"
    BY <2>3 DEF AfterCd, To
  <2>4. CASE call.at = "one"
    BY <2>4 DEF AfterCd, To
  <2>5. CASE call.at = "oneMade"
    BY <2>5 DEF AfterCd
  <2> QED
    BY <2>1, <2>2, <2>3, <2>4, <2>5
<1> HIDE DEF n
<1>2. ASSUME NEW r, n = End(r, c)
      PROVE  IsCall(d) /\ PartOK(n.pc, d)
  <2>1. n.pc = "idle" /\ d = [c EXCEPT !.result = r]
    BY <1>2 DEF End
  <2> HIDE DEF d
  <2>2. /\ IsCall(d) /\ d.name = c.name /\ d.path = c.path /\ d.flags = c.flags
        /\ d.base = c.base /\ d.k = c.k
    BY <2>1 DEF IsCall, Fields
  <2>3. d.k \in 0..Len(c.path)
    BY <2>2 DEF PartOK
  <2> QED
    BY <2>1, <2>2, <2>3, PartStays DEF MkSteps
<1>3. CASE n = To("cd", [c EXCEPT !.at = "one", !.k = @ + 1]) /\ ~AtLast
  <2>1. n.pc = "cd" /\ d = [c EXCEPT !.at = "one", !.k = @ + 1]
    BY <1>3 DEF To
  <2> HIDE DEF d
  <2>2. /\ IsCall(d) /\ d.name = c.name /\ d.path = c.path /\ d.flags = c.flags
        /\ d.base = c.base /\ d.k = c.k + 1
    BY <2>1 DEF IsCall, Fields
  <2>3. d.k \in 0..Len(c.path)
    <3> DEFINE k == c.k
               len == Len(c.path)
    <3>1. c.path \in Paths \cup {<<Nothing>>} /\ k \in 0..len /\ k # len
      BY <1>3 DEF PartOK, AtLast
    <3>2. len \in Nat
      BY <3>1, PathsArePaths, PathLen
    <3> HIDE DEF k, len
    <3>3. k + 1 \in 0..len
      BY <3>1, <3>2
    <3> QED
      BY <2>2, <3>3 DEF k, len
  <2>4. PartOK(n.pc, d)
    BY <2>1, <2>2, <2>3, PartStays DEF MkSteps
  <2> QED
    BY <2>2, <2>4 DEF n, d
<1>4. CASE n.pc \in {"split", "cdMkd"} /\ n.call = c
  <2>1. c.k \in 0..Len(c.path)
    BY DEF PartOK
  <2>2. PartOK(n.pc, c)
    BY <1>4, <2>1, PartStays DEF MkSteps
  <2> QED
    BY <1>4, <2>2 DEF n
<1>5. CASE n.pc = "mkPwd" /\ n.call = c /\ "mkd" \in c.flags
  <2>1. c.k \in 0..Len(c.path) /\ Makes(c)
    BY <1>5 DEF PartOK, Makes
  <2>2. PartOK(n.pc, c)
    BY <1>5, <2>1, PartStays DEF MkSteps
  <2> QED
    BY <1>5, <2>2 DEF n
<1> QED
  BY <1>1, <1>2, <1>3, <1>4, <1>5 DEF n

LEMMA AfterMkdirPart ==
  ASSUME NEW c, IsCall(c), NEW p, PartOK(p, c), NEW result
  PROVE  /\ IsCall(AfterMkdir(result, c).call)
         /\ PartOK(AfterMkdir(result, c).pc, AfterMkdir(result, c).call)
<1> DEFINE n == AfterMkdir(result, c)
           d == n.call
<1>1. /\ n.pc \in {"idle", "cd", "split"}
      /\ \/ \E r : d = [c EXCEPT !.result = r]
         \/ d = [c EXCEPT !.at = "again"]
         \/ d = c
  BY DEF AfterMkdir, End, To
<1> HIDE DEF n, d
<1>2. /\ IsCall(d) /\ d.name = c.name /\ d.path = c.path /\ d.flags = c.flags
      /\ d.base = c.base /\ d.k = c.k
  BY <1>1 DEF IsCall, Fields
<1>3. d.k \in 0..Len(c.path)
  BY <1>2 DEF PartOK
<1>4. PartOK(n.pc, d)
  BY <1>1, <1>2, <1>3, PartStays DEF MkSteps
<1> QED
  BY <1>2, <1>4 DEF n, d

\* On the way to the parent.
LEMMA FromParentPart ==
  ASSUME IsCall(call), NEW p \in MkSteps, PartOK(p, call), NEW k \in Nat, k < BareLen(call.path)
  PROVE  IsCall(FromParent(k, call).call) /\ PartOK(FromParent(k, call).pc, FromParent(k, call).call)
<1> DEFINE n == FromParent(k, call)
           d == n.call
<1>1. /\ call.path \in Paths /\ Names(call.path) /\ Makes(call)
      /\ BareLen(call.path) \in 1..Len(call.path) /\ Len(call.path) \in Nat
  BY PathsArePaths, BareLenIs DEF PartOK
<1>2. CASE k = 0
  <2>1. n.pc = "mkDo" /\ d = [call EXCEPT !.base = 0, !.k = 1]
    BY <1>2 DEF FromParent, To
  <2> HIDE DEF n, d
  <2>2. /\ IsCall(d) /\ d.name = call.name /\ d.path = call.path /\ d.flags = call.flags
        /\ d.base = 0 /\ d.k = 1
    BY <2>1 DEF IsCall, Fields
  <2>3. PartOK("mkDo", d)
    BY <1>1, <2>2 DEF PartOK, Makes
  <2> QED
    BY <2>1, <2>2, <2>3 DEF n, d
<1>3. CASE k # 0 /\ First(k) = <<"">>
  <2>1. n = AfterMkdir("mkdFailed", call)
    BY <1>3 DEF FromParent
  <2> QED
    BY <2>1, AfterMkdirPart
<1>4. CASE k # 0 /\ First(k) # <<"">>
  <2>1. n.pc = "mkUp" /\ d = [call EXCEPT !.k = k]
    BY <1>4 DEF FromParent, To
  <2> HIDE DEF n, d
  <2>2. /\ IsCall(d) /\ d.name = call.name /\ d.path = call.path /\ d.flags = call.flags
        /\ d.base = call.base /\ d.k = k
    BY <2>1 DEF IsCall, Fields
  <2>3. k \in 0..Len(call.path) /\ k \in 1..Len(call.path)
    <3> DEFINE len == Len(call.path)
               b == BareLen(call.path)
    <3>1. k \in Nat /\ k # 0 /\ k < b /\ b \in 1..len /\ len \in Nat
      BY <1>1, <1>4
    <3> HIDE DEF len, b
    <3>2. k \in 0..len /\ k \in 1..len
      BY <3>1
    <3> QED
      BY <3>2 DEF len
  <2>4. PartOK("mkUp", d)
    BY <1>1, <2>2, <2>3 DEF PartOK, Makes
  <2> QED
    BY <2>1, <2>2, <2>4 DEF n, d
<1> QED
  BY <1>2, <1>3, <1>4

\* A command leaves the call at the place in the path that it is given.
LEMMA CommandPart ==
  ASSUME NEW c, IsCall(c), PartOK(pc', c),
         \/ \E path, ok : CWD(path, ok, c) \/ MKD(path, ok, c) \/ RMD(path, ok, c)
         \/ Unasked(c)
         \/ \E got : \E ok \in BOOLEAN : GetCWD(ok, got, c)
  PROVE  PartInv'
<1>1. CASE \/ \E path, ok : CWD(path, ok, c) \/ MKD(path, ok, c) \/ RMD(path, ok, c)
           \/ Unasked(c)
  BY <1>1, CommandSame, PartConcludes
<1>2. CASE \E got : \E ok \in BOOLEAN : GetCWD(ok, got, c)
  <2>1. call' = c \/ call' = [[c EXCEPT !.noPWD = TRUE] EXCEPT !.denied = TRUE]
    BY <1>2 DEF GetCWD, Unasked, Denied
  <2>2. /\ call'.name = c.name /\ call'.path = c.path /\ call'.flags = c.flags
        /\ call'.k = c.k /\ call'.base = c.base
    BY <2>1 DEF IsCall, Fields
  <2> QED
    BY <2>2 DEF PartInv, PartOK, Makes
<1> QED
  BY <1>1, <1>2

LEMMA ChdirPart ==
  ASSUME CallInv, PartInv, Nowhere \/ ChangeDir \/ AskPWD
  PROVE  PartInv'
<1>1. /\ IsCall(call) /\ call.at \in {"simple", "full", "again", "one", "oneMade"}
      /\ PartOK(pc, call)
  BY CallIs DEF PartInv
<1>2. ASSUME NEW c, IsCall(c), PartOK(pc, c), c.at = call.at, c.k = call.k, c.path = call.path,
             NEW ok \in BOOLEAN, NEW n, n = AfterCd(ok, c), pc' = n.pc,
             \/ \E path, x : CWD(path, x, n.call)
             \/ Unasked(n.call)
             \/ \E got : \E x \in BOOLEAN : GetCWD(x, got, n.call)
      PROVE  PartInv'
  <2>1. IsCall(n.call) /\ PartOK(n.pc, n.call)
    BY <1>1, <1>2, AfterCdPart
  <2> QED
    BY <1>2, <2>1, CommandPart
<1>3. ASSUME NEW n, n = To("cdPwd", call), pc' = n.pc,
             Unasked(n.call) \/ \E path, x : CWD(path, x, n.call)
      PROVE  PartInv'
  <2>1. n.pc = "cdPwd" /\ n.call = call
    BY <1>3 DEF To
  <2>2. PartOK("cdPwd", call)
    BY <1>1 DEF PartOK, MkSteps
  <2> QED
    BY <1>1, <1>3, <2>1, <2>2, CommandPart
<1>4. \A x : LET c == [call EXCEPT !.report = x] IN
             /\ IsCall(c) /\ PartOK(pc, c) /\ c.at = call.at /\ c.k = call.k /\ c.path = call.path
  <2> SUFFICES ASSUME NEW x
               PROVE  LET c == [call EXCEPT !.report = x] IN
                      /\ IsCall(c) /\ PartOK(pc, c) /\ c.at = call.at /\ c.k = call.k
                      /\ c.path = call.path
    OBVIOUS
  <2> DEFINE c == [call EXCEPT !.report = x]
  <2>1. /\ IsCall(c) /\ c.name = call.name /\ c.path = call.path /\ c.flags = call.flags
        /\ c.k = call.k /\ c.base = call.base /\ c.at = call.at
    BY <1>1 DEF IsCall, Fields
  <2> HIDE DEF c
  <2>2. PartOK(pc, c)
    BY <1>1, <2>1 DEF PartOK, Makes
  <2> QED
    BY <2>1, <2>2 DEF c
<1>5. CASE Nowhere
  <2> DEFINE n == IF WithPWD THEN To("cdPwd", call) ELSE AfterCd(TRUE, call)
  <2>1. pc' = n.pc /\ Unasked(n.call)
    BY <1>5 DEF Nowhere, Goes
  <2>2. n = To("cdPwd", call) \/ n = AfterCd(TRUE, call)
    OBVIOUS
  <2> HIDE DEF n
  <2> QED
    BY <1>1, <1>2, <1>3, <2>1, <2>2
<1>6. CASE ChangeDir
  <2>1. PICK ok \in BOOLEAN, quoted \in BOOLEAN :
          LET named == ok /\ quoted /\ WithPWD
              at == {PathOf(Target(Step))}
              n == IF ok /\ WithPWD /\ ~quoted THEN To("cdPwd", call)
                   ELSE AfterCd(ok, IF named THEN [call EXCEPT !.report = at] ELSE call)
          IN CWD(Step, ok, n.call) /\ Goes(n)
    BY <1>6 DEF ChangeDir
  <2> DEFINE c == IF ok /\ quoted /\ WithPWD
                  THEN [call EXCEPT !.report = {PathOf(Target(Step))}] ELSE call
             n == IF ok /\ WithPWD /\ ~quoted THEN To("cdPwd", call) ELSE AfterCd(ok, c)
  <2>2. pc' = n.pc /\ CWD(Step, ok, n.call)
    BY <2>1 DEF Goes
  <2>3. IsCall(c) /\ PartOK(pc, c) /\ c.at = call.at /\ c.k = call.k /\ c.path = call.path
    <3>1. c = call \/ c = [call EXCEPT !.report = {PathOf(Target(Step))}]
      OBVIOUS
    <3> HIDE DEF c
    <3> QED
      BY <1>1, <1>4, <3>1
  <2>4. n = To("cdPwd", call) \/ n = AfterCd(ok, c)
    OBVIOUS
  <2> HIDE DEF c, n
  <2> QED
    BY <1>2, <1>3, <2>2, <2>3, <2>4
<1>7. CASE AskPWD
  <2>1. PICK ok \in BOOLEAN, got \in {{}, cip.cwd, {PathOf(srv.cwd)}} :
          LET n == AfterCd(ok, [call EXCEPT !.report = got]) IN
          GetCWD(ok, got, n.call) /\ Goes(n)
    BY <1>7 DEF AskPWD
  <2> DEFINE c == [call EXCEPT !.report = got]
             n == AfterCd(ok, c)
  <2>2. pc' = n.pc /\ GetCWD(ok, got, n.call)
    BY <2>1 DEF Goes
  <2>3. IsCall(c) /\ PartOK(pc, c) /\ c.at = call.at /\ c.k = call.k /\ c.path = call.path
    BY <1>4
  <2> HIDE DEF c
  <2>4. n = AfterCd(ok, c)
    OBVIOUS
  <2> HIDE DEF n
  <2> QED
    BY <1>2, <2>2, <2>3, <2>4
<1> QED
  BY <1>5, <1>6, <1>7

LEMMA SplitPart ==
  ASSUME CallInv, PartInv, Split
  PROVE  PartInv'
<1> DEFINE c == [call EXCEPT !.at = "one", !.k = 1]
           n == IF call.path # <<"">> THEN To("cd", c)
                ELSE IF "pwd" \in call.flags THEN To("cdPwd", c) ELSE End("ok", c)
           d == n.call
<1>1. pc = "split" /\ pc' = n.pc /\ Unasked(d)
  BY DEF Split, Goes
<1>2. IsCall(call) /\ PartOK(pc, call)
  BY CallIs DEF PartInv
<1>3. IsCall(c) /\ c.k = 1 /\ \A f \in {"name", "path", "flags", "base"} : c[f] = call[f]
  BY <1>2 DEF IsCall, Fields
<1> HIDE DEF c
<1>4. n.pc \in {"cd", "cdPwd", "idle"} /\ (d = c \/ d = [c EXCEPT !.result = "ok"])
  BY DEF To, End
<1> HIDE DEF n, d
<1>5. IsCall(d) /\ d.k = 1 /\ d.name = call.name /\ d.path = call.path /\ d.flags = call.flags
      /\ d.base = call.base
  BY <1>3, <1>4 DEF IsCall, Fields
<1>6. 1 \in 0..Len(call.path)
  <2>1. 1 \in 1..Len(call.path)
    <3>1. CASE call.path \in Paths
      BY <3>1, PathsArePaths, PathLen
    <3>2. CASE call.path = <<Nothing>>
      BY <3>2
    <3> QED
      BY <1>2, <3>1, <3>2 DEF PartOK
  <2> QED
    BY <2>1
<1>7. PartOK(n.pc, d)
  BY <1>2, <1>4, <1>5, <1>6, PartStays DEF MkSteps
<1> QED
  BY <1>1, <1>5, <1>7, CommandPart

LEMMA MakeStepPart ==
  ASSUME CallInv, PartInv, MakeStep
  PROVE  PartInv'
<1>1. PICK ok \in BOOLEAN :
        LET n == IF ok THEN To("cd", [call EXCEPT !.at = "oneMade"]) ELSE End("failed", call)
        IN MKD(<<Token>>, ok, n.call) /\ Goes(n)
  BY DEF MakeStep
<1> DEFINE n == IF ok THEN To("cd", [call EXCEPT !.at = "oneMade"]) ELSE End("failed", call)
           d == n.call
<1>2. pc' = n.pc /\ MKD(<<Token>>, ok, d)
  BY <1>1 DEF Goes
<1>3. IsCall(call) /\ PartOK(pc, call)
  BY CallIs DEF PartInv
<1>4. \/ n.pc = "cd" /\ d = [call EXCEPT !.at = "oneMade"]
      \/ n.pc = "idle" /\ d = [call EXCEPT !.result = "failed"]
  BY DEF To, End
<1> HIDE DEF n, d
<1>5. IsCall(d) /\ d.k = call.k /\ d.name = call.name /\ d.path = call.path
      /\ d.flags = call.flags /\ d.base = call.base
  BY <1>3, <1>4 DEF IsCall, Fields
<1>6. PartOK(n.pc, d)
  BY <1>3, <1>4, <1>5 DEF PartOK, Makes, MkSteps
<1> QED
  BY <1>2, <1>5, <1>6, CommandPart

\* In a step of FTPMkdir2.
LEMMA InMkdir ==
  ASSUME CallInv, PartInv, pc \in MkSteps
  PROVE  /\ IsCall(call) /\ PartOK(pc, call) /\ Makes(call) /\ call.k \in 0..Len(call.path)
         /\ call.path \in Paths /\ call.path \in Seq(STRING) /\ Names(call.path)
         /\ BareLen(call.path) \in 1..Len(call.path) /\ Len(call.path) \in Nat
         /\ Len(Bare) = BareLen(call.path) /\ CacheInv /\ DirsOK
<1>1. /\ IsCall(call) /\ PartOK(pc, call) /\ Makes(call) /\ CacheInv /\ DirsOK
      /\ call.path \in Paths /\ Names(call.path) /\ call.k \in 0..Len(call.path)
  BY CallIs DEF PartInv, PartOK
<1>2. call.path \in Seq(STRING)
  BY <1>1, PathsArePaths
<1> QED
  BY <1>1, <1>2, BareLenIs, BareIs

\* A step of FTPMkdir2 to another that needs no more of k and base.
LEMMA MkdirGoesOn ==
  ASSUME PartInv, pc \in MkSteps, NEW p \in MkSteps \ {"mkUp", "mkDo"}
  PROVE  PartOK(p, call)
<1>1. PartOK(pc, call)
  BY DEF PartInv
<1>2. call.k \in 0..Len(call.path) /\ Makes(call)
  BY <1>1 DEF PartOK
<1> QED
  BY <1>1, <1>2, PartStays

LEMMA MkdirPart ==
  ASSUME CallInv, PartInv, NotePlace \/ TryExisting \/ LeaveExisting \/ MakeOne \/ GoBack
  PROVE  PartInv'
<1>1. CASE NotePlace
  <2>1. pc \in MkSteps /\ pc' = "mkTry" /\ \E got : \E ok \in BOOLEAN : GetCWD(ok, got, call)
    BY <1>1 DEF NotePlace, MkSteps
  <2>2. PartOK("mkTry", call) /\ IsCall(call)
    BY <2>1, MkdirGoesOn, CallIs DEF MkSteps
  <2> QED
    BY <2>1, <2>2, CommandPart
<1>2. CASE TryExisting
  <2>1. PICK ok \in BOOLEAN :
          LET n == IF ok THEN To("mkUndo", call)
                   ELSE IF ~Recursive \/ (Len(Bare) = 2 /\ Bare[1] = "") THEN To("mkOne", call)
                   ELSE FromParent(Len(Bare) - 1, call)
          IN CWD(call.path, ok, n.call) /\ Goes(n)
    BY <1>2 DEF TryExisting
  <2> DEFINE n == IF ok THEN To("mkUndo", call)
                  ELSE IF ~Recursive \/ (Len(Bare) = 2 /\ Bare[1] = "") THEN To("mkOne", call)
                  ELSE FromParent(Len(Bare) - 1, call)
  <2>2. pc \in MkSteps /\ CWD(call.path, ok, n.call) /\ pc' = n.pc
    BY <1>2, <2>1 DEF TryExisting, MkSteps, Goes
  <2>3. n = To("mkUndo", call) \/ n = To("mkOne", call) \/ n = FromParent(Len(Bare) - 1, call)
    OBVIOUS
  <2> HIDE DEF n
  <2>4. PartOK("mkUndo", call) /\ PartOK("mkOne", call) /\ IsCall(call)
    BY <2>2, MkdirGoesOn, CallIs DEF MkSteps
  <2>5. IsCall(n.call) /\ PartOK(n.pc, n.call)
    <3>1. CASE n = To("mkUndo", call) \/ n = To("mkOne", call)
      BY <2>4, <3>1 DEF To
    <3>2. CASE n = FromParent(Len(Bare) - 1, call)
      <4> DEFINE k == Len(Bare) - 1
      <4>1. k \in Nat /\ k < BareLen(call.path)
        BY <2>2, InMkdir
      <4> HIDE DEF k
      <4>2. IsCall(FromParent(k, call).call) /\ PartOK(FromParent(k, call).pc, FromParent(k, call).call)
        BY <2>2, <4>1, InMkdir, FromParentPart
      <4> QED
        BY <3>2, <4>2 DEF k
    <3> QED
      BY <2>3, <3>1, <3>2
  <2> QED
    BY <2>2, <2>5, CommandPart
<1>3. ASSUME pc \in MkSteps, NEW c, c = call \/ \E x : c = [call EXCEPT !.strayed = x],
             NEW r, pc' = AfterMkdir(r, c).pc,
             \E path, ok : \/ CWD(path, ok, AfterMkdir(r, c).call)
                           \/ MKD(path, ok, AfterMkdir(r, c).call)
      PROVE  PartInv'
  <2>1. IsCall(call) /\ PartOK(pc, call)
    BY <1>3, InMkdir
  <2>2. IsCall(c) /\ c.name = call.name /\ c.path = call.path /\ c.flags = call.flags
        /\ c.k = call.k /\ c.base = call.base
    BY <1>3, <2>1 DEF IsCall, Fields
  <2>3. PartOK(pc, c)
    BY <2>1, <2>2 DEF PartOK, Makes
  <2>4. IsCall(AfterMkdir(r, c).call) /\ PartOK(AfterMkdir(r, c).pc, AfterMkdir(r, c).call)
    BY <2>2, <2>3, AfterMkdirPart
  <2> QED
    BY <1>3, <2>4, CommandPart
<1>4. CASE LeaveExisting
  <2>1. PICK ok \in BOOLEAN :
          LET n == AfterMkdir(IF ok THEN "ok" ELSE "cannotGoToPrevDir",
                              [call EXCEPT !.strayed = @ \/ ~ok])
          IN CWD(Way, ok, n.call) /\ Goes(n)
    BY <1>4 DEF LeaveExisting
  <2> DEFINE c == [call EXCEPT !.strayed = @ \/ ~ok]
             r == IF ok THEN "ok" ELSE "cannotGoToPrevDir"
  <2>2. pc \in MkSteps /\ \E x : c = [call EXCEPT !.strayed = x]
    BY <1>4 DEF LeaveExisting, MkSteps
  <2>3. pc' = AfterMkdir(r, c).pc /\ CWD(Way, ok, AfterMkdir(r, c).call)
    BY <2>1 DEF Goes
  <2> HIDE DEF c, r
  <2> QED
    BY <1>3, <2>2, <2>3
<1>5. CASE MakeOne
  <2>1. PICK ok \in BOOLEAN :
          LET n == AfterMkdir(IF ok THEN "ok" ELSE "mkdFailed", call)
          IN MKD(Bare, ok, n.call) /\ Goes(n)
    BY <1>5 DEF MakeOne
  <2> DEFINE r == IF ok THEN "ok" ELSE "mkdFailed"
  <2>2. pc \in MkSteps
    BY <1>5 DEF MakeOne, MkSteps
  <2>3. pc' = AfterMkdir(r, call).pc /\ MKD(Bare, ok, AfterMkdir(r, call).call)
    BY <2>1 DEF Goes
  <2> HIDE DEF r
  <2> QED
    BY <1>3, <2>2, <2>3
<1>6. CASE GoBack
  <2>1. PICK ok \in BOOLEAN :
          LET n == AfterMkdir(IF call.result = "ok" /\ ~ok THEN "cannotGoToPrevDir"
                              ELSE call.result, [call EXCEPT !.strayed = @ \/ ~ok])
          IN CWD(Way, ok, n.call) /\ Goes(n)
    BY <1>6 DEF GoBack
  <2> DEFINE c == [call EXCEPT !.strayed = @ \/ ~ok]
             r == IF call.result = "ok" /\ ~ok THEN "cannotGoToPrevDir" ELSE call.result
  <2>2. pc \in MkSteps /\ \E x : c = [call EXCEPT !.strayed = x]
    BY <1>6 DEF GoBack, MkSteps
  <2>3. pc' = AfterMkdir(r, c).pc /\ CWD(Way, ok, AfterMkdir(r, c).call)
    BY <2>1 DEF Goes
  <2> HIDE DEF c, r
  <2> QED
    BY <1>3, <2>2, <2>3
<1> QED
  BY <1>1, <1>2, <1>4, <1>5, <1>6

LEMMA FindParentPart ==
  ASSUME CallInv, PartInv, FindParent
  PROVE  PartInv'
<1>1. PICK ok \in BOOLEAN :
        LET n == IF ok THEN To("mkDo", [call EXCEPT !.base = call.k, !.k = @ + 1])
                 ELSE FromParent(call.k - 1, call)
        IN CWD(First(call.k), ok, n.call) /\ Goes(n)
  BY DEF FindParent
<1> DEFINE n == IF ok THEN To("mkDo", [call EXCEPT !.base = call.k, !.k = @ + 1])
                ELSE FromParent(call.k - 1, call)
           k == call.k
           b == BareLen(call.path)
<1>2. pc = "mkUp" /\ pc \in MkSteps /\ pc' = n.pc /\ CWD(First(k), ok, n.call)
  BY <1>1 DEF FindParent, MkSteps, Goes
<1>3. IsCall(call) /\ PartOK("mkUp", call) /\ Makes(call) /\ b \in 1..Len(call.path)
      /\ Len(call.path) \in Nat
  BY <1>2, InMkdir
<1>4. k \in 1..Len(call.path) /\ k < b
  BY <1>3 DEF PartOK
<1>5. CASE ok
  <2>1. n = To("mkDo", [call EXCEPT !.base = k, !.k = k + 1])
    BY <1>5
  <2> HIDE DEF n, k, b
  <2> DEFINE d == n.call
  <2>2. n.pc = "mkDo" /\ d = [call EXCEPT !.base = k, !.k = k + 1]
    BY <2>1 DEF To
  <2> HIDE DEF d
  <2>3. /\ IsCall(d) /\ d.name = call.name /\ d.path = call.path /\ d.flags = call.flags
        /\ d.base = k /\ d.k = k + 1
    BY <1>3, <2>2 DEF IsCall, Fields
  <2>4. k \in 0..Len(call.path) /\ k + 1 \in 0..Len(call.path) /\ k < k + 1 /\ k + 1 <= b
    BY <1>3, <1>4
  <2>5. PartOK("mkDo", d)
    BY <1>3, <2>3, <2>4 DEF PartOK, Makes, b
  <2> QED
    BY <1>2, <2>2, <2>3, <2>5, CommandPart DEF d
<1>6. CASE ~ok
  <2>1. n = FromParent(k - 1, call)
    BY <1>6
  <2> HIDE DEF n
  <2> DEFINE j == k - 1
  <2>2. j \in Nat /\ j < b
    BY <1>3, <1>4
  <2> HIDE DEF k
  <2>3. n = FromParent(j, call)
    BY <2>1
  <2> HIDE DEF j
  <2>4. IsCall(n.call) /\ PartOK(n.pc, n.call)
    BY <1>2, <1>3, <2>2, <2>3, FromParentPart
  <2> QED
    BY <1>2, <2>4, CommandPart
<1> QED
  BY <1>5, <1>6

LEMMA MakeNextPart ==
  ASSUME CallInv, PartInv, MakeNext
  PROVE  PartInv'
<1>1. PICK ok \in BOOLEAN :
        LET n == IF ok /\ MoreToMake THEN To("mkDo", [call EXCEPT !.k = @ + 1])
                 ELSE To("mkBack", [call EXCEPT !.result = IF ok THEN "ok" ELSE "mkdFailed"])
        IN MKD(SubSeq(Bare, call.base + 1, call.k), ok, n.call) /\ Goes(n)
  BY DEF MakeNext
<1> DEFINE r == IF ok THEN "ok" ELSE "mkdFailed"
           n == IF ok /\ MoreToMake THEN To("mkDo", [call EXCEPT !.k = @ + 1])
                ELSE To("mkBack", [call EXCEPT !.result = r])
           k == call.k
           b == BareLen(call.path)
           d == n.call
<1>2. pc = "mkDo" /\ pc \in MkSteps /\ pc' = n.pc /\ \E path : MKD(path, ok, d)
  BY <1>1 DEF MakeNext, MkSteps, Goes
<1>3. IsCall(call) /\ PartOK("mkDo", call) /\ Makes(call) /\ b \in 1..Len(call.path)
      /\ Len(call.path) \in Nat /\ Len(Bare) = b /\ k \in 0..Len(call.path)
  BY <1>2, InMkdir
<1>4. call.base < k /\ call.base \in 0..Len(call.path)
  BY <1>3 DEF PartOK
<1>5. \/ MoreToMake /\ n.pc = "mkDo" /\ d = [call EXCEPT !.k = k + 1]
      \/ n.pc = "mkBack" /\ d = [call EXCEPT !.result = r]
  BY DEF To
<1> HIDE DEF n, d, r
<1>6. CASE MoreToMake /\ n.pc = "mkDo" /\ d = [call EXCEPT !.k = k + 1]
  <2>1. k < b
    BY <1>3, <1>6 DEF MoreToMake
  <2> HIDE DEF k, b
  <2>2. /\ IsCall(d) /\ d.name = call.name /\ d.path = call.path /\ d.flags = call.flags
        /\ d.base = call.base /\ d.k = k + 1
    BY <1>3, <1>6 DEF IsCall, Fields
  <2>3. k + 1 \in 0..Len(call.path) /\ call.base < k + 1 /\ k + 1 <= b
    BY <1>3, <1>4, <2>1
  <2>4. PartOK("mkDo", d)
    BY <1>3, <2>2, <2>3 DEF PartOK, Makes, b
  <2> QED
    BY <1>2, <1>6, <2>2, <2>4, CommandPart
<1>7. CASE n.pc = "mkBack" /\ d = [call EXCEPT !.result = r]
  <2>1. /\ IsCall(d) /\ d.name = call.name /\ d.path = call.path /\ d.flags = call.flags
        /\ d.base = call.base /\ d.k = k
    BY <1>3, <1>7 DEF IsCall, Fields
  <2>2. PartOK("mkBack", d)
    BY <1>3, <2>1, PartStays DEF MkSteps
  <2> QED
    BY <1>2, <1>7, <2>1, <2>2, CommandPart
<1> QED
  BY <1>5, <1>6, <1>7

LEMMA TypeStepsPart ==
  ASSUME CallInv, CallInv', PartInv, TypeSteps
  PROVE  PartInv'
<1>1. /\ call'.name = call.name /\ call'.path = call.path /\ call'.flags = call.flags
      /\ call'.k = call.k /\ call'.base = call.base /\ call.name \in {"filetype", "rmdir"}
  BY TypeStepsNamed DEF Named, Kept
<1>2. pc' \notin MkSteps
  BY <1>1 DEF CallInv, Good, PlaceOK, MkSteps
<1> QED
  BY <1>1, <1>2 DEF PartInv, PartOK, Makes, MkSteps

LEMMA ApplicationPart ==
  ASSUME CallInv, PartInv, Application
  PROVE  PartInv'
<1>1. ASSUME NEW name, NEW path, NEW flags, NEW recurse, NEW cur,
             Begins(name, path, flags, recurse, cur), pc' \notin {"mkUp", "mkDo"},
             path \in Paths \/ path = <<Nothing>>,
             name = "mkdir" \/ "mkd" \in flags => path \in Paths /\ Names(path),
             pc' \in MkSteps => name = "mkdir"
      PROVE  PartInv'
  <2>1. call' = [NoCall EXCEPT !.name = name, !.path = path, !.flags = flags,
                               !.at = IF name = "chdir3" THEN "full" ELSE "simple",
                               !.recurse = recurse, !.cur = cur, !.from = srv.cwd,
                               !.k = 1, !.seen = srv.dirs]
    BY <1>1 DEF Begins
  <2>2. call'.name = name /\ call'.path = path /\ call'.flags = flags /\ call'.k = 1 /\ call'.base = 0
    BY <2>1 DEF NoCall
  <2>3. 1 \in 0..Len(path) /\ 0 \in 0..Len(path)
    <3>1. CASE path \in Paths
      <4>1. Len(path) \in Nat /\ Len(path) >= 1
        BY <3>1, PathsArePaths, PathLen
      <4> QED
        BY <4>1
    <3>2. CASE path = <<Nothing>>
      <4>1. Len(path) = 1
        BY <3>2
      <4> QED
        BY <4>1
    <3> QED
      BY <1>1, <3>1, <3>2
  <2> QED
    BY <1>1, <2>2, <2>3 DEF PartInv, PartOK, Makes
<1>2. CASE FTPGetCWD
  BY <1>1, <1>2 DEF FTPGetCWD, MkSteps, Nothing
<1>3. ASSUME NEW path \in Paths, FTPChdir(path) \/ FTPChdirAndGetCWD(path)
      PROVE  PartInv'
  BY <1>1, <1>3 DEF FTPChdir, FTPChdirAndGetCWD, MkSteps
<1>4. ASSUME NEW path \in Paths, FTPFileType(path)
      PROVE  PartInv'
  BY <1>1, <1>4 DEF FTPFileType, MkSteps
<1>5. ASSUME NEW path \in Paths, NEW flags, FTPChdir3(path, flags)
      PROVE  PartInv'
  BY <1>1, <1>5 DEF FTPChdir3, MkSteps
<1>6. ASSUME NEW path \in Paths, NEW recurse, FTPRmdir(path, recurse)
      PROVE  PartInv'
  BY <1>1, <1>6 DEF FTPRmdir, MkSteps
<1>7. ASSUME NEW path \in Paths, NEW recurse, NEW cur, FTPMkdir2(path, recurse, cur)
      PROVE  PartInv'
  BY <1>1, <1>7 DEF FTPMkdir2, MkSteps
<1> QED
  BY <1>2, <1>3, <1>4, <1>5, <1>6, <1>7 DEF Application

LEMMA MeddleSame ==
  ASSUME CallInv, Meddle
  PROVE  Same(call', call) /\ pc' = pc /\ cip' = cip /\ srv'.cwd = srv.cwd
<1>1. /\ pc' = pc /\ cip' = cip /\ srv'.cwd = srv.cwd
      /\ call' = [call EXCEPT !.meddled = TRUE, !.seen = @ \cup srv'.dirs]
  BY DEF Meddle, CallInv, CacheInv, Shape
<1>2. IsCall(call)
  BY CallIs
<1> DEFINE s == call.seen \cup srv'.dirs
<1>3. call' = [call EXCEPT !.meddled = TRUE, !.seen = s]
  BY <1>1
<1> HIDE DEF s
<1> QED
  BY <1>1, <1>2, <1>3 DEF Same, IsCall, Fields

LEMMA InitPart == ASSUME Init PROVE PartInv
<1>1. pc = "idle" /\ call.name = "chdir" /\ call.path = <<Nothing>> /\ call.flags = {}
      /\ call.k = 0 /\ call.base = 0
  BY DEF Init, NoCall, Nothing
<1>2. Len(<<Nothing>>) = 1 /\ 0 \in 0..1
  OBVIOUS
<1> QED
  BY <1>1, <1>2 DEF PartInv, PartOK, Makes, MkSteps

LEMMA StepPart == ASSUME CallInv, CallInv', PartInv, [Next]_vars PROVE PartInv'
<1>1. CASE Nowhere \/ ChangeDir \/ AskPWD \/ Split \/ MakeStep
  BY <1>1, ChdirPart, SplitPart, MakeStepPart
<1>2. CASE \/ NotePlace \/ TryExisting \/ LeaveExisting \/ MakeOne
           \/ FindParent \/ MakeNext \/ GoBack
  BY <1>2, MkdirPart, FindParentPart, MakeNextPart
<1>3. CASE TypeSteps
  BY <1>3, TypeStepsPart
<1>4. CASE Application
  BY <1>4, ApplicationPart
<1>5. CASE Meddle
  BY <1>5, MeddleSame, PartConcludes DEF PartInv
<1>6. CASE UNCHANGED vars
  BY <1>6 DEF vars, PartInv
<1> QED
  BY <1>1, <1>2, <1>3, <1>4, <1>5, <1>6 DEF Next, Library, TypeSteps

-----------------------------------------------------------------------------
(* The state is well formed.                                                *)

CipOK(s) ==
  /\ s.start \in StrOf(Strings) /\ s.buf \in StrOf(Strings)
  /\ s.hasMLST \in BOOLEAN /\ s.stat \in Known3 /\ s.nlst \in Known3
CallOK(c) ==
  IsCall(c) /\ c.name \in Calls /\ c.report \in StrOf(Strings) /\ c.saved \in StrOf(Strings)
TypeInv == srv.mlst \in BOOLEAN /\ CipOK(cip) /\ CallOK(call)

\* What is printed of a directory, and the first piece of a path.
LEMMA Sayings ==
  /\ {} \in StrOf(Strings)
  /\ \A d \in Dirs : {PathOf(d)} \in StrOf(Strings)
  /\ \A path \in Paths : {<<path[1]>>} \in StrOf(Strings)
<1>1. \A x \in Strings : {x} \in StrOf(Strings)
  BY DEF StrOf
<1>2. {} \in StrOf(Strings)
  BY DEF StrOf
<1>3. \A d \in Dirs : PathOf(d) \in Strings
  BY DEF Strings
<1>4. ASSUME NEW path \in Paths
      PROVE  <<path[1]>> \in Strings
  <2>1. path \in Seq(STRING) /\ Len(path) \in Nat /\ Len(path) >= 1 /\ 1 \in 1..Len(path)
    BY PathsArePaths, PathLen
  <2>2. SubSeq(path, 0 + 1, 1) = <<path[1]>>
    <3> DEFINE q == SubSeq(path, 0 + 1, 1)
    <3>1. 0 \in 0..Len(path) /\ 1 \in 0..Len(path) /\ 1 - 0 = 1
      BY <2>1
    <3>2. q \in Seq(STRING) /\ Len(q) = 1 - 0 /\ \A i \in 1..(1 - 0) : q[i] = path[0 + i]
      BY <2>1, <3>1, PartOf
    <3> HIDE DEF q
    <3>3. q[1] = path[1] /\ path[1] \in STRING /\ Len(q) = 1
      <4>1. 1 \in 1..(1 - 0) /\ 0 + 1 = 1
        OBVIOUS
      <4> QED
        BY <2>1, <3>2, <4>1, ElementOfSeq
    <3> DEFINE t == path[1]
    <3>4. <<t>> \in Seq(STRING) /\ Len(<<t>>) = 1 /\ <<t>>[1] = t
      BY <3>3
    <3>5. \A i \in 1..1 : q[i] = <<t>>[i]
      BY <3>3, <3>4
    <3> HIDE DEF t
    <3>6. q = <<t>>
      BY <3>2, <3>3, <3>4, <3>5, SeqEqual
    <3> QED
      BY <3>6 DEF q, t
  <2>3. <<path[1]>> \in PiecesOf(path)
    BY <2>1, <2>2 DEF PiecesOf
  <2> QED
    BY <2>3 DEF Strings
<1> QED
  BY <1>1, <1>2, <1>3, <1>4

\* What FTPGetCWD returns.
LEMMA GotIs ==
  ASSUME CacheInv, DirsOK, NEW ok \in BOOLEAN, NEW got, NEW c, GetCWD(ok, got, c)
  PROVE  got \in StrOf(Strings)
<1>1. got = {} \/ got = {PathOf(srv.cwd)}
  BY DEF GetCWD, CacheInv, CacheCoherent
<1> QED
  BY <1>1, Sayings DEF DirsOK

\* What the steps do to a call, apart from what it reports and saves.
LEMMA StillOK ==
  ASSUME NEW c, CallOK(c), NEW d, IsCall(d),
         d.name = c.name, d.report = c.report, d.saved = c.saved
  PROVE  CallOK(d)
BY DEF CallOK

LEMMA AfterCdOK ==
  ASSUME NEW c, CallOK(c), NEW ok \in BOOLEAN,
         call.at \in {"simple", "full", "again", "one", "oneMade"}
  PROVE  CallOK(AfterCd(ok, c).call)
<1> DEFINE n == AfterCd(ok, c)
           d == n.call
<1>1. \/ d = [c EXCEPT !.result = "ok"]
      \/ d = [c EXCEPT !.result = "failed"]
      \/ d = [c EXCEPT !.at = "one", !.k = @ + 1]
      \/ d = c
  <2>1. CASE call.at = "simple"
    BY <2>1 DEF AfterCd, End
  <2>2. CASE call.at = "full"
    BY <2>2 DEF AfterCd, End, To
  <2>3. CASE call.at = "again"
    BY <2>3 DEF AfterCd, End, To
  <2>4. CASE call.at = "one"
    BY <2>4 DEF AfterCd, End, To
  <2>5. CASE call.at = "oneMade"
    BY <2>5 DEF AfterCd, End, To
  <2> QED
    BY <2>1, <2>2, <2>3, <2>4, <2>5
<1> HIDE DEF n, d
<1>2. IsCall(d) /\ d.name = c.name /\ d.report = c.report /\ d.saved = c.saved
  BY <1>1 DEF CallOK, IsCall, Fields
<1>3. CallOK(d)
  BY <1>2, StillOK
<1> QED
  BY <1>3 DEF n, d

LEMMA AfterMkdirOK ==
  ASSUME NEW c, CallOK(c), NEW result
  PROVE  CallOK(AfterMkdir(result, c).call)
<1> DEFINE d == AfterMkdir(result, c).call
<1>1. \/ d = [c EXCEPT !.result = result] \/ d = [c EXCEPT !.result = "failed"]
      \/ d = [c EXCEPT !.at = "again"] \/ d = c
  BY DEF AfterMkdir, End, To
<1> HIDE DEF d
<1>2. IsCall(d) /\ d.name = c.name /\ d.report = c.report /\ d.saved = c.saved
  BY <1>1 DEF CallOK, IsCall, Fields
<1>3. CallOK(d)
  BY <1>2, StillOK
<1> QED
  BY <1>3 DEF d

LEMMA FromParentOK ==
  ASSUME CallOK(call), NEW k
  PROVE  CallOK(FromParent(k, call).call)
<1> DEFINE d == FromParent(k, call).call
<1>1. \/ d = [call EXCEPT !.base = 0, !.k = 1] \/ d = [call EXCEPT !.k = k]
      \/ d = AfterMkdir("mkdFailed", call).call
  BY DEF FromParent, To
<1> HIDE DEF d
<1>2. CASE d = [call EXCEPT !.base = 0, !.k = 1] \/ d = [call EXCEPT !.k = k]
  <2>1. IsCall(d) /\ d.name = call.name /\ d.report = call.report /\ d.saved = call.saved
    BY <1>2 DEF CallOK, IsCall, Fields
  <2> QED
    BY <2>1, StillOK DEF d
<1>3. CASE d = AfterMkdir("mkdFailed", call).call
  BY <1>3, AfterMkdirOK DEF d
<1> QED
  BY <1>1, <1>2, <1>3

LEMMA AfterTypeOK ==
  ASSUME NEW c, CallOK(c), NEW r
  PROVE  CallOK(AfterType(r, c).call)
<1> DEFINE d == AfterType(r, c).call
<1>1. d = c \/ \E x : d = [c EXCEPT !.result = x]
  BY DEF AfterType, End, To
<1> HIDE DEF d
<1>2. IsCall(d) /\ d.name = c.name /\ d.report = c.report /\ d.saved = c.saved
  BY <1>1 DEF CallOK, IsCall, Fields
<1>3. CallOK(d)
  BY <1>2, StillOK
<1> QED
  BY <1>3 DEF d

LEMMA NextProbeOK ==
  ASSUME NEW c, CallOK(c)
  PROVE  CallOK(NextProbe(c).call)
<1>1. CASE c.probe = "stat"
  <2> DEFINE d == NextProbe(c).call
  <2>1. d = [c EXCEPT !.probe = "nlst"]
    BY <1>1 DEF NextProbe, To
  <2> HIDE DEF d
  <2>2. IsCall(d) /\ d.name = c.name /\ d.report = c.report /\ d.saved = c.saved
    BY <2>1 DEF CallOK, IsCall, Fields
  <2>3. CallOK(d)
    BY <2>2, StillOK
  <2> QED
    BY <2>3 DEF d
<1>2. CASE c.probe # "stat"
  BY <1>2, AfterTypeOK DEF NextProbe
<1> QED
  BY <1>1, <1>2

\* The commands keep all this, and what the server knows.
LEMMA CommandOK ==
  ASSUME CacheInv, srv.mlst \in BOOLEAN, NEW c, CallOK(c),
         \/ \E path, ok : CWD(path, ok, c) \/ MKD(path, ok, c) \/ RMD(path, ok, c)
         \/ Unasked(c)
         \/ \E got : \E ok \in BOOLEAN : GetCWD(ok, got, c)
  PROVE  CallOK(call') /\ srv'.mlst \in BOOLEAN
<1>1. CASE \/ \E path, ok : CWD(path, ok, c) \/ MKD(path, ok, c) \/ RMD(path, ok, c)
           \/ Unasked(c)
  <2>1. Same(call', c)
    BY <1>1, CommandSame DEF CallOK
  <2>2. CallOK(call')
    BY <2>1, StillOK DEF Same, Fields
  <2>3. srv'.mlst = srv.mlst
    BY <1>1 DEF CWD, MKD, RMD, Unasked, Denied, CacheInv, Shape
  <2> QED
    BY <2>2, <2>3
<1>2. CASE \E got : \E ok \in BOOLEAN : GetCWD(ok, got, c)
  <2>1. call' = c \/ call' = [[c EXCEPT !.noPWD = TRUE] EXCEPT !.denied = TRUE]
    BY <1>2 DEF GetCWD, Unasked, Denied
  <2>2. IsCall(call') /\ call'.name = c.name /\ call'.report = c.report /\ call'.saved = c.saved
    BY <2>1 DEF CallOK, IsCall, Fields
  <2>3. srv' = srv
    BY <1>2 DEF GetCWD, Unasked, Denied
  <2> QED
    BY <2>2, <2>3, StillOK
<1> QED
  BY <1>1, <1>2

\* What is written to the structure.
LEMMA MovedCip ==
  ASSUME CacheInv, CipOK(cip), NEW ok \in BOOLEAN, NEW x
  PROVE  /\ CipOK(Moved(cip, ok)) /\ CipOK([cip EXCEPT !.cwd = x])
         /\ CipOK([Moved(cip, ok) EXCEPT !.cwd = x])
         /\ CipOK([cip EXCEPT !.hasMLST = FALSE])
BY DEF CacheInv, Shape, CipOK, Moved

LEMMA LearntCip ==
  ASSUME CacheInv, CipOK(cip), NEW ok \in BOOLEAN, NEW works \in {"yes", "no"}
  PROVE  CipOK(Learnt(cip, works)) /\ CipOK(Learnt(Moved(cip, ok), works))
<1>1. CipOK(Learnt(cip, works))
  BY DEF CacheInv, Shape, CipOK, Learnt, Known3
<1>2. CipOK(Learnt(Moved(cip, ok), works))
  BY DEF CacheInv, Shape, CipOK, Learnt, Known3, Moved
<1> QED
  BY <1>1, <1>2

LEMMA BufCip ==
  ASSUME CacheInv, CipOK(cip), NEW b \in StrOf(Strings), NEW x
  PROVE  CipOK([cip EXCEPT !.buf = b]) /\ CipOK([cip EXCEPT !.cwd = x, !.buf = b])
BY DEF CacheInv, Shape, CipOK

\* What FTPGetCWD writes to the cache, and to cip->buf.
LEMMA NotedCip ==
  ASSUME CacheInv, DirsOK, CipOK(cip), NEW ok \in BOOLEAN, NEW got, NEW c, GetCWD(ok, got, c),
         cip' = [cip EXCEPT !.cwd = got, !.buf = IF ok THEN got ELSE @]
  PROVE  CipOK(cip')
<1> DEFINE b == IF ok THEN got ELSE cip.buf
<1>1. b \in StrOf(Strings)
  BY GotIs DEF CipOK
<1>2. cip' = [cip EXCEPT !.cwd = got, !.buf = b]
  BY DEF CacheInv, Shape
<1> HIDE DEF b
<1>3. CipOK([cip EXCEPT !.cwd = got, !.buf = b])
  BY <1>1, BufCip
<1> QED
  BY <1>2, <1>3

LEMMA TypeConcludes ==
  ASSUME CallInv, TypeInv, CipOK(cip'), NEW c, CallOK(c),
         \/ \E path, ok : CWD(path, ok, c) \/ MKD(path, ok, c) \/ RMD(path, ok, c)
         \/ Unasked(c)
         \/ \E got : \E ok \in BOOLEAN : GetCWD(ok, got, c)
  PROVE  TypeInv'
BY CommandOK, CallIs DEF TypeInv

\* A change to what a call has reported or saved.
LEMMA SaidOK ==
  ASSUME NEW c, CallOK(c), NEW x \in StrOf(Strings)
  PROVE  CallOK([c EXCEPT !.report = x]) /\ CallOK([c EXCEPT !.saved = x])
BY DEF CallOK, IsCall, Fields

LEMMA MarkedOK ==
  ASSUME NEW c, CallOK(c), NEW x
  PROVE  /\ CallOK([c EXCEPT !.strayed = x]) /\ CallOK([c EXCEPT !.result = x])
         /\ CallOK([c EXCEPT !.at = x]) /\ CallOK([c EXCEPT !.k = x])
BY DEF CallOK, IsCall, Fields

LEMMA ChdirType ==
  ASSUME CallInv, TypeInv, DirsOK', Nowhere \/ ChangeDir \/ AskPWD
  PROVE  TypeInv'
<1>1. /\ CallOK(call) /\ CipOK(cip) /\ CacheInv /\ DirsOK
      /\ call.at \in {"simple", "full", "again", "one", "oneMade"}
  BY CallIs DEF TypeInv
<1>2. CASE Nowhere
  <2> DEFINE n == IF WithPWD THEN To("cdPwd", call) ELSE AfterCd(TRUE, call)
  <2>1. Unasked(n.call) /\ cip' = cip
    BY <1>2 DEF Nowhere
  <2>2. CallOK(n.call)
    BY <1>1, AfterCdOK DEF To
  <2> HIDE DEF n
  <2> QED
    BY <1>1, <2>1, <2>2, TypeConcludes
<1>3. CASE ChangeDir
  <2>1. PICK ok \in BOOLEAN, quoted \in BOOLEAN :
          LET named == ok /\ quoted /\ WithPWD
              at == {PathOf(Target(Step))}
              n == IF ok /\ WithPWD /\ ~quoted THEN To("cdPwd", call)
                   ELSE AfterCd(ok, IF named THEN [call EXCEPT !.report = at] ELSE call)
          IN /\ CWD(Step, ok, n.call)
             /\ cip' = IF named THEN [Moved(cip, ok) EXCEPT !.cwd = at] ELSE Moved(cip, ok)
    BY <1>3 DEF ChangeDir
  <2> DEFINE at == {PathOf(Target(Step))}
             c == IF ok /\ quoted /\ WithPWD THEN [call EXCEPT !.report = at] ELSE call
             n == IF ok /\ WithPWD /\ ~quoted THEN To("cdPwd", call) ELSE AfterCd(ok, c)
  <2>2. /\ CWD(Step, ok, n.call)
        /\ cip' = Moved(cip, ok) \/ cip' = [Moved(cip, ok) EXCEPT !.cwd = at]
    BY <2>1
  <2>3. CipOK(cip')
    <3> HIDE DEF at
    <3>1. CASE cip' = Moved(cip, ok)
      BY <1>1, <3>1, MovedCip
    <3>2. CASE cip' = [Moved(cip, ok) EXCEPT !.cwd = at]
      BY <1>1, <3>2, MovedCip
    <3> QED
      BY <2>2, <3>1, <3>2
  <2>4. CallOK(c)
    <3>1. CASE ok /\ quoted /\ WithPWD
      <4>1. Step # <<"">>
        BY <1>3, <3>1 DEF ChangeDir
      <4>2. srv'.cwd = Target(Step)
        BY <1>1, <2>2, <3>1, <4>1 DEF CWD, CacheInv, Shape
      <4>3. at \in StrOf(Strings)
        BY <4>2, Sayings DEF DirsOK
      <4>4. c = [call EXCEPT !.report = at]
        BY <3>1
      <4> HIDE DEF at, c
      <4> QED
        BY <1>1, <4>3, <4>4, SaidOK
    <3>2. CASE ~(ok /\ quoted /\ WithPWD)
      BY <1>1, <3>2
    <3> QED
      BY <3>1, <3>2
  <2> HIDE DEF c
  <2>5. CallOK(n.call)
    <3>1. n.call = call \/ n.call = AfterCd(ok, c).call
      BY DEF To
    <3> HIDE DEF n
    <3> QED
      BY <1>1, <2>4, <3>1, AfterCdOK
  <2> HIDE DEF n
  <2> QED
    BY <2>2, <2>3, <2>5, TypeConcludes
<1>4. CASE AskPWD
  <2>1. PICK ok \in BOOLEAN, got \in {{}, cip.cwd, {PathOf(srv.cwd)}} :
          LET n == AfterCd(ok, [call EXCEPT !.report = got]) IN
          GetCWD(ok, got, n.call) /\ cip' = [cip EXCEPT !.cwd = got]
    BY <1>4 DEF AskPWD
  <2> DEFINE c == [call EXCEPT !.report = got]
             n == AfterCd(ok, c)
  <2>2. GetCWD(ok, got, n.call) /\ cip' = [cip EXCEPT !.cwd = got]
    BY <2>1
  <2> HIDE DEF n
  <2>3. got \in StrOf(Strings)
    BY <1>1, <2>2, GotIs
  <2>4. CallOK(c)
    BY <1>1, <2>3, SaidOK
  <2> HIDE DEF c
  <2>5. CallOK(n.call)
    BY <1>1, <2>4, AfterCdOK DEF n
  <2>6. CipOK(cip')
    BY <1>1, <2>2, MovedCip
  <2> QED
    BY <2>2, <2>5, <2>6, TypeConcludes
<1> QED
  BY <1>2, <1>3, <1>4

LEMMA SplitType ==
  ASSUME CallInv, PartInv, TypeInv, Split
  PROVE  TypeInv'
<1> DEFINE c == [call EXCEPT !.at = "one", !.k = 1]
           n == IF call.path # <<"">> THEN To("cd", c)
                ELSE IF "pwd" \in call.flags THEN To("cdPwd", c) ELSE End("ok", c)
           d == n.call
           b == IF call.path[1] = "" THEN {} ELSE {<<call.path[1]>>}
<1>1. Unasked(d) /\ cip' = [cip EXCEPT !.buf = b]
  BY DEF Split
<1>2. CallOK(call) /\ CipOK(cip) /\ CacheInv
  BY CallIs DEF TypeInv
<1>3. CallOK(c)
  <2>1. IsCall(c) /\ c.name = call.name /\ c.report = call.report /\ c.saved = call.saved
    BY <1>2 DEF CallOK, IsCall, Fields
  <2> HIDE DEF c
  <2> QED
    BY <1>2, <2>1, StillOK
<1>4. d = c \/ d = [c EXCEPT !.result = "ok"]
  BY DEF To, End
<1> HIDE DEF c, n, d
<1>5. CallOK(d)
  <2>1. CASE d = c
    BY <1>3, <2>1
  <2>2. CASE d = [c EXCEPT !.result = "ok"]
    BY <1>3, <2>2, MarkedOK
  <2> QED
    BY <1>4, <2>1, <2>2
<1>6. b \in StrOf(Strings)
  <2>1. call.path \in Paths \/ call.path = <<Nothing>>
    BY DEF PartInv, PartOK
  <2>2. call.path = <<Nothing>> => call.path[1] = ""
    <3>1. <<Nothing>>[1] = Nothing
      OBVIOUS
    <3>2. Nothing = ""
      BY DEF Nothing
    <3> QED
      BY <3>1, <3>2
  <2> QED
    BY <2>1, <2>2, Sayings
<1> HIDE DEF b
<1>7. CipOK(cip')
  BY <1>1, <1>2, <1>6, BufCip
<1> QED
  BY <1>1, <1>5, <1>7, TypeConcludes DEF d

LEMMA MakeStepType ==
  ASSUME CallInv, TypeInv, MakeStep
  PROVE  TypeInv'
<1>1. PICK ok \in BOOLEAN :
        LET n == IF ok THEN To("cd", [call EXCEPT !.at = "oneMade"]) ELSE End("failed", call)
        IN MKD(<<Token>>, ok, n.call) /\ Goes(n)
  BY DEF MakeStep
<1> DEFINE n == IF ok THEN To("cd", [call EXCEPT !.at = "oneMade"]) ELSE End("failed", call)
           d == n.call
<1>2. MKD(<<Token>>, ok, d) /\ cip' = cip
  BY <1>1 DEF MakeStep
<1>3. CallOK(call) /\ CipOK(cip)
  BY DEF TypeInv
<1>4. d = [call EXCEPT !.at = "oneMade"] \/ d = [call EXCEPT !.result = "failed"]
  BY DEF To, End
<1> HIDE DEF n, d
<1>5. CallOK(d)
  <2>1. CASE d = [call EXCEPT !.at = "oneMade"]
    BY <1>3, <2>1, MarkedOK
  <2>2. CASE d = [call EXCEPT !.result = "failed"]
    BY <1>3, <2>2, MarkedOK
  <2> QED
    BY <1>4, <2>1, <2>2
<1> QED
  BY <1>2, <1>3, <1>5, TypeConcludes

LEMMA NoteType ==
  ASSUME CallInv, TypeInv, NotePlace \/ NotePlaceForType \/ NotePlaceForRmdir
  PROVE  TypeInv'
<1>1. PICK ok \in BOOLEAN, got \in {{}, cip.cwd, {PathOf(srv.cwd)}} :
        /\ GetCWD(ok, got, call)
        /\ cip' = [cip EXCEPT !.cwd = got, !.buf = IF ok THEN got ELSE @]
  BY DEF NotePlace, NotePlaceForType, NotePlaceForRmdir
<1>2. CallOK(call) /\ CipOK(cip) /\ CacheInv /\ DirsOK
  BY CallIs DEF TypeInv
<1>3. CipOK(cip')
  BY <1>1, <1>2, NotedCip
<1> QED
  BY <1>1, <1>2, <1>3, TypeConcludes

LEMMA MkdirType ==
  ASSUME CallInv, TypeInv,
         TryExisting \/ LeaveExisting \/ MakeOne \/ FindParent \/ MakeNext \/ GoBack
  PROVE  TypeInv'
<1>1. CallOK(call) /\ CipOK(cip) /\ CacheInv
  BY CallIs DEF TypeInv
<1>2. ASSUME NEW c, CallOK(c), NEW ok \in BOOLEAN, NEW path,
             \/ CWD(path, ok, c) /\ cip' = Moved(cip, ok)
             \/ MKD(path, ok, c) /\ cip' = cip
      PROVE  TypeInv'
  <2>1. CipOK(cip')
    BY <1>1, <1>2, MovedCip
  <2> QED
    BY <1>2, <2>1, TypeConcludes
<1>3. CASE TryExisting
  <2>1. PICK ok \in BOOLEAN :
          LET n == IF ok THEN To("mkUndo", call)
                   ELSE IF ~Recursive \/ (Len(Bare) = 2 /\ Bare[1] = "") THEN To("mkOne", call)
                   ELSE FromParent(Len(Bare) - 1, call)
          IN CWD(call.path, ok, n.call) /\ cip' = Moved(cip, ok)
    BY <1>3 DEF TryExisting
  <2> DEFINE d == (IF ok THEN To("mkUndo", call)
                   ELSE IF ~Recursive \/ (Len(Bare) = 2 /\ Bare[1] = "") THEN To("mkOne", call)
                   ELSE FromParent(Len(Bare) - 1, call)).call
  <2>2. d = call \/ d = FromParent(Len(Bare) - 1, call).call
    BY DEF To
  <2>3. CWD(call.path, ok, d) /\ cip' = Moved(cip, ok)
    BY <2>1
  <2> HIDE DEF d
  <2>4. CallOK(d)
    BY <1>1, <2>2, FromParentOK
  <2> QED
    BY <1>2, <2>3, <2>4
<1>4. CASE LeaveExisting
  <2>1. PICK ok \in BOOLEAN :
          LET n == AfterMkdir(IF ok THEN "ok" ELSE "cannotGoToPrevDir",
                              [call EXCEPT !.strayed = @ \/ ~ok])
          IN CWD(Way, ok, n.call) /\ cip' = Moved(cip, ok)
    BY <1>4 DEF LeaveExisting
  <2> DEFINE c == [call EXCEPT !.strayed = @ \/ ~ok]
             r == IF ok THEN "ok" ELSE "cannotGoToPrevDir"
  <2>2. CallOK(c)
    BY <1>1, MarkedOK
  <2>3. CWD(Way, ok, AfterMkdir(r, c).call) /\ cip' = Moved(cip, ok)
    BY <2>1
  <2> HIDE DEF c, r
  <2>4. CallOK(AfterMkdir(r, c).call)
    BY <2>2, AfterMkdirOK
  <2> QED
    BY <1>2, <2>3, <2>4
<1>5. CASE MakeOne
  <2>1. PICK ok \in BOOLEAN :
          LET n == AfterMkdir(IF ok THEN "ok" ELSE "mkdFailed", call)
          IN MKD(Bare, ok, n.call)
    BY <1>5 DEF MakeOne
  <2> DEFINE r == IF ok THEN "ok" ELSE "mkdFailed"
  <2>2. MKD(Bare, ok, AfterMkdir(r, call).call) /\ cip' = cip
    BY <1>5, <2>1 DEF MakeOne
  <2> HIDE DEF r
  <2>3. CallOK(AfterMkdir(r, call).call)
    BY <1>1, AfterMkdirOK
  <2> QED
    BY <1>2, <2>2, <2>3
<1>6. CASE FindParent
  <2>1. PICK ok \in BOOLEAN :
          LET n == IF ok THEN To("mkDo", [call EXCEPT !.base = call.k, !.k = @ + 1])
                   ELSE FromParent(call.k - 1, call)
          IN CWD(First(call.k), ok, n.call) /\ cip' = Moved(cip, ok)
    BY <1>6 DEF FindParent
  <2> DEFINE d == (IF ok THEN To("mkDo", [call EXCEPT !.base = call.k, !.k = @ + 1])
                   ELSE FromParent(call.k - 1, call)).call
  <2>2. d = [call EXCEPT !.base = call.k, !.k = @ + 1] \/ d = FromParent(call.k - 1, call).call
    BY DEF To
  <2>3. CWD(First(call.k), ok, d) /\ cip' = Moved(cip, ok)
    BY <2>1
  <2> HIDE DEF d
  <2>4. CallOK(d)
    <3>1. CASE d = [call EXCEPT !.base = call.k, !.k = @ + 1]
      <4>1. IsCall(d) /\ d.name = call.name /\ d.report = call.report /\ d.saved = call.saved
        BY <1>1, <3>1 DEF CallOK, IsCall, Fields
      <4> QED
        BY <1>1, <4>1, StillOK
    <3>2. CASE d = FromParent(call.k - 1, call).call
      BY <1>1, <3>2, FromParentOK
    <3> QED
      BY <2>2, <3>1, <3>2
  <2> QED
    BY <1>2, <2>3, <2>4
<1>7. CASE MakeNext
  <2>1. PICK ok \in BOOLEAN :
          LET n == IF ok /\ MoreToMake THEN To("mkDo", [call EXCEPT !.k = @ + 1])
                   ELSE To("mkBack", [call EXCEPT !.result = IF ok THEN "ok" ELSE "mkdFailed"])
          IN MKD(SubSeq(Bare, call.base + 1, call.k), ok, n.call)
    BY <1>7 DEF MakeNext
  <2> DEFINE r == IF ok THEN "ok" ELSE "mkdFailed"
             j == call.k + 1
             d == (IF ok /\ MoreToMake THEN To("mkDo", [call EXCEPT !.k = @ + 1])
                   ELSE To("mkBack", [call EXCEPT !.result = r])).call
  <2>2. d = [call EXCEPT !.k = j] \/ d = [call EXCEPT !.result = r]
    BY DEF To
  <2>3. MKD(SubSeq(Bare, call.base + 1, call.k), ok, d) /\ cip' = cip
    BY <1>7, <2>1 DEF MakeNext
  <2> HIDE DEF d, r, j
  <2>4. CallOK(d)
    <3>1. CASE d = [call EXCEPT !.k = j]
      BY <1>1, <3>1, MarkedOK
    <3>2. CASE d = [call EXCEPT !.result = r]
      BY <1>1, <3>2, MarkedOK
    <3> QED
      BY <2>2, <3>1, <3>2
  <2> QED
    BY <1>2, <2>3, <2>4
<1>8. CASE GoBack
  <2>1. PICK ok \in BOOLEAN :
          LET n == AfterMkdir(IF call.result = "ok" /\ ~ok THEN "cannotGoToPrevDir"
                              ELSE call.result, [call EXCEPT !.strayed = @ \/ ~ok])
          IN CWD(Way, ok, n.call) /\ cip' = Moved(cip, ok)
    BY <1>8 DEF GoBack
  <2> DEFINE c == [call EXCEPT !.strayed = @ \/ ~ok]
             r == IF call.result = "ok" /\ ~ok THEN "cannotGoToPrevDir" ELSE call.result
  <2>2. CallOK(c)
    BY <1>1, MarkedOK
  <2>3. CWD(Way, ok, AfterMkdir(r, c).call) /\ cip' = Moved(cip, ok)
    BY <2>1
  <2> HIDE DEF c, r
  <2>4. CallOK(AfterMkdir(r, c).call)
    BY <2>2, AfterMkdirOK
  <2> QED
    BY <1>2, <2>3, <2>4
<1> QED
  BY <1>3, <1>4, <1>5, <1>6, <1>7, <1>8

LEMMA TypeStepsType ==
  ASSUME CallInv, TypeInv, TypeSteps
  PROVE  TypeInv'
<1>1. CallOK(call) /\ CipOK(cip) /\ CacheInv /\ DirsOK
  BY CallIs DEF TypeInv
<1>2. ASSUME NEW c, CallOK(c), NEW ok \in BOOLEAN, NEW path,
             \/ CWD(path, ok, c) /\ cip' \in {cip, Moved(cip, ok)}
             \/ RMD(path, ok, c) /\ cip' = cip
      PROVE  TypeInv'
  <2>1. CipOK(cip')
    BY <1>1, <1>2, MovedCip
  <2> QED
    BY <1>2, <2>1, TypeConcludes
<1>3. ASSUME NEW c, CallOK(c), Unasked(c), CipOK(cip')
      PROVE  TypeInv'
  BY <1>3, TypeConcludes
<1>4. (\A r : CallOK(AfterType(r, call).call)) /\ CallOK(NextProbe(call).call)
  BY <1>1, AfterTypeOK, NextProbeOK
<1>5. CASE AskMLST
  <2>1. \E c : CallOK(c) /\ Unasked(c)
    BY <1>1, <1>4, <1>5 DEF AskMLST, To
  <2>2. CipOK(cip')
    <3>1. cip' = cip \/ cip' = [cip EXCEPT !.hasMLST = FALSE]
      BY <1>5 DEF AskMLST
    <3>2. CipOK([cip EXCEPT !.hasMLST = FALSE])
      BY <1>1 DEF CipOK, CacheInv, Shape
    <3> QED
      BY <1>1, <3>1, <3>2
  <2> QED
    BY <1>3, <2>1, <2>2
<1>6. CASE NotePlaceForType \/ NotePlaceForRmdir
  BY <1>6, NoteType
<1>7. CASE TryToEnter
  BY <1>1, <1>2, <1>7 DEF TryToEnter
<1>8. CASE LeaveEntered
  <2>1. PICK ok \in BOOLEAN :
          /\ CWD(Way, ok, AfterType("dir", [call EXCEPT !.strayed = @ \/ ~ok]).call)
          /\ cip' = Moved(cip, ok)
    BY <1>8 DEF LeaveEntered
  <2>2. CallOK([call EXCEPT !.strayed = @ \/ ~ok])
    BY <1>1, MarkedOK
  <2>3. CallOK(AfterType("dir", [call EXCEPT !.strayed = @ \/ ~ok]).call)
    BY <2>2, AfterTypeOK
  <2> QED
    BY <1>2, <2>1, <2>3
<1>9. CASE ExistsAnswer
  <2>1. (\E c : CallOK(c) /\ Unasked(c)) /\ cip' = cip
    BY <1>4, <1>9 DEF ExistsAnswer
  <2> QED
    BY <1>1, <1>3, <2>1
<1>10. CASE Probe
  <2>1. CASE Unasked(NextProbe(call).call) /\ cip' = Learnt(cip, "no")
    <3>1. CipOK(Learnt(cip, "no"))
      BY <1>1, LearntCip
    <3> QED
      BY <1>3, <1>4, <2>1, <3>1
  <2>2. CASE \E ok \in BOOLEAN, got \in {{}, cip.cwd, {PathOf(srv.cwd)}} :
               LET n == IF ok THEN To("pbStart", [call EXCEPT !.saved = got]) ELSE NextProbe(call)
               IN GetCWD(ok, got, n.call) /\ cip' = [cip EXCEPT !.cwd = got]
    <3>1. PICK ok \in BOOLEAN, got \in {{}, cip.cwd, {PathOf(srv.cwd)}} :
            LET n == IF ok THEN To("pbStart", [call EXCEPT !.saved = got]) ELSE NextProbe(call)
            IN GetCWD(ok, got, n.call) /\ cip' = [cip EXCEPT !.cwd = got]
      BY <2>2
    <3> DEFINE d == (IF ok THEN To("pbStart", [call EXCEPT !.saved = got])
                     ELSE NextProbe(call)).call
    <3>2. GetCWD(ok, got, d) /\ cip' = [cip EXCEPT !.cwd = got]
      BY <3>1
    <3>3. d = [call EXCEPT !.saved = got] \/ d = NextProbe(call).call
      BY DEF To
    <3> HIDE DEF d
    <3>4. got \in StrOf(Strings)
      BY <1>1, <3>2, GotIs
    <3>5. CallOK([call EXCEPT !.saved = got])
      BY <1>1, <3>4, SaidOK
    <3>6. CallOK(d)
      BY <1>4, <3>3, <3>5
    <3>7. CipOK(cip')
      BY <1>1, <3>2, MovedCip
    <3> QED
      BY <3>2, <3>6, <3>7, TypeConcludes
  <2> QED
    BY <1>10, <2>1, <2>2 DEF Probe
<1>11. CASE SkipProbe
  BY <1>1, <1>3, <1>4, <1>11 DEF SkipProbe
<1>12. CASE ProbeKnown
  <2>1. (\E c : CallOK(c) /\ Unasked(c)) /\ cip' = cip
    BY <1>4, <1>12 DEF ProbeKnown
  <2> QED
    BY <1>1, <1>3, <2>1
<1>13. CASE ProbeStart
  <2>1. CASE Unasked(NextProbe(call).call) /\ cip' = cip
    BY <1>1, <1>3, <1>4, <2>1
  <2>2. CASE \E ok \in BOOLEAN :
               LET n == IF ok THEN To("pbBack", call) ELSE NextProbe(call)
               IN CWD(Str(cip.start), ok, n.call) /\ cip' = Moved(cip, ok)
    <3>1. PICK ok \in BOOLEAN :
            LET n == IF ok THEN To("pbBack", call) ELSE NextProbe(call)
            IN CWD(Str(cip.start), ok, n.call) /\ cip' = Moved(cip, ok)
      BY <2>2
    <3> DEFINE d == (IF ok THEN To("pbBack", call) ELSE NextProbe(call)).call
    <3>2. CWD(Str(cip.start), ok, d) /\ cip' = Moved(cip, ok)
      BY <3>1
    <3>3. d = call \/ d = NextProbe(call).call
      BY DEF To
    <3> HIDE DEF d
    <3> QED
      BY <1>1, <1>2, <1>4, <3>2, <3>3
  <2> QED
    BY <1>13, <2>1, <2>2 DEF ProbeStart
<1>14. CASE ProbeBack
  <2>1. PICK ok \in BOOLEAN, works \in {"yes", "no"}, result \in {"file", "noSuch"} :
          LET c == [call EXCEPT !.strayed = @ \/ ~ok]
              n == IF works = "yes" THEN AfterType(result, c) ELSE NextProbe(c)
          IN CWD(Str(call.saved), ok, n.call) /\ cip' = Learnt(Moved(cip, ok), works)
    BY <1>14 DEF ProbeBack
  <2> DEFINE c == [call EXCEPT !.strayed = @ \/ ~ok]
             d == (IF works = "yes" THEN AfterType(result, c) ELSE NextProbe(c)).call
  <2>2. CWD(Str(call.saved), ok, d) /\ cip' = Learnt(Moved(cip, ok), works)
    BY <2>1
  <2>3. CallOK(c)
    BY <1>1, MarkedOK
  <2> HIDE DEF c
  <2>4. CallOK(d)
    BY <2>3, AfterTypeOK, NextProbeOK
  <2> HIDE DEF d
  <2>5. CipOK(Learnt(Moved(cip, ok), works))
    BY <1>1, LearntCip
  <2> QED
    BY <2>2, <2>4, <2>5, TypeConcludes
<1>15. CASE RemoveDir
  <2>1. PICK ok \in BOOLEAN :
          LET n == IF ok THEN End("ok", call)
                   ELSE IF call.recurse THEN To("rmPwd", call) ELSE End("rmdFailed", call)
          IN RMD(call.path, ok, n.call)
    BY <1>15 DEF RemoveDir
  <2> DEFINE d == (IF ok THEN End("ok", call)
                   ELSE IF call.recurse THEN To("rmPwd", call) ELSE End("rmdFailed", call)).call
  <2>2. RMD(call.path, ok, d) /\ cip' = cip
    BY <1>15, <2>1 DEF RemoveDir
  <2>3. d = call \/ \E r : d = [call EXCEPT !.result = r]
    BY DEF To, End
  <2> HIDE DEF d
  <2>4. CallOK(d)
    <3>1. ASSUME NEW r, d = [call EXCEPT !.result = r]
          PROVE  CallOK(d)
      BY <1>1, <3>1, MarkedOK
    <3> QED
      BY <1>1, <2>3, <3>1
  <2> QED
    BY <1>2, <2>2, <2>4
<1>16. CASE EnterNoDir
  <2>1. CallOK([call EXCEPT !.result = "rmdFailed"])
    BY <1>1, MarkedOK
  <2>2. CWD(call.path, FALSE, [call EXCEPT !.result = "rmdFailed"]) /\ cip' = cip
    BY <1>16 DEF EnterNoDir, End
  <2> QED
    BY <1>2, <2>1, <2>2
<1> QED
  BY <1>5, <1>6, <1>7, <1>8, <1>9, <1>10, <1>11, <1>12, <1>13, <1>14, <1>15, <1>16 DEF TypeSteps

LEMMA ApplicationType ==
  ASSUME CallInv, TypeInv, Application
  PROVE  TypeInv'
<1>1. ASSUME NEW name \in Calls, NEW path, NEW flags, NEW recurse, NEW cur,
             Begins(name, path, flags, recurse, cur)
      PROVE  TypeInv'
  <2> DEFINE at == IF name = "chdir3" THEN "full" ELSE "simple"
  <2>1. call' = [NoCall EXCEPT !.name = name, !.path = path, !.flags = flags,
                               !.at = at,
                               !.recurse = recurse, !.cur = cur, !.from = srv.cwd,
                               !.k = 1, !.seen = srv.dirs]
        /\ srv' = srv /\ cip' = cip
    BY <1>1 DEF Begins
  <2> HIDE DEF at
  <2>2. call'.name = name /\ call'.report = {} /\ call'.saved = {}
    BY <2>1 DEF NoCall
  <2>3. IsCall(call')
    BY <2>1 DEF IsCall, NoCall, Fields
  <2> QED
    BY <2>1, <2>2, <2>3, Sayings DEF TypeInv, CallOK
<1> QED
  BY <1>1 DEF Application, FTPGetCWD, FTPChdir, FTPChdirAndGetCWD, FTPFileType, FTPChdir3,
     FTPRmdir, FTPMkdir2, Calls

LEMMA StepType ==
  ASSUME CallInv, CallInv', PartInv, TypeInv, [Next]_vars
  PROVE  TypeInv'
<1>0. DirsOK'
  BY DEF CallInv
<1>1. CASE Nowhere \/ ChangeDir \/ AskPWD \/ Split \/ MakeStep
  BY <1>0, <1>1, ChdirType, SplitType, MakeStepType
<1>2. CASE \/ NotePlace \/ TryExisting \/ LeaveExisting \/ MakeOne
           \/ FindParent \/ MakeNext \/ GoBack
  BY <1>2, NoteType, MkdirType
<1>3. CASE TypeSteps
  BY <1>3, TypeStepsType
<1>4. CASE Application
  BY <1>4, ApplicationType
<1>5. CASE Meddle
  <2>1. Same(call', call) /\ cip' = cip
    BY <1>5, MeddleSame
  <2>2. srv'.mlst = srv.mlst
    BY <1>5 DEF Meddle, CallInv, CacheInv, Shape
  <2> QED
    BY <2>1, <2>2, StillOK DEF TypeInv, Same, Fields
<1>6. CASE UNCHANGED vars
  BY <1>6 DEF vars, TypeInv
<1> QED
  BY <1>1, <1>2, <1>3, <1>4, <1>5, <1>6 DEF Next, Library, TypeSteps

LEMMA InitType == ASSUME Init PROVE TypeInv
<1>1. call = NoCall /\ srv.mlst \in BOOLEAN
  BY DEF Init
<1>2. IsCall(call) /\ call.name = "chdir" /\ call.report = {} /\ call.saved = {}
  BY <1>1 DEF NoCall, IsCall, Fields
<1>3. /\ cip.start = {} \/ cip.start = {PathOf(Home)}
      /\ cip.buf = {} /\ cip.hasMLST = TRUE /\ cip.stat = "unknown" /\ cip.nlst = "unknown"
  BY DEF Init
<1>4. Home \in Dirs
  BY DirsAssumption DEF DirsAssumption
<1> QED
  BY <1>1, <1>2, <1>3, <1>4, Sayings DEF TypeInv, CallOK, CipOK, Calls, Known3

LEMMA IsWellFormed == ASSUME CallInv, PartInv, TypeInv PROVE TypeOK
<1>1. CacheInv /\ DirsOK
  BY CallIs
<1>2. cip.cwd \in StrOf(Strings)
  <2>1. cip.cwd = {} \/ cip.cwd = {PathOf(srv.cwd)}
    BY <1>1 DEF CacheInv, CacheCoherent
  <2> QED
    BY <1>1, <2>1, Sayings DEF DirsOK
<1> QED
  BY <1>1, <1>2 DEF TypeOK, DirsOK, TypeInv, CipOK, CallOK, PartInv, PartOK

-----------------------------------------------------------------------------
(* What FTPMkdir2 says that it has made, there has been.                    *)

\* The places along the path, and the directory that is to be made.
Course(c) == Along(c.from, c.path)
Wanted(c) == Course(c)[BareLen(c.path)]

LEMMA BareLeads ==
  ASSUME NEW path \in Seq(STRING), Names(path), NEW a, NEW n, n = BareLen(path)
  PROVE  /\ Resolve(a, path) = Along(a, path)[n]
         /\ Resolve(a, SubSeq(path, 1, n)) = Along(a, path)[n]
         /\ \A k \in 1..n : (k = 1 => path[1] # Nothing) =>
              Resolve(a, SubSeq(path, 1, k)) = Along(a, path)[k]
         /\ path # <<Nothing>>
<1>1. n \in 1..Len(path) /\ Len(path) \in Nat /\ path[n] # Nothing /\ EmptyAfter(path, n)
  BY BareLenIs
<1>2. Resolve(a, path) = Along(a, path)[n]
  <2>1. n \in 0..Len(path)
    BY <1>1
  <2> QED
    BY <1>1, <2>1, TrailingSlashes
<1>3. ASSUME NEW k \in 1..n, k = 1 => path[1] # Nothing
      PROVE  Resolve(a, SubSeq(path, 1, k)) = Along(a, path)[k]
  <2>1. k \in 1..Len(path)
    BY <1>1
  <2> QED
    BY <1>3, <2>1, Beginning
<1>4. n \in 1..n /\ (n = 1 => path[1] # Nothing)
  BY <1>1
<1>5. path # <<Nothing>>
  <2>1. <<Nothing>>[1] = Nothing /\ Len(<<Nothing>>) = 1
    OBVIOUS
  <2>2. path = <<Nothing>> => n = 1 /\ path[n] = Nothing
    BY <1>1, <2>1
  <2> QED
    BY <1>1, <2>2
<1> QED
  BY <1>2, <1>3, <1>4, <1>5

\* From where the first s pieces lead, the next ones.
LEMMA RestLeads ==
  ASSUME NEW path \in Seq(STRING), Names(path), NEW a, NEW n, n = BareLen(path),
         NEW s \in 0..n, NEW k \in 1..n, s < k, path[s + 1] # Nothing \/ k = s + 1,
         NEW cwd, s = 0 => cwd = a /\ path[1] # Nothing, s # 0 => cwd = Along(a, path)[s]
  PROVE  Resolve(cwd, SubSeq(path, s + 1, k)) = Along(a, path)[k]
<1>1. n \in 1..Len(path) /\ Len(path) \in Nat
  BY BareLenIs
<1>2. s \in 0..Len(path) /\ k \in (s + 1)..Len(path)
  BY <1>1
<1>3. cwd = Along(a, path)[s]
  <2>1. CASE s = 0
    <3>1. Along(a, path)[0] = From(a, path) /\ From(a, path) = a
      BY <1>1, <2>1, AlongIs, FromIs
    <3> QED
      BY <2>1, <3>1
  <2>2. CASE s # 0
    BY <2>2
  <2> QED
    BY <2>1, <2>2
<1> QED
  BY <1>2, <1>3, Rest

MadeOK(p, c, cwd) ==
  c.name = "mkdir" =>
    /\ p \in {"mkPwd", "mkTry", "mkOne", "mkUp"} => cwd = c.from
    /\ p = "mkUndo" => Wanted(c) \in c.seen
    /\ p = "mkUp" => (c.k = 1 => c.path[1] # Nothing)
    /\ p = "mkDo" => /\ c.base = 0 => cwd = c.from /\ c.path[1] # Nothing
                     /\ c.base # 0 => cwd = Course(c)[c.base]
                     /\ c.k # c.base + 1 => c.path[c.base + 1] # Nothing
    /\ p \in {"mkBack", "idle"} /\ c.result = "ok" => Wanted(c) \in c.seen

\* What there has been since the call began.
SeenOK(c, dirs) ==
  c.name = "mkdir" =>
    /\ c.meddled \in BOOLEAN /\ c.denied \in BOOLEAN /\ c.recurse \in BOOLEAN
    /\ dirs \subseteq c.seen /\ (c.meddled = FALSE => dirs = c.seen)

MadeInv == MadeOK(pc, call, srv.cwd) /\ SeenOK(call, srv.dirs)


\* What a command leaves of a call.
Alike(d, c) ==
  /\ IsCall(d)
  /\ d.name = c.name /\ d.path = c.path /\ d.from = c.from /\ d.k = c.k /\ d.base = c.base
  /\ d.result = c.result /\ d.recurse = c.recurse /\ d.meddled = c.meddled

Command(c) ==
  \/ \E path : \E ok \in BOOLEAN : CWD(path, ok, c) \/ MKD(path, ok, c) \/ RMD(path, ok, c)
  \/ Unasked(c)
  \/ \E got : \E ok \in BOOLEAN : GetCWD(ok, got, c)

LEMMA CommandAlike ==
  ASSUME NEW c, IsCall(c), Command(c)
  PROVE  Alike(call', c)
<1>1. \/ call' = c \/ call' = [c EXCEPT !.denied = TRUE]
      \/ \E dir : call' = [c EXCEPT !.seen = @ \cup {dir}]
      \/ call' = [[c EXCEPT !.noPWD = TRUE] EXCEPT !.denied = TRUE]
  BY DEF Command, CWD, MKD, RMD, GetCWD, Unasked, Denied
<1> QED
  BY <1>1 DEF Alike, IsCall, Fields

\* Without a directory made or removed.
LEMMA CWDLeaves ==
  ASSUME CacheInv, NEW c, IsCall(c), NEW ok \in BOOLEAN, NEW path,
         CWD(path, ok, c) \/ \E got : GetCWD(ok, got, c)
  PROVE  /\ srv'.dirs = srv.dirs /\ call'.seen = c.seen
         /\ call' = c \/ call'.denied = TRUE
         /\ call'.denied \in {c.denied, TRUE}
<1>1. srv'.dirs = srv.dirs
  BY DEF CWD, GetCWD, Unasked, Denied, CacheInv, Shape
<1>2. \/ call' = c \/ call' = [c EXCEPT !.denied = TRUE]
      \/ call' = [[c EXCEPT !.noPWD = TRUE] EXCEPT !.denied = TRUE]
  BY DEF CWD, GetCWD, Unasked, Denied
<1> QED
  BY <1>1, <1>2 DEF IsCall, Fields

LEMMA MKDMakes ==
  ASSUME CacheInv, NEW c, IsCall(c), NEW ok \in BOOLEAN, NEW path, MKD(path, ok, c)
  PROVE  /\ srv'.cwd = srv.cwd
         /\ ok => /\ call'.seen = c.seen \cup {Resolve(srv.cwd, path)}
                  /\ srv'.dirs = srv.dirs \cup {Resolve(srv.cwd, path)}
                  /\ call'.denied = c.denied /\ call'.noPWD = c.noPWD
         /\ ~ok => /\ call'.seen = c.seen /\ srv'.dirs = srv.dirs
                   /\ call' = c \/ call'.denied = TRUE
                   /\ call'.denied \in {c.denied, TRUE}
<1> DEFINE d == Target(path)
<1>1. d = Resolve(srv.cwd, path)
  BY DEF Target
<1>2. /\ ok => srv' = [srv EXCEPT !.dirs = @ \cup {d}] /\ call' = [c EXCEPT !.seen = @ \cup {d}]
      /\ ~ok => srv' = srv /\ (call' = c \/ call' = [c EXCEPT !.denied = TRUE])
  BY DEF MKD, Unasked, Denied
<1> HIDE DEF d
<1>3. srv'.cwd = srv.cwd
  BY <1>2 DEF CacheInv, Shape
<1>4. CASE ok
  <2>1. srv'.dirs = srv.dirs \cup {d}
    BY <1>2, <1>4 DEF CacheInv, Shape
  <2>2. call'.seen = c.seen \cup {d} /\ call'.denied = c.denied /\ call'.noPWD = c.noPWD
    BY <1>2, <1>4 DEF IsCall, Fields
  <2> QED
    BY <1>1, <1>3, <1>4, <2>1, <2>2
<1>5. CASE ~ok
  BY <1>2, <1>3, <1>5 DEF IsCall, Fields
<1> QED
  BY <1>4, <1>5

\* What has been seen stays what there is.
LEMMA SeenStays ==
  ASSUME CacheInv, NEW c, IsCall(c), SeenOK(c, srv.dirs), NEW ok \in BOOLEAN, NEW path,
         CWD(path, ok, c) \/ MKD(path, ok, c) \/ (\E got : GetCWD(ok, got, c))
  PROVE  SeenOK(call', srv'.dirs) /\ c.seen \subseteq call'.seen
<1>1. Alike(call', c)
  BY CommandAlike DEF Command
<1>2. CASE CWD(path, ok, c) \/ \E got : GetCWD(ok, got, c)
  <2>1. srv'.dirs = srv.dirs /\ call'.seen = c.seen /\ call'.denied \in {c.denied, TRUE}
    BY <1>2, CWDLeaves
  <2> QED
    BY <1>1, <2>1 DEF SeenOK, Alike
<1>3. CASE MKD(path, ok, c)
  <2> DEFINE dir == Resolve(srv.cwd, path)
  <2>1. /\ ok => /\ call'.seen = c.seen \cup {dir} /\ srv'.dirs = srv.dirs \cup {dir}
                 /\ call'.denied = c.denied
        /\ ~ok => /\ call'.seen = c.seen /\ srv'.dirs = srv.dirs
                  /\ call'.denied \in {c.denied, TRUE}
    BY <1>3, MKDMakes
  <2> HIDE DEF dir
  <2> QED
    BY <1>1, <2>1 DEF SeenOK, Alike
<1> QED
  BY <1>2, <1>3

\* Calls that have seen no less.
LEMMA SameMade ==
  ASSUME NEW p, NEW c, NEW d, NEW cwd, MadeOK(p, c, cwd), Alike(d, c), c.seen \subseteq d.seen
  PROVE  MadeOK(p, d, cwd)
<1>1. Course(d) = Course(c) /\ Wanted(d) = Wanted(c)
  BY DEF Course, Wanted, Alike
<1> QED
  BY <1>1 DEF MadeOK, Alike

LEMMA MadeConcludes ==
  ASSUME CallInv, NEW c, IsCall(c), SeenOK(c, srv.dirs), NEW ok \in BOOLEAN, NEW path,
         CWD(path, ok, c) \/ MKD(path, ok, c) \/ (\E got : GetCWD(ok, got, c)),
         MadeOK(pc', c, srv'.cwd)
  PROVE  MadeInv'
<1>1. Alike(call', c)
  BY CommandAlike DEF Command
<1>2. SeenOK(call', srv'.dirs) /\ c.seen \subseteq call'.seen
  BY SeenStays, CallIs
<1>3. MadeOK(pc', call', srv'.cwd)
  BY <1>1, <1>2, SameMade
<1> QED
  BY <1>2, <1>3 DEF MadeInv

-----------------------------------------------------------------------------
(* Every step of the library is a command, or none, of the same call.       *)

Own(c) == IsCall(c) /\ c.name = call.name

LEMMA OwnAfter ==
  ASSUME NEW c, Own(c), call.at \in {"simple", "full", "again", "one", "oneMade"}
  PROVE  /\ \A ok \in BOOLEAN : Own(AfterCd(ok, c).call)
         /\ \A r : Own(AfterMkdir(r, c).call)
         /\ \A r : Own([c EXCEPT !.result = r])
         /\ \A x : Own([c EXCEPT !.report = x])
         /\ \A x : Own([c EXCEPT !.strayed = x])
         /\ \A x : Own([c EXCEPT !.at = x])
         /\ \A x : Own([c EXCEPT !.k = x])
         /\ \A x, y : Own([c EXCEPT !.base = x, !.k = y])
         /\ \A x, y : Own([c EXCEPT !.at = x, !.k = y])
<1>1. \A ok \in BOOLEAN : Own(AfterCd(ok, c).call)
  BY AfterCdKeeps DEF Own
<1>2. \A r : Own(AfterMkdir(r, c).call)
  BY AfterMkdirKeeps DEF Own
<1>3. /\ \A r : Own([c EXCEPT !.result = r])
      /\ \A x : Own([c EXCEPT !.report = x])
      /\ \A x : Own([c EXCEPT !.strayed = x])
      /\ \A x : Own([c EXCEPT !.at = x])
  BY DEF Own, IsCall, Fields
<1>4. /\ \A x : Own([c EXCEPT !.k = x])
      /\ \A x, y : Own([c EXCEPT !.base = x, !.k = y])
      /\ \A x, y : Own([c EXCEPT !.at = x, !.k = y])
  BY DEF Own, IsCall, Fields
<1> QED
  BY <1>1, <1>2, <1>3, <1>4

LEMMA LibraryCommands ==
  ASSUME CallInv, Nowhere \/ ChangeDir \/ AskPWD \/ Split \/ MakeStep
  PROVE  \E c : Own(c) /\ Command(c)
<1>1. Own(call) /\ call.at \in {"simple", "full", "again", "one", "oneMade"}
  BY CallIs DEF Own
<1>2. CASE Nowhere
  <2> DEFINE n == IF WithPWD THEN To("cdPwd", call) ELSE AfterCd(TRUE, call)
  <2>1. Unasked(n.call)
    BY <1>2 DEF Nowhere
  <2>2. Own(n.call)
    BY <1>1, OwnAfter DEF To
  <2> HIDE DEF n
  <2> QED
    BY <2>1, <2>2 DEF Command
<1>3. CASE ChangeDir
  <2>1. PICK ok \in BOOLEAN, quoted \in BOOLEAN :
          LET named == ok /\ quoted /\ WithPWD
              at == {PathOf(Target(Step))}
              n == IF ok /\ WithPWD /\ ~quoted THEN To("cdPwd", call)
                   ELSE AfterCd(ok, IF named THEN [call EXCEPT !.report = at] ELSE call)
          IN CWD(Step, ok, n.call)
    BY <1>3 DEF ChangeDir
  <2> DEFINE c == IF ok /\ quoted /\ WithPWD
                  THEN [call EXCEPT !.report = {PathOf(Target(Step))}] ELSE call
             n == IF ok /\ WithPWD /\ ~quoted THEN To("cdPwd", call) ELSE AfterCd(ok, c)
  <2>2. CWD(Step, ok, n.call)
    BY <2>1
  <2>3. Own(c)
    BY <1>1, OwnAfter
  <2> HIDE DEF c
  <2>4. Own(n.call)
    BY <1>1, <2>3, OwnAfter DEF To
  <2> HIDE DEF n
  <2> QED
    BY <2>2, <2>4 DEF Command
<1>4. CASE AskPWD
  <2>1. PICK ok \in BOOLEAN, got \in {{}, cip.cwd, {PathOf(srv.cwd)}} :
          LET n == AfterCd(ok, [call EXCEPT !.report = got]) IN GetCWD(ok, got, n.call)
    BY <1>4 DEF AskPWD
  <2> DEFINE c == [call EXCEPT !.report = got]
  <2>2. GetCWD(ok, got, AfterCd(ok, c).call)
    BY <2>1
  <2>3. Own(c)
    BY <1>1, OwnAfter
  <2> HIDE DEF c
  <2>4. Own(AfterCd(ok, c).call)
    BY <1>1, <2>3, OwnAfter
  <2> QED
    BY <2>2, <2>4 DEF Command
<1>5. CASE Split
  <2> DEFINE c == [call EXCEPT !.at = "one", !.k = 1]
             n == IF call.path # <<"">> THEN To("cd", c)
                  ELSE IF "pwd" \in call.flags THEN To("cdPwd", c) ELSE End("ok", c)
  <2>1. Unasked(n.call)
    BY <1>5 DEF Split
  <2>2. Own(c)
    BY <1>1, OwnAfter
  <2> HIDE DEF c
  <2>3. Own(n.call)
    <3>1. n.call = c \/ n.call = [c EXCEPT !.result = "ok"]
      BY DEF To, End
    <3> HIDE DEF n
    <3>2. Own(n.call)
      BY <2>2, <3>1 DEF Own, IsCall, Fields
    <3> QED
      BY <3>2
  <2> HIDE DEF n
  <2> QED
    BY <2>1, <2>3 DEF Command
<1>6. CASE MakeStep
  <2>1. PICK ok \in BOOLEAN :
          LET n == IF ok THEN To("cd", [call EXCEPT !.at = "oneMade"]) ELSE End("failed", call)
          IN MKD(<<Token>>, ok, n.call) /\ Goes(n)
    BY <1>6 DEF MakeStep
  <2> DEFINE d == (IF ok THEN To("cd", [call EXCEPT !.at = "oneMade"]) ELSE End("failed", call)).call
  <2>2. MKD(<<Token>>, ok, d)
    BY <2>1
  <2>3. d = [call EXCEPT !.at = "oneMade"] \/ d = [call EXCEPT !.result = "failed"]
    BY DEF To, End
  <2> HIDE DEF d
  <2>4. Own(d)
    BY <1>1, <2>3 DEF Own, IsCall, Fields
  <2> QED
    BY <2>2, <2>4 DEF Command
<1> QED
  BY <1>2, <1>3, <1>4, <1>5, <1>6

LEMMA MkdirCommands ==
  ASSUME CallInv, \/ NotePlace \/ TryExisting \/ LeaveExisting \/ MakeOne
                  \/ FindParent \/ MakeNext \/ GoBack
  PROVE  \E c : Own(c) /\ Command(c)
<1>1. Own(call) /\ call.at \in {"simple", "full", "again", "one", "oneMade"}
  BY CallIs DEF Own
<1>2. \A k : Own(FromParent(k, call).call)
  <2> SUFFICES ASSUME NEW k
               PROVE  Own(FromParent(k, call).call)
    OBVIOUS
  <2> DEFINE d == FromParent(k, call).call
  <2>1. \/ d = [call EXCEPT !.base = 0, !.k = 1] \/ d = [call EXCEPT !.k = k]
        \/ d = AfterMkdir("mkdFailed", call).call
    BY DEF FromParent, To
  <2>2. Own(AfterMkdir("mkdFailed", call).call)
    BY <1>1, OwnAfter
  <2> HIDE DEF d
  <2>3. Own(d)
    BY <1>1, <2>1, <2>2 DEF Own, IsCall, Fields
  <2> QED
    BY <2>3 DEF d
<1>3. CASE NotePlace
  <2>1. \E got : \E ok \in BOOLEAN : GetCWD(ok, got, call)
    BY <1>3 DEF NotePlace
  <2> QED
    BY <1>1, <2>1 DEF Command
<1>4. CASE TryExisting
  <2>1. PICK ok \in BOOLEAN :
          LET n == IF ok THEN To("mkUndo", call)
                   ELSE IF ~Recursive \/ (Len(Bare) = 2 /\ Bare[1] = "") THEN To("mkOne", call)
                   ELSE FromParent(Len(Bare) - 1, call)
          IN CWD(call.path, ok, n.call)
    BY <1>4 DEF TryExisting
  <2> DEFINE k == Len(Bare) - 1
             d == (IF ok THEN To("mkUndo", call)
                   ELSE IF ~Recursive \/ (Len(Bare) = 2 /\ Bare[1] = "") THEN To("mkOne", call)
                   ELSE FromParent(k, call)).call
  <2>2. d = call \/ d = FromParent(k, call).call
    BY DEF To
  <2>3. CWD(call.path, ok, d)
    BY <2>1
  <2> HIDE DEF d, k
  <2> QED
    BY <1>1, <1>2, <2>2, <2>3 DEF Command
<1>5. ASSUME NEW c, Own(c), NEW r, NEW ok \in BOOLEAN, NEW path,
             CWD(path, ok, AfterMkdir(r, c).call) \/ MKD(path, ok, AfterMkdir(r, c).call)
      PROVE  \E d : Own(d) /\ Command(d)
  <2>1. Own(AfterMkdir(r, c).call)
    BY <1>1, <1>5, OwnAfter
  <2> QED
    BY <1>5, <2>1 DEF Command
<1>6. \A x : Own([call EXCEPT !.strayed = x])
  BY <1>1 DEF Own, IsCall, Fields
<1>7. CASE LeaveExisting
  <2>1. PICK ok \in BOOLEAN :
          LET n == AfterMkdir(IF ok THEN "ok" ELSE "cannotGoToPrevDir",
                              [call EXCEPT !.strayed = @ \/ ~ok])
          IN CWD(Way, ok, n.call)
    BY <1>7 DEF LeaveExisting
  <2> DEFINE c == [call EXCEPT !.strayed = @ \/ ~ok]
             r == IF ok THEN "ok" ELSE "cannotGoToPrevDir"
  <2>2. CWD(Way, ok, AfterMkdir(r, c).call)
    BY <2>1
  <2>3. Own(c)
    BY <1>6
  <2> HIDE DEF c, r
  <2> QED
    BY <1>5, <2>2, <2>3
<1>8. CASE MakeOne
  BY <1>1, <1>5, <1>8 DEF MakeOne
<1>9. CASE GoBack
  <2>1. PICK ok \in BOOLEAN :
          LET n == AfterMkdir(IF call.result = "ok" /\ ~ok THEN "cannotGoToPrevDir"
                              ELSE call.result, [call EXCEPT !.strayed = @ \/ ~ok])
          IN CWD(Way, ok, n.call)
    BY <1>9 DEF GoBack
  <2> DEFINE c == [call EXCEPT !.strayed = @ \/ ~ok]
             r == IF call.result = "ok" /\ ~ok THEN "cannotGoToPrevDir" ELSE call.result
  <2>2. CWD(Way, ok, AfterMkdir(r, c).call)
    BY <2>1
  <2>3. Own(c)
    BY <1>6
  <2> HIDE DEF c, r
  <2> QED
    BY <1>5, <2>2, <2>3
<1>10. CASE FindParent
  <2>1. PICK ok \in BOOLEAN :
          LET n == IF ok THEN To("mkDo", [call EXCEPT !.base = call.k, !.k = @ + 1])
                   ELSE FromParent(call.k - 1, call)
          IN CWD(First(call.k), ok, n.call)
    BY <1>10 DEF FindParent
  <2> DEFINE k == call.k - 1
             d == (IF ok THEN To("mkDo", [call EXCEPT !.base = call.k, !.k = @ + 1])
                   ELSE FromParent(k, call)).call
  <2>2. d = [call EXCEPT !.base = call.k, !.k = @ + 1] \/ d = FromParent(k, call).call
    BY DEF To
  <2>3. CWD(First(call.k), ok, d)
    BY <2>1
  <2> HIDE DEF d, k
  <2>4. Own(d)
    <3>1. CASE d = [call EXCEPT !.base = call.k, !.k = @ + 1]
      BY <1>1, <3>1 DEF Own, IsCall, Fields
    <3> QED
      BY <1>2, <2>2, <3>1
  <2> QED
    BY <2>3, <2>4 DEF Command
<1>11. CASE MakeNext
  <2>1. PICK ok \in BOOLEAN :
          LET n == IF ok /\ MoreToMake THEN To("mkDo", [call EXCEPT !.k = @ + 1])
                   ELSE To("mkBack", [call EXCEPT !.result = IF ok THEN "ok" ELSE "mkdFailed"])
          IN MKD(SubSeq(Bare, call.base + 1, call.k), ok, n.call)
    BY <1>11 DEF MakeNext
  <2> DEFINE r == IF ok THEN "ok" ELSE "mkdFailed"
             d == (IF ok /\ MoreToMake THEN To("mkDo", [call EXCEPT !.k = @ + 1])
                   ELSE To("mkBack", [call EXCEPT !.result = r])).call
  <2>2. d = [call EXCEPT !.k = @ + 1] \/ d = [call EXCEPT !.result = r]
    BY DEF To
  <2>3. MKD(SubSeq(Bare, call.base + 1, call.k), ok, d)
    BY <2>1
  <2> HIDE DEF d, r
  <2>4. Own(d)
    BY <1>1, <2>2 DEF Own, IsCall, Fields
  <2> QED
    BY <2>3, <2>4 DEF Command
<1> QED
  BY <1>3, <1>4, <1>7, <1>8, <1>9, <1>10, <1>11

LEMMA TypeCommands ==
  ASSUME CallInv, TypeSteps
  PROVE  \E c : Command(c)
<1>1. CASE AskMLST
  <2>1. \E c : Unasked(c)
    BY <1>1 DEF AskMLST
  <2> QED
    BY <2>1 DEF Command
<1>2. CASE NotePlaceForType \/ NotePlaceForRmdir
  <2>1. \E got : \E ok \in BOOLEAN : GetCWD(ok, got, call)
    BY <1>2 DEF NotePlaceForType, NotePlaceForRmdir
  <2> QED
    BY <2>1 DEF Command
<1>3. CASE TryToEnter \/ LeaveEntered \/ ProbeBack \/ EnterNoDir
  <2>1. \E c, path : \E ok \in BOOLEAN : CWD(path, ok, c)
    BY <1>3 DEF TryToEnter, LeaveEntered, ProbeBack, EnterNoDir
  <2> QED
    BY <2>1 DEF Command
<1>4. CASE ExistsAnswer \/ SkipProbe \/ ProbeKnown
  <2>1. \E c : Unasked(c)
    BY <1>4 DEF ExistsAnswer, SkipProbe, ProbeKnown
  <2> QED
    BY <2>1 DEF Command
<1>5. CASE Probe
  <2>1. (\E c : Unasked(c)) \/ \E c, got : \E ok \in BOOLEAN : GetCWD(ok, got, c)
    BY <1>5 DEF Probe
  <2> QED
    BY <2>1 DEF Command
<1>6. CASE ProbeStart
  <2>1. (\E c : Unasked(c)) \/ \E c, path : \E ok \in BOOLEAN : CWD(path, ok, c)
    BY <1>6 DEF ProbeStart
  <2> QED
    BY <2>1 DEF Command
<1>7. CASE RemoveDir
  <2>1. \E c, path : \E ok \in BOOLEAN : RMD(path, ok, c)
    BY <1>7 DEF RemoveDir
  <2> QED
    BY <2>1 DEF Command
<1> QED
  BY <1>1, <1>2, <1>3, <1>4, <1>5, <1>6, <1>7 DEF TypeSteps

\* The root and the parents of what there is are there.
Closed(dirs) == <<>> \in dirs /\ \A d \in dirs : Parent(d) \in dirs

LEMMA CommandClosed ==
  ASSUME CacheInv, Closed(srv.dirs), NEW c, Command(c)
  PROVE  Closed(srv'.dirs)
<1>1. CASE \E path : \E ok \in BOOLEAN : MKD(path, ok, c)
  <2>1. \/ srv' = srv
        \/ \E d : Parent(d) \in srv.dirs /\ srv' = [srv EXCEPT !.dirs = @ \cup {d}]
    BY <1>1 DEF MKD, Unasked, Denied
  <2>2. \/ srv'.dirs = srv.dirs
        \/ \E d : Parent(d) \in srv.dirs /\ srv'.dirs = srv.dirs \cup {d}
    BY <2>1 DEF CacheInv, Shape
  <2> QED
    BY <2>2 DEF Closed
<1>2. CASE \E path : \E ok \in BOOLEAN : RMD(path, ok, c)
  <2>1. \/ srv' = srv
        \/ \E d : /\ d # <<>> /\ \A e \in srv.dirs : e = d \/ Parent(e) # d
                  /\ srv' = [srv EXCEPT !.dirs = @ \ {d}]
    BY <1>2 DEF RMD, Unasked, Denied
  <2>2. \/ srv'.dirs = srv.dirs
        \/ \E d : /\ d # <<>> /\ \A e \in srv.dirs : e = d \/ Parent(e) # d
                  /\ srv'.dirs = srv.dirs \ {d}
    BY <2>1 DEF CacheInv, Shape
  <2> QED
    BY <2>2 DEF Closed
<1>3. CASE \/ \E path : \E ok \in BOOLEAN : CWD(path, ok, c)
           \/ Unasked(c)
           \/ \E got : \E ok \in BOOLEAN : GetCWD(ok, got, c)
  <2>1. srv'.dirs = srv.dirs
    BY <1>3 DEF CWD, GetCWD, Unasked, Denied, CacheInv, Shape
  <2> QED
    BY <2>1
<1> QED
  BY <1>1, <1>2, <1>3 DEF Command

LEMMA InitClosed == ASSUME Init PROVE Closed(srv.dirs)
<1>1. PICK m \in BOOLEAN, ds \in SUBSET Dirs :
        /\ {<<>>, Home} \subseteq ds /\ \A d \in ds : Parent(d) \in ds
        /\ srv = [cwd |-> Home, dirs |-> ds, mlst |-> m]
  BY DEF Init
<1>2. srv.dirs = ds
  BY <1>1
<1> QED
  BY <1>1, <1>2 DEF Closed

LEMMA StepClosed == ASSUME CallInv, Closed(srv.dirs), [Next]_vars PROVE Closed(srv'.dirs)
<1>1. CacheInv
  BY CallIs
<1>2. CASE Library
  <2>1. \E c : Command(c)
    BY <1>2, LibraryCommands, MkdirCommands, TypeCommands DEF Library, TypeSteps
  <2> QED
    BY <1>1, <2>1, CommandClosed
<1>3. CASE Application
  <2>1. srv' = srv
    BY <1>3 DEF Application, FTPGetCWD, FTPChdir, FTPChdirAndGetCWD, FTPFileType, FTPChdir3,
       FTPRmdir, FTPMkdir2, Begins
  <2> QED
    BY <2>1
<1>4. CASE Meddle
  <2>1. PICK d \in Dirs \ {<<>>, Home} :
          /\ IF d \in srv.dirs THEN \A e \in srv.dirs : e = d \/ Parent(e) # d
                               ELSE Parent(d) \in srv.dirs
          /\ srv' = [srv EXCEPT !.dirs = IF d \in @ THEN @ \ {d} ELSE @ \cup {d}]
    BY <1>4 DEF Meddle
  <2>2. srv'.dirs = IF d \in srv.dirs THEN srv.dirs \ {d} ELSE srv.dirs \cup {d}
    BY <1>1, <2>1 DEF CacheInv, Shape
  <2> QED
    BY <2>1, <2>2 DEF Closed
<1>5. CASE UNCHANGED vars
  BY <1>5 DEF vars
<1> QED
  BY <1>2, <1>3, <1>4, <1>5 DEF Next

\* A call that is not FTPMkdir stays none.
LEMMA NoMkdir ==
  ASSUME CallInv, Library, call.name # "mkdir"
  PROVE  call'.name # "mkdir"
<1>1. CASE TypeSteps
  BY <1>1, TypeStepsNamed DEF Named, Kept
<1>2. CASE ~TypeSteps
  <2>1. PICK c : Own(c) /\ Command(c)
    BY <1>2, LibraryCommands, MkdirCommands DEF Library, TypeSteps
  <2>2. Alike(call', c)
    BY <2>1, CommandAlike DEF Own
  <2> QED
    BY <2>1, <2>2 DEF Alike, Own
<1> QED
  BY <1>1, <1>2

\* FTPMkdir is only in its own steps.
LEMMA OnlyMkdir ==
  ASSUME CallInv, Library, call.name = "mkdir"
  PROVE  \/ NotePlace \/ TryExisting \/ LeaveExisting \/ MakeOne
         \/ FindParent \/ MakeNext \/ GoBack
<1>1. PlaceOK(pc, call)
  BY DEF CallInv, Good
<1>2. ~(Nowhere \/ ChangeDir \/ AskPWD \/ Split \/ MakeStep)
  BY <1>1 DEF PlaceOK, Nowhere, ChangeDir, AskPWD, Split, MakeStep
<1>3. ~TypeSteps
  BY <1>1 DEF PlaceOK, TypeSteps, AskMLST, NotePlaceForType, TryToEnter, LeaveEntered,
     ExistsAnswer, Probe, SkipProbe, ProbeKnown, ProbeStart, ProbeBack, RemoveDir,
     NotePlaceForRmdir, EnterNoDir
<1> QED
  BY <1>2, <1>3 DEF Library, TypeSteps

-----------------------------------------------------------------------------
(* FTPMkdir's own steps.                                                    *)

\* What is known of FTPMkdir in one of its steps.
LEMMA InFTPMkdir ==
  ASSUME CallInv, PartInv, MadeInv, pc \in MkSteps, call.name = "mkdir"
  PROVE  /\ IsCall(call) /\ CacheInv /\ DirsOK
         /\ call.path \in Seq(STRING) /\ Names(call.path) /\ IsPath(call.path)
         /\ SeenOK(call, srv.dirs) /\ MadeOK(pc, call, srv.cwd)
         /\ \A r, c : AfterMkdir(r, c) = End(r, c)
<1>1. IsPath(call.path)
  BY InMkdir, PathsArePaths
<1> QED
  BY <1>1, InMkdir DEF MadeInv, AfterMkdir

\* The parts of the path that are given to CWD and MKD, and where they lead.
LEMMA FirstIs ==
  ASSUME IsPath(call.path), call.path \in Seq(STRING), Names(call.path),
         NEW n, n = BareLen(call.path), NEW k \in 1..n
  PROVE  /\ First(k) = SubSeq(call.path, 1, k)
         /\ First(k) = <<Nothing>> <=> k = 1 /\ call.path[1] = Nothing
<1> DEFINE path == call.path
           q == SubSeq(path, 0 + 1, k)
<1>1. n \in 1..Len(path) /\ Len(path) \in Nat
  BY BareLenIs
<1>2. First(k) = q
  <2>1. 0 \in 0..n /\ k \in 0..n /\ 0 <= k
    BY <1>1
  <2>2. SubSeq(Bare, 0 + 1, k) = q
    BY <2>1, BareIs
  <2> QED
    BY <2>2 DEF First
<1>3. q \in Seq(Texts) /\ Len(q) = k /\ q[1] = path[1]
  <2>1. path \in Seq(Texts) /\ 0 \in 0..Len(path) /\ k \in 0..Len(path) /\ k - 0 = k
        /\ 1 \in 1..(k - 0) /\ 0 + 1 = 1
    BY <1>1 DEF IsPath
  <2>2. q \in Seq(Texts) /\ Len(q) = k - 0 /\ \A i \in 1..(k - 0) : q[i] = path[0 + i]
    BY <2>1, PartOf
  <2> HIDE DEF q, path
  <2> QED
    BY <2>1, <2>2
<1> HIDE DEF q, path
<1>4. q = <<Nothing>> => k = 1 /\ path[1] = Nothing
  <2>1. Len(<<Nothing>>) = 1 /\ <<Nothing>>[1] = Nothing
    OBVIOUS
  <2> QED
    BY <1>3, <2>1
<1>5. k = 1 /\ path[1] = Nothing => q = <<Nothing>>
  <2> SUFFICES ASSUME k = 1, path[1] = Nothing
               PROVE  q = <<Nothing>>
    OBVIOUS
  <2>1. q # <<>>
    <3>1. Len(<<>>) = 0 /\ 1 # 0
      OBVIOUS
    <3> QED
      BY <1>3, <3>1
  <2>2. q = <<q[1]>>
    BY <1>3, <2>1, PathLen DEF IsPath
  <2> QED
    BY <1>3, <2>2
<1> QED
  BY <1>2, <1>4, <1>5 DEF q, path

LEMMA FromParentIs ==
  ASSUME IsPath(call.path), call.path \in Seq(STRING), Names(call.path), call.name = "mkdir",
         NEW n, n = BareLen(call.path), NEW k \in Nat, k < n
  PROVE  \/ k = 0 /\ FromParent(k, call) = To("mkDo", [call EXCEPT !.base = 0, !.k = 1])
         \/ /\ k = 1 /\ call.path[1] = Nothing
            /\ FromParent(k, call) = End("mkdFailed", call)
         \/ /\ k # 0 /\ (k = 1 => call.path[1] # Nothing)
            /\ FromParent(k, call) = To("mkUp", [call EXCEPT !.k = k])
<1>1. n \in 1..Len(call.path) /\ Len(call.path) \in Nat
  BY BareLenIs
<1>2. k = 0 \/ k \in 1..n
  BY <1>1
<1>3. CASE k = 0
  BY <1>3 DEF FromParent
<1>4. CASE k \in 1..n
  <2>1. First(k) = <<Nothing>> <=> k = 1 /\ call.path[1] = Nothing
    BY <1>4, FirstIs
  <2>2. k # 0
    BY <1>4
  <2>3. CASE First(k) = <<Nothing>>
    BY <2>1, <2>2, <2>3 DEF FromParent, Nothing, AfterMkdir
  <2>4. CASE First(k) # <<Nothing>>
    BY <2>1, <2>2, <2>4 DEF FromParent, Nothing
  <2> QED
    BY <2>3, <2>4
<1> QED
  BY <1>2, <1>3, <1>4

\* A call that goes on to another step.
GoesWith(d, c) ==
  /\ IsCall(d) /\ d.name = c.name /\ d.path = c.path /\ d.from = c.from /\ d.seen = c.seen
  /\ d.recurse = c.recurse /\ d.meddled = c.meddled /\ d.denied = c.denied /\ d.noPWD = c.noPWD

LEMMA GoesSame == ASSUME NEW c, IsCall(c) PROVE GoesWith(c, c)
BY DEF GoesWith

LEMMA GoesCourse ==
  ASSUME NEW d, NEW c, GoesWith(d, c), NEW dirs, SeenOK(c, dirs)
  PROVE  Course(d) = Course(c) /\ Wanted(d) = Wanted(c) /\ SeenOK(d, dirs)
BY DEF GoesWith, Course, Wanted, SeenOK

LEMMA WantedIs ==
  ASSUME NEW c, c.path \in Seq(STRING), Names(c.path)
  PROVE  Resolve(c.from, c.path) = Wanted(c) /\ c.path # <<Nothing>>
<1> DEFINE n == BareLen(c.path)
           a == c.from
           path == c.path
<1>1. path \in Seq(STRING) /\ Names(path) /\ n = BareLen(path) /\ Wanted(c) = Along(a, path)[n]
  BY DEF Wanted, Course
<1> HIDE DEF n, a, path
<1>2. Resolve(a, path) = Along(a, path)[n] /\ path # <<Nothing>>
  BY <1>1, BareLeads
<1> QED
  BY <1>1, <1>2 DEF a, path

\* An end keeps what has been made.
LEMMA EndMade ==
  ASSUME NEW c, c.name = "mkdir", NEW d, GoesWith(d, c),
         d.result = "ok" => Wanted(c) \in c.seen, NEW cwd
  PROVE  MadeOK("idle", d, cwd)
<1>1. Wanted(d) = Wanted(c)
  BY DEF GoesWith, Wanted, Course
<1> QED
  BY <1>1 DEF MadeOK, GoesWith

\* On the way to the parent.
LEMMA FromParentMade ==
  ASSUME CallInv, PartInv, MadeInv, pc \in MkSteps, call.name = "mkdir", NEW k \in Nat,
         k < BareLen(call.path), k = 0 => call.path[1] # Nothing, srv.cwd = call.from,
         NEW n, n = FromParent(k, call)
  PROVE  GoesWith(n.call, call) /\ MadeOK(n.pc, n.call, srv.cwd)
<1> DEFINE d == n.call
<1>1. /\ IsCall(call) /\ IsPath(call.path) /\ call.path \in Seq(STRING) /\ Names(call.path)
  BY InFTPMkdir
<1>2. \/ k = 0 /\ n = To("mkDo", [call EXCEPT !.base = 0, !.k = 1])
      \/ n = End("mkdFailed", call)
      \/ (k = 1 => call.path[1] # Nothing) /\ n = To("mkUp", [call EXCEPT !.k = k])
  BY <1>1, FromParentIs
<1>3. CASE k = 0 /\ n = To("mkDo", [call EXCEPT !.base = 0, !.k = 1])
  <2>1. n.pc = "mkDo" /\ d = [call EXCEPT !.base = 0, !.k = 1]
    BY <1>3 DEF To
  <2> HIDE DEF d
  <2>2. GoesWith(d, call) /\ d.k = 1 /\ d.base = 0
    BY <1>1, <2>1 DEF GoesWith, IsCall, Fields
  <2>3. MadeOK("mkDo", d, srv.cwd)
    BY <1>3, <2>2 DEF MadeOK, GoesWith
  <2> QED
    BY <2>1, <2>2, <2>3 DEF d
<1>4. CASE n = End("mkdFailed", call)
  <2>1. n.pc = "idle" /\ d = [call EXCEPT !.result = "mkdFailed"]
    BY <1>4 DEF End
  <2> HIDE DEF d
  <2>2. GoesWith(d, call) /\ d.result # "ok"
    BY <1>1, <2>1 DEF GoesWith, IsCall, Fields
  <2>3. MadeOK("idle", d, srv.cwd)
    BY <2>2, EndMade
  <2> QED
    BY <2>1, <2>2, <2>3 DEF d
<1>5. CASE (k = 1 => call.path[1] # Nothing) /\ n = To("mkUp", [call EXCEPT !.k = k])
  <2>1. n.pc = "mkUp" /\ d = [call EXCEPT !.k = k]
    BY <1>5 DEF To
  <2> HIDE DEF d
  <2>2. GoesWith(d, call) /\ d.k = k
    BY <1>1, <2>1 DEF GoesWith, IsCall, Fields
  <2>3. MadeOK("mkUp", d, srv.cwd)
    BY <1>5, <2>2 DEF MadeOK, GoesWith
  <2> QED
    BY <2>1, <2>2, <2>3 DEF d
<1> QED
  BY <1>2, <1>3, <1>4, <1>5

LEMMA TryExistingMade ==
  ASSUME CallInv, PartInv, MadeInv, call.name = "mkdir", TryExisting
  PROVE  MadeInv'
<1>1. PICK ok \in BOOLEAN :
        LET n == IF ok THEN To("mkUndo", call)
                 ELSE IF ~Recursive \/ (Len(Bare) = 2 /\ Bare[1] = "") THEN To("mkOne", call)
                 ELSE FromParent(Len(Bare) - 1, call)
        IN CWD(call.path, ok, n.call) /\ Goes(n)
  BY DEF TryExisting
<1> DEFINE b == Len(Bare) - 1
           n == IF ok THEN To("mkUndo", call)
                ELSE IF ~Recursive \/ (Len(Bare) = 2 /\ Bare[1] = "") THEN To("mkOne", call)
                ELSE FromParent(b, call)
<1>2. pc = "mkTry" /\ pc \in MkSteps /\ CWD(call.path, ok, n.call) /\ pc' = n.pc
  BY <1>1 DEF TryExisting, Goes, MkSteps
<1>3. \/ ok /\ n = To("mkUndo", call)
      \/ ~ok /\ n = To("mkOne", call)
      \/ ~ok /\ n = FromParent(b, call)
  OBVIOUS
<1> HIDE DEF n
<1>4. /\ IsCall(call) /\ CacheInv /\ call.path \in Seq(STRING) /\ Names(call.path)
      /\ IsPath(call.path) /\ SeenOK(call, srv.dirs) /\ MadeOK("mkTry", call, srv.cwd)
  BY <1>2, InFTPMkdir
<1>5. srv.cwd = call.from
  BY <1>4 DEF MadeOK
<1>6. b \in Nat /\ b < BareLen(call.path) /\ (b = 0 => call.path[1] # Nothing)
  <2> DEFINE m == BareLen(call.path)
  <2>1. m \in 1..Len(call.path) /\ Len(call.path) \in Nat /\ call.path[m] # Nothing
        /\ b = m - 1
    BY <1>4, BareLenIs, BareIs
  <2> HIDE DEF m, b
  <2> QED
    BY <2>1 DEF m
<1> HIDE DEF b
<1>7. GoesWith(n.call, call) /\ MadeOK(n.pc, n.call, srv'.cwd)
  <2>1. CASE ok /\ n = To("mkUndo", call)
    <3>1. n.pc = "mkUndo" /\ n.call = call
      BY <2>1 DEF To
    <3>2. CWD(call.path, ok, call)
      BY <1>2, <3>1
    <3>3. Resolve(call.from, call.path) = Wanted(call) /\ call.path # <<Nothing>>
      BY <1>4, WantedIs
    <3>4. Wanted(call) \in srv.dirs
      BY <1>5, <2>1, <3>2, <3>3 DEF CWD, Target, Nothing
    <3>5. Wanted(call) \in call.seen
      BY <1>4, <3>4 DEF SeenOK
    <3>6. MadeOK("mkUndo", call, srv'.cwd)
      BY <3>5 DEF MadeOK
    <3> QED
      BY <1>4, <3>1, <3>6, GoesSame
  <2>2. CASE ~ok /\ n = To("mkOne", call)
    <3>1. n.pc = "mkOne" /\ n.call = call
      BY <2>2 DEF To
    <3>2. srv'.cwd = srv.cwd
      BY <1>2, <1>4, <2>2, CWDGoes
    <3>3. MadeOK("mkOne", call, srv'.cwd)
      BY <1>5, <3>2 DEF MadeOK
    <3> QED
      BY <1>4, <3>1, <3>3, GoesSame
  <2>3. CASE ~ok /\ n = FromParent(b, call)
    <3>1. srv'.cwd = srv.cwd
      BY <1>2, <1>4, <2>3, CWDGoes
    <3>2. GoesWith(n.call, call) /\ MadeOK(n.pc, n.call, srv.cwd)
      BY <1>2, <1>5, <1>6, <2>3, FromParentMade
    <3> QED
      BY <3>1, <3>2
  <2> QED
    BY <1>3, <2>1, <2>2, <2>3
<1>8. IsCall(n.call) /\ SeenOK(n.call, srv.dirs)
  BY <1>4, <1>7, GoesCourse DEF GoesWith
<1> QED
  BY <1>2, <1>7, <1>8, MadeConcludes

LEMMA BackMade ==
  ASSUME CallInv, PartInv, MadeInv, call.name = "mkdir", LeaveExisting \/ GoBack
  PROVE  MadeInv'
<1>1. /\ pc \in {"mkUndo", "mkBack"} /\ pc \in MkSteps
  BY DEF LeaveExisting, GoBack, MkSteps
<1>2. /\ IsCall(call) /\ SeenOK(call, srv.dirs) /\ MadeOK(pc, call, srv.cwd)
      /\ \A r, c : AfterMkdir(r, c) = End(r, c)
  BY <1>1, InFTPMkdir
<1>3. PICK ok \in BOOLEAN, r \in {"ok", "cannotGoToPrevDir", call.result} :
        LET n == AfterMkdir(r, [call EXCEPT !.strayed = @ \/ ~ok]) IN
        /\ CWD(Way, ok, n.call) /\ Goes(n)
        /\ r = "ok" => pc = "mkUndo" \/ call.result = "ok"
  BY DEF LeaveExisting, GoBack
<1> DEFINE x == call.strayed \/ ~ok
           n == End(r, [call EXCEPT !.strayed = x])
<1>4. CWD(Way, ok, n.call) /\ pc' = n.pc
  BY <1>2, <1>3 DEF Goes
<1>5. r = "ok" => Wanted(call) \in call.seen
  BY <1>1, <1>2, <1>3 DEF MadeOK
<1> HIDE DEF x
<1> DEFINE d == n.call
<1>6. n.pc = "idle" /\ d = [[call EXCEPT !.strayed = x] EXCEPT !.result = r]
  BY DEF End
<1> HIDE DEF d
<1>7. n.pc = "idle" /\ GoesWith(d, call) /\ MadeOK("idle", d, srv'.cwd)
  <2>1. GoesWith(d, call) /\ d.result = r
    BY <1>2, <1>6 DEF GoesWith, IsCall, Fields
  <2>2. MadeOK("idle", d, srv'.cwd)
    BY <1>5, <2>1, EndMade
  <2> QED
    BY <1>6, <2>1, <2>2
<1> HIDE DEF n
<1>8. IsCall(d) /\ SeenOK(d, srv.dirs)
  BY <1>2, <1>7, GoesCourse DEF GoesWith
<1>9. CWD(Way, ok, d) /\ MadeOK(pc', d, srv'.cwd)
  BY <1>4, <1>7 DEF d
<1> QED
  BY <1>8, <1>9, MadeConcludes

LEMMA NotePlaceMade ==
  ASSUME CallInv, PartInv, MadeInv, call.name = "mkdir", NotePlace
  PROVE  MadeInv'
<1>1. pc = "mkPwd" /\ pc \in MkSteps /\ pc' = "mkTry"
  BY DEF NotePlace, MkSteps
<1>2. PICK ok \in BOOLEAN, got \in {{}, cip.cwd, {PathOf(srv.cwd)}} : GetCWD(ok, got, call)
  BY DEF NotePlace
<1>3. /\ IsCall(call) /\ SeenOK(call, srv.dirs) /\ MadeOK("mkPwd", call, srv.cwd)
  BY <1>1, InFTPMkdir
<1>4. srv' = srv
  BY <1>2 DEF GetCWD, Unasked, Denied
<1>5. MadeOK("mkTry", call, srv'.cwd)
  BY <1>3, <1>4 DEF MadeOK
<1> QED
  BY <1>1, <1>2, <1>3, <1>5, MadeConcludes

\* What MKD is given, from where the session is, and where the path leads.
LEMMA RestIs ==
  ASSUME CallInv, PartInv, MadeInv, call.name = "mkdir", pc = "mkDo",
         NEW q, q = SubSeq(Bare, call.base + 1, call.k)
  PROVE  /\ Resolve(srv.cwd, q) = Course(call)[call.k]
         /\ q = <<Nothing>> <=> call.k = call.base + 1 /\ call.path[call.k] = Nothing
<1> DEFINE path == call.path
           s == call.base
           k == call.k
           n == BareLen(path)
           w == srv.cwd
           a == call.from
<1>1. /\ path \in Seq(STRING) /\ Names(path) /\ IsPath(path) /\ MadeOK("mkDo", call, w)
  BY InFTPMkdir DEF MkSteps
<1>2. n \in 1..Len(path) /\ Len(path) \in Nat
  BY <1>1, BareLenIs
<1>3. s \in 0..n /\ k \in 1..n /\ s < k
  <2>1. s \in 0..Len(path) /\ k \in 0..Len(path) /\ s < k /\ k <= n
    BY DEF PartInv, PartOK
  <2> HIDE DEF s, k, n, path
  <2> QED
    BY <1>2, <2>1
<1>4. q = SubSeq(path, s + 1, k)
  <2>1. s \in 0..n /\ k \in 0..n /\ s <= k
    <3> HIDE DEF s, k, n
    <3> QED
      BY <1>3
  <2> QED
    BY <1>1, <2>1, BareIs
<1>5. /\ s = 0 => w = a /\ path[1] # Nothing
      /\ s # 0 => w = Along(a, path)[s]
      /\ path[s + 1] # Nothing \/ k = s + 1
  BY <1>1 DEF MadeOK, Course
<1>6. Course(call)[k] = Along(a, path)[k]
  BY DEF Course
<1>7. n = BareLen(path)
  OBVIOUS
<1> HIDE DEF s, k, n, w, a, path
<1>8. Resolve(w, q) = Along(a, path)[k]
  <2>1. Resolve(w, SubSeq(path, s + 1, k)) = Along(a, path)[k]
    BY <1>1, <1>3, <1>5, <1>7, RestLeads
  <2> QED
    BY <1>4, <2>1
<1>9. q \in Seq(Texts) /\ Len(q) = k - s /\ q[1] = path[s + 1]
  <2>1. path \in Seq(Texts) /\ s \in 0..Len(path) /\ k \in s..Len(path) /\ 1 \in 1..(k - s)
    BY <1>1, <1>2, <1>3 DEF IsPath
  <2> DEFINE t == SubSeq(path, s + 1, k)
  <2>2. t \in Seq(Texts) /\ Len(t) = k - s /\ \A i \in 1..(k - s) : t[i] = path[s + i]
    BY <2>1, PartOf
  <2> HIDE DEF t
  <2>3. q = t
    BY <1>4 DEF t
  <2> QED
    BY <2>1, <2>2, <2>3
<1>10. q = <<Nothing>> => k = s + 1 /\ path[k] = Nothing
  <2>1. Len(<<Nothing>>) = 1 /\ <<Nothing>>[1] = Nothing
    OBVIOUS
  <2>2. q = <<Nothing>> => k - s = 1 /\ path[s + 1] = Nothing
    BY <1>9, <2>1
  <2>3. k - s = 1 => k = s + 1
    BY <1>2, <1>3
  <2> QED
    BY <2>2, <2>3
<1>11. k = s + 1 /\ path[k] = Nothing => q = <<Nothing>>
  <2> SUFFICES ASSUME k = s + 1, path[k] = Nothing
               PROVE  q = <<Nothing>>
    OBVIOUS
  <2>1. Len(q) = 1 /\ q[1] = Nothing
    <3>1. (s + 1) - s = 1
      BY <1>2, <1>3
    <3> QED
      BY <1>9, <3>1
  <2>2. q # <<>>
    <3>1. Len(<<>>) = 0 /\ 1 # 0
      OBVIOUS
    <3> QED
      BY <2>1, <3>1
  <2>3. q = <<q[1]>>
    BY <1>9, <2>1, <2>2, PathLen DEF IsPath
  <2> QED
    BY <2>1, <2>3
<1> QED
  BY <1>6, <1>8, <1>10, <1>11 DEF w, path, k, s

LEMMA MakeOneMade ==
  ASSUME CallInv, PartInv, MadeInv, call.name = "mkdir", MakeOne
  PROVE  MadeInv'
<1>1. pc = "mkOne" /\ pc \in MkSteps
  BY DEF MakeOne, MkSteps
<1>2. /\ IsCall(call) /\ CacheInv /\ SeenOK(call, srv.dirs) /\ MadeOK("mkOne", call, srv.cwd)
      /\ call.path \in Seq(STRING) /\ Names(call.path)
      /\ \A r, c : AfterMkdir(r, c) = End(r, c)
  BY <1>1, InFTPMkdir
<1>3. PICK ok \in BOOLEAN :
        LET n == AfterMkdir(IF ok THEN "ok" ELSE "mkdFailed", call)
        IN MKD(Bare, ok, n.call) /\ Goes(n)
  BY DEF MakeOne
<1> DEFINE r == IF ok THEN "ok" ELSE "mkdFailed"
           d == [call EXCEPT !.result = r]
<1>4. MKD(Bare, ok, d) /\ pc' = "idle"
  BY <1>2, <1>3 DEF Goes, End
<1>5. GoesWith(d, call) /\ d.result = r
  BY <1>2 DEF GoesWith, IsCall, Fields
<1>6. r = "ok" => ok
  OBVIOUS
<1> HIDE DEF d, r
<1>7. IsCall(d) /\ SeenOK(d, srv.dirs) /\ Wanted(d) = Wanted(call) /\ d.name = "mkdir"
  BY <1>2, <1>5, GoesCourse DEF GoesWith
<1>8. Alike(call', d) /\ SeenOK(call', srv'.dirs)
  BY <1>2, <1>4, <1>7, CommandAlike, SeenStays DEF Command
<1>9. call'.result = "ok" => Wanted(call') \in call'.seen
  <2>1. Wanted(call') = Wanted(call) /\ call'.result = r
    <3>1. Wanted(call') = Wanted(d)
      BY <1>8 DEF Alike, Wanted, Course
    <3> QED
      BY <1>5, <1>7, <1>8, <3>1 DEF Alike
  <2>2. ok => Resolve(srv.cwd, Bare) \in call'.seen
    <3>1. ok => call'.seen = d.seen \cup {Resolve(srv.cwd, Bare)}
      BY <1>2, <1>3, <1>4, <1>7, MKDMakes
    <3> QED
      BY <3>1
  <2>3. Resolve(srv.cwd, Bare) = Wanted(call)
    <3> DEFINE n == BareLen(call.path)
               a == call.from
               path == call.path
    <3>1. Bare = SubSeq(path, 1, n) /\ srv.cwd = a /\ Wanted(call) = Along(a, path)[n]
      BY <1>2, BareIs DEF MadeOK, Wanted, Course
    <3>2. path \in Seq(STRING) /\ Names(path) /\ n = BareLen(path)
      BY <1>2
    <3> HIDE DEF n, a, path
    <3>3. Resolve(a, SubSeq(path, 1, n)) = Along(a, path)[n]
      BY <3>2, BareLeads
    <3> QED
      BY <3>1, <3>3
  <2> QED
    BY <1>6, <2>1, <2>2, <2>3
<1>10. MadeOK("idle", call', srv'.cwd)
  BY <1>9 DEF MadeOK
<1> QED
  BY <1>4, <1>8, <1>10 DEF MadeInv

LEMMA MakeNextMade ==
  ASSUME CallInv, PartInv, MadeInv, call.name = "mkdir", MakeNext
  PROVE  MadeInv'
<1>1. pc = "mkDo" /\ pc \in MkSteps
  BY DEF MakeNext, MkSteps
<1>2. /\ IsCall(call) /\ CacheInv /\ SeenOK(call, srv.dirs) /\ MadeOK("mkDo", call, srv.cwd)
      /\ call.path \in Seq(STRING) /\ Names(call.path)
  BY <1>1, InFTPMkdir
<1> DEFINE q == SubSeq(Bare, call.base + 1, call.k)
           b == Len(Bare)
           k == call.k
<1>3. PICK ok \in BOOLEAN :
        LET n == IF ok /\ MoreToMake THEN To("mkDo", [call EXCEPT !.k = @ + 1])
                 ELSE To("mkBack", [call EXCEPT !.result = IF ok THEN "ok" ELSE "mkdFailed"])
        IN MKD(q, ok, n.call) /\ Goes(n)
  BY DEF MakeNext
<1> DEFINE r == IF ok THEN "ok" ELSE "mkdFailed"
           n == IF ok /\ MoreToMake THEN To("mkDo", [call EXCEPT !.k = @ + 1])
                ELSE To("mkBack", [call EXCEPT !.result = r])
           d == n.call
<1>4. MKD(q, ok, d) /\ pc' = n.pc
  BY <1>3 DEF Goes
<1>5. /\ Resolve(srv.cwd, q) = Course(call)[k]
      /\ q = <<Nothing>> <=> k = call.base + 1 /\ call.path[k] = Nothing
  BY <1>1, RestIs
<1>6. \/ ok /\ n.pc = "mkDo" /\ d = [call EXCEPT !.k = k + 1]
      \/ ok /\ ~MoreToMake /\ n.pc = "mkBack" /\ d = [call EXCEPT !.result = r]
      \/ ~ok /\ n.pc = "mkBack" /\ d = [call EXCEPT !.result = r] /\ r # "ok"
  BY DEF To
<1>7. b = BareLen(call.path) /\ b \in Nat /\ k \in Nat /\ k <= b /\ call.base \in Nat
      /\ call.base < k
  <2>1. b = BareLen(call.path) /\ b \in 1..Len(call.path) /\ Len(call.path) \in Nat
    BY <1>2, BareLenIs, BareIs
  <2>2. k \in 0..Len(call.path) /\ call.base \in 0..Len(call.path) /\ call.base < k
        /\ k <= BareLen(call.path)
    BY <1>1 DEF PartInv, PartOK
  <2> HIDE DEF b, k
  <2> QED
    BY <2>1, <2>2
<1>8. ~MoreToMake => ~(k < b)
  BY DEF MoreToMake
<1> HIDE DEF n, d, r, q, b
<1>9. GoesWith(d, call)
  <2> HIDE DEF k
  <2> QED
    BY <1>2, <1>6 DEF GoesWith, IsCall, Fields
<1>10. IsCall(d) /\ SeenOK(d, srv.dirs) /\ d.name = "mkdir" /\ d.path = call.path
       /\ Course(d) = Course(call) /\ d.from = call.from
  BY <1>2, <1>9, GoesCourse DEF GoesWith
<1>11. Alike(call', d) /\ SeenOK(call', srv'.dirs) /\ srv'.cwd = srv.cwd
  BY <1>2, <1>4, <1>10, CommandAlike, SeenStays, MKDMakes DEF Command
<1>12. CASE ok /\ n.pc = "mkDo" /\ d = [call EXCEPT !.k = k + 1]
  <2> HIDE DEF k
  <2>1. d.k = k + 1 /\ d.base = call.base
    BY <1>2, <1>12 DEF IsCall, Fields
  <2>2. q # <<Nothing>>
    BY <1>4, <1>12 DEF MKD, Nothing
  <2>3. call.path[call.base + 1] # Nothing
    <3>1. CASE k = call.base + 1
      BY <1>5, <2>2, <3>1
    <3>2. CASE k # call.base + 1
      BY <1>2, <3>2 DEF MadeOK, k
    <3> QED
      BY <3>1, <3>2
  <2>4. MadeOK("mkDo", d, srv'.cwd)
    BY <1>2, <1>10, <1>11, <2>1, <2>3 DEF MadeOK
  <2> QED
    BY <1>4, <1>10, <1>12, <2>4, MadeConcludes
<1>13. CASE n.pc = "mkBack" /\ d = [call EXCEPT !.result = r] /\ (ok => ~MoreToMake) /\ (~ok => r # "ok")
  <2>1. d.result = r
    BY <1>2, <1>13 DEF IsCall, Fields
  <2>2. call'.result = r /\ Wanted(call') = Course(call)[b]
    BY <1>7, <1>10, <1>11, <2>1 DEF Alike, Wanted, Course
  <2>3. ok => Wanted(call') \in call'.seen
    <3> SUFFICES ASSUME ok
                 PROVE  Wanted(call') \in call'.seen
      OBVIOUS
    <3>1. Resolve(srv.cwd, q) \in call'.seen
      <4>1. call'.seen = d.seen \cup {Resolve(srv.cwd, q)}
        BY <1>2, <1>3, <1>4, <1>10, MKDMakes
      <4> QED
        BY <4>1
    <3>2. k = b
      BY <1>7, <1>8, <1>13
    <3> QED
      BY <1>5, <2>2, <3>1, <3>2
  <2>4. MadeOK("mkBack", call', srv'.cwd)
    BY <1>13, <2>2, <2>3 DEF MadeOK
  <2> QED
    BY <1>4, <1>11, <1>13, <2>4 DEF MadeInv
<1> QED
  BY <1>6, <1>12, <1>13

LEMMA FindParentMade ==
  ASSUME CallInv, PartInv, MadeInv, call.name = "mkdir", FindParent
  PROVE  MadeInv'
<1>1. pc = "mkUp" /\ pc \in MkSteps
  BY DEF FindParent, MkSteps
<1>2. /\ IsCall(call) /\ CacheInv /\ SeenOK(call, srv.dirs) /\ MadeOK("mkUp", call, srv.cwd)
      /\ call.path \in Seq(STRING) /\ Names(call.path) /\ IsPath(call.path)
  BY <1>1, InFTPMkdir
<1> DEFINE k == call.k
           j == k - 1
           b == BareLen(call.path)
<1>3. PICK ok \in BOOLEAN :
        LET n == IF ok THEN To("mkDo", [call EXCEPT !.base = call.k, !.k = @ + 1])
                 ELSE FromParent(call.k - 1, call)
        IN CWD(First(call.k), ok, n.call) /\ Goes(n)
  BY DEF FindParent
<1> DEFINE n == IF ok THEN To("mkDo", [call EXCEPT !.base = call.k, !.k = @ + 1])
                ELSE FromParent(call.k - 1, call)
           d == n.call
<1>4. CWD(First(k), ok, d) /\ pc' = n.pc
  BY <1>3 DEF Goes
<1>5. srv.cwd = call.from /\ (k = 1 => call.path[1] # Nothing)
  BY <1>2 DEF MadeOK
<1>6. k \in 1..b /\ k < b /\ k \in Nat /\ j \in Nat /\ j < b /\ (j = 0 => k = 1)
  <2>1. b \in 1..Len(call.path) /\ Len(call.path) \in Nat
    BY <1>2, BareLenIs
  <2>2. k \in 1..Len(call.path) /\ k < b
    BY <1>1 DEF PartInv, PartOK
  <2> HIDE DEF b, k
  <2> QED
    BY <2>1, <2>2
<1>7. \/ ok /\ n.pc = "mkDo" /\ d = [call EXCEPT !.base = k, !.k = k + 1]
      \/ ~ok /\ n = FromParent(j, call)
  BY DEF To
<1> HIDE DEF n, d, j
<1>8. GoesWith(d, call) /\ MadeOK(n.pc, d, srv'.cwd)
  <2>1. CASE ok /\ n.pc = "mkDo" /\ d = [call EXCEPT !.base = k, !.k = k + 1]
    <3>1. Resolve(srv.cwd, First(k)) = Course(call)[k]
      <4> DEFINE a == call.from
                 path == call.path
      <4>1. First(k) = SubSeq(path, 1, k)
        BY <1>2, <1>6, FirstIs
      <4>2. Course(call)[k] = Along(a, path)[k] /\ path \in Seq(STRING) /\ Names(path)
            /\ b = BareLen(path) /\ srv.cwd = a /\ (k = 1 => path[1] # Nothing)
        BY <1>2, <1>5 DEF Course
      <4> HIDE DEF a, path, b, k
      <4>3. Resolve(a, SubSeq(path, 1, k)) = Along(a, path)[k]
        BY <1>6, <4>2, BareLeads
      <4> QED
        BY <4>1, <4>2, <4>3
    <3>2. srv'.cwd = Course(call)[k]
      BY <1>2, <1>4, <2>1, <3>1, CWDGoes
    <3> HIDE DEF k, b
    <3>3. GoesWith(d, call) /\ d.base = k /\ d.k = k + 1
      BY <1>2, <2>1 DEF GoesWith, IsCall, Fields
    <3>4. Course(d) = Course(call) /\ k # 0
      BY <1>2, <1>6, <3>3, GoesCourse
    <3>5. MadeOK("mkDo", d, srv'.cwd)
      BY <3>2, <3>3, <3>4 DEF MadeOK
    <3> QED
      BY <2>1, <3>3, <3>5
  <2>2. CASE ~ok /\ n = FromParent(j, call)
    <3>1. srv'.cwd = srv.cwd
      BY <1>2, <1>4, <2>2, CWDGoes
    <3>2. GoesWith(n.call, call) /\ MadeOK(n.pc, n.call, srv.cwd)
      BY <1>1, <1>5, <1>6, <2>2, FromParentMade
    <3> QED
      BY <3>1, <3>2 DEF d
  <2> QED
    BY <1>7, <2>1, <2>2
<1>9. IsCall(d) /\ SeenOK(d, srv.dirs)
  BY <1>2, <1>8, GoesCourse DEF GoesWith
<1> QED
  BY <1>4, <1>8, <1>9, MadeConcludes

\* The application begins a call of FTPMkdir, or another.
LEMMA BeginsCall ==
  ASSUME NEW name, NEW path, NEW flags, NEW recurse, NEW cur,
         Begins(name, path, flags, recurse, cur)
  PROVE  /\ call'.name = name /\ call'.path = path /\ call'.from = srv.cwd
         /\ call'.recurse = recurse /\ call'.seen = srv.dirs /\ call'.meddled = FALSE
         /\ call'.denied = FALSE /\ call'.noPWD = FALSE /\ srv' = srv
<1> DEFINE at == IF name = "chdir3" THEN "full" ELSE "simple"
<1>1. /\ call' = [NoCall EXCEPT !.name = name, !.path = path, !.flags = flags, !.at = at,
                                !.recurse = recurse, !.cur = cur, !.from = srv.cwd,
                                !.k = 1, !.seen = srv.dirs]
      /\ srv' = srv
  BY DEF Begins
<1> HIDE DEF at
<1> QED
  BY <1>1 DEF NoCall

LEMMA Began ==
  ASSUME Application, call'.name = "mkdir"
  PROVE  /\ pc' \in {"mkPwd", "mkTry"} /\ call'.from = srv.cwd /\ call'.recurse \in BOOLEAN
         /\ call'.seen = srv.dirs /\ call'.meddled = FALSE /\ call'.denied = FALSE
         /\ call'.noPWD = FALSE /\ srv' = srv
<1>1. ASSUME NEW name, NEW path, NEW flags, NEW recurse, NEW cur,
             Begins(name, path, flags, recurse, cur)
      PROVE  name = "mkdir"
  BY <1>1, BeginsCall
<1>2. PICK path \in Paths, recurse \in BOOLEAN, cur \in {{}, {PathOf(srv.cwd)}} :
        FTPMkdir2(path, recurse, cur)
  BY <1>1 DEF Application, FTPGetCWD, FTPChdir, FTPChdirAndGetCWD, FTPFileType, FTPChdir3, FTPRmdir
<1>3. Begins("mkdir", path, {}, recurse, cur) /\ pc' \in {"mkPwd", "mkTry"}
  BY <1>2 DEF FTPMkdir2
<1> QED
  BY <1>3, BeginsCall

LEMMA ApplicationMade ==
  ASSUME Application
  PROVE  MadeInv'
<1>1. CASE call'.name # "mkdir"
  BY <1>1 DEF MadeInv, MadeOK, SeenOK
<1>2. CASE call'.name = "mkdir"
  BY <1>2, Began DEF MadeInv, MadeOK, SeenOK
<1> QED
  BY <1>1, <1>2

LEMMA MeddleMade ==
  ASSUME CallInv, MadeInv, Meddle
  PROVE  MadeInv'
<1>1. /\ IsCall(call) /\ pc' = pc /\ srv'.cwd = srv.cwd
      /\ call' = [call EXCEPT !.meddled = TRUE, !.seen = @ \cup srv'.dirs]
  BY MeddleSame, CallIs DEF Meddle
<1>2. /\ call'.name = call.name /\ call'.path = call.path /\ call'.from = call.from
      /\ call'.k = call.k /\ call'.base = call.base /\ call'.result = call.result
      /\ call'.recurse = call.recurse /\ call'.denied = call.denied
      /\ call'.meddled = TRUE /\ call'.seen = call.seen \cup srv'.dirs
  <2> DEFINE s == call.seen \cup srv'.dirs
  <2>1. call' = [call EXCEPT !.meddled = TRUE, !.seen = s]
    BY <1>1
  <2> HIDE DEF s
  <2>2. /\ call'.name = call.name /\ call'.path = call.path /\ call'.from = call.from
        /\ call'.k = call.k /\ call'.base = call.base /\ call'.result = call.result
        /\ call'.recurse = call.recurse /\ call'.denied = call.denied
        /\ call'.meddled = TRUE /\ call'.seen = s
    BY <1>1, <2>1 DEF IsCall, Fields
  <2> QED
    BY <2>2 DEF s
<1>3. Course(call') = Course(call) /\ Wanted(call') = Wanted(call)
  BY <1>2 DEF Course, Wanted
<1>4. MadeOK(pc', call', srv'.cwd)
  BY <1>1, <1>2, <1>3 DEF MadeInv, MadeOK
<1>5. SeenOK(call', srv'.dirs)
  BY <1>2 DEF MadeInv, SeenOK
<1> QED
  BY <1>4, <1>5 DEF MadeInv

LEMMA InitMade == ASSUME Init PROVE MadeInv
<1>1. call.name = "chdir"
  BY DEF Init, NoCall
<1> QED
  BY <1>1 DEF MadeInv, MadeOK, SeenOK

LEMMA StepMade == ASSUME CallInv, PartInv, MadeInv, [Next]_vars PROVE MadeInv'
<1>1. CASE Library /\ call.name = "mkdir"
  BY <1>1, OnlyMkdir, NotePlaceMade, TryExistingMade, BackMade, MakeOneMade, FindParentMade,
     MakeNextMade
<1>2. CASE Library /\ call.name # "mkdir"
  BY <1>2, NoMkdir DEF MadeInv, MadeOK, SeenOK
<1>3. CASE Application
  BY <1>3, ApplicationMade
<1>4. CASE Meddle
  BY <1>4, MeddleMade
<1>5. CASE UNCHANGED vars
  BY <1>5 DEF vars, MadeInv, MadeOK, SeenOK, Course, Wanted
<1> QED
  BY <1>1, <1>2, <1>3, <1>4, <1>5 DEF Next

LEMMA SaysWhatItMade == ASSUME CallInv, PartInv, MadeInv PROVE MkdirMakes
<1> SUFFICES ASSUME Ended, call.name = "mkdir", call.result = "ok"
             PROVE  Resolve(call.from, call.path) \in call.seen
  BY DEF MkdirMakes
<1>1. call.path \in Seq(STRING) /\ Names(call.path)
  BY PathsArePaths DEF PartInv, PartOK, Makes
<1>2. Wanted(call) \in call.seen
  BY DEF Ended, MadeInv, MadeOK
<1> QED
  BY <1>1, <1>2, WantedIs

-----------------------------------------------------------------------------
(* When FTPMkdir fails.                                                     *)

\* A path goes from a directory to one in it, and names no more once it has left Dirs.
LEMMA ParentOf ==
  ASSUME NEW U, NEW s \in Seq(U), NEW t \in U
  PROVE  Parent(Append(s, t)) = s /\ Append(s, t) # s
<1> DEFINE l == Len(s)
           u == Append(s, t)
<1>1. l \in Nat /\ u \in Seq(U) /\ Len(u) = l + 1 /\ \A i \in 1..l : u[i] = s[i]
  BY AppendProperties, LenProperties
<1>2. u # <<>> /\ u # s /\ (l + 1) - 1 = l
  <2>1. Len(<<>>) = 0
    OBVIOUS
  <2> HIDE DEF u
  <2> QED
    BY <1>1, <2>1
<1>3. Parent(u) = SubSeq(u, 0 + 1, l)
  <2>1. 0 + 1 = 1
    OBVIOUS
  <2> HIDE DEF u, l
  <2> QED
    BY <1>1, <1>2, <2>1 DEF Parent
<1> DEFINE v == SubSeq(u, 0 + 1, l)
<1>4. v \in Seq(U) /\ Len(v) = l - 0 /\ \A i \in 1..(l - 0) : v[i] = u[0 + i]
  <2>1. 0 \in 0..Len(u) /\ l \in 0..Len(u)
    <3> HIDE DEF u, l
    <3> QED
      BY <1>1
  <2> HIDE DEF u, l
  <2> QED
    BY <1>1, <2>1, PartOf
<1>5. v = s
  <2>1. Len(v) = Len(s) /\ \A i \in 1..Len(s) : v[i] = s[i]
    <3> HIDE DEF v, u
    <3> QED
      BY <1>1, <1>4
  <2> HIDE DEF v
  <2> QED
    BY <1>4, <2>1, SeqEqual
<1> QED
  BY <1>2, <1>3, <1>5

LEMMA ParentIsSeq ==
  ASSUME NEW U, NEW s \in Seq(U)
  PROVE  Parent(s) \in Seq(U)
<1>1. CASE s = <<>>
  BY <1>1 DEF Parent
<1>2. CASE s # <<>>
  <2> DEFINE l == Len(s)
  <2>1. l \in Nat /\ l # 0
    BY <1>2, LenProperties, EmptySeq
  <2>2. 0 \in 0..l /\ l - 1 \in 0..l /\ 0 + 1 = 1
    <3> HIDE DEF l
    <3> QED
      BY <2>1
  <2>3. SubSeq(s, 0 + 1, l - 1) \in Seq(U)
    BY <2>2, PartOf
  <2> QED
    BY <1>2, <2>2, <2>3 DEF Parent
<1> QED
  BY <1>1, <1>2

\* All the way is sequences of texts.
LEMMA AlongSeq ==
  ASSUME NEW a \in Seq(STRING), NEW path \in Seq(STRING), NEW k \in 0..Len(path)
  PROVE  Along(a, path)[k] \in Seq(STRING)
<1> DEFINE n == Len(path)
           OffAt(i) == Along(a, path)[i] \notin Seq(STRING)
           T == {i \in 0..n : OffAt(i)}
<1>1. n \in Nat
  BY LenProperties
<1>2. /\ Along(a, path)[0] = From(a, path)
      /\ \A i \in 1..n : Along(a, path)[i] = Piece(Along(a, path)[i - 1], path[i])
  BY <1>1, AlongIs
<1>3. SUFFICES ASSUME T # {}
               PROVE  FALSE
  <2> HIDE DEF n, OffAt
  <2>1. T = {} => ~OffAt(k)
    BY DEF n
  <2> QED
    BY <2>1 DEF OffAt
<1>4. T \subseteq Nat
  <2> HIDE DEF n, OffAt
  <2> QED
    BY <1>1
<1>5. PICK m \in T : \A i \in T : m <= i
  <2> HIDE DEF T
  <2> QED
    BY <1>3, <1>4, Least
<1>6. m \in 0..n /\ OffAt(m)
  OBVIOUS
<1>7. m # 0
  <2>1. From(a, path) \in {a, <<>>}
    BY DEF From
  <2>2. <<>> \in Seq(STRING)
    BY EmptySeq
  <2> QED
    BY <1>2, <1>6, <2>1, <2>2
<1>8. m \in 1..n /\ m - 1 \in 0..n /\ m - 1 < m
  <2> HIDE DEF n, OffAt, T
  <2> QED
    BY <1>1, <1>6, <1>7
<1>9. ~OffAt(m - 1)
  <2>1. m - 1 \notin T
    <3> HIDE DEF n, OffAt, T
    <3> QED
      BY <1>1, <1>5, <1>6, <1>8
  <2> HIDE DEF OffAt
  <2> QED
    BY <1>8, <2>1
<1>10. Along(a, path)[m - 1] \in Seq(STRING)
  BY <1>9
<1>11. path[m] \in STRING
  BY <1>8, ElementOfSeq
<1> DEFINE d == Along(a, path)[m - 1]
           t == path[m]
<1>12. Piece(d, t) \in Seq(STRING)
  <2>1. Parent(d) \in Seq(STRING) /\ Append(d, t) \in Seq(STRING)
    BY <1>10, <1>11, ParentIsSeq, AppendProperties
  <2> HIDE DEF d, t
  <2> QED
    BY <1>10, <2>1 DEF Piece, d
<1> QED
  BY <1>2, <1>6, <1>8, <1>12

\* The pieces of the path after its first are names.
NamesWithin(path) == \A i \in 2..BareLen(path) : path[i] \notin Special

LEMMA Descends ==
  ASSUME NEW a \in Dirs, NEW path \in Seq(STRING), Names(path), NamesWithin(path),
         NEW i \in 2..BareLen(path)
  PROVE  /\ Along(a, path)[i] = Append(Along(a, path)[i - 1], path[i])
         /\ Parent(Along(a, path)[i]) = Along(a, path)[i - 1]
         /\ Along(a, path)[i] # Along(a, path)[i - 1]
<1> DEFINE n == BareLen(path)
           l == Len(path)
           d == Along(a, path)[i - 1]
           t == path[i]
<1>1. n \in 1..l /\ l \in Nat
  BY BareLenIs
<1>2. i \in 1..l /\ i - 1 \in 0..l
  <2>1. i \in 2..n
    OBVIOUS
  <2> HIDE DEF n, l
  <2> QED
    BY <1>1, <2>1
<1>3. Along(a, path)[i] = Piece(d, t)
  BY <1>1, <1>2, AlongIs
<1>4. t \notin Special
  BY DEF NamesWithin
<1>5. Piece(d, t) = Append(d, t)
  <2> HIDE DEF d, t
  <2> QED
    BY <1>4, NameIs
<1>6. a \in Seq(STRING)
  BY DirNames
<1>7. d \in Seq(STRING) /\ t \in STRING
  BY <1>2, <1>6, AlongSeq, ElementOfSeq
<1> HIDE DEF d, t
<1>8. Parent(Append(d, t)) = d /\ Append(d, t) # d
  BY <1>7, ParentOf
<1> QED
  BY <1>3, <1>5, <1>8 DEF d, t

\* What is on the way to a directory that can exist can exist.
LEMMA Ancestors ==
  ASSUME NEW a \in Dirs, NEW path \in Seq(STRING), Names(path), NamesWithin(path),
         Along(a, path)[BareLen(path)] \in Dirs, NEW k \in 1..BareLen(path)
  PROVE  Along(a, path)[k] \in Dirs
<1> DEFINE n == BareLen(path)
           OffAt(i) == Along(a, path)[i] \notin Dirs
           T == {j \in 0..(n - 1) : OffAt(n - j)}
<1>1. n \in Nat /\ k \in 1..n /\ ~OffAt(n)
  <2>1. n \in 1..Len(path) /\ Len(path) \in Nat
    BY BareLenIs
  <2> HIDE DEF n
  <2> QED
    BY <2>1 DEF n
<1>2. \A i \in 2..n : ~OffAt(i) => ~OffAt(i - 1)
  <2> SUFFICES ASSUME NEW i \in 2..n, Along(a, path)[i] \in Dirs
               PROVE  Along(a, path)[i - 1] \in Dirs
    OBVIOUS
  <2>1. Parent(Along(a, path)[i]) = Along(a, path)[i - 1]
    BY Descends
  <2> QED
    BY <2>1, DirsAssumption
<1> HIDE DEF n, OffAt
<1>3. SUFFICES ASSUME OffAt(k)
               PROVE  FALSE
  BY DEF OffAt
<1>4. T \subseteq Nat /\ n - k \in T
  <2>1. n - k \in 0..(n - 1) /\ n - (n - k) = k
    BY <1>1
  <2> QED
    BY <1>1, <1>3, <2>1
<1>5. PICK m \in T : \A j \in T : m <= j
  <2> HIDE DEF T
  <2> QED
    BY <1>4, Least
<1>6. m \in 0..(n - 1) /\ OffAt(n - m)
  OBVIOUS
<1>7. m # 0
  <2>1. n - 0 = n
    BY <1>1
  <2> QED
    BY <1>1, <1>6, <2>1
<1>8. m - 1 \in 0..(n - 1) /\ m - 1 < m /\ n - (m - 1) \in 2..n /\ (n - (m - 1)) - 1 = n - m
  BY <1>1, <1>6, <1>7
<1>9. ~OffAt(n - (m - 1))
  <2>1. m - 1 \notin T
    <3> HIDE DEF T
    <3> QED
      BY <1>1, <1>5, <1>6, <1>8
  <2> QED
    BY <1>8, <2>1
<1> QED
  BY <1>2, <1>6, <1>8, <1>9

\* The first piece of a path, and the second of an absolute one.
LEMMA FirstSteps ==
  ASSUME NEW a \in Dirs, NEW path \in Seq(STRING), Names(path)
  PROVE  /\ path[1] # Nothing => LET d == Along(a, path)[1] IN
                                   d = a \/ d = Parent(a) \/ Parent(d) = a
         /\ path[1] = Nothing => Along(a, path)[1] = <<>> /\ BareLen(path) # 1
<1> DEFINE n == BareLen(path)
           d == Along(a, path)[1]
<1>1. n \in 1..Len(path) /\ Len(path) \in Nat /\ path[n] # Nothing
  BY BareLenIs
<1>2. 1 \in 1..Len(path) /\ 1 - 1 = 0
  <2> HIDE DEF n
  <2> QED
    BY <1>1
<1>3. Along(a, path)[0] = From(a, path) /\ d = Piece(From(a, path), path[1])
  BY <1>2, AlongIs
<1>4. path[1] \in STRING /\ a \in Seq(STRING)
  BY <1>2, ElementOfSeq, DirNames
<1>5. CASE path[1] # Nothing
  <2>1. d = Piece(a, path[1])
    BY <1>3, <1>5, FromIs
  <2> DEFINE t == path[1]
  <2>2. Parent(Append(a, t)) = a
    BY <1>4, ParentOf
  <2> HIDE DEF t, d
  <2>3. Piece(a, t) \in {a, Parent(a), Append(a, t)}
    BY DEF Piece
  <2>4. d = a \/ d = Parent(a) \/ Parent(d) = a
    BY <2>1, <2>2, <2>3 DEF t
  <2> QED
    BY <1>5, <2>4 DEF d
<1>6. CASE path[1] = Nothing
  <2>1. n # 1
    BY <1>1, <1>6
  <2>2. Len(path) > 1
    <3> HIDE DEF n
    <3> QED
      BY <1>1, <2>1
  <2>3. d = Piece(<<>>, Nothing)
    BY <1>3, <1>6, <2>2, FromIs
  <2>4. d = <<>>
    BY <2>3, NothingIs
  <2> QED
    BY <1>6, <2>1, <2>4
<1> QED
  BY <1>5, <1>6

LEMMA SecondStep ==
  ASSUME NEW a \in Dirs, NEW path \in Seq(STRING), Names(path), NamesWithin(path),
         path[1] = Nothing
  PROVE  2 \in 1..BareLen(path) /\ Along(a, path)[2] = <<path[2]>>
<1> DEFINE n == BareLen(path)
<1>1. n \in 1..Len(path) /\ Len(path) \in Nat /\ n # 1
  BY BareLenIs, FirstSteps
<1>2. 2 \in 2..n /\ 2 \in 1..n /\ 2 \in 1..Len(path) /\ 2 - 1 = 1
  <2> HIDE DEF n
  <2> QED
    BY <1>1
<1>3. Along(a, path)[2] = Append(Along(a, path)[1], path[2])
  BY <1>2, Descends
<1>4. Along(a, path)[1] = <<>>
  BY FirstSteps
<1>5. \A x : Append(<<>>, x) = <<x>>
  OBVIOUS
<1> QED
  BY <1>2, <1>3, <1>4, <1>5

\* A call of which nothing outside explains a failure, and what it also needs.
Ought(c) ==
  /\ c.name = "mkdir" /\ c.recurse = TRUE /\ c.denied = FALSE /\ c.meddled = FALSE
  /\ Wanted(c) \in Dirs /\ NamesWithin(c.path)
Hope(c) ==
  /\ c.from \in c.seen
  /\ c.path[1] = Nothing => Len(c.path) = 2 \/ <<c.path[2]>> \in c.seen
RootOnly(path) == BareLen(path) = 2 /\ path[1] = Nothing

\* What is not there yet, at each step, and what is.
Lacks(p, c) ==
  /\ p = "mkOne" => RootOnly(c.path) /\ Wanted(c) \notin c.seen
  /\ p = "mkUp" => Course(c)[c.k + 1] \notin c.seen /\ ~RootOnly(c.path)
  /\ p = "mkDo" => /\ Course(c)[c.k] \notin c.seen
                   /\ c.k # 1 => Course(c)[c.k - 1] \in c.seen
  /\ p \in {"mkBack", "idle"} /\ c.result # "ok" => ~Hope(c)
TriesOK(p, c) ==
  /\ c.name = "mkdir" /\ c.noPWD = TRUE => c.denied = TRUE
  /\ Ought(c) => Lacks(p, c)
TriesInv == Closed(srv.dirs) /\ TriesOK(pc, call)

\* A refusal explains everything.
LEMMA RefusedTries ==
  ASSUME NEW p, NEW d, d.denied = TRUE
  PROVE  TriesOK(p, d)
BY DEF TriesOK, Ought

LEMMA GoesOught ==
  ASSUME NEW d, NEW c, GoesWith(d, c)
  PROVE  /\ Ought(d) <=> Ought(c)
         /\ Hope(d) <=> Hope(c)
         /\ Course(d) = Course(c) /\ Wanted(d) = Wanted(c)
<1>1. Course(d) = Course(c) /\ Wanted(d) = Wanted(c)
  BY DEF GoesWith, Course, Wanted
<1> QED
  BY <1>1 DEF GoesWith, Ought, Hope

\* The first part of TriesOK, and the second.
LEMMA TriesFrom ==
  ASSUME NEW p, NEW c, TriesOK(p, c), c.name = "mkdir", NEW q, NEW d, GoesWith(d, c),
         Ought(c) => Lacks(q, d)
  PROVE  TriesOK(q, d)
<1>1. Ought(d) <=> Ought(c)
  BY GoesOught
<1> QED
  BY <1>1 DEF TriesOK, GoesWith

\* What an answer to CWD or MKD tells, unless it is a refusal.
LEMMA CWDTells ==
  ASSUME CacheInv, NEW c, IsCall(c), NEW ok \in BOOLEAN, NEW path, CWD(path, ok, c),
         call'.denied # TRUE
  PROVE  /\ call' = c
         /\ ok /\ path # <<Nothing>> => Resolve(srv.cwd, path) \in srv.dirs
         /\ ~ok => Resolve(srv.cwd, path) \notin srv.dirs
<1>1. ~\E d : d = [c EXCEPT !.denied = TRUE] /\ call' = d
  BY DEF IsCall, Fields
<1>2. ~Denied(c)
  BY <1>1 DEF Denied
<1> QED
  BY <1>2 DEF CWD, Unasked, Target, Nothing

LEMMA MKDTells ==
  ASSUME CacheInv, NEW c, IsCall(c), NEW ok \in BOOLEAN, NEW path, MKD(path, ok, c),
         call'.denied # TRUE, ~ok
  PROVE  LET dir == Resolve(srv.cwd, path) IN
         /\ call' = c
         /\ path = <<Nothing>> \/ dir \in srv.dirs \/ dir \notin Dirs \/ Parent(dir) \notin srv.dirs
<1>1. ~\E d : d = [c EXCEPT !.denied = TRUE] /\ call' = d
  BY DEF IsCall, Fields
<1>2. ~Denied(c)
  BY <1>1 DEF Denied
<1> QED
  BY <1>2 DEF MKD, Unasked, Target, Nothing

\* What there is, is what has been seen, as long as nobody interferes.
LEMMA SeenIs ==
  ASSUME SeenOK(call, srv.dirs), Ought(call)
  PROVE  srv.dirs = call.seen
BY DEF SeenOK, Ought

\* What is known of FTPMkdir in one of its steps.
LEMMA InTries ==
  ASSUME CallInv, PartInv, MadeInv, TriesInv, pc \in MkSteps, call.name = "mkdir"
  PROVE  /\ IsCall(call) /\ CacheInv /\ call.from \in Dirs
         /\ call.path \in Seq(STRING) /\ Names(call.path) /\ IsPath(call.path)
         /\ SeenOK(call, srv.dirs) /\ TriesOK(pc, call) /\ Closed(srv.dirs)
         /\ Ought(call) => /\ Lacks(pc, call) /\ srv.dirs = call.seen
                           /\ NamesWithin(call.path) /\ call.recurse = TRUE
         /\ \A r, c : AfterMkdir(r, c) = End(r, c)
<1>1. /\ IsCall(call) /\ CacheInv /\ call.from \in Dirs
      /\ call.path \in Seq(STRING) /\ Names(call.path) /\ IsPath(call.path)
      /\ SeenOK(call, srv.dirs) /\ \A r, c : AfterMkdir(r, c) = End(r, c)
  BY InFTPMkdir, CallIs
<1> QED
  BY <1>1, SeenIs DEF TriesInv, TriesOK, Ought

\* An end, for a call that had no hope or did what it should.
LEMMA EndTries ==
  ASSUME NEW p, NEW c, TriesOK(p, c), c.name = "mkdir", NEW d, GoesWith(d, c),
         NEW q \in {"mkBack", "idle"}, Ought(c) => d.result = "ok" \/ ~Hope(c)
  PROVE  TriesOK(q, d)
<1>1. Hope(d) <=> Hope(c)
  BY GoesOught
<1>2. Ought(c) => Lacks(q, d)
  BY <1>1 DEF Lacks
<1> QED
  BY <1>2, TriesFrom

\* On the way to the parent.
LEMMA FromParentTries ==
  ASSUME CallInv, PartInv, MadeInv, TriesInv, pc \in MkSteps, call.name = "mkdir", NEW k \in Nat,
         k < BareLen(call.path),
         Ought(call) => Course(call)[k + 1] \notin call.seen /\ ~RootOnly(call.path),
         NEW n, n = FromParent(k, call)
  PROVE  GoesWith(n.call, call) /\ TriesOK(n.pc, n.call)
<1> DEFINE d == n.call
           b == BareLen(call.path)
<1>1. /\ IsCall(call) /\ IsPath(call.path) /\ call.path \in Seq(STRING) /\ Names(call.path)
      /\ call.from \in Dirs /\ TriesOK(pc, call)
      /\ Ought(call) => NamesWithin(call.path)
  BY InTries
<1>2. \/ k = 0 /\ n = To("mkDo", [call EXCEPT !.base = 0, !.k = 1])
      \/ k = 1 /\ call.path[1] = Nothing /\ n = End("mkdFailed", call)
      \/ n = To("mkUp", [call EXCEPT !.k = k])
  BY <1>1, FromParentIs
<1>3. CASE k = 0 /\ n = To("mkDo", [call EXCEPT !.base = 0, !.k = 1])
  <2>1. n.pc = "mkDo" /\ d = [call EXCEPT !.base = 0, !.k = 1]
    BY <1>3 DEF To
  <2> HIDE DEF d
  <2>2. GoesWith(d, call) /\ d.k = 1
    BY <1>1, <2>1 DEF GoesWith, IsCall, Fields
  <2>3. Course(d) = Course(call) /\ d.seen = call.seen /\ k + 1 = 1
    BY <1>3, <2>2, GoesOught DEF GoesWith
  <2>4. Ought(call) => Lacks("mkDo", d)
    BY <2>2, <2>3 DEF Lacks
  <2> QED
    BY <1>1, <2>1, <2>2, <2>4, TriesFrom DEF d
<1>4. CASE k = 1 /\ call.path[1] = Nothing /\ n = End("mkdFailed", call)
  <2>1. n.pc = "idle" /\ d = [call EXCEPT !.result = "mkdFailed"]
    BY <1>4 DEF End
  <2> HIDE DEF d
  <2>2. GoesWith(d, call)
    BY <1>1, <2>1 DEF GoesWith, IsCall, Fields
  <2>3. ASSUME Ought(call)
        PROVE  ~Hope(call)
    <3>1. Course(call)[2] = <<call.path[2]>> /\ Course(call)[2] \notin call.seen
      <4>1. k + 1 = 2
        BY <1>4
      <4>2. Along(call.from, call.path)[2] = <<call.path[2]>>
        BY <1>1, <1>4, <2>3, SecondStep
      <4> QED
        BY <2>3, <4>1, <4>2 DEF Course
    <3>2. Len(call.path) # 2
      <4> DEFINE l == Len(call.path)
      <4>1. b \in 1..l /\ l \in Nat
        BY <1>1, BareLenIs
      <4>2. 2 \in 1..b
        BY <1>1, <1>4, <2>3, SecondStep
      <4>3. b # 2
        BY <1>4, <2>3 DEF RootOnly
      <4> HIDE DEF b, l
      <4>4. l # 2
        BY <4>1, <4>2, <4>3
      <4> QED
        BY <4>4 DEF l
    <3> QED
      BY <1>4, <3>1, <3>2 DEF Hope
  <2>4. TriesOK("idle", d)
    BY <1>1, <2>2, <2>3, EndTries
  <2> QED
    BY <2>1, <2>2, <2>4 DEF d
<1>5. CASE n = To("mkUp", [call EXCEPT !.k = k])
  <2>1. n.pc = "mkUp" /\ d = [call EXCEPT !.k = k]
    BY <1>5 DEF To
  <2> HIDE DEF d
  <2>2. GoesWith(d, call) /\ d.k = k
    BY <1>1, <2>1 DEF GoesWith, IsCall, Fields
  <2>3. Course(d) = Course(call) /\ d.seen = call.seen /\ d.path = call.path
    BY <2>2, GoesOught DEF GoesWith
  <2>4. Ought(call) => Lacks("mkUp", d)
    BY <2>2, <2>3 DEF Lacks
  <2> QED
    BY <1>1, <2>1, <2>2, <2>4, TriesFrom DEF d
<1> QED
  BY <1>2, <1>3, <1>4, <1>5

LEMMA NotePlaceTries ==
  ASSUME CallInv, PartInv, MadeInv, TriesInv, call.name = "mkdir", NotePlace
  PROVE  TriesOK(pc', call')
<1>1. pc = "mkPwd" /\ pc \in MkSteps /\ pc' = "mkTry"
  BY DEF NotePlace, MkSteps
<1>2. IsCall(call) /\ TriesOK(pc, call)
  BY <1>1, InTries
<1>3. PICK ok \in BOOLEAN, got \in {{}, cip.cwd, {PathOf(srv.cwd)}} : GetCWD(ok, got, call)
  BY DEF NotePlace
<1>4. call' = call \/ call' = [[call EXCEPT !.noPWD = TRUE] EXCEPT !.denied = TRUE]
  BY <1>3 DEF GetCWD, Unasked, Denied
<1>5. CASE call' = call
  BY <1>1, <1>2, <1>5 DEF TriesOK, Lacks
<1>6. CASE call' = [[call EXCEPT !.noPWD = TRUE] EXCEPT !.denied = TRUE]
  <2>1. call'.denied = TRUE
    BY <1>2, <1>6 DEF IsCall, Fields
  <2> QED
    BY <2>1, RefusedTries
<1> QED
  BY <1>4, <1>5, <1>6

LEMMA TryExistingTries ==
  ASSUME CallInv, PartInv, MadeInv, TriesInv, call.name = "mkdir", TryExisting
  PROVE  TriesOK(pc', call')
<1>1. SUFFICES ASSUME call'.denied # TRUE
               PROVE  TriesOK(pc', call')
  BY RefusedTries
<1>2. PICK ok \in BOOLEAN :
        LET n == IF ok THEN To("mkUndo", call)
                 ELSE IF ~Recursive \/ (Len(Bare) = 2 /\ Bare[1] = "") THEN To("mkOne", call)
                 ELSE FromParent(Len(Bare) - 1, call)
        IN CWD(call.path, ok, n.call) /\ Goes(n)
  BY DEF TryExisting
<1> DEFINE b == Len(Bare) - 1
           n == IF ok THEN To("mkUndo", call)
                ELSE IF ~Recursive \/ (Len(Bare) = 2 /\ Bare[1] = "") THEN To("mkOne", call)
                ELSE FromParent(b, call)
           d == n.call
<1>3. pc = "mkTry" /\ pc \in MkSteps /\ CWD(call.path, ok, d) /\ pc' = n.pc
  BY <1>2 DEF TryExisting, Goes, MkSteps
<1>4. /\ IsCall(call) /\ CacheInv /\ TriesOK(pc, call) /\ MadeOK("mkTry", call, srv.cwd)
      /\ call.path \in Seq(STRING) /\ Names(call.path)
      /\ Ought(call) => srv.dirs = call.seen /\ call.recurse = TRUE
  BY <1>3, InTries, InFTPMkdir
<1>5. Len(Bare) = BareLen(call.path) /\ Bare[1] = call.path[1]
  BY <1>4, BareIs
<1>6. \/ ok /\ n = To("mkUndo", call)
      \/ ~ok /\ n = To("mkOne", call) /\ (Ought(call) => RootOnly(call.path))
      \/ ~ok /\ n = FromParent(b, call) /\ ~RootOnly(call.path)
  BY <1>4, <1>5 DEF Recursive, RootOnly, Nothing
<1>7. b \in Nat /\ b < BareLen(call.path) /\ b + 1 = BareLen(call.path)
  <2> DEFINE m == BareLen(call.path)
  <2>1. m \in 1..Len(call.path) /\ Len(call.path) \in Nat /\ b = m - 1
    BY <1>4, <1>5, BareLenIs
  <2> HIDE DEF m, b
  <2> QED
    BY <2>1 DEF m
<1> HIDE DEF b, n, d
<1>8. IsCall(d)
  <2>1. CASE n = To("mkUndo", call) \/ n = To("mkOne", call)
    BY <1>4, <2>1 DEF To, d
  <2>2. CASE n = FromParent(b, call)
    <3>1. PartOK(pc, call)
      BY DEF PartInv
    <3> QED
      BY <1>3, <1>4, <1>7, <2>2, <3>1, FromParentPart DEF d
  <2> QED
    BY <1>6, <2>1, <2>2
<1>9. call' = d /\ (~ok => Resolve(srv.cwd, call.path) \notin srv.dirs)
  BY <1>1, <1>3, <1>4, <1>8, CWDTells
<1>10. ~ok /\ Ought(call) => Wanted(call) \notin call.seen
  <2>1. srv.cwd = call.from
    BY <1>4 DEF MadeOK
  <2> QED
    BY <1>4, <1>9, <2>1, WantedIs
<1>11. CASE ok /\ n = To("mkUndo", call)
  <2>1. n.pc = "mkUndo" /\ d = call
    BY <1>11 DEF To, d
  <2>2. Lacks("mkUndo", call)
    BY DEF Lacks
  <2> QED
    BY <1>3, <1>4, <1>9, <2>1, <2>2 DEF TriesOK
<1>12. CASE ~ok /\ n = To("mkOne", call) /\ (Ought(call) => RootOnly(call.path))
  <2>1. n.pc = "mkOne" /\ d = call
    BY <1>12 DEF To, d
  <2>2. Ought(call) => Lacks("mkOne", call)
    BY <1>10, <1>12 DEF Lacks
  <2> QED
    BY <1>3, <1>4, <1>9, <2>1, <2>2 DEF TriesOK
<1>13. CASE ~ok /\ n = FromParent(b, call) /\ ~RootOnly(call.path)
  <2>1. Ought(call) => Course(call)[b + 1] \notin call.seen
    BY <1>7, <1>10, <1>13 DEF Wanted
  <2>2. TriesOK(n.pc, n.call)
    BY <1>3, <1>7, <1>13, <2>1, FromParentTries
  <2> QED
    BY <1>3, <1>9, <2>2 DEF d
<1> QED
  BY <1>6, <1>11, <1>12, <1>13

LEMMA FindParentTries ==
  ASSUME CallInv, PartInv, MadeInv, TriesInv, call.name = "mkdir", FindParent
  PROVE  TriesOK(pc', call')
<1>1. SUFFICES ASSUME call'.denied # TRUE
               PROVE  TriesOK(pc', call')
  BY RefusedTries
<1>2. PICK ok \in BOOLEAN :
        LET n == IF ok THEN To("mkDo", [call EXCEPT !.base = call.k, !.k = @ + 1])
                 ELSE FromParent(call.k - 1, call)
        IN CWD(First(call.k), ok, n.call) /\ Goes(n)
  BY DEF FindParent
<1> DEFINE k == call.k
           j == k - 1
           b == BareLen(call.path)
           n == IF ok THEN To("mkDo", [call EXCEPT !.base = call.k, !.k = @ + 1])
                ELSE FromParent(call.k - 1, call)
           d == n.call
<1>3. pc = "mkUp" /\ pc \in MkSteps /\ CWD(First(k), ok, d) /\ pc' = n.pc
  BY <1>2 DEF FindParent, Goes, MkSteps
<1>4. /\ IsCall(call) /\ CacheInv /\ TriesOK(pc, call) /\ MadeOK("mkUp", call, srv.cwd)
      /\ call.path \in Seq(STRING) /\ Names(call.path) /\ IsPath(call.path)
      /\ Ought(call) => srv.dirs = call.seen /\ Lacks("mkUp", call)
  BY <1>3, InTries, InFTPMkdir
<1>5. k \in 1..b /\ k \in Nat /\ j \in Nat /\ j < b /\ j + 1 = k /\ (k + 1) - 1 = k
  <2>1. b \in 1..Len(call.path) /\ Len(call.path) \in Nat
    BY <1>4, BareLenIs
  <2>2. k \in 1..Len(call.path) /\ k < b
    BY <1>3 DEF PartInv, PartOK
  <2> HIDE DEF b, k
  <2> QED
    BY <2>1, <2>2
<1>6. \/ ok /\ n.pc = "mkDo" /\ d = [call EXCEPT !.base = k, !.k = k + 1]
      \/ ~ok /\ n = FromParent(j, call)
  BY DEF To
<1> HIDE DEF n, d, j
<1>7. Resolve(srv.cwd, First(k)) = Course(call)[k] /\ First(k) # <<Nothing>>
  <2> DEFINE a == call.from
             path == call.path
  <2>1. First(k) = SubSeq(path, 1, k) /\ (First(k) = <<Nothing>> => k = 1 /\ path[1] = Nothing)
    BY <1>4, <1>5, FirstIs
  <2>2. Course(call)[k] = Along(a, path)[k] /\ path \in Seq(STRING) /\ Names(path)
        /\ b = BareLen(path) /\ srv.cwd = a /\ (k = 1 => path[1] # Nothing)
    BY <1>4 DEF Course, MadeOK
  <2> HIDE DEF a, path, b, k
  <2>3. Resolve(a, SubSeq(path, 1, k)) = Along(a, path)[k]
    BY <1>5, <2>2, BareLeads
  <2> QED
    BY <2>1, <2>2, <2>3
<1>8. IsCall(d)
  <2>1. CASE d = [call EXCEPT !.base = k, !.k = k + 1]
    <3> HIDE DEF k
    <3> QED
      BY <1>4, <2>1 DEF IsCall, Fields
  <2>2. CASE n = FromParent(j, call)
    <3>1. PartOK(pc, call)
      BY DEF PartInv
    <3> QED
      BY <1>3, <1>4, <1>5, <2>2, <3>1, FromParentPart DEF d
  <2> QED
    BY <1>6, <2>1, <2>2
<1>9. /\ call' = d
      /\ ok => Course(call)[k] \in srv.dirs
      /\ ~ok => Course(call)[k] \notin srv.dirs
  BY <1>1, <1>2, <1>3, <1>4, <1>7, <1>8, CWDTells
<1>10. CASE ok /\ n.pc = "mkDo" /\ d = [call EXCEPT !.base = k, !.k = k + 1]
  <2> HIDE DEF k, b
  <2>1. GoesWith(d, call) /\ d.k = k + 1
    BY <1>4, <1>10 DEF GoesWith, IsCall, Fields
  <2>2. Course(d) = Course(call) /\ d.seen = call.seen
    BY <2>1, GoesOught DEF GoesWith
  <2>3. Ought(call) => Course(call)[k + 1] \notin call.seen /\ Course(call)[k] \in call.seen
    BY <1>4, <1>9, <1>10 DEF Lacks, k
  <2>4. Ought(call) => Lacks("mkDo", d)
    BY <1>5, <2>1, <2>2, <2>3 DEF Lacks
  <2>5. TriesOK("mkDo", d)
    BY <1>4, <2>1, <2>4, TriesFrom
  <2> QED
    BY <1>3, <1>9, <1>10, <2>5
<1>11. CASE ~ok /\ n = FromParent(j, call)
  <2>1. Ought(call) => Course(call)[j + 1] \notin call.seen /\ ~RootOnly(call.path)
    BY <1>4, <1>5, <1>9, <1>11 DEF Lacks
  <2>2. TriesOK(n.pc, n.call)
    BY <1>3, <1>5, <1>11, <2>1, FromParentTries
  <2> QED
    BY <1>3, <1>9, <2>2 DEF d
<1> QED
  BY <1>6, <1>10, <1>11

LEMMA MakeOneTries ==
  ASSUME CallInv, PartInv, MadeInv, TriesInv, call.name = "mkdir", MakeOne
  PROVE  TriesOK(pc', call')
<1>1. SUFFICES ASSUME call'.denied # TRUE
               PROVE  TriesOK(pc', call')
  BY RefusedTries
<1>2. pc = "mkOne" /\ pc \in MkSteps
  BY DEF MakeOne, MkSteps
<1>3. /\ IsCall(call) /\ CacheInv /\ TriesOK(pc, call) /\ MadeOK("mkOne", call, srv.cwd)
      /\ call.path \in Seq(STRING) /\ Names(call.path) /\ call.from \in Dirs
      /\ Closed(srv.dirs)
      /\ Ought(call) => srv.dirs = call.seen /\ Lacks("mkOne", call) /\ NamesWithin(call.path)
      /\ \A r, c : AfterMkdir(r, c) = End(r, c)
  BY <1>2, InTries, InFTPMkdir
<1>4. PICK ok \in BOOLEAN :
        LET n == AfterMkdir(IF ok THEN "ok" ELSE "mkdFailed", call)
        IN MKD(Bare, ok, n.call) /\ Goes(n)
  BY DEF MakeOne
<1> DEFINE r == IF ok THEN "ok" ELSE "mkdFailed"
           d == [call EXCEPT !.result = r]
<1>5. MKD(Bare, ok, d) /\ pc' = "idle"
  BY <1>3, <1>4 DEF Goes, End
<1>6. GoesWith(d, call) /\ d.result = r
  BY <1>3 DEF GoesWith, IsCall, Fields
<1>7. ok => r = "ok"
  OBVIOUS
<1> HIDE DEF d, r
<1>8. IsCall(d) /\ d.name = "mkdir"
  BY <1>6 DEF GoesWith
<1>9. CASE ok
  <2>1. Alike(call', d) /\ call'.denied = d.denied /\ call'.noPWD = d.noPWD
    BY <1>3, <1>4, <1>5, <1>8, <1>9, CommandAlike, MKDMakes DEF Command
  <2>2. call'.result = "ok"
    BY <1>6, <1>7, <1>9, <2>1 DEF Alike
  <2>3. Lacks("idle", call')
    BY <2>2 DEF Lacks
  <2>4. call'.noPWD = TRUE => call'.denied = TRUE
    BY <1>3, <1>6, <2>1 DEF TriesOK, GoesWith
  <2> QED
    BY <1>5, <2>3, <2>4 DEF TriesOK
<1>10. CASE ~ok
  <2> DEFINE dir == Resolve(srv.cwd, Bare)
  <2>1. /\ call' = d
        /\ Bare = <<Nothing>> \/ dir \in srv.dirs \/ dir \notin Dirs \/ Parent(dir) \notin srv.dirs
    BY <1>1, <1>3, <1>4, <1>5, <1>8, <1>10, MKDTells
  <2>2. ~Ought(call)
    <3> SUFFICES ASSUME Ought(call)
                 PROVE  FALSE
      OBVIOUS
    <3>1. /\ RootOnly(call.path) /\ Wanted(call) \notin srv.dirs /\ NamesWithin(call.path)
          /\ Wanted(call) \in Dirs
      BY <1>3 DEF Lacks, Ought
    <3>2. dir = Wanted(call)
      <4> DEFINE n == BareLen(call.path)
                 a == call.from
                 path == call.path
      <4>1. Bare = SubSeq(path, 1, n) /\ srv.cwd = a /\ Wanted(call) = Along(a, path)[n]
        BY <1>3, BareIs DEF MadeOK, Wanted, Course
      <4>2. path \in Seq(STRING) /\ Names(path) /\ n = BareLen(path)
        BY <1>3
      <4> HIDE DEF n, a, path
      <4>3. Resolve(a, SubSeq(path, 1, n)) = Along(a, path)[n]
        BY <4>2, BareLeads
      <4> QED
        BY <4>1, <4>3
    <3>3. BareLen(call.path) = 2 /\ call.path[1] = Nothing
      BY <3>1 DEF RootOnly
    <3>4. Bare # <<Nothing>>
      <4>1. Len(<<Nothing>>) = 1 /\ Len(Bare) = 2
        BY <1>3, <3>3, BareIs
      <4> QED
        BY <4>1
    <3>5. Parent(Wanted(call)) = <<>>
      <4>1. 2 \in 2..BareLen(call.path) /\ 2 - 1 = 1
        BY <3>3
      <4>2. Parent(Along(call.from, call.path)[2]) = Along(call.from, call.path)[1]
        BY <1>3, <3>1, <4>1, Descends
      <4>3. Along(call.from, call.path)[1] = <<>>
        BY <1>3, <3>3, FirstSteps
      <4> QED
        BY <3>3, <4>2, <4>3 DEF Wanted, Course
    <3> HIDE DEF dir
    <3> QED
      BY <1>3, <2>1, <3>1, <3>2, <3>4, <3>5 DEF Closed
  <2>3. TriesOK("idle", d)
    BY <1>3, <1>6, <2>2, EndTries
  <2> QED
    BY <1>5, <2>1, <2>3
<1> QED
  BY <1>9, <1>10

\* MKD of what ought to be made next.
LEMMA NextIsPossible ==
  ASSUME CallInv, PartInv, MadeInv, TriesInv, pc = "mkDo", call.name = "mkdir",
         Ought(call), Hope(call), NEW q, q = SubSeq(Bare, call.base + 1, call.k)
  PROVE  LET dir == Resolve(srv.cwd, q) IN
         q # <<Nothing>> /\ dir \notin srv.dirs /\ dir \in Dirs /\ Parent(dir) \in srv.dirs
<1> DEFINE k == call.k
           n == BareLen(call.path)
           dir == Course(call)[k]
<1>1. /\ call.path \in Seq(STRING) /\ Names(call.path) /\ call.from \in Dirs
      /\ Closed(srv.dirs) /\ MadeOK("mkDo", call, srv.cwd) /\ NamesWithin(call.path)
      /\ srv.dirs = call.seen /\ Lacks("mkDo", call)
  BY InTries, InFTPMkdir DEF MkSteps
<1>2. k \in 1..n /\ call.base \in Nat /\ (k = 1 => call.base = 0) /\ (k # 1 => k \in 2..n)
  <2> DEFINE s == call.base
  <2>1. n \in 1..Len(call.path) /\ Len(call.path) \in Nat
    BY <1>1, BareLenIs
  <2>2. k \in 0..Len(call.path) /\ s \in 0..Len(call.path) /\ s < k /\ k <= n
    BY DEF PartInv, PartOK
  <2> HIDE DEF n, k, s
  <2>3. k \in 1..n /\ s \in Nat /\ (k = 1 => s = 0) /\ (k # 1 => k \in 2..n)
    BY <2>1, <2>2
  <2> QED
    BY <2>3 DEF s
<1>3. /\ Resolve(srv.cwd, q) = dir
      /\ q = <<Nothing>> => k = call.base + 1 /\ call.path[k] = Nothing
  BY RestIs
<1>4. dir \notin srv.dirs
  BY <1>1 DEF Lacks
<1>5. dir \in Dirs
  BY <1>1, <1>2, Ancestors DEF Ought, Wanted, Course
<1>6. q # <<Nothing>>
  <2> SUFFICES ASSUME q = <<Nothing>>
               PROVE  FALSE
    OBVIOUS
  <2>1. CASE k = 1
    BY <1>1, <1>2, <1>3, <2>1 DEF MadeOK
  <2>2. CASE k # 1
    BY <1>1, <1>2, <1>3, <2>2 DEF NamesWithin, Special, Nothing
  <2> QED
    BY <2>1, <2>2
<1>7. Parent(dir) \in srv.dirs
  <2>1. CASE k = 1
    <3>1. call.path[1] # Nothing /\ call.from \in srv.dirs
      BY <1>1, <1>2, <2>1 DEF MadeOK, Hope
    <3>2. dir = call.from \/ dir = Parent(call.from) \/ Parent(dir) = call.from
      BY <1>1, <2>1, <3>1, FirstSteps DEF Course
    <3> HIDE DEF dir
    <3> QED
      BY <1>1, <1>4, <3>1, <3>2 DEF Closed
  <2>2. CASE k # 1
    <3>1. Course(call)[k - 1] \in srv.dirs
      BY <1>1, <2>2 DEF Lacks
    <3>2. Parent(dir) = Course(call)[k - 1]
      BY <1>1, <1>2, <2>2, Descends DEF Course
    <3> QED
      BY <3>1, <3>2
  <2> QED
    BY <2>1, <2>2
<1> QED
  BY <1>3, <1>4, <1>5, <1>6, <1>7

LEMMA MakeNextTries ==
  ASSUME CallInv, PartInv, MadeInv, TriesInv, call.name = "mkdir", MakeNext
  PROVE  TriesOK(pc', call')
<1>1. SUFFICES ASSUME call'.denied # TRUE
               PROVE  TriesOK(pc', call')
  BY RefusedTries
<1>2. pc = "mkDo" /\ pc \in MkSteps
  BY DEF MakeNext, MkSteps
<1>3. /\ IsCall(call) /\ CacheInv /\ TriesOK(pc, call) /\ SeenOK(call, srv.dirs)
      /\ call.path \in Seq(STRING) /\ Names(call.path) /\ call.from \in Dirs
      /\ Closed(srv.dirs)
      /\ Ought(call) => srv.dirs = call.seen /\ Lacks("mkDo", call) /\ NamesWithin(call.path)
  BY <1>2, InTries
<1> DEFINE q == SubSeq(Bare, call.base + 1, call.k)
           b == Len(Bare)
           k == call.k
<1>4. PICK ok \in BOOLEAN :
        LET n == IF ok /\ MoreToMake THEN To("mkDo", [call EXCEPT !.k = @ + 1])
                 ELSE To("mkBack", [call EXCEPT !.result = IF ok THEN "ok" ELSE "mkdFailed"])
        IN MKD(q, ok, n.call) /\ Goes(n)
  BY DEF MakeNext
<1> DEFINE r == IF ok THEN "ok" ELSE "mkdFailed"
           n == IF ok /\ MoreToMake THEN To("mkDo", [call EXCEPT !.k = @ + 1])
                ELSE To("mkBack", [call EXCEPT !.result = r])
           d == n.call
<1>5. MKD(q, ok, d) /\ pc' = n.pc
  BY <1>4 DEF Goes
<1>6. \/ ok /\ MoreToMake /\ n.pc = "mkDo" /\ d = [call EXCEPT !.k = k + 1]
      \/ ok /\ n.pc = "mkBack" /\ d = [call EXCEPT !.result = r] /\ r = "ok"
      \/ ~ok /\ n.pc = "mkBack" /\ d = [call EXCEPT !.result = r]
  BY DEF To
<1>7. Resolve(srv.cwd, q) = Course(call)[k]
  BY <1>2, RestIs
<1>8. MoreToMake => k + 1 \in 2..BareLen(call.path) /\ k + 1 # 1 /\ (k + 1) - 1 = k
  <2> DEFINE m == BareLen(call.path)
             s == call.base
  <2>1. m \in 1..Len(call.path) /\ Len(call.path) \in Nat /\ b = m
    BY <1>3, BareLenIs, BareIs
  <2>2. k \in 0..Len(call.path) /\ s \in 0..Len(call.path) /\ s < k /\ (MoreToMake => k < b)
    BY <1>2 DEF PartInv, PartOK, MoreToMake
  <2> HIDE DEF m, s, k, b
  <2>3. MoreToMake => k + 1 \in 2..m /\ k + 1 # 1 /\ (k + 1) - 1 = k
    BY <2>1, <2>2
  <2> QED
    BY <2>3 DEF m
<1>9. Ought(call) /\ Hope(call) =>
        /\ q # <<Nothing>> /\ Course(call)[k] \notin srv.dirs
        /\ Course(call)[k] \in Dirs /\ Parent(Course(call)[k]) \in srv.dirs
  BY <1>2, <1>7, NextIsPossible
<1> HIDE DEF n, d, r, q, b
<1>10. GoesWith(d, call)
  <2> HIDE DEF k
  <2> QED
    BY <1>3, <1>6 DEF GoesWith, IsCall, Fields
<1>11. IsCall(d) /\ d.name = "mkdir" /\ d.path = call.path
       /\ Course(d) = Course(call) /\ d.from = call.from /\ d.seen = call.seen
  BY <1>10, GoesOught DEF GoesWith
<1>12. ok => /\ Alike(call', d) /\ call'.denied = d.denied /\ call'.noPWD = d.noPWD
             /\ call'.seen = call.seen \cup {Course(call)[k]}
  <2>1. ok => /\ call'.denied = d.denied /\ call'.noPWD = d.noPWD
              /\ call'.seen = d.seen \cup {Resolve(srv.cwd, q)}
    BY <1>3, <1>4, <1>5, <1>11, MKDMakes
  <2>2. Alike(call', d)
    BY <1>4, <1>5, <1>11, CommandAlike DEF Command
  <2> QED
    BY <1>7, <1>11, <2>1, <2>2
<1>13. ok => (call'.noPWD = TRUE => call'.denied = TRUE) /\ (Ought(call') => Ought(call))
             /\ Course(call') = Course(call)
  <2> SUFFICES ASSUME ok
               PROVE  /\ (call'.noPWD = TRUE => call'.denied = TRUE) /\ (Ought(call') => Ought(call))
                      /\ Course(call') = Course(call)
    OBVIOUS
  <2>1. call'.noPWD = TRUE => call'.denied = TRUE
    BY <1>3, <1>10, <1>12 DEF TriesOK, GoesWith
  <2>2. Course(call') = Course(call) /\ Wanted(call') = Wanted(call)
    BY <1>11, <1>12 DEF Alike, Course, Wanted
  <2>3. Ought(call') => Ought(call)
    BY <1>10, <1>12, <2>2 DEF Ought, Alike, GoesWith
  <2> QED
    BY <2>1, <2>2, <2>3
<1>14. CASE ok /\ MoreToMake /\ n.pc = "mkDo" /\ d = [call EXCEPT !.k = k + 1]
  <2> HIDE DEF k
  <2>1. call'.k = k + 1
    <3>1. d.k = k + 1
      BY <1>3, <1>14 DEF IsCall, Fields
    <3> QED
      BY <1>12, <1>14, <3>1 DEF Alike
  <2>2. ASSUME Ought(call)
        PROVE  Course(call)[k + 1] \notin call'.seen
    <3>1. /\ Parent(Course(call)[k + 1]) = Course(call)[k]
          /\ Course(call)[k + 1] # Course(call)[k]
      BY <1>3, <1>8, <1>14, <2>2, Descends DEF Course
    <3>2. Course(call)[k] \notin srv.dirs
      BY <1>3, <2>2 DEF Lacks, k
    <3>3. Course(call)[k + 1] \notin srv.dirs
      BY <1>3, <3>1, <3>2 DEF Closed
    <3> QED
      BY <1>3, <1>12, <1>14, <2>2, <3>1, <3>3
  <2>3. Ought(call) => Lacks("mkDo", call')
    BY <1>8, <1>12, <1>13, <1>14, <2>1, <2>2 DEF Lacks
  <2> QED
    BY <1>5, <1>13, <1>14, <2>3 DEF TriesOK
<1>15. CASE ok /\ n.pc = "mkBack" /\ d = [call EXCEPT !.result = r] /\ r = "ok"
  <2>1. call'.result = "ok"
    <3>1. d.result = r
      BY <1>3, <1>15 DEF IsCall, Fields
    <3> QED
      BY <1>12, <1>15, <3>1 DEF Alike
  <2>2. Lacks("mkBack", call')
    BY <2>1 DEF Lacks
  <2> QED
    BY <1>5, <1>13, <1>15, <2>2 DEF TriesOK
<1>16. CASE ~ok /\ n.pc = "mkBack" /\ d = [call EXCEPT !.result = r]
  <2> DEFINE dir == Resolve(srv.cwd, q)
  <2>1. /\ call' = d
        /\ q = <<Nothing>> \/ dir \in srv.dirs \/ dir \notin Dirs \/ Parent(dir) \notin srv.dirs
    BY <1>1, <1>3, <1>4, <1>5, <1>11, <1>16, MKDTells
  <2>2. Ought(call) => ~Hope(call)
    BY <1>7, <1>9, <2>1
  <2>3. TriesOK("mkBack", d)
    BY <1>3, <1>10, <2>2, EndTries
  <2> QED
    BY <1>5, <1>16, <2>1, <2>3
<1> QED
  BY <1>6, <1>14, <1>15, <1>16

\* A way back that is not refused exists, unless where the call began does not.
LEMMA NoWayBack ==
  ASSUME CallInv, PartInv, MadeInv, TriesInv, pc \in {"mkUndo", "mkBack"}, call.name = "mkdir",
         NEW d, GoesWith(d, call), CWD(Way, FALSE, d), call'.denied # TRUE
  PROVE  Ought(call) => ~Hope(call)
<1>1. /\ pc \in MkSteps /\ IsCall(d)
  BY DEF MkSteps, GoesWith
<1>2. /\ CacheInv /\ call.from \in Dirs /\ TriesOK(pc, call)
      /\ Ought(call) => srv.dirs = call.seen
  BY <1>1, InTries
<1>3. call' = d /\ Resolve(srv.cwd, Way) \notin srv.dirs
  BY <1>1, <1>2, CWDTells
<1>4. call.noPWD = FALSE
  <2>1. call.noPWD \in BOOLEAN
    BY DEF CallInv, Good, HomeOK
  <2>2. call.denied # TRUE
    BY <1>3 DEF GoesWith
  <2> QED
    BY <1>2, <2>1, <2>2 DEF TriesOK
<1>5. Way = PathOf(call.from)
  <2>1. HasWay(call, cip.buf) /\ ~call.strayed
    <3>1. Good(pc, call, srv.cwd, cip.buf) /\ pc \in WayNeeded
      BY DEF CallInv, WayNeeded
    <3> QED
      BY <3>1, GoodOnTheWay
  <2>2. WayOf(call, cip.buf) = PathOf(call.from)
    BY <1>4, <2>1 DEF HasWay, Stays
  <2> QED
    BY <2>2 DEF Way, WayOf
<1>6. Resolve(srv.cwd, Way) = call.from
  BY <1>2, <1>5, PrintedLeads
<1> QED
  BY <1>2, <1>3, <1>6 DEF Hope

LEMMA BackTries ==
  ASSUME CallInv, PartInv, MadeInv, TriesInv, call.name = "mkdir", LeaveExisting \/ GoBack
  PROVE  TriesOK(pc', call')
<1>1. SUFFICES ASSUME call'.denied # TRUE
               PROVE  TriesOK(pc', call')
  BY RefusedTries
<1>2. /\ pc \in {"mkUndo", "mkBack"} /\ pc \in MkSteps
  BY DEF LeaveExisting, GoBack, MkSteps
<1>3. /\ IsCall(call) /\ CacheInv /\ TriesOK(pc, call) /\ (Ought(call) => Lacks(pc, call))
      /\ \A r, c : AfterMkdir(r, c) = End(r, c)
  BY <1>2, InTries
<1>4. PICK ok \in BOOLEAN, r \in {"ok", "cannotGoToPrevDir", call.result} :
        LET n == AfterMkdir(r, [call EXCEPT !.strayed = @ \/ ~ok]) IN
        /\ CWD(Way, ok, n.call) /\ Goes(n)
        /\ r = "ok" \/ ~ok \/ (pc = "mkBack" /\ r = call.result)
  BY DEF LeaveExisting, GoBack
<1> DEFINE x == call.strayed \/ ~ok
           n == End(r, [call EXCEPT !.strayed = x])
<1>5. CWD(Way, ok, n.call) /\ pc' = n.pc
  BY <1>3, <1>4 DEF Goes
<1> HIDE DEF x
<1> DEFINE d == n.call
<1>6. n.pc = "idle" /\ d = [[call EXCEPT !.strayed = x] EXCEPT !.result = r]
  BY DEF End
<1> HIDE DEF d, n
<1>7. GoesWith(d, call) /\ d.result = r
  BY <1>3, <1>6 DEF GoesWith, IsCall, Fields
<1>8. CWD(Way, ok, d) /\ pc' = "idle" /\ IsCall(d)
  BY <1>5, <1>6, <1>7 DEF d, GoesWith
<1>9. call' = d
  BY <1>1, <1>3, <1>4, <1>8, CWDTells
<1>10. Ought(call) => r = "ok" \/ ~Hope(call)
  <2>1. CASE ~ok
    <3>1. CWD(Way, FALSE, d)
      BY <1>4, <1>8, <2>1
    <3> QED
      BY <1>1, <1>2, <1>7, <3>1, NoWayBack
  <2>2. CASE pc = "mkBack" /\ r = call.result
    BY <1>3, <2>2 DEF Lacks
  <2> QED
    BY <1>4, <2>1, <2>2
<1>11. TriesOK("idle", d)
  BY <1>3, <1>7, <1>10, EndTries
<1> QED
  BY <1>8, <1>9, <1>11

LEMMA OtherTries ==
  ASSUME NEW p, NEW c, c.name # "mkdir"
  PROVE  TriesOK(p, c)
BY DEF TriesOK, Ought

LEMMA ApplicationTries ==
  ASSUME Application
  PROVE  TriesOK(pc', call')
<1>1. CASE call'.name # "mkdir"
  BY <1>1, OtherTries
<1>2. CASE call'.name = "mkdir"
  BY <1>2, Began DEF TriesOK, Lacks
<1> QED
  BY <1>1, <1>2

LEMMA MeddleTries ==
  ASSUME CallInv, TriesInv, Meddle
  PROVE  TriesOK(pc', call')
<1>1. IsCall(call) /\ pc' = pc
  BY CallIs DEF Meddle
<1> DEFINE s == call.seen \cup srv'.dirs
<1>2. call' = [call EXCEPT !.meddled = TRUE, !.seen = s]
  BY DEF Meddle
<1> HIDE DEF s
<1>3. /\ call'.name = call.name /\ call'.noPWD = call.noPWD
      /\ call'.denied = call.denied /\ call'.meddled = TRUE
  BY <1>1, <1>2 DEF IsCall, Fields
<1> QED
  BY <1>1, <1>3 DEF TriesInv, TriesOK, Ought

LEMMA InitTries == ASSUME Init PROVE TriesInv
<1>1. call.name = "chdir"
  BY DEF Init, NoCall
<1> QED
  BY <1>1, InitClosed, OtherTries DEF TriesInv

LEMMA StepTries ==
  ASSUME CallInv, PartInv, MadeInv, TriesInv, [Next]_vars
  PROVE  TriesInv'
<1>1. Closed(srv'.dirs)
  BY StepClosed DEF TriesInv
<1>2. CASE Library /\ call.name = "mkdir"
  BY <1>1, <1>2, OnlyMkdir, NotePlaceTries, TryExistingTries, BackTries, MakeOneTries,
     FindParentTries, MakeNextTries DEF TriesInv
<1>3. CASE Library /\ call.name # "mkdir"
  BY <1>1, <1>3, NoMkdir, OtherTries DEF TriesInv
<1>4. CASE Application
  BY <1>1, <1>4, ApplicationTries DEF TriesInv
<1>5. CASE Meddle
  BY <1>1, <1>5, MeddleTries DEF TriesInv
<1>6. CASE UNCHANGED vars
  BY <1>1, <1>6 DEF vars, TriesInv, TriesOK, Ought, Lacks, Hope, Course, Wanted
<1> QED
  BY <1>2, <1>3, <1>4, <1>5, <1>6 DEF Next

LEMMA TriesWhatItCan == ASSUME CallInv, PartInv, MadeInv, TriesInv PROVE MkdirTries
<1> SUFFICES ASSUME Ended, call.name = "mkdir", call.recurse, call.result # "ok",
                    Resolve(call.from, call.path) \in Dirs, call.from \in call.seen,
                    \A i \in 2..Len(Bare) : call.path[i] \notin Special,
                    call.path[1] = "" => Len(call.path) = 2 \/ <<call.path[2]>> \in call.seen,
                    ~(call.denied \/ call.meddled)
             PROVE  FALSE
  BY DEF MkdirTries
<1>1. call.path \in Seq(STRING) /\ Names(call.path)
  BY PathsArePaths DEF PartInv, PartOK, Makes
<1>2. Len(Bare) = BareLen(call.path)
  BY <1>1, BareIs
<1>3. Wanted(call) \in Dirs
  BY <1>1, WantedIs
<1>4. call.meddled = FALSE /\ call.denied = FALSE /\ call.recurse = TRUE
  BY DEF MadeInv, SeenOK
<1>5. Ought(call)
  BY <1>2, <1>3, <1>4 DEF Ought, NamesWithin
<1>6. Hope(call)
  BY DEF Hope, Nothing
<1> QED
  BY <1>5, <1>6 DEF TriesInv, TriesOK, Lacks, Ended

\* A call of FTPMkdir that says it has made a directory has seen it there, and a
\* recursive one that fails can blame the server, another client, or one of the
\* two kinds of path that MkdirTries names, at every point of every run.
THEOREM MakesOrExplains == Spec => []MkdirRight
<1> DEFINE Inv == CallInv /\ PartInv /\ TypeInv /\ MadeInv /\ TriesInv
<1>1. Init => Inv
  BY InitCall, InitPart, InitType, InitMade, InitTries
<1>2. Inv /\ [Next]_vars => Inv'
  <2> SUFFICES ASSUME Inv, [Next]_vars
               PROVE  Inv'
    OBVIOUS
  <2>1. CallInv'
    BY StepCall
  <2>2. PartInv' /\ TypeInv'
    BY <2>1, StepPart, StepType
  <2>3. MadeInv' /\ TriesInv'
    BY StepMade, StepTries
  <2> QED
    BY <2>1, <2>2, <2>3
<1>3. Inv => MkdirRight
  BY IsWellFormed, SaysWhatItMade, TriesWhatItCan DEF MkdirRight
<1> QED
  BY <1>1, <1>2, <1>3, PTL DEF Spec
=============================================================================
