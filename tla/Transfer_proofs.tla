--------------------------- MODULE Transfer_proofs ---------------------------
(***************************************************************************)
(* Proofs about Transfer, for files of any length, in either type, with    *)
(* any server, heuristics and number of calls: that a transfer that        *)
(* reports success has left the whole file, that a source is deleted only  *)
(* when its contents are safe, and that a temporary name hides what is not *)
(* complete.                                                               *)
(***************************************************************************)
EXTENDS Transfer, SequenceTheorems, WellFoundedInduction, TLAPS

-----------------------------------------------------------------------------
(* The inductive invariant: the types.                                      *)

Chars  == {NL} \cup (Versions \X Nat)
Wires  == Chars \cup {CR, LF}
Files  == [there: BOOLEAN, data: Seq(Chars), mtime: 0 .. MaxNow]
IsFile(f, t) == f \in Files /\ (f.there \/ f = NoFile) /\ f.mtime <= t

Answers == {"none", "Resume", "Skip", "Cancel"}
Results == {"none", "ok", "same", "error"}
Known   == {"unknown", "yes", "no"}
Caps    == [hasSIZE: Known, hasMDTM: Known, hasAPPE: Known]
Ops     == [kind: AllKinds, type: {"A", "I"}, resume: BOOLEAN, append: BOOLEAN,
            progress: BOOLEAN, delete: BOOLEAN, tmp: BOOLEAN, batch: Nat,
            answer: Answers, start: Nat, room: Nat]
Locals  == [size: Nat \cup {Unknown}, mdtm: {Unknown} \cup 0 .. MaxNow,
            zaction: {"none", "Overwrite", "Resume", "Append"}, start: Nat,
            append: BOOLEAN, base: Seq(Chars), wire: Seq(Wires), res: Results,
            skipped: BOOLEAN]

FilesOK ==
  /\ IsFile(local, now)
  /\ remote \in [Names -> Files] /\ \A n \in Names : IsFile(remote[n], now)
  /\ srv \in Servers /\ used \subseteq Versions /\ mixed \subseteq Names
  /\ now \in 1 .. MaxNow

\* Where a call of each kind can be, and what it may have been given.
PcsOf(kind) ==
  CASE kind = "GET"    -> {"idle", "ask", "askMDTM", "decide", "start", "transfer", "delete"}
    [] kind = "PUT"    -> {"idle", "ask", "askMDTM", "decide", "start", "transfer", "rename",
                           "rename2", "utime", "delete"}
    [] kind = "GETMEM" -> {"idle", "askSize", "start", "transfer", "delete"}
    [] kind = "PUTMEM" -> {"idle", "start", "transfer"}

CallOK ==
  /\ calls \in 0 .. MaxCalls /\ cip \in Caps
  /\ op \in Ops /\ w \in Locals /\ w.mdtm <= now
  /\ pc \in PcsOf(op.kind)

OpOK ==
  /\ pc = "idle" => op = [NoOp EXCEPT !.kind = op.kind]
  /\ op.append => ~op.resume /\ ~op.delete /\ ~op.tmp
  /\ op.answer # "none" => ~op.resume /\ ~op.append
  /\ op.tmp => op.kind = "PUT" /\ op.answer = "none"
  /\ op.kind \in {"GETMEM", "PUTMEM"} => op.type = "I" /\ op.answer = "none" /\ ~op.resume
  /\ op.kind = "GETMEM" => ~op.append

\* When there is a local file, or the memory in its place.
LocalOK ==
  /\ op.kind = "PUTMEM" \/ (op.kind \in {"PUT", "GETMEM"} /\ pc # "idle") => local.there
  /\ op.kind = "GET" /\ pc \in {"start", "transfer"} => local.there

-----------------------------------------------------------------------------
(* The inductive invariant: what the files have of each other.              *)

\* A destination into which nothing but beginnings of one version went, on a server
\* that tells a file's time whenever it tells its size.
Sound(n) == (srv.mlst \/ (srv.size /\ srv.mdtm)) /\ n \notin mixed

\* A destination that is not older than the source is a beginning of it; but when
\* nothing has been appended to it, it was given the time of an empty source.
Agree(f, s) == s.there /\ s.mtime <= f.mtime + 1 => IsPrefix(f.data, s.data) \/ s.data = <<>>

AgreeOK ==
  /\ op.kind = "GET" /\ Sound("dst") => Agree(local, remote["dst"])
  /\ \A n \in Names : Uploads /\ Sound(n) => Agree(remote[n], local)

\* What the server has answered is true of the file as it still is.
Told(f) ==
  /\ f.there
  /\ w.size = IF srv.mlst THEN Len(f.data) ELSE Size(f.data, op.type)
  /\ pc = "decide" => w.mdtm = f.mtime

AskOK ==
  /\ pc = "ask" => w.size = Unknown /\ w.mdtm = Unknown
  /\ pc = "askMDTM" => Asks /\ ~srv.mlst /\ w.size # Unknown
  /\ pc \in {"askMDTM", "decide"} /\ Asks /\ Sound(Target) /\ w.size # Unknown =>
       Told(remote[Target])
  /\ op.kind = "GET" /\ pc = "decide" /\ ~Asks => w.size = Unknown

\* Where a transfer will start, what of the source is there already.
PutFrom(f) ==
  /\ IsPrefix(f.data, local.data)
  /\ w.append => op.type = "A" /\ (~srv.mlst => w.start = Size(f.data, "A"))
  /\ ~w.append => op.type = "I" /\ w.start = Len(f.data)

StartOK ==
  pc = "start" =>
    /\ op.kind = "GET" /\ Sound("dst") =>
         IsPrefix(local.data, remote["dst"].data) /\ w.start = Size(local.data, op.type)
    /\ op.kind = "GETMEM" => w.start = op.start
    /\ Uploads /\ op.append => w.append
    /\ op.kind = "PUTMEM" => (op.append <=> w.append) /\ w.start = 0
    /\ Uploads /\ Sound(Target) /\ op.answer = "none" /\ ~op.append
         /\ (w.append \/ w.start # 0) => PutFrom(remote[Target])

\* During a transfer, what the file is put together from.
Piece(d) == IsPrefix(w.base, d) /\ w.wire = From(ToNet(d, op.type), Size(w.base, op.type))

TransferOK ==
  pc = "transfer" =>
    /\ op.type = "I" => w.wire \in Seq(Chars)
    /\ op.kind = "GET" /\ Sound("dst") => remote["dst"].there /\ Piece(remote["dst"].data)
    /\ op.kind = "GETMEM" /\ "dst" \notin mixed => w.wire = From(remote["dst"].data, op.start)
    /\ Uploads /\ Sound(Target) => Piece(local.data)

\* After an upload under a temporary name, and after its renaming.
NamedOK ==
  /\ pc \in {"rename", "rename2"} =>
       /\ op.tmp /\ ~w.append /\ w.res = "ok"
       /\ Sound("tmp") => remote["tmp"].data = local.data
  /\ pc = "utime" =>
       /\ w.res \in {"ok", "error"} /\ (w.res = "error" => op.tmp)
       /\ Sound("dst") /\ ~(op.tmp /\ (w.append \/ w.res = "error")) =>
            remote["dst"].data = local.data

\* Before a source is deleted.
Saved == Destination = Wanted \/ (op.tmp /\ Source = remote["tmp"].data)

DeleteOK ==
  pc = "delete" =>
    w.res \in {"ok", "same"} /\ (~w.skipped /\ Clean /\ Recognises => Saved)

IInv == /\ FilesOK /\ CallOK /\ OpOK /\ LocalOK
        /\ AgreeOK /\ AskOK /\ StartOK /\ TransferOK /\ NamedOK /\ DeleteOK

-----------------------------------------------------------------------------
(* Induction, along the naturals and along a sequence.                      *)

\* A set of naturals has a least element.
LEMMA Least ==
  ASSUME NEW T, T \subseteq Nat, T # {}
  PROVE  \E m \in T : \A k \in T : m <= k
<1> DEFINE Less == {ss \in Nat \X Nat : ss[1] < ss[2]}
<1>1. IsWellFoundedOn(Less, Nat)
  BY NatLessThanWellFounded, Zenon DEF OpToRel
<1>2. PICK m \in T : \A k \in T : ~(<<k, m>> \in Less)
  <2> HIDE DEF Less
  <2> QED
    BY <1>1, WFMin
<1>3. ASSUME NEW k \in T
      PROVE  m <= k
  <2>1. <<k, m>> \notin Less
    BY <1>2
  <2> QED
    BY <2>1
<1> QED
  BY <1>2, <1>3

\* What holds of 0 and of the next of each number it holds of, holds of all.
LEMMA NatSet ==
  ASSUME NEW T, 0 \in T, \A n \in Nat : n \in T => n + 1 \in T
  PROVE  Nat \subseteq T
<1> SUFFICES ASSUME Nat \ T # {}
             PROVE  FALSE
  OBVIOUS
<1>1. PICK m \in Nat \ T : \A k \in Nat \ T : m <= k
  BY Least
<1>2. m - 1 \in Nat /\ m - 1 \in T
  BY <1>1
<1> QED
  BY <1>1, <1>2

\* What holds of the empty sequence and of each sequence with an element more, holds
\* of every sequence.
LEMMA SeqSet ==
  ASSUME NEW C, NEW T, <<>> \in T,
         \A s \in Seq(C), c \in C : s \in T => Append(s, c) \in T
  PROVE  Seq(C) \subseteq T
<1> DEFINE N == {n \in Nat : \A s \in Seq(C) : Len(s) = n => s \in T}
<1>1. 0 \in N
  BY EmptySeq
<1>2. ASSUME NEW n \in Nat, n \in N
      PROVE  n + 1 \in N
  <2> SUFFICES ASSUME NEW s \in Seq(C), Len(s) = n + 1
               PROVE  s \in T
    OBVIOUS
  <2>1. s # <<>>
    BY EmptySeq
  <2>2. PICK r \in Seq(C), c \in C : s = Append(r, c)
    BY <2>1, SequenceEmptyOrAppend
  <2>3. Len(r) = n
    BY <2>2, AppendProperties, LenProperties
  <2> QED
    BY <1>2, <2>2, <2>3
<1>3. Nat \subseteq N
  <2> HIDE DEF N
  <2> QED
    BY <1>1, <1>2, NatSet
<1> QED
  BY <1>3, LenProperties

-----------------------------------------------------------------------------
(* Flattening a sequence of sequences, as a function of the number of them. *)

Upto(g, ss, U, n) ==
  /\ g \in [0 .. n -> Seq(U)] /\ g[0] = <<>>
  /\ \A i \in 1 .. n : g[i] = g[i - 1] \o ss[i]

Flat(g, ss, U) == Upto(g, ss, U, Len(ss))

LEMMA UptoAt ==
  ASSUME NEW g, NEW ss, NEW U, NEW n \in Nat, NEW i \in 1 .. n, Upto(g, ss, U, n)
  PROVE  g[i] = g[i - 1] \o ss[i]
BY DEF Upto

LEMMA UptoLast ==
  ASSUME NEW g, NEW ss, NEW U, NEW n \in Nat, Upto(g, ss, U, n + 1)
  PROVE  g[n + 1] = g[n] \o ss[n + 1]
<1> DEFINE i == n + 1
<1>1. i \in Nat /\ i \in 1 .. i /\ i - 1 = n
  OBVIOUS
<1> HIDE DEF i
<1>2. Upto(g, ss, U, i)
  BY DEF i
<1>3. g[i] = g[i - 1] \o ss[i]
  BY <1>1, <1>2, UptoAt
<1> QED
  BY <1>1, <1>3 DEF i

\* There is such a function.
LEMMA FlatExists ==
  ASSUME NEW U, NEW ss \in Seq(Seq(U))
  PROVE  \E g : Flat(g, ss, U)
<1> DEFINE N == {n \in Nat : n <= Len(ss) => \E g : Upto(g, ss, U, n)}
<1>0. Len(ss) \in Nat
  BY LenProperties
<1>1. 0 \in N
  <2>1. Upto([i \in 0 .. 0 |-> <<>>], ss, U, 0)
    BY EmptySeq DEF Upto
  <2> QED
    BY <2>1
<1>2. ASSUME NEW n \in Nat, n \in N
      PROVE  n + 1 \in N
  <2> SUFFICES ASSUME n + 1 <= Len(ss)
               PROVE  \E g : Upto(g, ss, U, n + 1)
    OBVIOUS
  <2>0. n <= Len(ss)
    BY <1>0
  <2>1. PICK g : Upto(g, ss, U, n)
    BY <1>2, <2>0
  <2> DEFINE h == [i \in 0 .. n + 1 |-> IF i = n + 1 THEN g[n] \o ss[n + 1] ELSE g[i]]
  <2>2. ss[n + 1] \in Seq(U)
    BY <1>0, ElementOfSeq
  <2>3. g[n] \in Seq(U) /\ g[n] \o ss[n + 1] \in Seq(U)
    <3>1. n \in 0 .. n
      OBVIOUS
    <3>2. g[n] \in Seq(U)
      BY <2>1, <3>1 DEF Upto
    <3> QED
      BY <2>2, <3>2, ConcatProperties
  <2>4. \A i \in 0 .. n : h[i] = g[i]
    OBVIOUS
  <2>5. h[n + 1] = g[n] \o ss[n + 1]
    <3>1. n + 1 \in 0 .. n + 1
      OBVIOUS
    <3> QED
      BY <3>1, Zenon
  <2>6. h \in [0 .. n + 1 -> Seq(U)] /\ h[0] = <<>>
    BY <2>1, <2>3 DEF Upto
  <2> HIDE DEF h
  <2>7. ASSUME NEW i \in 1 .. n + 1
        PROVE  h[i] = h[i - 1] \o ss[i]
    <3>1. CASE i = n + 1
      <4>1. i - 1 = n /\ n \in 0 .. n
        BY <3>1
      <4> QED
        BY <2>4, <2>5, <3>1, <4>1
    <3>2. CASE i # n + 1
      <4>1. i \in 1 .. n /\ i \in 0 .. n /\ i - 1 \in 0 .. n
        BY <3>2
      <4> QED
        BY <2>1, <2>4, <4>1 DEF Upto
    <3> QED
      BY <3>1, <3>2
  <2> QED
    BY <2>6, <2>7 DEF Upto
<1>3. Nat \subseteq N
  <2> HIDE DEF N
  <2> QED
    BY <1>1, <1>2, NatSet
<1>4. \A n \in Nat : n <= Len(ss) => \E g : Upto(g, ss, U, n)
  BY <1>3
<1>5. PICK g : Upto(g, ss, U, Len(ss))
  BY <1>0, <1>4
<1>6. Flat(g, ss, U)
  BY <1>5 DEF Flat
<1> QED
  BY <1>6

\* And FlattenSeq's value is its last.
LEMMA FlatIs ==
  ASSUME NEW U, NEW ss \in Seq(Seq(U)), NEW g, Flat(g, ss, U)
  PROVE  FlattenSeq(ss) = g[Len(ss)]
<1>0. Len(ss) \in Nat
  BY LenProperties
<1>1. CASE Len(ss) = 0
  <2>1. ss = <<>>
    BY <1>1, EmptySeq
  <2> QED
    BY <1>1, <2>1 DEF FlattenSeq, Flat, Upto
<1>2. CASE Len(ss) # 0
  <2> DEFINE Def(f) == f = [i \in 1 .. Len(ss) |-> IF i = 1 THEN ss[i] ELSE f[i - 1] \o ss[i]]
             h == [i \in 1 .. Len(ss) |-> g[i]]
             f == CHOOSE f : Def(f)
  <2>1. \A i \in 1 .. Len(ss) : h[i] = IF i = 1 THEN ss[i] ELSE h[i - 1] \o ss[i]
    <3> SUFFICES ASSUME NEW i \in 1 .. Len(ss)
                 PROVE  g[i] = IF i = 1 THEN ss[i] ELSE h[i - 1] \o ss[i]
      OBVIOUS
    <3>1. g[i] = g[i - 1] \o ss[i] /\ ss[i] \in Seq(U)
      BY <1>0, ElementOfSeq DEF Flat, Upto
    <3>2. CASE i = 1
      <4>1. g[i - 1] = <<>>
        BY <3>2 DEF Flat, Upto
      <4>2. <<>> \o ss[i] = ss[i]
        BY <3>1, ConcatEmptySeq
      <4> QED
        BY <3>1, <3>2, <4>1, <4>2
    <3>3. CASE i # 1
      <4>1. h[i - 1] = g[i - 1]
        BY <1>0, <3>3
      <4> QED
        BY <3>1, <3>3, <4>1
    <3> QED
      BY <3>2, <3>3
  <2>2. Def(h)
    BY <2>1
  <2>3. Def(f)
    <3> HIDE DEF Def
    <3> QED
      BY <2>2
  <2>4. \A i \in 1 .. Len(ss) : f[i] = IF i = 1 THEN ss[i] ELSE f[i - 1] \o ss[i]
    <3> HIDE DEF f
    <3> QED
      BY <2>3
  <2> HIDE DEF f, h
  <2>5. {i \in 1 .. Len(ss) : f[i] # g[i]} = {}
    <3> DEFINE D == {i \in 1 .. Len(ss) : f[i] # g[i]}
    <3> SUFFICES ASSUME D # {}
                 PROVE  FALSE
      OBVIOUS
    <3>1. PICK m \in D : \A k \in D : m <= k
      <4>1. D \subseteq Nat
        BY <1>0
      <4> QED
        BY <4>1, Least
    <3>2. m \in 1 .. Len(ss) /\ f[m] # g[m]
      BY <3>1
    <3>3. g[m] = g[m - 1] \o ss[m] /\ ss[m] \in Seq(U)
      BY <1>0, <3>2, ElementOfSeq DEF Flat, Upto
    <3>4. ASSUME m = 1
          PROVE  FALSE
      <4>1. g[m - 1] = <<>>
        BY <3>4 DEF Flat, Upto
      <4>2. <<>> \o ss[m] = ss[m]
        BY <3>3, ConcatEmptySeq
      <4>3. f[m] = ss[m]
        BY <2>4, <3>2, <3>4
      <4> QED
        BY <3>2, <3>3, <4>1, <4>2, <4>3
    <3>5. m - 1 \in 1 .. Len(ss) /\ m - 1 \notin D
      BY <1>0, <3>1, <3>2, <3>4
    <3> QED
      BY <2>4, <3>2, <3>3, <3>4, <3>5
  <2>6. FlattenSeq(ss) = f[Len(ss)]
    BY <1>2 DEF FlattenSeq, f
  <2> QED
    BY <1>0, <1>2, <2>5, <2>6
<1> QED
  BY <1>1, <1>2

LEMMA FlattenNil == FlattenSeq(<<>>) = <<>>
BY EmptySeq DEF FlattenSeq

LEMMA FlattenType ==
  ASSUME NEW U, NEW ss \in Seq(Seq(U))
  PROVE  FlattenSeq(ss) \in Seq(U)
<1>1. PICK g : Flat(g, ss, U)
  BY FlatExists
<1>2. FlattenSeq(ss) = g[Len(ss)]
  BY <1>1, FlatIs
<1> QED
  BY <1>1, <1>2, LenProperties DEF Flat, Upto

\* A sequence more goes to the end.
LEMMA FlattenAppend ==
  ASSUME NEW U, NEW ss \in Seq(Seq(U)), NEW x \in Seq(U)
  PROVE  FlattenSeq(Append(ss, x)) = FlattenSeq(ss) \o x
<1> DEFINE tt == Append(ss, x)
           n  == Len(ss)
<1>1. /\ tt \in Seq(Seq(U)) /\ Len(tt) = n + 1 /\ tt[n + 1] = x
      /\ \A i \in 1 .. n : tt[i] = ss[i]
  BY AppendProperties
<1>2. n \in Nat
  BY LenProperties
<1>3. PICK g : Flat(g, tt, U)
  BY <1>1, FlatExists
<1>4. FlattenSeq(tt) = g[n + 1]
  BY <1>1, <1>3, FlatIs
<1>8. Upto(g, tt, U, n + 1)
  BY <1>1, <1>3 DEF Flat
<1> DEFINE h == [i \in 0 .. n |-> g[i]]
<1> HIDE DEF tt, n
<1>5. Flat(h, ss, U)
  <2>1. h \in [0 .. n -> Seq(U)] /\ h[0] = <<>>
    BY <1>1, <1>2, <1>3 DEF Flat, Upto
  <2>2. ASSUME NEW i \in 1 .. n
        PROVE  h[i] = h[i - 1] \o ss[i]
    <3>1. g[i] = g[i - 1] \o tt[i]
      <4>1. i \in 1 .. n + 1 /\ n + 1 \in Nat
        BY <1>2
      <4> QED
        BY <4>1, <1>8, UptoAt
    <3>2. h[i] = g[i] /\ h[i - 1] = g[i - 1]
      BY <1>2
    <3> QED
      BY <1>1, <3>1, <3>2
  <2> HIDE DEF h
  <2> QED
    BY <2>1, <2>2 DEF Flat, Upto, n
<1>6. FlattenSeq(ss) = h[n]
  <2> HIDE DEF h
  <2> QED
    BY <1>5, FlatIs DEF n
<1>7. g[n + 1] = g[n] \o x
  BY <1>1, <1>2, <1>8, UptoLast
<1> QED
  BY <1>2, <1>4, <1>6, <1>7 DEF tt

-----------------------------------------------------------------------------
(* The two forms of a file in text.                                         *)

LEMMA CharsDistinct == CR \notin Chars /\ LF \notin Chars /\ CR # LF /\ NL \in Chars
<1>1. 0 \notin Versions
  BY ConstantsAssumption DEF Versions
<1>2. CR \notin Versions \X Nat /\ LF \notin Versions \X Nat
  BY <1>1 DEF CR, LF
<1>3. CR # NL /\ LF # NL /\ CR # LF
  BY DEF CR, LF, NL
<1> QED
  BY <1>2, <1>3 DEF Chars

LEMMA OnWireType ==
  ASSUME NEW c \in Chars
  PROVE  OnWire(c) \in Seq(Wires)
<1>1. c \in Wires /\ CR \in Wires /\ LF \in Wires
  BY DEF Wires
<1> QED
  BY <1>1 DEF OnWire

LEMMA InFileType ==
  ASSUME NEW c \in Wires
  PROVE  InFile(c) \in Seq(Chars)
<1>1. NL \in Chars
  BY CharsDistinct
<1>2. c # CR /\ c # LF => c \in Chars
  BY DEF Wires
<1> QED
  BY <1>1, <1>2 DEF InFile

Spelt(d) == [i \in 1 .. Len(d) |-> OnWire(d[i])]
Read(n)  == [i \in 1 .. Len(n) |-> InFile(n[i])]

LEMMA ToNetIs ==
  ASSUME NEW d
  PROVE  ToNet(d, "A") = FlattenSeq(Spelt(d)) /\ ToNet(d, "I") = d
BY DEF ToNet, Spelt

LEMMA FromNetIs ==
  ASSUME NEW n
  PROVE  FromNet(n, "A") = FlattenSeq(Read(n)) /\ FromNet(n, "I") = n
BY DEF FromNet, Read

LEMMA SpeltType ==
  ASSUME NEW d \in Seq(Chars)
  PROVE  Spelt(d) \in Seq(Seq(Wires)) /\ Len(Spelt(d)) = Len(d)
<1>1. Len(d) \in Nat /\ \A i \in 1 .. Len(d) : OnWire(d[i]) \in Seq(Wires)
  BY LenProperties, ElementOfSeq, OnWireType
<1> QED
  BY <1>1 DEF Spelt

LEMMA ReadType ==
  ASSUME NEW n \in Seq(Wires)
  PROVE  Read(n) \in Seq(Seq(Chars)) /\ Len(Read(n)) = Len(n)
<1>1. Len(n) \in Nat /\ \A i \in 1 .. Len(n) : InFile(n[i]) \in Seq(Chars)
  BY LenProperties, ElementOfSeq, InFileType
<1> QED
  BY <1>1 DEF Read

LEMMA SpeltAppend ==
  ASSUME NEW d \in Seq(Chars), NEW c \in Chars
  PROVE  Spelt(Append(d, c)) = Append(Spelt(d), OnWire(c))
<1> DEFINE l == Spelt(Append(d, c))
           r == Append(Spelt(d), OnWire(c))
           n == Len(d)
<1>1. /\ Append(d, c) \in Seq(Chars) /\ Len(Append(d, c)) = n + 1 /\ n \in Nat
      /\ Append(d, c)[n + 1] = c /\ \A i \in 1 .. n : Append(d, c)[i] = d[i]
  BY AppendProperties, LenProperties
<1>2. l \in Seq(Seq(Wires)) /\ Len(l) = n + 1
  BY <1>1, SpeltType
<1>3. /\ r \in Seq(Seq(Wires)) /\ Len(r) = n + 1
      /\ r[n + 1] = OnWire(c) /\ \A i \in 1 .. n : r[i] = Spelt(d)[i]
  BY SpeltType, OnWireType, AppendProperties
<1>4. ASSUME NEW i \in 1 .. n + 1
      PROVE  l[i] = r[i]
  <2>1. l[i] = OnWire(Append(d, c)[i])
    BY <1>1 DEF Spelt
  <2>2. CASE i = n + 1
    BY <1>1, <1>3, <2>1, <2>2
  <2>3. CASE i # n + 1
    <3>1. i \in 1 .. n
      BY <1>1, <2>3
    <3>2. Spelt(d)[i] = OnWire(d[i])
      BY <3>1 DEF Spelt
    <3> QED
      BY <1>1, <1>3, <2>1, <3>1, <3>2
  <2> QED
    BY <2>2, <2>3
<1> HIDE DEF l, r, n
<1>5. l = r
  BY <1>2, <1>3, <1>4, SeqEqual
<1> QED
  BY <1>5 DEF l, r

LEMMA ReadAppend ==
  ASSUME NEW d \in Seq(Wires), NEW c \in Wires
  PROVE  Read(Append(d, c)) = Append(Read(d), InFile(c))
<1> DEFINE l == Read(Append(d, c))
           r == Append(Read(d), InFile(c))
           n == Len(d)
<1>1. /\ Append(d, c) \in Seq(Wires) /\ Len(Append(d, c)) = n + 1 /\ n \in Nat
      /\ Append(d, c)[n + 1] = c /\ \A i \in 1 .. n : Append(d, c)[i] = d[i]
  BY AppendProperties, LenProperties
<1>2. l \in Seq(Seq(Chars)) /\ Len(l) = n + 1
  BY <1>1, ReadType
<1>3. /\ r \in Seq(Seq(Chars)) /\ Len(r) = n + 1
      /\ r[n + 1] = InFile(c) /\ \A i \in 1 .. n : r[i] = Read(d)[i]
  BY ReadType, InFileType, AppendProperties
<1>4. ASSUME NEW i \in 1 .. n + 1
      PROVE  l[i] = r[i]
  <2>1. l[i] = InFile(Append(d, c)[i])
    BY <1>1 DEF Read
  <2>2. CASE i = n + 1
    BY <1>1, <1>3, <2>1, <2>2
  <2>3. CASE i # n + 1
    <3>1. i \in 1 .. n
      BY <1>1, <2>3
    <3>2. Read(d)[i] = InFile(d[i])
      BY <3>1 DEF Read
    <3> QED
      BY <1>1, <1>3, <2>1, <3>1, <3>2
  <2> QED
    BY <2>2, <2>3
<1> HIDE DEF l, r, n
<1>5. l = r
  BY <1>2, <1>3, <1>4, SeqEqual
<1> QED
  BY <1>5 DEF l, r

\* Both conversions give sequences of the right characters, in either type.
LEMMA ToNetType ==
  ASSUME NEW d \in Seq(Chars), NEW t \in {"A", "I"}
  PROVE  ToNet(d, t) \in Seq(Wires)
<1>1. d \in Seq(Wires)
  BY SeqMonotonic DEF Wires
<1> QED
  BY <1>1, ToNetIs, SpeltType, FlattenType

LEMMA FromNetType ==
  ASSUME NEW n \in Seq(Wires), NEW t \in {"A", "I"}, t = "I" => n \in Seq(Chars)
  PROVE  FromNet(n, t) \in Seq(Chars)
BY FromNetIs, ReadType, FlattenType

\* They go character by character.
LEMMA ToNetNil == ToNet(<<>>, "A") = <<>>
<1>1. Len(<<>>) = 0
  BY EmptySeq
<1>2. Spelt(<<>>) = <<>>
  BY <1>1 DEF Spelt
<1> QED
  BY <1>2, ToNetIs, FlattenNil

LEMMA FromNetNil == FromNet(<<>>, "A") = <<>>
<1>1. Len(<<>>) = 0
  BY EmptySeq
<1>2. Read(<<>>) = <<>>
  BY <1>1 DEF Read
<1> QED
  BY <1>2, FromNetIs, FlattenNil

LEMMA ToNetAppend ==
  ASSUME NEW d \in Seq(Chars), NEW c \in Chars
  PROVE  ToNet(Append(d, c), "A") = ToNet(d, "A") \o OnWire(c)
<1>1. ToNet(Append(d, c), "A") = FlattenSeq(Append(Spelt(d), OnWire(c)))
  BY ToNetIs, SpeltAppend
<1>2. Spelt(d) \in Seq(Seq(Wires)) /\ OnWire(c) \in Seq(Wires)
  BY SpeltType, OnWireType
<1>3. FlattenSeq(Append(Spelt(d), OnWire(c))) = FlattenSeq(Spelt(d)) \o OnWire(c)
  BY <1>2, FlattenAppend
<1> QED
  BY <1>1, <1>3, ToNetIs

LEMMA FromNetAppend ==
  ASSUME NEW n \in Seq(Wires), NEW c \in Wires
  PROVE  FromNet(Append(n, c), "A") = FromNet(n, "A") \o InFile(c)
<1>1. FromNet(Append(n, c), "A") = FlattenSeq(Append(Read(n), InFile(c)))
  BY FromNetIs, ReadAppend
<1>2. Read(n) \in Seq(Seq(Chars)) /\ InFile(c) \in Seq(Chars)
  BY ReadType, InFileType
<1>3. FlattenSeq(Append(Read(n), InFile(c))) = FlattenSeq(Read(n)) \o InFile(c)
  BY <1>2, FlattenAppend
<1> QED
  BY <1>1, <1>3, FromNetIs

-----------------------------------------------------------------------------
(* Beginnings of sequences.                                                 *)

LEMMA PrefixIs ==
  ASSUME NEW C, NEW s \in Seq(C), NEW t \in Seq(C)
  PROVE  IsPrefix(s, t) <=> Len(s) <= Len(t) /\ s = SubSeq(t, 1, Len(s))
BY SubSeqFull DEF IsPrefix

\* A sequence is its beginning and the rest.
LEMMA PrefixRest ==
  ASSUME NEW C, NEW p \in Seq(C), NEW d \in Seq(C), IsPrefix(p, d)
  PROVE  \E r \in Seq(C) : d = p \o r
<1> DEFINE r == SubSeq(d, Len(p) + 1, Len(d))
<1>1. Len(p) \in Nat /\ Len(d) \in Nat /\ Len(p) <= Len(d) /\ p = SubSeq(d, 1, Len(p))
  BY PrefixIs, LenProperties
<1>2. r \in Seq(C)
  <2>1. \A i \in Len(p) + 1 .. Len(d) : d[i] \in C
    BY <1>1, ElementOfSeq
  <2>2. Len(p) + 1 \in Int /\ Len(d) \in Int
    BY <1>1
  <2> QED
    BY <2>1, <2>2, SubSeqProperties
<1>3. SubSeq(d, 1, Len(p)) \o r = SubSeq(d, 1, Len(d))
  <2>1. 1 \in 1 .. Len(d) + 1 /\ Len(p) \in 1 - 1 .. Len(d) /\ Len(d) \in Len(p) .. Len(d)
    BY <1>1
  <2> QED
    BY <2>1, ConcatAdjacentSubSeq
<1>4. SubSeq(d, 1, Len(d)) = d
  BY SubSeqFull
<1> HIDE DEF r
<1> QED
  BY <1>1, <1>2, <1>3, <1>4

LEMMA ConcatPrefix ==
  ASSUME NEW C, NEW p \in Seq(C), NEW r \in Seq(C)
  PROVE  IsPrefix(p, p \o r)
<1>1. p \o r \in Seq(C) /\ Len(p \o r) = Len(p) + Len(r) /\ Len(p) \in Nat /\ Len(r) \in Nat
  BY ConcatProperties, LenProperties
<1>2. SubSeq(p \o r, 1, Len(p)) = p
  <2>1. CASE Len(p) = 0
    BY <2>1, EmptySeq, SubSeqEmpty
  <2>2. CASE Len(p) # 0
    <3>1. 1 \in 1 .. Len(p) /\ Len(p) \in 1 .. Len(p)
      BY <1>1, <2>2
    <3> QED
      BY <3>1, SubSeqOfConcat1, SubSeqFull
  <2> QED
    BY <2>1, <2>2
<1>3. Len(p) <= Len(p \o r)
  BY <1>1
<1> QED
  BY <1>1, <1>2, <1>3, PrefixIs

LEMMA NilPrefix ==
  ASSUME NEW C, NEW d \in Seq(C)
  PROVE  IsPrefix(<<>>, d)
<1>1. <<>> \in Seq(C) /\ <<>> \o d = d
  BY EmptySeq, ConcatEmptySeq
<1>2. IsPrefix(<<>>, <<>> \o d)
  BY <1>1, ConcatPrefix
<1> QED
  BY <1>1, <1>2

LEMMA SelfPrefix ==
  ASSUME NEW C, NEW d \in Seq(C)
  PROVE  IsPrefix(d, d)
<1>1. <<>> \in Seq(C) /\ d \o <<>> = d
  BY EmptySeq, ConcatEmptySeq
<1>2. IsPrefix(d, d \o <<>>)
  BY <1>1, ConcatPrefix
<1> QED
  BY <1>1, <1>2

\* A beginning of what follows p makes a beginning with p in front.
LEMMA PrefixConcat ==
  ASSUME NEW C, NEW p \in Seq(C), NEW q \in Seq(C), NEW r \in Seq(C), IsPrefix(q, r)
  PROVE  IsPrefix(p \o q, p \o r)
<1>1. PICK x \in Seq(C) : r = q \o x
  BY PrefixRest
<1>2. p \o r = (p \o q) \o x /\ p \o q \in Seq(C)
  <2>1. p \o (q \o x) = (p \o q) \o x
    BY ConcatAssociative
  <2>2. p \o q \in Seq(C)
    BY ConcatProperties
  <2> QED
    BY <1>1, <2>1, <2>2
<1>3. IsPrefix(p \o q, (p \o q) \o x)
  BY <1>2, ConcatPrefix
<1> QED
  BY <1>2, <1>3

\* A beginning of s is one of what s begins.
LEMMA PrefixLonger ==
  ASSUME NEW C, NEW q \in Seq(C), NEW s \in Seq(C), NEW r \in Seq(C), IsPrefix(q, s)
  PROVE  IsPrefix(q, s \o r)
<1>1. PICK x \in Seq(C) : s = q \o x
  BY PrefixRest
<1>2. s \o r = q \o (x \o r) /\ x \o r \in Seq(C)
  BY <1>1, ConcatAssociative, ConcatProperties
<1>3. IsPrefix(q, q \o (x \o r))
  BY <1>2, ConcatPrefix
<1> QED
  BY <1>2, <1>3

LEMMA FromConcat ==
  ASSUME NEW C, NEW p \in Seq(C), NEW r \in Seq(C)
  PROVE  From(p \o r, Len(p)) = r
<1>1. Len(p \o r) = Len(p) + Len(r) /\ Len(p) \in Nat /\ Len(r) \in Nat
  BY ConcatProperties, LenProperties
<1>2. CASE Len(r) = 0
  <2>1. r = <<>>
    BY <1>2, EmptySeq
  <2>2. Len(p \o r) < Len(p) + 1 /\ Len(p \o r) \in Int /\ Len(p) + 1 \in Int
    BY <1>1, <1>2
  <2> QED
    BY <2>1, <2>2, SubSeqEmpty DEF From
<1>3. CASE Len(r) # 0
  <2> DEFINE m == Len(p) + 1
             n == Len(p) + Len(r)
  <2>1. m \in m .. n /\ n \in m .. n /\ m - Len(p) = 1 /\ n - Len(p) = Len(r)
    BY <1>1, <1>3
  <2> HIDE DEF m, n
  <2>2. m \in Len(p) + 1 .. Len(p) + Len(r) /\ n \in Len(p) + 1 .. Len(p) + Len(r)
    BY <2>1 DEF m, n
  <2>3. SubSeq(p \o r, m, n) = SubSeq(r, m - Len(p), n - Len(p))
    BY <2>2, SubSeqOfConcat2
  <2>4. SubSeq(r, 1, Len(r)) = r
    BY SubSeqFull
  <2>5. From(p \o r, Len(p)) = SubSeq(p \o r, m, n)
    BY <1>1 DEF From, m, n
  <2> QED
    BY <2>1, <2>3, <2>4, <2>5
<1> QED
  BY <1>2, <1>3

-----------------------------------------------------------------------------
(* What the two forms of a text have to do with each other.                 *)

LEMMA ToNetConcat ==
  ASSUME NEW s \in Seq(Chars), NEW t \in Seq(Chars)
  PROVE  ToNet(s \o t, "A") = ToNet(s, "A") \o ToNet(t, "A")
<1> DEFINE P(x) == ToNet(s \o x, "A") = ToNet(s, "A") \o ToNet(x, "A")
           T == {x \in Seq(Chars) : P(x)}
<1>0. ToNet(s, "A") \in Seq(Wires)
  BY ToNetType
<1>1. <<>> \in T
  <2>1. s \o <<>> = s /\ ToNet(s, "A") \o <<>> = ToNet(s, "A") /\ <<>> \in Seq(Chars)
    BY <1>0, ConcatEmptySeq, EmptySeq
  <2> QED
    BY <2>1, ToNetNil
<1>2. ASSUME NEW x \in Seq(Chars), NEW c \in Chars, x \in T
      PROVE  Append(x, c) \in T
  <2>1. P(x)
    BY <1>2
  <2>2. s \o x \in Seq(Chars) /\ <<c>> \in Seq(Chars) /\ Append(x, c) \in Seq(Chars)
    BY ConcatProperties, AppendProperties
  <2>3. s \o Append(x, c) = Append(s \o x, c)
    BY <2>2, AppendIsConcat, ConcatAssociative
  <2>4. ToNet(Append(s \o x, c), "A") = ToNet(s \o x, "A") \o OnWire(c)
    BY <2>2, ToNetAppend
  <2>5. ToNet(Append(x, c), "A") = ToNet(x, "A") \o OnWire(c)
    BY ToNetAppend
  <2>6. (ToNet(s, "A") \o ToNet(x, "A")) \o OnWire(c) = ToNet(s, "A") \o (ToNet(x, "A") \o OnWire(c))
    <3>1. ToNet(x, "A") \in Seq(Wires) /\ OnWire(c) \in Seq(Wires)
      BY ToNetType, OnWireType
    <3>2. \A a1, a2, a3 \in Seq(Wires) : (a1 \o a2) \o a3 = a1 \o (a2 \o a3)
      BY ConcatAssociative
    <3> QED
      BY <1>0, <3>1, <3>2
  <2>7. P(Append(x, c))
    BY <2>1, <2>3, <2>4, <2>5, <2>6
  <2> QED
    BY <2>2, <2>7
<1>3. Seq(Chars) \subseteq T
  <2> HIDE DEF T
  <2> QED
    BY <1>1, <1>2, SeqSet
<1> QED
  BY <1>3

LEMMA FromNetConcat ==
  ASSUME NEW s \in Seq(Wires), NEW t \in Seq(Wires)
  PROVE  FromNet(s \o t, "A") = FromNet(s, "A") \o FromNet(t, "A")
<1> DEFINE P(x) == FromNet(s \o x, "A") = FromNet(s, "A") \o FromNet(x, "A")
           T == {x \in Seq(Wires) : P(x)}
<1>0. FromNet(s, "A") \in Seq(Chars)
  BY FromNetType
<1>1. <<>> \in T
  <2>1. s \o <<>> = s /\ FromNet(s, "A") \o <<>> = FromNet(s, "A") /\ <<>> \in Seq(Wires)
    BY <1>0, ConcatEmptySeq, EmptySeq
  <2> QED
    BY <2>1, FromNetNil
<1>2. ASSUME NEW x \in Seq(Wires), NEW c \in Wires, x \in T
      PROVE  Append(x, c) \in T
  <2>1. P(x)
    BY <1>2
  <2>2. s \o x \in Seq(Wires) /\ <<c>> \in Seq(Wires) /\ Append(x, c) \in Seq(Wires)
    BY ConcatProperties, AppendProperties
  <2>3. s \o Append(x, c) = Append(s \o x, c)
    BY <2>2, AppendIsConcat, ConcatAssociative
  <2>4. FromNet(Append(s \o x, c), "A") = FromNet(s \o x, "A") \o InFile(c)
    BY <2>2, FromNetAppend
  <2>5. FromNet(Append(x, c), "A") = FromNet(x, "A") \o InFile(c)
    BY FromNetAppend
  <2>6. (FromNet(s, "A") \o FromNet(x, "A")) \o InFile(c)
          = FromNet(s, "A") \o (FromNet(x, "A") \o InFile(c))
    <3>1. FromNet(x, "A") \in Seq(Chars) /\ InFile(c) \in Seq(Chars)
      BY FromNetType, InFileType
    <3> QED
      BY <1>0, <3>1, ConcatAssociative
  <2>7. P(Append(x, c))
    BY <2>1, <2>3, <2>4, <2>5, <2>6
  <2> QED
    BY <2>2, <2>7
<1>3. Seq(Wires) \subseteq T
  <2> HIDE DEF T
  <2> QED
    BY <1>1, <1>2, SeqSet
<1> QED
  BY <1>3

LEMMA PairAppended ==
  ASSUME NEW S, NEW x \in S, NEW y \in S
  PROVE  Append(<<x>>, y) = <<x, y>>
<1>1. /\ Append(<<x>>, y) \in Seq(S) /\ Len(Append(<<x>>, y)) = 2
      /\ Append(<<x>>, y)[1] = x /\ Append(<<x>>, y)[2] = y
  BY AppendProperties
<1>2. <<x, y>> \in Seq(S) /\ Len(<<x, y>>) = 2 /\ <<x, y>>[1] = x /\ <<x, y>>[2] = y
  OBVIOUS
<1>3. \A i \in 1 .. 2 : i = 1 \/ i = 2
  OBVIOUS
<1> QED
  BY <1>1, <1>2, <1>3, SeqEqual

\* What is read of one character as it was sent, and of the first half of a line's end.
LEMMA OneChar ==
  ASSUME NEW c \in Chars
  PROVE  FromNet(OnWire(c), "A") = <<c>> /\ FromNet(<<CR>>, "A") = <<NL>>
<1>0. CR \in Wires /\ LF \in Wires /\ c \in Wires /\ NL \in Chars /\ CR # LF /\ c # CR /\ c # LF
  BY CharsDistinct DEF Wires
<1>1. ASSUME NEW d \in Wires
      PROVE  FromNet(<<d>>, "A") = InFile(d)
  <2>1. <<>> \in Seq(Wires) /\ Append(<<>>, d) = <<d>>
    BY EmptySeq
  <2>2. FromNet(Append(<<>>, d), "A") = <<>> \o InFile(d)
    BY <2>1, FromNetAppend, FromNetNil
  <2>3. <<>> \o InFile(d) = InFile(d)
    BY InFileType, ConcatEmptySeq
  <2> QED
    BY <2>1, <2>2, <2>3
<1>2. FromNet(<<CR>>, "A") = <<NL>>
  BY <1>0, <1>1 DEF InFile
<1>3. FromNet(<<CR, LF>>, "A") = <<NL>>
  <2>0. <<CR>> \in Seq(Wires)
    BY <1>0
  <2>1. Append(<<CR>>, LF) = <<CR, LF>>
    BY <1>0, PairAppended
  <2>2. FromNet(Append(<<CR>>, LF), "A") = <<NL>> \o InFile(LF)
    BY <1>0, <1>2, <2>0, FromNetAppend
  <2>3. InFile(LF) = <<>> /\ <<NL>> \in Seq(Chars)
    BY <1>0 DEF InFile
  <2>4. <<NL>> \o <<>> = <<NL>>
    BY <2>3, ConcatEmptySeq
  <2> QED
    BY <2>1, <2>2, <2>3, <2>4
<1>4. CASE c = NL
  BY <1>2, <1>3, <1>4 DEF OnWire
<1>5. CASE c # NL
  <2>1. OnWire(c) = <<c>> /\ InFile(c) = <<c>>
    BY <1>0, <1>5 DEF OnWire, InFile
  <2> QED
    BY <1>0, <1>1, <1>2, <2>1
<1> QED
  BY <1>4, <1>5

\* A text that is sent and received is the text.
LEMMA RoundTrip ==
  ASSUME NEW s \in Seq(Chars)
  PROVE  FromNet(ToNet(s, "A"), "A") = s
<1> DEFINE T == {x \in Seq(Chars) : FromNet(ToNet(x, "A"), "A") = x}
<1>1. <<>> \in T
  BY EmptySeq, ToNetNil, FromNetNil
<1>2. ASSUME NEW x \in Seq(Chars), NEW c \in Chars, x \in T
      PROVE  Append(x, c) \in T
  <2>1. ToNet(x, "A") \in Seq(Wires) /\ OnWire(c) \in Seq(Wires)
    BY ToNetType, OnWireType
  <2>2. FromNet(ToNet(x, "A") \o OnWire(c), "A")
          = FromNet(ToNet(x, "A"), "A") \o FromNet(OnWire(c), "A")
    BY <2>1, FromNetConcat
  <2>3. FromNet(ToNet(x, "A"), "A") = x /\ FromNet(OnWire(c), "A") = <<c>>
    BY <1>2, OneChar
  <2>4. Append(x, c) = x \o <<c>> /\ Append(x, c) \in Seq(Chars)
    BY AppendIsConcat, AppendProperties
  <2> QED
    BY <2>2, <2>3, <2>4, ToNetAppend
<1>3. Seq(Chars) \subseteq T
  <2> HIDE DEF T
  <2> QED
    BY <1>1, <1>2, SeqSet
<1> QED
  BY <1>3

\* It is not shorter on the wire.
LEMMA NotShorter ==
  ASSUME NEW s \in Seq(Chars)
  PROVE  Len(s) <= Len(ToNet(s, "A"))
<1> DEFINE T == {x \in Seq(Chars) : Len(x) <= Len(ToNet(x, "A"))}
<1>1. <<>> \in T
  BY EmptySeq, ToNetNil
<1>2. ASSUME NEW x \in Seq(Chars), NEW c \in Chars, x \in T
      PROVE  Append(x, c) \in T
  <2>1. ToNet(x, "A") \in Seq(Wires) /\ OnWire(c) \in Seq(Wires) /\ Append(x, c) \in Seq(Chars)
    BY ToNetType, OnWireType, AppendProperties
  <2>2. Len(OnWire(c)) >= 1
    BY DEF OnWire
  <2>3. Len(ToNet(Append(x, c), "A")) = Len(ToNet(x, "A")) + Len(OnWire(c))
    BY <2>1, ToNetAppend, ConcatProperties
  <2>4. Len(x) <= Len(ToNet(x, "A")) /\ Len(Append(x, c)) = Len(x) + 1
    BY <1>2, AppendProperties
  <2>5. {Len(x), Len(ToNet(x, "A")), Len(OnWire(c))} \subseteq Nat
    BY <2>1, LenProperties
  <2> QED
    BY <2>1, <2>2, <2>3, <2>4, <2>5
<1>3. Seq(Chars) \subseteq T
  <2> HIDE DEF T
  <2> QED
    BY <1>1, <1>2, SeqSet
<1> QED
  BY <1>3

\* What is read of a part of what was sent is a beginning of the text, also when the
\* part ends in the middle of a line's end.
LEMMA CutIsPrefix ==
  ASSUME NEW s \in Seq(Chars), NEW k \in 0 .. Len(ToNet(s, "A"))
  PROVE  IsPrefix(FromNet(SubSeq(ToNet(s, "A"), 1, k), "A"), s)
<1> DEFINE Cut(x, j) == FromNet(SubSeq(ToNet(x, "A"), 1, j), "A")
           T == {x \in Seq(Chars) : \A j \in 0 .. Len(ToNet(x, "A")) : IsPrefix(Cut(x, j), x)}
<1>1. <<>> \in T
  <2> SUFFICES ASSUME NEW j \in 0 .. Len(ToNet(<<>>, "A"))
               PROVE  IsPrefix(Cut(<<>>, j), <<>>)
    BY EmptySeq
  <2>1. j = 0
    BY ToNetNil, EmptySeq
  <2>2. SubSeq(ToNet(<<>>, "A"), 1, j) = <<>>
    BY <2>1, SubSeqEmpty
  <2>3. Cut(<<>>, j) = <<>>
    BY <2>2, FromNetNil
  <2> QED
    BY <2>3, EmptySeq, SelfPrefix
<1>2. ASSUME NEW x \in Seq(Chars), NEW c \in Chars, x \in T
      PROVE  Append(x, c) \in T
  <2> DEFINE n == ToNet(x, "A")
             m == OnWire(c)
  <2>1. n \in Seq(Wires) /\ m \in Seq(Wires) /\ Append(x, c) \in Seq(Chars)
    BY ToNetType, OnWireType, AppendProperties
  <2>2. ToNet(Append(x, c), "A") = n \o m /\ FromNet(n, "A") = x
    BY ToNetAppend, RoundTrip
  <2>3. Append(x, c) = x \o <<c>> /\ <<c>> \in Seq(Chars)
    BY AppendIsConcat
  <2>4. Len(n) \in Nat /\ Len(m) \in Nat /\ Len(n \o m) = Len(n) + Len(m)
    BY <2>1, LenProperties, ConcatProperties
  <2>5. m = <<c>> \/ (c = NL /\ m = <<CR, LF>>)
    BY DEF OnWire
  <2>9. \A j \in 0 .. Len(n) : IsPrefix(Cut(x, j), x)
    BY <1>2
  <2> HIDE DEF n, m
  <2> SUFFICES ASSUME NEW j \in 0 .. Len(n) + Len(m)
               PROVE  IsPrefix(Cut(Append(x, c), j), Append(x, c))
    BY <2>1, <2>2, <2>4
  <2>6. CASE j <= Len(n)
    <3>1. SubSeq(n \o m, 1, j) = SubSeq(n, 1, j)
      <4>1. CASE j = 0
        BY <4>1, SubSeqEmpty
      <4>2. CASE j # 0
        <5>1. 1 \in 1 .. Len(n) /\ j \in 1 .. Len(n)
          BY <2>4, <2>6, <4>2
        <5> QED
          BY <2>1, <5>1, SubSeqOfConcat1
      <4> QED
        BY <4>1, <4>2
    <3>2. Cut(Append(x, c), j) = Cut(x, j)
      BY <2>2, <3>1 DEF n
    <3>3. IsPrefix(Cut(x, j), x)
      BY <2>4, <2>6, <2>9
    <3>4. Cut(x, j) \in Seq(Chars)
      <4>1. SubSeq(n, 1, j) \in Seq(Wires)
        <5>1. \A i \in 1 .. j : n[i] \in Wires
          BY <2>1, <2>4, <2>6, ElementOfSeq
        <5> QED
          BY <5>1, SubSeqProperties
      <4> QED
        BY <4>1, FromNetType DEF n
    <3> HIDE DEF Cut
    <3> QED
      BY <2>3, <3>2, <3>3, <3>4, PrefixLonger
  <2>7. CASE j = Len(n) + Len(m)
    <3>1. SubSeq(n \o m, 1, j) = n \o m
      BY <2>1, <2>4, <2>7, ConcatProperties, SubSeqFull
    <3>2. Cut(Append(x, c), j) = Append(x, c)
      BY <2>1, <2>2, <3>1, RoundTrip
    <3> QED
      BY <2>1, <3>2, SelfPrefix
  <2>8. CASE j > Len(n) /\ j < Len(n) + Len(m)
    <3>0. c = NL /\ m = <<CR, LF>> /\ j = Len(n) + 1
      <4>1. Len(<<c>>) = 1 /\ Len(<<CR, LF>>) = 2
        OBVIOUS
      <4>2. m # <<c>>
        <5> SUFFICES ASSUME m = <<c>> PROVE FALSE
          OBVIOUS
        <5>1. Len(m) = 1
          BY <4>1
        <5> QED
          BY <2>4, <2>8, <5>1
      <4>3. c = NL /\ m = <<CR, LF>> /\ Len(m) = 2
        BY <2>5, <4>1, <4>2
      <4>4. j = Len(n) + 1
        <5>1. Len(m) = 2
          BY <4>3
        <5> QED
          BY <2>4, <2>8, <5>1
      <4> QED
        BY <4>3, <4>4
    <3>1. SubSeq(n \o m, 1, j) = Append(n, CR)
      <4>0. CR \in Wires /\ LF \in Wires
        BY DEF Wires
      <4>1. /\ n \o m \in Seq(Wires)
            /\ \A i \in 1 .. Len(n) + Len(m) :
                 (n \o m)[i] = IF i <= Len(n) THEN n[i] ELSE m[i - Len(n)]
        BY <2>1, ConcatProperties
      <4>2. m[1] = CR /\ Len(m) = 2
        BY <3>0
      <4>3. /\ Append(n, CR) \in Seq(Wires) /\ Len(Append(n, CR)) = Len(n) + 1
            /\ \A i \in 1 .. Len(n) : Append(n, CR)[i] = n[i]
            /\ Append(n, CR)[Len(n) + 1] = CR
        BY <2>1, <4>0, AppendProperties
      <4>4. /\ SubSeq(n \o m, 1, j) \in Seq(Wires) /\ Len(SubSeq(n \o m, 1, j)) = j
            /\ \A i \in 1 .. j : SubSeq(n \o m, 1, j)[i] = (n \o m)[i]
        <5>1. \A i \in 1 .. j : (n \o m)[i] \in Wires
          BY <2>4, <4>1, ElementOfSeq
        <5>2. j \in Int /\ 1 <= j
          BY <2>4, <3>0
        <5> QED
          BY <5>1, <5>2, SubSeqProperties
      <4>5. ASSUME NEW i \in 1 .. j
            PROVE  SubSeq(n \o m, 1, j)[i] = Append(n, CR)[i]
        <5>1. CASE i = Len(n) + 1
          <6>1. i - Len(n) = 1 /\ i \in 1 .. Len(n) + Len(m) /\ ~(i <= Len(n))
            BY <2>4, <4>2, <5>1
          <6> QED
            BY <4>1, <4>2, <4>3, <4>4, <5>1, <6>1
        <5>2. CASE i # Len(n) + 1
          <6>1. i \in 1 .. Len(n) /\ i \in 1 .. Len(n) + Len(m) /\ i <= Len(n)
            BY <2>4, <3>0, <4>2, <5>2
          <6> QED
            BY <4>1, <4>3, <4>4, <6>1
        <5> QED
          BY <5>1, <5>2
      <4> QED
        BY <3>0, <4>3, <4>4, <4>5, SeqEqual
    <3>2. FromNet(Append(n, CR), "A") = FromNet(n, "A") \o <<NL>>
      <4>1. CR \in Wires /\ InFile(CR) = <<NL>>
        BY DEF Wires, InFile
      <4> QED
        BY <2>1, <4>1, FromNetAppend
    <3>3. Cut(Append(x, c), j) = Append(x, c)
      BY <2>2, <2>3, <3>0, <3>1, <3>2
    <3> QED
      BY <2>1, <3>3, SelfPrefix
  <2> QED
    BY <2>4, <2>6, <2>7, <2>8
<1>3. Seq(Chars) \subseteq T
  <2> HIDE DEF T
  <2> QED
    BY <1>1, <1>2, SeqSet
<1> QED
  BY <1>3

-----------------------------------------------------------------------------
(* Going on where an earlier transfer stopped, in either type.              *)

LEMMA SizeType ==
  ASSUME NEW d \in Seq(Chars), NEW t \in {"A", "I"}
  PROVE  Size(d, t) \in Nat
BY ToNetType, LenProperties DEF Size

\* What is sent from the size of a beginning on is what follows that beginning.
LEMMA RestIs ==
  ASSUME NEW p \in Seq(Chars), NEW r \in Seq(Chars), NEW t \in {"A", "I"}
  PROVE  From(ToNet(p \o r, t), Size(p, t)) = ToNet(r, t)
<1>1. CASE t = "I"
  BY <1>1, ToNetIs, FromConcat DEF Size
<1>2. CASE t = "A"
  <2>1. ToNet(p, "A") \in Seq(Wires) /\ ToNet(r, "A") \in Seq(Wires)
    BY ToNetType
  <2>2. From(ToNet(p, "A") \o ToNet(r, "A"), Len(ToNet(p, "A"))) = ToNet(r, "A")
    BY <2>1, FromConcat
  <2> QED
    BY <1>2, <2>2, ToNetConcat DEF Size
<1> QED
  BY <1>1, <1>2

\* When all of it has come, the file is whole.
LEMMA Completed ==
  ASSUME NEW p \in Seq(Chars), NEW d \in Seq(Chars), NEW t \in {"A", "I"}, IsPrefix(p, d),
         NEW n, n = From(ToNet(d, t), Size(p, t))
  PROVE  p \o FromNet(SubSeq(n, 1, Len(n)), t) = d
<1>1. PICK r \in Seq(Chars) : d = p \o r
  BY PrefixRest
<1>2. n = ToNet(r, t) /\ n \in Seq(Wires)
  BY <1>1, RestIs, ToNetType
<1>3. SubSeq(n, 1, Len(n)) = n
  BY <1>2, SubSeqFull
<1>4. FromNet(n, t) = r
  BY <1>2, ToNetIs, FromNetIs, RoundTrip
<1> QED
  BY <1>1, <1>3, <1>4

\* Whatever part of it has come, the file is a beginning.
LEMMA GoesOn ==
  ASSUME NEW p \in Seq(Chars), NEW d \in Seq(Chars), NEW t \in {"A", "I"}, IsPrefix(p, d),
         NEW n, n = From(ToNet(d, t), Size(p, t)), NEW k \in 0 .. Len(n)
  PROVE  IsPrefix(p \o FromNet(SubSeq(n, 1, k), t), d)
<1>1. PICK r \in Seq(Chars) : d = p \o r
  BY PrefixRest
<1>2. n = ToNet(r, t) /\ n \in Seq(Wires)
  BY <1>1, RestIs, ToNetType
<1> DEFINE q == FromNet(SubSeq(n, 1, k), t)
<1>0. Len(n) \in Nat
  BY <1>2, LenProperties
<1>3. q \in Seq(Chars) /\ IsPrefix(q, r)
  <2>0. SubSeq(n, 1, k) \in Seq(Wires)
    <3>1. \A i \in 1 .. k : n[i] \in Wires
      BY <1>0, <1>2, ElementOfSeq
    <3> QED
      BY <1>0, <3>1, SubSeqProperties
  <2>1. CASE t = "I"
    <3>1. q = SubSeq(r, 1, k) /\ k \in 0 .. Len(r) /\ Len(r) \in Nat
      BY <1>0, <1>2, <2>1, ToNetIs, FromNetIs
    <3>2. \A i \in 1 .. k : r[i] \in Chars
      BY <3>1, ElementOfSeq
    <3>3. q \in Seq(Chars) /\ Len(q) = k
      <4>1. SubSeq(r, 1, k) \in Seq(Chars) /\ Len(SubSeq(r, 1, k)) = IF 1 <= k THEN k - 1 + 1 ELSE 0
        BY <3>1, <3>2, SubSeqProperties
      <4> HIDE DEF q
      <4> QED
        BY <3>1, <4>1
    <3> HIDE DEF q
    <3>4. Len(q) <= Len(r) /\ q = SubSeq(r, 1, Len(q))
      BY <3>1, <3>3
    <3>5. IsPrefix(q, r) <=> Len(q) <= Len(r) /\ q = SubSeq(r, 1, Len(q))
      BY <3>3, PrefixIs
    <3> QED
      BY <3>3, <3>4, <3>5, Zenon
  <2>2. CASE t = "A"
    <3>1. n = ToNet(r, "A") /\ k \in 0 .. Len(ToNet(r, "A"))
      BY <1>2, <2>2
    <3>2. IsPrefix(FromNet(SubSeq(ToNet(r, "A"), 1, k), "A"), r)
      BY <3>1, CutIsPrefix
    <3>3. FromNet(SubSeq(n, 1, k), "A") \in Seq(Chars)
      BY <2>0, FromNetType
    <3>4. q = FromNet(SubSeq(n, 1, k), "A")
      BY <2>2
    <3>5. IsPrefix(FromNet(SubSeq(n, 1, k), "A"), r)
      BY <3>1, <3>2, Zenon
    <3> HIDE DEF q
    <3> QED
      BY <3>3, <3>4, <3>5, Zenon
  <2> QED
    BY <2>1, <2>2
<1> HIDE DEF q
<1>4. IsPrefix(p \o q, p \o r)
  BY <1>3, PrefixConcat
<1> QED
  BY <1>1, <1>4 DEF q

\* A beginning of the same size is all of it.
LEMMA SameSize ==
  ASSUME NEW p \in Seq(Chars), NEW d \in Seq(Chars), NEW t \in {"A", "I"}, IsPrefix(p, d),
         Size(p, t) = Size(d, t)
  PROVE  p = d
<1>1. PICK r \in Seq(Chars) : d = p \o r
  BY PrefixRest
<1>2. Size(d, t) = Size(p, t) + Len(ToNet(r, t))
  <2>1. CASE t = "I"
    <3>1. ToNet(d, t) = d /\ ToNet(p, t) = p /\ ToNet(r, t) = r
      BY <2>1, ToNetIs
    <3>2. Len(p \o r) = Len(p) + Len(r)
      BY ConcatProperties
    <3> QED
      BY <1>1, <3>1, <3>2 DEF Size
  <2>2. CASE t = "A"
    <3>1. ToNet(p, "A") \in Seq(Wires) /\ ToNet(r, "A") \in Seq(Wires)
      BY ToNetType
    <3>2. Len(ToNet(p, "A") \o ToNet(r, "A")) = Len(ToNet(p, "A")) + Len(ToNet(r, "A"))
      BY <3>1, ConcatProperties
    <3> QED
      BY <1>1, <2>2, <3>2, ToNetConcat DEF Size
  <2> QED
    BY <2>1, <2>2
<1>3. Len(r) <= Len(ToNet(r, t)) /\ Len(r) \in Nat /\ Len(ToNet(r, t)) \in Nat
  BY ToNetIs, ToNetType, NotShorter, LenProperties
<1>4. Len(r) = 0
  BY <1>2, <1>3, SizeType
<1>5. r = <<>>
  BY <1>4, EmptySeq
<1> QED
  BY <1>1, <1>5, ConcatEmptySeq

-----------------------------------------------------------------------------
(* What the parts of the state are made of.                                 *)

LEMMA FileMade ==
  ASSUME NEW d \in Seq(Chars), NEW t \in 0 .. MaxNow
  PROVE  /\ IsFile(File(d, t), t)
         /\ File(d, t).there /\ File(d, t).data = d /\ File(d, t).mtime = t
BY ConstantsAssumption DEF IsFile, File, Files

LEMMA NoFileMade ==
  ASSUME NEW t \in 0 .. MaxNow
  PROVE  IsFile(NoFile, t) /\ ~NoFile.there /\ NoFile.data = <<>>
<1>1. <<>> \in Seq(Chars)
  BY EmptySeq
<1> QED
  BY <1>1, ConstantsAssumption DEF IsFile, NoFile, Files

LEMMA FileParts ==
  ASSUME NEW f, NEW t, IsFile(f, t)
  PROVE  f.there \in BOOLEAN /\ f.data \in Seq(Chars) /\ f.mtime \in 0 .. MaxNow /\ f.mtime <= t
BY DEF IsFile, Files

LEMMA FileOlder ==
  ASSUME NEW f, NEW t \in 0 .. MaxNow, NEW u \in 0 .. MaxNow, t <= u, IsFile(f, t)
  PROVE  IsFile(f, u)
BY ConstantsAssumption DEF IsFile, Files

LEMMA TextType ==
  ASSUME NEW v \in Versions
  PROVE  Text(v) \in Seq(Chars)
<1> DEFINE L(i) == <<<<v, i>>, NL>>
           ss == [i \in 1 .. Lines[v] |-> L(i)]
<1>1. Lines[v] \in Nat
  BY ConstantsAssumption, ElementOfSeq DEF Versions
<1>2. ASSUME NEW i \in 1 .. Lines[v]
      PROVE  L(i) \in Seq(Chars)
  <2>1. <<v, i>> \in Chars /\ NL \in Chars
    BY <1>1 DEF Chars
  <2> QED
    BY <2>1
<1>3. ss \in Seq(Seq(Chars))
  <2> HIDE DEF L
  <2> QED
    BY <1>1, <1>2
<1>4. FlattenSeq(ss) \in Seq(Chars)
  <2> HIDE DEF ss
  <2> QED
    BY <1>3, FlattenType
<1> QED
  BY <1>4 DEF Text

LEMMA MinOfTwo ==
  ASSUME NEW a \in Nat, NEW b \in Nat
  PROVE  Min({a, b}) = IF a <= b THEN a ELSE b
<1> DEFINE m == IF a <= b THEN a ELSE b
<1>1. m \in {a, b} /\ \A y \in {a, b} : m <= y
  OBVIOUS
<1>2. \A x \in {a, b} : (\A y \in {a, b} : x <= y) => x = m
  OBVIOUS
<1> HIDE DEF m
<1>3. Min({a, b}) = m
  BY <1>1, <1>2 DEF Min
<1> QED
  BY <1>3 DEF m

LEMMA CutType ==
  ASSUME NEW C, NEW s \in Seq(C), NEW k \in 0 .. Len(s)
  PROVE  SubSeq(s, 1, k) \in Seq(C) /\ Len(SubSeq(s, 1, k)) = k
<1>0. Len(s) \in Nat
  BY LenProperties
<1>1. \A i \in 1 .. k : s[i] \in C
  BY <1>0, ElementOfSeq
<1>2. /\ SubSeq(s, 1, k) \in Seq(C)
      /\ Len(SubSeq(s, 1, k)) = IF 1 <= k THEN k - 1 + 1 ELSE 0
  BY <1>0, <1>1, SubSeqProperties
<1> QED
  BY <1>0, <1>2

LEMMA FromType ==
  ASSUME NEW C, NEW s \in Seq(C), NEW k \in Nat
  PROVE  From(s, k) \in Seq(C)
<1>0. Len(s) \in Nat
  BY LenProperties
<1>1. \A i \in k + 1 .. Len(s) : s[i] \in C
  BY <1>0, ElementOfSeq
<1>2. SubSeq(s, k + 1, Len(s)) \in Seq(C)
  BY <1>0, <1>1, SubSeqProperties
<1> QED
  BY <1>2 DEF From

\* What has come of a transfer, after what was there.
LEMMA ComeType ==
  ASSUME NEW p \in Seq(Chars), NEW t \in {"A", "I"}, NEW n \in Seq(Wires),
         t = "I" => n \in Seq(Chars), NEW k \in 0 .. Len(n)
  PROVE  p \o FromNet(SubSeq(n, 1, k), t) \in Seq(Chars)
<1>1. SubSeq(n, 1, k) \in Seq(Wires)
  BY CutType
<1>2. t = "I" => SubSeq(n, 1, k) \in Seq(Chars)
  BY CutType
<1>3. FromNet(SubSeq(n, 1, k), t) \in Seq(Chars)
  BY <1>1, <1>2, FromNetType
<1> QED
  BY <1>3, ConcatProperties

LEMMA SizeNil ==
  ASSUME NEW t \in {"A", "I"}
  PROVE  Size(<<>>, t) = 0
BY ToNetNil, ToNetIs DEF Size

LEMMA SizeZero ==
  ASSUME NEW d \in Seq(Chars), NEW t \in {"A", "I"}, Size(d, t) = 0
  PROVE  d = <<>>
<1>1. Len(d) <= Len(ToNet(d, t)) /\ Len(d) \in Nat
  BY ToNetIs, NotShorter, LenProperties
<1>2. Len(d) = 0
  BY <1>1 DEF Size
<1> QED
  BY <1>2, EmptySeq

\* What a piece of memory is filled with is what was asked of the source.
LEMMA MemoryFilled ==
  ASSUME NEW d \in Seq(Chars), NEW start \in Nat, NEW room \in Nat, NEW n, n = From(d, start)
  PROVE  SubSeq(n, 1, Min({room, Len(n)})) = SubSeq(d, start + 1, Min({start + room, Len(d)}))
<1> DEFINE l == Len(d)
           a == Min({room, Len(n)})
           b == Min({start + room, Len(d)})
<1>0. l \in Nat
  BY LenProperties
<1>1. \A i \in start + 1 .. l : d[i] \in Chars
  BY <1>0, ElementOfSeq
<1>2. /\ n \in Seq(Chars)
      /\ Len(n) = IF start + 1 <= l THEN l - (start + 1) + 1 ELSE 0
      /\ \A i \in 1 .. l - (start + 1) + 1 : n[i] = d[start + 1 + i - 1]
  BY <1>0, <1>1, SubSeqProperties DEF From
<1>3. Len(n) \in Nat /\ a = (IF room <= Len(n) THEN room ELSE Len(n))
  BY <1>2, LenProperties, MinOfTwo
<1>4. b = IF start + room <= l THEN start + room ELSE l
  BY <1>0, MinOfTwo
<1> HIDE DEF l, a, b
<1>5. CASE start + 1 <= l
  <2>1. b \in Nat /\ a \in 0 .. Len(n) /\ b = start + a /\ b <= l
    BY <1>0, <1>2, <1>3, <1>4, <1>5
  <2>2. \A i \in start + 1 .. b : d[i] \in Chars
    BY <1>0, <1>1, <2>1
  <2>3. /\ SubSeq(d, start + 1, b) \in Seq(Chars)
        /\ Len(SubSeq(d, start + 1, b)) = IF start + 1 <= b THEN b - (start + 1) + 1 ELSE 0
        /\ \A i \in 1 .. b - (start + 1) + 1 : SubSeq(d, start + 1, b)[i] = d[start + 1 + i - 1]
    BY <2>1, <2>2, SubSeqProperties
  <2>4. \A i \in 1 .. a : n[i] \in Chars
    BY <1>2, <1>3, <2>1, ElementOfSeq
  <2>5. /\ SubSeq(n, 1, a) \in Seq(Chars)
        /\ Len(SubSeq(n, 1, a)) = IF 1 <= a THEN a - 1 + 1 ELSE 0
        /\ \A i \in 1 .. a - 1 + 1 : SubSeq(n, 1, a)[i] = n[1 + i - 1]
    BY <1>3, <2>1, <2>4, SubSeqProperties
  <2>6. Len(SubSeq(n, 1, a)) = a /\ Len(SubSeq(d, start + 1, b)) = a
    BY <1>3, <2>1, <2>3, <2>5
  <2>7. ASSUME NEW i \in 1 .. a
        PROVE  SubSeq(n, 1, a)[i] = SubSeq(d, start + 1, b)[i]
    <3>1. /\ i \in 1 .. a - 1 + 1 /\ i \in 1 .. b - (start + 1) + 1
          /\ i \in 1 .. l - (start + 1) + 1 /\ 1 + i - 1 = i
      BY <1>0, <1>2, <1>3, <1>5, <2>1
    <3>2. SubSeq(n, 1, a)[i] = n[i]
      BY <2>5, <3>1
    <3> QED
      BY <1>2, <2>3, <3>1, <3>2
  <2> QED
    BY <2>3, <2>5, <2>6, <2>7, SeqEqual DEF a, b
<1>6. CASE start + 1 > l
  <2>1. Len(n) = 0 /\ a = 0 /\ b < start + 1 /\ b \in Nat
    BY <1>0, <1>2, <1>3, <1>4, <1>6
  <2>2. SubSeq(n, 1, a) = <<>> /\ SubSeq(d, start + 1, b) = <<>>
    BY <2>1, SubSeqEmpty
  <2> QED
    BY <2>2 DEF a, b
<1>7. start + 1 <= l \/ start + 1 > l
  BY <1>0
<1> QED
  BY <1>5, <1>6, <1>7, Zenon

-----------------------------------------------------------------------------
(* The parts of the invariant that a step leaves as they are.               *)

LEMMA Parts ==
  ASSUME FilesOK, CallOK
  PROVE  /\ op.kind \in AllKinds /\ op.type \in {"A", "I"}
         /\ local.data \in Seq(Chars) /\ \A n \in Names : remote[n].data \in Seq(Chars)
         /\ "dst" \in Names /\ "tmp" \in Names /\ Target \in Names
         /\ now \in 0 .. MaxNow /\ now \in 1 .. MaxNow
BY ConstantsAssumption DEF FilesOK, CallOK, IsFile, Files, Ops, Target, Names

\* No file has a time after now.
LEMMA Times ==
  ASSUME FilesOK
  PROVE  /\ local.mtime \in Nat /\ local.mtime <= now
         /\ \A n \in Names : remote[n].mtime \in Nat /\ remote[n].mtime <= now
         /\ now \in Nat
<1>1. now \in Nat
  BY ConstantsAssumption DEF FilesOK
<1>2. local.mtime \in Nat /\ local.mtime <= now
  BY ConstantsAssumption, FileParts DEF FilesOK
<1>3. ASSUME NEW n \in Names
      PROVE  remote[n].mtime \in Nat /\ remote[n].mtime <= now
  <2>1. IsFile(remote[n], now)
    BY DEF FilesOK
  <2> QED
    BY <2>1, FileParts, ConstantsAssumption
<1> QED
  BY <1>1, <1>2, <1>3

LEMMA FilesKept ==
  ASSUME FilesOK, UNCHANGED <<local, remote, srv, used, now>>, mixed' \subseteq Names
  PROVE  FilesOK'
BY DEF FilesOK

LEMMA AgreeKept ==
  ASSUME AgreeOK, UNCHANGED <<local, remote, srv>>, mixed \subseteq mixed', op'.kind = op.kind
  PROVE  AgreeOK'
BY DEF AgreeOK, Sound, Agree, Uploads

\* The parts that say nothing of a call that is over.
LEMMA Vacuous ==
  /\ pc' \notin {"ask", "askMDTM", "decide"} => AskOK'
  /\ pc' # "start" => StartOK'
  /\ pc' # "transfer" => TransferOK'
  /\ pc' \notin {"rename", "rename2", "utime"} => NamedOK'
  /\ pc' # "delete" => DeleteOK'
BY DEF AskOK, StartOK, TransferOK, NamedOK, DeleteOK

LEMMA NoOpType ==
  ASSUME NEW k \in AllKinds
  PROVE  /\ [NoOp EXCEPT !.kind = k] \in Ops
         /\ [NoOp EXCEPT !.kind = k].kind = k /\ "idle" \in PcsOf(k)
BY DEF NoOp, Ops, AllKinds, Answers, PcsOf

LEMMA NoLocalsType ==
  ASSUME NEW res \in Results
  PROVE  /\ NoLocals \in Locals /\ [NoLocals EXCEPT !.res = res] \in Locals
         /\ NoLocals.mdtm = Unknown /\ [NoLocals EXCEPT !.res = res].mdtm = Unknown
         /\ [NoLocals EXCEPT !.res = res].res = res
<1>1. <<>> \in Seq(Chars) /\ <<>> \in Seq(Wires)
  BY EmptySeq
<1> QED
  BY <1>1 DEF NoLocals, Locals, Results, Unknown

LEMMA NoOpFits ==
  ASSUME op' = [NoOp EXCEPT !.kind = op.kind], op.kind \in AllKinds
  PROVE  OpOK' /\ op'.kind = op.kind
BY DEF OpOK, NoOp, AllKinds

\* The end of a call keeps the invariant when the files that it leaves do.
LEMMA EndedLocalsType ==
  ASSUME NEW res \in Results, NEW s \in BOOLEAN
  PROVE  /\ [NoLocals EXCEPT !.res = res, !.skipped = s] \in Locals
         /\ [NoLocals EXCEPT !.res = res, !.skipped = s].mdtm = Unknown
<1>1. <<>> \in Seq(Chars) /\ <<>> \in Seq(Wires)
  BY EmptySeq
<1> QED
  BY <1>1 DEF NoLocals, Locals, Results, Unknown

LEMMA IdleKeeps ==
  ASSUME IInv, NEW res \in Results, NEW skipped \in BOOLEAN,
         pc' = "idle", op' = [NoOp EXCEPT !.kind = op.kind],
         w' = [NoLocals EXCEPT !.res = res, !.skipped = skipped],
         UNCHANGED <<cip, calls, now>>,
         FilesOK', AgreeOK', op.kind = "PUTMEM" => local'.there
  PROVE  IInv'
<1>1. /\ pc' = "idle" /\ op' = [NoOp EXCEPT !.kind = op.kind]
      /\ w' = [NoLocals EXCEPT !.res = res, !.skipped = skipped]
  OBVIOUS
<1>2. op.kind \in AllKinds /\ now \in Nat
  BY Parts, Times DEF IInv
<1>3. OpOK' /\ op'.kind = op.kind
  BY <1>1, <1>2, NoOpFits
<1>4. CallOK'
  <2>1. op' \in Ops /\ pc' \in PcsOf(op'.kind)
    BY <1>1, <1>2, <1>3, NoOpType
  <2>2. w' \in Locals /\ w'.mdtm = Unknown
    BY <1>1, EndedLocalsType
  <2>3. w'.mdtm <= now'
    BY <1>2, <2>2 DEF Unknown
  <2>4. calls' \in 0 .. MaxCalls /\ cip' \in Caps
    BY DEF IInv, CallOK
  <2> QED
    BY <2>1, <2>2, <2>3, <2>4 DEF CallOK
<1>5. LocalOK'
  BY <1>1, <1>3 DEF LocalOK
<1> QED
  BY <1>1, <1>3, <1>4, <1>5, Vacuous DEF IInv

LEMMA ReturnKeeps ==
  ASSUME IInv, NEW res \in Results, Return(res), UNCHANGED <<cip, calls, now>>,
         FilesOK', AgreeOK', op.kind = "PUTMEM" => local'.there
  PROVE  IInv'
<1>1. w.skipped \in BOOLEAN
  BY DEF IInv, CallOK, Locals
<1> QED
  BY <1>1, IdleKeeps DEF Return

\* The same for the end of a transfer, after which the source may be deleted.
LEMMA DeletesKeeps ==
  ASSUME IInv, NEW res \in {"ok", "same"}, DeletesSource(res),
         UNCHANGED <<cip, calls, now>>, FilesOK', AgreeOK',
         op.kind # "PUTMEM", op.kind \in {"PUT", "GETMEM"} => local'.there,
         op' = op => (Clean /\ Recognises => Saved)'
  PROVE  IInv'
<1>0. res \in Results
  BY DEF Results
<1>1. CASE ~op.delete
  <2>1. Return(res)
    BY <1>1 DEF DeletesSource
  <2> QED
    BY <1>0, <2>1, ReturnKeeps
<1>2. CASE op.delete
  <2>1. pc' = "delete" /\ w' = [w EXCEPT !.res = res] /\ op' = op
    BY <1>2 DEF DeletesSource
  <2>2. op \in Ops /\ w \in Locals /\ w.mdtm <= now /\ op.kind \in AllKinds
    BY Parts DEF IInv, CallOK
  <2>3. w' \in Locals /\ w'.mdtm = w.mdtm /\ w'.res = res
    BY <1>0, <2>1, <2>2 DEF Locals
  <2>4. CallOK'
    <3>1. pc' \in PcsOf(op'.kind)
      BY <2>1, <2>2 DEF PcsOf, AllKinds
    <3>2. calls' \in 0 .. MaxCalls /\ cip' \in Caps
      BY DEF IInv, CallOK
    <3> QED
      BY <2>1, <2>2, <2>3, <3>1, <3>2 DEF CallOK
  <2>5. OpOK' /\ LocalOK'
    BY <2>1, <2>2 DEF IInv, OpOK, LocalOK, AllKinds
  <2>6. DeleteOK'
    BY <2>1, <2>3 DEF DeleteOK
  <2> QED
    BY <2>1, <2>4, <2>5, <2>6, Vacuous DEF IInv
<1> QED
  BY <1>1, <1>2

\* A step within a call keeps what is known of the call.
LEMMA CallKept ==
  ASSUME IInv, op' = op, UNCHANGED <<calls, now>>, cip' \in Caps,
         w' \in Locals, w'.mdtm <= now, pc' \in PcsOf(op.kind), pc' # "idle"
  PROVE  CallOK' /\ OpOK'
BY DEF IInv, CallOK, OpOK

-----------------------------------------------------------------------------
(* The questions.                                                           *)

\* A call that asks is about a file, and has not begun its transfer.
LEMMA Asking ==
  ASSUME IInv, pc \in {"ask", "askMDTM", "decide"}
  PROVE  /\ op.kind \in {"GET", "PUT"}
         /\ "askMDTM" \in PcsOf(op.kind) /\ "decide" \in PcsOf(op.kind)
         /\ "start" \in PcsOf(op.kind) /\ (op.kind = "PUT" => local.there)
BY Parts DEF IInv, CallOK, PcsOf, AllKinds, LocalOK

\* What a question keeps, when its answer is true.
LEMMA AskKeeps ==
  ASSUME IInv, pc \in {"ask", "askMDTM"}, pc' \in {"askMDTM", "decide"},
         UNCHANGED <<local, remote, srv, now, used, mixed, op, calls>>,
         cip' \in Caps, w' \in Locals, w'.mdtm <= now, AskOK'
  PROVE  IInv'
<1>1. /\ op.kind \in {"GET", "PUT"} /\ pc' \in PcsOf(op.kind)
      /\ (op.kind = "PUT" => local.there)
  BY Asking
<1>2. FilesOK' /\ AgreeOK'
  BY FilesKept, AgreeKept DEF IInv, FilesOK
<1>3. CallOK' /\ OpOK'
  BY <1>1, CallKept
<1>4. LocalOK'
  BY <1>1 DEF LocalOK
<1> QED
  BY <1>2, <1>3, <1>4, Vacuous DEF IInv

LEMMA CapsType ==
  ASSUME cip \in Caps, NEW x \in Known
  PROVE  /\ [cip EXCEPT !.hasSIZE = x] \in Caps /\ [cip EXCEPT !.hasMDTM = x] \in Caps
         /\ [cip EXCEPT !.hasAPPE = x] \in Caps /\ cip.hasSIZE \in Known
         /\ cip.hasMDTM \in Known /\ cip.hasAPPE \in Known
BY DEF Caps

LEMMA AskMLSTKeeps == IInv /\ AskMLST => IInv'
<1> SUFFICES ASSUME IInv, AskMLST
             PROVE  IInv'
  OBVIOUS
<1> DEFINE f == remote[Target]
<1>1. /\ pc = "ask" /\ Asks /\ srv.mlst /\ f.there /\ pc' = "decide"
      /\ w' = [w EXCEPT !.size = Len(f.data), !.mdtm = f.mtime]
      /\ UNCHANGED <<local, remote, srv, cip, now, used, mixed, op, calls>>
  BY DEF AskMLST
<1>2. /\ f.data \in Seq(Chars) /\ f.mtime \in 0 .. MaxNow /\ f.mtime <= now
      /\ w \in Locals /\ cip \in Caps
  BY Parts, FileParts DEF IInv, FilesOK, CallOK
<1>3. Len(f.data) \in Nat
  BY <1>2, LenProperties
<1>4. f' = f
  BY <1>1 DEF Target
<1> HIDE DEF f
<1>5. /\ w' \in Locals /\ w'.size = Len(f.data) /\ w'.mdtm = f.mtime
  BY <1>1, <1>2, <1>3 DEF Locals
<1>6. AskOK'
  <2>1. Told(f)'
    BY <1>1, <1>4, <1>5 DEF Told
  <2>2. Told(remote[Target])'
    BY <2>1 DEF f
  <2>3. Asks'
    BY <1>1 DEF Asks
  <2> QED
    BY <1>1, <2>2, <2>3 DEF AskOK
<1> QED
  BY <1>1, <1>2, <1>5, <1>6, AskKeeps

LEMMA AskSIZEKeeps == IInv /\ AskSIZE => IInv'
<1> SUFFICES ASSUME IInv, AskSIZE
             PROVE  IInv'
  OBVIOUS
<1> DEFINE f == remote[Target]
           answered == srv.size /\ f.there /\ (op.type = "A" => srv.sizeA)
<1>1. /\ pc = "ask" /\ Asks /\ ~(srv.mlst /\ f.there)
      /\ w' = IF answered THEN [w EXCEPT !.size = Size(f.data, op.type)] ELSE w
      /\ pc' = IF answered THEN "askMDTM" ELSE "decide"
      /\ cip' = [cip EXCEPT !.hasSIZE = IF answered THEN "yes"
                                        ELSE IF ~srv.size THEN "no" ELSE cip.hasSIZE]
      /\ UNCHANGED <<local, remote, srv, now, used, mixed, op, calls>>
  BY DEF AskSIZE
<1>2. /\ w \in Locals /\ cip \in Caps /\ w.size = Unknown /\ w.mdtm = Unknown
      /\ w.mdtm <= now
  BY <1>1 DEF IInv, CallOK, AskOK
<1>3. Size(f.data, op.type) \in Nat
  BY Parts, SizeType DEF IInv
<1>4. f' = f /\ Asks'
  BY <1>1 DEF Target, Asks
<1>5. cip' \in Caps
  <2>1. (IF answered THEN "yes" ELSE IF ~srv.size THEN "no" ELSE cip.hasSIZE) \in Known
    BY <1>2 DEF Known, Caps
  <2> QED
    BY <1>1, <1>2, <2>1 DEF Caps
<1>6. CASE answered
  <2>1. pc' = "askMDTM" /\ f.there /\ ~srv.mlst /\ w' = [w EXCEPT !.size = Size(f.data, op.type)]
    BY <1>1, <1>6
  <2> HIDE DEF f, answered
  <2>2. w' \in Locals /\ w'.size = Size(f.data, op.type) /\ w'.mdtm = Unknown
    BY <1>2, <1>3, <2>1 DEF Locals
  <2>3. w'.size # Unknown /\ w'.mdtm <= now
    BY <1>2, <1>3, <2>2 DEF Unknown
  <2>4. AskOK'
    <3>1. Told(f)'
      BY <1>1, <1>4, <2>1, <2>2 DEF Told
    <3>2. Told(remote[Target])'
      BY <3>1 DEF f
    <3> QED
      BY <1>1, <1>4, <2>1, <2>3, <3>2 DEF AskOK
  <2> QED
    BY <1>1, <1>5, <2>1, <2>2, <2>3, <2>4, AskKeeps
<1>7. CASE ~answered
  <2>1. pc' = "decide" /\ w' = w
    BY <1>1, <1>7
  <2>2. AskOK'
    BY <1>1, <1>2, <1>4, <2>1 DEF AskOK
  <2> QED
    BY <1>1, <1>2, <1>5, <2>1, <2>2, AskKeeps
<1> QED
  BY <1>6, <1>7

LEMMA AskMDTMKeeps == IInv /\ AskMDTM => IInv'
<1> SUFFICES ASSUME IInv, AskMDTM
             PROVE  IInv'
  OBVIOUS
<1> DEFINE f == remote[Target]
           answered == srv.mdtm /\ f.there
<1>1. /\ pc = "askMDTM"
      /\ w' = IF answered THEN [w EXCEPT !.mdtm = f.mtime] ELSE w
      /\ pc' = "decide"
      /\ cip' = [cip EXCEPT !.hasMDTM = IF answered THEN "yes"
                                        ELSE IF ~srv.mdtm THEN "no" ELSE cip.hasMDTM]
      /\ UNCHANGED <<local, remote, srv, now, used, mixed, op, calls>>
  BY DEF AskMDTM
<1>2. /\ w \in Locals /\ cip \in Caps /\ w.mdtm <= now
      /\ Asks /\ ~srv.mlst /\ w.size # Unknown
  BY <1>1 DEF IInv, CallOK, AskOK
<1>3. f.mtime \in 0 .. MaxNow /\ f.mtime <= now
  BY Parts, FileParts DEF IInv, FilesOK
<1>4. f' = f /\ Asks'
  BY <1>1, <1>2 DEF Target, Asks
<1>5. cip' \in Caps
  <2>1. (IF answered THEN "yes" ELSE IF ~srv.mdtm THEN "no" ELSE cip.hasMDTM) \in Known
    BY <1>2 DEF Known, Caps
  <2> QED
    BY <1>1, <1>2, <2>1 DEF Caps
<1>6. /\ w' \in Locals /\ w'.size = w.size /\ w'.mdtm <= now
      /\ answered => w'.mdtm = f.mtime
  <2> HIDE DEF f, answered
  <2> QED
    BY <1>1, <1>2, <1>3 DEF Locals
<1>7. AskOK'
  <2>1. Sound(Target) => Told(remote[Target])'
    <3> SUFFICES ASSUME Sound(Target)
                 PROVE  Told(f)'
      OBVIOUS
    <3>1. Told(f)
      BY <1>1, <1>2 DEF IInv, AskOK
    <3>2. answered
      BY <1>2, <3>1 DEF Sound, Told
    <3> HIDE DEF f, answered
    <3> QED
      BY <1>1, <1>4, <1>6, <3>1, <3>2 DEF Told
  <2>2. Sound(Target)' = Sound(Target)
    BY <1>1 DEF Sound, Target
  <2> QED
    BY <1>1, <1>2, <1>4, <1>6, <2>1, <2>2 DEF AskOK
<1> QED
  BY <1>1, <1>5, <1>6, <1>7, AskKeeps

LEMMA AskFailsKeeps == IInv /\ AskFails => IInv'
<1> SUFFICES ASSUME IInv, AskFails
             PROVE  IInv'
  OBVIOUS
<1>1. /\ pc = "ask" /\ Asks /\ pc' = "decide"
      /\ UNCHANGED <<local, remote, srv, cip, now, used, mixed, op, w, calls>>
  BY DEF AskFails
<1>2. w \in Locals /\ cip \in Caps /\ w.mdtm <= now /\ w.size = Unknown
  BY <1>1 DEF IInv, CallOK, AskOK
<1>3. AskOK'
  BY <1>1, <1>2 DEF AskOK
<1> QED
  BY <1>1, <1>2, <1>3, AskKeeps

LEMMA DoNotAskKeeps == IInv /\ DoNotAsk => IInv'
<1> SUFFICES ASSUME IInv, DoNotAsk
             PROVE  IInv'
  OBVIOUS
<1>1. /\ pc = "ask" /\ ~Asks /\ pc' = "decide"
      /\ w' = IF op.kind = "PUT" THEN [w EXCEPT !.size = 0] ELSE w
      /\ UNCHANGED <<local, remote, srv, cip, now, used, mixed, op, calls>>
  BY DEF DoNotAsk
<1>2. w \in Locals /\ cip \in Caps /\ w.mdtm <= now /\ w.size = Unknown
  BY <1>1 DEF IInv, CallOK, AskOK
<1>3. w' \in Locals /\ w'.mdtm <= now /\ (op.kind = "GET" => w'.size = Unknown)
  BY <1>1, <1>2 DEF Locals
<1>4. ~Asks'
  BY <1>1 DEF Asks
<1>5. AskOK'
  BY <1>1, <1>3, <1>4 DEF AskOK
<1> QED
  BY <1>1, <1>2, <1>3, <1>5, AskKeeps

-----------------------------------------------------------------------------
(* Calls that end without a transfer.                                       *)

LEMMA KindKept ==
  ASSUME NEW res, op \in Ops
  PROVE  /\ Return(res) => op'.kind = op.kind
         /\ DeletesSource(res) => op'.kind = op.kind
BY DEF Return, DeletesSource, NoOp, Ops

LEMMA EndKeeps ==
  ASSUME IInv, NEW res \in Results, Return(res),
         UNCHANGED <<local, remote, srv, cip, now, used, mixed, calls>>
  PROVE  IInv'
<1>1. op'.kind = op.kind
  BY KindKept DEF IInv, CallOK
<1>2. FilesOK' /\ AgreeOK'
  BY <1>1, FilesKept, AgreeKept DEF IInv, FilesOK
<1>3. op.kind = "PUTMEM" => local'.there
  BY DEF IInv, LocalOK
<1> QED
  BY <1>2, <1>3, ReturnKeeps

LEMMA CloseKeeps ==
  ASSUME IInv, NEW res \in {"ok", "same"}, DeletesSource(res),
         pc # "idle", op.kind # "PUTMEM",
         UNCHANGED <<local, remote, srv, cip, now, used, mixed, calls>>,
         Clean /\ Recognises => Saved
  PROVE  IInv'
<1>1. op'.kind = op.kind
  BY KindKept DEF IInv, CallOK
<1>2. FilesOK' /\ AgreeOK'
  BY <1>1, FilesKept, AgreeKept DEF IInv, FilesOK
<1>3. op.kind \in {"PUT", "GETMEM"} => local'.there
  BY DEF IInv, LocalOK
<1>4. op' = op => (Clean /\ Recognises => Saved)'
  BY DEF Clean, Recognises, Saved, Destination, Source, Wanted, Downloads, Target
<1> QED
  BY <1>2, <1>3, <1>4, DeletesKeeps

LEMMA SkipsKeeps ==
  ASSUME IInv, Skips, pc # "idle", op.kind # "PUTMEM",
         UNCHANGED <<local, remote, srv, cip, now, used, mixed, calls>>
  PROVE  IInv'
<1>1. op'.kind = op.kind /\ "ok" \in Results
  <2>1. op \in Ops
    BY DEF IInv, CallOK
  <2>2. [NoOp EXCEPT !.kind = op.kind].kind = op.kind
    BY DEF NoOp
  <2> QED
    BY <2>1, <2>2 DEF Skips, Results
<1>2. FilesOK' /\ AgreeOK'
  BY <1>1, FilesKept, AgreeKept DEF IInv, FilesOK
<1>3. CASE ~op.delete
  BY <1>1, <1>2, <1>3, IdleKeeps DEF Skips
<1>4. CASE op.delete
  <2>1. pc' = "delete" /\ w' = [w EXCEPT !.res = "ok", !.skipped = TRUE] /\ op' = op
    BY <1>4 DEF Skips
  <2>2. op \in Ops /\ w \in Locals /\ w.mdtm <= now /\ op.kind \in AllKinds
    BY Parts DEF IInv, CallOK
  <2>3. w' \in Locals /\ w'.mdtm = w.mdtm /\ w'.res = "ok" /\ w'.skipped
    BY <1>1, <2>1, <2>2 DEF Locals
  <2>4. pc' \in PcsOf(op.kind) /\ cip' \in Caps
    BY <2>1, <2>2 DEF PcsOf, AllKinds, IInv, CallOK
  <2>5. CallOK' /\ OpOK'
    BY <2>1, <2>2, <2>3, <2>4, CallKept
  <2>6. LocalOK'
    BY <2>1 DEF IInv, LocalOK
  <2>7. DeleteOK'
    BY <2>3 DEF DeleteOK
  <2> QED
    BY <1>2, <2>1, <2>5, <2>6, <2>7, Vacuous DEF IInv
<1> QED
  BY <1>3, <1>4

LEMMA GetRefusesKeeps == IInv /\ GetRefuses => IInv'
<1>1. "error" \in Results
  BY DEF Results
<1> QED
  BY <1>1, EndKeeps DEF GetRefuses

LEMMA PutCanceledKeeps == IInv /\ PutCanceled => IInv'
<1>1. "error" \in Results
  BY DEF Results
<1> QED
  BY <1>1, EndKeeps DEF PutCanceled

LEMMA PutStartFailsKeeps == IInv /\ PutStartFails => IInv'
<1>1. "error" \in Results
  BY DEF Results
<1> QED
  BY <1>1, EndKeeps DEF PutStartFails

LEMMA GetMemFailsKeeps == IInv /\ GetMemFails => IInv'
<1>1. "error" \in Results
  BY DEF Results
<1> QED
  BY <1>1, EndKeeps DEF GetMemFails

LEMMA StopsKeeps == IInv /\ Stops => IInv'
<1>1. "error" \in Results
  BY DEF Results
<1> QED
  BY <1>1, EndKeeps DEF Stops

LEMMA DeleteRefusedKeeps == IInv /\ DeleteRefused => IInv'
<1> SUFFICES ASSUME IInv, DeleteRefused
             PROVE  IInv'
  OBVIOUS
<1>0. "error" \in Results
  BY DEF Results
<1>1. w.res \in Results
  BY DEF IInv, CallOK, Locals
<1>2. (IF w.res = "ok" /\ w.zaction # "none" THEN "error" ELSE w.res) \in Results
  BY <1>0, <1>1
<1> QED
  BY <1>2, EndKeeps DEF DeleteRefused

LEMMA GetSkipKeeps == IInv /\ GetSkip => IInv'
<1> SUFFICES ASSUME IInv, GetSkip
             PROVE  IInv'
  OBVIOUS
<1>1. /\ pc # "idle" /\ op.kind # "PUTMEM" /\ Skips
      /\ UNCHANGED <<local, remote, srv, cip, now, used, mixed, calls>>
  BY DEF GetSkip
<1> QED
  BY <1>1, SkipsKeeps

-----------------------------------------------------------------------------
(* FTPGetOneF's decision.                                                   *)

\* A local file that the decision takes for a beginning of the remote one is one.
LEMMA GetPrefix ==
  ASSUME IInv, pc = "decide", op.kind = "GET", Sound("dst"), op.answer = "none",
         GetAction \in {"Same", "Resume"}, StartPoint <= w.size
  PROVE  /\ local.there /\ w.size # Unknown /\ Told(remote["dst"])
         /\ IsPrefix(local.data, remote["dst"].data)
<1>1. local.there /\ op.resume /\ GuessGet \in {"Same", "Resume"}
  BY DEF GetAction
<1>2. /\ w.size # Unknown
      /\ NoMdtmCheck \/ SameTime \/ w.mdtm < local.mtime
  BY <1>1 DEF GuessGet
<1>3. Told(remote["dst"])
  <2>1. Asks /\ Target = "dst"
    BY <1>1 DEF Asks, Target
  <2> QED
    BY <1>2, <2>1 DEF IInv, AskOK
<1>4. remote["dst"].there /\ w.mdtm = remote["dst"].mtime
  BY <1>3 DEF Told
<1>5. /\ local.data \in Seq(Chars) /\ remote["dst"].data \in Seq(Chars)
      /\ op.type \in {"A", "I"} /\ "dst" \in Names
  BY Parts DEF IInv
<1>6. remote["dst"].mtime <= local.mtime + 1
  <2>1. /\ local.mtime \in Nat /\ local.mtime <= now /\ now \in Nat
        /\ remote["dst"].mtime \in Nat /\ Threshold \in Nat
    BY <1>5, Times, ConstantsAssumption DEF IInv
  <2> QED
    BY <1>2, <1>4, <2>1 DEF NoMdtmCheck, SameTime, Recent, Unknown
<1>7. IsPrefix(local.data, remote["dst"].data) \/ remote["dst"].data = <<>>
  BY <1>4, <1>6 DEF IInv, AgreeOK, Agree
<1>8. CASE remote["dst"].data = <<>>
  <2>1. w.size = 0
    BY <1>3, <1>5, <1>8, SizeNil DEF Told
  <2>2. Size(local.data, op.type) = 0
    BY <1>5, <2>1, SizeType DEF StartPoint
  <2>3. local.data = <<>>
    BY <1>5, <2>2, SizeZero
  <2> QED
    BY <1>1, <1>2, <1>3, <1>5, <1>8, <2>3, SelfPrefix
<1> QED
  BY <1>1, <1>2, <1>3, <1>7, <1>8

\* What counts as the same is the same.
LEMMA GetSameIs ==
  ASSUME IInv, pc = "decide", op.kind = "GET", Clean, Recognises,
         GetAction \in {"Same", "Resume"}, StartPoint = w.size
  PROVE  local.data = remote["dst"].data
<1>1. Sound("dst") /\ op.answer = "none"
  BY DEF Clean, Recognises, Sound
<1>2. /\ local.data \in Seq(Chars) /\ remote["dst"].data \in Seq(Chars)
      /\ op.type \in {"A", "I"}
  BY Parts DEF IInv
<1>3. StartPoint <= w.size
  BY <1>2, SizeType DEF StartPoint
<1>4. Told(remote["dst"]) /\ IsPrefix(local.data, remote["dst"].data)
  BY <1>1, <1>3, GetPrefix
<1>5. w.size = Size(remote["dst"].data, op.type)
  <2>1. op.type = "I" => Size(remote["dst"].data, op.type) = Len(remote["dst"].data)
    BY ToNetIs DEF Size
  <2> QED
    BY <1>2, <1>4, <2>1 DEF Told, Recognises
<1> QED
  BY <1>2, <1>4, <1>5, SameSize DEF StartPoint

LEMMA GetSameSize ==
  ASSUME GetAction = "Same", op \in Ops
  PROVE  StartPoint = w.size
<1>1. GuessGet = "Same"
  BY DEF GetAction, Ops, Answers
<1> QED
  BY <1>1 DEF GuessGet

LEMMA GetSameKeeps == IInv /\ GetSame => IInv'
<1> SUFFICES ASSUME IInv, GetSame
             PROVE  IInv'
  OBVIOUS
<1>1. /\ pc = "decide" /\ op.kind = "GET"
      /\ GetAction \in {"Same", "Resume"} /\ StartPoint = w.size
      /\ DeletesSource("same") \/ DeletesSource("ok")
      /\ UNCHANGED <<local, remote, srv, cip, now, used, mixed, calls>>
  BY GetSameSize DEF GetSame, IInv, CallOK
<1>2. Clean /\ Recognises => Saved
  BY <1>1, GetSameIs DEF Saved, Destination, Wanted, Source, Downloads
<1>3. pc # "idle" /\ op.kind # "PUTMEM"
  BY <1>1
<1> QED
  BY <1>1, <1>2, <1>3, CloseKeeps

\* Opening the local file keeps the invariant when what is left in it is a beginning
\* of the remote one, and the transfer starts where it ends.
LEMMA GetOpensKeeps ==
  ASSUME IInv, pc = "decide", op.kind = "GET",
         NEW z \in {"Overwrite", "Resume", "Append"}, NEW start \in Nat,
         w' = [w EXCEPT !.zaction = z, !.start = start], pc' = "start",
         UNCHANGED <<remote, srv, cip, now, used, op, calls>>,
         FilesOK', AgreeOK', local'.there,
         Sound("dst")' => IsPrefix(local'.data, remote["dst"].data)
                          /\ start = Size(local'.data, op.type)
  PROVE  IInv'
<1>1. w \in Locals /\ w.mdtm <= now /\ cip \in Caps
  BY DEF IInv, CallOK
<1>2. w' \in Locals /\ w'.mdtm = w.mdtm /\ w'.start = start
  BY <1>1 DEF Locals
<1>3. CallOK' /\ OpOK'
  BY <1>1, <1>2, Asking, CallKept
<1>4. LocalOK'
  BY DEF LocalOK
<1>5. StartOK'
  BY <1>2 DEF StartOK, Uploads
<1> QED
  BY <1>3, <1>4, <1>5, Vacuous DEF IInv

LEMMA GetOverwritesKeeps == IInv /\ GetOverwrites => IInv'
<1> SUFFICES ASSUME IInv, GetOverwrites
             PROVE  IInv'
  OBVIOUS
<1>1. /\ pc = "decide" /\ op.kind = "GET" /\ pc' = "start"
      /\ w' = [w EXCEPT !.zaction = "Overwrite", !.start = 0]
      /\ local' = File(<<>>, now) /\ mixed' = {}
      /\ UNCHANGED <<remote, srv, cip, now, used, op, calls>>
  BY DEF GetOverwrites, GetOpens
<1>2. /\ now \in 0 .. MaxNow /\ op.type \in {"A", "I"} /\ remote["dst"].data \in Seq(Chars)
      /\ <<>> \in Seq(Chars)
  BY Parts, EmptySeq DEF IInv
<1>3. IsFile(local', now) /\ local'.there /\ local'.data = <<>>
  BY <1>1, <1>2, FileMade
<1>4. FilesOK'
  BY <1>1, <1>3 DEF IInv, FilesOK
<1>5. IsPrefix(local'.data, remote["dst"].data) /\ 0 = Size(local'.data, op.type)
  BY <1>2, <1>3, NilPrefix, SizeNil
<1>6. AgreeOK'
  BY <1>1, <1>5 DEF AgreeOK, Agree, Uploads
<1>7. Sound("dst")' => IsPrefix(local'.data, remote["dst"].data) /\ 0 = Size(local'.data, op.type)
  BY <1>5
<1>8. 0 \in Nat /\ "Overwrite" \in {"Overwrite", "Resume", "Append"}
  OBVIOUS
<1> QED
  BY <1>1, <1>3, <1>4, <1>6, <1>7, <1>8, GetOpensKeeps

LEMMA GetResumesKeeps == IInv /\ GetResumes => IInv'
<1> SUFFICES ASSUME IInv, GetResumes
             PROVE  IInv'
  OBVIOUS
<1>1. /\ pc = "decide" /\ op.kind = "GET" /\ pc' = "start" /\ GetAction = "Resume"
      /\ w.size # Unknown /\ StartPoint < w.size
      /\ w' = [w EXCEPT !.zaction = "Resume", !.start = StartPoint]
      /\ local' = IF local.there THEN local ELSE File(<<>>, now)
      /\ mixed' = IF op.answer # "none" THEN {"dst"} ELSE mixed
      /\ UNCHANGED <<remote, srv, cip, now, used, op, calls>>
  BY DEF GetResumes, GetOpens
<1>2. /\ local.data \in Seq(Chars) /\ op.type \in {"A", "I"} /\ "dst" \in Names
      /\ w.size \in Nat \cup {Unknown}
  BY Parts DEF IInv, CallOK, Locals
<1>3. StartPoint \in Nat /\ StartPoint <= w.size
  BY <1>1, <1>2, SizeType DEF StartPoint, Unknown
<1>4. local.there /\ local' = local
  BY <1>1 DEF GetAction
<1>5. FilesOK'
  BY <1>1, <1>2, <1>4 DEF IInv, FilesOK
<1>6. Sound("dst")' => Sound("dst") /\ op.answer = "none"
  BY <1>1 DEF Sound
<1>7. AgreeOK'
  BY <1>1, <1>4, <1>6 DEF IInv, AgreeOK, Uploads
<1>8. Sound("dst")' => IsPrefix(local'.data, remote["dst"].data)
                       /\ StartPoint = Size(local'.data, op.type)
  BY <1>1, <1>3, <1>4, <1>6, GetPrefix DEF StartPoint
<1> QED
  BY <1>1, <1>3, <1>4, <1>5, <1>7, <1>8, GetOpensKeeps

LEMMA GetAppendsKeeps == IInv /\ GetAppends => IInv'
<1> SUFFICES ASSUME IInv, GetAppends
             PROVE  IInv'
  OBVIOUS
<1>1. /\ pc = "decide" /\ op.kind = "GET" /\ pc' = "start" /\ GetAction = "Append"
      /\ w' = [w EXCEPT !.zaction = "Append", !.start = 0]
      /\ local' = IF local.there THEN local ELSE File(<<>>, now)
      /\ mixed' = {"dst"}
      /\ UNCHANGED <<remote, srv, cip, now, used, op, calls>>
  BY DEF GetAppends, GetOpens
<1>2. local.there /\ local' = local
  BY <1>1 DEF GetAction
<1>3. FilesOK'
  BY <1>1, <1>2 DEF IInv, FilesOK, Names
<1>4. ~Sound("dst")'
  BY <1>1 DEF Sound
<1>5. AgreeOK'
  BY <1>1, <1>4 DEF AgreeOK, Uploads
<1> QED
  BY <1>1, <1>2, <1>3, <1>4, <1>5, GetOpensKeeps

\* Putting the remote file's time on the local one.
LEMMA StampedType ==
  ASSUME NEW f, NEW t \in 0 .. MaxNow, IsFile(f, t), f.there, w \in Locals, w.mdtm <= t
  PROVE  IsFile(Stamped(f), t) /\ Stamped(f).there /\ Stamped(f).data = f.data
<1>1. CASE w.mdtm = Unknown
  BY <1>1 DEF Stamped
<1>2. CASE w.mdtm # Unknown
  <2>1. w.mdtm \in 0 .. MaxNow
    BY <1>2 DEF Locals
  <2> QED
    BY <1>2, <2>1 DEF Stamped, IsFile, Files
<1> QED
  BY <1>1, <1>2

LEMMA GetAppendsNothingKeeps == IInv /\ GetAppendsNothing => IInv'
<1> SUFFICES ASSUME IInv, GetAppendsNothing
             PROVE  IInv'
  OBVIOUS
<1>1. /\ pc = "decide" /\ op.kind = "GET" /\ GetAction = "Append" /\ w.size = 0
      /\ local' = Stamped(local) /\ DeletesSource("ok")
      /\ UNCHANGED <<remote, srv, cip, now, used, mixed, calls>>
  BY DEF GetAppendsNothing
<1>2. local.there /\ op.append
  BY <1>1 DEF GetAction, GuessGet, IInv, CallOK, Ops, Answers
<1>3. IsFile(local', now)
  <2>1. IsFile(local, now) /\ now \in 0 .. MaxNow /\ w \in Locals /\ w.mdtm <= now
    BY Parts DEF IInv, FilesOK, CallOK
  <2> QED
    BY <1>1, <1>2, <2>1, StampedType
<1>4. FilesOK'
  BY <1>1, <1>3 DEF IInv, FilesOK
<1>5. Sound("dst") => remote["dst"].data = <<>>
  <2> SUFFICES ASSUME Sound("dst")
               PROVE  remote["dst"].data = <<>>
    OBVIOUS
  <2>1. w.size # Unknown /\ Target = "dst"
    BY <1>1 DEF Unknown, Target
  <2>2. Told(remote["dst"])
    BY <1>1, <2>1 DEF IInv, AskOK
  <2>3. remote["dst"].data \in Seq(Chars) /\ op.type \in {"A", "I"}
    BY Parts DEF IInv
  <2>4. Len(remote["dst"].data) = 0 \/ Size(remote["dst"].data, op.type) = 0
    BY <1>1, <2>2 DEF Told
  <2> QED
    BY <2>3, <2>4, EmptySeq, SizeZero
<1>6. op'.kind = op.kind
  BY <1>1, KindKept DEF IInv, CallOK
<1>7. AgreeOK'
  BY <1>1, <1>5, <1>6 DEF AgreeOK, Agree, Sound, Uploads
<1>8. ~op.delete
  BY <1>2 DEF IInv, OpOK
<1>9. Return("ok") /\ "ok" \in Results
  BY <1>1, <1>8 DEF DeletesSource, Results
<1> QED
  BY <1>1, <1>4, <1>7, <1>9, ReturnKeeps

-----------------------------------------------------------------------------
(* The beginnings of the calls for files, and FTPGetOneF's transfer.        *)

LEMMA ParamsType ==
  ASSUME NEW k \in {"GET", "PUT"}, NEW o \in Params(k), now \in Nat
  PROVE  /\ o \in Ops /\ o.kind = k
         /\ o.append => ~o.resume /\ ~o.delete /\ ~o.tmp
         /\ o.answer # "none" => ~o.resume /\ ~o.append
         /\ o.tmp => o.kind = "PUT" /\ o.answer = "none"
<1>1. /\ o \in [kind: {k}, type: Types, resume: BOOLEAN, append: BOOLEAN,
                progress: BOOLEAN, delete: BOOLEAN, tmp: BOOLEAN, batch: {0, 1, now},
                answer: {"none", "Resume", "Skip", "Cancel"}, start: {0}, room: {0}]
      /\ o.append => ~o.resume /\ ~o.delete /\ ~o.tmp
      /\ o.answer # "none" => ~o.resume /\ ~o.append
      /\ o.tmp => k = "PUT" /\ o.answer = "none"
  BY DEF Params
<1>2. o \in Ops /\ o.kind = k
  <2>1. /\ {k} \subseteq AllKinds /\ Types \subseteq {"A", "I"} /\ {0, 1, now} \subseteq Nat
        /\ {"none", "Resume", "Skip", "Cancel"} = Answers /\ {0} \subseteq Nat
    BY ConstantsAssumption DEF AllKinds, Answers
  <2> DEFINE Ks == {k}
             As == {"none", "Resume", "Skip", "Cancel"}
             Bs == {0, 1, now}
             Zs == {0}
  <2> HIDE DEF Ks, As, Bs, Zs
  <2>2. o \in [kind: Ks, type: Types, resume: BOOLEAN, append: BOOLEAN,
               progress: BOOLEAN, delete: BOOLEAN, tmp: BOOLEAN, batch: Bs,
               answer: As, start: Zs, room: Zs]
    BY <1>1 DEF Ks, As, Bs, Zs
  <2>3. Ks \subseteq AllKinds /\ As = Answers /\ Bs \subseteq Nat /\ Zs \subseteq Nat
    BY <2>1 DEF Ks, As, Bs, Zs
  <2>4. o \in Ops
    BY <2>1, <2>2, <2>3 DEF Ops
  <2>5. o.kind \in Ks
    BY <2>2
  <2> QED
    BY <2>4, <2>5 DEF Ks
<1> QED
  BY <1>1, <1>2

LEMMA BeginKeeps ==
  ASSUME IInv, pc = "idle", op.kind \in {"GET", "PUT"}, calls < MaxCalls,
         op' \in Params(op.kind), w' = NoLocals, calls' = calls + 1, pc' = "ask",
         UNCHANGED <<local, remote, srv, cip, now, used, mixed>>,
         op.kind = "PUT" => local.there
  PROVE  IInv'
<1>1. now \in Nat
  BY Times DEF IInv
<1>2. /\ op' \in Ops /\ op'.kind = op.kind
      /\ op'.append => ~op'.resume /\ ~op'.delete /\ ~op'.tmp
      /\ op'.answer # "none" => ~op'.resume /\ ~op'.append
      /\ op'.tmp => op'.kind = "PUT" /\ op'.answer = "none"
  BY <1>1, ParamsType
<1>3. w' \in Locals /\ w'.mdtm <= now /\ w'.size = Unknown /\ w'.mdtm = Unknown
  <2>1. NoLocals \in Locals /\ NoLocals.mdtm = Unknown
    BY NoLocalsType DEF Results
  <2>2. NoLocals.size = Unknown
    BY DEF NoLocals
  <2> QED
    BY <1>1, <2>1, <2>2 DEF Unknown
<1>4. CallOK'
  <2>1. calls' \in 0 .. MaxCalls /\ cip' \in Caps
    BY ConstantsAssumption DEF IInv, CallOK
  <2>2. pc' \in PcsOf(op'.kind)
    BY <1>2 DEF PcsOf
  <2> QED
    BY <1>2, <1>3, <2>1, <2>2 DEF CallOK
<1>5. OpOK'
  BY <1>2 DEF OpOK
<1>6. LocalOK'
  BY <1>2 DEF LocalOK
<1>7. FilesOK' /\ AgreeOK'
  BY <1>2, FilesKept, AgreeKept DEF IInv, FilesOK
<1>8. AskOK'
  BY <1>3 DEF AskOK
<1> QED
  BY <1>4, <1>5, <1>6, <1>7, <1>8, Vacuous DEF IInv

LEMMA FTPGetOneFKeeps == IInv /\ FTPGetOneF => IInv'
BY BeginKeeps DEF FTPGetOneF

LEMMA FTPPutOneFKeeps == IInv /\ FTPPutOneF => IInv'
BY BeginKeeps DEF FTPPutOneF

LEMMA GetStartsKeeps == IInv /\ GetStarts => IInv'
<1> SUFFICES ASSUME IInv, GetStarts
             PROVE  IInv'
  OBVIOUS
<1> DEFINE d == remote["dst"].data
           start == IF RESTAccepted THEN w.start ELSE 0
           wire == From(ToNet(d, op.type), start)
<1>1. /\ pc = "start" /\ op.kind = "GET" /\ remote["dst"].there /\ pc' = "transfer"
      /\ w' = [w EXCEPT !.start = start, !.base = local.data, !.wire = wire]
      /\ mixed' = IF w.start # 0 /\ ~RESTAccepted THEN {"dst"} ELSE mixed
      /\ UNCHANGED <<local, remote, srv, cip, now, used, op, calls>>
  BY DEF GetStarts
<1>2. /\ w \in Locals /\ w.mdtm <= now /\ cip \in Caps /\ start \in Nat
      /\ op.type \in {"A", "I"} /\ d \in Seq(Chars) /\ local.data \in Seq(Chars)
  BY Parts DEF IInv, CallOK, Locals
<1>3. wire \in Seq(Wires) /\ (op.type = "I" => wire \in Seq(Chars))
  <2>1. ToNet(d, op.type) \in Seq(Wires) /\ (op.type = "I" => ToNet(d, op.type) \in Seq(Chars))
    BY <1>2, ToNetType, ToNetIs
  <2> HIDE DEF d, start
  <2> QED
    BY <1>2, <2>1, FromType
<1> HIDE DEF d, wire
<1>4. /\ w' \in Locals /\ w'.mdtm = w.mdtm /\ w'.base = local.data /\ w'.wire = wire
  BY <1>1, <1>2, <1>3 DEF Locals
<1>5. CallOK' /\ OpOK'
  <2>1. "transfer" \in PcsOf(op.kind)
    BY <1>1 DEF PcsOf
  <2> QED
    BY <1>1, <1>2, <1>4, <2>1, CallKept
<1>6. LocalOK'
  BY <1>1 DEF IInv, LocalOK
<1>7. FilesOK'
  BY <1>1 DEF IInv, FilesOK, Names
<1>8. Sound("dst")' => Sound("dst") /\ (w.start = 0 \/ RESTAccepted)
  BY <1>1 DEF Sound
<1>9. AgreeOK'
  BY <1>1, <1>8 DEF IInv, AgreeOK, Uploads
<1>10. Sound("dst")' => Piece(d)'
  <2> SUFFICES ASSUME Sound("dst")'
               PROVE  Piece(d)'
    OBVIOUS
  <2>1. IsPrefix(local.data, d) /\ w.start = Size(local.data, op.type)
    BY <1>1, <1>8 DEF d, IInv, StartOK
  <2>2. start = w.start
    BY <1>8
  <2>3. wire = From(ToNet(d, op.type), Size(local.data, op.type))
    BY <2>1, <2>2 DEF wire
  <2>4. d' = d
    BY <1>1 DEF d
  <2> QED
    BY <1>1, <1>4, <2>1, <2>3, <2>4 DEF Piece
<1>11. TransferOK'
  BY <1>1, <1>3, <1>4, <1>10 DEF TransferOK, Uploads, d
<1> QED
  BY <1>1, <1>5, <1>6, <1>7, <1>9, <1>11, Vacuous DEF IInv

\* A local file in place of which there is nothing, or that goes on to be a beginning
\* of the remote one, keeps what the files have of each other.
LEMMA GetAgrees ==
  ASSUME IInv, op.kind = "GET", op'.kind = "GET", UNCHANGED <<remote, srv, mixed>>,
         Sound("dst") => IsPrefix(local'.data, remote["dst"].data)
  PROVE  AgreeOK'
BY DEF AgreeOK, Agree, Sound, Uploads

LEMMA LocalChanged ==
  ASSUME FilesOK, IsFile(local', now), UNCHANGED <<remote, srv, now, used, mixed>>
  PROVE  FilesOK'
BY DEF FilesOK

LEMMA GetStartFailsKeeps == IInv /\ GetStartFails => IInv'
<1> SUFFICES ASSUME IInv, GetStartFails
             PROVE  IInv'
  OBVIOUS
<1>1. /\ pc = "start" /\ op.kind = "GET" /\ Return("error") /\ local' \in {local, NoFile}
      /\ UNCHANGED <<remote, srv, cip, now, used, mixed, calls>>
  BY DEF GetStartFails
<1>2. "error" \in Results /\ op'.kind = "GET"
  BY <1>1, KindKept DEF Results, IInv, CallOK
<1>3. IsFile(NoFile, now) /\ NoFile.data = <<>> /\ remote["dst"].data \in Seq(Chars)
  BY Parts, NoFileMade DEF IInv
<1>4. IsFile(local', now)
  BY <1>1, <1>3 DEF IInv, FilesOK
<1>5. Sound("dst") => IsPrefix(local'.data, remote["dst"].data)
  <2>1. Sound("dst") => IsPrefix(local.data, remote["dst"].data)
    BY <1>1 DEF IInv, StartOK
  <2>2. IsPrefix(NoFile.data, remote["dst"].data)
    BY <1>3, NilPrefix
  <2> QED
    BY <1>1, <2>1, <2>2
<1>6. FilesOK' /\ AgreeOK'
  BY <1>1, <1>2, <1>4, <1>5, GetAgrees, LocalChanged DEF IInv
<1> QED
  BY <1>1, <1>2, <1>6, ReturnKeeps

\* What the local file is when a part of the transfer has come.
LEMMA ReceivedIs ==
  ASSUME IInv, pc = "transfer", op.kind = "GET", NEW k \in 0 .. Len(w.wire)
  PROVE  /\ IsFile(Received(k), now) /\ Received(k).there
         /\ Received(k).data = w.base \o FromNet(SubSeq(w.wire, 1, k), op.type)
         /\ Sound("dst") => IsPrefix(Received(k).data, remote["dst"].data)
<1> DEFINE x == w.base \o FromNet(SubSeq(w.wire, 1, k), op.type)
           d == remote["dst"].data
<1>1. /\ op.type \in {"A", "I"} /\ w.base \in Seq(Chars) /\ w.wire \in Seq(Wires)
      /\ op.type = "I" => w.wire \in Seq(Chars)
      /\ d \in Seq(Chars) /\ now \in 0 .. MaxNow
  BY Parts DEF IInv, CallOK, Locals, TransferOK
<1>2. x \in Seq(Chars)
  BY <1>1, ComeType
<1>3. IsFile(local, now) /\ local.there
  BY DEF IInv, FilesOK, LocalOK
<1>4. Received(k) = [local EXCEPT !.data = x, !.mtime = IF k > 0 THEN now ELSE local.mtime]
  BY DEF Received
<1> HIDE DEF x
<1>5. IsFile(Received(k), now) /\ Received(k).there /\ Received(k).data = x
  <2>1. (IF k > 0 THEN now ELSE local.mtime) \in 0 .. MaxNow
        /\ (IF k > 0 THEN now ELSE local.mtime) <= now
    BY <1>1, <1>3 DEF IsFile, Files
  <2> QED
    BY <1>2, <1>3, <1>4, <2>1 DEF IsFile, Files
<1>6. Sound("dst") => IsPrefix(x, d)
  <2> SUFFICES ASSUME Sound("dst")
               PROVE  IsPrefix(x, d)
    OBVIOUS
  <2>1. IsPrefix(w.base, d) /\ w.wire = From(ToNet(d, op.type), Size(w.base, op.type))
    BY DEF IInv, TransferOK, Piece
  <2> QED
    BY <1>1, <2>1, GoesOn DEF x
<1> QED
  BY <1>5, <1>6 DEF x

\* Whatever has come of the transfer, and whether the file is given its time or not.
LEMMA GetComes ==
  ASSUME IInv, pc = "transfer", op.kind = "GET", NEW k \in 0 .. Len(w.wire),
         local' \in {Received(k), Stamped(Received(k))}, op'.kind = "GET",
         UNCHANGED <<remote, srv, now, used, mixed>>
  PROVE  FilesOK' /\ AgreeOK' /\ local'.data = Received(k).data
<1>1. /\ IsFile(Received(k), now) /\ Received(k).there
      /\ Sound("dst") => IsPrefix(Received(k).data, remote["dst"].data)
  BY ReceivedIs
<1>2. now \in 0 .. MaxNow /\ w \in Locals /\ w.mdtm <= now
  BY Parts DEF IInv, CallOK
<1>3. /\ IsFile(Stamped(Received(k)), now)
      /\ Stamped(Received(k)).data = Received(k).data
  BY <1>1, <1>2, StampedType
<1>4. IsFile(local', now) /\ local'.data = Received(k).data
  BY <1>1, <1>3
<1>5. FilesOK' /\ AgreeOK'
  BY <1>1, <1>4, GetAgrees, LocalChanged DEF IInv
<1> QED
  BY <1>4, <1>5

\* When all has come, the file is whole.
LEMMA GetWhole ==
  ASSUME IInv, pc = "transfer", op.kind = "GET", Clean, Recognises
  PROVE  Received(Len(w.wire)).data = remote["dst"].data
<1> DEFINE d == remote["dst"].data
<1>1. /\ op.type \in {"A", "I"} /\ w.base \in Seq(Chars) /\ w.wire \in Seq(Wires)
      /\ d \in Seq(Chars)
  BY Parts DEF IInv, CallOK, Locals
<1>2. Len(w.wire) \in 0 .. Len(w.wire)
  BY <1>1, LenProperties
<1>3. Sound("dst")
  BY DEF Clean, Recognises, Sound
<1>4. IsPrefix(w.base, d) /\ w.wire = From(ToNet(d, op.type), Size(w.base, op.type))
  BY <1>3 DEF IInv, TransferOK, Piece
<1> HIDE DEF d
<1>5. w.base \o FromNet(SubSeq(w.wire, 1, Len(w.wire)), op.type) = d
  <2>1. \A n : n = From(ToNet(d, op.type), Size(w.base, op.type))
                => w.base \o FromNet(SubSeq(n, 1, Len(n)), op.type) = d
    BY <1>1, <1>4, Completed
  <2> QED
    BY <1>4, <2>1, Zenon
<1> QED
  BY <1>2, <1>5, ReceivedIs DEF d

LEMMA GetEndsKeeps == IInv /\ GetEnds => IInv'
<1> SUFFICES ASSUME IInv, GetEnds
             PROVE  IInv'
  OBVIOUS
<1>1. /\ pc = "transfer" /\ op.kind = "GET" /\ DeletesSource("ok")
      /\ local' = Stamped(Received(Len(w.wire)))
      /\ UNCHANGED <<remote, srv, cip, now, used, mixed, calls>>
  BY DEF GetEnds
<1>2. op'.kind = "GET" /\ Len(w.wire) \in 0 .. Len(w.wire)
  BY <1>1, KindKept, LenProperties DEF IInv, CallOK, Locals
<1>3. FilesOK' /\ AgreeOK' /\ local'.data = Received(Len(w.wire)).data
  BY <1>1, <1>2, GetComes
<1>4. op' = op => (Clean /\ Recognises => Saved)'
  <2> SUFFICES ASSUME op' = op, Clean', Recognises'
               PROVE  Saved'
    OBVIOUS
  <2>1. Clean /\ Recognises
    BY <1>1 DEF Clean, Recognises, Target
  <2>2. local'.data = remote["dst"].data
    BY <1>1, <1>3, <2>1, GetWhole
  <2> QED
    BY <1>1, <2>2 DEF Saved, Destination, Wanted, Source, Downloads
<1>5. op.kind # "PUTMEM" /\ ~(op.kind \in {"PUT", "GETMEM"}) /\ "ok" \in {"ok", "same"}
  BY <1>1
<1> QED
  BY <1>1, <1>3, <1>4, <1>5, DeletesKeeps

LEMMA GetBreaksKeeps == IInv /\ GetBreaks => IInv'
<1> SUFFICES ASSUME IInv, GetBreaks
             PROVE  IInv'
  OBVIOUS
<1>1. /\ pc = "transfer" /\ op.kind = "GET" /\ Return("error")
      /\ UNCHANGED <<remote, srv, cip, now, used, mixed, calls>>
  BY DEF GetBreaks
<1>2. PICK k \in 0 .. Len(w.wire) : local' = Stamped(Received(k))
  BY DEF GetBreaks
<1>3. op'.kind = "GET" /\ "error" \in Results /\ op.kind # "PUTMEM"
  BY <1>1, KindKept DEF IInv, CallOK, Results
<1>4. FilesOK' /\ AgreeOK'
  BY <1>1, <1>2, <1>3, GetComes
<1> QED
  BY <1>1, <1>3, <1>4, ReturnKeeps

LEMMA GetKilledKeeps == IInv /\ GetKilled => IInv'
<1> SUFFICES ASSUME IInv, GetKilled
             PROVE  IInv'
  OBVIOUS
<1>1. /\ pc = "transfer" /\ op.kind = "GET" /\ Return("error")
      /\ UNCHANGED <<remote, srv, cip, now, used, mixed, calls>>
  BY DEF GetKilled
<1>2. PICK k \in 0 .. Len(w.wire) : local' \in {Received(k), Stamped(Received(k))}
  BY DEF GetKilled
<1>3. op'.kind = "GET" /\ "error" \in Results /\ op.kind # "PUTMEM"
  BY <1>1, KindKept DEF IInv, CallOK, Results
<1>4. FilesOK' /\ AgreeOK'
  BY <1>1, <1>2, <1>3, GetComes
<1> QED
  BY <1>1, <1>3, <1>4, ReturnKeeps

LEMMA RemoteType ==
  ASSUME FilesOK, NEW n \in Names, NEW f, IsFile(f, now), remote' = [remote EXCEPT ![n] = f],
         UNCHANGED <<local, srv, now, used>>, mixed' \subseteq Names
  PROVE  FilesOK' /\ remote'[n] = f /\ \A m \in Names : m # n => remote'[m] = remote[m]
BY DEF FilesOK, IsFile

LEMMA DeleteRemoteKeeps == IInv /\ DeleteRemote => IInv'
<1> SUFFICES ASSUME IInv, DeleteRemote
             PROVE  IInv'
  OBVIOUS
<1>1. /\ pc = "delete" /\ Downloads /\ Return(w.res)
      /\ remote' = [remote EXCEPT !["dst"] = NoFile]
      /\ UNCHANGED <<local, srv, cip, now, used, mixed, calls>>
  BY DEF DeleteRemote
<1>2. op'.kind = op.kind /\ w.res \in Results /\ ~Uploads /\ op.kind # "PUTMEM"
  BY <1>1, KindKept DEF IInv, CallOK, Locals, Downloads, Uploads
<1>3. IsFile(NoFile, now) /\ ~NoFile.there /\ "dst" \in Names
  BY Parts, NoFileMade DEF IInv
<1>4. FilesOK' /\ remote'["dst"] = NoFile
  BY <1>1, <1>3, RemoteType DEF IInv, FilesOK
<1>5. AgreeOK'
  BY <1>2, <1>3, <1>4 DEF AgreeOK, Agree, Uploads
<1> QED
  BY <1>1, <1>2, <1>4, <1>5, ReturnKeeps

-----------------------------------------------------------------------------
(* FTPPutOneF's decision.                                                   *)

LEMMA PutActionIs ==
  ASSUME op \in Ops, OpOK
  PROVE  /\ PutAction \in {"Same", "Resume"} /\ op.answer = "none" =>
              op.resume /\ PutAction = GuessPut
         /\ PutAction \in {"Same", "Resume", "Overwrite"} => ~op.append
         /\ PutAction = "Append" => op.append
<1>1. Confirms => op.answer # "none" /\ ~op.append
  BY DEF Confirms, OpOK
<1>2. op.answer \in {"none", "Resume", "Skip", "Cancel"} /\ op.append \in BOOLEAN /\ op.resume \in BOOLEAN
  BY DEF Ops, Answers
<1>3. GuessPut \in {"Overwrite", "Same", "Resume"}
  BY DEF GuessPut
<1> QED
  BY <1>1, <1>2, <1>3 DEF PutAction

\* A remote file that the decision takes for a beginning of the local one is one.
LEMMA PutPrefix ==
  ASSUME IInv, pc = "decide", op.kind = "PUT", Sound(Target), op.answer = "none",
         PutAction \in {"Same", "Resume"}
  PROVE  /\ w.size # Unknown /\ Told(remote[Target])
         /\ IsPrefix(remote[Target].data, local.data)
         /\ PutAction = "Resume" => LocalSize # w.size
<1>1. op.resume /\ GuessPut \in {"Same", "Resume"} /\ PutAction = GuessPut
  BY PutActionIs DEF IInv, CallOK
<1>2. /\ local.data \in Seq(Chars) /\ remote[Target].data \in Seq(Chars)
      /\ op.type \in {"A", "I"} /\ Target \in Names /\ w.size \in Nat \cup {Unknown}
      /\ LocalSize \in Nat
  BY Parts, SizeType DEF IInv, CallOK, Locals, LocalSize
<1>3. /\ ~LocalIsNewer /\ w.size # Unknown
      /\ LocalSize = w.size \/ LocalSize > w.size
      /\ GuessPut = "Resume" => LocalSize # w.size
  BY <1>1, <1>2 DEF GuessPut, Unknown
<1>4. Told(remote[Target])
  <2>1. Asks
    BY <1>1 DEF Asks
  <2> QED
    BY <1>3, <2>1 DEF IInv, AskOK
<1>5. remote[Target].there /\ w.mdtm = remote[Target].mtime
  BY <1>4 DEF Told
<1>6. local.mtime <= remote[Target].mtime + 1
  <2>1. local.mtime \in Nat /\ remote[Target].mtime \in Nat
    BY <1>2, Times DEF IInv
  <2> QED
    BY <1>3, <1>5, <2>1 DEF LocalIsNewer, Unknown
<1>7. IsPrefix(remote[Target].data, local.data) \/ local.data = <<>>
  <2>1. local.there /\ Uploads
    BY DEF IInv, LocalOK, Uploads
  <2> QED
    BY <1>2, <1>6, <2>1 DEF IInv, AgreeOK, Agree
<1>8. CASE local.data = <<>>
  <2>1. LocalSize = 0
    BY <1>2, <1>8, SizeNil DEF LocalSize
  <2>2. w.size = 0
    BY <1>2, <1>3, <2>1 DEF Unknown
  <2>3. Len(remote[Target].data) = 0 \/ Size(remote[Target].data, op.type) = 0
    BY <1>4, <2>2 DEF Told
  <2>4. remote[Target].data = <<>>
    BY <1>2, <2>3, EmptySeq, SizeZero
  <2>5. IsPrefix(remote[Target].data, local.data)
    BY <1>2, <1>8, <2>4, SelfPrefix
  <2> QED
    BY <1>1, <1>3, <1>4, <2>5
<1> QED
  BY <1>1, <1>3, <1>4, <1>7, <1>8

LEMMA PutSameIs ==
  ASSUME IInv, pc = "decide", op.kind = "PUT", Clean, Recognises,
         PutAction \in {"Same", "Resume"}, LocalSize = w.size
  PROVE  remote[Target].data = local.data
<1>1. Sound(Target) /\ op.answer = "none"
  BY DEF Clean, Recognises, Sound
<1>2. /\ local.data \in Seq(Chars) /\ remote[Target].data \in Seq(Chars)
      /\ op.type \in {"A", "I"}
  BY Parts DEF IInv
<1>3. Told(remote[Target]) /\ IsPrefix(remote[Target].data, local.data)
  BY <1>1, PutPrefix
<1>4. w.size = Size(remote[Target].data, op.type)
  <2>1. op.type = "I" => Size(remote[Target].data, op.type) = Len(remote[Target].data)
    BY ToNetIs DEF Size
  <2> QED
    BY <1>2, <1>3, <2>1 DEF Told, Recognises
<1> QED
  BY <1>2, <1>3, <1>4, SameSize DEF LocalSize

LEMMA PutSameSize ==
  ASSUME PutAction = "Same", op \in Ops
  PROVE  LocalSize = w.size
<1>1. op.answer # "Same"
  BY DEF Ops, Answers
<1>2. GuessPut = "Same"
  BY <1>1 DEF PutAction
<1> QED
  BY <1>2 DEF GuessPut

\* An upload that has what the source has, under the one name or the other.
LEMMA PutSaved ==
  ASSUME op.kind = "PUT", remote[Target].data = local.data
  PROVE  Saved
BY DEF Saved, Destination, Wanted, Source, Downloads, Target

LEMMA PutNotNeededKeeps == IInv /\ PutNotNeeded => IInv'
<1> SUFFICES ASSUME IInv, PutNotNeeded
             PROVE  IInv'
  OBVIOUS
<1>1. /\ pc = "decide" /\ op.kind = "PUT"
      /\ UNCHANGED <<local, remote, srv, cip, now, used, mixed, calls>>
      /\ \/ Skips
         \/ /\ PutAction \in {"Same", "Resume"} /\ LocalSize = w.size
            /\ DeletesSource("same") \/ DeletesSource("ok")
  BY PutSameSize DEF PutNotNeeded, IInv, CallOK
<1>2. pc # "idle" /\ op.kind # "PUTMEM"
  BY <1>1
<1>3. CASE Skips
  BY <1>1, <1>2, <1>3, SkipsKeeps
<1>4. CASE /\ PutAction \in {"Same", "Resume"} /\ LocalSize = w.size
           /\ DeletesSource("same") \/ DeletesSource("ok")
  <2>1. Clean /\ Recognises => Saved
    BY <1>1, <1>4, PutSameIs, PutSaved
  <2> QED
    BY <1>1, <1>2, <1>4, <2>1, CloseKeeps
<1> QED
  BY <1>1, <1>3, <1>4

\* The place from which an upload goes on is known before it starts.
LEMMA PutOpensKeeps ==
  ASSUME IInv, pc = "decide", op.kind = "PUT", NEW z \in {"Overwrite", "Resume", "Append"},
         NEW start \in Nat, NEW append \in BOOLEAN, PutOpens(z, start, append),
         op.append => append,
         Sound(Target) /\ op.answer = "none" /\ ~op.append /\ (append \/ start # 0) =>
           /\ IsPrefix(remote[Target].data, local.data)
           /\ append => op.type = "A" /\ (~srv.mlst => start = Size(remote[Target].data, "A"))
           /\ ~append => op.type = "I" /\ start = Len(remote[Target].data)
  PROVE  IInv'
<1>1. /\ w' = [w EXCEPT !.zaction = z, !.start = start, !.append = append]
      /\ pc' = "start"
      /\ UNCHANGED <<local, remote, srv, cip, now, used, mixed, op, calls>>
  BY DEF PutOpens
<1>2. w \in Locals /\ w.mdtm <= now /\ cip \in Caps
  BY DEF IInv, CallOK
<1>3. /\ w' \in Locals /\ w'.mdtm = w.mdtm /\ w'.start = start /\ w'.append = append
  BY <1>1, <1>2 DEF Locals
<1>4. CallOK' /\ OpOK'
  BY <1>1, <1>2, <1>3, Asking, CallKept
<1>5. FilesOK' /\ AgreeOK'
  BY <1>1, FilesKept, AgreeKept DEF IInv, FilesOK
<1>6. LocalOK'
  BY <1>1 DEF IInv, LocalOK
<1>7. StartOK'
  <2>1. Sound(Target)' = Sound(Target) /\ Target' = Target
    BY <1>1 DEF Sound, Target
  <2>2. Sound(Target)' /\ op'.answer = "none" /\ ~op'.append /\ (w'.append \/ w'.start # 0)
          => PutFrom(remote[Target])'
    BY <1>1, <1>3, <2>1 DEF PutFrom
  <2> QED
    BY <1>1, <1>3, <2>2 DEF StartOK, Uploads
<1> QED
  BY <1>1, <1>4, <1>5, <1>6, <1>7, Vacuous DEF IInv

LEMMA PutOverwritesKeeps == IInv /\ PutOverwrites => IInv'
<1> SUFFICES ASSUME IInv, PutOverwrites
             PROVE  IInv'
  OBVIOUS
<1>1. /\ pc = "decide" /\ op.kind = "PUT" /\ ~op.append
      /\ PutOpens("Overwrite", 0, FALSE)
  BY PutActionIs DEF PutOverwrites, IInv, CallOK
<1> QED
  BY <1>1, PutOpensKeeps

LEMMA PutAppendsKeeps == IInv /\ PutAppends => IInv'
<1> SUFFICES ASSUME IInv, PutAppends
             PROVE  IInv'
  OBVIOUS
<1>1. /\ pc = "decide" /\ op.kind = "PUT" /\ op.append
      /\ PutOpens("Append", 0, TRUE)
  BY PutActionIs DEF PutAppends, IInv, CallOK
<1> QED
  BY <1>1, PutOpensKeeps

LEMMA PutResumesKeeps == IInv /\ PutResumes => IInv'
<1> SUFFICES ASSUME IInv, PutResumes
             PROVE  IInv'
  OBVIOUS
<1>1. /\ pc = "decide" /\ op.kind = "PUT" /\ PutAction = "Resume" /\ ~op.append
  BY PutActionIs DEF PutResumes, IInv, CallOK
<1>2. w.size \in Nat \cup {Unknown} /\ op.type \in {"A", "I"}
  BY Parts DEF IInv, CallOK, Locals
<1>3. \/ PutOpens("Resume", 0, FALSE)
      \/ op.type = "A" /\ w.size \in Nat /\ PutOpens("Append", w.size, TRUE)
      \/ op.type = "I" /\ w.size \in Nat /\ PutOpens("Resume", w.size, FALSE)
  <2>1. (w.size >= 0 => w.size \in Nat) /\ (w.size # Unknown => w.size \in Nat)
    BY <1>2 DEF Unknown
  <2>2. IF op.type = "A"
        THEN IF w.size >= 0 /\ Seekable(local.data, w.size)
             THEN PutOpens("Append", w.size, TRUE)
             ELSE PutOpens("Resume", 0, FALSE)
        ELSE IF srv.rest /\ w.size # Unknown
             THEN PutOpens("Resume", w.size, FALSE)
             ELSE PutOpens("Resume", 0, FALSE)
    BY DEF PutResumes
  <2>3. op.type # "A" => op.type = "I"
    BY <1>2
  <2> QED
    BY <2>1, <2>2, <2>3, Zenon
<1>4. Sound(Target) /\ op.answer = "none" =>
        Told(remote[Target]) /\ IsPrefix(remote[Target].data, local.data)
  BY <1>1, PutPrefix
<1>5. CASE PutOpens("Resume", 0, FALSE)
  BY <1>1, <1>5, PutOpensKeeps
<1>6. CASE op.type = "A" /\ w.size \in Nat /\ PutOpens("Append", w.size, TRUE)
  <2>1. Sound(Target) /\ op.answer = "none" =>
          IsPrefix(remote[Target].data, local.data)
          /\ (~srv.mlst => w.size = Size(remote[Target].data, "A"))
    BY <1>4, <1>6 DEF Told
  <2> QED
    BY <1>1, <1>6, <2>1, PutOpensKeeps
<1>7. CASE op.type = "I" /\ w.size \in Nat /\ PutOpens("Resume", w.size, FALSE)
  <2>1. Size(remote[Target].data, "I") = Len(remote[Target].data)
    BY ToNetIs DEF Size
  <2>2. Sound(Target) /\ op.answer = "none" =>
          IsPrefix(remote[Target].data, local.data) /\ w.size = Len(remote[Target].data)
    BY <1>4, <1>7, <2>1 DEF Told
  <2> QED
    BY <1>1, <1>7, <2>2, PutOpensKeeps
<1> QED
  BY <1>3, <1>5, <1>6, <1>7

-----------------------------------------------------------------------------
(* FTPPutOneF's transfer, and FTPPutFileFromMemory's.                       *)

\* Changing one remote file keeps what the files have of each other when what is
\* left in it is a beginning of the local one.
LEMMA PutAgrees ==
  ASSUME IInv, op.kind # "GET", op'.kind = op.kind, UNCHANGED <<local, srv>>, NEW n \in Names,
         \A m \in Names : m # n => remote'[m] = remote[m] /\ (m \notin mixed' => m \notin mixed),
         Sound(n)' => IsPrefix(remote'[n].data, local.data)
  PROVE  AgreeOK'
<1> SUFFICES ASSUME NEW m \in Names, Uploads', Sound(m)'
             PROVE  Agree(remote'[m], local)
  BY DEF AgreeOK
<1>1. CASE m = n
  BY <1>1 DEF Agree
<1>2. CASE m # n
  <2>1. Uploads /\ Sound(m) /\ remote'[m] = remote[m]
    BY <1>2 DEF Uploads, Sound
  <2> QED
    BY <2>1 DEF IInv, AgreeOK
<1> QED
  BY <1>1, <1>2

\* What STOR leaves of the file before anything has come.
Truncated(old, start) == SubSeq(old, 1, Min({start, Len(old)}))

LEMMA TruncatedIs ==
  ASSUME NEW old \in Seq(Chars), NEW start \in Nat
  PROVE  /\ Truncated(old, start) \in Seq(Chars)
         /\ start = 0 => Truncated(old, start) = <<>>
         /\ start = Len(old) => Truncated(old, start) = old
<1> DEFINE m == Min({start, Len(old)})
<1>1. Len(old) \in Nat
  BY LenProperties
<1>2. m = (IF start <= Len(old) THEN start ELSE Len(old))
  BY <1>1, MinOfTwo
<1>3. Truncated(old, start) = SubSeq(old, 1, m)
  BY DEF Truncated
<1> HIDE DEF m
<1>4. m \in 0 .. Len(old) /\ (start = 0 => m = 0) /\ (start = Len(old) => m = Len(old))
  BY <1>1, <1>2
<1>5. Truncated(old, start) \in Seq(Chars)
  BY <1>3, <1>4, CutType
<1>6. start = 0 => Truncated(old, start) = <<>>
  BY <1>3, <1>4, SubSeqEmpty
<1>7. start = Len(old) => Truncated(old, start) = old
  BY <1>3, <1>4, SubSeqFull
<1> QED
  BY <1>5, <1>6, <1>7

LEMMA PutStartsKeeps == IInv /\ PutStarts => IInv'
<1> SUFFICES ASSUME IInv, PutStarts
             PROVE  IInv'
  OBVIOUS
<1> DEFINE old  == remote[Target].data
           base == IF w.append THEN old ELSE SubSeq(old, 1, Min({w.start, Len(old)}))
           wire == From(ToNet(local.data, op.type), w.start)
<1>1. /\ pc = "start" /\ Uploads /\ local.there /\ pc' = "transfer"
      /\ w' = [w EXCEPT !.base = base, !.wire = wire]
      /\ remote' = [remote EXCEPT ![Target] = File(base, now)]
      /\ mixed' = IF ~w.append /\ w.start = 0 THEN mixed \ {Target}
                  ELSE IF op.append \/ op.answer # "none" \/ (w.append /\ srv.mlst)
                  THEN mixed \cup {Target} ELSE mixed
      /\ UNCHANGED <<local, srv, cip, now, used, op, calls>>
  BY DEF PutStarts
<1>2. /\ w \in Locals /\ w.mdtm <= now /\ cip \in Caps /\ w.start \in Nat /\ w.append \in BOOLEAN
      /\ op.type \in {"A", "I"} /\ old \in Seq(Chars) /\ local.data \in Seq(Chars)
      /\ Target \in Names /\ now \in 0 .. MaxNow
  BY Parts DEF IInv, CallOK, Locals
<1>3. wire \in Seq(Wires) /\ (op.type = "I" => wire \in Seq(Chars))
  <2>1. /\ ToNet(local.data, op.type) \in Seq(Wires)
        /\ op.type = "I" => ToNet(local.data, op.type) \in Seq(Chars)
    BY <1>2, ToNetType, ToNetIs
  <2> QED
    BY <1>2, <2>1, FromType
<1>4. /\ Truncated(old, w.start) \in Seq(Chars)
      /\ w.start = 0 => Truncated(old, w.start) = <<>>
      /\ w.start = Len(old) => Truncated(old, w.start) = old
  <2> HIDE DEF old
  <2> QED
    BY <1>2, TruncatedIs
<1>12. (w.append => base = old) /\ (~w.append => base = Truncated(old, w.start)) /\ base \in Seq(Chars)
  <2>1. (w.append => base = old) /\ (~w.append => base = Truncated(old, w.start))
    BY DEF Truncated
  <2> HIDE DEF base, old
  <2> QED
    BY <1>2, <1>4, <2>1
<1>5. Sound(Target)' => IsPrefix(base, local.data) /\ w.start = Size(base, op.type)
  <2> SUFFICES ASSUME Sound(Target)'
               PROVE  IsPrefix(base, local.data) /\ w.start = Size(base, op.type)
    OBVIOUS
  <2>1. Target' = Target
    BY <1>1 DEF Target
  <2>2. CASE ~w.append /\ w.start = 0
    <3>1. base = <<>>
      BY <1>4, <1>12, <2>2
    <3>2. IsPrefix(<<>>, local.data) /\ Size(<<>>, op.type) = 0
      BY <1>2, NilPrefix, SizeNil
    <3> HIDE DEF base
    <3> QED
      BY <2>2, <3>1, <3>2
  <2>3. CASE w.append \/ w.start # 0
    <3>1. /\ Sound(Target) /\ op.answer = "none" /\ ~op.append
          /\ ~(w.append /\ srv.mlst)
      BY <1>1, <2>1, <2>3 DEF Sound
    <3>2. PutFrom(remote[Target])
      BY <1>1, <2>3, <3>1 DEF IInv, StartOK
    <3>3. IsPrefix(old, local.data)
      BY <3>2 DEF PutFrom
    <3> HIDE DEF base
    <3>4. CASE w.append
      <4>1. base = old /\ op.type = "A" /\ w.start = Size(old, "A")
        BY <1>12, <3>1, <3>2, <3>4 DEF PutFrom
      <4> HIDE DEF old
      <4> QED
        BY <3>3, <4>1
    <3>5. CASE ~w.append
      <4>1. op.type = "I" /\ w.start = Len(old)
        BY <3>2, <3>5 DEF PutFrom
      <4> HIDE DEF old
      <4>2. base = old /\ Size(old, "I") = Len(old)
        BY <1>4, <1>12, <3>5, <4>1, ToNetIs DEF Size
      <4> QED
        BY <3>3, <4>1, <4>2
    <3> QED
      BY <3>4, <3>5
  <2> QED
    BY <1>2, <2>2, <2>3
<1> HIDE DEF base, wire, old
<1>6. /\ w' \in Locals /\ w'.mdtm = w.mdtm /\ w'.base = base /\ w'.wire = wire
  BY <1>1, <1>2, <1>3, <1>12 DEF Locals
<1>7. CallOK' /\ OpOK'
  <2>1. "transfer" \in PcsOf(op.kind)
    BY <1>1 DEF PcsOf, Uploads
  <2> QED
    BY <1>1, <1>2, <1>6, <2>1, CallKept
<1>8. LocalOK'
  BY <1>1 DEF LocalOK, Uploads
<1>9. /\ FilesOK' /\ remote'[Target] = File(base, now)
      /\ \A m \in Names : m # Target => remote'[m] = remote[m]
  <2>1. IsFile(File(base, now), now)
    BY <1>2, <1>12, FileMade
  <2>2. mixed' \subseteq Names
    BY <1>1, <1>2 DEF IInv, FilesOK
  <2> QED
    BY <1>1, <1>2, <2>1, <2>2, RemoteType DEF IInv
<1>10. AgreeOK'
  <2>1. remote'[Target].data = base /\ Target' = Target
    BY <1>1, <1>2, <1>12, <1>9, FileMade DEF Target
  <2>2. \A m \in Names : m # Target => remote'[m] = remote[m] /\ (m \notin mixed' => m \notin mixed)
    BY <1>1, <1>9
  <2>3. op.kind # "GET" /\ op'.kind = op.kind
    BY <1>1 DEF Uploads
  <2>4. Sound(Target)' => IsPrefix(remote'[Target].data, local.data)
    BY <1>5, <2>1
  <2>5. \A n \in Names : n = Target => (Sound(n)' => IsPrefix(remote'[n].data, local.data))
    BY <2>1, <2>4 DEF Sound
  <2> QED
    BY <1>1, <1>2, <2>2, <2>3, <2>5, PutAgrees
<1>11. TransferOK'
  <2>1. Sound(Target)' => Piece(local.data)'
    BY <1>1, <1>5, <1>6 DEF Piece, wire
  <2> QED
    BY <1>1, <1>3, <1>6, <2>1 DEF TransferOK, Uploads
<1> QED
  BY <1>1, <1>7, <1>8, <1>9, <1>10, <1>11, Vacuous DEF IInv

\* What the remote files are when a part of the transfer has come.
LEMMA StoredIs ==
  ASSUME IInv, pc = "transfer", Uploads, NEW k \in 0 .. Len(w.wire), remote' = Stored(k),
         op'.kind = op.kind, UNCHANGED <<local, srv, now, used, mixed>>
  PROVE  /\ FilesOK' /\ AgreeOK'
         /\ remote'[Target].data = w.base \o FromNet(SubSeq(w.wire, 1, k), op.type)
         /\ \A m \in Names : m # Target => remote'[m] = remote[m]
<1> DEFINE x == w.base \o FromNet(SubSeq(w.wire, 1, k), op.type)
           d == local.data
           T == Target
<1>1. /\ op.type \in {"A", "I"} /\ w.base \in Seq(Chars) /\ w.wire \in Seq(Wires)
      /\ op.type = "I" => w.wire \in Seq(Chars)
      /\ d \in Seq(Chars) /\ now \in 0 .. MaxNow /\ T \in Names
  BY Parts DEF IInv, CallOK, Locals, TransferOK
<1>2. x \in Seq(Chars)
  BY <1>1, ComeType
<1>3. remote' = [remote EXCEPT ![T] = File(x, now)]
  BY DEF Stored
<1>4. Sound(T) => IsPrefix(x, d)
  <2> SUFFICES ASSUME Sound(T)
               PROVE  IsPrefix(x, d)
    OBVIOUS
  <2>1. IsPrefix(w.base, d) /\ w.wire = From(ToNet(d, op.type), Size(w.base, op.type))
    BY DEF IInv, TransferOK, Piece
  <2> QED
    BY <1>1, <2>1, GoesOn
<1> HIDE DEF x, T
<1>5. IsFile(File(x, now), now) /\ File(x, now).data = x
  BY <1>1, <1>2, FileMade
<1>6. /\ FilesOK' /\ remote'[T] = File(x, now)
      /\ \A m \in Names : m # T => remote'[m] = remote[m]
  <2>1. mixed' \subseteq Names /\ FilesOK
    BY DEF IInv, FilesOK
  <2> QED
    BY <1>1, <1>3, <1>5, <2>1, RemoteType
<1>7. AgreeOK'
  <2>1. \A n \in Names : n = T => (Sound(n)' => IsPrefix(remote'[n].data, local.data))
    BY <1>4, <1>5, <1>6 DEF Sound
  <2>2. op.kind # "GET"
    BY DEF Uploads
  <2> QED
    BY <1>1, <1>6, <2>1, <2>2, PutAgrees
<1> QED
  BY <1>5, <1>6, <1>7 DEF x, T

\* When all has come, the file is whole.
LEMMA PutWhole ==
  ASSUME IInv, pc = "transfer", Uploads, Sound(Target)
  PROVE  w.base \o FromNet(SubSeq(w.wire, 1, Len(w.wire)), op.type) = local.data
<1> DEFINE d == local.data
<1>1. /\ op.type \in {"A", "I"} /\ w.base \in Seq(Chars) /\ d \in Seq(Chars)
  BY Parts DEF IInv, CallOK, Locals
<1>2. IsPrefix(w.base, d) /\ w.wire = From(ToNet(d, op.type), Size(w.base, op.type))
  BY DEF IInv, TransferOK, Piece
<1> HIDE DEF d
<1>3. \A n : n = From(ToNet(d, op.type), Size(w.base, op.type))
             => w.base \o FromNet(SubSeq(n, 1, Len(n)), op.type) = d
  BY <1>1, <1>2, Completed
<1>4. w.base \o FromNet(SubSeq(w.wire, 1, Len(w.wire)), op.type) = d
  BY <1>2, <1>3, Zenon
<1> QED
  BY <1>4 DEF d

LEMMA PutEndsKeeps == IInv /\ PutEnds => IInv'
<1> SUFFICES ASSUME IInv, PutEnds
             PROVE  IInv'
  OBVIOUS
<1>1. /\ pc = "transfer" /\ op.kind = "PUT" /\ remote' = Stored(Len(w.wire))
      /\ w' = [w EXCEPT !.res = "ok"]
      /\ cip' = [cip EXCEPT !.hasAPPE = IF w.append THEN "yes" ELSE cip.hasAPPE]
      /\ pc' = IF op.tmp /\ ~w.append THEN "rename" ELSE "utime"
      /\ UNCHANGED <<local, srv, now, used, mixed, op, calls>>
  BY DEF PutEnds
<1>2. /\ w \in Locals /\ w.mdtm <= now /\ cip \in Caps /\ Target \in Names
      /\ local.there /\ Uploads /\ Len(w.wire) \in 0 .. Len(w.wire)
  BY <1>1, Parts, LenProperties DEF IInv, CallOK, LocalOK, Uploads, Locals
<1>3. /\ FilesOK' /\ AgreeOK'
      /\ Sound(Target) => remote'[Target].data = local.data
  BY <1>1, <1>2, StoredIs, PutWhole
<1>4. w' \in Locals /\ w'.mdtm = w.mdtm /\ w'.append = w.append /\ w'.res = "ok"
  BY <1>1, <1>2 DEF Locals, Results
<1>5. cip' \in Caps
  <2>1. (IF w.append THEN "yes" ELSE cip.hasAPPE) \in Known
    BY <1>2, CapsType DEF Known
  <2> QED
    BY <1>1, <1>2, <2>1, CapsType
<1>6. CallOK' /\ OpOK'
  <2>1. pc' \in PcsOf(op.kind) /\ pc' # "idle"
    BY <1>1 DEF PcsOf
  <2> QED
    BY <1>1, <1>2, <1>4, <1>5, <2>1, CallKept
<1>7. LocalOK'
  BY <1>1, <1>2 DEF LocalOK
<1>8. NamedOK'
  <2>1. CASE op.tmp /\ ~w.append
    <3>1. Target = "tmp" /\ pc' = "rename"
      BY <1>1, <2>1 DEF Target
    <3> QED
      BY <1>1, <1>3, <1>4, <2>1, <3>1 DEF NamedOK, Sound
  <2>2. CASE ~(op.tmp /\ ~w.append)
    <3>1. pc' = "utime" /\ (~op.tmp => Target = "dst")
      BY <1>1, <2>2 DEF Target
    <3> QED
      BY <1>1, <1>3, <1>4, <2>2, <3>1 DEF NamedOK, Sound
  <2> QED
    BY <2>1, <2>2
<1>9. pc' \in {"rename", "utime"}
  BY <1>1
<1> QED
  BY <1>3, <1>6, <1>7, <1>8, <1>9, Vacuous DEF IInv

LEMMA PutBreaksKeeps == IInv /\ PutBreaks => IInv'
<1> SUFFICES ASSUME IInv, PutBreaks
             PROVE  IInv'
  OBVIOUS
<1>1. /\ pc = "transfer" /\ Uploads /\ Return("error")
      /\ UNCHANGED <<local, srv, cip, now, used, mixed, calls>>
  BY DEF PutBreaks
<1>2. PICK k \in 0 .. Len(w.wire) : remote' = Stored(k)
  BY DEF PutBreaks
<1>3. op'.kind = op.kind /\ "error" \in Results /\ (op.kind = "PUTMEM" => local'.there)
  BY <1>1, KindKept DEF IInv, CallOK, Results, LocalOK
<1>4. FilesOK' /\ AgreeOK'
  BY <1>1, <1>2, <1>3, StoredIs
<1> QED
  BY <1>1, <1>3, <1>4, ReturnKeeps

LEMMA PutMemEndsKeeps == IInv /\ PutMemEnds => IInv'
<1> SUFFICES ASSUME IInv, PutMemEnds
             PROVE  IInv'
  OBVIOUS
<1>1. /\ pc = "transfer" /\ op.kind = "PUTMEM" /\ Return("ok")
      /\ remote' = Stored(Len(w.wire))
      /\ UNCHANGED <<local, srv, cip, now, used, mixed, calls>>
  BY DEF PutMemEnds
<1>2. /\ op'.kind = op.kind /\ "ok" \in Results /\ (op.kind = "PUTMEM" => local'.there)
      /\ Len(w.wire) \in 0 .. Len(w.wire) /\ Uploads
  BY <1>1, KindKept, LenProperties DEF IInv, CallOK, Results, LocalOK, Locals, Uploads
<1>3. FilesOK' /\ AgreeOK'
  BY <1>1, <1>2, StoredIs
<1> QED
  BY <1>1, <1>2, <1>3, ReturnKeeps

-----------------------------------------------------------------------------
(* The final name, the time and the end of an upload.                       *)

\* A step under one of the names keeps what is known of the call.
LEMMA NamingKeeps ==
  ASSUME IInv, pc \in {"rename", "rename2"}, pc' \in {"rename2", "utime"},
         UNCHANGED <<local, srv, cip, now, used, op, calls>>, w' \in Locals, w'.mdtm <= now,
         FilesOK', AgreeOK', NamedOK'
  PROVE  IInv'
<1>1. op.kind = "PUT" /\ local.there
  BY Parts DEF IInv, CallOK, PcsOf, AllKinds, LocalOK
<1>2. CallOK' /\ OpOK'
  <2>1. pc' \in PcsOf(op.kind) /\ pc' # "idle" /\ cip' \in Caps
    BY <1>1 DEF PcsOf, IInv, CallOK
  <2> QED
    BY <2>1, CallKept
<1>3. LocalOK'
  BY <1>1 DEF LocalOK
<1> QED
  BY <1>2, <1>3, Vacuous DEF IInv

\* What is known where a name is given.
LEMMA Naming ==
  ASSUME IInv, pc \in {"rename", "rename2"}
  PROVE  /\ op.kind = "PUT" /\ op.tmp /\ ~w.append /\ w.res = "ok"
         /\ w \in Locals /\ w.mdtm <= now
         /\ Sound("tmp") => remote["tmp"].data = local.data
BY Parts DEF IInv, CallOK, PcsOf, AllKinds, NamedOK

LEMMA RenamesKeep ==
  ASSUME IInv, pc \in {"rename", "rename2"}, Renames, pc' = "utime",
         UNCHANGED <<local, srv, cip, now, used, op, w, calls>>
  PROVE  IInv'
<1>1. /\ op.kind = "PUT" /\ op.tmp /\ ~w.append /\ w.res = "ok"
      /\ w \in Locals /\ w.mdtm <= now
      /\ Sound("tmp") => remote["tmp"].data = local.data
  BY Naming
<1>2. /\ IsFile(NoFile, now) /\ NoFile.data = <<>> /\ local.data \in Seq(Chars)
      /\ "dst" \in Names /\ "tmp" \in Names /\ Names = {"dst", "tmp"}
  BY Parts, NoFileMade DEF IInv, Names
<1>3. remote'["dst"] = remote["tmp"] /\ remote'["tmp"] = NoFile /\ remote' \in [Names -> Files]
  BY <1>2 DEF Renames, IInv, FilesOK, IsFile
<1>4. mixed' \subseteq Names /\ (Sound("dst")' => Sound("tmp"))
  BY <1>2 DEF Renames, Sound
<1>5. FilesOK'
  BY <1>2, <1>3, <1>4 DEF IInv, FilesOK
<1>6. AgreeOK'
  <2>1. Sound("dst")' => Agree(remote'["dst"], local)
    BY <1>1, <1>2, <1>3, <1>4 DEF IInv, AgreeOK, Uploads
  <2>2. Agree(remote'["tmp"], local)
    BY <1>2, <1>3, NilPrefix DEF Agree
  <2> QED
    BY <1>1, <1>2, <2>1, <2>2 DEF AgreeOK
<1>7. NamedOK'
  BY <1>1, <1>3, <1>4 DEF NamedOK
<1> QED
  BY <1>1, <1>5, <1>6, <1>7, NamingKeeps

LEMMA RenameKeeps == IInv /\ Rename => IInv'
BY RenamesKeep DEF Rename

LEMMA RenameAgainKeeps == IInv /\ RenameAgain => IInv'
BY RenamesKeep DEF RenameAgain

LEMMA RenameRefusedKeeps == IInv /\ RenameRefused => IInv'
<1> SUFFICES ASSUME IInv, RenameRefused
             PROVE  IInv'
  OBVIOUS
<1>1. /\ pc = "rename" /\ pc' = "rename2" /\ remote' = [remote EXCEPT !["dst"] = NoFile]
      /\ UNCHANGED <<local, srv, cip, now, used, mixed, op, w, calls>>
  BY DEF RenameRefused
<1>2. /\ op.kind = "PUT" /\ op.tmp /\ ~w.append /\ w.res = "ok"
      /\ w \in Locals /\ w.mdtm <= now
      /\ Sound("tmp") => remote["tmp"].data = local.data
  BY <1>1, Naming
<1>3. /\ IsFile(NoFile, now) /\ NoFile.data = <<>> /\ local.data \in Seq(Chars)
      /\ "dst" \in Names /\ "tmp" \in Names /\ mixed' \subseteq Names
  BY <1>1, Parts, NoFileMade DEF IInv, FilesOK
<1>4. /\ FilesOK' /\ remote'["dst"] = NoFile
      /\ \A m \in Names : m # "dst" => remote'[m] = remote[m]
  BY <1>1, <1>3, RemoteType DEF IInv
<1>5. AgreeOK'
  <2>1. \A m \in Names : m # "dst" => remote'[m] = remote[m] /\ (m \notin mixed' => m \notin mixed)
    BY <1>1, <1>4
  <2>2. IsPrefix(remote'["dst"].data, local.data)
    BY <1>3, <1>4, NilPrefix
  <2>3. op.kind # "GET" /\ op'.kind = op.kind
    BY <1>1, <1>2
  <2> QED
    BY <1>1, <1>3, <2>1, <2>2, <2>3, PutAgrees
<1>6. NamedOK'
  BY <1>1, <1>2, <1>3, <1>4 DEF NamedOK, Sound
<1> QED
  BY <1>1, <1>2, <1>4, <1>5, <1>6, NamingKeeps

LEMMA RenameFailsKeeps == IInv /\ RenameFails => IInv'
<1> SUFFICES ASSUME IInv, RenameFails
             PROVE  IInv'
  OBVIOUS
<1>1. /\ pc \in {"rename", "rename2"} /\ pc' = "utime" /\ w' = [w EXCEPT !.res = "error"]
      /\ UNCHANGED <<local, remote, srv, cip, now, used, mixed, op, calls>>
  BY DEF RenameFails
<1>2. op.tmp /\ w \in Locals /\ w.mdtm <= now
  BY <1>1, Naming
<1>3. w' \in Locals /\ w'.mdtm = w.mdtm /\ w'.res = "error"
  BY <1>1, <1>2 DEF Locals, Results
<1>4. FilesOK' /\ AgreeOK'
  BY <1>1, FilesKept, AgreeKept DEF IInv, FilesOK
<1>5. NamedOK'
  BY <1>1, <1>2, <1>3 DEF NamedOK
<1> QED
  BY <1>1, <1>2, <1>3, <1>4, <1>5, NamingKeeps

LEMMA SetTimeKeeps == IInv /\ SetTime => IInv'
<1> SUFFICES ASSUME IInv, SetTime
             PROVE  IInv'
  OBVIOUS
<1> DEFINE dated == [remote["dst"] EXCEPT !.mtime = local.mtime]
           partly == op.tmp /\ (w.append \/ w.res = "error")
<1>1. /\ pc = "utime"
      /\ remote' = remote \/ (remote["dst"].there /\ remote' = [remote EXCEPT !["dst"] = dated])
      /\ mixed' = IF partly THEN mixed \cup {"dst"} ELSE mixed
      /\ IF w.res = "ok" THEN DeletesSource("ok") ELSE Return(w.res)
      /\ UNCHANGED <<local, srv, cip, now, used, calls>>
  BY DEF SetTime
<1>2. /\ op.kind = "PUT" /\ w.res \in {"ok", "error"} /\ local.there
      /\ Sound("dst") /\ ~partly => remote["dst"].data = local.data
      /\ op.kind \in AllKinds
  BY <1>1, Parts DEF IInv, CallOK, PcsOf, AllKinds, NamedOK, LocalOK
<1>3. /\ local.data \in Seq(Chars) /\ "dst" \in Names
      /\ IsFile(local, now) /\ IsFile(remote["dst"], now) /\ remote \in [Names -> Files]
      /\ now \in 0 .. MaxNow
  BY Parts DEF IInv, FilesOK
<1>4. remote["dst"].there => IsFile(dated, now) /\ dated.data = remote["dst"].data
  BY <1>3 DEF IsFile, Files
<1> HIDE DEF dated, partly
<1>5. /\ FilesOK' /\ remote'["dst"].data = remote["dst"].data
      /\ \A m \in Names : m # "dst" => remote'[m] = remote[m]
  <2>1. mixed' \subseteq Names
    BY <1>1, <1>3 DEF IInv, FilesOK
  <2>2. CASE remote' = remote
    BY <1>1, <2>1, <2>2, FilesKept DEF IInv
  <2>3. CASE remote["dst"].there /\ remote' = [remote EXCEPT !["dst"] = dated]
    BY <1>1, <1>3, <1>4, <2>1, <2>3, RemoteType DEF IInv
  <2> QED
    BY <1>1, <2>2, <2>3
<1>6. op'.kind = op.kind
  BY <1>1, KindKept DEF IInv, CallOK
<1>7. Sound("dst")' => Sound("dst") /\ ~partly
  BY <1>1 DEF Sound
<1>8. AgreeOK'
  <2>1. Sound("dst")' => IsPrefix(remote'["dst"].data, local.data)
    BY <1>2, <1>3, <1>5, <1>7, SelfPrefix
  <2>2. \A m \in Names : m # "dst" => remote'[m] = remote[m] /\ (m \notin mixed' => m \notin mixed)
    BY <1>1, <1>5
  <2>3. op.kind # "GET"
    BY <1>2
  <2> QED
    BY <1>1, <1>3, <1>6, <2>1, <2>2, <2>3, PutAgrees
<1>9. CASE w.res = "ok"
  <2>1. op' = op => (Clean /\ Recognises => Saved)'
    <3> SUFFICES ASSUME op' = op, Clean', Recognises'
                 PROVE  Saved'
      OBVIOUS
    <3>1. Sound("dst")'
      BY DEF Clean, Recognises, Sound
    <3>2. remote'["dst"].data = local.data
      BY <1>2, <1>5, <1>7, <3>1
    <3> QED
      BY <1>1, <1>2, <3>2 DEF Saved, Destination, Wanted, Source, Downloads
  <2>2. DeletesSource("ok") /\ op.kind # "PUTMEM" /\ local'.there
    BY <1>1, <1>2, <1>9
  <2> QED
    BY <1>1, <1>5, <1>8, <2>1, <2>2, DeletesKeeps
<1>10. CASE w.res = "error"
  <2>1. Return("error") /\ "error" \in Results /\ op.kind # "PUTMEM"
    BY <1>1, <1>2, <1>10 DEF Results
  <2> QED
    BY <1>1, <1>5, <1>8, <2>1, ReturnKeeps
<1> QED
  BY <1>2, <1>9, <1>10

LEMMA DeleteLocalKeeps == IInv /\ DeleteLocal => IInv'
<1> SUFFICES ASSUME IInv, DeleteLocal
             PROVE  IInv'
  OBVIOUS
<1>1. /\ pc = "delete" /\ op.kind = "PUT" /\ local' = NoFile /\ Return(w.res)
      /\ UNCHANGED <<remote, srv, cip, now, used, mixed, calls>>
  BY DEF DeleteLocal
<1>2. op'.kind = "PUT" /\ w.res \in Results /\ op.kind # "PUTMEM"
  BY <1>1, KindKept DEF IInv, CallOK, Locals
<1>3. IsFile(local', now) /\ ~local'.there
  BY <1>1, Parts, NoFileMade DEF IInv
<1>4. FilesOK'
  BY <1>1, <1>3, LocalChanged DEF IInv
<1>5. AgreeOK'
  BY <1>2, <1>3 DEF AgreeOK, Agree
<1> QED
  BY <1>1, <1>2, <1>4, <1>5, ReturnKeeps

-----------------------------------------------------------------------------
(* The memory in place of the local file.                                   *)

LEMMA FTPGetFileToMemoryKeeps == IInv /\ FTPGetFileToMemory => IInv'
<1> SUFFICES ASSUME IInv, FTPGetFileToMemory
             PROVE  IInv'
  OBVIOUS
<1>1. /\ pc = "idle" /\ op.kind = "GETMEM" /\ calls < MaxCalls
      /\ local' = File(<<>>, now) /\ mixed' = {}
      /\ w' = NoLocals /\ calls' = calls + 1 /\ pc' = "askSize"
      /\ UNCHANGED <<remote, srv, cip, now, used>>
  BY DEF FTPGetFileToMemory
<1>2. PICK start \in Nat, room \in Nat, delete \in BOOLEAN :
        op' = [op EXCEPT !.start = start, !.room = room, !.delete = delete]
  BY ConstantsAssumption DEF FTPGetFileToMemory
<1>3. /\ op \in Ops /\ op = [NoOp EXCEPT !.kind = op.kind] /\ now \in 0 .. MaxNow /\ now \in Nat
  BY <1>1, Parts, Times DEF IInv, CallOK, OpOK
<1>4. /\ op' \in Ops /\ op'.kind = "GETMEM" /\ op'.type = op.type /\ op'.append = op.append
      /\ op'.resume = op.resume /\ op'.answer = op.answer /\ op'.tmp = op.tmp
  BY <1>1, <1>2, <1>3 DEF Ops
<1>5. /\ ~op.append /\ ~op.resume /\ op.answer = "none" /\ op.type = "I" /\ ~op.tmp
  BY <1>3 DEF NoOp
<1>6. w' \in Locals /\ w'.mdtm <= now
  BY <1>1, <1>3, NoLocalsType DEF Results, Unknown
<1>7. CallOK'
  <2>1. calls' \in 0 .. MaxCalls /\ cip' \in Caps
    BY <1>1, ConstantsAssumption DEF IInv, CallOK
  <2>2. pc' \in PcsOf(op'.kind)
    BY <1>1, <1>4 DEF PcsOf
  <2> QED
    BY <1>1, <1>4, <1>6, <2>1, <2>2 DEF CallOK
<1>8. OpOK'
  BY <1>1, <1>4, <1>5 DEF OpOK
<1>9. IsFile(local', now) /\ local'.there
  BY <1>1, <1>3, EmptySeq, FileMade
<1>10. FilesOK' /\ LocalOK'
  BY <1>1, <1>4, <1>9 DEF IInv, FilesOK, LocalOK
<1>11. AgreeOK'
  BY <1>4 DEF AgreeOK, Uploads
<1> QED
  BY <1>1, <1>7, <1>8, <1>10, <1>11, Vacuous DEF IInv

\* A step of FTPGetFileToMemory that leaves the files as they are.
LEMMA MemoryKeeps ==
  ASSUME IInv, pc \in {"askSize", "start"}, op.kind = "GETMEM", pc' \in {"start", "transfer"},
         UNCHANGED <<local, remote, srv, cip, now, used, mixed, op, calls>>,
         w' \in Locals, w'.mdtm <= now, StartOK', TransferOK'
  PROVE  IInv'
<1>1. pc' \in PcsOf(op.kind) /\ pc' # "idle" /\ cip' \in Caps /\ local.there
  BY DEF PcsOf, IInv, CallOK, LocalOK
<1>2. CallOK' /\ OpOK'
  BY <1>1, CallKept
<1>3. FilesOK' /\ AgreeOK'
  BY FilesKept, AgreeKept DEF IInv, FilesOK
<1>4. LocalOK'
  BY <1>1 DEF LocalOK
<1> QED
  BY <1>2, <1>3, <1>4, Vacuous DEF IInv

LEMMA AskMemSizeKeeps == IInv /\ AskMemSize => IInv'
<1> SUFFICES ASSUME IInv, AskMemSize
             PROVE  IInv'
  OBVIOUS
<1>1. /\ pc = "askSize"
      /\ UNCHANGED <<local, remote, srv, cip, now, used, mixed, calls>>
  BY DEF AskMemSize
<1>2. /\ op.kind = "GETMEM" /\ w \in Locals /\ w.mdtm <= now /\ op \in Ops
      /\ remote["dst"].data \in Seq(Chars)
  BY <1>1, Parts DEF IInv, CallOK, PcsOf, AllKinds
<1>3. PICK size \in Nat \cup {Unknown} :
        \/ Skips
        \/ pc' = "start" /\ w' = [w EXCEPT !.size = size, !.start = op.start] /\ UNCHANGED op
  <2>1. PICK answered \in BOOLEAN :
          LET size == IF answered THEN Len(remote["dst"].data) ELSE Unknown
          IN  \/ Skips
              \/ pc' = "start" /\ w' = [w EXCEPT !.size = size, !.start = op.start] /\ UNCHANGED op
    BY DEF AskMemSize
  <2>2. (IF answered THEN Len(remote["dst"].data) ELSE Unknown) \in Nat \cup {Unknown}
    BY <1>2, LenProperties
  <2> QED
    BY <2>1, <2>2
<1>4. CASE Skips
  <2>1. pc # "idle" /\ op.kind # "PUTMEM"
    BY <1>1, <1>2
  <2> QED
    BY <1>1, <1>4, <2>1, SkipsKeeps
<1>5. CASE pc' = "start" /\ w' = [w EXCEPT !.size = size, !.start = op.start] /\ UNCHANGED op
  <2>1. op.start \in Nat
    BY <1>2 DEF Ops
  <2>2. w' \in Locals /\ w'.mdtm = w.mdtm /\ w'.start = op.start
    BY <1>2, <1>5, <2>1 DEF Locals
  <2>3. StartOK' /\ TransferOK'
    BY <1>2, <1>5, <2>2 DEF StartOK, TransferOK, Uploads
  <2> QED
    BY <1>1, <1>2, <1>5, <2>2, <2>3, MemoryKeeps
<1> QED
  BY <1>3, <1>4, <1>5

LEMMA GetMemStartsKeeps == IInv /\ GetMemStarts => IInv'
<1> SUFFICES ASSUME IInv, GetMemStarts
             PROVE  IInv'
  OBVIOUS
<1> DEFINE wire == From(remote["dst"].data, w.start)
<1>1. /\ pc = "start" /\ op.kind = "GETMEM" /\ pc' = "transfer"
      /\ w' = [w EXCEPT !.zaction = "Overwrite", !.wire = wire]
      /\ UNCHANGED <<local, remote, srv, cip, now, used, mixed, op, calls>>
  BY DEF GetMemStarts
<1>2. /\ w \in Locals /\ w.mdtm <= now /\ remote["dst"].data \in Seq(Chars) /\ w.start \in Nat
      /\ w.start = op.start
  BY <1>1, Parts DEF IInv, CallOK, Locals, StartOK
<1>3. wire \in Seq(Chars) /\ wire \in Seq(Wires)
  <2>1. wire \in Seq(Chars)
    BY <1>2, FromType
  <2>2. Seq(Chars) \subseteq Seq(Wires)
    <3>1. Chars \subseteq Wires
      BY DEF Wires
    <3> QED
      BY <3>1, SeqMonotonic
  <2> QED
    BY <2>1, <2>2
<1>4. wire = From(remote["dst"].data, op.start)
  BY <1>2
<1> HIDE DEF wire
<1>5. w' \in Locals /\ w'.mdtm = w.mdtm /\ w'.wire = wire
  BY <1>1, <1>2, <1>3 DEF Locals
<1>6. StartOK' /\ TransferOK'
  BY <1>1, <1>3, <1>4, <1>5 DEF StartOK, TransferOK, Uploads
<1> QED
  BY <1>1, <1>2, <1>5, <1>6, MemoryKeeps

\* What the memory is when a part of the transfer has come.
LEMMA FilledIs ==
  ASSUME IInv, pc = "transfer", op.kind = "GETMEM", NEW k \in 0 .. Fits, local' = Filled(k),
         op'.kind = "GETMEM", UNCHANGED <<remote, srv, now, used, mixed>>
  PROVE  FilesOK' /\ AgreeOK' /\ local'.there /\ local'.data = SubSeq(w.wire, 1, k)
<1>1. /\ op.type = "I" /\ w.wire \in Seq(Chars) /\ op.room \in Nat
      /\ local.there /\ IsFile(local, now)
  BY DEF IInv, CallOK, Ops, OpOK, TransferOK, LocalOK, FilesOK
<1>2. k \in 0 .. Len(w.wire)
  <2>1. Len(w.wire) \in Nat
    BY <1>1, LenProperties
  <2>2. Fits = IF op.room <= Len(w.wire) THEN op.room ELSE Len(w.wire)
    BY <1>1, <2>1, MinOfTwo DEF Fits
  <2> QED
    BY <1>1, <2>1, <2>2
<1>3. SubSeq(w.wire, 1, k) \in Seq(Chars)
  BY <1>1, <1>2, CutType
<1>4. IsFile(local', now) /\ local'.there /\ local'.data = SubSeq(w.wire, 1, k)
  BY <1>1, <1>3 DEF Filled, IsFile, Files
<1>5. FilesOK'
  BY <1>4, LocalChanged DEF IInv
<1>6. AgreeOK'
  BY DEF AgreeOK, Uploads
<1> QED
  BY <1>4, <1>5, <1>6

LEMMA FitsType ==
  ASSUME IInv, pc = "transfer", op.kind = "GETMEM"
  PROVE  Fits \in 0 .. Fits
<1>1. op.room \in Nat /\ Len(w.wire) \in Nat
  BY LenProperties DEF IInv, CallOK, Ops, Locals
<1>2. Fits = IF op.room <= Len(w.wire) THEN op.room ELSE Len(w.wire)
  BY <1>1, MinOfTwo DEF Fits
<1> QED
  BY <1>1, <1>2

\* When all that fits has come, the memory holds what was asked for.
LEMMA MemoryWhole ==
  ASSUME IInv, pc = "transfer", op.kind = "GETMEM", "dst" \notin mixed
  PROVE  SubSeq(w.wire, 1, Fits) = Wanted
<1> DEFINE d == remote["dst"].data
<1>1. /\ d \in Seq(Chars) /\ op.start \in Nat /\ op.room \in Nat
      /\ w.wire = From(d, op.start)
  BY Parts DEF IInv, CallOK, Ops, TransferOK
<1>2. Wanted = SubSeq(d, op.start + 1, Min({op.start + op.room, Len(d)}))
  BY DEF Wanted, Source, Downloads
<1> HIDE DEF d
<1>3. \A n : n = From(d, op.start) => SubSeq(n, 1, Min({op.room, Len(n)}))
               = SubSeq(d, op.start + 1, Min({op.start + op.room, Len(d)}))
  BY <1>1, MemoryFilled
<1>4. SubSeq(w.wire, 1, Min({op.room, Len(w.wire)}))
        = SubSeq(d, op.start + 1, Min({op.start + op.room, Len(d)}))
  BY <1>1, <1>3, Zenon
<1> QED
  BY <1>2, <1>4 DEF Fits

LEMMA GetMemEndsKeeps == IInv /\ GetMemEnds => IInv'
<1> SUFFICES ASSUME IInv, GetMemEnds
             PROVE  IInv'
  OBVIOUS
<1>1. /\ pc = "transfer" /\ op.kind = "GETMEM" /\ local' = Filled(Fits) /\ DeletesSource("ok")
      /\ UNCHANGED <<remote, srv, cip, now, used, mixed, calls>>
  BY DEF GetMemEnds
<1>2. op'.kind = "GETMEM" /\ Fits \in 0 .. Fits /\ op.kind # "PUTMEM"
  BY <1>1, KindKept, FitsType DEF IInv, CallOK
<1>3. FilesOK' /\ AgreeOK' /\ local'.there /\ local'.data = SubSeq(w.wire, 1, Fits)
  BY <1>1, <1>2, FilledIs
<1>4. op' = op => (Clean /\ Recognises => Saved)'
  <2> SUFFICES ASSUME op' = op, Clean'
               PROVE  Saved'
    OBVIOUS
  <2>1. "dst" \notin mixed
    BY <1>1 DEF Clean
  <2>2. local'.data = Wanted
    BY <1>1, <1>3, <2>1, MemoryWhole
  <2>3. Wanted' = Wanted
    BY <1>1 DEF Wanted, Source, Downloads
  <2> QED
    BY <1>1, <2>2, <2>3 DEF Saved, Destination, Downloads
<1> QED
  BY <1>1, <1>2, <1>3, <1>4, DeletesKeeps

LEMMA GetMemBreaksKeeps == IInv /\ GetMemBreaks => IInv'
<1> SUFFICES ASSUME IInv, GetMemBreaks
             PROVE  IInv'
  OBVIOUS
<1>1. /\ pc = "transfer" /\ op.kind = "GETMEM" /\ Return("error")
      /\ UNCHANGED <<remote, srv, cip, now, used, mixed, calls>>
  BY DEF GetMemBreaks
<1>2. PICK k \in 0 .. Fits : local' = Filled(k)
  BY DEF GetMemBreaks
<1>3. op'.kind = "GETMEM" /\ op.kind # "PUTMEM" /\ "error" \in Results
  BY <1>1, KindKept DEF IInv, CallOK, Results
<1>4. FilesOK' /\ AgreeOK'
  BY <1>1, <1>2, <1>3, FilledIs
<1> QED
  BY <1>1, <1>3, <1>4, ReturnKeeps

LEMMA FTPPutFileFromMemoryKeeps == IInv /\ FTPPutFileFromMemory => IInv'
<1> SUFFICES ASSUME IInv, FTPPutFileFromMemory
             PROVE  IInv'
  OBVIOUS
<1>1. /\ pc = "idle" /\ op.kind = "PUTMEM" /\ calls < MaxCalls
      /\ calls' = calls + 1 /\ pc' = "start"
      /\ UNCHANGED <<local, remote, srv, cip, now, used, mixed>>
  BY DEF FTPPutFileFromMemory
<1>2. PICK append \in BOOLEAN : /\ op' = [op EXCEPT !.append = append]
                                /\ w' = [NoLocals EXCEPT !.append = append]
  BY DEF FTPPutFileFromMemory
<1>3. /\ op \in Ops /\ op = [NoOp EXCEPT !.kind = op.kind] /\ now \in Nat /\ local.there
  BY <1>1, Times DEF IInv, CallOK, OpOK, LocalOK
<1>4. /\ op' \in Ops /\ op'.kind = op.kind /\ op'.type = op.type /\ (op'.append <=> append)
      /\ op'.resume = op.resume /\ op'.answer = op.answer /\ op'.tmp = op.tmp
      /\ op'.delete = op.delete
  BY <1>2, <1>3 DEF Ops
<1>5. /\ ~op.resume /\ op.answer = "none" /\ op.type = "I" /\ ~op.tmp /\ ~op.delete
  BY <1>3 DEF NoOp
<1>6. w' \in Locals /\ w'.mdtm <= now /\ (w'.append <=> append) /\ w'.start = 0
  <2>1. NoLocals \in Locals /\ NoLocals.mdtm = Unknown
    BY NoLocalsType DEF Results
  <2>2. w' \in Locals /\ w'.mdtm = Unknown /\ (w'.append <=> append) /\ w'.start = NoLocals.start
    BY <1>2, <2>1 DEF Locals
  <2>3. NoLocals.start = 0
    BY DEF NoLocals
  <2> QED
    BY <1>3, <2>2, <2>3 DEF Unknown
<1>7. CallOK'
  <2>1. calls' \in 0 .. MaxCalls /\ cip' \in Caps
    BY <1>1, ConstantsAssumption DEF IInv, CallOK
  <2>2. pc' \in PcsOf(op'.kind)
    BY <1>1, <1>4 DEF PcsOf
  <2> QED
    BY <1>1, <1>4, <1>6, <2>1, <2>2 DEF CallOK
<1>8. OpOK' /\ LocalOK'
  BY <1>1, <1>3, <1>4, <1>5 DEF OpOK, LocalOK
<1>9. FilesOK' /\ AgreeOK'
  BY <1>1, <1>4, FilesKept, AgreeKept DEF IInv, FilesOK
<1>10. StartOK'
  BY <1>1, <1>4, <1>6 DEF StartOK
<1> QED
  BY <1>1, <1>7, <1>8, <1>9, <1>10, Vacuous DEF IInv

-----------------------------------------------------------------------------
(* The rest of the world, and the beginning.                                *)

LEMMA EditKeeps == IInv /\ Edit => IInv'
<1> SUFFICES ASSUME IInv, Edit
             PROVE  IInv'
  OBVIOUS
<1>1. /\ op.kind = "PUTMEM" => pc = "idle"
      /\ now + 2 <= MaxNow /\ now' = now + 2
      /\ mixed' = IF pc = "idle" THEN mixed ELSE mixed \cup {Target, "dst"}
      /\ UNCHANGED <<srv, cip, pc, op, w, calls>>
  BY DEF Edit
<1>2. PICK v \in Versions \ used :
        /\ used' = used \cup {v}
        /\ IF Downloads
           THEN remote' = [remote EXCEPT !["dst"] = File(Text(v), now + 2)] /\ UNCHANGED local
           ELSE local' = File(Text(v), now + 2) /\ UNCHANGED remote
  BY DEF Edit
<1> DEFINE f == File(Text(v), now + 2)
<1>3. /\ now \in Nat /\ now + 2 \in 0 .. MaxNow /\ now \in 0 .. MaxNow /\ Target \in Names
      /\ "dst" \in Names /\ op.kind \in AllKinds
  BY <1>1, Parts, Times, ConstantsAssumption DEF IInv
<1>4. IsFile(f, now + 2) /\ f.there /\ f.mtime = now + 2
  BY <1>3, TextType, FileMade
<1> HIDE DEF f
<1>5. /\ IsFile(local, now + 2) /\ \A n \in Names : IsFile(remote[n], now + 2)
      /\ remote \in [Names -> Files]
  <2>1. IsFile(local, now) /\ \A n \in Names : IsFile(remote[n], now)
    BY DEF IInv, FilesOK
  <2>2. now <= now + 2
    BY <1>3
  <2> QED
    BY <1>3, <2>1, <2>2, FileOlder DEF IInv, FilesOK
<1>6. \/ Downloads /\ remote' = [remote EXCEPT !["dst"] = f] /\ local' = local
      \/ ~Downloads /\ local' = f /\ remote' = remote
  BY <1>2 DEF f
<1>7. FilesOK'
  <2>1. srv' \in Servers /\ used' \subseteq Versions /\ mixed' \subseteq Names /\ now' \in 1 .. MaxNow
    BY <1>1, <1>2, <1>3 DEF IInv, FilesOK
  <2>2. IsFile(local', now + 2)
    BY <1>4, <1>5, <1>6
  <2>3. remote' \in [Names -> Files] /\ \A n \in Names : IsFile(remote'[n], now + 2)
    BY <1>4, <1>5, <1>6 DEF IsFile
  <2> QED
    BY <1>1, <2>1, <2>2, <2>3 DEF FilesOK
<1>8. CallOK' /\ OpOK'
  <2>1. w.mdtm <= now'
    BY <1>1, <1>3 DEF IInv, CallOK, Locals, Unknown
  <2> QED
    BY <1>1, <2>1 DEF IInv, CallOK, OpOK
<1>9. LocalOK'
  BY <1>1, <1>4, <1>6 DEF IInv, LocalOK, Downloads
<1>10. AgreeOK'
  <2>0. /\ local.mtime \in Nat /\ local.mtime <= now
        /\ \A n \in Names : remote[n].mtime \in Nat /\ remote[n].mtime <= now
    BY Times DEF IInv
  <2>1. CASE Downloads
    <3>1. remote'["dst"] = f /\ local' = local /\ ~Uploads'
      BY <1>1, <1>3, <1>5, <1>6, <2>1 DEF Downloads, Uploads
    <3>2. Agree(local, f)
      BY <1>3, <1>4, <2>0 DEF Agree
    <3> QED
      BY <3>1, <3>2 DEF AgreeOK
  <2>2. CASE ~Downloads
    <3>1. local' = f /\ remote' = remote /\ op'.kind # "GET"
      BY <1>1, <1>6, <2>2 DEF Downloads
    <3>2. \A n \in Names : Agree(remote[n], f)
      BY <1>3, <1>4, <2>0 DEF Agree
    <3> QED
      BY <3>1, <3>2 DEF AgreeOK
  <2> QED
    BY <2>1, <2>2
<1>11. pc # "idle" => ~Sound(Target)' /\ ~Sound("dst")' /\ "dst" \in mixed' /\ ~Clean'
  BY <1>1 DEF Sound, Clean, Target
<1>12. AskOK'
  BY <1>1, <1>11 DEF IInv, AskOK, Asks
<1>13. StartOK'
  BY <1>1, <1>11 DEF IInv, StartOK, Uploads
<1>14. TransferOK'
  BY <1>1, <1>11 DEF IInv, TransferOK
<1>15. NamedOK'
  <2>1. pc \in {"rename", "rename2"} => Target = "tmp"
    BY Naming DEF Target
  <2>2. pc \in {"rename", "rename2"} => ~Sound("tmp")'
    BY <1>1, <2>1 DEF Sound
  <2> QED
    BY <1>1, <1>11, <2>2 DEF IInv, NamedOK
<1>16. DeleteOK'
  BY <1>1, <1>11 DEF IInv, DeleteOK
<1> QED
  BY <1>7, <1>8, <1>9, <1>10, <1>12, <1>13, <1>14, <1>15, <1>16 DEF IInv

LEMMA TickKeeps == IInv /\ Tick => IInv'
<1> SUFFICES ASSUME IInv, Tick
             PROVE  IInv'
  OBVIOUS
<1>1. /\ pc = "idle" /\ now + 2 <= MaxNow /\ now' = now + 2 /\ pc' = "idle"
      /\ UNCHANGED <<local, remote, srv, cip, used, mixed, pc, op, w, calls>>
  BY DEF Tick
<1>2. now \in Nat /\ now + 2 \in 0 .. MaxNow /\ now \in 0 .. MaxNow /\ now <= now + 2
  BY <1>1, Parts, Times, ConstantsAssumption DEF IInv
<1>3. FilesOK'
  <2>1. IsFile(local, now + 2) /\ \A n \in Names : IsFile(remote[n], now + 2)
    BY <1>2, FileOlder DEF IInv, FilesOK
  <2>2. now' \in 1 .. MaxNow
    BY <1>1, <1>2
  <2> QED
    BY <1>1, <2>1, <2>2 DEF IInv, FilesOK
<1>4. CallOK' /\ OpOK'
  <2>1. w.mdtm <= now'
    BY <1>1, <1>2 DEF IInv, CallOK, Locals, Unknown
  <2> QED
    BY <1>1, <2>1 DEF IInv, CallOK, OpOK
<1>5. LocalOK' /\ AgreeOK'
  BY <1>1, AgreeKept DEF IInv, LocalOK
<1> QED
  BY <1>1, <1>3, <1>4, <1>5, Vacuous DEF IInv

LEMMA Starts == Init => IInv
<1> SUFFICES ASSUME Init
             PROVE  IInv
  OBVIOUS
<1>1. PICK v \in Versions, k \in Kinds, s \in Servers :
        /\ local  = IF k \in {"PUT", "PUTMEM"} THEN File(Text(v), 1) ELSE NoFile
        /\ remote = [n \in Names |-> IF k \in {"GET", "GETMEM"} /\ n = "dst"
                                     THEN File(Text(v), 1) ELSE NoFile]
        /\ used = {v} /\ srv = s
        /\ op = [NoOp EXCEPT !.kind = k]
  BY DEF Init
<1>2. /\ cip = [hasSIZE |-> "unknown", hasMDTM |-> "unknown", hasAPPE |-> "unknown"]
      /\ now = 1 /\ mixed = {} /\ pc = "idle" /\ w = NoLocals /\ calls = 0
  BY DEF Init
<1>3. k \in AllKinds /\ 1 \in 0 .. MaxNow /\ now \in 1 .. MaxNow /\ 0 \in 0 .. MaxCalls
  BY <1>2, ConstantsAssumption
<1> DEFINE f == File(Text(v), 1)
<1>4. IsFile(f, 1) /\ f.there /\ IsFile(NoFile, 1) /\ ~NoFile.there /\ NoFile.data = <<>>
  BY <1>3, TextType, FileMade, NoFileMade
<1> HIDE DEF f
<1>5. /\ local = IF k \in {"PUT", "PUTMEM"} THEN f ELSE NoFile
      /\ remote = [n \in Names |-> IF k \in {"GET", "GETMEM"} /\ n = "dst" THEN f ELSE NoFile]
  BY <1>1 DEF f
<1>6. /\ op \in Ops /\ op.kind = k /\ pc \in PcsOf(op.kind)
  BY <1>1, <1>2, <1>3, NoOpType
<1>7. FilesOK
  <2>1. \A n \in Names : IsFile(remote[n], 1) /\ remote[n] \in Files
    BY <1>4, <1>5 DEF IsFile
  <2>2. remote \in [Names -> Files]
    BY <1>5, <2>1
  <2>3. IsFile(local, 1)
    BY <1>4, <1>5
  <2> QED
    BY <1>1, <1>2, <1>3, <2>1, <2>2, <2>3 DEF FilesOK
<1>8. CallOK
  <2>1. cip \in Caps
    BY <1>2 DEF Caps, Known
  <2>2. w \in Locals /\ w.mdtm <= now
    BY <1>2, NoLocalsType DEF Results, Unknown
  <2> QED
    BY <1>2, <1>3, <1>6, <2>1, <2>2 DEF CallOK
<1>9. OpOK
  <2>1. op = [NoOp EXCEPT !.kind = op.kind]
    BY <1>1, <1>6
  <2> QED
    BY <2>1 DEF OpOK, NoOp
<1>10. LocalOK
  BY <1>2, <1>4, <1>5, <1>6 DEF LocalOK
<1>11. AgreeOK
  <2>1. CASE k = "GET"
    <3>1. local.data = <<>> /\ remote["dst"].data \in Seq(Chars)
      <4>1. remote["dst"] = f
        BY <1>5, <2>1 DEF Names
      <4> QED
        BY <1>4, <1>5, <2>1, <4>1, FileParts
    <3>2. IsPrefix(local.data, remote["dst"].data)
      BY <3>1, NilPrefix
    <3> QED
      BY <1>6, <2>1, <3>2 DEF AgreeOK, Agree, Uploads
  <2>2. CASE k # "GET"
    <3>1. ASSUME NEW n \in Names, Uploads
          PROVE  Agree(remote[n], local)
      <4>1. remote[n].data = <<>> /\ local.data \in Seq(Chars)
        BY <1>4, <1>5, <1>6, <3>1, FileParts DEF Uploads
      <4> QED
        BY <4>1, NilPrefix DEF Agree
    <3> QED
      BY <1>6, <2>2, <3>1 DEF AgreeOK
  <2> QED
    BY <2>1, <2>2
<1>12. AskOK /\ StartOK /\ TransferOK /\ NamedOK /\ DeleteOK
  BY <1>2 DEF AskOK, StartOK, TransferOK, NamedOK, DeleteOK
<1> QED
  BY <1>7, <1>8, <1>9, <1>10, <1>11, <1>12 DEF IInv

-----------------------------------------------------------------------------
(* The theorems.                                                            *)

LEMMA Stutters == IInv /\ UNCHANGED vars => IInv'
<1> SUFFICES ASSUME IInv, UNCHANGED vars
             PROVE  IInv'
  OBVIOUS
<1>1. UNCHANGED <<local, remote, srv, cip, now, used, mixed, pc, op, w, calls>>
  BY DEF vars
<1> QED
  BY <1>1 DEF IInv, FilesOK, CallOK, OpOK, LocalOK, AgreeOK, AskOK, StartOK, TransferOK,
              NamedOK, DeleteOK, Agree, Sound, Uploads, Told, Asks, Target, PutFrom, Piece,
              Saved, Clean, Recognises, Destination, Source, Wanted, Downloads

LEMMA Steps == IInv /\ [Next]_vars => IInv'
<1> SUFFICES ASSUME IInv, [Next]_vars
             PROVE  IInv'
  OBVIOUS
<1>1. CASE Get
  BY <1>1, FTPGetOneFKeeps, GetSameKeeps, GetSkipKeeps, GetRefusesKeeps, GetOverwritesKeeps,
     GetResumesKeeps, GetAppendsKeeps, GetAppendsNothingKeeps, GetStartsKeeps,
     GetStartFailsKeeps, GetEndsKeeps, GetBreaksKeeps, GetKilledKeeps, DeleteRemoteKeeps,
     DeleteRefusedKeeps DEF Get
<1>2. CASE Put
  BY <1>2, FTPPutOneFKeeps, PutNotNeededKeeps, PutCanceledKeeps, PutOverwritesKeeps,
     PutAppendsKeeps, PutResumesKeeps, PutStartsKeeps, PutStartFailsKeeps, PutEndsKeeps,
     PutBreaksKeeps, RenameKeeps, RenameRefusedKeeps, RenameAgainKeeps, RenameFailsKeeps,
     SetTimeKeeps, DeleteLocalKeeps DEF Put
<1>3. CASE Memory
  BY <1>3, FTPGetFileToMemoryKeeps, AskMemSizeKeeps, GetMemFailsKeeps, GetMemStartsKeeps,
     GetMemEndsKeeps, GetMemBreaksKeeps, FTPPutFileFromMemoryKeeps, PutMemEndsKeeps DEF Memory
<1>4. CASE Ask
  BY <1>4, AskMLSTKeeps, AskSIZEKeeps, AskMDTMKeeps, AskFailsKeeps, DoNotAskKeeps DEF Ask
<1>5. CASE Stops \/ Edit \/ Tick
  BY <1>5, StopsKeeps, EditKeeps, TickKeeps
<1>6. CASE UNCHANGED vars
  BY <1>6, Stutters
<1> QED
  BY <1>1, <1>2, <1>3, <1>4, <1>5, <1>6 DEF Next

\* Every state has the invariant: what a call has learnt is true of the files, and a
\* destination that is not older than the source is a beginning of it, whatever has
\* interrupted the transfers before.
THEOREM Invariance == Spec => []IInv
<1>1. Init => IInv
  BY Starts
<1>2. IInv /\ [Next]_vars => IInv'
  BY Steps
<1> QED
  BY <1>1, <1>2, PTL DEF Spec

\* Every variable holds what its declaration says.
THEOREM TypeCorrect == Spec => []TypeOK
<1>1. IInv => TypeOK
  <2> SUFFICES ASSUME IInv
               PROVE  TypeOK
    OBVIOUS
  <2>1. IsFile(local, now) /\ IsFile(remote["dst"], now) /\ IsFile(remote["tmp"], now)
    BY Parts DEF IInv, FilesOK
  <2>2. \A f \in {local, remote["dst"], remote["tmp"]} :
          f.there \in BOOLEAN /\ f.mtime \in 0 .. MaxNow /\ (f.there \/ f = NoFile)
    BY <2>1 DEF IsFile, Files
  <2>3. \A h \in DOMAIN cip : cip[h] \in {"unknown", "yes", "no"}
    BY DEF IInv, CallOK, Caps, Known
  <2>4. pc \in {"idle", "ask", "askMDTM", "askSize", "decide", "start", "transfer", "rename",
                "rename2", "utime", "delete"}
    BY Parts DEF IInv, CallOK, PcsOf, AllKinds
  <2>5. w.size \in Int /\ w.start \in Nat /\ w.mdtm \in {Unknown} \cup 0 .. MaxNow
    BY DEF IInv, CallOK, Locals, Unknown
  <2>6. w.res \in {"none", "ok", "same", "error"} /\ w.skipped \in BOOLEAN
    BY DEF IInv, CallOK, Locals, Results
  <2> QED
    BY <2>2, <2>3, <2>4, <2>5, <2>6 DEF TypeOK, IInv, FilesOK, CallOK
<1> QED
  BY <1>1, Invariance, PTL

-----------------------------------------------------------------------------
(* What the invariant says of the ends of the calls.                        *)

LEMMA Ended ==
  ASSUME NEW res, op \in Ops
  PROVE  /\ Return(res) => w'.res = res /\ op'.kind = op.kind /\ w'.skipped = w.skipped
         /\ DeletesSource(res) => pc' = "delete" \/ Return(res)
<1>1. Return(res) => w'.res = res /\ w'.skipped = w.skipped
  BY DEF Return, NoLocals
<1>2. DeletesSource(res) => pc' = "delete" \/ Return(res)
  BY DEF DeletesSource
<1> QED
  BY <1>1, <1>2, KindKept

LEMMA Places ==
  ASSUME op'.kind = op.kind
  PROVE  /\ Downloads => Destination' = local'.data /\ Source = remote["dst"].data
         /\ ~Downloads => Destination' = remote'["dst"].data /\ Source = local.data
         /\ op.kind # "GETMEM" => Wanted = Source
BY DEF Downloads, Destination, Source, Wanted

WholeStep ==
  pc # "idle" /\ pc' = "idle" /\ w'.res \in {"ok", "same"} /\ Clean /\ Recognises /\ ~op.tmp
    => Destination' = Wanted \/ w'.skipped

\* What the premises come to.
LEMMA WholePremises ==
  ASSUME IInv, pc' = "idle", w'.res \in {"ok", "same"}, Clean, Recognises, ~op.tmp,
         ~w'.skipped
  PROVE  /\ op \in Ops /\ Sound("dst") /\ Target = "dst" /\ "dst" \notin mixed
         /\ ~Skips /\ ~Return("error")
         /\ \A res \in {"ok", "same"} : DeletesSource(res) => Return(res)
         /\ \A res : Return(res) => w'.res = res /\ op'.kind = op.kind /\ w'.skipped = w.skipped
<1>1. op \in Ops
  BY DEF IInv, CallOK
<1>2. Sound("dst") /\ Target = "dst" /\ "dst" \notin mixed
  BY DEF Clean, Recognises, Sound, Target
<1>3. ~Skips
  BY DEF Skips, NoLocals
<1> QED
  BY <1>1, <1>2, <1>3, Ended

LEMMA GetIsWhole == IInv /\ Get => WholeStep
<1> SUFFICES ASSUME IInv, Get, pc # "idle", pc' = "idle", w'.res \in {"ok", "same"},
                    Clean, Recognises, ~op.tmp, ~w'.skipped
             PROVE  Destination' = Wanted
  BY DEF WholeStep
<1>1. /\ op \in Ops /\ Sound("dst") /\ Target = "dst" /\ "dst" \notin mixed
      /\ ~Skips /\ ~Return("error")
      /\ \A res \in {"ok", "same"} : DeletesSource(res) => Return(res)
      /\ \A res : Return(res) => w'.res = res /\ op'.kind = op.kind /\ w'.skipped = w.skipped
  BY WholePremises
<1>2. CASE GetSame
  <2>1. /\ pc = "decide" /\ op.kind = "GET"
        /\ GetAction \in {"Same", "Resume"} /\ StartPoint = w.size
        /\ DeletesSource("same") \/ DeletesSource("ok")
        /\ UNCHANGED local
    BY <1>1, <1>2, GetSameSize DEF GetSame
  <2>2. local.data = remote["dst"].data
    BY <2>1, GetSameIs
  <2>3. op'.kind = op.kind /\ Downloads
    BY <1>1, <2>1 DEF Downloads
  <2> QED
    BY <2>1, <2>2, <2>3, Places
<1>3. CASE GetEnds
  <2>1. /\ pc = "transfer" /\ op.kind = "GET" /\ DeletesSource("ok")
        /\ local' = Stamped(Received(Len(w.wire)))
        /\ UNCHANGED <<remote, srv, now, used, mixed>>
    BY <1>3 DEF GetEnds
  <2>2. op'.kind = op.kind /\ Downloads /\ Len(w.wire) \in 0 .. Len(w.wire)
    BY <1>1, <2>1, LenProperties DEF Downloads, IInv, CallOK, Locals
  <2>3. local'.data = Received(Len(w.wire)).data
    BY <2>1, <2>2, GetComes
  <2>4. local'.data = remote["dst"].data
    BY <2>1, <2>3, GetWhole
  <2> QED
    BY <2>1, <2>2, <2>4, Places
<1>4. CASE GetAppendsNothing
  <2>1. GetAction = "Append"
    BY <1>4 DEF GetAppendsNothing
  <2>2. op.append
    BY <1>1, <2>1 DEF GetAction, GuessGet, Ops, Answers
  <2> QED
    BY <2>2 DEF Clean
<1>5. CASE DeleteRemote \/ DeleteRefused
  <2>1. /\ pc = "delete" /\ Downloads /\ local' = local
        /\ Return(w.res) \/ Return("error")
    BY <1>5 DEF DeleteRemote, DeleteRefused
  <2>2. ~w.skipped /\ op'.kind = op.kind
    BY <1>1, <2>1
  <2>3. Destination = Wanted
    BY <2>1, <2>2 DEF IInv, DeleteOK, Saved
  <2> QED
    BY <2>1, <2>2, <2>3, Places DEF Destination
<1>6. ~FTPGetOneF /\ ~GetOverwrites /\ ~GetResumes /\ ~GetAppends /\ ~GetStarts
  BY DEF FTPGetOneF, GetOverwrites, GetResumes, GetAppends, GetOpens, GetStarts
<1>7. ~GetSkip /\ ~GetRefuses /\ ~GetStartFails /\ ~GetBreaks /\ ~GetKilled
  BY <1>1 DEF GetSkip, GetRefuses, GetStartFails, GetBreaks, GetKilled
<1> QED
  BY <1>2, <1>3, <1>4, <1>5, <1>6, <1>7 DEF Get

LEMMA PutIsWhole == IInv /\ Put => WholeStep
<1> SUFFICES ASSUME IInv, Put, pc # "idle", pc' = "idle", w'.res \in {"ok", "same"},
                    Clean, Recognises, ~op.tmp, ~w'.skipped
             PROVE  Destination' = Wanted
  BY DEF WholeStep
<1>1. /\ op \in Ops /\ Sound("dst") /\ Target = "dst" /\ "dst" \notin mixed
      /\ ~Skips /\ ~Return("error")
      /\ \A res \in {"ok", "same"} : DeletesSource(res) => Return(res)
      /\ \A res : Return(res) => w'.res = res /\ op'.kind = op.kind /\ w'.skipped = w.skipped
  BY WholePremises
<1>2. CASE PutNotNeeded
  <2>1. /\ pc = "decide" /\ op.kind = "PUT" /\ UNCHANGED remote
        /\ PutAction \in {"Same", "Resume"} /\ LocalSize = w.size
        /\ DeletesSource("same") \/ DeletesSource("ok")
    BY <1>1, <1>2, PutSameSize DEF PutNotNeeded
  <2>2. remote["dst"].data = local.data
    BY <1>1, <2>1, PutSameIs
  <2>3. op'.kind = op.kind /\ ~Downloads
    BY <1>1, <2>1 DEF Downloads
  <2> QED
    BY <2>1, <2>2, <2>3, Places
<1>3. CASE SetTime
  <2>1. /\ pc = "utime" /\ op.kind = "PUT"
        /\ IF w.res = "ok" THEN DeletesSource("ok") ELSE Return(w.res)
        /\ remote' = remote \/ remote' = [remote EXCEPT !["dst"].mtime = local.mtime]
    BY <1>3, Parts DEF SetTime, IInv, CallOK, PcsOf, AllKinds
  <2>2. remote["dst"].data = local.data
    BY <1>1, <2>1 DEF IInv, NamedOK
  <2>3. remote'["dst"].data = remote["dst"].data
    BY <2>1 DEF IInv, FilesOK, Files, Names
  <2>4. op'.kind = op.kind /\ ~Downloads
    BY <1>1, <2>1 DEF Downloads
  <2> QED
    BY <2>1, <2>2, <2>3, <2>4, Places
<1>4. CASE DeleteLocal
  <2>1. pc = "delete" /\ op.kind = "PUT" /\ UNCHANGED remote /\ Return(w.res)
    BY <1>4 DEF DeleteLocal
  <2>2. ~w.skipped /\ op'.kind = op.kind /\ ~Downloads
    BY <1>1, <2>1 DEF Downloads
  <2>3. Destination = Wanted
    BY <2>1, <2>2 DEF IInv, DeleteOK, Saved
  <2> QED
    BY <2>1, <2>2, <2>3, Places DEF Destination
<1>5. ~FTPPutOneF /\ ~PutOverwrites /\ ~PutAppends /\ ~PutResumes /\ ~PutStarts
  BY DEF FTPPutOneF, PutOverwrites, PutAppends, PutResumes, PutOpens, PutStarts
<1>6. ~PutEnds /\ ~Rename /\ ~RenameRefused /\ ~RenameAgain /\ ~RenameFails
  BY DEF PutEnds, Rename, RenameRefused, RenameAgain, RenameFails
<1>7. ~PutCanceled /\ ~PutStartFails /\ ~PutBreaks
  BY <1>1 DEF PutCanceled, PutStartFails, PutBreaks
<1> QED
  BY <1>2, <1>3, <1>4, <1>5, <1>6, <1>7 DEF Put

LEMMA MemoryIsWhole == IInv /\ Memory => WholeStep
<1> SUFFICES ASSUME IInv, Memory, pc # "idle", pc' = "idle", w'.res \in {"ok", "same"},
                    Clean, Recognises, ~op.tmp, ~w'.skipped
             PROVE  Destination' = Wanted
  BY DEF WholeStep
<1>1. /\ op \in Ops /\ Sound("dst") /\ Target = "dst" /\ "dst" \notin mixed
      /\ ~Skips /\ ~Return("error")
      /\ \A res \in {"ok", "same"} : DeletesSource(res) => Return(res)
      /\ \A res : Return(res) => w'.res = res /\ op'.kind = op.kind /\ w'.skipped = w.skipped
  BY WholePremises
<1>2. CASE GetMemEnds
  <2>1. /\ pc = "transfer" /\ op.kind = "GETMEM" /\ DeletesSource("ok")
        /\ local' = Filled(Fits) /\ UNCHANGED <<remote, srv, now, used, mixed>>
    BY <1>2 DEF GetMemEnds
  <2>2. op'.kind = op.kind /\ Downloads /\ Fits \in 0 .. Fits
    BY <1>1, <2>1, FitsType DEF Downloads
  <2>3. local'.data = SubSeq(w.wire, 1, Fits)
    BY <2>1, <2>2, FilledIs
  <2>4. local'.data = Wanted
    BY <1>1, <2>1, <2>3, MemoryWhole
  <2> QED
    BY <2>2, <2>4, Places
<1>3. CASE PutMemEnds
  <2>1. /\ pc = "transfer" /\ op.kind = "PUTMEM" /\ Return("ok")
        /\ remote' = Stored(Len(w.wire)) /\ UNCHANGED <<local, srv, now, used, mixed>>
    BY <1>3 DEF PutMemEnds
  <2>2. op'.kind = op.kind /\ ~Downloads /\ Uploads /\ Len(w.wire) \in 0 .. Len(w.wire)
    BY <1>1, <2>1, LenProperties DEF Downloads, Uploads, IInv, CallOK, Locals
  <2>3. remote'["dst"].data = local.data
    BY <1>1, <2>1, <2>2, StoredIs, PutWhole
  <2> QED
    BY <2>1, <2>2, <2>3, Places
<1>4. ~FTPGetFileToMemory /\ ~GetMemStarts /\ ~FTPPutFileFromMemory
  BY DEF FTPGetFileToMemory, GetMemStarts, FTPPutFileFromMemory
<1>5. ~AskMemSize
  BY <1>1 DEF AskMemSize
<1>6. ~GetMemFails /\ ~GetMemBreaks
  BY <1>1 DEF GetMemFails, GetMemBreaks
<1> QED
  BY <1>2, <1>3, <1>4, <1>5, <1>6 DEF Memory

\* A get or a put that is not an append and reports success, or that the files are
\* the same, has left the destination what was asked of the source, for files of any
\* length, however often it was interrupted, killed and resumed before.
THEOREM WholeFiles == Spec => Whole
<1>1. IInv /\ [Next]_vars => [WholeStep]_vars
  <2> SUFFICES ASSUME IInv, Next
               PROVE  WholeStep
    OBVIOUS
  <2>1. CASE Ask
    BY <2>1 DEF WholeStep, Ask, AskMLST, AskSIZE, AskMDTM, AskFails, DoNotAsk
  <2>2. CASE Stops
    <3>1. Return("error") /\ op \in Ops
      BY <2>2 DEF Stops, IInv, CallOK
    <3> QED
      BY <3>1, Ended DEF WholeStep
  <2>3. CASE Edit \/ Tick
    BY <2>3 DEF WholeStep, Edit, Tick
  <2> QED
    BY <2>1, <2>2, <2>3, GetIsWhole, PutIsWhole, MemoryIsWhole DEF Next
<1> QED
  BY <1>1, Invariance, PTL DEF Spec, Whole, WholeStep

-----------------------------------------------------------------------------
(* What is seen of the files meanwhile.                                     *)

\* Only the deletions are made from where a source is deleted; and its editor goes on.
LEMMA AtDelete ==
  ASSUME Next, pc = "delete"
  PROVE  DeleteRemote \/ DeleteRefused \/ DeleteLocal \/ Edit
<1>1. /\ ~FTPGetOneF /\ ~GetSame /\ ~GetSkip /\ ~GetRefuses /\ ~GetOverwrites /\ ~GetResumes
      /\ ~GetAppends /\ ~GetAppendsNothing /\ ~GetStarts /\ ~GetStartFails /\ ~GetEnds
      /\ ~GetBreaks /\ ~GetKilled
  BY DEF FTPGetOneF, GetSame, GetSkip, GetRefuses, GetOverwrites, GetResumes, GetAppends,
         GetAppendsNothing, GetStarts, GetStartFails, GetEnds, GetBreaks, GetKilled
<1>2. /\ ~FTPPutOneF /\ ~PutNotNeeded /\ ~PutCanceled /\ ~PutOverwrites /\ ~PutAppends
      /\ ~PutResumes /\ ~PutStarts /\ ~PutStartFails /\ ~PutEnds /\ ~PutBreaks /\ ~Rename
      /\ ~RenameRefused /\ ~RenameAgain /\ ~RenameFails /\ ~SetTime
  BY DEF FTPPutOneF, PutNotNeeded, PutCanceled, PutOverwrites, PutAppends, PutResumes,
         PutStarts, PutStartFails, PutEnds, PutBreaks, Rename, RenameRefused, RenameAgain,
         RenameFails, SetTime
<1>3. ~Memory
  BY DEF Memory, FTPGetFileToMemory, AskMemSize, GetMemFails, GetMemStarts, GetMemEnds,
         GetMemBreaks, FTPPutFileFromMemory, PutMemEnds
<1>4. ~Ask /\ ~Stops /\ ~Tick
  BY DEF Ask, AskMLST, AskSIZE, AskMDTM, AskFails, DoNotAsk, Stops, Tick
<1> QED
  BY <1>1, <1>2, <1>3, <1>4 DEF Next, Get, Put

SavedStep ==
  pc = "delete" /\ ~w.skipped /\ Clean /\ Recognises /\ Deletes /\ Wanted = Source
    => Source \in {Destination', remote'["tmp"].data}

\* The library deletes a source only when its contents are at the destination, or
\* under the temporary name, for files of any length.
THEOREM SourcesSaved == Spec => DeletedIsSaved
<1>1. IInv /\ [Next]_vars => [SavedStep]_vars
  <2> SUFFICES ASSUME IInv, Next, pc = "delete", ~w.skipped, Clean, Recognises,
                      Wanted = Source
               PROVE  Source \in {Destination', remote'["tmp"].data}
    BY DEF SavedStep
  <2>1. Saved
    BY DEF IInv, DeleteOK
  <2>2. Destination = Source \/ (op.kind = "PUT" /\ Source = remote["tmp"].data)
    BY <2>1 DEF Saved, IInv, OpOK
  <2>3. op \in Ops /\ remote \in [Names -> Files] /\ "dst" \in Names /\ "tmp" \in Names
    BY Parts DEF IInv, CallOK, FilesOK
  <2>4. CASE DeleteRemote
    <3>1. Downloads /\ local' = local /\ op'.kind = op.kind
      BY <2>3, <2>4, KindKept DEF DeleteRemote
    <3> QED
      BY <2>2, <3>1, Places DEF Destination, Downloads
  <2>5. CASE DeleteRefused \/ DeleteLocal
    <3>1. op'.kind = op.kind /\ remote' = remote /\ (Downloads => local' = local)
      BY <2>3, <2>5, KindKept DEF DeleteRefused, DeleteLocal, Downloads
    <3> QED
      BY <2>2, <3>1, Places DEF Destination
  <2>6. CASE Edit
    <3>1. op'.kind = op.kind /\ (Downloads => local' = local) /\ (~Downloads => remote' = remote)
      BY <2>6 DEF Edit
    <3> QED
      BY <2>2, <3>1, Places DEF Destination, Downloads
  <2> QED
    BY <2>4, <2>5, <2>6, AtDelete
<1> QED
  BY <1>1, Invariance, PTL DEF Spec, DeletedIsSaved, SavedStep

\* The steps that change a file of the server.
LEMMA RemoteChanges ==
  ASSUME Next, remote' # remote
  PROVE  \/ PutStarts \/ PutEnds \/ PutBreaks \/ PutMemEnds \/ Rename \/ RenameRefused
         \/ RenameAgain \/ SetTime \/ DeleteRemote \/ Edit
<1>1. /\ ~FTPGetOneF /\ ~GetSame /\ ~GetSkip /\ ~GetRefuses /\ ~GetOverwrites /\ ~GetResumes
      /\ ~GetAppends /\ ~GetAppendsNothing /\ ~GetStarts /\ ~GetStartFails /\ ~GetEnds
      /\ ~GetBreaks /\ ~GetKilled /\ ~DeleteRefused
  BY DEF FTPGetOneF, GetSame, GetSkip, GetRefuses, GetOverwrites, GetResumes, GetAppends,
         GetAppendsNothing, GetStarts, GetStartFails, GetEnds, GetBreaks, GetKilled,
         DeleteRefused, GetOpens
<1>2. /\ ~FTPPutOneF /\ ~PutNotNeeded /\ ~PutCanceled /\ ~PutOverwrites /\ ~PutAppends
      /\ ~PutResumes /\ ~PutStartFails /\ ~RenameFails /\ ~DeleteLocal
  BY DEF FTPPutOneF, PutNotNeeded, PutCanceled, PutOverwrites, PutAppends, PutResumes,
         PutStartFails, RenameFails, DeleteLocal, PutOpens
<1>3. /\ ~FTPGetFileToMemory /\ ~AskMemSize /\ ~GetMemFails /\ ~GetMemStarts /\ ~GetMemEnds
      /\ ~GetMemBreaks /\ ~FTPPutFileFromMemory
  BY DEF FTPGetFileToMemory, AskMemSize, GetMemFails, GetMemStarts, GetMemEnds,
         GetMemBreaks, FTPPutFileFromMemory
<1>4. ~Ask /\ ~Stops /\ ~Tick
  BY DEF Ask, AskMLST, AskSIZE, AskMDTM, AskFails, DoNotAsk, Stops, Tick
<1> QED
  BY <1>1, <1>2, <1>3, <1>4 DEF Next, Get, Put, Memory

HiddenStep ==
  op.tmp /\ Clean /\ Recognises
     /\ remote'["dst"].there /\ remote'["dst"].data # remote["dst"].data
   => pc \in {"rename", "rename2"} /\ remote'["dst"].data = local.data

\* While a file is uploaded under a temporary name, its own keeps its old contents until
\* the whole upload takes it, or is free in between.
THEOREM NeverPartialSeen == Spec => NeverPartial
<1>1. IInv /\ [Next]_vars => [HiddenStep]_vars
  <2> SUFFICES ASSUME IInv, Next, op.tmp, Clean, Recognises,
                      remote'["dst"].there, remote'["dst"].data # remote["dst"].data
               PROVE  pc \in {"rename", "rename2"} /\ remote'["dst"].data = local.data
    BY DEF HiddenStep
  <2>1. /\ op.kind = "PUT" /\ Target = "tmp" /\ Sound("tmp")
    BY DEF IInv, OpOK, Target, Clean, Recognises, Sound
  <2>2. remote \in [Names -> Files] /\ "dst" \in Names /\ "tmp" \in Names
    BY Parts DEF IInv, FilesOK
  <2>3. ASSUME pc \in {"rename", "rename2"}, Renames
        PROVE  remote'["dst"].data = local.data
    <3>1. remote'["dst"] = remote["tmp"]
      BY <2>2, <2>3 DEF Renames
    <3>2. remote["tmp"].data = local.data
      BY <2>1, <2>3, Naming
    <3> QED
      BY <3>1, <3>2
  <2>4. CASE Rename \/ RenameAgain
    <3>1. pc \in {"rename", "rename2"} /\ Renames
      BY <2>4 DEF Rename, RenameAgain
    <3> QED
      BY <2>3, <3>1
  <2>5. ~PutStarts /\ ~PutEnds /\ ~PutBreaks /\ ~PutMemEnds
    <3>1. ASSUME NEW f, remote' = [remote EXCEPT !["tmp"] = f]
          PROVE  FALSE
      BY <2>2, <3>1
    <3> QED
      BY <2>1, <3>1 DEF PutStarts, PutEnds, PutBreaks, PutMemEnds, Stored
  <2>6. ~RenameRefused
    BY <2>2 DEF RenameRefused, NoFile
  <2>7. ~SetTime
    <3>1. SetTime => remote' = remote \/ remote' = [remote EXCEPT !["dst"].mtime = local.mtime]
      BY DEF SetTime
    <3>2. remote' = [remote EXCEPT !["dst"].mtime = local.mtime]
            => remote'["dst"].data = remote["dst"].data
      BY <2>2 DEF Files
    <3> QED
      BY <3>1, <3>2
  <2>8. ~DeleteRemote /\ ~Edit
    BY <2>1 DEF DeleteRemote, Edit, Downloads
  <2> QED
    BY <2>4, <2>5, <2>6, <2>7, <2>8, RemoteChanges
<1> QED
  BY <1>1, Invariance, PTL DEF Spec, NeverPartial, HiddenStep
=============================================================================
