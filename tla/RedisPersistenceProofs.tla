------------------------ MODULE RedisPersistenceProofs ------------------------
(***************************************************************************)
(* Proofs about what becomes of a data set. RedisPersistence: what is      *)
(* written is in the append only file or on its way to it, what was        *)
(* acknowledged under appendfsync always is synced, and no change is left  *)
(* uncounted. RedisReplication, in the second half, which needs the same   *)
(* lemmas on pieces of data sets: a slave is where it says it is in the    *)
(* stream of its master, and nothing is lost between the two.              *)
(***************************************************************************)
EXTENDS RedisPersistence, SequenceTheorems, TLAPS

(* Pieces of data sets *)

LEMMA ConcatData ==
    ASSUME NEW s \in Data, NEW t \in Data
    PROVE  /\ s \o t \in Data /\ Len(s \o t) = Len(s) + Len(t)
           /\ Len(s) \in Nat /\ Len(t) \in Nat
  BY ConcatProperties, LenProperties DEF Data

LEMMA EmptyData ==
    ASSUME NEW s \in Data
    PROVE  /\ <<>> \in Data /\ Len(<<>>) = 0 /\ Len(s) \in Nat
           /\ s \o <<>> = s /\ <<>> \o s = s /\ (Len(s) = 0 => s = <<>>)
  BY EmptySeq, ConcatEmptySeq, LenProperties DEF Data

LEMMA Assoc ==
    ASSUME NEW s \in Data, NEW t \in Data, NEW u \in Data
    PROVE  (s \o t) \o u = s \o (t \o u)
  BY SMTT(20) DEF Data

\* The same, of an operator the prover does not look into.
Cat(s, t) == s \o t

LEMMA CatData ==
    ASSUME NEW s \in Data, NEW t \in Data
    PROVE  Cat(s, t) \in Data /\ Cat(s, <<>>) = s
  BY ConcatData, EmptyData DEF Cat

LEMMA CatAssoc ==
    ASSUME NEW s \in Data, NEW t \in Data, NEW u \in Data
    PROVE  Cat(Cat(s, t), u) = Cat(s, Cat(t, u))
  BY Assoc, SMTT(20) DEF Cat

\* Moving a piece from one place to the next.
Regrouped(b, d, p, q) ==
    /\ b \o d \o (p \o q) \o <<>> = b \o d \o p \o q
    /\ b \o (d \o p) \o <<>> \o q = b \o d \o p \o q

LEMMA Regroup ==
    ASSUME NEW b \in Data, NEW d \in Data, NEW p \in Data, NEW q \in Data
    PROVE  Regrouped(b, d, p, q)
<1>1. Cat(b, d) \in Data /\ Cat(d, p) \in Data /\ Cat(p, q) \in Data
  BY CatData
<1>2. Cat(Cat(b, d), Cat(p, q)) \in Data /\ Cat(b, Cat(d, p)) \in Data
  BY <1>1, CatData
<1>3. Cat(Cat(Cat(b, d), Cat(p, q)), <<>>) = Cat(Cat(Cat(b, d), p), q)
  BY <1>1, <1>2, CatData, CatAssoc
<1>4. Cat(Cat(Cat(b, Cat(d, p)), <<>>), q) = Cat(Cat(Cat(b, d), p), q)
  BY <1>1, <1>2, CatData, CatAssoc
<1> QED
  BY <1>3, <1>4, Zenon DEF Cat, Regrouped

LEMMA AppendData ==
    ASSUME NEW s \in Data, NEW t \in Data, NEW w \in Nat
    PROVE  /\ Append(s, w) \in Data /\ s \o Append(t, w) = Append(s \o t, w)
           /\ Range(Append(s, w)) = Range(s) \cup {w}
<1>1. <<w>> \in Data /\ Range(<<w>>) = {w}
  BY DEF Data, Range
<1>2. /\ Append(s, w) = s \o <<w>> /\ Append(t, w) = t \o <<w>>
      /\ Append(s \o t, w) = (s \o t) \o <<w>>
  BY AppendIsConcat, ConcatData DEF Data
<1>3. s \o (t \o <<w>>) = (s \o t) \o <<w>>
  BY <1>1, Assoc
<1>4. Append(s, w) \in Data
  BY AppendProperties DEF Data
<1>5. Range(s \o <<w>>) = Range(s) \cup {w}
  <2>1. \A x \in Data : Range(s \o x) = Range(s) \cup Range(x)
    BY RangeConcatenation DEF Data
  <2> QED
    BY <1>1, <2>1
<1> QED
  BY <1>2, <1>3, <1>4, <1>5

LEMMA PrefixData ==
    ASSUME NEW s \in Data, NEW n \in 0..Len(s)
    PROVE  /\ SubSeq(s, 1, n) \in Data /\ Len(SubSeq(s, 1, n)) = n
           /\ SubSeq(s, n + 1, Len(s)) \in Data
           /\ SubSeq(s, 1, n) \o SubSeq(s, n + 1, Len(s)) = s
           /\ SubSeq(s, 1, Len(s)) = s
<1>1. Len(s) \in Nat /\ n \in Nat /\ \A i \in 1..Len(s) : s[i] \in Nat
  BY LenProperties DEF Data
<1>2. SubSeq(s, 1, n) \in Data /\ Len(SubSeq(s, 1, n)) = n
  BY <1>1, SubSeqProperties DEF Data
<1>3. SubSeq(s, n + 1, Len(s)) \in Data
  BY <1>1, SubSeqProperties DEF Data
<1>4. SubSeq(s, 1, n) \o SubSeq(s, n + 1, Len(s)) = SubSeq(s, 1, Len(s))
  <2>1. /\ 1 \in 1..Len(s) + 1 /\ n \in (1 - 1)..Len(s) /\ Len(s) \in n..Len(s)
    BY <1>1
  <2> QED
    BY <2>1, ConcatAdjacentSubSeq DEF Data
<1>5. SubSeq(s, 1, Len(s)) = s
  BY SubSeqFull DEF Data
<1> QED
  BY <1>2, <1>3, <1>4, <1>5

\* A prefix does not see what is appended.
LEMMA PrefixOfConcat ==
    ASSUME NEW s \in Data, NEW t \in Data, NEW n \in 0..Len(s)
    PROVE  SubSeq(s \o t, 1, n) = SubSeq(s, 1, n)
<1>1. CASE n = 0
  BY <1>1, SubSeqEmpty
<1>2. CASE n # 0
  <2>1. Len(s) \in Nat
    BY LenProperties DEF Data
  <2>2. 1 \in 1..Len(s) /\ n \in 1..Len(s)
    BY <1>2, <2>1
  <2> QED
    BY <2>2, SubSeqOfConcat1 DEF Data
<1> QED
  BY <1>1, <1>2

LEMMA PrefixRange ==
    ASSUME NEW s \in Data, NEW n \in 0..Len(s), NEW m \in 0..n
    PROVE  /\ Range(SubSeq(s, 1, m)) \subseteq Range(SubSeq(s, 1, n))
           /\ Range(SubSeq(s, 1, m)) \subseteq Range(s)
<1>1. Len(s) \in Nat
  BY LenProperties DEF Data
<1>2. ASSUME NEW k \in 0..Len(s)
      PROVE  Range(SubSeq(s, 1, k)) = {s[i] : i \in 1..k}
  <2> DEFINE p == SubSeq(s, 1, k)
  <2>1. p \in Data /\ Len(p) = k
    BY PrefixData
  <2>2. \A i \in 1..k : p[i] = s[i]
    <3>1. \A i \in 1..k : s[i] \in Nat
      BY <1>1 DEF Data
    <3> QED
      BY <3>1, <1>1, SubSeqProperties
  <2> HIDE DEF p
  <2>3. Range(p) = {p[i] : i \in 1..k}
    BY <2>1, RangeEquality DEF Data
  <2> QED
    BY <2>2, <2>3 DEF p
<1>3. m \in 0..Len(s) /\ Len(s) \in 0..Len(s) /\ m <= n /\ n <= Len(s)
  BY <1>1
<1>4. /\ Range(SubSeq(s, 1, m)) = {s[i] : i \in 1..m}
      /\ Range(SubSeq(s, 1, n)) = {s[i] : i \in 1..n}
      /\ Range(SubSeq(s, 1, Len(s))) = {s[i] : i \in 1..Len(s)}
  BY <1>2, <1>3
<1>5. SubSeq(s, 1, Len(s)) = s
  BY SubSeqFull DEF Data
<1>6. 1..m \subseteq 1..n /\ 1..m \subseteq 1..Len(s)
  BY <1>1, <1>3
<1>7. /\ {s[i] : i \in 1..m} \subseteq {s[i] : i \in 1..n}
      /\ {s[i] : i \in 1..m} \subseteq {s[i] : i \in 1..Len(s)}
  BY <1>6
<1> QED
  BY <1>4, <1>5, <1>7

-----------------------------------------------------------------------------
(* The inductive invariant *)

Shape == /\ TypeOK /\ file \in [data : Data, synced : Nat, error : BOOLEAN]
         /\ aof.state # "off" => aof.fd = "open"
         /\ process # "up" => rewrite = None /\ bgsave = None

\* The child that is done has read the pipe; the size of the file is known.
AofKept == /\ AofComplete
           /\ rewrite # None /\ rewrite.phase = "ok" => rewrite.pipe = <<>>
           /\ process = "up" /\ aof.state = "on" => aof.size = Len(file.data)

\* A BGSAVE accounts for the changes before it; those since it are counted.
Counted ==
    process = "up" =>
       /\ bgsave = None \/ bgsave.phase # "ok" =>
             (dirty = 0 => rdb = data \/ data = <<>>)
       /\ bgsave # None =>
             /\ bgsave.before <= dirty
             /\ dirty = bgsave.before => bgsave.data = data
             /\ bgsave.phase = "ok" => rdb = bgsave.data

SyncedWrites == Range(SubSeq(file.data, 1, file.synced))

\* A write is in the data before its reply leaves. With appendfsync always what is
\* not yet written is of this turn of the event loop, and what is older, synced.
Promised ==
    /\ process = "up" => acked \cup replies \cup executed \subseteq Range(data)
    /\ policy = "always" /\ aof.state = "on" =>
          /\ process = "up" => Range(aof.buf) \subseteq executed
          /\ process = "shutdown" => acked \ executed \subseteq Range(file.data)
          /\ ~file.error =>
                /\ acked \ executed \subseteq SyncedWrites
                /\ process = "up" => /\ replies \ executed \subseteq SyncedWrites
                                     /\ executed \subseteq SyncedWrites \cup Range(aof.buf)

IInv == Shape /\ AofKept /\ Counted /\ Promised

-----------------------------------------------------------------------------
(* The flush *)

\* An fsync leaves the contents, and syncs all of it unless there is an error.
LEMMA SyncsFile ==
    ASSUME NEW f \in [data : Data, synced : Nat, error : BOOLEAN],
           f.synced \in 0..Len(f.data), NEW g \in Syncs(f)
    PROVE  /\ g \in [data : Data, synced : Nat, error : BOOLEAN]
           /\ g.data = f.data /\ g.synced \in 0..Len(g.data) /\ g.synced >= f.synced
           /\ ~g.error => ~f.error /\ g.synced = Len(g.data)
<1>1. Len(f.data) \in Nat /\ Len(f.data) >= f.synced /\ f.synced >= f.synced
      /\ Len(f.data) \in 0..Len(f.data)
  <2>1. f.data \in Data /\ Len(f.data) \in Nat
    BY EmptyData
  <2> QED
    BY <2>1
<1>2. CASE f.error
  BY <1>1, <1>2 DEF Syncs
<1>3. CASE ~f.error
  <2>1. g = [f EXCEPT !.synced = Len(f.data)] \/ g = [f EXCEPT !.error = TRUE]
    BY <1>3 DEF Syncs
  <2> QED
    BY <1>1, <1>3, <2>1
<1> QED
  BY <1>2, <1>3

\* What a flush may make of the buffer and the file.
Outcomes == {Postponed} \cup Written \cup Failures

LEMMA OutcomeTyped ==
    ASSUME Shape, NEW o \in Outcomes
    PROVE  /\ o.aof \in Aof /\ o.aof.state = aof.state /\ o.aof.fd = aof.fd
           /\ o.file \in [data : Data, synced : Nat, error : BOOLEAN]
           /\ o.file.synced \in 0..Len(o.file.data)
<1>1. /\ aof \in Aof /\ aof.buf \in Data /\ aof.size \in Nat
      /\ file \in [data : Data, synced : Nat, error : BOOLEAN] /\ file.data \in Data
      /\ file.synced \in 0..Len(file.data) /\ fsyncs \in Seq({"current", "old"})
  BY DEF Shape, TypeOK, Aof
<1>2. Len(aof.buf) \in Nat /\ Len(file.data) \in Nat
  BY <1>1, EmptyData
<1>3. CASE o = Postponed
  BY <1>1, <1>3 DEF Postponed, Aof
<1>4. CASE o \in Written
  <2> DEFINE s == file.data \o aof.buf
             all == [file EXCEPT !.data = s]
  <2>1. s \in Data /\ Len(s) = Len(file.data) + Len(aof.buf) /\ <<>> \in Data
    BY <1>1, ConcatData, EmptyData
  <2> DEFINE size == aof.size + Len(aof.buf)
             due == aof.due /\ policy # "everysec"
  <2>0. size \in Nat /\ due \in BOOLEAN
    BY <1>1, <1>2 DEF Aof
  <2> HIDE DEF s, size, due
  <2> DEFINE b == [aof EXCEPT !.buf = <<>>, !.size = size, !.ok = TRUE,
                              !.postponed = 0, !.due = due]
  <2>4. b \in Aof /\ b.state = aof.state /\ b.fd = aof.fd
    <3>1. aof \in Aof
      BY <1>1
    <3>2. <<>> \in Data
      BY <2>1
    <3>3. 0 \in 0..3
      OBVIOUS
    <3> QED
      BY <3>1, <3>2, <3>3, <2>0 DEF Aof
  <2>5. /\ all \in [data : Data, synced : Nat, error : BOOLEAN]
        /\ all.synced \in 0..Len(all.data)
    BY <1>1, <1>2, <2>1
  <2>6. PICK f \in FilesWritten : o = AllWritten(f)
    BY <1>4 DEF Written
  <2>2. /\ o.aof = b
        /\ o.file = file \/ o.file \in Syncs(all) \/ o.file = all
    <3>1. f = file \/ f \in Syncs(all) \/ f = all
      BY DEF FilesWritten, s
    <3>2. o.aof = b /\ o.file = f
      BY <2>6 DEF AllWritten, size, due
    <3> QED
      BY <3>1, <3>2
  <2> HIDE DEF b, all
  <2>3. o.aof \in Aof /\ o.aof.state = aof.state /\ o.aof.fd = aof.fd
    BY <2>2, <2>4
  <2> QED
    BY <1>1, <2>2, <2>3, <2>5, SyncsFile
<1>5. ASSUME NEW c \in Data, NEW k \in 0..Len(aof.buf), o = Failed(c, k)
      PROVE  /\ o.aof \in Aof /\ o.aof.state = aof.state /\ o.aof.fd = aof.fd
             /\ o.file \in [data : Data, synced : Nat, error : BOOLEAN]
             /\ o.file.synced \in 0..Len(o.file.data)
  <2> DEFINE left == SubSeq(aof.buf, k + 1, Len(aof.buf))
  <2>1. left \in Data /\ Len(c) \in Nat
    BY <1>1, PrefixData, EmptyData
  <2> DEFINE size == aof.size + k
  <2>0. size \in Nat
    BY <1>1, <1>2
  <2> HIDE DEF left, size
  <2> DEFINE b == [aof EXCEPT !.buf = left, !.size = size, !.ok = FALSE, !.postponed = 0]
  <2>4. b \in Aof /\ b.state = aof.state /\ b.fd = aof.fd
    <3>1. aof \in Aof /\ left \in Data /\ size \in Nat
      BY <1>1, <2>0, <2>1
    <3>2. LET x == [aof EXCEPT !.buf = left, !.size = size, !.ok = FALSE,
                               !.postponed = 0]
          IN x \in Aof /\ x.state = aof.state /\ x.fd = aof.fd
      <4>1. 0 \in 0..3
        OBVIOUS
      <4> QED
        BY <3>1, <4>1 DEF Aof
    <3> QED
      BY <3>2
  <2>2. /\ o.aof = b
        /\ o.file = [file EXCEPT !.data = c,
                                 !.synced = IF file.synced < Len(c) THEN file.synced
                                            ELSE Len(c)]
    BY <1>5 DEF Failed, left, size
  <2> HIDE DEF b
  <2>3. o.aof \in Aof /\ o.aof.state = aof.state /\ o.aof.fd = aof.fd
    BY <2>2, <2>4
  <2> DEFINE m == IF file.synced < Len(c) THEN file.synced ELSE Len(c)
  <2>5. file.synced \in Nat /\ m \in 0..Len(c) /\ m \in Nat
    BY <1>1, <2>1
  <2>6. o.file = [file EXCEPT !.data = c, !.synced = m]
    BY <2>2
  <2> HIDE DEF m
  <2>7. /\ o.file \in [data : Data, synced : Nat, error : BOOLEAN]
        /\ o.file.synced \in 0..Len(o.file.data)
    BY <1>1, <2>5, <2>6
  <2> QED
    BY <2>3, <2>7
<1>6. CASE o \in Failures
  <2>1. CASE o = Failed(file.data, 0)
    BY <1>1, <1>2, <1>5, <2>1
  <2>2. ASSUME NEW j \in 1..(Len(aof.buf) - 1)
        PROVE  /\ file.data \o SubSeq(aof.buf, 1, j) \in Data
               /\ CutOff(file.data \o SubSeq(aof.buf, 1, j), aof.size) \in Data
               /\ j \in 0..Len(aof.buf) /\ 0 \in 0..Len(aof.buf)
    <3> DEFINE s == file.data \o SubSeq(aof.buf, 1, j)
    <3>1. j \in 0..Len(aof.buf) /\ 0 \in 0..Len(aof.buf)
      BY <1>2
    <3>2. s \in Data
      BY <1>1, <3>1, PrefixData, ConcatData
    <3> HIDE DEF s
    <3>3. (IF aof.size < Len(s) THEN aof.size ELSE Len(s)) \in 0..Len(s)
      BY <1>1, <3>2, EmptyData
    <3>4. CutOff(s, aof.size) \in Data
      BY <3>2, <3>3, PrefixData DEF CutOff
    <3> QED
      BY <3>1, <3>2, <3>4 DEF s
  <2>3. CASE \E j \in 1..(Len(aof.buf) - 1) :
               \/ o = Failed(file.data, j)
               \/ o = Failed(CutOff(file.data \o SubSeq(aof.buf, 1, j), aof.size), 0)
               \/ o = Failed(file.data \o SubSeq(aof.buf, 1, j), j)
    BY <1>1, <1>5, <2>2, <2>3
  <2> QED
    BY <1>6, <2>1, <2>3 DEF Failures
<1> QED
  BY <1>3, <1>4, <1>6 DEF Outcomes

\* A flush moves the front of the buffer, some or none of it, to the file.
Moves(o, x) == /\ o.aof.buf \in Data
               /\ aof.buf = x \o o.aof.buf
               /\ o.file.data = file.data \o x
               /\ o.aof.size = Len(file.data) + Len(x)
               /\ o.file.synced >= file.synced
               /\ ~o.file.error => ~file.error

LEMMA OutcomeMoves ==
    ASSUME Shape, aof.state = "on", aof.size = Len(file.data), NEW o \in Outcomes
    PROVE  \E x \in Data : Moves(o, x)
<1>1. /\ aof \in Aof /\ aof.buf \in Data /\ aof.size \in Nat
      /\ file \in [data : Data, synced : Nat, error : BOOLEAN] /\ file.data \in Data
      /\ file.synced \in 0..Len(file.data) /\ aof.fd = "open"
  BY DEF Shape, TypeOK, Aof
<1>2. /\ Len(aof.buf) \in Nat /\ Len(file.data) \in Nat
      /\ <<>> \in Data /\ Len(<<>>) = 0
      /\ file.data \o <<>> = file.data /\ <<>> \o aof.buf = aof.buf
      /\ aof.buf \o <<>> = aof.buf
  BY <1>1, EmptyData
<1>3. CASE o = Postponed
  <2>1. /\ o.aof.buf = aof.buf /\ o.aof.size = aof.size /\ o.file = file
    BY <1>1, <1>3 DEF Postponed, Aof
  <2>2. Moves(o, <<>>)
    BY <1>1, <1>2, <2>1 DEF Moves
  <2> QED
    BY <1>2, <2>2
<1>4. CASE o \in Written
  <2> DEFINE s == file.data \o aof.buf
             all == [file EXCEPT !.data = s]
  <2>1. s \in Data /\ Len(s) = Len(file.data) + Len(aof.buf)
    BY <1>1, ConcatData
  <2> HIDE DEF s
  <2>2. /\ all \in [data : Data, synced : Nat, error : BOOLEAN] /\ all.data = s
        /\ all.synced = file.synced /\ all.error = file.error
        /\ all.synced \in 0..Len(all.data)
    BY <1>1, <1>2, <2>1
  <2>6. PICK f \in FilesWritten : o = AllWritten(f)
    BY <1>4 DEF Written
  <2>3. /\ o.aof.buf = <<>> /\ o.aof.size = aof.size + Len(aof.buf)
        /\ o.file \in Syncs(all) \/ o.file = all
    <3>1. f \in Syncs(all) \/ f = all
      BY <1>1 DEF FilesWritten, s
    <3>2. /\ o.aof.buf = <<>> /\ o.aof.size = aof.size + Len(aof.buf)
          /\ o.file = f
      BY <1>1, <2>6 DEF AllWritten, Aof
    <3> QED
      BY <3>1, <3>2
  <2> HIDE DEF all
  <2>4. /\ o.file.data = s /\ o.file.synced >= file.synced
        /\ ~o.file.error => ~file.error
    <3>1. file.synced >= file.synced
      BY <1>1, <1>2
    <3> QED
      BY <2>2, <2>3, <3>1, SyncsFile
  <2>5. Moves(o, aof.buf)
    BY <1>2, <2>3, <2>4 DEF Moves, s
  <2> QED
    BY <1>1, <2>5
<1>5. ASSUME NEW j \in 0..Len(aof.buf), o = Failed(file.data \o SubSeq(aof.buf, 1, j), j)
      PROVE  \E x \in Data : Moves(o, x)
  <2> DEFINE x == SubSeq(aof.buf, 1, j)
             left == SubSeq(aof.buf, j + 1, Len(aof.buf))
             c == file.data \o x
  <2>1. /\ x \in Data /\ Len(x) = j /\ left \in Data /\ x \o left = aof.buf
    BY <1>1, PrefixData
  <2>2. Len(c) = Len(file.data) + j
    BY <1>1, <2>1, ConcatData
  <2>3. /\ o.aof = [aof EXCEPT !.buf = left, !.size = @ + j, !.ok = FALSE, !.postponed = 0]
        /\ o.file = [file EXCEPT !.data = c,
                                 !.synced = IF file.synced < Len(c) THEN file.synced
                                            ELSE Len(c)]
    BY <1>5 DEF Failed
  <2>4. c = file.data \o x
    OBVIOUS
  <2> HIDE DEF x, left, c
  <2>5. o.aof.buf = left /\ o.aof.size = aof.size + j
    BY <1>1, <2>3 DEF Aof
  <2>6. o.file.data = c /\ o.file.synced = file.synced /\ o.file.error = file.error
    BY <1>1, <1>2, <2>2, <2>3
  <2>7. Moves(o, x)
    BY <1>1, <2>1, <2>4, <2>5, <2>6 DEF Moves
  <2> QED
    BY <2>1, <2>7
<1>6. CASE o \in Failures
  <2>1. SubSeq(aof.buf, 1, 0) = <<>>
    BY SubSeqEmpty
  <2>2. Failed(file.data, 0) = Failed(file.data \o SubSeq(aof.buf, 1, 0), 0)
    BY <1>2, <2>1
  <2>3. ASSUME NEW j \in 1..(Len(aof.buf) - 1)
        PROVE  CutOff(file.data \o SubSeq(aof.buf, 1, j), aof.size) = file.data
    <3> DEFINE x == SubSeq(aof.buf, 1, j)
    <3>1. j \in 0..Len(aof.buf)
      BY <1>2
    <3>2. x \in Data /\ Len(x) = j
      BY <1>1, <3>1, PrefixData
    <3> HIDE DEF x
    <3>3. Len(file.data \o x) = Len(file.data) + j
      BY <1>1, <3>2, ConcatData
    <3>4. CutOff(file.data \o x, aof.size) = SubSeq(file.data \o x, 1, Len(file.data))
      BY <1>2, <3>3 DEF CutOff
    <3>5. Len(file.data) \in 0..Len(file.data)
      BY <1>2
    <3>6. SubSeq(file.data \o x, 1, Len(file.data)) = SubSeq(file.data, 1, Len(file.data))
      BY <1>1, <3>2, <3>5, PrefixOfConcat
    <3>7. SubSeq(file.data, 1, Len(file.data)) = file.data
      BY <1>1, <3>5, PrefixData
    <3> QED
      BY <3>4, <3>6, <3>7 DEF x
  <2>4. \E j \in 0..Len(aof.buf) : o = Failed(file.data \o SubSeq(aof.buf, 1, j), j)
    <3>1. /\ 0 \in 0..Len(aof.buf)
          /\ \A j \in 1..(Len(aof.buf) - 1) : j \in 0..Len(aof.buf)
      BY <1>2
    <3>2. \/ o = Failed(file.data, 0)
          \/ \E j \in 1..(Len(aof.buf) - 1) :
                \/ o = Failed(CutOff(file.data \o SubSeq(aof.buf, 1, j), aof.size), 0)
                \/ o = Failed(file.data \o SubSeq(aof.buf, 1, j), j)
      BY <1>1, <1>6 DEF Failures
    <3> QED
      BY <2>2, <2>3, <3>1, <3>2
  <2> QED
    BY <1>5, <2>4
<1> QED
  BY <1>3, <1>4, <1>6 DEF Outcomes

\* So together they hold what they held, and what was synced stays so.
LEMMA OutcomeKeeps ==
    ASSUME Shape, aof.state = "on", aof.size = Len(file.data), NEW o \in Outcomes
    PROVE  /\ o.file.data \o o.aof.buf = file.data \o aof.buf
           /\ o.aof.size = Len(o.file.data)
           /\ SyncedWrites \subseteq Range(SubSeq(o.file.data, 1, o.file.synced))
           /\ ~o.file.error => ~file.error
           /\ o \in Written /\ policy = "always" =>
                /\ o.aof.buf = <<>>
                /\ ~o.file.error =>
                     Range(aof.buf) \subseteq Range(SubSeq(o.file.data, 1, o.file.synced))
<1>0. PICK x \in Data : Moves(o, x)
  BY OutcomeMoves
<1>1. /\ o.aof.buf \in Data /\ aof.buf = x \o o.aof.buf
      /\ o.file.data = file.data \o x
      /\ o.aof.size = Len(file.data) + Len(x)
      /\ o.file.synced >= file.synced /\ (~o.file.error => ~file.error)
  BY <1>0 DEF Moves
<1>2. file.data \in Data /\ aof.buf \in Data /\ file.synced \in 0..Len(file.data)
  BY DEF Shape, TypeOK, Aof
<1>3. o.file.data \in Data /\ Len(o.file.data) = Len(file.data) + Len(x)
  <2>1. file.data \o x \in Data /\ Len(file.data \o x) = Len(file.data) + Len(x)
    BY <1>2, ConcatData
  <2> QED
    BY <1>1, <2>1
<1>4. (file.data \o x) \o o.aof.buf = file.data \o (x \o o.aof.buf)
  BY <1>1, <1>2, Assoc
<1>5. o.file.synced \in 0..Len(o.file.data)
  BY OutcomeTyped
<1>6. SubSeq(file.data, 1, file.synced) = SubSeq(o.file.data, 1, file.synced)
  BY <1>1, <1>2, PrefixOfConcat
<1>7. file.synced \in 0..o.file.synced
  BY <1>1, <1>2, <1>5
<1>8. SyncedWrites \subseteq Range(SubSeq(o.file.data, 1, o.file.synced))
  BY <1>3, <1>5, <1>6, <1>7, PrefixRange DEF SyncedWrites
<1>9. ASSUME o \in Written, policy = "always"
      PROVE  o.aof.buf = <<>>
  <2>1. PICK f \in FilesWritten : o = AllWritten(f)
    BY <1>9 DEF Written
  <2> QED
    BY <2>1 DEF AllWritten, Shape, TypeOK, Aof
<1>10. ASSUME o \in Written, policy = "always", ~o.file.error
       PROVE  Range(aof.buf) \subseteq Range(SubSeq(o.file.data, 1, o.file.synced))
  <2> DEFINE s == file.data \o aof.buf
             all == [file EXCEPT !.data = s]
  <2>1. s \in Data /\ Len(s) = Len(file.data) + Len(aof.buf)
    BY <1>2, ConcatData
  <2>2. Range(s) = Range(file.data) \cup Range(aof.buf)
    BY <1>2, RangeConcatenation DEF Data
  <2>3. o.file \in Syncs(all)
    <3>1. PICK f \in FilesWritten : o = AllWritten(f)
      BY <1>10 DEF Written
    <3> QED
      BY <1>10, <3>1 DEF FilesWritten, AllWritten, Shape
  <2> HIDE DEF s
  <2>4. /\ all \in [data : Data, synced : Nat, error : BOOLEAN] /\ all.data = s
        /\ all.synced \in 0..Len(all.data)
    <3>1. Len(file.data) \in Nat /\ Len(aof.buf) \in Nat
      BY <1>2, EmptyData
    <3> QED
      BY <1>2, <2>1, <3>1 DEF Shape
  <2> HIDE DEF all
  <2>5. o.file.data = s /\ o.file.synced = Len(o.file.data)
    BY <1>10, <2>3, <2>4, SyncsFile
  <2>6. SubSeq(o.file.data, 1, o.file.synced) = o.file.data
    BY <1>3, <1>5, <2>5, PrefixData
  <2> QED
    BY <2>2, <2>5, <2>6
<1> QED
  BY <1>1, <1>3, <1>4, <1>8, <1>9, <1>10

\* What beforeSleep and serverCron do: nothing, one outcome of a flush, or the
\* end of the process after it. With appendfsync always there is no other.
FlushDone ==
    \/ /\ aof.buf = <<>> /\ UNCHANGED <<process, append, bgsave>>
    \/ \E o \in Outcomes :
          /\ Becomes(o)
          /\ \/ /\ UNCHANGED <<process, rewrite, bgsave>>
                /\ policy = "always" => o \in Written
             \/ Ends("down")

LEMMA WrittenFsyncs ==
    ASSUME Shape, NEW o \in Written
    PROVE  o.fsyncs \in Seq({"current", "old"})
<1>1. <<"current">> \in Seq({"current", "old"}) /\ <<"old">> \in Seq({"current", "old"})
  OBVIOUS
<1>3. PICK f \in FilesWritten : o = AllWritten(f)
  BY DEF Written
<1>2. o.fsyncs \in {<<"current">>, <<"old">>, fsyncs}
  BY <1>3 DEF AllWritten
<1> QED
  BY <1>1, <1>2 DEF Shape, TypeOK

LEMMA FailuresFsyncs ==
    ASSUME NEW o \in Failures
    PROVE  o.fsyncs = fsyncs
<1>1. \E c, k : o = Failed(c, k)
  BY DEF Failures
<1> QED
  BY <1>1 DEF Failed

LEMMA FlushCases ==
    ASSUME Shape, Flush(FALSE)
    PROVE  /\ FlushDone
           /\ fsyncs' \in Seq({"current", "old"}) /\ count' \in [Events -> Nat]
<1>1. fsyncs \in Seq({"current", "old"}) /\ count \in [Events -> Nat]
  BY DEF Shape, TypeOK
<1>2. \A o \in Written : o.fsyncs \in Seq({"current", "old"})
  BY WrittenFsyncs
<1>3. <<>> \in Seq({"current", "old"})
  OBVIOUS
<1>4. ASSUME NEW e \in Events, Happens(e) PROVE count' \in [Events -> Nat]
  BY <1>1, <1>4 DEF Happens
<1>5. "fault" \in Events
  BY DEF Events
<1>6. CASE aof.buf = <<>> /\ UNCHANGED <<process, append, bgsave, count>>
  BY <1>1, <1>6 DEF FlushDone, append
<1>7. CASE /\ aof.buf # <<>> /\ Postpones /\ Becomes(Postponed)
           /\ UNCHANGED <<process, fsyncs, rewrite, bgsave, count>>
  BY <1>1, <1>7 DEF FlushDone, Outcomes, Postpones
<1>8. CASE /\ aof.buf # <<>>
           /\ \E outcome \in Written : Becomes(outcome) /\ fsyncs' = outcome.fsyncs
           /\ UNCHANGED <<process, rewrite, bgsave, count>>
  <2>1. PICK o \in Written : Becomes(o) /\ fsyncs' = o.fsyncs
    BY <1>8
  <2> QED
    BY <1>1, <1>2, <1>8, <2>1 DEF FlushDone, Outcomes
<1>9. CASE /\ aof.buf # <<>>
           /\ IF aof.fd = "open" THEN Happens("fault") ELSE UNCHANGED count
           /\ \E outcome \in Failures : Becomes(outcome)
           /\ IF GivesUp THEN Ends("down")
              ELSE UNCHANGED <<process, fsyncs, rewrite, bgsave>>
  <2>1. count' \in [Events -> Nat]
    BY <1>1, <1>4, <1>5, <1>9
  <2>2. fsyncs' \in Seq({"current", "old"})
    BY <1>1, <1>3, <1>9 DEF Ends
  <2>3. PICK o \in Failures : Becomes(o)
    BY <1>9
  <2>4. \/ policy # "always" /\ UNCHANGED <<process, rewrite, bgsave>>
        \/ Ends("down")
    BY <1>9 DEF GivesUp
  <2>5. o \in Outcomes
    BY DEF Outcomes
  <2> QED
    BY <2>1, <2>2, <2>3, <2>4, <2>5 DEF FlushDone
<1> QED
  BY <1>6, <1>7, <1>8, <1>9 DEF Flush

LEMMA FlushTyped ==
    ASSUME Shape, FlushDone, process = "up"
    PROVE  /\ aof' \in Aof /\ file' \in [data : Data, synced : Nat, error : BOOLEAN]
           /\ file'.synced \in 0..Len(file'.data)
           /\ process' \in {"up", "down"} /\ aof'.state = aof.state
           /\ aof'.fd = aof.fd
           /\ process' = "up" => rewrite' = rewrite /\ bgsave' = bgsave
           /\ process' # "up" => rewrite' = None /\ bgsave' = None
<1>1. CASE aof.buf = <<>> /\ UNCHANGED <<process, append, bgsave>>
  BY <1>1 DEF Shape, TypeOK, append
<1>2. CASE \E o \in Outcomes :
             /\ Becomes(o)
             /\ \/ UNCHANGED <<process, rewrite, bgsave>>
                \/ Ends("down")
  <2>1. PICK o \in Outcomes :
             /\ Becomes(o)
             /\ \/ UNCHANGED <<process, rewrite, bgsave>>
                \/ Ends("down")
    BY <1>2
  <2>2. /\ o.aof \in Aof /\ o.aof.state = aof.state /\ o.aof.fd = aof.fd
        /\ o.file \in [data : Data, synced : Nat, error : BOOLEAN]
        /\ o.file.synced \in 0..Len(o.file.data)
    BY OutcomeTyped
  <2>3. aof' = o.aof /\ file' = o.file
    BY <2>1 DEF Becomes
  <2>4. /\ process' \in {"up", "down"}
        /\ process' = "up" => rewrite' = rewrite /\ bgsave' = bgsave
        /\ process' # "up" => rewrite' = None /\ bgsave' = None
    BY <2>1 DEF Ends
  <2> QED
    BY <2>2, <2>3, <2>4
<1> QED
  BY <1>1, <1>2 DEF FlushDone

LEMMA FlushKeeps ==
    ASSUME Shape, FlushDone, process = "up", aof.state = "on", aof.size = Len(file.data)
    PROVE  /\ file'.data \o aof'.buf = file.data \o aof.buf
           /\ aof'.size = Len(file'.data)
           /\ SyncedWrites \subseteq SyncedWrites'
           /\ ~file'.error => ~file.error
           /\ policy = "always" /\ process' = "up" =>
                /\ aof'.buf = <<>>
                /\ ~file'.error => Range(aof.buf) \subseteq SyncedWrites'
<1>1. CASE aof.buf = <<>> /\ UNCHANGED <<process, append, bgsave>>
  <2>1. Range(<<>>) = {}
    BY DEF Range
  <2> QED
    BY <1>1, <2>1 DEF append, SyncedWrites
<1>2. CASE \E o \in Outcomes :
             /\ Becomes(o)
             /\ \/ /\ UNCHANGED <<process, rewrite, bgsave>>
                   /\ policy = "always" => o \in Written
                \/ Ends("down")
  <2>1. PICK o \in Outcomes :
             /\ Becomes(o)
             /\ \/ /\ UNCHANGED <<process, rewrite, bgsave>>
                   /\ policy = "always" => o \in Written
                \/ Ends("down")
    BY <1>2
  <2>2. /\ o.file.data \o o.aof.buf = file.data \o aof.buf
        /\ o.aof.size = Len(o.file.data)
        /\ SyncedWrites \subseteq Range(SubSeq(o.file.data, 1, o.file.synced))
        /\ ~o.file.error => ~file.error
        /\ o \in Written /\ policy = "always" =>
             /\ o.aof.buf = <<>>
             /\ ~o.file.error =>
                  Range(aof.buf) \subseteq Range(SubSeq(o.file.data, 1, o.file.synced))
    BY OutcomeKeeps
  <2>3. aof' = o.aof /\ file' = o.file
    BY <2>1 DEF Becomes
  <2>4. SyncedWrites' = Range(SubSeq(o.file.data, 1, o.file.synced))
    BY <2>3 DEF SyncedWrites
  <2>5. policy = "always" /\ process' = "up" => o \in Written
    BY <2>1 DEF Ends
  <2> QED
    BY <2>2, <2>3, <2>4, <2>5
<1> QED
  BY <1>1, <1>2 DEF FlushDone

-----------------------------------------------------------------------------
(* Shape: one lemma for the steps of each part of the server *)

LEMMA HappensTyped ==
    ASSUME Shape, NEW e \in Events, Happens(e)
    PROVE  count' \in [Events -> Nat] /\ count'[e] \in Nat
<1>1. count \in [Events -> Nat] /\ count' = [count EXCEPT ![e] = @ + 1]
  BY DEF Shape, TypeOK, Happens
<1> QED
  BY <1>1

LEMMA WriteShape ==
    ASSUME Shape, Write
    PROVE  Shape' /\ count'["write"] \in Nat
<1> DEFINE w == count'["write"]
<1>1. count' \in [Events -> Nat] /\ w \in Nat
  <2>1. "write" \in Events
    BY DEF Events
  <2> QED
    BY <2>1, HappensTyped DEF Write
<1>2. /\ aof \in Aof /\ aof.buf \in Data /\ data \in Data
      /\ rewrite # None => rewrite \in Rewrite /\ rewrite.buf \in Data
  BY DEF Shape, TypeOK, Aof, Rewrite
<1> HIDE DEF w
<1>3. /\ Append(data, w) \in Data /\ Append(aof.buf, w) \in Data
      /\ rewrite # None => Append(rewrite.buf, w) \in Data
  BY <1>1, <1>2, AppendData
<1>4. /\ data' = Append(data, w) /\ executed' = executed \cup {w}
      /\ replies' = replies \cup {w} /\ dirty' = dirty + 1 /\ process = "up"
      /\ aof' = IF aof.state = "on" THEN [aof EXCEPT !.buf = Append(aof.buf, w)] ELSE aof
      /\ rewrite' = IF rewrite = None THEN None
                    ELSE [rewrite EXCEPT !.buf = Append(rewrite.buf, w)]
      /\ UNCHANGED <<process, config, acked, file, fsyncs, rdb, saved, bgsave>>
  BY DEF Write, Feed, w
<1>5. aof' \in Aof /\ aof'.state = aof.state /\ aof'.fd = aof.fd
  BY <1>2, <1>3, <1>4 DEF Aof
<1>6. rewrite' \in Rewrite \cup {None}
  BY <1>2, <1>3, <1>4 DEF Rewrite
<1> QED
  BY <1>1, <1>3, <1>4, <1>5, <1>6 DEF Shape, TypeOK, config, w

LEMMA LoopShape ==
    ASSUME Shape, BeforeSleep \/ CronFlush \/ Reply
    PROVE  Shape'
<1>1. CASE BeforeSleep
  <2>1. process = "up" /\ Flush(FALSE)
    BY <1>1 DEF BeforeSleep
  <2>2. /\ aof' \in Aof /\ aof'.state = aof.state /\ aof'.fd = aof.fd
        /\ file' \in [data : Data, synced : Nat, error : BOOLEAN]
        /\ file'.synced \in 0..Len(file'.data)
        /\ process' \in {"up", "down"}
        /\ process' = "up" => rewrite' = rewrite /\ bgsave' = bgsave
        /\ process' # "up" => rewrite' = None /\ bgsave' = None
        /\ fsyncs' \in Seq({"current", "old"}) /\ count' \in [Events -> Nat]
    BY <2>1, FlushCases, FlushTyped
  <2> QED
    BY <1>1, <2>2 DEF Shape, TypeOK, BeforeSleep, config
<1>2. CASE CronFlush
  <2>1. process = "up" /\ Flush(FALSE)
    BY <1>2 DEF CronFlush
  <2>2. /\ aof' \in Aof /\ aof'.state = aof.state /\ aof'.fd = aof.fd
        /\ file' \in [data : Data, synced : Nat, error : BOOLEAN]
        /\ file'.synced \in 0..Len(file'.data)
        /\ process' \in {"up", "down"}
        /\ process' = "up" => rewrite' = rewrite /\ bgsave' = bgsave
        /\ process' # "up" => rewrite' = None /\ bgsave' = None
        /\ fsyncs' \in Seq({"current", "old"}) /\ count' \in [Events -> Nat]
    BY <2>1, FlushCases, FlushTyped
  <2> QED
    BY <1>2, <2>2 DEF Shape, TypeOK, CronFlush, config, memory
<1>3. CASE Reply
  BY <1>3 DEF Shape, TypeOK, Reply, config, append, snapshot
<1> QED
  BY <1>1, <1>2, <1>3

LEMMA FsyncTickShape ==
    ASSUME Shape, Fsync \/ Tick
    PROVE  Shape'
<1>1. CASE Fsync
  <2>1. /\ Tail(fsyncs) \in Seq({"current", "old"})
        /\ Len(file.data) \in Nat
    BY <1>1, HeadTailProperties, EmptyData DEF Shape, TypeOK, Fsync
  <2>2. PICK n \in file.synced..Len(file.data) :
             file' = file \/ file' = [file EXCEPT !.synced = n]
    BY <1>1 DEF Fsync
  <2>3. n \in 0..Len(file.data)
    BY <2>1 DEF Shape, TypeOK
  <2>4. /\ file' \in [data : Data, synced : Nat, error : BOOLEAN] /\ file'.data \in Data
        /\ file'.synced \in 0..Len(file'.data) /\ file'.error \in BOOLEAN
    BY <2>2, <2>3 DEF Shape, TypeOK
  <2> QED
    BY <1>1, <2>1, <2>4 DEF Shape, TypeOK, Fsync, config, memory, snapshot
<1>2. CASE Tick
  <2> DEFINE due == policy = "everysec"
             postponed == IF aof.postponed \in {1, 2} THEN aof.postponed + 1
                          ELSE aof.postponed
  <2>1. aof' \in Aof /\ aof'.state = aof.state /\ aof'.fd = aof.fd
    <3>1. aof \in Aof /\ aof.postponed \in 0..3
      BY DEF Shape, TypeOK, Aof
    <3>2. due \in BOOLEAN /\ postponed \in 0..3
      BY <3>1
    <3>3. aof' = [aof EXCEPT !.due = due, !.postponed = postponed]
      BY <1>2 DEF Tick
    <3> HIDE DEF due, postponed
    <3> QED
      BY <3>1, <3>2, <3>3 DEF Aof
  <2> QED
    BY <1>2, <2>1 DEF Shape, TypeOK, Tick, config, memory, snapshot
<1> QED
  BY <1>1, <1>2

LEMMA StartShape ==
    ASSUME Shape, \/ Bgrewriteaof \/ StartScheduled \/ StartAppendOnly
           \/ StartAppendOnlyFails
    PROVE  Shape'
<1>1. NewRewrite \in Rewrite
  BY EmptyData DEF Shape, TypeOK, NewRewrite, Rewrite
<1>2. rewrite' \in Rewrite \cup {None}
  BY <1>1 DEF Shape, TypeOK, Bgrewriteaof, StartScheduled, StartAppendOnly,
                StartAppendOnlyFails, StartRewrite
<1>3. aof' \in Aof /\ (aof'.state # "off" => aof'.fd = "open")
  <2>1. aof \in Aof /\ (aof.state # "off" => aof.fd = "open")
    BY DEF Shape, TypeOK
  <2>2. CASE Bgrewriteaof
    BY <2>1, <2>2 DEF Bgrewriteaof, Aof
  <2>3. CASE StartScheduled
    BY <2>1, <2>3 DEF StartScheduled, Aof
  <2>4. CASE StartAppendOnly
    BY <2>1, <2>4 DEF StartAppendOnly, Aof
  <2>5. CASE StartAppendOnlyFails
    <3>1. PICK fd \in {"none", "closed"} : aof' = [aof EXCEPT !.fd = fd, !.due = FALSE]
      BY <2>5 DEF StartAppendOnlyFails
    <3> QED
      BY <2>1, <2>5, <3>1 DEF StartAppendOnlyFails, Aof
  <2> QED
    BY <2>2, <2>3, <2>4, <2>5
<1>4. count' \in [Events -> Nat]
  <2>1. "rewrite" \in Events /\ "config" \in Events
    BY DEF Events
  <2> QED
    BY <2>1, HappensTyped
       DEF Bgrewriteaof, StartScheduled, StartAppendOnly, StartAppendOnlyFails, Shape,
           TypeOK
<1> QED
  BY <1>2, <1>3, <1>4
     DEF Shape, TypeOK, Bgrewriteaof, StartScheduled, StartAppendOnly,
         StartAppendOnlyFails, config, memory, snapshot

LEMMA ChildShape ==
    ASSUME Shape,
           SendDiff \/ ReadDiff \/ AskToStop \/ StopSending \/ ChildEnds \/ ChildFails
    PROVE  Shape'
<1>1. /\ rewrite \in Rewrite /\ process = "up"
      /\ rewrite.pipe \in Data /\ rewrite.buf \in Data /\ rewrite.diff \in Data
  BY DEF Shape, TypeOK, SendDiff, ReadDiff, AskToStop, StopSending, ChildEnds,
         ChildFails, Child, Rewrite
<1>2. /\ rewrite.pipe \o rewrite.buf \in Data /\ rewrite.diff \o rewrite.pipe \in Data
      /\ <<>> \in Data
  BY <1>1, ConcatData, EmptyData
<1>3. rewrite' \in Rewrite
  BY <1>1, <1>2
     DEF SendDiff, ReadDiff, AskToStop, StopSending, ChildEnds, ChildFails,
         ChildStep, Rewrite
<1>4. count' \in [Events -> Nat]
  <2>1. "fault" \in Events
    BY DEF Events
  <2> QED
    BY <2>1, HappensTyped
       DEF SendDiff, ReadDiff, AskToStop, StopSending, ChildEnds, ChildFails,
           Shape, TypeOK
<1>5. UNCHANGED <<process, config, memory, aof, file, fsyncs, snapshot>>
  BY DEF SendDiff, ReadDiff, AskToStop, StopSending, ChildEnds, ChildFails, ChildStep
<1> QED
  BY <1>1, <1>3, <1>4, <1>5 DEF Shape, TypeOK, config, memory, snapshot

\* What a rewrite that is done leaves: the file of the child, as one whole.
LEMMA RewriteDoneFile ==
    ASSUME Shape, RewriteDone
    PROVE  LET all == rewrite.base \o rewrite.diff \o rewrite.buf
           IN /\ all \in Data /\ Len(all) \in Nat
              /\ file' \in [data : Data, synced : Nat, error : BOOLEAN]
              /\ file'.data = all /\ file'.synced \in 0..Len(all)
              /\ policy = "always" /\ aof.fd # "none" /\ ~file'.error =>
                    file'.synced = Len(all)
<1> DEFINE written == rewrite.base \o rewrite.diff
           all == written \o rewrite.buf
           new == [data |-> all, synced |-> Len(written), error |-> FALSE]
<1>1. /\ rewrite \in Rewrite
      /\ rewrite.base \in Data /\ rewrite.buf \in Data /\ rewrite.diff \in Data
  BY DEF Shape, TypeOK, RewriteDone, Child, Rewrite
<1>2. /\ Len(written) \in Nat /\ all \in Data
      /\ Len(all) \in Nat /\ Len(written) <= Len(all)
  <2>1. written \in Data
    BY <1>1, ConcatData
  <2> HIDE DEF written
  <2>2. /\ all \in Data /\ Len(written) \in Nat /\ Len(rewrite.buf) \in Nat
        /\ Len(all) = Len(written) + Len(rewrite.buf)
    BY <1>1, <2>1, ConcatData, EmptyData
  <2> HIDE DEF all
  <2> QED
    BY <2>1, <2>2
<1>3. \/ aof.fd = "none" /\ file' = new
      \/ aof.fd # "none" /\ policy = "always" /\ file' \in Syncs(new)
      \/ aof.fd # "none" /\ policy # "always" /\ file' = new
  BY DEF RewriteDone
<1> HIDE DEF written, all
<1>4. /\ new \in [data : Data, synced : Nat, error : BOOLEAN] /\ new.data = all
      /\ new.synced \in 0..Len(new.data)
  BY <1>2
<1> HIDE DEF new
<1>5. /\ file' \in [data : Data, synced : Nat, error : BOOLEAN]
      /\ file'.data = all /\ file'.synced \in 0..Len(all)
      /\ policy = "always" /\ aof.fd # "none" /\ ~file'.error => file'.synced = Len(all)
  BY <1>3, <1>4, SyncsFile
<1> QED
  BY <1>2, <1>5 DEF all, written

LEMMA RewriteDoneShape ==
    ASSUME Shape, RewriteDone
    PROVE  Shape'
<1> DEFINE all == rewrite.base \o rewrite.diff \o rewrite.buf
           old == [i \in DOMAIN fsyncs |-> "old"]
<1>1. /\ process = "up" /\ aof \in Aof /\ (aof.state # "off" => aof.fd = "open")
      /\ fsyncs \in Seq({"current", "old"})
  BY DEF Shape, TypeOK, RewriteDone, Child
<1>2. /\ all \in Data /\ Len(all) \in Nat
      /\ file' \in [data : Data, synced : Nat, error : BOOLEAN]
      /\ file'.data = all /\ file'.synced \in 0..Len(all)
  BY RewriteDoneFile
<1>3. old \in Seq({"current", "old"}) /\ Append(old, "current") \in Seq({"current", "old"})
  <2>1. Len(fsyncs) \in Nat /\ DOMAIN fsyncs = 1..Len(fsyncs)
    BY <1>1, LenProperties
  <2> QED
    BY <2>1
<1>4. /\ \/ aof' = aof /\ fsyncs' = old
         \/ /\ aof' = [aof EXCEPT !.state = IF @ = "wait" THEN "on" ELSE @,
                                   !.fd = "open", !.buf = <<>>, !.size = Len(all)]
            /\ fsyncs' = IF policy = "everysec" THEN Append(old, "current") ELSE old
      /\ rewrite' = None
      /\ UNCHANGED <<process, config, memory, snapshot, count>>
  BY DEF RewriteDone
<1> HIDE DEF all, old
<1>5. <<>> \in Data
  BY DEF Data
<1>6. aof' \in Aof /\ (aof'.state # "off" => aof'.fd = "open")
  BY <1>1, <1>2, <1>4, <1>5 DEF Aof
<1>7. file'.data \in Data /\ file'.synced \in 0..Len(file'.data) /\ file'.error \in BOOLEAN
  BY <1>2
<1>8. fsyncs' \in Seq({"current", "old"})
  BY <1>3, <1>4
<1> QED
  BY <1>1, <1>2, <1>4, <1>6, <1>7, <1>8 DEF Shape, TypeOK, config, memory, snapshot

LEMMA RewriteFailedShape ==
    ASSUME Shape, RewriteFailed
    PROVE  Shape'
<1>1. aof' \in Aof /\ aof'.state = aof.state /\ aof'.fd = aof.fd
  <2> DEFINE scheduled == aof.scheduled \/ aof.state = "wait"
  <2>1. aof \in Aof /\ aof' = [aof EXCEPT !.scheduled = scheduled]
    BY DEF Shape, TypeOK, RewriteFailed
  <2>2. scheduled \in BOOLEAN
    BY <2>1 DEF Aof
  <2> HIDE DEF scheduled
  <2> QED
    BY <2>1, <2>2 DEF Aof
<1>2. count' \in [Events -> Nat]
  <2>1. "fault" \in Events
    BY DEF Events
  <2> QED
    BY <2>1, HappensTyped DEF RewriteFailed, Shape, TypeOK
<1>3. process = "up"
  BY DEF RewriteFailed, Child
<1> QED
  BY <1>1, <1>2, <1>3 DEF Shape, TypeOK, RewriteFailed, config, memory, snapshot

\* stopAppendOnly ends with what a flush left, or with what there was.
LEMMA StopOutcome ==
    ASSUME Shape, StopAppendOnly
    PROVE  \E a \in Aof, f \in [data : Data, synced : Nat, error : BOOLEAN],
              s \in Seq({"current", "old"}) :
                 /\ f.synced \in 0..Len(f.data)
                 /\ aof' = [a EXCEPT !.state = "off", !.fd = "none"]
                 /\ file' \in Syncs(f)
                 /\ fsyncs' = [i \in DOMAIN s |-> "old"]
<1> DEFINE kept == [aof |-> aof, file |-> file, fsyncs |-> fsyncs]
<1>1. PICK o \in {kept} \cup Written \cup Failures :
         /\ aof' = [o.aof EXCEPT !.state = "off", !.fd = "none"]
         /\ file' \in Syncs(o.file)
         /\ fsyncs' = [i \in DOMAIN o.fsyncs |-> "old"]
  BY DEF StopAppendOnly
<1>2. /\ aof \in Aof /\ file \in [data : Data, synced : Nat, error : BOOLEAN]
      /\ file.synced \in 0..Len(file.data) /\ fsyncs \in Seq({"current", "old"})
  BY DEF Shape, TypeOK
<1>3. /\ o.aof \in Aof /\ o.file \in [data : Data, synced : Nat, error : BOOLEAN]
      /\ o.file.synced \in 0..Len(o.file.data)
  <2>1. CASE o = kept
    BY <1>2, <2>1
  <2>2. CASE o \in Written \cup Failures
    BY <2>2, OutcomeTyped DEF Outcomes
  <2> QED
    BY <2>1, <2>2
<1>4. o.fsyncs \in Seq({"current", "old"})
  <2>1. CASE o = kept
    BY <1>2, <2>1
  <2>2. CASE o \in Written
    BY <2>2, WrittenFsyncs
  <2>3. CASE o \in Failures
    BY <1>2, <2>3, FailuresFsyncs
  <2> QED
    BY <2>1, <2>2, <2>3
<1> QED
  BY <1>1, <1>3, <1>4

LEMMA StopShape ==
    ASSUME Shape, StopAppendOnly
    PROVE  Shape' /\ aof'.state = "off"
<1>1. PICK a \in Aof, f \in [data : Data, synced : Nat, error : BOOLEAN],
           s \in Seq({"current", "old"}) :
              /\ f.synced \in 0..Len(f.data)
              /\ aof' = [a EXCEPT !.state = "off", !.fd = "none"]
              /\ file' \in Syncs(f)
              /\ fsyncs' = [i \in DOMAIN s |-> "old"]
  BY StopOutcome
<1>2. aof' \in Aof /\ aof'.state = "off"
  BY <1>1 DEF Aof
<1>3. /\ file' \in [data : Data, synced : Nat, error : BOOLEAN] /\ file'.data \in Data
      /\ file'.synced \in 0..Len(file'.data) /\ file'.error \in BOOLEAN
  BY <1>1, SyncsFile
<1>4. fsyncs' \in Seq({"current", "old"})
  <2>1. Len(s) \in Nat /\ DOMAIN s = 1..Len(s)
    BY LenProperties
  <2> QED
    BY <1>1, <2>1
<1>5. count' \in [Events -> Nat]
  <2>1. "config" \in Events
    BY DEF Events
  <2> QED
    BY <2>1, HappensTyped DEF StopAppendOnly
<1> QED
  BY <1>2, <1>3, <1>4, <1>5
     DEF Shape, TypeOK, StopAppendOnly, config, memory, snapshot

\* When the flush makes the process exit, that is one of the ends of a flush.
LEMMA StopExits ==
    ASSUME Shape, StopAppendOnlyExits
    PROVE  /\ FlushDone /\ process = "up" /\ process' = "down"
           /\ UNCHANGED <<policy, data, executed, replies, acked>>
<1>1. PICK o \in Failures : Becomes(o)
  BY DEF StopAppendOnlyExits
<1>2. o \in Outcomes
  BY DEF Outcomes
<1> QED
  BY <1>1, <1>2 DEF StopAppendOnlyExits, FlushDone, Ends, config, memory

LEMMA StopExitsShape ==
    ASSUME Shape, StopAppendOnlyExits
    PROVE  Shape'
<1>1. /\ aof' \in Aof /\ aof'.state = aof.state /\ aof'.fd = aof.fd
      /\ file' \in [data : Data, synced : Nat, error : BOOLEAN]
      /\ file'.synced \in 0..Len(file'.data)
      /\ process' = "down" /\ rewrite' = None /\ bgsave' = None
  BY StopExits, FlushTyped
<1>2. count' \in [Events -> Nat]
  <2>1. "config" \in Events
    BY DEF Events
  <2> QED
    BY <2>1, HappensTyped DEF StopAppendOnlyExits
<1>3. fsyncs' = <<>> /\ <<>> \in Seq({"current", "old"})
  BY DEF StopAppendOnlyExits, Ends
<1>4. UNCHANGED <<config, memory, rdb, dirty, saved>>
  BY DEF StopAppendOnlyExits
<1> QED
  BY <1>1, <1>2, <1>3, <1>4 DEF Shape, TypeOK, config, memory

\* Here the count of changes must not get negative.
LEMMA SavingShape ==
    ASSUME Shape, Counted, Saving
    PROVE  Shape'
<1>1. "bgsave" \in Events /\ "fault" \in Events
  BY DEF Events
<1>2. count' \in [Events -> Nat] /\ process = "up"
  BY <1>1, HappensTyped
     DEF Saving, StartBgsave, Save, BgsaveEnds, BgsaveDone, Shape, TypeOK
<1>3. CASE StartBgsave
  <2>2. dirty \in Nat /\ data \in Data /\ bgsave = None /\ saved \in BOOLEAN
    BY <1>3 DEF StartBgsave, Shape, TypeOK
  <2>3. \/ bgsave' = [data |-> data, before |-> dirty, phase |-> "writing"] /\ saved' = saved
        \/ bgsave' = bgsave /\ saved' = FALSE
    BY <1>3 DEF StartBgsave
  <2>4. saved' \in BOOLEAN
    BY <2>2, <2>3, Zenon
  <2>5. bgsave' \in Bgsave \cup {None}
    BY <2>2, <2>3 DEF Bgsave
  <2>1. bgsave' \in Bgsave \cup {None} /\ saved' \in BOOLEAN
    BY <2>4, <2>5
  <2> QED
    BY <1>2, <1>3, <2>1 DEF StartBgsave, Shape, TypeOK, config, memory, append
<1>4. CASE Save
  BY <1>2, <1>4 DEF Save, Shape, TypeOK, config, memory, append
<1>5. CASE BgsaveEnds
  <2>1. bgsave' \in Bgsave /\ rdb' \in Data
    BY <1>5 DEF BgsaveEnds, Shape, TypeOK, Bgsave
  <2> QED
    BY <1>2, <1>5, <2>1 DEF BgsaveEnds, Shape, TypeOK, config, memory, append
<1>6. CASE BgsaveDone
  <2>1. /\ bgsave \in Bgsave /\ bgsave.before \in Nat /\ bgsave.before <= dirty
        /\ dirty \in Nat
    BY <1>6 DEF BgsaveDone, Shape, TypeOK, Bgsave, Counted
  <2>2. dirty' \in Nat
    BY <1>6, <2>1 DEF BgsaveDone
  <2>3. saved' \in BOOLEAN
    BY <1>6 DEF BgsaveDone, Shape, TypeOK
  <2> QED
    BY <1>2, <1>6, <2>2, <2>3 DEF BgsaveDone, Shape, TypeOK, config, memory, append
<1> QED
  BY <1>3, <1>4, <1>5, <1>6 DEF Saving


LEMMA EndShape ==
    ASSUME Shape, Killed \/ PowerFails \/ Shutdown
    PROVE  Shape'
<1>1. /\ process' \in {"down", "shutdown"} /\ rewrite' = None /\ bgsave' = None
      /\ fsyncs' = <<>>
  BY DEF Killed, PowerFails, Shutdown, Ends
<1>2. <<>> \in Seq({"current", "old"})
  OBVIOUS
<1>3. count' \in [Events -> Nat]
  <2>1. "crash" \in Events
    BY DEF Events
  <2> QED
    BY <2>1, HappensTyped DEF Killed, PowerFails, Shutdown
<1>4. /\ file' \in [data : Data, synced : Nat, error : BOOLEAN] /\ file'.data \in Data
      /\ file'.synced \in 0..Len(file'.data) /\ file'.error \in BOOLEAN
  <2>1. /\ file \in [data : Data, synced : Nat, error : BOOLEAN] /\ file.data \in Data
        /\ file.synced \in 0..Len(file.data) /\ Len(file.data) \in Nat
    BY EmptyData DEF Shape, TypeOK
  <2>2. CASE Killed
    BY <2>1, <2>2 DEF Killed
  <2>3. CASE PowerFails
    <3>1. PICK n \in file.synced..Len(file.data) :
             file' = [file EXCEPT !.data = SubSeq(file.data, 1, n), !.synced = n]
      BY <2>3 DEF PowerFails
    <3>2. n \in 0..Len(file.data)
      BY <2>1
    <3> DEFINE front == SubSeq(file.data, 1, n)
    <3>3. front \in Data /\ Len(front) = n
      BY <2>1, <3>2, PrefixData
    <3>4. file' = [file EXCEPT !.data = front, !.synced = n]
      BY <3>1
    <3>5. n \in Nat /\ n \in 0..n
      BY <3>2
    <3> HIDE DEF front
    <3> QED
      BY <2>1, <3>3, <3>4, <3>5
  <2>4. CASE Shutdown
    <3>1. file' = file \/ file' \in Syncs(file)
      BY <2>4 DEF Shutdown
    <3> QED
      BY <2>1, <3>1, SyncsFile
  <2> QED
    BY <2>2, <2>3, <2>4
<1>5. /\ rdb' \in Data /\ dirty' \in Nat /\ saved' \in BOOLEAN
      /\ UNCHANGED <<config, memory, aof>>
  <2>1. rdb \in Data /\ data \in Data /\ dirty \in Nat /\ saved \in BOOLEAN
    BY DEF Shape, TypeOK
  <2>2. CASE Killed
    BY <2>1, <2>2 DEF Killed
  <2>3. CASE PowerFails
    BY <2>1, <2>3 DEF PowerFails
  <2>4. CASE Shutdown
    <3>1. UNCHANGED <<config, memory, aof>>
      BY <2>4 DEF Shutdown
    <3>2. \/ rdb' = data /\ dirty' = 0 /\ saved' = TRUE
          \/ rdb' = rdb /\ dirty' = dirty /\ saved' = saved
      BY <2>4 DEF Shutdown
    <3>3. saved' \in BOOLEAN
      BY <2>1, <3>2, Zenon
    <3>4. rdb' \in Data /\ dirty' \in Nat
      BY <2>1, <3>2
    <3> QED
      BY <3>1, <3>3, <3>4
  <2> QED
    BY <2>2, <2>3, <2>4
<1> QED
  BY <1>1, <1>2, <1>3, <1>4, <1>5 DEF Shape, TypeOK, config, memory

LEMMA ShutdownFailsShape ==
    ASSUME Shape, ShutdownFails
    PROVE  Shape'
<1>1. /\ file \in [data : Data, synced : Nat, error : BOOLEAN] /\ file.data \in Data
      /\ file.synced \in 0..Len(file.data) /\ file.error \in BOOLEAN
      /\ rewrite \in Rewrite \cup {None} /\ bgsave \in Bgsave \cup {None}
  BY DEF Shape, TypeOK
<1>2. file' = file \/ file' \in Syncs(file)
  BY DEF ShutdownFails
<1>3. /\ file' \in [data : Data, synced : Nat, error : BOOLEAN] /\ file'.data \in Data
      /\ file'.synced \in 0..Len(file'.data) /\ file'.error \in BOOLEAN
  BY <1>1, <1>2, SyncsFile
<1>4. rewrite' \in Rewrite \cup {None}
  BY <1>1 DEF ShutdownFails, RewriteKilled, Rewrite
<1>5. bgsave' \in Bgsave \cup {None}
  BY <1>1 DEF ShutdownFails, BgsaveKilled, Bgsave
<1>6. count' \in [Events -> Nat]
  <2>1. "crash" \in Events
    BY DEF Events
  <2> QED
    BY <2>1, HappensTyped DEF ShutdownFails
<1>7. process = "up" /\ UNCHANGED <<process, config, memory, aof, fsyncs, rdb, dirty, saved>>
  BY DEF ShutdownFails
<1> QED
  BY <1>3, <1>4, <1>5, <1>6, <1>7 DEF Shape, TypeOK, config, memory

LEMMA RestartShape ==
    ASSUME Shape, Restart
    PROVE  Shape'
<1>1. /\ file.data \in Data /\ Len(file.data) \in Nat /\ <<>> \in Data /\ rdb \in Data
      /\ conf \in {"off", "on"}
  BY EmptyData DEF Shape, TypeOK
<1>2. aof' \in Aof /\ (aof'.state # "off" => aof'.fd = "open")
  <2> DEFINE size == IF conf = "on" THEN Len(file.data) ELSE 0
  <2>1. size \in Nat /\ 0 \in 0..3
    BY <1>1
  <2>2. aof' = [state |-> conf, buf |-> <<>>, ok |-> TRUE, postponed |-> 0,
                due |-> FALSE, scheduled |-> FALSE,
                fd |-> IF conf = "on" THEN "open" ELSE "none", size |-> size]
    BY DEF Restart
  <2> HIDE DEF size
  <2> QED
    BY <1>1, <2>1, <2>2 DEF Aof
<1>3. data' \in Data /\ dirty' \in Nat /\ saved' = TRUE
  BY <1>1 DEF Restart
<1>4. executed' = {} /\ replies' = {} /\ acked' \subseteq acked /\ process' = "up"
  BY DEF Restart
<1>5. UNCHANGED <<config, fsyncs, rewrite, rdb, bgsave, count>>
  BY DEF Restart, config
<1>6. policy' = policy
  BY <1>5 DEF config
<1>7. /\ file' \in [data : Data, synced : Nat, error : BOOLEAN] /\ file'.data \in Data
      /\ file'.synced \in 0..Len(file'.data) /\ file'.error \in BOOLEAN
  <2>1. file' = [file EXCEPT !.error = FALSE]
    BY DEF Restart
  <2> QED
    BY <2>1 DEF Shape, TypeOK
<1> QED
  BY <1>2, <1>3, <1>4, <1>5, <1>7 DEF Shape, TypeOK, config

LEMMA ShapeStep ==
    ASSUME Shape, Counted, Next
    PROVE  Shape'
<1>1. Rewriting =>
        \/ SendDiff \/ ReadDiff \/ AskToStop \/ StopSending \/ ChildEnds \/ ChildFails
        \/ RewriteDone \/ RewriteFailed
  BY DEF Rewriting
<1> QED
  BY <1>1, WriteShape, LoopShape, FsyncTickShape, StartShape, ChildShape,
     RewriteDoneShape, RewriteFailedShape, StopShape, StopExitsShape, SavingShape,
     EndShape, ShutdownFailsShape, RestartShape
     DEF Next

-----------------------------------------------------------------------------
(* AofKept *)

LEMMA RewriteTyped ==
    ASSUME Shape, rewrite # None
    PROVE  /\ rewrite \in Rewrite
           /\ rewrite.base \in Data /\ rewrite.diff \in Data
           /\ rewrite.pipe \in Data /\ rewrite.buf \in Data
           /\ rewrite.base \o rewrite.diff \in Data
           /\ rewrite.base \o rewrite.diff \o rewrite.pipe \in Data
<1>1. /\ rewrite \in Rewrite
      /\ rewrite.base \in Data /\ rewrite.diff \in Data
      /\ rewrite.pipe \in Data /\ rewrite.buf \in Data
  BY DEF Shape, TypeOK, Rewrite
<1>2. rewrite.base \o rewrite.diff \in Data
  BY <1>1, ConcatData
<1>3. rewrite.base \o rewrite.diff \o rewrite.pipe \in Data
  BY <1>1, <1>2, ConcatData
<1> QED
  BY <1>1, <1>2, <1>3

\* A step that leaves the data and the file alone, and starts no rewrite.
LEMMA AofFrame ==
    ASSUME AofKept, process' = "up" => process = "up",
           data' = data, file' = file, rewrite' = rewrite \/ rewrite' = None,
           aof'.state = "on" => aof.state = "on" /\ aof'.buf = aof.buf
                                /\ aof'.size = aof.size
    PROVE  AofKept'
  BY DEF AofKept, AofComplete

LEMMA WriteAof ==
    ASSUME Shape, AofKept, Write
    PROVE  AofKept'
<1> DEFINE w == count'["write"]
<1>1. w \in Nat
  BY WriteShape
<1>2. aof \in Aof /\ aof.buf \in Data /\ file.data \in Data
  BY DEF Shape, TypeOK, Aof
<1> HIDE DEF w
<1>3. /\ process = "up" /\ process' = "up" /\ data' = Append(data, w) /\ file' = file
      /\ aof' = IF aof.state = "on" THEN [aof EXCEPT !.buf = Append(aof.buf, w)] ELSE aof
      /\ rewrite' = IF rewrite = None THEN None
                    ELSE [rewrite EXCEPT !.buf = Append(rewrite.buf, w)]
  BY DEF Write, Feed, w
<1>4. aof'.state = "on" =>
         /\ aof.state = "on" /\ aof'.size = aof.size
         /\ aof'.buf = Append(aof.buf, w)
  BY <1>2, <1>3 DEF Aof
<1>5. file.data \o Append(aof.buf, w) = Append(file.data \o aof.buf, w)
  BY <1>1, <1>2, AppendData
<1>6. aof'.state = "on" =>
         file'.data \o aof'.buf = data' /\ aof'.size = Len(file'.data)
  BY <1>3, <1>4, <1>5 DEF AofKept, AofComplete
<1>7. ASSUME rewrite # None
      PROVE  /\ rewrite'.phase = rewrite.phase /\ rewrite'.pipe = rewrite.pipe
             /\ rewrite'.base \o rewrite'.diff \o rewrite'.pipe \o rewrite'.buf = data'
  <2> DEFINE front == rewrite.base \o rewrite.diff \o rewrite.pipe
  <2>1. rewrite \in Rewrite /\ front \in Data /\ rewrite.buf \in Data
    BY <1>7, RewriteTyped
  <2>2. front \o Append(rewrite.buf, w) = Append(front \o rewrite.buf, w)
    BY <1>1, <2>1, AppendData
  <2>3. front \o rewrite.buf = data
    BY <1>3, <1>7 DEF AofKept, AofComplete
  <2>4. /\ rewrite'.phase = rewrite.phase /\ rewrite'.pipe = rewrite.pipe
        /\ rewrite'.base = rewrite.base /\ rewrite'.diff = rewrite.diff
        /\ rewrite'.buf = Append(rewrite.buf, w)
    BY <1>3, <1>7, <2>1 DEF Rewrite
  <2>5. rewrite'.base \o rewrite'.diff \o rewrite'.pipe = front
    BY <2>4
  <2> HIDE DEF front
  <2> QED
    BY <1>3, <2>2, <2>3, <2>4, <2>5
<1> QED
  BY <1>3, <1>6, <1>7 DEF AofKept, AofComplete

LEMMA FlushAof ==
    ASSUME Shape, AofKept, process = "up", Flush(FALSE), data' = data
    PROVE  AofKept'
<1>1. /\ FlushDone
      /\ aof'.state = aof.state
      /\ process' = "up" => rewrite' = rewrite
      /\ process' # "up" => rewrite' = None
  BY FlushCases, FlushTyped
<1>2. aof.state = "on" => file.data \o aof.buf = data /\ aof.size = Len(file.data)
  BY DEF AofKept, AofComplete
<1>3. aof.state = "on" => file'.data \o aof'.buf = data' /\ aof'.size = Len(file'.data)
  BY <1>1, <1>2, FlushKeeps
<1> QED
  BY <1>1, <1>3 DEF AofKept, AofComplete

\* A child starts with the data set as it is.
LEMMA NewRewriteAof ==
    ASSUME Shape
    PROVE  LET r == NewRewrite
           IN r.base \o r.diff \o r.pipe \o r.buf = data /\ r.phase = "writing"
<1>1. /\ NewRewrite.base = data /\ NewRewrite.diff = <<>> /\ NewRewrite.pipe = <<>>
      /\ NewRewrite.buf = <<>> /\ NewRewrite.phase = "writing"
  BY DEF NewRewrite
<1>2. data \o <<>> = data
  BY EmptyData DEF Shape, TypeOK
<1> QED
  BY <1>1, <1>2

LEMMA StartAof ==
    ASSUME Shape, AofKept,
           Bgrewriteaof \/ StartScheduled \/ StartAppendOnly \/ StartAppendOnlyFails
    PROVE  AofKept'
<1>1. /\ process = "up" /\ process' = "up" /\ data' = data /\ file' = file
      /\ rewrite' = rewrite \/ rewrite' = NewRewrite
  BY DEF Bgrewriteaof, StartScheduled, StartAppendOnly, StartAppendOnlyFails,
         StartRewrite, memory
<1>2. aof'.state = "on" => /\ aof.state = "on" /\ aof'.buf = aof.buf
                           /\ aof'.size = aof.size
  BY DEF Bgrewriteaof, StartScheduled, StartAppendOnly, StartAppendOnlyFails,
         Shape, TypeOK, Aof
<1>3. CASE rewrite' = rewrite
  BY <1>1, <1>2, <1>3, AofFrame
<1>4. CASE rewrite' = NewRewrite
  <2>1. /\ rewrite'.base \o rewrite'.diff \o rewrite'.pipe \o rewrite'.buf = data'
        /\ rewrite'.phase = "writing"
    BY <1>1, <1>4, NewRewriteAof
  <2> QED
    BY <1>1, <1>2, <2>1 DEF AofKept, AofComplete
<1> QED
  BY <1>1, <1>3, <1>4

\* What goes to the child and into its file changes its place, not its order.
LEMMA ChildAof ==
    ASSUME Shape, AofKept,
           SendDiff \/ ReadDiff \/ AskToStop \/ StopSending \/ ChildEnds \/ ChildFails
    PROVE  AofKept'
<1>1. /\ process = "up" /\ process' = "up" /\ rewrite # None
      /\ data' = data /\ file' = file /\ aof' = aof
  BY DEF SendDiff, ReadDiff, AskToStop, StopSending, ChildEnds, ChildFails,
         ChildStep, Child, memory
<1> DEFINE b == rewrite.base
           d == rewrite.diff
           p == rewrite.pipe
           q == rewrite.buf
<1>2. /\ rewrite \in Rewrite /\ b \in Data /\ d \in Data /\ p \in Data /\ q \in Data
      /\ b \o d \in Data /\ b \o d \o p \in Data
  BY <1>1, RewriteTyped
<1>3. b \o d \o p \o q = data
  BY <1>1 DEF AofKept, AofComplete
<1>4. /\ b \o d \o (p \o q) \o <<>> = data
      /\ b \o (d \o p) \o <<>> \o q = data
  <2> HIDE DEF b, d, p, q
  <2>1. Regrouped(b, d, p, q)
    BY <1>2, Regroup
  <2> QED
    BY <1>3, <2>1, Zenon DEF Regrouped
<1>5. CASE SendDiff
  <2>1. rewrite' = [rewrite EXCEPT !.pipe = p \o q, !.buf = <<>>]
    BY <1>5 DEF SendDiff, ChildStep
  <2>2. /\ rewrite'.base = b /\ rewrite'.diff = d /\ rewrite'.pipe = p \o q
        /\ rewrite'.buf = <<>> /\ rewrite'.phase # "ok"
    BY <1>2, <1>5, <2>1 DEF SendDiff, Child, Rewrite
  <2> HIDE DEF b, d, p, q
  <2> QED
    BY <1>1, <1>4, <2>2 DEF AofKept, AofComplete
<1>6. CASE ReadDiff \/ ChildEnds
  <2>1. /\ rewrite'.base = b /\ rewrite'.diff = d \o p /\ rewrite'.pipe = <<>>
        /\ rewrite'.buf = q
    BY <1>2, <1>6 DEF ReadDiff, ChildEnds, ChildStep, Rewrite
  <2> HIDE DEF b, d, p, q
  <2> QED
    BY <1>1, <1>4, <2>1 DEF AofKept, AofComplete
<1>7. CASE AskToStop \/ StopSending \/ ChildFails
  <2>1. /\ rewrite'.base = b /\ rewrite'.diff = d /\ rewrite'.pipe = p
        /\ rewrite'.buf = q /\ rewrite'.phase # "ok"
    BY <1>2, <1>7 DEF AskToStop, StopSending, ChildFails, ChildStep, Rewrite
  <2> HIDE DEF b, d, p, q
  <2> QED
    BY <1>1, <1>3, <2>1 DEF AofKept, AofComplete
<1> QED
  BY <1>5, <1>6, <1>7

\* The file that a child leaves has the data set.
LEMMA RewrittenData ==
    ASSUME Shape, AofKept, RewriteDone
    PROVE  rewrite.base \o rewrite.diff \o rewrite.buf = data
<1>1. rewrite # None /\ process = "up" /\ rewrite.phase = "ok"
  BY DEF RewriteDone, Child
<1>2. /\ rewrite.base \o rewrite.diff \o rewrite.pipe \o rewrite.buf = data
      /\ rewrite.pipe = <<>>
  BY <1>1 DEF AofKept, AofComplete
<1>3. (rewrite.base \o rewrite.diff) \o <<>> = rewrite.base \o rewrite.diff
  BY <1>1, RewriteTyped, EmptyData
<1> QED
  BY <1>2, <1>3

LEMMA RewriteDoneAof ==
    ASSUME Shape, AofKept, RewriteDone
    PROVE  AofKept'
<1>1. file'.data = data /\ data \in Data
  <2>1. file'.data = rewrite.base \o rewrite.diff \o rewrite.buf
    BY RewriteDoneFile
  <2> QED
    BY <2>1, RewrittenData DEF Shape, TypeOK
<1>2. /\ \/ aof.fd = "none" /\ aof' = aof
         \/ aof' = [aof EXCEPT !.state = IF @ = "wait" THEN "on" ELSE @, !.fd = "open",
                               !.buf = <<>>, !.size = Len(data)]
      /\ rewrite' = None /\ data' = data /\ process' = process
  <2> DEFINE all == rewrite.base \o rewrite.diff \o rewrite.buf
  <2>1. /\ \/ aof.fd = "none" /\ aof' = aof
           \/ aof' = [aof EXCEPT !.state = IF @ = "wait" THEN "on" ELSE @, !.fd = "open",
                                 !.buf = <<>>, !.size = Len(all)]
        /\ rewrite' = None /\ data' = data /\ process' = process
    BY DEF RewriteDone, memory
  <2>2. all = data
    BY RewrittenData
  <2> HIDE DEF all
  <2> QED
    BY <2>1, <2>2
<1>3. aof'.state = "on" => aof'.buf = <<>> /\ aof'.size = Len(data)
  BY <1>2 DEF Shape, TypeOK, Aof
<1>4. data \o <<>> = data
  BY <1>1, EmptyData
<1> QED
  BY <1>1, <1>2, <1>3, <1>4 DEF AofKept, AofComplete

LEMMA StopAof ==
    ASSUME Shape, StopAppendOnly
    PROVE  AofKept'
<1>1. aof'.state = "off" /\ rewrite' = None
  BY StopShape DEF StopAppendOnly
<1> QED
  BY <1>1 DEF AofKept, AofComplete

\* A child that is killed keeps what it had.
LEMMA ShutdownFailsAof ==
    ASSUME Shape, AofKept, ShutdownFails
    PROVE  AofKept'
<1>1. /\ process = "up" /\ UNCHANGED <<process, data, aof>>
      /\ rewrite' = rewrite \/ rewrite' = RewriteKilled
      /\ file' = file \/ file' \in Syncs(file)
  BY DEF ShutdownFails, memory
<1>2. file'.data = file.data
  BY <1>1, SyncsFile DEF Shape, TypeOK
<1>3. rewrite' # None =>
         /\ rewrite # None
         /\ rewrite'.base = rewrite.base /\ rewrite'.diff = rewrite.diff
         /\ rewrite'.pipe = rewrite.pipe /\ rewrite'.buf = rewrite.buf
         /\ rewrite'.phase = "ok" => rewrite.phase = "ok"
  BY <1>1 DEF RewriteKilled, Shape, TypeOK, Rewrite
<1>4. rewrite' # None =>
         rewrite'.base \o rewrite'.diff \o rewrite'.pipe \o rewrite'.buf
            = rewrite.base \o rewrite.diff \o rewrite.pipe \o rewrite.buf
  BY <1>3
<1> QED
  BY <1>1, <1>2, <1>3, <1>4 DEF AofKept, AofComplete

LEMMA RestartAof ==
    ASSUME Shape, Restart
    PROVE  AofKept'
<1>1. rewrite' = None
  BY DEF Restart, Shape
<1>2. /\ aof'.state = conf /\ aof'.buf = <<>> /\ file'.data = file.data
      /\ conf = "on" => data' = file.data /\ aof'.size = Len(file.data)
  BY DEF Restart, Shape
<1>3. file.data \o <<>> = file.data
  BY EmptyData DEF Shape, TypeOK
<1> QED
  BY <1>1, <1>2, <1>3 DEF AofKept, AofComplete

LEMMA AofStep ==
    ASSUME Shape, AofKept, Next
    PROVE  AofKept'
<1>1. CASE BeforeSleep \/ CronFlush
  <2>1. process = "up" /\ Flush(FALSE) /\ data' = data
    BY <1>1 DEF BeforeSleep, CronFlush, memory
  <2> QED
    BY <2>1, FlushAof
<1>2. CASE Reply \/ Saving
  <2>1. process' = process /\ data' = data /\ UNCHANGED append
    BY <1>2 DEF Reply, Saving, StartBgsave, Save, BgsaveEnds, BgsaveDone, memory
  <2> QED
    BY <2>1, AofFrame DEF append
<1>3. CASE Fsync
  <2>1. /\ file'.data = file.data /\ UNCHANGED <<process, data, aof, rewrite>>
    BY <1>3 DEF Fsync, memory, Shape, TypeOK
  <2> QED
    BY <2>1 DEF AofKept, AofComplete
<1>4. CASE Tick \/ RewriteFailed
  <2>1. /\ aof'.state = aof.state /\ aof'.buf = aof.buf /\ aof'.size = aof.size
    BY <1>4 DEF Tick, RewriteFailed, Shape, TypeOK, Aof
  <2>2. /\ UNCHANGED <<process, data, file>>
        /\ rewrite' = rewrite \/ rewrite' = None
    BY <1>4 DEF Tick, RewriteFailed, memory
  <2> QED
    BY <2>1, <2>2, AofFrame
<1>5. CASE Killed \/ PowerFails \/ Shutdown \/ StopAppendOnlyExits
  <2>1. process' # "up" /\ rewrite' = None
    BY <1>5 DEF Killed, PowerFails, Shutdown, StopAppendOnlyExits, Ends
  <2> QED
    BY <2>1 DEF AofKept, AofComplete
<1>6. Rewriting =>
           \/ SendDiff \/ ReadDiff \/ AskToStop \/ StopSending \/ ChildEnds \/ ChildFails
           \/ RewriteDone \/ RewriteFailed
  BY DEF Rewriting
<1> QED
  BY <1>1, <1>2, <1>3, <1>4, <1>5, <1>6, WriteAof, StartAof, ChildAof,
     RewriteDoneAof, StopAof, ShutdownFailsAof, RestartAof
     DEF Next

-----------------------------------------------------------------------------
(* Counted *)

LEMMA RestartCounted ==
    ASSUME Shape, Restart
    PROVE  Counted'
<1>1. bgsave' = None /\ rdb' = rdb
  BY DEF Restart, Shape
<1>2. CASE conf = "on"
  <2>1. data' = file.data /\ dirty' = Len(file.data)
    BY <1>2 DEF Restart
  <2>2. dirty' = 0 => data' = <<>>
    BY <2>1, EmptyData DEF Shape, TypeOK
  <2> QED
    BY <1>1, <2>2 DEF Counted
<1>3. CASE conf # "on"
  BY <1>1, <1>3 DEF Restart, Counted
<1> QED
  BY <1>2, <1>3

LEMMA CountedStep ==
    ASSUME Shape, Counted, Next
    PROVE  Counted'
<1>1. dirty \in Nat /\ (bgsave # None => bgsave \in Bgsave /\ bgsave.before \in Nat)
  BY DEF Shape, TypeOK, Bgsave
<1>2. CASE Write
  <2>1. process = "up" /\ dirty' = dirty + 1 /\ UNCHANGED <<rdb, bgsave>>
    BY <1>2 DEF Write
  <2>2. dirty' # 0 /\ (bgsave # None => /\ bgsave.before <= dirty'
                                         /\ dirty' # bgsave.before)
    BY <1>1, <2>1 DEF Counted
  <2> QED
    BY <2>1, <2>2 DEF Counted
<1>3. ASSUME UNCHANGED <<data, rdb, dirty>>, bgsave' = bgsave \/ bgsave' = None,
             process' = "up" => process = "up" /\ bgsave' = bgsave
      PROVE  Counted'
  BY <1>3 DEF Counted
<1>4. CASE BeforeSleep \/ CronFlush
  <2>1. process = "up" /\ Flush(FALSE) /\ UNCHANGED <<data, rdb, dirty>>
    BY <1>4 DEF BeforeSleep, CronFlush, memory
  <2>2. /\ process' = "up" => bgsave' = bgsave
        /\ process' # "up" => bgsave' = None
    BY <2>1, FlushCases, FlushTyped
  <2> QED
    BY <1>3, <2>1, <2>2
<1>5. CASE \/ Reply \/ Fsync \/ Tick \/ Bgrewriteaof \/ StartScheduled
           \/ StartAppendOnly \/ StartAppendOnlyFails \/ StopAppendOnly \/ RewriteDone \/ RewriteFailed
  <2>1. UNCHANGED <<process, data, rdb, dirty, bgsave>>
    BY <1>5 DEF Reply, Fsync, Tick, Bgrewriteaof, StartScheduled, StartAppendOnly,
                StartAppendOnlyFails, StopAppendOnly, RewriteDone, RewriteFailed, memory, snapshot
  <2> QED
    BY <1>3, <2>1
<1>6. CASE SendDiff \/ ReadDiff \/ AskToStop \/ StopSending \/ ChildEnds \/ ChildFails
  <2>1. UNCHANGED <<process, data, rdb, dirty, bgsave>>
    BY <1>6 DEF SendDiff, ReadDiff, AskToStop, StopSending, ChildEnds, ChildFails,
                ChildStep, memory, snapshot
  <2> QED
    BY <1>3, <2>1
<1>7. CASE Killed \/ PowerFails \/ Shutdown \/ StopAppendOnlyExits
  <2>1. process' # "up"
    BY <1>7 DEF Killed, PowerFails, Shutdown, StopAppendOnlyExits, Ends
  <2> QED
    BY <2>1 DEF Counted
<1>8. CASE StartBgsave
  <2>1. /\ process = "up" /\ bgsave = None /\ UNCHANGED <<data, rdb, dirty>>
        /\ \/ bgsave' = [data |-> data, before |-> dirty, phase |-> "writing"]
           \/ bgsave' = bgsave
    BY <1>8 DEF StartBgsave, memory
  <2> QED
    BY <1>1, <2>1 DEF Counted
<1>9. CASE Save
  <2>1. rdb' = data' /\ bgsave' = None
    BY <1>9 DEF Save, memory, append
  <2> QED
    BY <2>1 DEF Counted
<1>10. CASE BgsaveEnds
  <2>1. /\ process = "up" /\ bgsave # None /\ bgsave.phase = "writing"
        /\ UNCHANGED <<data, dirty>>
        /\ \/ rdb' = bgsave.data /\ bgsave' = [bgsave EXCEPT !.phase = "ok"]
           \/ rdb' = rdb /\ bgsave' = [bgsave EXCEPT !.phase = "failed"]
    BY <1>10 DEF BgsaveEnds, memory
  <2>2. /\ bgsave'.data = bgsave.data /\ bgsave'.before = bgsave.before
        /\ \/ rdb' = bgsave.data /\ bgsave'.phase = "ok"
           \/ rdb' = rdb /\ bgsave'.phase = "failed"
    BY <1>1, <2>1 DEF Bgsave
  <2>3. CASE rdb' = bgsave.data /\ bgsave'.phase = "ok"
    <3>1. dirty = 0 => dirty = bgsave.before
      BY <1>1, <2>1 DEF Counted
    <3>2. dirty = bgsave.before => bgsave.data = data
      BY <2>1 DEF Counted
    <3> QED
      BY <2>1, <2>2, <2>3, <3>1, <3>2 DEF Counted
  <2>4. CASE rdb' = rdb /\ bgsave'.phase = "failed"
    BY <2>1, <2>2, <2>4 DEF Counted
  <2> QED
    BY <2>2, <2>3, <2>4
<1>11. CASE BgsaveDone
  <2>1. /\ process = "up" /\ bgsave # None /\ bgsave.phase # "writing"
        /\ UNCHANGED <<data, rdb>> /\ bgsave' = None
        /\ dirty' = IF bgsave.phase = "ok" THEN dirty - bgsave.before ELSE dirty
    BY <1>11 DEF BgsaveDone, memory
  <2>2. CASE bgsave.phase = "ok"
    <3>1. dirty' = 0 => dirty = bgsave.before
      BY <1>1, <2>1, <2>2
    <3> QED
      BY <2>1, <2>2, <3>1 DEF Counted
  <2>3. CASE bgsave.phase # "ok"
    BY <2>1, <2>3 DEF Counted
  <2> QED
    BY <2>2, <2>3
<1>13. CASE ShutdownFails
  <2>1. process = "up" /\ UNCHANGED <<data, rdb, dirty>> /\ bgsave' = BgsaveKilled
    BY <1>13 DEF ShutdownFails, memory
  <2>2. /\ bgsave = None => bgsave' = None
        /\ bgsave # None => /\ bgsave'.data = bgsave.data
                            /\ bgsave'.before = bgsave.before
                            /\ bgsave'.phase = "ok" <=> bgsave.phase = "ok"
    BY <1>1, <2>1 DEF BgsaveKilled, Bgsave
  <2>3. bgsave = None \/ bgsave.phase # "ok" \/ bgsave' = bgsave
    BY <2>1 DEF BgsaveKilled
  <2> QED
    BY <2>1, <2>2, <2>3 DEF Counted
<1>12. /\ Rewriting =>
            \/ SendDiff \/ ReadDiff \/ AskToStop \/ StopSending \/ ChildEnds \/ ChildFails
            \/ RewriteDone \/ RewriteFailed
       /\ Saving => StartBgsave \/ Save \/ BgsaveEnds \/ BgsaveDone
  BY DEF Rewriting, Saving
<1> QED
  BY <1>2, <1>4, <1>5, <1>6, <1>7, <1>8, <1>9, <1>10, <1>11, <1>12, <1>13, RestartCounted
     DEF Next

-----------------------------------------------------------------------------
(* Promised *)

LEMMA SyncedPrefix ==
    ASSUME Shape
    PROVE  /\ SyncedWrites \subseteq Range(file.data)
           /\ \A n \in file.synced..Len(file.data) :
                 /\ n \in 0..Len(file.data)
                 /\ SyncedWrites \subseteq Range(SubSeq(file.data, 1, n))
<1>1. /\ file.data \in Data /\ file.synced \in 0..Len(file.data)
      /\ Len(file.data) \in Nat
  BY EmptyData DEF Shape, TypeOK
<1>2. Len(file.data) \in 0..Len(file.data)
  BY <1>1
<1>3. SyncedWrites \subseteq Range(file.data)
  BY <1>1, <1>2, PrefixRange DEF SyncedWrites
<1>4. ASSUME NEW n \in file.synced..Len(file.data)
      PROVE  /\ n \in 0..Len(file.data)
             /\ SyncedWrites \subseteq Range(SubSeq(file.data, 1, n))
  <2>1. n \in 0..Len(file.data) /\ file.synced \in 0..n
    BY <1>1
  <2> QED
    BY <1>1, <2>1, PrefixRange DEF SyncedWrites
<1> QED
  BY <1>3, <1>4

LEMMA SyncedGrows ==
    ASSUME Shape, file' = file \/ file' \in Syncs(file)
    PROVE  /\ file'.data = file.data
           /\ SyncedWrites \subseteq SyncedWrites'
           /\ ~file'.error => ~file.error
<1>1. CASE file' = file
  BY <1>1 DEF SyncedWrites
<1>2. CASE file' \in Syncs(file)
  <2>1. /\ file \in [data : Data, synced : Nat, error : BOOLEAN]
        /\ file.synced \in 0..Len(file.data)
    BY DEF Shape, TypeOK
  <2>2. /\ file'.data = file.data /\ file'.synced \in 0..Len(file'.data)
        /\ file'.synced >= file.synced /\ (~file'.error => ~file.error)
    BY <1>2, <2>1, SyncsFile
  <2>3. file'.synced \in file.synced..Len(file.data)
    BY <2>1, <2>2
  <2>4. SyncedWrites \subseteq Range(SubSeq(file.data, 1, file'.synced))
    BY <2>3, SyncedPrefix
  <2> QED
    BY <2>2, <2>4 DEF SyncedWrites
<1> QED
  BY <1>1, <1>2

\* A step that promises nothing new and loses nothing that is synced.
LEMMA PromisedFrame ==
    ASSUME Promised, process = "up", process' \in {"up", "down"},
           data' = data, policy' = policy,
           UNCHANGED <<executed, replies, acked>>,
           policy = "always" /\ aof'.state = "on" =>
              /\ aof.state = "on" /\ aof'.buf = aof.buf
              /\ SyncedWrites \subseteq SyncedWrites'
              /\ ~file'.error => ~file.error
    PROVE  Promised'
  BY DEF Promised

LEMMA WritePromised ==
    ASSUME Shape, Promised, Write
    PROVE  Promised'
<1> DEFINE w == count'["write"]
<1>1. w \in Nat
  BY WriteShape
<1>2. aof \in Aof /\ aof.buf \in Data /\ data \in Data
  BY DEF Shape, TypeOK, Aof
<1> HIDE DEF w
<1>3. /\ process = "up" /\ data' = Append(data, w) /\ executed' = executed \cup {w}
      /\ process' = "up" /\ replies' = replies \cup {w}
      /\ UNCHANGED <<policy, acked, file>>
      /\ aof' = IF aof.state = "on" THEN [aof EXCEPT !.buf = Append(aof.buf, w)] ELSE aof
  BY DEF Write, Feed, config, w
<1>4. Range(data') = Range(data) \cup {w}
  BY <1>1, <1>2, <1>3, AppendData
<1>5. aof'.state = aof.state /\ (aof.state = "on" => aof'.buf = Append(aof.buf, w))
  BY <1>2, <1>3 DEF Aof
<1>6. aof.state = "on" => Range(aof'.buf) = Range(aof.buf) \cup {w}
  BY <1>1, <1>2, <1>5, AppendData
<1>7. SyncedWrites' = SyncedWrites
  BY <1>3 DEF SyncedWrites
<1> QED
  BY <1>3, <1>4, <1>5, <1>6, <1>7 DEF Promised

\* With appendfsync always a flush syncs all that was executed, or ends the process.
LEMMA FlushPromised ==
    ASSUME Shape, AofKept, Promised, BeforeSleep \/ CronFlush
    PROVE  Promised'
<1>1. process = "up" /\ Flush(FALSE) /\ data' = data /\ policy' = policy
  BY DEF BeforeSleep, CronFlush, memory, config
<1>2. FlushDone /\ aof'.state = aof.state /\ process' \in {"up", "down"}
  BY <1>1, FlushCases, FlushTyped
<1>3. /\ acked' = acked /\ replies' = replies /\ executed' \subseteq executed
      /\ process' # "up" => executed' = executed
  <2>1. CASE BeforeSleep
    BY <2>1 DEF BeforeSleep
  <2>2. CASE CronFlush
    BY <2>2 DEF CronFlush, memory
  <2> QED
    BY <2>1, <2>2
<1>4. acked' \cup replies' \cup executed' \subseteq Range(data')
  BY <1>1, <1>3 DEF Promised
<1>5. ASSUME policy = "always", aof.state = "on"
      PROVE  /\ SyncedWrites \subseteq SyncedWrites'
             /\ ~file'.error => ~file.error
             /\ process' = "up" =>
                   /\ aof'.buf = <<>>
                   /\ ~file'.error => Range(aof.buf) \subseteq SyncedWrites'
  <2>1. aof.size = Len(file.data)
    BY <1>1, <1>5 DEF AofKept
  <2> QED
    BY <1>1, <1>2, <1>5, <2>1, FlushKeeps
<1>6. Range(<<>>) = {}
  BY DEF Range
<1>7. CASE ~(policy = "always" /\ aof.state = "on")
  BY <1>1, <1>2, <1>4, <1>7 DEF Promised
<1>8. CASE policy = "always" /\ aof.state = "on"
  <2>1. ASSUME ~file'.error
        PROVE  /\ acked \ executed \subseteq SyncedWrites'
               /\ process' = "up" => replies \cup executed \cup acked \subseteq SyncedWrites'
    BY <1>1, <1>5, <1>8, <2>1 DEF Promised
  <2>2. process' = "up" => Range(aof'.buf) = {}
    BY <1>5, <1>6, <1>8
  <2>3. ~file'.error =>
           /\ acked' \ executed' \subseteq SyncedWrites'
           /\ process' = "up" => /\ replies' \ executed' \subseteq SyncedWrites'
                                 /\ executed' \subseteq SyncedWrites' \cup Range(aof'.buf)
    BY <1>2, <1>3, <2>1
  <2> QED
    BY <1>2, <1>4, <2>2, <2>3 DEF Promised
<1> QED
  BY <1>7, <1>8

LEMMA RewriteDonePromised ==
    ASSUME Shape, AofKept, Promised, RewriteDone
    PROVE  Promised'
<1>1. /\ process = "up" /\ UNCHANGED <<process, policy, data, executed, replies, acked>>
      /\ aof.state = "off" => aof'.state # "on"
  <2>1. /\ aof' = aof
        \/ aof' = [aof EXCEPT !.state = IF @ = "wait" THEN "on" ELSE @, !.fd = "open",
                     !.buf = <<>>,
                     !.size = Len(rewrite.base \o rewrite.diff \o rewrite.buf)]
    BY DEF RewriteDone
  <2>2. aof.state = "off" => aof'.state # "on"
    BY <2>1 DEF Shape, TypeOK, Aof
  <2> QED
    BY <2>2 DEF RewriteDone, Child, config, memory
<1>2. ASSUME aof.state # "off"
      PROVE  aof'.buf = <<>> /\ (policy = "always" /\ ~file'.error => SyncedWrites' = Range(data))
  <2> DEFINE all == rewrite.base \o rewrite.diff \o rewrite.buf
  <2>1. aof.fd # "none"
    BY <1>2 DEF Shape
  <2>2. /\ file'.data = all
        /\ policy = "always" /\ ~file'.error => file'.synced = Len(all)
    BY <2>1, RewriteDoneFile
  <2>3. all = data /\ data \in Data /\ Len(data) \in Nat
    BY RewrittenData, EmptyData DEF Shape, TypeOK
  <2>4. /\ aof \in Aof
        /\ aof' = [aof EXCEPT !.state = IF @ = "wait" THEN "on" ELSE @, !.fd = "open",
                     !.buf = <<>>, !.size = Len(all)]
    BY <2>1 DEF RewriteDone, Shape, TypeOK
  <2> HIDE DEF all
  <2>5. aof'.buf = <<>>
    BY <2>4 DEF Aof
  <2>6. Len(data) \in 0..Len(data)
    BY <2>3
  <2>7. SubSeq(data, 1, Len(data)) = data
    BY <2>3, <2>6, PrefixData
  <2> QED
    BY <2>2, <2>3, <2>5, <2>7 DEF SyncedWrites
<1>3. Range(<<>>) = {}
  BY DEF Range
<1>4. CASE aof.state = "off"
  BY <1>1, <1>4 DEF Promised
<1>5. CASE aof.state # "off"
  BY <1>1, <1>2, <1>3, <1>5 DEF Promised
<1> QED
  BY <1>4, <1>5

\* After prepareForShutdown only what waits in the buffer can be missing.
LEMMA ShutdownPromised ==
    ASSUME Shape, AofKept, Promised, Shutdown
    PROVE  Promised'
<1>1. /\ process = "up" /\ process' = "shutdown" /\ UNCHANGED <<policy, aof>>
      /\ UNCHANGED <<data, executed, replies, acked>>
      /\ file' = file \/ file' \in Syncs(file)
  BY DEF Shutdown, Ends, config, memory
<1>2. file'.data = file.data
  BY <1>1, SyncedGrows
<1>3. /\ SyncedWrites \subseteq SyncedWrites'
      /\ ~file'.error => ~file.error
  BY <1>1, SyncedGrows
<1>4. ASSUME aof.state = "on"
      PROVE  Range(data) = Range(file.data) \cup Range(aof.buf)
  <2>1. file.data \in Data /\ aof.buf \in Data /\ file.data \o aof.buf = data
    BY <1>1, <1>4 DEF Shape, TypeOK, Aof, AofKept, AofComplete
  <2> QED
    BY <2>1, RangeConcatenation DEF Data
<1>5. policy = "always" /\ aof.state = "on" => acked \ executed \subseteq Range(file.data)
  BY <1>1, <1>4 DEF Promised
<1> QED
  BY <1>1, <1>2, <1>3, <1>5 DEF Promised

\* The other ends take nothing that is synced.
LEMMA EndPromised ==
    ASSUME Shape, Promised, Killed \/ PowerFails
    PROVE  Promised'
<1>1. /\ process = "up" /\ process' = "down" /\ aof' = aof /\ policy' = policy
      /\ UNCHANGED <<data, executed, replies, acked>>
  BY DEF Killed, PowerFails, Ends, config, memory
<1>2. SyncedWrites \subseteq SyncedWrites' /\ file'.error = file.error
  <2>1. CASE Killed
    BY <2>1 DEF Killed, SyncedWrites
  <2>2. CASE PowerFails
    <3>1. PICK n \in file.synced..Len(file.data) :
             file' = [file EXCEPT !.data = SubSeq(file.data, 1, n), !.synced = n]
      BY <2>2 DEF PowerFails
    <3> DEFINE front == SubSeq(file.data, 1, n)
    <3>2. n \in 0..Len(file.data) /\ SyncedWrites \subseteq Range(front)
      BY SyncedPrefix
    <3>3. front \in Data /\ Len(front) = n
      BY <3>2, PrefixData DEF Shape, TypeOK
    <3>4. n \in 0..Len(front)
      BY <3>2, <3>3
    <3>5. file' = [file EXCEPT !.data = front, !.synced = n]
      BY <3>1
    <3> HIDE DEF front
    <3>6. SubSeq(front, 1, Len(front)) = front
      BY <3>3, <3>4, PrefixData
    <3>7. file'.data = front /\ file'.synced = n /\ file'.error = file.error
      BY <3>5 DEF Shape
    <3>8. SyncedWrites' = Range(front)
      BY <3>3, <3>6, <3>7 DEF SyncedWrites
    <3> QED
      BY <3>2, <3>7, <3>8
  <2> QED
    BY <2>1, <2>2
<1> QED
  BY <1>1, <1>2, PromisedFrame

LEMMA RestartPromised ==
    ASSUME Shape, Restart
    PROVE  Promised'
<1>1. /\ file' = [file EXCEPT !.error = FALSE]
      /\ executed' = {} /\ replies' = {} /\ process' = "up"
      /\ aof'.state = conf /\ aof'.buf = <<>>
      /\ conf = "on" => data' = file.data /\ acked' = acked \cap SyncedWrites
      /\ conf # "on" => acked' = {}
  BY DEF Restart, SyncedWrites
<1>2. SyncedWrites' = SyncedWrites
  BY <1>1 DEF SyncedWrites, Shape
<1>3. SyncedWrites \subseteq Range(file.data)
  BY SyncedPrefix
<1>4. Range(<<>>) = {}
  BY DEF Range
<1> QED
  BY <1>1, <1>2, <1>3, <1>4 DEF Promised

LEMMA PromisedStep ==
    ASSUME Shape, AofKept, Promised, Next
    PROVE  Promised'
<1>1. CASE Reply
  <2>1. /\ process = "up" /\ process' = "up"
        /\ acked' \cup replies' \subseteq acked \cup replies
        /\ replies' \subseteq replies
        /\ UNCHANGED <<policy, data, executed, aof, file>>
    BY <1>1 DEF Reply, config, append
  <2>2. SyncedWrites' = SyncedWrites
    BY <2>1 DEF SyncedWrites
  <2> QED
    BY <2>1, <2>2 DEF Promised
<1>2. CASE Fsync
  <2>1. /\ UNCHANGED <<process, policy, data, executed, replies, acked, aof>>
        /\ process = "up"
    BY <1>2 DEF Fsync, config, memory
  <2>2. PICK n \in file.synced..Len(file.data) :
           file' = file \/ file' = [file EXCEPT !.synced = n]
    BY <1>2 DEF Fsync
  <2>3. SyncedWrites \subseteq SyncedWrites' /\ file'.error = file.error
    <3>1. CASE file' = file
      BY <3>1 DEF SyncedWrites
    <3>2. CASE file' = [file EXCEPT !.synced = n]
      <4>1. file'.data = file.data /\ file'.synced = n /\ file'.error = file.error
        BY <3>2 DEF Shape
      <4>2. SyncedWrites \subseteq Range(SubSeq(file.data, 1, n))
        BY SyncedPrefix
      <4> QED
        BY <4>1, <4>2 DEF SyncedWrites
    <3> QED
      BY <2>2, <3>1, <3>2
  <2> QED
    BY <2>1, <2>3, PromisedFrame
<1>3. CASE \/ Tick \/ Bgrewriteaof \/ StartScheduled \/ StartAppendOnly
           \/ StartAppendOnlyFails \/ RewriteFailed
  <2>1. UNCHANGED <<process, policy, data, executed, replies, acked, file>>
    BY <1>3 DEF Tick, Bgrewriteaof, StartScheduled, StartAppendOnly,
                StartAppendOnlyFails, RewriteFailed, config, memory
  <2>2. process = "up"
    BY <1>3 DEF Tick, Bgrewriteaof, StartScheduled, StartAppendOnly,
                StartAppendOnlyFails, RewriteFailed, Child
  <2>3. aof'.state = "on" => aof.state = "on" /\ aof'.buf = aof.buf
    BY <1>3 DEF Tick, Bgrewriteaof, StartScheduled, StartAppendOnly,
                StartAppendOnlyFails, RewriteFailed, Shape, TypeOK, Aof
  <2>4. SyncedWrites' = SyncedWrites
    BY <2>1 DEF SyncedWrites
  <2> QED
    BY <2>1, <2>2, <2>3, <2>4, PromisedFrame
<1>4. CASE \/ SendDiff \/ ReadDiff \/ AskToStop \/ StopSending \/ ChildEnds \/ ChildFails
           \/ Saving
  <2>1. UNCHANGED <<process, policy, data, executed, replies, acked, aof, file>>
    BY <1>4 DEF SendDiff, ReadDiff, AskToStop, StopSending, ChildEnds, ChildFails,
                ChildStep, Saving, StartBgsave, Save, BgsaveEnds, BgsaveDone,
                config, memory, append
  <2>2. process = "up"
    BY <1>4 DEF SendDiff, ReadDiff, AskToStop, StopSending, ChildEnds, ChildFails,
                Child, Saving, StartBgsave, Save, BgsaveEnds, BgsaveDone
  <2>3. SyncedWrites' = SyncedWrites
    BY <2>1 DEF SyncedWrites
  <2> QED
    BY <2>1, <2>2, <2>3, PromisedFrame
<1>5. CASE StopAppendOnly
  <2>1. UNCHANGED <<process, policy, data, executed, replies, acked>> /\ process = "up"
    BY <1>5 DEF StopAppendOnly, config, memory
  <2>2. aof'.state = "off"
    BY <1>5, StopShape
  <2> QED
    BY <2>1, <2>2, PromisedFrame
<1>6. CASE StopAppendOnlyExits
  <2>1. /\ FlushDone /\ process = "up" /\ process' = "down"
        /\ UNCHANGED <<policy, data, executed, replies, acked>>
    BY <1>6, StopExits
  <2>2. aof'.state = aof.state
    BY <2>1, FlushTyped
  <2>3. aof.state = "on" => /\ SyncedWrites \subseteq SyncedWrites'
                            /\ ~file'.error => ~file.error
    BY <2>1, FlushKeeps DEF AofKept
  <2> QED
    BY <2>1, <2>2, <2>3 DEF Promised
<1>7. CASE ShutdownFails
  <2>1. /\ process = "up" /\ UNCHANGED <<process, policy, aof>>
        /\ UNCHANGED <<data, executed, replies, acked>>
        /\ file' = file \/ file' \in Syncs(file)
    BY <1>7 DEF ShutdownFails, config, memory
  <2>2. SyncedWrites \subseteq SyncedWrites' /\ (~file'.error => ~file.error)
    BY <2>1, SyncedGrows
  <2> QED
    BY <2>1, <2>2, PromisedFrame
<1>8. Rewriting =>
           \/ SendDiff \/ ReadDiff \/ AskToStop \/ StopSending \/ ChildEnds \/ ChildFails
           \/ RewriteDone \/ RewriteFailed
  BY DEF Rewriting
<1> QED
  BY <1>1, <1>2, <1>3, <1>4, <1>5, <1>6, <1>7, <1>8, WritePromised, FlushPromised,
     RewriteDonePromised, ShutdownPromised, EndPromised, RestartPromised
     DEF Next

-----------------------------------------------------------------------------
(* The theorems *)

LEMMA InitIInv == Init => IInv
<1> SUFFICES ASSUME Init PROVE IInv
  OBVIOUS
<1>1. <<>> \in Data /\ Len(<<>>) = 0 /\ <<>> \o <<>> = <<>>
  <2>1. <<>> \in Data
    BY DEF Data
  <2> QED
    BY <2>1, EmptyData
<1>2. aof \in Aof /\ aof.buf = <<>> /\ aof.size = 0
  <2>1. 0 \in 0..3
    OBVIOUS
  <2> QED
    BY <1>1, <2>1 DEF Init, Aof
<1>3. Shape
  BY <1>1, <1>2 DEF Init, Shape, TypeOK
<1>4. AofKept
  BY <1>1, <1>2 DEF Init, AofKept, AofComplete
<1>5. Counted
  BY DEF Init, Counted
<1>6. Promised
  <2>1. Range(<<>>) = {}
    BY DEF Range
  <2> QED
    BY <1>2, <2>1 DEF Init, Promised
<1> QED
  BY <1>3, <1>4, <1>5, <1>6 DEF IInv

LEMMA NextIInv == IInv /\ [Next]_vars => IInv'
<1> SUFFICES ASSUME IInv, [Next]_vars PROVE IInv'
  OBVIOUS
<1>1. CASE Next
  BY <1>1, ShapeStep, AofStep, CountedStep, PromisedStep DEF IInv
<1>2. CASE UNCHANGED vars
  <2>1. UNCHANGED <<process, policy, conf, data, executed, replies, acked, aof, file,
                    fsyncs, rewrite, rdb, dirty, saved, bgsave, count>>
    BY <1>2 DEF vars, config, memory, append, snapshot
  <2>2. Shape'
    BY <2>1 DEF IInv, Shape, TypeOK
  <2>3. AofKept' /\ Counted'
    BY <2>1 DEF IInv, AofKept, AofComplete, Counted
  <2>4. Promised'
    BY <2>1 DEF IInv, Promised, SyncedWrites
  <2> QED
    BY <2>2, <2>3, <2>4 DEF IInv
<1> QED
  BY <1>1, <1>2

\* The inductive invariant: it relates the buffer, the two files, the child and
\* the counters that the invariants below speak of one by one.
THEOREM Invariance == Spec => []IInv
  BY InitIInv, NextIInv, PTL DEF Spec

\* The state has its type through every write, failure, rewrite and restart; in
\* particular rdb.c never makes server.dirty negative.
THEOREM TypeInvariant == Spec => []TypeOK
<1>1. IInv => TypeOK
  BY DEF IInv, Shape
<1> QED
  BY <1>1, Invariance, PTL

\* aof.c loses and repeats no write: the file with the buffer, and what a
\* rewriting child has with what is on its way to it, are the data set.
THEOREM AofCompleteAlways == Spec => []AofComplete
<1>1. IInv => AofComplete
  BY DEF IInv, AofKept
<1> QED
  BY <1>1, Invariance, PTL

\* With appendfsync always a write that was acknowledged is on the disk by the end
\* of the turn that executed it, over rewrites, the switching of the AOF and the
\* loss of power; unless an fsync failed, which aof.c does not look at.
THEOREM AckedSyncedAlways == Spec => []AckedSynced
<1>1. IInv => AckedSynced
  BY DEF IInv, Promised, AckedSynced, SyncedWrites
<1> QED
  BY <1>1, Invariance, PTL

\* While a change is in no RDB file, server.dirty counts it, also when it was
\* made during a BGSAVE: the save points see it.
THEOREM DirtyCountsAlways == Spec => []DirtyCounts
<1>1. IInv => DirtyCounts
  BY DEF IInv, Counted, DirtyCounts
<1> QED
  BY <1>1, Invariance, PTL

-----------------------------------------------------------------------------
(* An orderly shutdown *)

\* What prepareForShutdown does not see to: nothing waits to be written.
WrittenBeforeShutdown ==
    process = "up" /\ process' = "shutdown" /\ aof.state = "on" => aof.buf = <<>>

\* redis.c:2406: the file contains the full dataset.
FullDataset == process = "shutdown" /\ aof.state = "on" => file.data = data

AnsweredAtShutdown == process = "shutdown" => acked \subseteq Range(data)

LEMMA OnlyShutdown ==
    ASSUME Shape, [Next]_vars, process' = "shutdown"
    PROVE  Shutdown \/ UNCHANGED vars
<1> SUFFICES ASSUME Next PROVE Shutdown
  OBVIOUS
<1>1. ASSUME BeforeSleep \/ CronFlush PROVE process' # "shutdown"
  <2>1. process = "up" /\ (process' = process \/ process' = "down")
    BY <1>1 DEF BeforeSleep, CronFlush, Flush, Ends
  <2> QED
    BY <2>1
<1>2. ASSUME \/ Write \/ Reply \/ StartScheduled \/ Fsync \/ Tick
             \/ Bgrewriteaof \/ Saving \/ StartAppendOnly \/ StartAppendOnlyFails
             \/ StopAppendOnly \/ ShutdownFails
      PROVE  process' # "shutdown"
  BY <1>2 DEF Write, Reply, StartScheduled, Fsync, Tick, Bgrewriteaof, Saving,
              StartBgsave, Save, BgsaveEnds, BgsaveDone, StartAppendOnly,
              StartAppendOnlyFails, StopAppendOnly, ShutdownFails
<1>3. ASSUME Rewriting PROVE process' # "shutdown"
  BY <1>3 DEF Rewriting, SendDiff, ReadDiff, AskToStop, StopSending, ChildEnds,
              ChildFails, RewriteDone, RewriteFailed, Child, ChildStep
<1>4. ASSUME Killed \/ PowerFails \/ StopAppendOnlyExits \/ Restart
      PROVE  process' # "shutdown"
  BY <1>4 DEF Killed, PowerFails, StopAppendOnlyExits, Restart, Ends
<1> QED
  BY <1>1, <1>2, <1>3, <1>4 DEF Next

LEMMA ShutdownIsFull ==
    ASSUME Shape, AofKept, Promised, Shutdown, WrittenBeforeShutdown
    PROVE  FullDataset' /\ AnsweredAtShutdown'
<1>1. /\ process = "up" /\ process' = "shutdown"
      /\ UNCHANGED <<aof, data, acked>>
      /\ file' = file \/ file' \in Syncs(file)
  BY DEF Shutdown, Ends, memory
<1>2. file'.data = file.data /\ file.data \in Data
  BY <1>1, SyncedGrows DEF Shape, TypeOK
<1>3. ASSUME aof.state = "on" PROVE file.data = data
  <2>1. aof.buf = <<>> /\ file.data \o aof.buf = data
    BY <1>1, <1>3 DEF WrittenBeforeShutdown, AofKept, AofComplete
  <2> QED
    BY <1>2, <2>1, EmptyData
<1>4. acked \subseteq Range(data)
  BY <1>1 DEF Promised
<1> QED
  BY <1>1, <1>2, <1>3, <1>4 DEF FullDataset, AnsweredAtShutdown

\* As long as no shutdown finds something in aof_buf, the file has the full
\* dataset after it, as the comment at redis.c:2406 says, and so every write that
\* was answered. The run persistence_shutdown shows that prepareForShutdown does
\* not see to the premise.
THEOREM ShutdownKeepsDataset ==
    Spec /\ [][WrittenBeforeShutdown]_vars
       => [](FullDataset /\ ShutdownKeepsAcked)
<1>1. Init => FullDataset /\ AnsweredAtShutdown
  BY DEF Init, FullDataset, AnsweredAtShutdown
<1>2. IInv /\ [Next]_vars /\ [WrittenBeforeShutdown]_vars
         /\ FullDataset /\ AnsweredAtShutdown
      => FullDataset' /\ AnsweredAtShutdown'
  <2> SUFFICES ASSUME IInv, [Next]_vars, [WrittenBeforeShutdown]_vars,
                      FullDataset, AnsweredAtShutdown
               PROVE  FullDataset' /\ AnsweredAtShutdown'
    OBVIOUS
  <2>1. CASE process' # "shutdown"
    BY <2>1 DEF FullDataset, AnsweredAtShutdown
  <2>2. CASE UNCHANGED vars
    BY <2>2 DEF vars, append, memory, FullDataset, AnsweredAtShutdown
  <2>3. CASE Shutdown
    <3>1. process = "up" /\ process' = "shutdown"
      BY <2>3 DEF Shutdown, Ends
    <3>2. WrittenBeforeShutdown
      BY <3>1 DEF vars
    <3> QED
      BY <2>3, <3>2, ShutdownIsFull DEF IInv
  <2> QED
    BY <2>1, <2>2, <2>3, OnlyShutdown DEF IInv
<1>3. FullDataset /\ AnsweredAtShutdown => FullDataset /\ ShutdownKeepsAcked
  BY DEF FullDataset, AnsweredAtShutdown, ShutdownKeepsAcked
<1> QED
  BY <1>1, <1>2, <1>3, Invariance, PTL DEF Spec

\* Of what was answered, the writes that an earlier turn of the loop executed.
ShutdownKeepsEarlier ==
    process = "shutdown" /\ aof.state = "on" =>
       acked \ executed \subseteq Range(file.data)

\* With appendfsync always an orderly shutdown keeps what earlier turns of the event
\* loop have answered, whatever is in aof_buf and whether or not fsync fails: that
\* policy postpones no flush, and ends the process when the write fails. The run
\* persistence_shutdown shows that of the last turn it may lose what was answered.
THEOREM ShutdownWithAlways == Spec => [](policy = "always" => ShutdownKeepsEarlier)
<1>1. IInv => (policy = "always" => ShutdownKeepsEarlier)
  BY DEF IInv, Promised, ShutdownKeepsEarlier
<1> QED
  BY <1>1, Invariance, PTL

-----------------------------------------------------------------------------
(* Replication: what is in hand and what is to come *)

CONSTANTS Server, FirstHosts, BacklogSize
VARIABLES srv, cl

Repl == INSTANCE RedisReplication

\* What is in hand and what is to come make up a data set, as an operator the
\* prover does not look into.
Makes(s, o, d) == s \o o = d

\* The data set ends with b.
EndsIn(d, b) == \E p \in Data : Makes(p, b, d)

LEMMA MakesMore ==
    ASSUME NEW s \in Data, NEW o \in Data, NEW d, Makes(s, o, d), NEW w \in Nat
    PROVE  /\ Makes(s, Append(o, w), Append(d, w)) /\ Append(o, w) \in Data
           /\ Len(Append(o, w)) = Len(o) + 1
<1>1. s \o Append(o, w) = Append(s \o o, w) /\ Append(o, w) \in Data
  BY AppendData
<1>2. Len(Append(o, w)) = Len(o) + 1
  BY AppendProperties DEF Data
<1> QED
  BY <1>1, <1>2 DEF Makes

\* What came first of what is to come is now in hand.
LEMMA MakesTaken ==
    ASSUME NEW s \in Data, NEW o \in Data, NEW d, o # <<>>, Makes(s, o, d)
    PROVE  /\ Makes(Append(s, Head(o)), Tail(o), d)
           /\ Head(o) \in Nat /\ Append(s, Head(o)) \in Data
           /\ Tail(o) \in Data /\ Len(o) \in Nat /\ Len(o) = Len(Tail(o)) + 1
<1>1. /\ Head(o) \in Nat /\ Tail(o) \in Data /\ Len(Tail(o)) = Len(o) - 1
      /\ Len(o) \in Nat
  BY HeadTailProperties, LenProperties DEF Data
<1>2. Append(s, Head(o)) \in Data /\ <<Head(o)>> \in Data
  BY <1>1, AppendData DEF Data
<1>3. o = <<Head(o)>> \o Tail(o)
  BY <1>1, SMTT(20) DEF Data
<1>4. Append(s, Head(o)) = s \o <<Head(o)>>
  BY <1>1, AppendIsConcat DEF Data
<1>5. (s \o <<Head(o)>>) \o Tail(o) = s \o (<<Head(o)>> \o Tail(o))
  BY <1>1, <1>2, Assoc
<1>6. Makes(Append(s, Head(o)), Tail(o), d)
  BY <1>3, <1>4, <1>5 DEF Makes
<1> QED
  BY <1>1, <1>2, <1>6

LEMMA MakesEmpty ==
    ASSUME NEW s \in Data
    PROVE  /\ Makes(s, <<>>, s) /\ <<>> \in Data /\ Len(<<>>) = 0
           /\ EndsIn(s, <<>>)
  BY EmptyData DEF Makes, EndsIn

\* The backlog stays the end of the data set when both grow.
LEMMA EndsInMore ==
    ASSUME NEW d \in Data, NEW b \in Data, EndsIn(d, b), NEW w \in Nat,
           BacklogSize \in Nat
    PROVE  LET t == Repl!Trimmed(Append(b, w))
           IN  EndsIn(Append(d, w), t) /\ t \in Data
<1> DEFINE a == Append(b, w)
           n == Len(a) - BacklogSize
<1>1. PICK p \in Data : Makes(p, b, d)
  BY DEF EndsIn
<1>2. Makes(p, a, Append(d, w)) /\ a \in Data /\ Len(a) \in Nat
  BY <1>1, MakesMore, EmptyData
<1> HIDE DEF a
<1>3. CASE Len(a) <= BacklogSize
  BY <1>2, <1>3 DEF a, EndsIn, Repl!Trimmed
<1>4. CASE Len(a) > BacklogSize
  <2>1. n \in 0..Len(a)
    BY <1>2, <1>4
  <2> HIDE DEF n
  <2>2. /\ SubSeq(a, 1, n) \in Data /\ SubSeq(a, n + 1, Len(a)) \in Data
        /\ SubSeq(a, 1, n) \o SubSeq(a, n + 1, Len(a)) = a
    BY <1>2, <2>1, PrefixData
  <2>3. /\ p \o SubSeq(a, 1, n) \in Data
        /\ (p \o SubSeq(a, 1, n)) \o SubSeq(a, n + 1, Len(a)) = p \o a
    <3>1. (p \o SubSeq(a, 1, n)) \o SubSeq(a, n + 1, Len(a))
            = p \o (SubSeq(a, 1, n) \o SubSeq(a, n + 1, Len(a)))
      BY <2>2, Assoc
    <3>2. p \o SubSeq(a, 1, n) \in Data
      BY <2>2, ConcatData
    <3> QED
      BY <2>2, <3>1, <3>2
  <2>4. EndsIn(Append(d, w), SubSeq(a, n + 1, Len(a)))
    BY <1>2, <2>3 DEF EndsIn, Makes
  <2>5. Repl!Trimmed(a) = SubSeq(a, n + 1, Len(a))
    BY <1>2, <1>4 DEF Repl!Trimmed, n
  <2> QED
    BY <2>2, <2>4, <2>5 DEF a
<1> QED
  BY <1>2, <1>3, <1>4

\* What is missing is found at the end of the backlog.
LEMMA MissingFound ==
    ASSUME NEW s \in Data, NEW o \in Data, NEW d \in Data, NEW b \in Data,
           Makes(s, o, d), EndsIn(d, b), Len(o) <= Len(b)
    PROVE  o = SubSeq(b, Len(b) - Len(o) + 1, Len(b))
<1>1. PICK p \in Data : p \o b = d
  BY DEF EndsIn, Makes
<1> DEFINE n == Len(b) - Len(o)
           f == SubSeq(b, 1, n)
           t == SubSeq(b, n + 1, Len(b))
<1>2. n \in 0..Len(b) /\ Len(b) \in Nat /\ Len(o) \in Nat
  BY EmptyData
<1>3. /\ f \in Data /\ Len(f) = n /\ t \in Data /\ f \o t = b
  BY <1>2, PrefixData
<1>4. Len(t) = Len(o)
  <2> HIDE DEF f, t
  <2>1. Len(f) + Len(t) = Len(b) /\ Len(t) \in Nat
    BY <1>3, ConcatData
  <2>2. Len(f) = Len(b) - Len(o)
    BY <1>3 DEF n
  <2> HIDE DEF n
  <2> QED
    BY <1>2, <2>1, <2>2
<1> HIDE DEF f, t, n
<1>5. p \o f \in Data /\ (p \o f) \o t = d
  <2>1. (p \o f) \o t = p \o (f \o t)
    <3>1. f \in Data /\ t \in Data
      BY <1>3
    <3> QED
      BY <3>1, Assoc
  <2>2. p \o f \in Data
    BY <1>3, ConcatData
  <2> QED
    BY <1>1, <1>3, <2>1, <2>2
<1>6. Len(s) = Len(p \o f) /\ Len(s) \in Nat
  <2>1. /\ Len(s \o o) = Len(s) + Len(o)
        /\ Len((p \o f) \o t) = Len(p \o f) + Len(t)
        /\ Len(s) \in Nat /\ Len(p \o f) \in Nat
    BY <1>3, <1>5, ConcatData
  <2>2. s \o o = (p \o f) \o t
    BY <1>5 DEF Makes
  <2> QED
    BY <1>2, <1>4, <2>1, <2>2
<1>7. ASSUME NEW i \in 1..Len(o)
      PROVE  o[i] = t[i]
  <2>1. Len(s) + i \in 1..Len(s) + Len(o) /\ ~(Len(s) + i <= Len(s))
        /\ (Len(s) + i) - Len(s) = i
    BY <1>2, <1>6
  <2>2. (s \o o)[Len(s) + i] = o[i]
    BY <2>1, ConcatProperties DEF Data
  <2>3. ((p \o f) \o t)[Len(s) + i] = t[i]
    BY <2>1, <1>3, <1>4, <1>5, <1>6, ConcatProperties DEF Data
  <2> QED
    BY <1>5, <2>2, <2>3 DEF Makes
<1>8. o = t
  BY <1>3, <1>4, <1>7, SeqEqual DEF Data
<1> QED
  BY <1>2, <1>8 DEF t, n

-----------------------------------------------------------------------------
(* Replication: a server s, the client c that it is at its master, and the *)
(* master m.                                                               *)

\* The states of the two ends of a link, and of what s itself holds.
Own(s, c) ==
    /\ s.state = "none" <=> s.host = None
    /\ c.state = "none" => c = Repl!NoClient
    /\ s.state \in {"none", "connect", "refused"} <=> c = Repl!NoClient
    /\ s.state = "receive_psync" => c.state \in {"wait_start", "wait_end", "send_bulk"}
    /\ s.state = "transfer" => c.state \in {"wait_end", "send_bulk"} /\ s.backlog = None
    /\ s.state = "connected" <=> c.state = "online"
    /\ c.state = "online" => s.position # None
    /\ s.host = None => s.position = None
    /\ c.state = "wait_start" => c.out = <<>>
    /\ s.backlog # None => EndsIn(s.data, s.backlog)

\* A position was reached in this or in an earlier life of the master.
Older(p, run) == p # None => p.run[1] = run[1] /\ p.run[2] <= run[2]

\* What a slave was told of the offset, and what its output buffer collects,
\* fit the master; what it has loaded is another matter.
Link(s, c, m) ==
    /\ Older(s.position, m.run)
    /\ c # Repl!NoClient => m.backlog # None /\ m.state # "transfer"
    /\ c.state = "wait_end" =>
          /\ m.bgsave # None /\ Makes(m.bgsave, c.out, m.data)
          /\ c.init + Len(c.out) = m.offset
    /\ c.state = "send_bulk" =>
          /\ Makes(c.rdb, c.out, m.data)
          /\ c.init + Len(c.out) = m.offset
    /\ c.state = "online" => s.position.off + Len(c.out) = m.offset

InSync(s, c, m) == c.state = "online" => Makes(s.data, c.out, m.data)

\* What the backlog would be used for is what the slave lacks.
Resumable(s, m) ==
    s.position # None /\ s.position.run = m.run =>
       /\ s.position.off <= m.offset
       /\ m.backlog # None /\ m.offset <= s.position.off + Len(m.backlog) =>
             \E o \in Data : /\ Makes(s.data, o, m.data)
                             /\ s.position.off + Len(o) = m.offset

\* A step of the three that keeps each of these.
Kept(s, c, m, s2, c2, m2) ==
    /\ Link(s, c, m) => Link(s2, c2, m2)
    /\ InSync(s, c, m) => InSync(s2, c2, m2)
    /\ InSync(s, c, m) /\ Resumable(s, m) => Resumable(s2, m2)

LEMMA KeptSame ==
    ASSUME NEW s, NEW c, NEW m, NEW s2, NEW m2,
           s2.position = s.position, s2.data = s.data,
           m2.data = m.data, m2.offset = m.offset, m2.backlog = m.backlog,
           m2.run = m.run, c.state = "wait_end" => m2.bgsave = m.bgsave,
           m2.state = "transfer" => m.state = "transfer"
    PROVE  Kept(s, c, m, s2, c, m2)
  BY DEF Kept, Link, InSync, Resumable

\* A slave without a position, and without a link, has nothing to lose.
LEMMA KeptNone ==
    ASSUME NEW s, NEW c, NEW m, NEW s2, NEW m2, s2.position = None
    PROVE  Kept(s, c, m, s2, Repl!NoClient, m2)
  BY DEF Kept, Link, InSync, Resumable, Repl!NoClient, Older

LEMMA KeptClosed ==
    ASSUME NEW s, NEW c, NEW m, NEW s2, NEW m2,
           s2.position = s.position, s2.data = s.data,
           m2.offset = m.offset, m2.run = m.run,
           \/ m2.backlog = None
           \/ m2.backlog = m.backlog /\ m2.data = m.data
    PROVE  Kept(s, c, m, s2, Repl!NoClient, m2)
  BY DEF Kept, Link, InSync, Resumable, Repl!NoClient

\* After a restart of the master no position of its is any good.
LEMMA KeptRestarted ==
    ASSUME NEW s, NEW c, NEW m, NEW s2, NEW m2, NEW n \in Nat,
           s.position # None => s.position.run[2] \in Nat,
           s2.position = s.position,
           m.run[2] = n, m2.run[1] = m.run[1], m2.run[2] = n + 1
    PROVE  Kept(s, c, m, s2, Repl!NoClient, m2)
           \/ ~ Link(s, c, m)
  BY DEF Kept, Link, InSync, Resumable, Repl!NoClient, Older

\* The master m executes w, and m2 is what it is then.
Advance(m, m2, w) ==
    /\ m2.data = Append(m.data, w)
    /\ m2.bgsave = m.bgsave /\ m2.run = m.run /\ m2.state = m.state
    /\ IF m.backlog = None
       THEN m2.backlog = None /\ m2.offset = m.offset
       ELSE /\ m2.offset = m.offset + 1
            /\ m2.backlog = Repl!Trimmed(Append(m.backlog, w))
            /\ m2.backlog # None

FedClient(c, w) ==
    IF c = Repl!NoClient \/ c.state = "wait_start" THEN c
    ELSE [c EXCEPT !.out = Append(@, w)]

LEMMA TrimmedLen ==
    ASSUME NEW b \in Data, NEW w \in Nat, BacklogSize \in Nat
    PROVE  Len(Repl!Trimmed(Append(b, w))) \in 0..Len(b) + 1
<1> DEFINE a == Append(b, w)
           n == Len(a) - BacklogSize
<1>1. a \in Data /\ Len(a) = Len(b) + 1 /\ Len(b) \in Nat
  BY AppendProperties, LenProperties DEF Data
<1> HIDE DEF a
<1>2. CASE Len(a) <= BacklogSize
  BY <1>1, <1>2 DEF a, Repl!Trimmed
<1>3. CASE Len(a) > BacklogSize
  <2>1. n \in 0..Len(a)
    BY <1>1, <1>3
  <2> HIDE DEF n
  <2>2. /\ Len(SubSeq(a, 1, n)) = n /\ SubSeq(a, 1, n) \in Data
        /\ SubSeq(a, n + 1, Len(a)) \in Data
        /\ SubSeq(a, 1, n) \o SubSeq(a, n + 1, Len(a)) = a
    BY <1>1, <2>1, PrefixData
  <2>3. /\ Len(a) = Len(SubSeq(a, 1, n)) + Len(SubSeq(a, n + 1, Len(a)))
        /\ Len(SubSeq(a, n + 1, Len(a))) \in Nat
    BY <2>2, ConcatData
  <2>4. Repl!Trimmed(a) = SubSeq(a, n + 1, Len(a))
    BY <1>1, <1>3 DEF Repl!Trimmed, n
  <2> QED
    BY <1>1, <2>1, <2>2, <2>3, <2>4 DEF a
<1> QED
  BY <1>1, <1>2, <1>3

LEMMA KeptFed ==
    ASSUME NEW s \in Repl!State, NEW c \in Repl!Client, NEW m \in Repl!State, NEW w \in Nat,
           NEW s2, NEW m2, s2.position = s.position, s2.data = s.data,
           Advance(m, m2, w), BacklogSize \in Nat,
           c.state = "online" => s.position # None
    PROVE  Kept(s, c, m, s2, FedClient(c, w), m2) \/ ~Link(s, c, m)
<1> SUFFICES ASSUME Link(s, c, m)
             PROVE  Kept(s, c, m, s2, FedClient(c, w), m2)
  OBVIOUS
<1> DEFINE c2 == FedClient(c, w)
<1>1. /\ s.data \in Data /\ c.out \in Data /\ c.rdb \in Data /\ m.data \in Data
      /\ m.bgsave # None => m.bgsave \in Data
      /\ m.backlog # None => m.backlog \in Data
      /\ m.offset \in Nat /\ c.init \in Nat /\ Len(c.out) \in Nat
      /\ s.position # None => s.position.off \in Nat
  BY EmptyData DEF Repl!State, Repl!Client, Repl!Position, Repl!Data, Data
<1>2. Append(c.out, w) \in Data /\ Len(Append(c.out, w)) = Len(c.out) + 1
  BY <1>1, AppendProperties DEF Data
<1>3. ASSUME NEW d \in Data, Makes(d, c.out, m.data)
      PROVE  Makes(d, Append(c.out, w), m2.data)
  BY <1>1, <1>3, MakesMore DEF Advance
<1>4. Link(s2, c2, m2) /\ (InSync(s, c, m) => InSync(s2, c2, m2))
  <2>1. CASE c = Repl!NoClient \/ c.state = "wait_start"
    <3>1. c2 = c /\ c.state \in {"none", "wait_start"}
      BY <2>1 DEF FedClient, Repl!NoClient
    <3>2. m.backlog # None => m2.backlog # None
      BY DEF Advance
    <3> QED
      BY <3>1, <3>2 DEF Link, InSync, Advance
  <2>2. CASE ~(c = Repl!NoClient \/ c.state = "wait_start")
    <3>1. c2.state = c.state /\ c2.out = Append(c.out, w) /\ c2.rdb = c.rdb
          /\ c2.init = c.init
      BY <2>2 DEF FedClient, Repl!Client
    <3>2. /\ m.backlog # None /\ m2.backlog # None /\ m2.offset = m.offset + 1
          /\ m2.bgsave = m.bgsave /\ m2.run = m.run /\ m2.state = m.state
      BY <2>2 DEF Link, Advance
    <3> HIDE DEF c2
    <3>3. Older(s2.position, m2.run) /\ m2.state # "transfer"
      BY <2>2, <3>2 DEF Link
    <3>4. c2.state = "wait_end" =>
             /\ m2.bgsave # None /\ Makes(m2.bgsave, c2.out, m2.data)
             /\ c2.init + Len(c2.out) = m2.offset
      BY <1>1, <1>2, <1>3, <3>1, <3>2 DEF Link
    <3>5. c2.state = "send_bulk" =>
             /\ Makes(c2.rdb, c2.out, m2.data)
             /\ c2.init + Len(c2.out) = m2.offset
      BY <1>1, <1>2, <1>3, <3>1, <3>2 DEF Link
    <3>6. c2.state = "online" => s2.position.off + Len(c2.out) = m2.offset
      <4> SUFFICES ASSUME c.state = "online"
                   PROVE  s.position.off + Len(c2.out) = m2.offset
        BY <3>1
      <4>1. s.position.off + Len(c.out) = m.offset
        BY DEF Link
      <4>2. s.position.off \in Nat
        BY <1>1
      <4> QED
        BY <1>1, <1>2, <3>1, <3>2, <4>1, <4>2
    <3>7. Link(s2, c2, m2)
      BY <3>2, <3>3, <3>4, <3>5, <3>6 DEF Link
    <3>8. InSync(s, c, m) => InSync(s2, c2, m2)
      BY <1>1, <1>3, <3>1 DEF InSync
    <3> QED
      BY <3>7, <3>8
  <2> QED
    BY <2>1, <2>2
<1>7. ASSUME Resumable(s, m)
      PROVE  Resumable(s2, m2)
  <2>1. CASE m.backlog = None
    BY <1>7, <2>1 DEF Resumable, Advance
  <2>2. CASE m.backlog # None
    <3> SUFFICES ASSUME s.position # None, s.position.run = m.run
                 PROVE  Resumable(s2, m2)
      BY DEF Resumable, Advance
    <3>1. /\ Len(m2.backlog) \in 0..Len(m.backlog) + 1 /\ Len(m.backlog) \in Nat
          /\ m2.offset = m.offset + 1 /\ m2.data = Append(m.data, w)
      BY <1>1, <2>2, TrimmedLen, EmptyData DEF Advance
    <3> SUFFICES ASSUME m.offset + 1 <= s.position.off + Len(m2.backlog)
                 PROVE  \E o \in Data : /\ Makes(s.data, o, m2.data)
                                        /\ s.position.off + Len(o) = m2.offset
      BY <1>1, <1>7, <3>1 DEF Resumable
    <3>2. m.offset <= s.position.off + Len(m.backlog)
      <4>1. PICK i \in Nat : i = m.offset
        BY <1>1, Zenon
      <4>2. PICK j \in Nat : j = s.position.off
        BY <1>1, Zenon
      <4>3. PICK l \in Nat : l = Len(m.backlog)
        BY <3>1, Zenon
      <4>4. PICK k \in 0..l + 1 : k = Len(m2.backlog)
        BY <3>1, <4>3, Zenon
      <4>5. i + 1 <= j + k
        BY <4>1, <4>2, <4>4, Zenon
      <4>6. i <= j + l
        BY <4>5
      <4> QED
        BY <4>1, <4>2, <4>3, <4>6, Zenon
    <3>3. PICK o \in Data : Makes(s.data, o, m.data) /\ s.position.off + Len(o) = m.offset
      BY <1>7, <2>2, <3>2 DEF Resumable
    <3>4. /\ Makes(s.data, Append(o, w), Append(m.data, w)) /\ Append(o, w) \in Data
          /\ Len(Append(o, w)) = Len(o) + 1 /\ Len(o) \in Nat
      BY <1>1, <3>3, MakesMore, EmptyData
    <3>5. s.position.off + Len(Append(o, w)) = m2.offset
      <4>1. s.position.off \in Nat /\ m2.offset = m.offset + 1
        BY <1>1, <3>1
      <4>2. Len(o) \in Nat /\ Len(Append(o, w)) = Len(o) + 1
        BY <3>4
      <4> QED
        BY <3>3, <4>1, <4>2
    <3> QED
      BY <3>1, <3>4, <3>5
  <2> QED
    BY <2>1, <2>2
<1> QED
  BY <1>4, <1>7 DEF Kept

\* The slave takes the next write from its link.
LEMMA KeptApplied ==
    ASSUME NEW s, NEW c, NEW m, NEW s2, NEW c2,
           c.state = "online", c2.state = "online", c # Repl!NoClient,
           s.data \in Data, c.out \in Data, c.out # <<>>, m.offset \in Nat,
           c2.out = Tail(c.out), s2.data = Append(s.data, Head(c.out)),
           s.position # None, s2.position # None, s.position.off \in Nat,
           s2.position.off = s.position.off + 1, s2.position.run = s.position.run
    PROVE  Kept(s, c, m, s2, c2, m) \/ ~Link(s, c, m)
<1> SUFFICES ASSUME Link(s, c, m)
             PROVE  Kept(s, c, m, s2, c2, m)
  OBVIOUS
<1>1. /\ Tail(c.out) \in Data /\ Len(Tail(c.out)) = Len(c.out) - 1
      /\ Len(c.out) \in Nat /\ Len(Tail(c.out)) \in Nat
  BY HeadTailProperties, LenProperties DEF Data
<1>2. s2.position.off + Len(c2.out) = m.offset
  <2>1. s.position.off + Len(c.out) = m.offset
    BY DEF Link
  <2> QED
    BY <1>1, <2>1
<1>3. Link(s2, c2, m)
  BY <1>2 DEF Link, Older
<1>4. ASSUME InSync(s, c, m)
      PROVE  InSync(s2, c2, m) /\ Resumable(s2, m)
  <2>1. Makes(s2.data, c2.out, m.data)
    BY <1>4, MakesTaken DEF InSync
  <2>2. s2.position.off <= m.offset
    BY <1>1, <1>2
  <2> QED
    BY <1>1, <1>2, <2>1, <2>2 DEF InSync, Resumable
<1> QED
  BY <1>3, <1>4 DEF Kept

\* The slave gives up its position, and waits for the file.
LEMMA KeptForgets ==
    ASSUME NEW s, NEW c, NEW m, NEW s2, NEW m2, s2.position = None,
           c.state # "online", m2.data = m.data, m2.offset = m.offset,
           m2.backlog = m.backlog, m2.bgsave = m.bgsave,
           m2.state = "transfer" => m.state = "transfer"
    PROVE  Kept(s, c, m, s2, c, m2)
  BY DEF Kept, Link, InSync, Resumable, Older

\* The file was loaded: the slave is where it was told that the file ends.
LEMMA KeptLoaded ==
    ASSUME NEW s, NEW c, NEW m, NEW s2, NEW c2,
           c.state = "send_bulk", c2.state = "online",
           c2.out = c.out, c.out \in Data, c.init \in Nat, m.offset \in Nat,
           s2.data = c.rdb, s2.position # None, s2.position.off = c.init,
           s2.position.run = m.run, m.run[2] \in Nat
    PROVE  Kept(s, c, m, s2, c2, m) \/ ~Link(s, c, m)
<1> SUFFICES ASSUME Link(s, c, m)
             PROVE  Kept(s, c, m, s2, c2, m)
  OBVIOUS
<1>1. /\ Makes(c.rdb, c.out, m.data) /\ c.init + Len(c.out) = m.offset
      /\ Len(c.out) \in Nat /\ c # Repl!NoClient
  BY EmptyData DEF Link, Repl!NoClient
<1>2. Link(s2, c2, m)
  BY <1>1 DEF Link, Older
<1>3. InSync(s2, c2, m) /\ Resumable(s2, m)
  BY <1>1 DEF InSync, Resumable
<1> QED
  BY <1>2, <1>3 DEF Kept

\* A new backlog: where a slave has been is before its beginning.
LEMMA KeptCreated ==
    ASSUME NEW s, NEW m, NEW m2, m.backlog = None, m2.backlog = <<>>,
           m.offset \in Nat, m2.offset = m.offset + 1, m2.run = m.run,
           s.position # None => s.position.off \in Nat
    PROVE  Kept(s, Repl!NoClient, m, s, Repl!NoClient, m2)
<1>1. Resumable(s, m) => Resumable(s, m2)
  BY MakesEmpty DEF Resumable
<1> QED
  BY <1>1 DEF Kept, Link, InSync, Repl!NoClient

-----------------------------------------------------------------------------
(* Replication: the inductive invariant, and what a step has to keep *)

ReplTyped ==
    /\ srv \in [Server -> Repl!State]
    /\ cl \in [Server -> Repl!Client]
    /\ count \in [Repl!Events -> Nat]

\* The server z and its link, if it is a slave.
Member(z) ==
    /\ Own(srv[z], cl[z])
    /\ srv[z].run[1] = z
    /\ srv[z].host = None => cl[z] = Repl!NoClient
    /\ srv[z].host # None => Link(srv[z], cl[z], srv[srv[z].host])
    /\ cl[z] # Repl!NoClient => srv[z].host # z

Sync(z) == srv[z].host # None => InSync(srv[z], cl[z], srv[srv[z].host])
Resume(z) == srv[z].host # None => Resumable(srv[z], srv[srv[z].host])

ReplInv ==
    /\ Repl!ReplicationAssumption
    /\ ReplTyped
    /\ \A z \in Server : Member(z)

\* NoPsyncWithOldSlave, of one slave.
NotOld(z) ==
    srv[z].state = "connect" /\ Repl!Ready(srv[z].host)
    /\ Repl!CanContinue(z, srv[z].host)
       => srv[z].data \o Repl!Missing(z, srv[z].host) = srv[srv[z].host].data

\* What a step keeps of z.
StepKeeps(z) ==
    /\ Member(z)'
    /\ Sync(z) /\ NotOld(z) => Sync(z)'
    /\ Sync(z) /\ Resume(z) /\ count'["slaveof"] = 0 => Resume(z)'

StepOK == ReplTyped' /\ \A z \in Server : StepKeeps(z)

LEMMA SameData == Repl!Data = Data
  BY DEF Repl!Data, Data

LEMMA ReplFacts ==
    ASSUME ReplInv
    PROVE  /\ None \notin Server /\ None \notin Data /\ BacklogSize \in Nat
           /\ <<>> \in Data
           /\ \A z \in Server :
                 /\ srv[z] \in Repl!State /\ cl[z] \in Repl!Client
                 /\ srv[z].data \in Data /\ srv[z].disk \in Data
                 /\ srv[z].bgsave \in Data \cup {None}
                 /\ srv[z].backlog \in Data \cup {None}
                 /\ srv[z].offset \in Nat
                 /\ srv[z].run \in Server \X Nat
                 /\ srv[z].host \in Server \cup {None}
                 /\ srv[z].position # None =>
                       /\ srv[z].position \in Repl!Position
                       /\ srv[z].position.off \in Nat
                       /\ srv[z].position.run \in Server \X Nat
                 /\ cl[z].out \in Data /\ cl[z].rdb \in Data /\ cl[z].init \in Nat
                 /\ Member(z)
<1>1. /\ None \notin Server /\ None \notin Data /\ BacklogSize \in Nat
      /\ <<>> \in Data
  BY EmptySeq DEF ReplInv, Repl!ReplicationAssumption, Repl!Data, Data
<1>2. ASSUME NEW z \in Server
      PROVE  /\ srv[z] \in Repl!State /\ cl[z] \in Repl!Client /\ Member(z)
  BY DEF ReplInv, ReplTyped
<1> QED
  BY <1>1, <1>2 DEF Repl!State, Repl!Client, Repl!Position, Repl!RunId, Repl!Data, Data

\* Who has a slave has a backlog, and is not loading a file.
LEMMA SlavesFacts ==
    ASSUME ReplInv, NEW x \in Server
    PROVE  /\ x \notin Repl!Slaves(x)
           /\ Repl!Slaves(x) # {} => srv[x].backlog # None
           /\ srv[x].state = "transfer" => Repl!Slaves(x) = {}
           /\ \A z \in Server : z \in Repl!Slaves(x) <=>
                                  srv[z].host = x /\ cl[z] # Repl!NoClient
<1>1. x # None
  BY ReplFacts
<1>2. \A z \in Server : Member(z)
  BY DEF ReplInv
<1> QED
  BY <1>1, <1>2 DEF Repl!Slaves, Member, Link

\* The change of a server whose master stays the same.
LEMMA KeepsOne ==
    ASSUME ReplInv, NEW z \in Server, srv'[z].host = srv[z].host,
           Own(srv'[z], cl'[z]), srv'[z].run[1] = z,
           srv[z].host = None => cl'[z] = Repl!NoClient,
           cl'[z] # Repl!NoClient => srv[z].host # z,
           srv[z].host # None =>
              Kept(srv[z], cl[z], srv[srv[z].host],
                   srv'[z], cl'[z], srv'[srv[z].host])
    PROVE  StepKeeps(z)
<1>1. Member(z)
  BY DEF ReplInv
<1> QED
  BY <1>1 DEF StepKeeps, Member, Sync, Resume, Kept

\* The change of a server that only leaves its master.
LEMMA KeepsAlone ==
    ASSUME ReplInv, NEW z \in Server, cl'[z] = Repl!NoClient,
           Own(srv'[z], Repl!NoClient), srv'[z].run[1] = z,
           srv'[z].position = None
    PROVE  StepKeeps(z)
  BY DEF StepKeeps, Member, Sync, Resume, InSync, Resumable, Link, Older, Repl!NoClient

\* A server and its master that both go on as they were.
LEMMA KeepsFrame ==
    ASSUME ReplInv, NEW z \in Server, srv'[z] = srv[z], cl'[z] = cl[z],
           srv[z].host # None => srv'[srv[z].host] = srv[srv[z].host]
    PROVE  StepKeeps(z)
<1>1. Member(z)
  BY DEF ReplInv
<1> QED
  BY <1>1 DEF StepKeeps, Member, Sync, Resume

LEMMA CountedEvent ==
    ASSUME ReplInv, NEW e \in Repl!Events, Repl!Happens(e)
    PROVE  /\ count' \in [Repl!Events -> Nat]
           /\ e = "slaveof" => count'["slaveof"] # 0
  BY DEF ReplInv, ReplTyped, Repl!Happens

LEMMA FeedFacts ==
    ASSUME ReplInv, NEW x \in Server, NEW c \in [Server -> Repl!Client], NEW w \in Nat,
           \A z \in Server : c[z] # Repl!NoClient <=> cl[z] # Repl!NoClient,
           NEW z \in Server
    PROVE  Repl!Feed(x, c, w)[z] =
              IF srv[z].host = x THEN FedClient(c[z], w) ELSE c[z]
  BY SlavesFacts DEF Repl!Feed, FedClient

LEMMA FedClientTyped ==
    ASSUME NEW c \in Repl!Client, NEW w \in Nat
    PROVE  /\ FedClient(c, w) \in Repl!Client
           /\ FedClient(c, w).state = c.state
           /\ FedClient(c, w) = Repl!NoClient <=> c = Repl!NoClient
           /\ c.state = "wait_start" => FedClient(c, w).out = c.out
<1>1. CASE c = Repl!NoClient \/ c.state = "wait_start"
  BY <1>1 DEF FedClient
<1>2. CASE ~(c = Repl!NoClient \/ c.state = "wait_start")
  <2>1. c.out \in Data /\ Append(c.out, w) \in Data
    BY AppendData DEF Repl!Client, Repl!Data, Data
  <2>2. FedClient(c, w) = [c EXCEPT !.out = Append(@, w)]
    BY <1>2 DEF FedClient
  <2>3. FedClient(c, w) \in Repl!Client
    BY <2>1, <2>2 DEF Repl!Client, Repl!Data, Data
  <2>4. FedClient(c, w).out # <<>> /\ FedClient(c, w).state = c.state
    BY <2>1, <2>2, AppendProperties DEF Repl!Client, Data
  <2> QED
    BY <1>2, <2>3, <2>4 DEF Repl!NoClient
<1> QED
  BY <1>1, <1>2

-----------------------------------------------------------------------------
(* Replication: writes *)

\* m is what the server s is after it executed w and moved to the position p.
Executed(s, m, p, w) ==
    /\ m \in Repl!State /\ Advance(s, m, w)
    /\ m.host = s.host /\ m.position = p
    /\ m.backlog # None => EndsIn(m.data, m.backlog)

LEMMA GrownState ==
    ASSUME NEW s \in Repl!State, NEW n \in Nat, NEW t \in Data
    PROVE  LET m == [s EXCEPT !.offset = n, !.backlog = t]
           IN  /\ m \in Repl!State /\ m.host = s.host /\ m.state = s.state
               /\ m.position = s.position /\ m.run = s.run /\ m.bgsave = s.bgsave
               /\ m.data = s.data /\ m.backlog = t /\ m.offset = n
  BY SameData DEF Repl!State

LEMMA WrittenState ==
    ASSUME NEW s \in Repl!State, NEW d \in Data
    PROVE  LET m == [s EXCEPT !.data = d]
           IN  /\ m \in Repl!State /\ m.host = s.host /\ m.state = s.state
               /\ m.position = s.position /\ m.run = s.run /\ m.bgsave = s.bgsave
               /\ m.data = d /\ m.backlog = s.backlog /\ m.offset = s.offset
  BY SameData DEF Repl!State

LEMMA FedState ==
    ASSUME ReplInv, NEW x \in Server, NEW m \in Repl!State, NEW w \in Nat,
           m.backlog = srv[x].backlog
    PROVE  LET f == Repl!Fed(x, m, w)
           IN  /\ f \in Repl!State /\ f.host = m.host /\ f.state = m.state
               /\ f.position = m.position /\ f.run = m.run /\ f.bgsave = m.bgsave
               /\ f.data = m.data
               /\ IF m.backlog = None
                  THEN f.backlog = None /\ f.offset = m.offset
                  ELSE /\ f.offset = m.offset + 1
                       /\ f.backlog = Repl!Trimmed(Append(m.backlog, w))
                       /\ f.backlog # None
                       /\ EndsIn(Append(srv[x].data, w), f.backlog)
<1>1. CASE m.backlog = None
  BY <1>1, SlavesFacts DEF Repl!Fed
<1>2. CASE m.backlog # None
  <2> DEFINE t == Repl!Trimmed(Append(m.backlog, w))
  <2>1. EndsIn(Append(srv[x].data, w), t) /\ t \in Data /\ t # None
    BY <1>2, ReplFacts, EndsInMore DEF Member, Own
  <2>2. Repl!Fed(x, m, w) = [m EXCEPT !.offset = @ + 1, !.backlog = t]
    BY <1>2, SlavesFacts DEF Repl!Fed
  <2>3. m.offset + 1 \in Nat
    BY DEF Repl!State
  <2>4. PICK n \in Nat : n = m.offset + 1
    BY <2>3
  <2> HIDE DEF t
  <2>5. Repl!Fed(x, m, w) = [m EXCEPT !.offset = n, !.backlog = t]
    BY <2>2, <2>4
  <2>6. LET f == [m EXCEPT !.offset = n, !.backlog = t]
        IN  /\ f \in Repl!State /\ f.host = m.host /\ f.state = m.state
            /\ f.position = m.position /\ f.run = m.run /\ f.bgsave = m.bgsave
            /\ f.data = m.data /\ f.backlog = t /\ f.offset = n
    BY <2>1, GrownState
  <2>7. PICK f : f = Repl!Fed(x, m, w)
    OBVIOUS
  <2>8. /\ f \in Repl!State /\ f.host = m.host /\ f.state = m.state
        /\ f.position = m.position /\ f.run = m.run /\ f.bgsave = m.bgsave
        /\ f.data = m.data /\ f.backlog = t /\ f.offset = n
    BY <2>5, <2>6, <2>7, Zenon
  <2> QED
    BY <1>2, <2>1, <2>4, <2>7, <2>8 DEF t
<1> QED
  BY <1>1, <1>2

LEMMA WriteExecuted ==
    ASSUME ReplInv, NEW x \in Server, NEW w \in Nat
    PROVE  Executed(srv[x], [Repl!Fed(x, srv[x], w) EXCEPT !.data = Append(@, w)],
                    srv[x].position, w)
<1>1. PICK f : f = Repl!Fed(x, srv[x], w)
  OBVIOUS
<1>2. /\ f \in Repl!State /\ f.host = srv[x].host /\ f.state = srv[x].state
      /\ f.position = srv[x].position /\ f.run = srv[x].run /\ f.bgsave = srv[x].bgsave
      /\ f.data = srv[x].data
      /\ IF srv[x].backlog = None
         THEN f.backlog = None /\ f.offset = srv[x].offset
         ELSE /\ f.offset = srv[x].offset + 1
              /\ f.backlog = Repl!Trimmed(Append(srv[x].backlog, w))
              /\ f.backlog # None
              /\ EndsIn(Append(srv[x].data, w), f.backlog)
  BY <1>1, ReplFacts, FedState
<1>3. PICK d \in Data : d = Append(srv[x].data, w)
  BY ReplFacts, AppendData
<1>4. PICK m : m = [f EXCEPT !.data = d]
  OBVIOUS
<1>5. /\ m \in Repl!State /\ m.host = f.host /\ m.state = f.state
      /\ m.position = f.position /\ m.run = f.run /\ m.bgsave = f.bgsave
      /\ m.data = d /\ m.backlog = f.backlog /\ m.offset = f.offset
  BY <1>2, <1>4, WrittenState
<1>6. Executed(srv[x], m, srv[x].position, w)
  BY <1>2, <1>3, <1>5 DEF Executed, Advance
<1>7. [Repl!Fed(x, srv[x], w) EXCEPT !.data = Append(@, w)] = [f EXCEPT !.data = d]
  BY <1>1, <1>2, <1>3
<1> QED
  BY <1>4, <1>6, <1>7

LEMMA ApplyExecuted ==
    ASSUME ReplInv, NEW x \in Server, NEW w \in Nat, srv[x].position # None
    PROVE  LET p == [srv[x].position EXCEPT !.off = @ + 1]
           IN  /\ p \in Repl!Position
               /\ Executed(srv[x], Repl!Fed(x, [srv[x] EXCEPT !.data = Append(@, w),
                                                      !.position.off = @ + 1], w), p, w)
<1> DEFINE p == [srv[x].position EXCEPT !.off = @ + 1]
           m == [srv[x] EXCEPT !.data = Append(@, w), !.position.off = @ + 1]
<1>1. srv[x] \in Repl!State /\ srv[x].position \in Repl!Position
  BY ReplFacts
<1>2. p \in Repl!Position
  BY <1>1 DEF Repl!Position
<1>3. PICK d \in Data : d = Append(srv[x].data, w)
  BY ReplFacts, AppendData
<1>4. m = [srv[x] EXCEPT !.data = d, !.position = p]
  BY <1>1, <1>3 DEF Repl!State
<1> HIDE DEF p, m
<1>5. /\ m \in Repl!State /\ m.host = srv[x].host /\ m.state = srv[x].state
      /\ m.position = p /\ m.run = srv[x].run /\ m.bgsave = srv[x].bgsave
      /\ m.data = d /\ m.backlog = srv[x].backlog /\ m.offset = srv[x].offset
  BY <1>1, <1>2, <1>4, SameData DEF Repl!State
<1>6. PICK f : f = Repl!Fed(x, m, w)
  OBVIOUS
<1>7. /\ f \in Repl!State /\ f.host = m.host /\ f.state = m.state
      /\ f.position = m.position /\ f.run = m.run /\ f.bgsave = m.bgsave
      /\ f.data = m.data
      /\ IF srv[x].backlog = None
         THEN f.backlog = None /\ f.offset = m.offset
         ELSE /\ f.offset = m.offset + 1
              /\ f.backlog = Repl!Trimmed(Append(srv[x].backlog, w))
              /\ f.backlog # None
              /\ EndsIn(Append(srv[x].data, w), f.backlog)
  BY <1>5, <1>6, FedState
<1>8. Executed(srv[x], f, p, w)
  BY <1>3, <1>5, <1>7 DEF Executed, Advance
<1> QED
  BY <1>2, <1>6, <1>8 DEF p, m

\* The slaves of a server that executes w.
LEMMA FedKeeps ==
    ASSUME ReplInv, NEW x \in Server, NEW z \in Server \ {x}, NEW w \in Nat,
           srv'[z] = srv[z],
           cl'[z] = IF srv[z].host = x THEN FedClient(cl[z], w) ELSE cl[z],
           Advance(srv[x], srv'[x], w),
           \A y \in Server \ {x} : srv'[y] = srv[y]
    PROVE  StepKeeps(z)
<1>1. /\ srv[z] \in Repl!State /\ cl[z] \in Repl!Client /\ srv[x] \in Repl!State
      /\ BacklogSize \in Nat /\ Member(z)
      /\ FedClient(cl[z], w).state = cl[z].state
      /\ FedClient(cl[z], w) = Repl!NoClient <=> cl[z] = Repl!NoClient
      /\ cl[z].state = "wait_start" => FedClient(cl[z], w).out = cl[z].out
  BY ReplFacts, FedClientTyped
<1>2. CASE srv[z].host = x
  <2>1. Link(srv[z], cl[z], srv[x]) /\ (cl[z].state = "online" => srv[z].position # None)
    BY <1>1, <1>2, ReplFacts DEF Member, Own
  <2>2. Kept(srv[z], cl[z], srv[x], srv'[z], cl'[z], srv'[x])
    BY <1>1, <1>2, <2>1, KeptFed
  <2>3. Own(srv'[z], cl'[z])
    BY <1>1, <1>2 DEF Member, Own
  <2> QED
    BY <1>1, <1>2, <2>2, <2>3, KeepsOne, ReplFacts DEF Member
<1>3. CASE srv[z].host # x
  BY <1>3, ReplFacts, KeepsFrame
<1> QED
  BY <1>2, <1>3

LEMMA WriteKeeps ==
    ASSUME ReplInv, NEW x \in Server, Repl!Write(x)
    PROVE  StepOK
<1> DEFINE w == count'["write"]
           m == [Repl!Fed(x, srv[x], w) EXCEPT !.data = Append(@, w)]
<1>1. /\ srv[x].host = None /\ Repl!Happens("write")
      /\ srv' = [srv EXCEPT ![x] = m] /\ cl' = Repl!Feed(x, cl, w)
  BY DEF Repl!Write
<1>2. count' \in [Repl!Events -> Nat] /\ w \in Nat
  BY <1>1, CountedEvent DEF Repl!Events
<1>3. PICK v \in Nat : v = w
  BY <1>2
<1>4. Executed(srv[x], m, srv[x].position, v)
  BY <1>3, WriteExecuted
<1>5. \A z \in Server : cl'[z] = IF srv[z].host = x THEN FedClient(cl[z], v) ELSE cl[z]
  BY <1>1, <1>3, FeedFacts DEF ReplInv, ReplTyped
<1>6. cl' \in [Server -> Repl!Client]
  <2>1. \A z \in Server : cl[z] \in Repl!Client /\ FedClient(cl[z], v) \in Repl!Client
    BY ReplFacts, FedClientTyped
  <2>2. cl' = [z \in Server |-> cl'[z]]
    BY <1>1 DEF Repl!Feed
  <2> QED
    BY <1>5, <2>1, <2>2
<1>7. /\ m \in Repl!State /\ Advance(srv[x], m, v)
      /\ m.host = srv[x].host /\ m.position = srv[x].position
      /\ m.backlog # None => EndsIn(m.data, m.backlog)
  BY <1>4 DEF Executed
<1>8. srv'[x] = m /\ \A z \in Server \ {x} : srv'[z] = srv[z]
  BY <1>1 DEF ReplInv, ReplTyped
<1> HIDE DEF m, w
<1>9. ReplTyped'
  BY <1>1, <1>2, <1>6, <1>7 DEF ReplInv, ReplTyped
<1>10. StepKeeps(x)
  <2>1. Member(x) /\ x # None /\ cl[x] = Repl!NoClient /\ cl'[x] = Repl!NoClient
    BY <1>1, <1>5, ReplFacts DEF Member
  <2>2. /\ m.host = srv[x].host /\ m.state = srv[x].state
        /\ m.position = srv[x].position /\ m.run = srv[x].run
    BY <1>7 DEF Advance
  <2>3. Own(m, Repl!NoClient) /\ m.position = None /\ m.run[1] = x
    BY <1>1, <1>7, <2>1, <2>2 DEF Member, Own
  <2> QED
    BY <1>8, <2>1, <2>3, KeepsAlone
<1>11. ASSUME NEW z \in Server \ {x} PROVE StepKeeps(z)
  BY <1>5, <1>7, <1>8, FedKeeps
<1> QED
  BY <1>9, <1>10, <1>11 DEF StepOK

LEMMA ApplyKeeps ==
    ASSUME ReplInv, NEW x \in Server, Repl!Apply(x)
    PROVE  StepOK
<1> DEFINE w == Head(cl[x].out)
           m == [srv[x] EXCEPT !.data = Append(@, w), !.position.off = @ + 1]
           c == [cl EXCEPT ![x].out = Tail(@)]
           h == srv[x].host
<1>1. /\ srv[x].state = "connected" /\ cl[x].out # <<>>
      /\ srv' = [srv EXCEPT ![x] = Repl!Fed(x, m, w)]
      /\ cl' = Repl!Feed(x, c, w) /\ count' = count
  BY DEF Repl!Apply
<1>2. /\ cl[x].state = "online" /\ srv[x].position # None /\ cl[x] # Repl!NoClient
      /\ srv[x].host \in Server /\ srv[x].host # x /\ x # None
      /\ Member(x) /\ w \in Nat
  <2>1. cl[x].out \in Data /\ Member(x)
    BY ReplFacts
  <2>2. w \in Nat
    BY <1>1, <2>1, HeadTailProperties DEF Data
  <2> QED
    BY <1>1, <2>1, <2>2, ReplFacts DEF Member, Own, Repl!NoClient
<1>3. PICK v \in Nat : v = w
  BY <1>2
<1>4. PICK p : p = [srv[x].position EXCEPT !.off = @ + 1]
  OBVIOUS
<1>5. Executed(srv[x], Repl!Fed(x, m, w), p, v) /\ p \in Repl!Position
  BY <1>2, <1>3, <1>4, ApplyExecuted
<1>6. c \in [Server -> Repl!Client] /\ c[x].state = "online" /\ c[x].out = Tail(cl[x].out)
      /\ c[x] # Repl!NoClient /\ \A z \in Server \ {x} : c[z] = cl[z]
  <2>1. cl \in [Server -> Repl!Client] /\ cl[x].out \in Data
    BY ReplFacts DEF ReplInv, ReplTyped
  <2>2. Tail(cl[x].out) \in Data
    BY <1>1, <2>1, HeadTailProperties DEF Data
  <2>3. PICK t \in Data : t = Tail(cl[x].out)
    BY <2>2
  <2>4. c = [cl EXCEPT ![x].out = t]
    BY <2>3
  <2> HIDE DEF c
  <2>5. c \in [Server -> Repl!Client] /\ c[x].state = cl[x].state /\ c[x].out = t
        /\ \A z \in Server \ {x} : c[z] = cl[z]
    BY <2>1, <2>4, SameData DEF Repl!Client
  <2> QED
    BY <1>2, <2>3, <2>5 DEF Repl!NoClient
<1>7. \A z \in Server : c[z] # Repl!NoClient <=> cl[z] # Repl!NoClient
  BY <1>2, <1>6
<1>8. \A z \in Server : cl'[z] = IF srv[z].host = x THEN FedClient(c[z], v) ELSE c[z]
  <2> HIDE DEF c
  <2> QED
    BY <1>1, <1>3, <1>6, <1>7, FeedFacts
<1> HIDE DEF c, m, w
<1>9. cl' \in [Server -> Repl!Client]
  <2>1. \A z \in Server : c[z] \in Repl!Client /\ FedClient(c[z], v) \in Repl!Client
    BY <1>6, FedClientTyped
  <2>2. cl' = [z \in Server |-> cl'[z]]
    BY <1>1 DEF Repl!Feed
  <2> QED
    BY <1>8, <2>1, <2>2
<1>10. Executed(srv[x], srv'[x], p, v) /\ \A z \in Server \ {x} : srv'[z] = srv[z]
  BY <1>1, <1>5 DEF ReplInv, ReplTyped
<1>11. ReplTyped'
  <2>1. srv'[x] \in Repl!State
    BY <1>10 DEF Executed
  <2> QED
    BY <1>1, <1>9, <2>1 DEF ReplInv, ReplTyped
<1>12. ASSUME NEW z \in Server \ {x} PROVE StepKeeps(z)
  BY <1>6, <1>8, <1>10, FedKeeps DEF Executed
<1>13. StepKeeps(x)
  <2>1. /\ cl'[x] = c[x] /\ srv'[h] = srv[h]
        /\ srv'[x].host = h /\ srv'[x].state = "connected"
        /\ srv'[x].position = p /\ srv'[x].run = srv[x].run
        /\ srv'[x].data = Append(srv[x].data, v)
        /\ srv'[x].backlog # None => EndsIn(srv'[x].data, srv'[x].backlog)
    BY <1>1, <1>2, <1>8, <1>10 DEF Executed, Advance
  <2>2. p.off = srv[x].position.off + 1 /\ p.run = srv[x].position.run /\ p # None
    BY <1>2, <1>4, <1>5, ReplFacts DEF Repl!Position, ReplInv, Repl!ReplicationAssumption
  <2>3. Own(srv'[x], cl'[x])
    BY <1>2, <1>6, <2>1, <2>2 DEF Member, Own
  <2>4. Kept(srv[x], cl[x], srv[h], srv'[x], cl'[x], srv[h])
    <3>1. /\ srv[x].data \in Data /\ cl[x].out \in Data /\ srv[h].offset \in Nat
          /\ srv[x].position.off \in Nat /\ Link(srv[x], cl[x], srv[h])
      BY <1>2, ReplFacts DEF Member
    <3>2. v = Head(cl[x].out) /\ cl'[x].state = "online" /\ cl'[x].out = Tail(cl[x].out)
      BY <1>3, <1>6, <2>1 DEF w
    <3>3. PICK d : d = cl'[x]
      OBVIOUS
    <3>4. PICK s : s = srv'[x]
      OBVIOUS
    <3> QED
      <4>1. s.position = p /\ s.position # None /\ s.data = Append(srv[x].data, v)
        BY <2>1, <2>2, <3>4
      <4>2. d.state = "online" /\ d.out = Tail(cl[x].out)
        BY <3>2, <3>3
      <4>3. PICK a, e, g : a = srv[x] /\ e = cl[x] /\ g = srv[h]
        OBVIOUS
      <4>4. /\ e.state = "online" /\ e # Repl!NoClient /\ e.out # <<>>
            /\ a.position # None
        BY <1>1, <1>2, <4>3
      <4>5. Kept(a, e, g, s, d, g) \/ ~Link(a, e, g)
        <5>1. /\ a.data \in Data /\ e.out \in Data /\ g.offset \in Nat
              /\ a.position.off \in Nat
          BY <3>1, <4>3, Zenon
        <5>2. d.state = "online" /\ d.out = Tail(e.out)
              /\ s.data = Append(a.data, Head(e.out))
          BY <3>2, <4>1, <4>2, <4>3, Zenon
        <5>3. /\ s.position # None /\ s.position.off = a.position.off + 1
              /\ s.position.run = a.position.run
          BY <2>2, <4>1, <4>3, Zenon
        <5> QED
          BY <4>4, <5>1, <5>2, <5>3, KeptApplied, Zenon
      <4>6. Kept(srv[x], cl[x], srv[h], s, d, srv[h])
        BY <3>1, <4>3, <4>5, Zenon
      <4> QED
        BY <3>3, <3>4, <4>6, Zenon
  <2> QED
    BY <1>2, <1>6, <2>1, <2>3, <2>4, KeepsOne DEF Member
<1> QED
  BY <1>11, <1>12, <1>13 DEF StepOK

-----------------------------------------------------------------------------
(* Replication: BGSAVE and the slaves that wait for it *)

\* What the replication of s, and of its slaves, does not see.
SameView(s, s2) ==
    /\ s2.run = s.run /\ s2.host = s.host /\ s2.position = s.position
    /\ s2.data = s.data /\ s2.state = s.state /\ s2.backlog = s.backlog
    /\ s2.offset = s.offset

\* What the slaves of m do not see.
SameMaster(m, m2) ==
    /\ m2.run = m.run /\ m2.data = m.data /\ m2.backlog = m.backlog
    /\ m2.offset = m.offset /\ (m2.state = "transfer" => m.state = "transfer")

\* The client of a slave before and after the end of a BGSAVE of its master.
Progress(c, c2, m, m2) ==
    \/ c2 = c /\ (c.state = "wait_end" => m2.bgsave = m.bgsave)
    \/ /\ c.state = "wait_end" /\ c2.state = "send_bulk"
       /\ c2.out = c.out /\ c2.rdb = m.bgsave /\ c2.init = c.init
    \/ /\ c.state = "wait_start" /\ c2.state = "wait_end"
       /\ c2.out = c.out /\ c2.init = m.offset
       /\ m2.bgsave = m.data

LEMMA KeptProgress ==
    ASSUME NEW s, NEW c, NEW m, NEW s2, NEW c2, NEW m2,
           SameView(s, s2), SameMaster(m, m2), Progress(c, c2, m, m2),
           m.data \in Data, None \notin Data, m.offset \in Nat,
           c.state = "wait_start" => c.out = <<>>
    PROVE  Kept(s, c, m, s2, c2, m2)
<1>1. CASE c2 = c /\ (c.state = "wait_end" => m2.bgsave = m.bgsave)
  BY <1>1, KeptSame DEF SameView, SameMaster
<1>2. CASE /\ c.state = "wait_end" /\ c2.state = "send_bulk"
           /\ c2.out = c.out /\ c2.rdb = m.bgsave /\ c2.init = c.init
  BY <1>2 DEF SameView, SameMaster, Kept, Link, InSync, Resumable, Repl!NoClient
<1>3. CASE /\ c.state = "wait_start" /\ c2.state = "wait_end"
           /\ c2.out = c.out /\ c2.init = m.offset
           /\ m2.bgsave = m.data
  <2>1. Makes(m.data, <<>>, m.data) /\ Len(<<>>) = 0
    BY MakesEmpty
  <2>2. c2.init + Len(c2.out) = m.offset /\ Makes(m2.bgsave, c2.out, m.data) /\ m2.bgsave # None
    BY <1>3, <2>1
  <2> QED
    BY <1>3, <2>2 DEF SameView, SameMaster, Kept, Link, InSync, Resumable, Repl!NoClient
<1> QED
  BY <1>1, <1>2, <1>3 DEF Progress

LEMMA ProgressKeeps ==
    ASSUME ReplInv, NEW z \in Server, SameView(srv[z], srv'[z]),
           srv[z].host = None => cl'[z] = cl[z],
           srv[z].host # None => /\ SameMaster(srv[srv[z].host], srv'[srv[z].host])
                                 /\ Progress(cl[z], cl'[z], srv[srv[z].host], srv'[srv[z].host])
    PROVE  StepKeeps(z)
<1>1. Member(z) /\ None \notin Data
  BY ReplFacts
<1>2. Own(srv'[z], cl'[z])
  BY <1>1 DEF Member, Own, SameView, Progress, Repl!NoClient
<1>3. cl'[z] # Repl!NoClient => cl[z] # Repl!NoClient
  BY <1>1 DEF Member, Own, SameView, Progress, Repl!NoClient
<1>4. CASE srv[z].host = None
  BY <1>1, <1>2, <1>4, KeepsOne DEF Member, SameView
<1>5. CASE srv[z].host # None
  <2>1. PICK h \in Server : h = srv[z].host
    BY <1>5, ReplFacts
  <2>2. PICK m2 : m2 = srv'[h]
    OBVIOUS
  <2>3. PICK c2 : c2 = cl'[z]
    OBVIOUS
  <2>4. PICK s2 : s2 = srv'[z]
    OBVIOUS
  <2>5. Kept(srv[z], cl[z], srv[h], s2, c2, m2)
    <3>1. /\ srv[h].data \in Data /\ srv[h].offset \in Nat
          /\ cl[z].state = "wait_start" => cl[z].out = <<>>
      BY <1>1, ReplFacts DEF Member, Own
    <3> QED
      BY <1>1, <1>5, <2>1, <2>2, <2>3, <2>4, <3>1, KeptProgress
  <2>6. Kept(srv[z], cl[z], srv[srv[z].host], srv'[z], cl'[z], srv'[srv[z].host])
    BY <2>1, <2>2, <2>3, <2>4, <2>5
  <2> QED
    BY <1>1, <1>2, <1>3, <1>5, <2>6, KeepsOne DEF Member, SameView
<1> QED
  BY <1>4, <1>5

\* What may happen to a master m when its slaves are closed.
MasterLeft(m, m2) ==
    \/ /\ m2.offset = m.offset /\ m2.run = m.run
       /\ m2.backlog = None \/ (m2.backlog = m.backlog /\ m2.data = m.data)
    \/ m2.run[1] = m.run[1] /\ m2.run[2] = m.run[2] + 1
    \/ m2.run = m.run /\ count'["slaveof"] # 0

\* A slave whose connection was closed, or that had none.
LEMMA LeftKeeps ==
    ASSUME ReplInv, NEW z \in Server, NEW h \in Server, srv[z].host = h,
           \/ srv'[z] = srv[z] /\ cl[z] = Repl!NoClient
           \/ srv'[z] = [srv[z] EXCEPT !.state = "connect"]
           \/ srv'[z] = [srv[z] EXCEPT !.state = "refused"],
           cl'[z] = Repl!NoClient, MasterLeft(srv[h], srv'[h])
    PROVE  StepKeeps(z)
<1>1. /\ Member(z) /\ h # None /\ srv[z] \in Repl!State
      /\ srv[h].run[2] \in Nat /\ (srv[z].position # None => srv[z].position.run[2] \in Nat)
  BY ReplFacts
<1>2. PICK s2 : s2 = srv'[z]
  OBVIOUS
<1>3. /\ s2.position = srv[z].position /\ s2.data = srv[z].data
      /\ s2.host = h /\ s2.run = srv[z].run /\ Own(s2, Repl!NoClient)
  <2>1. CASE srv'[z] = srv[z] /\ cl[z] = Repl!NoClient
    BY <1>1, <1>2, <2>1 DEF Member
  <2>2. CASE srv'[z] = [srv[z] EXCEPT !.state = "connect"]
    <3>1. /\ s2.position = srv[z].position /\ s2.data = srv[z].data
          /\ s2.host = h /\ s2.run = srv[z].run /\ s2.backlog = srv[z].backlog
          /\ s2.state = "connect"
      BY <1>1, <1>2, <2>2 DEF Repl!State
    <3> QED
      BY <1>1, <3>1 DEF Member, Own, Repl!NoClient
  <2>3. CASE srv'[z] = [srv[z] EXCEPT !.state = "refused"]
    <3>1. /\ s2.position = srv[z].position /\ s2.data = srv[z].data
          /\ s2.host = h /\ s2.run = srv[z].run /\ s2.backlog = srv[z].backlog
          /\ s2.state = "refused"
      BY <1>1, <1>2, <2>3 DEF Repl!State
    <3> QED
      BY <1>1, <3>1 DEF Member, Own, Repl!NoClient
  <2> QED
    BY <2>1, <2>2, <2>3
<1>4. PICK m2 : m2 = srv'[h]
  OBVIOUS
<1>5. CASE /\ m2.offset = srv[h].offset /\ m2.run = srv[h].run
           /\ m2.backlog = None \/ (m2.backlog = srv[h].backlog /\ m2.data = srv[h].data)
  <2>1. Kept(srv[z], cl[z], srv[h], s2, Repl!NoClient, m2)
    BY <1>3, <1>5, KeptClosed
  <2> QED
    BY <1>1, <1>2, <1>3, <1>4, <2>1, KeepsOne DEF Member
<1>6. CASE m2.run[1] = srv[h].run[1] /\ m2.run[2] = srv[h].run[2] + 1
  <2>1. Kept(srv[z], cl[z], srv[h], s2, Repl!NoClient, m2)
    <3>1. PICK n \in Nat : n = srv[h].run[2]
      BY <1>1
    <3>2. Link(srv[z], cl[z], srv[h])
      BY <1>1 DEF Member
    <3> QED
      BY <1>1, <1>3, <1>6, <3>1, <3>2, KeptRestarted
  <2> QED
    BY <1>1, <1>2, <1>3, <1>4, <2>1, KeepsOne DEF Member
<1>7. CASE m2.run = srv[h].run /\ count'["slaveof"] # 0
  BY <1>1, <1>2, <1>3, <1>4, <1>7
     DEF StepKeeps, Member, Sync, InSync, Link, Repl!NoClient
<1> QED
  BY <1>4, <1>5, <1>6, <1>7 DEF MasterLeft

\* A server whose own link does not change, nor what it sees of its master.
LEMMA OtherKeeps ==
    ASSUME ReplInv, NEW z \in Server, srv'[z] = srv[z], cl'[z] = cl[z],
           srv[z].host # None => /\ SameMaster(srv[srv[z].host], srv'[srv[z].host])
                                 /\ srv'[srv[z].host].bgsave = srv[srv[z].host].bgsave
    PROVE  StepKeeps(z)
  BY ProgressKeeps DEF Progress, SameView

LEMMA BgsaveKeeps ==
    ASSUME ReplInv, NEW x \in Server, Repl!Bgsave(x)
    PROVE  StepOK
<1>1. /\ srv[x].bgsave = None /\ srv' = [srv EXCEPT ![x].bgsave = srv[x].data]
      /\ cl' = cl /\ Repl!Happens("bgsave")
  BY DEF Repl!Bgsave
<1>2. PICK m : m = [srv[x] EXCEPT !.bgsave = srv[x].data]
  OBVIOUS
<1>3. m \in Repl!State /\ SameView(srv[x], m)
  <2>1. srv[x] \in Repl!State /\ srv[x].data \in Data
    BY ReplFacts
  <2> QED
    BY <1>2, <2>1, SameData DEF SameView, Repl!State
<1>4. srv' = [srv EXCEPT ![x] = m]
  BY <1>1, <1>2
<1>5. ReplTyped'
  <2>1. count' \in [Repl!Events -> Nat]
    BY <1>1, CountedEvent DEF Repl!Events
  <2> QED
    BY <1>1, <1>3, <1>4, <2>1 DEF ReplInv, ReplTyped
<1>6. ASSUME NEW z \in Server PROVE SameView(srv[z], srv'[z]) /\ (z # x => srv'[z] = srv[z])
  BY <1>3, <1>4 DEF ReplInv, ReplTyped, SameView
<1>7. ASSUME NEW z \in Server PROVE StepKeeps(z)
  <2>1. srv[z].host = x => cl[z].state # "wait_end"
    BY <1>1, ReplFacts DEF Member, Link
  <2> QED
    BY <1>1, <1>6, <2>1, ReplFacts, ProgressKeeps DEF Progress, SameView, SameMaster
<1> QED
  BY <1>5, <1>7 DEF StepOK

LEMMA WaitingFacts ==
    ASSUME ReplInv, NEW x \in Server, NEW c,
           \A z \in Server : c[z].state = "wait_start" => cl[z].state = "wait_start"
    PROVE  (\E z \in Server : srv[z].host = x /\ c[z].state = "wait_start")
              => srv[x].backlog # None
<1>1. x # None
  BY ReplFacts
<1> QED
  BY <1>1, ReplFacts DEF Member, Link, Repl!NoClient

\* The client k is what c is when the file is there, or when its BGSAVE starts.
Sent(c, k, d) ==
    /\ k \in Repl!Client /\ k.state = "send_bulk"
    /\ k.out = c.out /\ k.rdb = d /\ k.init = c.init
Started(c, k, n) ==
    /\ k \in Repl!Client /\ k.state = "wait_end"
    /\ k.out = c.out /\ k.init = n

LEMMA ClientMoves ==
    ASSUME NEW c \in Repl!Client, NEW d \in Data, NEW n \in Nat
    PROVE  /\ Sent(c, [c EXCEPT !.state = "send_bulk", !.rdb = d], d)
           /\ Started(c, [c EXCEPT !.state = "wait_end", !.init = n], n)
  BY SameData DEF Repl!Client, Sent, Started

\* What the end of a BGSAVE of x makes of the client k of z.
Served(x, z, k, d, n) ==
    IF srv[z].host = x /\ cl[z].state = "wait_end" THEN Sent(cl[z], k, d)
    ELSE IF srv[z].host = x /\ cl[z].state = "wait_start" THEN Started(cl[z], k, n)
    ELSE k = cl[z]

LEMMA BgsaveDoneKeeps ==
    ASSUME ReplInv, NEW x \in Server, Repl!BgsaveDone(x)
    PROVE  StepOK
<1> DEFINE m1 == [srv[x] EXCEPT !.disk = srv[x].bgsave, !.bgsave = None]
           sent == [z \in Server |->
                     IF srv[z].host = x /\ cl[z].state = "wait_end"
                     THEN [cl[z] EXCEPT !.state = "send_bulk", !.rdb = srv[x].bgsave]
                     ELSE cl[z]]
           waits == \E z \in Server : srv[z].host = x /\ cl[z].state = "wait_start"
<1>1. PICK d \in Data : d = srv[x].bgsave
  BY ReplFacts DEF Repl!BgsaveDone
<1>2. PICK n \in Nat : n = srv[x].offset
  BY ReplFacts
<1>3. /\ count' = count
      /\ IF Repl!Waiting(x, cl) = {}
         THEN srv' = [srv EXCEPT ![x] = m1] /\ cl' = sent
         ELSE /\ srv' = [srv EXCEPT ![x] = [m1 EXCEPT !.bgsave = m1.data]]
              /\ cl' = Repl!SetupSlaves(x, sent, Repl!InitialOffset(m1))
  BY DEF Repl!BgsaveDone, Repl!Sent
<1>4. PICK m : m = IF waits THEN [m1 EXCEPT !.bgsave = m1.data] ELSE m1
  OBVIOUS
<1>5. /\ m \in Repl!State /\ SameView(srv[x], m) /\ (waits => m.bgsave = srv[x].data)
      /\ m1.offset = n /\ m1.backlog = srv[x].backlog
  <2>1. srv[x] \in Repl!State /\ srv[x].data \in Data
    BY ReplFacts
  <2>2. PICK k : k = m1
    OBVIOUS
  <2>3. k \in Repl!State /\ SameView(srv[x], k)
    BY <1>1, <2>1, <2>2, SameData DEF SameView, Repl!State
  <2>4. k.data = srv[x].data
    BY <2>3 DEF SameView
  <2>5. PICK e \in Data : e = srv[x].data
    BY <2>1
  <2>6. [k EXCEPT !.bgsave = e] \in Repl!State /\ SameView(k, [k EXCEPT !.bgsave = e])
        /\ [k EXCEPT !.bgsave = e].bgsave = e
    BY <2>3, SameData DEF SameView, Repl!State
  <2> HIDE DEF m1, waits
  <2> QED
    BY <1>2, <1>4, <2>2, <2>3, <2>4, <2>5, <2>6 DEF SameView
<1>6. waits <=> Repl!Waiting(x, cl) # {}
  BY DEF Repl!Waiting
<1>7. waits => Repl!InitialOffset(m1) = n
  <2>1. waits => srv[x].backlog # None
    BY WaitingFacts
  <2> HIDE DEF m1, waits
  <2> QED
    BY <1>5, <2>1 DEF Repl!InitialOffset
<1>8. srv' = [srv EXCEPT ![x] = m]
  BY <1>3, <1>4, <1>6
<1>9. ASSUME NEW z \in Server
      PROVE  Served(x, z, cl'[z], d, n)
  <2>1. PICK c \in Repl!Client : c = cl[z]
    BY ReplFacts
  <2>2. PICK k : k = cl'[z]
    OBVIOUS
  <2>3. sent[z] = IF srv[z].host = x /\ c.state = "wait_end"
                  THEN [c EXCEPT !.state = "send_bulk", !.rdb = d]
                  ELSE c
    BY <1>1, <2>1
  <2>4. PICK s : s = sent[z]
    OBVIOUS
  <2> HIDE DEF sent, m1, waits
  <2>5. IF srv[z].host = x /\ c.state = "wait_end" THEN Sent(c, s, d) ELSE s = c
    BY <2>3, <2>4, ClientMoves
  <2>6. CASE waits
    <3>1. cl' = Repl!SetupSlaves(x, sent, n)
      BY <1>3, <1>6, <1>7, <2>6
    <3>2. k = IF srv[z].host = x /\ s.state = "wait_start"
              THEN [s EXCEPT !.state = "wait_end", !.init = n] ELSE s
      BY <2>2, <2>4, <3>1 DEF Repl!SetupSlaves
    <3>3. CASE srv[z].host = x /\ c.state = "wait_end"
      BY <2>1, <2>2, <2>5, <3>2, <3>3 DEF Served, Sent
    <3>4. CASE ~(srv[z].host = x /\ c.state = "wait_end")
      BY <2>1, <2>2, <2>5, <3>2, <3>4, ClientMoves DEF Served
    <3> QED
      BY <3>3, <3>4
  <2>7. CASE ~waits
    <3>1. k = s /\ ~(srv[z].host = x /\ c.state = "wait_start")
      BY <1>3, <1>6, <2>1, <2>2, <2>4, <2>7 DEF waits
    <3> QED
      BY <2>1, <2>2, <2>5, <3>1 DEF Served
  <2> QED
    BY <2>6, <2>7
<1>10. cl' = [z \in Server |-> cl'[z]]
  BY <1>3 DEF Repl!SetupSlaves
<1> HIDE DEF m1, waits, sent
<1>11. ReplTyped'
  <2>1. ASSUME NEW z \in Server PROVE cl'[z] \in Repl!Client
    BY <1>9, ReplFacts DEF Served, Sent, Started
  <2> QED
    BY <1>3, <1>5, <1>8, <1>10, <2>1 DEF ReplInv, ReplTyped
<1>12. ASSUME NEW z \in Server PROVE SameView(srv[z], srv'[z]) /\ (z # x => srv'[z] = srv[z])
  BY <1>5, <1>8 DEF ReplInv, ReplTyped, SameView
<1>13. ASSUME NEW z \in Server, srv[z].host # None
       PROVE  Progress(cl[z], cl'[z], srv[srv[z].host], srv'[srv[z].host])
  <2>1. PICK h \in Server : h = srv[z].host
    BY <1>13, ReplFacts
  <2>2. Served(x, z, cl'[z], d, n)
    BY <1>9
  <2>3. CASE h = x
    <3>1. cl[z].state = "wait_start" => srv'[x].bgsave = srv[x].data
      BY <1>5, <1>8, <2>1, <2>3 DEF ReplInv, ReplTyped, waits
    <3> QED
      BY <1>1, <1>2, <2>1, <2>2, <2>3, <3>1 DEF Progress, Served, Sent, Started
  <2>4. CASE h # x
    BY <1>12, <2>1, <2>2, <2>4 DEF Progress, Served
  <2> QED
    BY <2>1, <2>3, <2>4
<1>14. ASSUME NEW z \in Server PROVE StepKeeps(z)
  <2>1. srv[z].host = None => cl'[z] = cl[z]
    BY <1>9, ReplFacts DEF Served
  <2> QED
    BY <1>12, <1>13, <2>1, ReplFacts, ProgressKeeps DEF SameView, SameMaster
<1> QED
  BY <1>11, <1>14 DEF StepOK

-----------------------------------------------------------------------------
(* Replication: connections that are closed *)

\* A set of slaves is closed: the states of all, and the clients.
LEMMA ClosedFacts ==
    ASSUME NEW s \in [Server -> Repl!State], NEW S \in SUBSET Server
    PROVE  /\ Repl!Closed(s, S) \in [Server -> Repl!State]
           /\ \A z \in Server :
                 Repl!Closed(s, S)[z] = IF z \in S THEN [s[z] EXCEPT !.state = "connect"]
                                        ELSE s[z]
<1>1. ASSUME NEW k \in Repl!State
      PROVE  [k EXCEPT !.state = "connect"] \in Repl!State
  BY DEF Repl!State
<1> QED
  BY <1>1 DEF Repl!Closed

LEMMA GoneFacts ==
    ASSUME ReplInv, NEW S \in SUBSET Server
    PROVE  /\ Repl!Gone(cl, S) \in [Server -> Repl!Client]
           /\ \A z \in Server :
                 Repl!Gone(cl, S)[z] = IF z \in S THEN Repl!NoClient ELSE cl[z]
<1>1. Repl!NoClient \in Repl!Client
  BY EmptyData, ReplFacts, SameData DEF Repl!NoClient, Repl!Client
<1> QED
  BY <1>1, ReplFacts DEF Repl!Gone

LEMMA ConnectState ==
    ASSUME NEW s \in Repl!State
    PROVE  LET c == [s EXCEPT !.state = "connect"]
           IN  /\ c.data = s.data /\ c.offset = s.offset /\ c.backlog = s.backlog
               /\ c.bgsave = s.bgsave /\ c.run = s.run /\ c.host = s.host
               /\ c.position = s.position /\ c.state = "connect" /\ SameMaster(s, c)
  BY DEF Repl!State, SameMaster

LEMMA BgsaveFailedKeeps ==
    ASSUME ReplInv, NEW x \in Server, Repl!BgsaveFailed(x)
    PROVE  StepOK
<1> DEFINE failed == {z \in Repl!Slaves(x) : cl[z].state = "wait_end"}
           m1 == [srv[x] EXCEPT !.bgsave = IF Repl!Waiting(x, cl) = {} THEN None
                                           ELSE srv[x].data]
           waits == \E z \in Server : srv[z].host = x /\ cl[z].state = "wait_start"
<1>1. PICK n \in Nat : n = srv[x].offset
  BY ReplFacts
<1>2. PICK m : m = m1
  OBVIOUS
<1>3. /\ srv[x].bgsave # None /\ Repl!Happens("bgsave fails")
      /\ srv' = Repl!Closed([srv EXCEPT ![x] = m], failed)
      /\ cl' = Repl!SetupSlaves(x, Repl!Gone(cl, failed), Repl!InitialOffset(m))
  BY <1>2 DEF Repl!BgsaveFailed
<1>4. count' \in [Repl!Events -> Nat]
  BY <1>3, CountedEvent DEF Repl!Events
<1>5. waits <=> Repl!Waiting(x, cl) # {}
  BY DEF Repl!Waiting
<1>6. /\ m \in Repl!State /\ SameView(srv[x], m) /\ (waits => m.bgsave = srv[x].data)
  <2>1. srv[x] \in Repl!State /\ srv[x].data \in Data
    BY ReplFacts
  <2>2. PICK e \in Data \cup {None} : e = IF Repl!Waiting(x, cl) = {} THEN None ELSE srv[x].data
    BY <2>1
  <2>3. m = [srv[x] EXCEPT !.bgsave = e]
    BY <1>2, <2>2
  <2>4. m \in Repl!State /\ SameView(srv[x], m) /\ m.bgsave = e
    BY <2>1, <2>3, SameData DEF SameView, Repl!State
  <2> QED
    BY <1>5, <2>2, <2>4
<1> HIDE DEF m1, waits
<1>7. waits => Repl!InitialOffset(m) = n
  <2>1. waits => srv[x].backlog # None
    BY WaitingFacts DEF waits
  <2> QED
    BY <1>1, <1>6, <2>1 DEF Repl!InitialOffset, SameView
<1>8. failed \in SUBSET Server /\ x \notin failed /\ x # None
      /\ \A z \in Server : z \in failed <=> srv[z].host = x /\ cl[z].state = "wait_end"
  <2>1. \A z \in Server : cl[z].state = "wait_end" => cl[z] # Repl!NoClient
    BY DEF Repl!NoClient
  <2> QED
    BY <2>1, SlavesFacts, ReplFacts DEF Repl!Slaves
<1>9. [srv EXCEPT ![x] = m] \in [Server -> Repl!State]
  BY <1>6 DEF ReplInv, ReplTyped
<1> HIDE DEF failed
<1>10. /\ srv' \in [Server -> Repl!State]
       /\ \A z \in Server : srv'[z] = IF z \in failed THEN [srv[z] EXCEPT !.state = "connect"]
                                      ELSE IF z = x THEN m ELSE srv[z]
  <2>1. PICK f \in [Server -> Repl!State] : f = [srv EXCEPT ![x] = m]
    BY <1>9
  <2>2. \A z \in Server : f[z] = IF z = x THEN m ELSE srv[z]
    BY <2>1 DEF ReplInv, ReplTyped
  <2>3. PICK g : g = srv'
    OBVIOUS
  <2>4. PICK S \in SUBSET Server : S = failed
    BY <1>8
  <2>5. g = Repl!Closed(f, S)
    BY <1>3, <2>1, <2>3, <2>4
  <2>6. /\ g \in [Server -> Repl!State]
        /\ \A z \in Server : g[z] = IF z \in S THEN [f[z] EXCEPT !.state = "connect"]
                                     ELSE f[z]
    BY <2>5, ClosedFacts
  <2>7. \A z \in S : f[z] = srv[z]
    BY <1>8, <2>2, <2>4
  <2> QED
    BY <2>2, <2>3, <2>4, <2>6, <2>7
<1>11. ASSUME NEW z \in Server
       PROVE  /\ z \in failed => cl'[z] = Repl!NoClient
              /\ z \notin failed => Served(x, z, cl'[z], <<>>, n)
              /\ cl'[z] \in Repl!Client
  <2>1. PICK c \in Repl!Client : c = cl[z]
    BY ReplFacts
  <2>2. PICK k : k = Repl!Gone(cl, failed)[z]
    OBVIOUS
  <2>3. k = (IF z \in failed THEN Repl!NoClient ELSE c) /\ k \in Repl!Client
    BY <1>8, <2>1, <2>2, GoneFacts
  <2>4. PICK i : i = Repl!InitialOffset(m)
    OBVIOUS
  <2>5. cl'[z] = IF srv[z].host = x /\ k.state = "wait_start"
                 THEN [k EXCEPT !.state = "wait_end", !.init = i] ELSE k
    BY <1>3, <2>2, <2>4 DEF Repl!SetupSlaves
  <2>6. CASE srv[z].host = x /\ k.state = "wait_start"
    <3>1. c = k /\ i = n /\ z \notin failed
      BY <1>7, <2>1, <2>3, <2>4, <2>6 DEF waits, Repl!NoClient
    <3>2. Started(c, [k EXCEPT !.state = "wait_end", !.init = i], n)
      BY <2>3, <3>1, EmptyData, ReplFacts, ClientMoves
    <3>3. PICK e : e = cl'[z]
      OBVIOUS
    <3>4. Started(c, e, n)
      BY <2>5, <2>6, <3>2, <3>3
    <3> QED
      BY <1>8, <2>1, <2>6, <3>1, <3>3, <3>4 DEF Served, Started
  <2>7. CASE ~(srv[z].host = x /\ k.state = "wait_start")
    BY <1>8, <2>1, <2>3, <2>5, <2>7 DEF Served
  <2> QED
    BY <2>6, <2>7
<1>12. ReplTyped'
  <2>1. cl' = [z \in Server |-> cl'[z]]
    BY <1>3 DEF Repl!SetupSlaves
  <2> QED
    BY <1>4, <1>10, <1>11, <2>1 DEF ReplTyped
<1>13. ASSUME NEW h \in Server
       PROVE  /\ SameMaster(srv[h], srv'[h])
              /\ h # x => srv'[h].bgsave = srv[h].bgsave
  <2>1. PICK k \in Repl!State : k = srv[h]
    BY ReplFacts
  <2>2. CASE h \in failed
    BY <1>8, <1>10, <2>1, <2>2, ConnectState
  <2>3. CASE h = x
    BY <1>6, <1>8, <1>10, <2>3 DEF SameView, SameMaster
  <2>4. CASE h \notin failed /\ h # x
    BY <1>10, <2>4 DEF SameMaster
  <2> QED
    BY <2>2, <2>3, <2>4
<1>14. ASSUME NEW z \in failed PROVE StepKeeps(z)
  <2>1. /\ z \in Server /\ srv[z].host = x /\ cl'[z] = Repl!NoClient
        /\ srv'[z] = [srv[z] EXCEPT !.state = "connect"]
        /\ MasterLeft(srv[x], srv'[x])
    BY <1>8, <1>10, <1>11, <1>13 DEF MasterLeft, SameMaster
  <2> QED
    BY <2>1, LeftKeeps
<1>15. ASSUME NEW z \in Server \ failed PROVE StepKeeps(z)
  <2>1. Served(x, z, cl'[z], <<>>, n) /\ SameView(srv[z], srv'[z])
        /\ ~(srv[z].host = x /\ cl[z].state = "wait_end")
    BY <1>6, <1>8, <1>10, <1>11 DEF SameView
  <2>2. srv[z].host = None => cl'[z] = cl[z]
    BY <1>8, <2>1 DEF Served
  <2>3. ASSUME NEW h \in Server, srv[z].host = h
        PROVE  Progress(cl[z], cl'[z], srv[h], srv'[h])
    <3>1. CASE h = x
      <4>1. cl[z].state = "wait_start" => srv'[x].bgsave = srv[x].data
        BY <1>6, <1>8, <1>10, <2>3, <3>1 DEF waits
      <4> QED
        BY <1>1, <2>1, <2>3, <3>1, <4>1 DEF Progress, Served, Started
    <3>2. CASE h # x
      BY <1>13, <2>1, <2>3, <3>2 DEF Progress, Served
    <3> QED
      BY <3>1, <3>2
  <2> QED
    BY <1>13, <2>1, <2>2, <2>3, ReplFacts, ProgressKeeps
<1> QED
  BY <1>12, <1>14, <1>15 DEF StepOK

\* A BGSAVE of x has ended, with the file d, and no other is started: the
\* slaves in W are refused, those in F closed, and x becomes m.
Ended(x, W, F, d, m) ==
    /\ W \in SUBSET (Server \ {x}) /\ F \in SUBSET (Server \ {x})
    /\ d = srv[x].bgsave
    /\ m \in Repl!State /\ SameView(srv[x], m)
    /\ \A z \in Server : z \in W <=> srv[z].host = x /\ cl[z].state = "wait_start"
    /\ \A z \in F : srv[z].host = x
    /\ ReplTyped'
    /\ \A z \in Server : srv'[z] = IF z \in W THEN [srv[z] EXCEPT !.state = "refused"]
                                   ELSE IF z \in F THEN [srv[z] EXCEPT !.state = "connect"]
                                   ELSE IF z = x THEN m ELSE srv[z]
    /\ \A z \in W \cup F : cl'[z] = Repl!NoClient
    /\ \A z \in Server \ (W \cup F) :
          IF srv[z].host = x /\ cl[z].state = "wait_end" THEN Sent(cl[z], cl'[z], d)
          ELSE cl'[z] = cl[z]

LEMMA EndedKeeps ==
    ASSUME ReplInv, NEW x \in Server, NEW W, NEW F, NEW d, NEW m, Ended(x, W, F, d, m)
    PROVE  StepOK
<1> USE DEF Ended
<1>1. ASSUME NEW h \in Server
      PROVE  /\ SameMaster(srv[h], srv'[h])
             /\ h # x => srv'[h].bgsave = srv[h].bgsave
  <2>1. PICK k \in Repl!State : k = srv[h]
    BY ReplFacts
  <2>2. CASE h \in W
    <3>1. /\ [k EXCEPT !.state = "refused"].bgsave = k.bgsave
          /\ SameMaster(k, [k EXCEPT !.state = "refused"])
      BY DEF Repl!State, SameMaster
    <3>2. srv'[h] = [k EXCEPT !.state = "refused"]
      BY <2>1, <2>2
    <3> QED
      BY <2>1, <3>1, <3>2
  <2>3. CASE h \in F \ W
    <3>1. srv'[h] = [k EXCEPT !.state = "connect"]
      BY <2>1, <2>3
    <3> QED
      BY <2>1, <3>1, ConnectState
  <2>4. CASE h = x
    <3>1. srv'[h] = m
      BY <2>4
    <3> QED
      BY <2>4, <3>1 DEF SameView, SameMaster
  <2>5. CASE h \notin W \cup F \cup {x}
    <3>1. srv'[h] = srv[h]
      BY <2>5
    <3> QED
      BY <3>1 DEF SameMaster
  <2> QED
    BY <2>2, <2>3, <2>4, <2>5
<1>2. ASSUME NEW z \in W \cup F PROVE StepKeeps(z)
  <2>1. /\ z \in Server /\ srv[z].host = x /\ cl'[z] = Repl!NoClient
        /\ \/ srv'[z] = [srv[z] EXCEPT !.state = "connect"]
           \/ srv'[z] = [srv[z] EXCEPT !.state = "refused"]
    BY <1>2
  <2>2. MasterLeft(srv[x], srv'[x])
    BY <1>1 DEF MasterLeft, SameMaster
  <2> QED
    BY <2>1, <2>2, LeftKeeps
<1>3. ASSUME NEW z \in Server \ (W \cup F) PROVE StepKeeps(z)
  <2>1. SameView(srv[z], srv'[z])
    <3>1. srv'[z] = IF z = x THEN m ELSE srv[z]
      BY <1>3
    <3> QED
      BY <3>1 DEF SameView
  <2>2. PICK c : c = cl'[z]
    OBVIOUS
  <2>3. IF srv[z].host = x /\ cl[z].state = "wait_end" THEN Sent(cl[z], c, d)
        ELSE c = cl[z]
    BY <1>3, <2>2
  <2>4. srv[z].host = None => c = cl[z]
    BY <2>3, ReplFacts
  <2>5. ASSUME NEW h \in Server, srv[z].host = h
        PROVE  Progress(cl[z], c, srv[h], srv'[h])
    BY <1>1, <2>3, <2>5 DEF Progress, Sent
  <2> QED
    BY <1>1, <2>1, <2>2, <2>4, <2>5, ReplFacts, ProgressKeeps
<1> QED
  BY <1>2, <1>3 DEF StepOK

LEMMA NextBgsaveFailsKeeps ==
    ASSUME ReplInv, NEW x \in Server, Repl!NextBgsaveFails(x)
    PROVE  StepOK
<1> DEFINE m0 == [srv[x] EXCEPT !.bgsave = None]
           refused(s) == [z \in Server |->
                            IF z \in Repl!Waiting(x, cl)
                            THEN [s[z] EXCEPT !.state = "refused"] ELSE s[z]]
           failed == {z \in Repl!Slaves(x) : cl[z].state = "wait_end"}
<1>1. PICK d \in Data : d = srv[x].bgsave
  BY ReplFacts DEF Repl!NextBgsaveFails
<1>2. PICK m1 : m1 = m0
  OBVIOUS
<1>3. PICK W : W = Repl!Waiting(x, cl)
  OBVIOUS
<1>4. PICK F : F = failed
  OBVIOUS
<1>5. PICK m2 : m2 = [m1 EXCEPT !.disk = d]
  OBVIOUS
<1>6. /\ m1 \in Repl!State /\ SameView(srv[x], m1)
      /\ m2 \in Repl!State /\ SameView(srv[x], m2)
  <2>1. srv[x] \in Repl!State
    BY ReplFacts
  <2>2. m1 \in Repl!State /\ SameView(srv[x], m1)
    BY <1>2, <2>1 DEF SameView, Repl!State
  <2>3. m2 \in Repl!State /\ SameView(m1, m2)
    BY <1>1, <1>5, <2>2, SameData DEF SameView, Repl!State
  <2> QED
    BY <2>2, <2>3 DEF SameView
<1>7. /\ Repl!Happens("bgsave fails")
      /\ \/ /\ srv' = refused([srv EXCEPT ![x] = m2])
            /\ cl' = Repl!Gone(Repl!Sent(x, cl), W)
         \/ /\ srv' = refused(Repl!Closed([srv EXCEPT ![x] = m1], F))
            /\ cl' = Repl!Gone(cl, W \cup F)
  BY <1>1, <1>2, <1>3, <1>4, <1>5 DEF Repl!NextBgsaveFails
<1> HIDE DEF m0, failed
<1>8. /\ \A z \in Server : z \in W <=> srv[z].host = x /\ cl[z].state = "wait_start"
      /\ \A z \in Server : z \in F <=> srv[z].host = x /\ cl[z].state = "wait_end"
      /\ W \in SUBSET (Server \ {x}) /\ F \in SUBSET (Server \ {x})
  <2>1. /\ \A z \in Server : z \in W <=> srv[z].host = x /\ cl[z].state = "wait_start"
        /\ W \subseteq Server
    BY <1>3 DEF Repl!Waiting
  <2>2. \A z \in Server : cl[z].state = "wait_end" \/ cl[z].state = "wait_start"
                             => cl[z] # Repl!NoClient
    BY DEF Repl!NoClient
  <2>3. /\ \A z \in Server : z \in F <=> srv[z].host = x /\ cl[z].state = "wait_end"
        /\ F \subseteq Server
    BY <1>4, <2>2, SlavesFacts DEF failed, Repl!Slaves
  <2>4. x \notin W /\ x \notin F
    BY <2>1, <2>2, <2>3, ReplFacts DEF Member
  <2> QED
    BY <2>1, <2>3, <2>4
<1>9. count' \in [Repl!Events -> Nat]
  BY <1>7, CountedEvent DEF Repl!Events
<1>10. ASSUME NEW k \in Repl!State
       PROVE  [k EXCEPT !.state = "refused"] \in Repl!State
  BY DEF Repl!State
<1>11. Repl!NoClient \in Repl!Client
  BY EmptyData, ReplFacts, SameData DEF Repl!NoClient, Repl!Client
<1>12. CASE /\ srv' = refused([srv EXCEPT ![x] = m2])
            /\ cl' = Repl!Gone(Repl!Sent(x, cl), W)
  <2>1. PICK f \in [Server -> Repl!State] : f = [srv EXCEPT ![x] = m2]
    BY <1>6 DEF ReplInv, ReplTyped
  <2>2. \A z \in Server : f[z] = IF z = x THEN m2 ELSE srv[z]
    BY <2>1 DEF ReplInv, ReplTyped
  <2>3. srv' = [z \in Server |-> IF z \in W THEN [f[z] EXCEPT !.state = "refused"] ELSE f[z]]
    BY <1>3, <1>12, <2>1
  <2>4. /\ srv' \in [Server -> Repl!State]
        /\ \A z \in Server : srv'[z] = IF z \in W THEN [srv[z] EXCEPT !.state = "refused"]
                                        ELSE IF z = x THEN m2 ELSE srv[z]
    BY <1>8, <1>10, <2>2, <2>3
  <2>5. ASSUME NEW z \in Server
        PROVE  /\ z \in W => cl'[z] = Repl!NoClient
               /\ z \notin W => IF srv[z].host = x /\ cl[z].state = "wait_end"
                                THEN Sent(cl[z], cl'[z], d) ELSE cl'[z] = cl[z]
               /\ cl'[z] \in Repl!Client
    <3>1. PICK c \in Repl!Client : c = cl[z]
      BY ReplFacts
    <3>2. PICK k : k = cl'[z]
      OBVIOUS
    <3>3. k = IF z \in W THEN Repl!NoClient
              ELSE IF srv[z].host = x /\ c.state = "wait_end"
              THEN [c EXCEPT !.state = "send_bulk", !.rdb = d] ELSE c
      BY <1>1, <1>12, <3>1, <3>2 DEF Repl!Gone, Repl!Sent
    <3>4. Sent(c, [c EXCEPT !.state = "send_bulk", !.rdb = d], d)
      BY EmptyData, ClientMoves
    <3> QED
      BY <1>11, <3>1, <3>2, <3>3, <3>4 DEF Sent
  <2>6. cl' \in [Server -> Repl!Client]
    <3>1. cl' = [z \in Server |-> cl'[z]]
      BY <1>12 DEF Repl!Gone
    <3> QED
      BY <2>5, <3>1
  <2>7. PICK E \in SUBSET (Server \ {x}) : E = {}
    OBVIOUS
  <2>8. \A z \in Server : srv'[z] = IF z \in W THEN [srv[z] EXCEPT !.state = "refused"]
                                    ELSE IF z \in E THEN [srv[z] EXCEPT !.state = "connect"]
                                    ELSE IF z = x THEN m2 ELSE srv[z]
    BY <2>4, <2>7
  <2>9. \A z \in W \cup E : cl'[z] = Repl!NoClient
    BY <1>8, <2>5, <2>7
  <2>10. \A z \in Server \ (W \cup E) :
            IF srv[z].host = x /\ cl[z].state = "wait_end" THEN Sent(cl[z], cl'[z], d)
            ELSE cl'[z] = cl[z]
    BY <2>5, <2>7
  <2>11. \A z \in E : srv[z].host = x
    BY <2>7
  <2>12. W \in SUBSET (Server \ {x})
    BY <1>8
  <2>13. m2 \in Repl!State /\ SameView(srv[x], m2)
    BY <1>6
  <2>14. \A z \in Server : z \in W <=> srv[z].host = x /\ cl[z].state = "wait_start"
    BY <1>8
  <2>15. ReplTyped'
    BY <1>9, <2>4, <2>6 DEF ReplTyped
  <2>16. Ended(x, W, E, d, m2)
    BY <1>1, <2>7, <2>8, <2>9, <2>10, <2>11, <2>12, <2>13, <2>14, <2>15 DEF Ended
  <2> QED
    BY <2>16, EndedKeeps
<1>13. CASE /\ srv' = refused(Repl!Closed([srv EXCEPT ![x] = m1], F))
            /\ cl' = Repl!Gone(cl, W \cup F)
  <2>1. PICK f \in [Server -> Repl!State] : f = [srv EXCEPT ![x] = m1]
    BY <1>6 DEF ReplInv, ReplTyped
  <2>2. \A z \in Server : f[z] = IF z = x THEN m1 ELSE srv[z]
    BY <2>1 DEF ReplInv, ReplTyped
  <2>3. PICK g : g = Repl!Closed(f, F)
    OBVIOUS
  <2>4. /\ g \in [Server -> Repl!State]
        /\ \A z \in Server : g[z] = IF z \in F THEN [f[z] EXCEPT !.state = "connect"]
                                     ELSE f[z]
    <3>1. PICK S \in SUBSET Server : S = F
      BY <1>8
    <3> QED
      BY <2>3, <3>1, ClosedFacts
  <2>5. srv' = [z \in Server |-> IF z \in W THEN [g[z] EXCEPT !.state = "refused"] ELSE g[z]]
    BY <1>3, <1>13, <2>1, <2>3
  <2>6. \A z \in W : z \notin F
    BY <1>8
  <2>7. /\ srv' \in [Server -> Repl!State]
        /\ \A z \in Server : srv'[z] = IF z \in W THEN [srv[z] EXCEPT !.state = "refused"]
                                        ELSE IF z \in F THEN [srv[z] EXCEPT !.state = "connect"]
                                        ELSE IF z = x THEN m1 ELSE srv[z]
    BY <1>8, <1>10, <2>2, <2>4, <2>5, <2>6
  <2>8. PICK c : c = Repl!Gone(cl, W \cup F)
    OBVIOUS
  <2>9. /\ c \in [Server -> Repl!Client]
        /\ \A z \in Server : c[z] = IF z \in W \cup F THEN Repl!NoClient ELSE cl[z]
    <3>1. PICK S \in SUBSET Server : S = W \cup F
      BY <1>8
    <3> QED
      BY <2>8, <3>1, GoneFacts
  <2>10. cl' = c
    BY <1>13, <2>8
  <2>11. ASSUME NEW z \in Server \ (W \cup F)
         PROVE  cl'[z] = cl[z] /\ ~(srv[z].host = x /\ cl[z].state = "wait_end")
    BY <1>8, <2>9, <2>10, <2>11
  <2>12. \A z \in W \cup F : cl'[z] = Repl!NoClient
    BY <1>8, <2>9, <2>10
  <2>13. \A z \in Server \ (W \cup F) :
            IF srv[z].host = x /\ cl[z].state = "wait_end" THEN Sent(cl[z], cl'[z], d)
            ELSE cl'[z] = cl[z]
    BY <2>11
  <2>14. \A z \in F : srv[z].host = x
    BY <1>8
  <2>15. W \in SUBSET (Server \ {x}) /\ F \in SUBSET (Server \ {x})
    BY <1>8
  <2>16. m1 \in Repl!State /\ SameView(srv[x], m1)
    BY <1>6
  <2>17. \A z \in Server : z \in W <=> srv[z].host = x /\ cl[z].state = "wait_start"
    BY <1>8
  <2>18. ReplTyped'
    BY <1>9, <2>7, <2>9, <2>10 DEF ReplTyped
  <2>19. \A z \in Server : srv'[z] = IF z \in W THEN [srv[z] EXCEPT !.state = "refused"]
                                     ELSE IF z \in F THEN [srv[z] EXCEPT !.state = "connect"]
                                     ELSE IF z = x THEN m1 ELSE srv[z]
    BY <2>7
  <2>20. Ended(x, W, F, d, m1)
    BY <1>1, <2>12, <2>13, <2>14, <2>15, <2>16, <2>17, <2>18, <2>19 DEF Ended
  <2> QED
    BY <2>20, EndedKeeps
<1> QED
  BY <1>7, <1>12, <1>13

LEMMA FreeBacklogKeeps ==
    ASSUME ReplInv, NEW x \in Server, Repl!FreeBacklog(x)
    PROVE  StepOK
<1>1. /\ Repl!Slaves(x) = {} /\ Repl!Happens("backlog freed")
      /\ srv' = [srv EXCEPT ![x].backlog = None] /\ cl' = cl
  BY DEF Repl!FreeBacklog
<1>2. count' \in [Repl!Events -> Nat]
  BY <1>1, CountedEvent DEF Repl!Events
<1>3. PICK m : m = [srv[x] EXCEPT !.backlog = None]
  OBVIOUS
<1>4. /\ m \in Repl!State /\ m.backlog = None /\ m.offset = srv[x].offset
      /\ m.run = srv[x].run /\ m.host = srv[x].host /\ m.position = srv[x].position
      /\ m.data = srv[x].data /\ m.state = srv[x].state
  <2>1. srv[x] \in Repl!State
    BY ReplFacts
  <2> QED
    BY <1>3, <2>1 DEF Repl!State
<1>5. srv'[x] = m /\ \A z \in Server \ {x} : srv'[z] = srv[z]
  BY <1>1, <1>3 DEF ReplInv, ReplTyped
<1>6. ReplTyped'
  BY <1>1, <1>2, <1>3, <1>4 DEF ReplInv, ReplTyped
<1>7. ASSUME NEW z \in Server PROVE StepKeeps(z)
  <2>1. CASE srv[z].host = x /\ z # x
    <3>1. cl[z] = Repl!NoClient
      BY <1>1, <2>1, SlavesFacts
    <3> QED
      BY <1>1, <1>4, <1>5, <2>1, <3>1, LeftKeeps DEF MasterLeft
  <2>2. CASE srv[z].host # x /\ z # x
    BY <1>1, <1>5, <2>2, ReplFacts, KeepsFrame
  <2>3. CASE z = x
    <3>0. Member(x) /\ x # None
      BY ReplFacts
    <3>1. Own(m, cl[x])
      BY <1>4, <3>0 DEF Member, Own
    <3>2. ASSUME NEW h \in Server, srv[x].host = h
          PROVE  Kept(srv[x], cl[x], srv[h], m, cl[x], srv'[h])
      <4>1. CASE h = x
        <5>1. cl[x] = Repl!NoClient
          BY <3>0, <3>2, <4>1 DEF Member
        <5> QED
          BY <1>4, <1>5, <4>1, <5>1, KeptClosed
      <4>2. CASE h # x
        BY <1>4, <1>5, <4>2, KeptSame
      <4> QED
        BY <4>1, <4>2
    <3>3. srv[x].host # None => srv[x].host \in Server
      BY ReplFacts
    <3>4. srv'[x] = m /\ cl'[x] = cl[x]
      BY <1>1, <1>5
    <3> QED
      BY <1>4, <2>3, <3>0, <3>1, <3>2, <3>3, <3>4, KeepsOne DEF Member
  <2> QED
    BY <2>1, <2>2, <2>3
<1> QED
  BY <1>6, <1>7 DEF StepOK

\* Another server than x, as a master.
LEMMA ClosingMasters ==
    ASSUME ReplInv, NEW x \in Server, NEW h \in Server,
           srv'[h] = Repl!Closed(srv, Repl!Slaves(x))[h]
    PROVE  /\ SameMaster(srv[h], srv'[h]) /\ srv'[h].bgsave = srv[h].bgsave
           /\ srv'[h] = IF h \in Repl!Slaves(x) THEN [srv[h] EXCEPT !.state = "connect"]
                        ELSE srv[h]
<1>1. srv \in [Server -> Repl!State] /\ Repl!Slaves(x) \in SUBSET Server
  BY DEF ReplInv, ReplTyped, Repl!Slaves
<1>2. PICK f \in [Server -> Repl!State] : f = srv
  BY <1>1
<1>3. PICK S \in SUBSET Server : S = Repl!Slaves(x)
  BY <1>1
<1>4. srv'[h] = IF h \in S THEN [f[h] EXCEPT !.state = "connect"] ELSE f[h]
  BY <1>2, <1>3, ClosedFacts
<1>5. PICK k \in Repl!State : k = f[h]
  OBVIOUS
<1>6. SameMaster(srv[h], srv'[h]) /\ srv'[h].bgsave = srv[h].bgsave
  <2>1. CASE h \in S
    BY <1>2, <1>4, <1>5, <2>1, ConnectState
  <2>2. CASE h \notin S
    BY <1>2, <1>4, <2>2 DEF SameMaster
  <2> QED
    BY <2>1, <2>2
<1> QED
  BY <1>2, <1>3, <1>4, <1>6

\* x closes its slaves: they, and all that have nothing to do with x.
LEMMA ClosingKeeps ==
    ASSUME ReplInv, NEW x \in Server, NEW z \in Server \ {x},
           \A y \in Server \ {x} : srv'[y] = Repl!Closed(srv, Repl!Slaves(x))[y],
           cl'[z] = IF z \in Repl!Slaves(x) THEN Repl!NoClient ELSE cl[z],
           MasterLeft(srv[x], srv'[x])
    PROVE  StepKeeps(z)
<1>1. \A y \in Server \ {x} :
         /\ SameMaster(srv[y], srv'[y]) /\ srv'[y].bgsave = srv[y].bgsave
         /\ srv'[y] = IF y \in Repl!Slaves(x) THEN [srv[y] EXCEPT !.state = "connect"]
                      ELSE srv[y]
  BY ClosingMasters
<1>2. /\ z \in Repl!Slaves(x) <=> srv[z].host = x /\ cl[z] # Repl!NoClient
      /\ x # None
  BY SlavesFacts, ReplFacts
<1>3. CASE srv[z].host = x
  <2>1. cl'[z] = Repl!NoClient
    BY <1>2, <1>3
  <2>2. \/ srv'[z] = srv[z] /\ cl[z] = Repl!NoClient
        \/ srv'[z] = [srv[z] EXCEPT !.state = "connect"]
    BY <1>1, <1>2, <1>3
  <2> QED
    BY <1>3, <2>1, <2>2, LeftKeeps
<1>4. CASE srv[z].host # x
  <2>1. srv'[z] = srv[z] /\ cl'[z] = cl[z]
    BY <1>1, <1>2, <1>4
  <2> QED
    BY <1>1, <1>4, <2>1, ReplFacts, OtherKeeps
<1> QED
  BY <1>3, <1>4

\* The server x after it closed its slaves; as it was, when it changes.
LEMMA ClosingSelf ==
    ASSUME ReplInv, NEW x \in Server
    PROVE  /\ Repl!Closed(srv, Repl!Slaves(x)) \in [Server -> Repl!State]
           /\ Repl!Closed(srv, Repl!Slaves(x))[x] = srv[x]
           /\ \A z \in Server :
                Repl!Gone(cl, Repl!Slaves(x))[z] =
                   IF z \in Repl!Slaves(x) THEN Repl!NoClient ELSE cl[z]
           /\ \A z \in Server :
                Repl!Gone(cl, Repl!Slaves(x) \cup {x})[z] =
                   IF z \in Repl!Slaves(x) \cup {x} THEN Repl!NoClient ELSE cl[z]
           /\ Repl!Gone(cl, Repl!Slaves(x)) \in [Server -> Repl!Client]
           /\ Repl!Gone(cl, Repl!Slaves(x) \cup {x}) \in [Server -> Repl!Client]
<1>1. srv \in [Server -> Repl!State] /\ Repl!Slaves(x) \in SUBSET Server
  BY DEF ReplInv, ReplTyped, Repl!Slaves
<1>2. PICK f \in [Server -> Repl!State] : f = srv
  BY <1>1
<1>3. PICK S \in SUBSET Server : S = Repl!Slaves(x)
  BY <1>1
<1>4. /\ Repl!Closed(f, S) \in [Server -> Repl!State]
      /\ Repl!Closed(f, S)[x] = IF x \in S THEN [f[x] EXCEPT !.state = "connect"] ELSE f[x]
  BY ClosedFacts
<1>5. x \notin S
  BY <1>3, SlavesFacts
<1>6. S \cup {x} \in SUBSET Server
  OBVIOUS
<1> QED
  BY <1>2, <1>3, <1>4, <1>5, <1>6, GoneFacts

\* The whole step, given what becomes of x itself.
LEMMA ClosingStep ==
    ASSUME ReplInv, NEW x \in Server, NEW m \in Repl!State,
           srv' = [Repl!Closed(srv, Repl!Slaves(x)) EXCEPT ![x] = m],
           \/ cl' = Repl!Gone(cl, Repl!Slaves(x))
           \/ cl' = Repl!Gone(cl, Repl!Slaves(x) \cup {x}),
           count' \in [Repl!Events -> Nat],
           MasterLeft(srv[x], m),
           srv'[x] = m => StepKeeps(x)
    PROVE  StepOK
<1> DEFINE k == Repl!Closed(srv, Repl!Slaves(x))
<1>1. k \in [Server -> Repl!State] /\ k[x] = srv[x] /\ cl' \in [Server -> Repl!Client]
  BY ClosingSelf
<1>2. /\ srv' \in [Server -> Repl!State]
      /\ srv'[x] = m /\ \A z \in Server \ {x} : srv'[z] = k[z]
  <2> HIDE DEF k
  <2>1. srv' = [k EXCEPT ![x] = m]
    BY DEF k
  <2> QED
    BY <1>1, <2>1
<1>3. ReplTyped'
  BY <1>1, <1>2 DEF ReplTyped
<1>4. ASSUME NEW z \in Server \ {x} PROVE StepKeeps(z)
  <2>1. cl'[z] = IF z \in Repl!Slaves(x) THEN Repl!NoClient ELSE cl[z]
    <3>1. PICK c : c = cl'[z]
      OBVIOUS
    <3>2. /\ Repl!Gone(cl, Repl!Slaves(x))[z]
               = IF z \in Repl!Slaves(x) THEN Repl!NoClient ELSE cl[z]
          /\ Repl!Gone(cl, Repl!Slaves(x) \cup {x})[z]
               = IF z \in Repl!Slaves(x) \cup {x} THEN Repl!NoClient ELSE cl[z]
      BY ClosingSelf
    <3>3. CASE cl' = Repl!Gone(cl, Repl!Slaves(x))
      <4>1. c = Repl!Gone(cl, Repl!Slaves(x))[z]
        BY <3>1, <3>3
      <4> QED
        BY <3>1, <3>2, <4>1
    <3>4. CASE cl' = Repl!Gone(cl, Repl!Slaves(x) \cup {x})
      <4>1. c = Repl!Gone(cl, Repl!Slaves(x) \cup {x})[z]
        BY <3>1, <3>4
      <4> QED
        BY <3>1, <3>2, <4>1
    <3> QED
      BY <3>3, <3>4
  <2> QED
    BY <1>2, <2>1, ClosingKeeps
<1> QED
  BY <1>2, <1>3, <1>4 DEF StepOK

LEMMA ReceiveFullresyncKeeps ==
    ASSUME ReplInv, NEW x \in Server, Repl!ReceiveFullresync(x)
    PROVE  StepOK
<1> DEFINE k == Repl!Closed(srv, Repl!Slaves(x))
<1>1. /\ srv[x].state = "receive_psync" /\ cl[x].state \in {"wait_end", "send_bulk"}
      /\ srv' = [k EXCEPT ![x].state = "transfer", ![x].position = None,
                          ![x].backlog = None]
      /\ cl' = Repl!Gone(cl, Repl!Slaves(x)) /\ count' = count
  BY DEF Repl!ReceiveFullresync
<1>2. PICK m : m = [srv[x] EXCEPT !.state = "transfer", !.position = None, !.backlog = None]
  OBVIOUS
<1>3. /\ m \in Repl!State /\ m.backlog = None /\ m.offset = srv[x].offset
      /\ m.run = srv[x].run /\ m.host = srv[x].host /\ m.position = None
      /\ m.data = srv[x].data /\ m.state = "transfer" /\ m.bgsave = srv[x].bgsave
  <2>1. srv[x] \in Repl!State
    BY ReplFacts
  <2> QED
    BY <1>2, <2>1 DEF Repl!State
<1>4. k \in [Server -> Repl!State] /\ k[x] = srv[x]
  BY ClosingSelf
<1>5. srv' = [k EXCEPT ![x] = m]
  <2> HIDE DEF k
  <2> QED
    BY <1>1, <1>2, <1>4
<1>6. MasterLeft(srv[x], m)
  BY <1>3 DEF MasterLeft
<1>7. ASSUME srv'[x] = m PROVE StepKeeps(x)
  <2>1. Member(x) /\ srv[x].host \in Server /\ srv[x].host # x /\ x # None
    <3>1. Member(x) /\ cl[x] # Repl!NoClient
      BY <1>1, ReplFacts DEF Repl!NoClient
    <3> QED
      BY <3>1, ReplFacts DEF Member
  <2>2. PICK h \in Server \ {x} : h = srv[x].host
    BY <2>1
  <2>3. cl'[x] = cl[x]
    BY <1>1, ClosingSelf, SlavesFacts
  <2>4. SameMaster(srv[h], srv'[h]) /\ srv'[h].bgsave = srv[h].bgsave
    <3>1. srv'[h] = k[h]
      BY <1>4, <1>5, Zenon
    <3> QED
      BY <3>1, ClosingMasters
  <2>5. Own(m, cl[x])
    BY <1>1, <1>3, <2>1 DEF Member, Own
  <2>6. Kept(srv[x], cl[x], srv[h], m, cl[x], srv'[h])
    BY <1>1, <1>3, <2>4, KeptForgets DEF SameMaster
  <2> QED
    BY <1>3, <1>7, <2>1, <2>2, <2>3, <2>5, <2>6, KeepsOne DEF Member
<1>8. count' \in [Repl!Events -> Nat]
  BY <1>1 DEF ReplInv, ReplTyped
<1> QED
  BY <1>1, <1>3, <1>5, <1>6, <1>7, <1>8, ClosingStep

\* The whole step when x gives up its own link and its position as well.
LEMMA ClosingAlone ==
    ASSUME ReplInv, NEW x \in Server, NEW m \in Repl!State,
           srv' = [Repl!Closed(srv, Repl!Slaves(x)) EXCEPT ![x] = m],
           \/ cl' = Repl!Gone(cl, Repl!Slaves(x)) /\ cl[x] = Repl!NoClient
           \/ cl' = Repl!Gone(cl, Repl!Slaves(x) \cup {x}),
           count' \in [Repl!Events -> Nat],
           MasterLeft(srv[x], m),
           Own(m, Repl!NoClient), m.run[1] = x, m.position = None
    PROVE  StepOK
<1>1. cl'[x] = Repl!NoClient
  <2>1. PICK c : c = cl'[x]
    OBVIOUS
  <2>2. /\ Repl!Gone(cl, Repl!Slaves(x))[x]
             = IF x \in Repl!Slaves(x) THEN Repl!NoClient ELSE cl[x]
        /\ Repl!Gone(cl, Repl!Slaves(x) \cup {x})[x] = Repl!NoClient
    BY ClosingSelf
  <2>3. CASE cl' = Repl!Gone(cl, Repl!Slaves(x)) /\ cl[x] = Repl!NoClient
    <3>1. c = Repl!Gone(cl, Repl!Slaves(x))[x]
      BY <2>1, <2>3
    <3> QED
      BY <2>1, <2>2, <2>3, <3>1
  <2>4. CASE cl' = Repl!Gone(cl, Repl!Slaves(x) \cup {x})
    <3>1. c = Repl!Gone(cl, Repl!Slaves(x) \cup {x})[x]
      BY <2>1, <2>4
    <3> QED
      BY <2>1, <2>2, <3>1
  <2> QED
    BY <2>3, <2>4
<1>2. ASSUME srv'[x] = m PROVE StepKeeps(x)
  BY <1>1, <1>2, KeepsAlone
<1> QED
  BY <1>2, ClosingStep

LEMMA RefusedKeeps ==
    ASSUME ReplInv, NEW x \in Server, Repl!Refused(x),
           srv[x].state \in {"connect", "refused"}, count' \in [Repl!Events -> Nat]
    PROVE  StepOK
<1> DEFINE k == Repl!Closed(srv, Repl!Slaves(x))
<1>1. PICK m : m = [srv[x] EXCEPT !.state = "connect", !.position = None,
                                  !.backlog = None]
  OBVIOUS
<1>2. /\ m \in Repl!State /\ m.backlog = None /\ m.offset = srv[x].offset
      /\ m.run = srv[x].run /\ m.host = srv[x].host /\ m.position = None
      /\ m.state = "connect"
  <2>1. srv[x] \in Repl!State
    BY ReplFacts
  <2> QED
    BY <1>1, <2>1 DEF Repl!State
<1>3. k \in [Server -> Repl!State] /\ k[x] = srv[x]
  BY ClosingSelf
<1>4. srv' = [k EXCEPT ![x] = m] /\ cl' = Repl!Gone(cl, Repl!Slaves(x))
  <2>1. srv' = [k EXCEPT ![x].state = "connect", ![x].position = None,
                         ![x].backlog = None]
    BY DEF Repl!Refused
  <2> HIDE DEF k
  <2> QED
    BY <1>1, <1>3, <2>1 DEF Repl!Refused
<1>5. cl[x] = Repl!NoClient /\ Own(m, Repl!NoClient) /\ m.run[1] = x
  <2>1. Member(x) /\ x # None
    BY ReplFacts
  <2>2. cl[x] = Repl!NoClient
    BY <2>1 DEF Member, Own
  <2> QED
    BY <1>2, <2>1, <2>2 DEF Member, Own, Repl!NoClient
<1>6. MasterLeft(srv[x], m)
  BY <1>2 DEF MasterLeft
<1> QED
  BY <1>2, <1>4, <1>5, <1>6, ClosingAlone

LEMMA ReceiveRefusalKeeps ==
    ASSUME ReplInv, NEW x \in Server, Repl!ReceiveRefusal(x)
    PROVE  StepOK
<1>1. srv[x].state = "refused" /\ Repl!Refused(x) /\ count' = count
  BY DEF Repl!ReceiveRefusal
<1>2. count' \in [Repl!Events -> Nat]
  BY <1>1 DEF ReplInv, ReplTyped
<1> QED
  BY <1>1, <1>2, RefusedKeeps

LEMMA RestartKeeps ==
    ASSUME ReplInv, NEW x \in Server, Repl!Restart(x)
    PROVE  StepOK
<1> DEFINE k == Repl!Closed(srv, Repl!Slaves(x))
           s == srv[x]
<1>1. PICK m : m = [data |-> s.disk, offset |-> 0, backlog |-> None, bgsave |-> None,
                    disk |-> s.disk, run |-> <<x, s.run[2] + 1>>, host |-> s.host,
                    position |-> None,
                    state |-> IF s.host = None THEN "none" ELSE "connect"]
  OBVIOUS
<1>2. k \in [Server -> Repl!State] /\ k[x] = s
  BY ClosingSelf
<1>3. /\ srv' = [k EXCEPT ![x] = m] /\ Repl!Happens("restart")
      /\ cl' = Repl!Gone(cl, Repl!Slaves(x) \cup {x})
  <2>1. /\ srv' = [k EXCEPT ![x] =
            [data |-> @.disk, offset |-> 0, backlog |-> None, bgsave |-> None,
             disk |-> @.disk, run |-> <<x, @.run[2] + 1>>, host |-> @.host,
             position |-> None,
             state |-> IF @.host = None THEN "none" ELSE "connect"]]
        /\ Repl!Happens("restart")
        /\ cl' = Repl!Gone(cl, Repl!Slaves(x) \cup {x})
    BY DEF Repl!Restart
  <2> HIDE DEF k
  <2> QED
    BY <1>1, <1>2, <2>1
<1>4. /\ s.disk \in Data /\ s.run \in Server \X Nat /\ s.run[1] = x
      /\ s.host \in Server \cup {None}
  BY ReplFacts DEF Member
<1>5. <<x, s.run[2] + 1>> \in Server \X Nat
  BY <1>4
<1>6. /\ m \in Repl!State /\ m.position = None /\ m.run[1] = x
      /\ m.run[2] = s.run[2] + 1 /\ m.host = s.host /\ m.backlog = None
      /\ m.state = IF m.host = None THEN "none" ELSE "connect"
  BY <1>1, <1>4, <1>5, SameData DEF Repl!State, Repl!RunId
<1>7. Own(m, Repl!NoClient) /\ MasterLeft(s, m)
  BY <1>4, <1>6 DEF Own, MasterLeft, Repl!NoClient
<1>8. count' \in [Repl!Events -> Nat]
  BY <1>3, CountedEvent DEF Repl!Events
<1> QED
  BY <1>3, <1>6, <1>7, <1>8, ClosingAlone

LEMMA SlaveofKeeps ==
    ASSUME ReplInv, NEW x \in Server, NEW y \in Server \ {x}, Repl!Slaveof(x, y)
    PROVE  StepOK
<1> DEFINE k == Repl!Closed(srv, Repl!Slaves(x))
<1>1. PICK m : m = [srv[x] EXCEPT !.host = y, !.state = "connect", !.position = None,
                                  !.backlog = None, !.offset = 0]
  OBVIOUS
<1>2. /\ m \in Repl!State /\ m.backlog = None /\ m.run = srv[x].run /\ m.host = y
      /\ m.position = None /\ m.state = "connect"
  <2>1. srv[x] \in Repl!State
    BY ReplFacts
  <2> QED
    BY <1>1, <2>1 DEF Repl!State
<1>3. k \in [Server -> Repl!State] /\ k[x] = srv[x]
  BY ClosingSelf
<1>4. /\ srv' = [k EXCEPT ![x] = m] /\ cl' = Repl!Gone(cl, Repl!Slaves(x) \cup {x})
      /\ Repl!Happens("slaveof")
  <2>1. srv' = [k EXCEPT ![x].host = y, ![x].state = "connect", ![x].position = None,
                         ![x].backlog = None, ![x].offset = 0]
    BY DEF Repl!Slaveof
  <2> HIDE DEF k
  <2>2. srv' = [k EXCEPT ![x] = [srv[x] EXCEPT !.host = y, !.state = "connect",
                                    !.position = None, !.backlog = None, !.offset = 0]]
    BY <1>3, <2>1
  <2>3. srv' = [k EXCEPT ![x] = m]
    BY <1>1, <2>2
  <2> QED
    BY <2>3 DEF Repl!Slaveof
<1>5. y # None /\ Member(x)
  BY ReplFacts
<1>6. Own(m, Repl!NoClient) /\ m.run[1] = x
  BY <1>2, <1>5 DEF Member, Own, Repl!NoClient
<1>7. count' \in [Repl!Events -> Nat] /\ count'["slaveof"] # 0
  BY <1>4, CountedEvent DEF Repl!Events
<1>8. MasterLeft(srv[x], m)
  BY <1>2, <1>7 DEF MasterLeft
<1> QED
  BY <1>2, <1>4, <1>6, <1>7, <1>8, ClosingAlone

LEMMA BreakKeeps ==
    ASSUME ReplInv, NEW x \in Server, Repl!Break(x)
    PROVE  StepOK
<1>1. /\ cl[x] # Repl!NoClient \/ srv[x].state = "refused"
      /\ Repl!Happens("break")
      /\ srv' = Repl!Closed(srv, {x}) /\ cl' = Repl!Gone(cl, {x})
  BY DEF Repl!Break
<1>2. count' \in [Repl!Events -> Nat]
  BY <1>1, CountedEvent DEF Repl!Events
<1>3. PICK f \in [Server -> Repl!State] : f = srv
  BY DEF ReplInv, ReplTyped
<1>4. PICK S \in SUBSET Server : S = {x}
  OBVIOUS
<1>5. PICK g : g = Repl!Closed(f, {x})
  OBVIOUS
<1>6. /\ g \in [Server -> Repl!State]
      /\ \A z \in Server : g[z] = IF z \in {x} THEN [f[z] EXCEPT !.state = "connect"]
                                   ELSE f[z]
  <2>1. g = Repl!Closed(f, S)
    BY <1>4, <1>5
  <2>2. /\ g \in [Server -> Repl!State]
        /\ \A z \in Server : g[z] = IF z \in S THEN [f[z] EXCEPT !.state = "connect"]
                                     ELSE f[z]
    BY <2>1, ClosedFacts
  <2> QED
    BY <1>4, <2>2
<1>7. /\ srv' \in [Server -> Repl!State]
      /\ srv'[x] = [srv[x] EXCEPT !.state = "connect"]
      /\ \A z \in Server \ {x} : srv'[z] = srv[z]
  BY <1>1, <1>3, <1>5, <1>6
<1>8. PICK c : c = Repl!Gone(cl, {x})
  OBVIOUS
<1>9. /\ c \in [Server -> Repl!Client]
      /\ \A z \in Server : c[z] = IF z \in {x} THEN Repl!NoClient ELSE cl[z]
  BY <1>4, <1>8, GoneFacts
<1>10. /\ cl' \in [Server -> Repl!Client] /\ cl'[x] = Repl!NoClient
       /\ \A z \in Server \ {x} : cl'[z] = cl[z]
  BY <1>1, <1>8, <1>9
<1>11. ReplTyped'
  BY <1>2, <1>7, <1>10 DEF ReplTyped
<1>12. /\ SameMaster(srv[x], srv'[x]) /\ srv'[x].bgsave = srv[x].bgsave
  <2>1. PICK k \in Repl!State : k = srv[x]
    BY ReplFacts
  <2> QED
    BY <1>7, <2>1, ConnectState
<1>13. ASSUME NEW h \in Server
       PROVE  SameMaster(srv[h], srv'[h]) /\ srv'[h].bgsave = srv[h].bgsave
  <2>1. CASE h # x
    BY <1>7, <2>1 DEF SameMaster
  <2> QED
    BY <1>12, <2>1
<1>14. StepKeeps(x)
  <2>1. PICK h \in Server : h = srv[x].host
    BY <1>1, ReplFacts DEF Member, Own
  <2>2. MasterLeft(srv[h], srv'[h])
    BY <1>13 DEF MasterLeft, SameMaster
  <2> QED
    BY <1>7, <1>10, <2>1, <2>2, LeftKeeps
<1>15. ASSUME NEW z \in Server \ {x} PROVE StepKeeps(z)
  BY <1>7, <1>10, <1>13, ReplFacts, OtherKeeps
<1> QED
  BY <1>11, <1>14, <1>15 DEF StepOK

LEMMA SlaveofNoOneKeeps ==
    ASSUME ReplInv, NEW x \in Server, Repl!SlaveofNoOne(x)
    PROVE  StepOK
<1> DEFINE alone == srv[x].state = "connected" /\ Repl!Slaves(x) = {}
           m1 == [srv[x] EXCEPT !.host = None, !.state = "none", !.position = None]
<1>1. PICK m : m = IF alone
                   THEN [m1 EXCEPT !.offset = srv[x].position.off, !.backlog = None]
                   ELSE m1
  OBVIOUS
<1>2. /\ srv[x].host # None /\ Repl!Happens("slaveof")
      /\ srv' = [srv EXCEPT ![x] = m] /\ cl' = Repl!Gone(cl, {x})
  BY <1>1 DEF Repl!SlaveofNoOne
<1>3. count' \in [Repl!Events -> Nat] /\ count'["slaveof"] # 0
  BY <1>2, CountedEvent DEF Repl!Events
<1>4. /\ m \in Repl!State /\ m.host = None /\ m.state = "none" /\ m.position = None
      /\ m.run = srv[x].run /\ m.data = srv[x].data /\ m.bgsave = srv[x].bgsave
      /\ m.backlog # None => m.backlog = srv[x].backlog
      /\ ~alone => m.backlog = srv[x].backlog /\ m.offset = srv[x].offset
  <2>1. /\ srv[x] \in Repl!State /\ Member(x)
        /\ srv[x].position # None => srv[x].position.off \in Nat
    BY ReplFacts
  <2>2. PICK k : k = m1
    OBVIOUS
  <2>3. /\ k \in Repl!State /\ k.host = None /\ k.state = "none" /\ k.position = None
        /\ k.run = srv[x].run /\ k.data = srv[x].data /\ k.bgsave = srv[x].bgsave
        /\ k.backlog = srv[x].backlog /\ k.offset = srv[x].offset
    BY <2>1, <2>2 DEF Repl!State
  <2>4. CASE alone
    <3>1. srv[x].position # None
      BY <2>1, <2>4 DEF Member, Own
    <3>2. PICK n \in Nat : n = srv[x].position.off
      BY <2>1, <3>1
    <3>3. m = [k EXCEPT !.offset = n, !.backlog = None]
      BY <1>1, <2>2, <2>4, <3>2
    <3> HIDE DEF m1, alone
    <3>4. /\ m \in Repl!State /\ m.host = k.host /\ m.state = k.state
          /\ m.position = k.position /\ m.run = k.run /\ m.data = k.data
          /\ m.bgsave = k.bgsave /\ m.backlog = None
      BY <2>3, <3>3 DEF Repl!State
    <3> QED
      BY <2>3, <2>4, <3>4
  <2>5. CASE ~alone
    <3>1. m = k
      BY <1>1, <2>2, <2>5
    <3> QED
      BY <2>3, <2>5, <3>1
  <2> QED
    BY <2>4, <2>5
<1> HIDE DEF m1
<1>5. srv' \in [Server -> Repl!State] /\ srv'[x] = m /\ \A z \in Server \ {x} : srv'[z] = srv[z]
  BY <1>2, <1>4 DEF ReplInv, ReplTyped
<1>6. {x} \in SUBSET Server
  OBVIOUS
<1>7. PICK c : c = Repl!Gone(cl, {x})
  OBVIOUS
<1>8. /\ c \in [Server -> Repl!Client]
      /\ \A z \in Server : c[z] = IF z \in {x} THEN Repl!NoClient ELSE cl[z]
  BY <1>6, <1>7, GoneFacts
<1>9. /\ cl' \in [Server -> Repl!Client] /\ cl'[x] = Repl!NoClient
      /\ \A z \in Server \ {x} : cl'[z] = cl[z]
  BY <1>2, <1>7, <1>8
<1>10. ReplTyped'
  BY <1>3, <1>5, <1>9 DEF ReplTyped
<1>11. StepKeeps(x)
  <2>1. Member(x)
    BY ReplFacts
  <2>2. Own(m, Repl!NoClient) /\ m.run[1] = x
    BY <1>4, <2>1 DEF Member, Own, Repl!NoClient
  <2> QED
    BY <1>4, <1>5, <1>9, <2>2, KeepsAlone
<1>12. ASSUME NEW z \in Server \ {x} PROVE StepKeeps(z)
  <2>1. CASE srv[z].host = x /\ alone
    <3>1. cl[z] = Repl!NoClient
      BY <2>1, SlavesFacts
    <3>2. MasterLeft(srv[x], srv'[x])
      BY <1>3, <1>4, <1>5 DEF MasterLeft
    <3> QED
      BY <1>5, <1>9, <2>1, <3>1, <3>2, LeftKeeps
  <2>2. CASE srv[z].host = x /\ ~alone
    <3>1. SameMaster(srv[x], srv'[x]) /\ srv'[x].bgsave = srv[x].bgsave
      BY <1>4, <1>5, <2>2 DEF SameMaster
    <3> QED
      BY <1>5, <1>9, <2>2, <3>1, OtherKeeps
  <2>3. CASE srv[z].host # x
    BY <1>5, <1>9, <2>3, ReplFacts, KeepsFrame
  <2> QED
    BY <2>1, <2>2, <2>3
<1> QED
  BY <1>10, <1>11, <1>12 DEF StepOK

LEMMA LoadRdbKeeps ==
    ASSUME ReplInv, NEW x \in Server, Repl!LoadRdb(x)
    PROVE  StepOK
<1> DEFINE p == [off |-> cl[x].init, run |-> srv[srv[x].host].run]
<1>1. /\ srv[x].state = "transfer" /\ cl[x].state = "send_bulk" /\ count' = count
      /\ srv' = [srv EXCEPT ![x].state = "connected", ![x].data = cl[x].rdb,
                            ![x].disk = cl[x].rdb, ![x].position = p]
      /\ cl' = [cl EXCEPT ![x] = [@ EXCEPT !.state = "online", !.rdb = <<>>, !.init = 0]]
  BY DEF Repl!LoadRdb
<1>2. /\ Member(x) /\ x # None /\ cl[x] # Repl!NoClient
      /\ srv[x].host \in Server \ {x} /\ srv[x].backlog = None
  <2>1. Member(x) /\ x # None
    BY ReplFacts
  <2>2. cl[x] # Repl!NoClient
    BY <1>1 DEF Repl!NoClient
  <2> QED
    BY <1>1, <2>1, <2>2, ReplFacts DEF Member, Own
<1>3. PICK h \in Server \ {x} : h = srv[x].host
  BY <1>2
<1>4. PICK q : q = p
  OBVIOUS
<1>5. /\ q \in Repl!Position /\ q # None /\ q.off = cl[x].init /\ q.run = srv[h].run
  BY <1>3, <1>4, ReplFacts DEF Repl!Position, Repl!RunId, ReplInv, Repl!ReplicationAssumption
<1>6. PICK d \in Data : d = cl[x].rdb
  BY ReplFacts
<1>7. PICK m : m = [srv[x] EXCEPT !.state = "connected", !.data = d, !.disk = d, !.position = q]
  OBVIOUS
<1>8. /\ m \in Repl!State /\ m.host = h /\ m.state = "connected" /\ m.position = q
      /\ m.data = d /\ m.run = srv[x].run /\ m.backlog = None
      /\ m.offset = srv[x].offset
  <2>1. srv[x] \in Repl!State
    BY ReplFacts
  <2> QED
    BY <1>2, <1>3, <1>5, <1>7, <2>1, SameData DEF Repl!State
<1> HIDE DEF p
<1>9. /\ srv' \in [Server -> Repl!State]
      /\ srv'[x] = m /\ \A z \in Server \ {x} : srv'[z] = srv[z]
  <2>1. srv' = [srv EXCEPT ![x] = m]
    BY <1>1, <1>4, <1>6, <1>7 DEF ReplInv, ReplTyped
  <2> QED
    BY <1>8, <2>1 DEF ReplInv, ReplTyped
<1>10. PICK k : k = [cl[x] EXCEPT !.state = "online", !.rdb = <<>>, !.init = 0]
  OBVIOUS
<1>11. k \in Repl!Client /\ k.state = "online" /\ k.out = cl[x].out
  <2>1. cl[x] \in Repl!Client /\ <<>> \in Data
    BY ReplFacts
  <2> QED
    BY <1>10, <2>1, SameData DEF Repl!Client
<1>12. /\ cl' \in [Server -> Repl!Client] /\ cl'[x] = k
       /\ \A z \in Server \ {x} : cl'[z] = cl[z]
  BY <1>1, <1>10, <1>11 DEF ReplInv, ReplTyped
<1>13. ReplTyped'
  BY <1>1, <1>9, <1>12 DEF ReplInv, ReplTyped
<1>14. StepKeeps(x)
  <2>1. Own(m, k)
    BY <1>2, <1>3, <1>5, <1>8, <1>11, ReplFacts DEF Own, Repl!NoClient
  <2>2. Kept(srv[x], cl[x], srv[h], m, k, srv[h])
    <3>1. /\ cl[x].out \in Data /\ cl[x].init \in Nat /\ srv[h].offset \in Nat
          /\ srv[h].run[2] \in Nat /\ Link(srv[x], cl[x], srv[h])
      BY <1>2, <1>3, ReplFacts DEF Member
    <3> QED
      BY <1>1, <1>5, <1>6, <1>8, <1>11, <3>1, KeptLoaded
  <2>3. srv'[h] = srv[h] /\ m.run[1] = x
    BY <1>2, <1>8, <1>9 DEF Member
  <2> QED
    BY <1>2, <1>3, <1>8, <1>9, <1>12, <2>1, <2>2, <2>3, ReplFacts, KeepsOne
<1>15. ASSUME NEW z \in Server \ {x} PROVE StepKeeps(z)
  <2>1. CASE srv[z].host = x
    <3>1. cl[z] = Repl!NoClient
      BY <1>1, <2>1, SlavesFacts
    <3>2. MasterLeft(srv[x], srv'[x])
      BY <1>1, <1>8, <1>9 DEF MasterLeft
    <3> QED
      BY <1>9, <1>12, <2>1, <3>1, <3>2, LeftKeeps
  <2>2. CASE srv[z].host # x
    BY <1>9, <1>12, <2>2, ReplFacts, KeepsFrame
  <2> QED
    BY <2>1, <2>2
<1> QED
  BY <1>13, <1>14, <1>15 DEF StepOK

-----------------------------------------------------------------------------
(* Replication: the answers to PSYNC *)

\* The master m after a slave came: it has a backlog.
Opened(m, m2) ==
    /\ m2.data = m.data /\ m2.run = m.run /\ m2.state = m.state
    /\ m2.host = m.host /\ m2.position = m.position
    /\ m.bgsave # None => m2.bgsave = m.bgsave
    /\ IF m.backlog = None THEN m2.backlog = <<>> /\ m2.offset = m.offset + 1
       ELSE m2.backlog = m.backlog /\ m2.offset = m.offset

LEMMA ResumableOpened ==
    ASSUME NEW s, NEW m, NEW s2, NEW m2, Opened(m, m2),
           s2.position = s.position, s2.data = s.data,
           m.offset \in Nat, s.position # None => s.position.off \in Nat,
           Resumable(s, m)
    PROVE  Resumable(s2, m2)
<1>1. CASE m.backlog = None
  BY <1>1, MakesEmpty DEF Resumable, Opened
<1>2. CASE m.backlog # None
  BY <1>2 DEF Resumable, Opened
<1> QED
  BY <1>1, <1>2

LEMMA KeptOpened ==
    ASSUME NEW s, NEW c, NEW m, NEW m2, Opened(m, m2),
           m.offset \in Nat, s.position # None => s.position.off \in Nat,
           None \notin Data, Link(s, c, m)
    PROVE  Kept(s, c, m, s, c, m2)
<1>1. Link(s, c, m2) /\ (InSync(s, c, m) => InSync(s, c, m2))
  <2>1. CASE m.backlog = None
    <3>1. c = Repl!NoClient
      BY <2>1 DEF Link
    <3> QED
      BY <3>1 DEF Link, InSync, Opened, Repl!NoClient
  <2>2. CASE m.backlog # None
    BY <2>2 DEF Link, InSync, Opened, Repl!NoClient
  <2> QED
    BY <2>1, <2>2
<1>2. Resumable(s, m) => Resumable(s, m2)
  BY ResumableOpened
<1> QED
  BY <1>1, <1>2 DEF Kept

LEMMA OpenedState ==
    ASSUME ReplInv, NEW y \in Server
    PROVE  /\ Repl!WithBacklog(y) \in Repl!State
           /\ Opened(srv[y], Repl!WithBacklog(y))
           /\ Repl!WithBacklog(y).bgsave = srv[y].bgsave
<1>1. srv[y] \in Repl!State /\ <<>> \in Data /\ srv[y].offset \in Nat
  BY ReplFacts
<1>2. CASE srv[y].backlog = None
  <2>1. Repl!WithBacklog(y) = Repl!CreateBacklog(srv[y])
    BY <1>2, SlavesFacts DEF Repl!WithBacklog
  <2>2. PICK n \in Nat : n = srv[y].offset + 1
    BY <1>1
  <2>3. Repl!WithBacklog(y) = [srv[y] EXCEPT !.backlog = <<>>, !.offset = n]
    BY <1>1, <2>1, <2>2 DEF Repl!CreateBacklog, Repl!State
  <2>4. PICK m : m = Repl!WithBacklog(y)
    OBVIOUS
  <2>5. /\ m \in Repl!State /\ m.data = srv[y].data /\ m.run = srv[y].run
        /\ m.state = srv[y].state /\ m.host = srv[y].host
        /\ m.position = srv[y].position /\ m.bgsave = srv[y].bgsave
        /\ m.backlog = <<>> /\ m.offset = n
    BY <1>1, <2>3, <2>4, SameData DEF Repl!State
  <2> QED
    BY <1>2, <2>2, <2>4, <2>5 DEF Opened
<1>3. CASE srv[y].backlog # None
  BY <1>1, <1>3 DEF Repl!WithBacklog, Opened
<1> QED
  BY <1>2, <1>3

\* What y sends x with +CONTINUE.
LEMMA MissingFacts ==
    ASSUME ReplInv, NEW x \in Server, NEW y \in Server, Repl!CanContinue(x, y)
    PROVE  LET b == srv[y].backlog
               n == srv[y].offset - srv[x].position.off
           IN  /\ b \in Data /\ Len(b) \in Nat /\ n \in 0..Len(b)
               /\ srv[x].position # None /\ srv[x].position.run = srv[y].run
               /\ Repl!Missing(x, y) = SubSeq(b, Len(b) - n + 1, Len(b))
               /\ Repl!Missing(x, y) \in Data /\ Len(Repl!Missing(x, y)) = n
<1> DEFINE b == srv[y].backlog
           n == srv[y].offset - srv[x].position.off
           k == Len(b) - n
<1>1. /\ srv[x].position # None /\ srv[x].position.run = srv[y].run /\ b # None
      /\ srv[x].position.off + 1 >= srv[y].offset - Len(b) + 1
      /\ srv[x].position.off + 1 <= (srv[y].offset - Len(b) + 1) + Len(b)
  BY DEF Repl!CanContinue, Repl!BacklogOff
<1>2. /\ b \in Data /\ srv[y].offset \in Nat /\ srv[x].position.off \in Nat
      /\ Len(b) \in Nat
  BY <1>1, ReplFacts, EmptyData
<1>3. n \in 0..Len(b) /\ k \in 0..Len(b) /\ Len(b) - k = n
  <2>1. PICK l \in Nat : l = Len(b)
    BY <1>2
  <2>2. PICK i \in Nat : i = srv[y].offset
    BY <1>2
  <2>3. PICK j \in Nat : j = srv[x].position.off
    BY <1>2
  <2>4. j + 1 >= i - l + 1 /\ j + 1 <= (i - l + 1) + l /\ n = i - j /\ k = l - n
    BY <1>1, <2>1, <2>2, <2>3
  <2> HIDE DEF b, n, k
  <2> QED
    BY <2>1, <2>4
<1>4. Repl!Missing(x, y)
        = SubSeq(b, srv[x].position.off + 2 - (srv[y].offset - Len(b) + 1), Len(b))
  BY DEF Repl!Missing, Repl!BacklogOff
<1>5. srv[x].position.off + 2 - (srv[y].offset - Len(b) + 1) = k + 1
  <2>1. PICK l \in Nat : l = Len(b)
    BY <1>2, Zenon
  <2>2. PICK i \in Nat : i = srv[y].offset
    BY <1>2, Zenon
  <2>3. PICK j \in Nat : j = srv[x].position.off
    BY <1>2, Zenon
  <2>4. k = l - (i - j)
    BY <2>1, <2>2, <2>3, Zenon
  <2>5. j + 2 - (i - l + 1) = l - (i - j) + 1
    OBVIOUS
  <2> QED
    BY <2>1, <2>2, <2>3, <2>4, <2>5, Zenon
<1>6. Repl!Missing(x, y) = SubSeq(b, k + 1, Len(b))
  BY <1>4, <1>5
<1> HIDE DEF b, n, k
<1>7. /\ SubSeq(b, 1, k) \in Data /\ Len(SubSeq(b, 1, k)) = k
      /\ SubSeq(b, k + 1, Len(b)) \in Data
      /\ SubSeq(b, 1, k) \o SubSeq(b, k + 1, Len(b)) = b
  BY <1>2, <1>3, PrefixData DEF b
<1>8. /\ Len(b) = Len(SubSeq(b, 1, k)) + Len(SubSeq(b, k + 1, Len(b)))
      /\ Len(SubSeq(b, k + 1, Len(b))) \in Nat
  BY <1>7, ConcatData
<1>9. Len(SubSeq(b, k + 1, Len(b))) = n
  BY <1>2, <1>3, <1>7, <1>8
<1>10. k = Len(b) - n
  BY DEF k
<1> QED
  BY <1>1, <1>2, <1>3, <1>6, <1>7, <1>9, <1>10 DEF b, n

\* Where the position of a slave is a place in the stream of its master, no
\* old slave can PSYNC.
LEMMA ResumeFinds ==
    ASSUME ReplInv, NEW x \in Server, Resume(x)
    PROVE  NotOld(x)
<1> SUFFICES ASSUME srv[x].state = "connect", Repl!CanContinue(x, srv[x].host)
             PROVE  srv[x].data \o Repl!Missing(x, srv[x].host) = srv[srv[x].host].data
  BY DEF NotOld
<1>1. PICK y \in Server : y = srv[x].host
  BY ReplFacts DEF Member, Own
<1> DEFINE b == srv[y].backlog
           n == srv[y].offset - srv[x].position.off
<1>2. /\ b \in Data /\ Len(b) \in Nat /\ n \in 0..Len(b)
      /\ srv[x].position # None /\ srv[x].position.run = srv[y].run
      /\ Repl!Missing(x, y) = SubSeq(b, Len(b) - n + 1, Len(b))
  BY <1>1, MissingFacts
<1>3. /\ srv[y].offset \in Nat /\ srv[x].position.off \in Nat /\ srv[x].data \in Data
      /\ srv[y].data \in Data /\ None \notin Data /\ y # None
      /\ EndsIn(srv[y].data, b)
  <2>1. b # None => EndsIn(srv[y].data, b)
    BY ReplFacts DEF Member, Own
  <2> QED
    BY <1>2, <2>1, ReplFacts
<1>4. srv[y].offset <= srv[x].position.off + Len(b)
  <2> HIDE DEF b
  <2> QED
    BY <1>2, <1>3
<1>5. PICK o \in Data : Makes(srv[x].data, o, srv[y].data)
                        /\ srv[x].position.off + Len(o) = srv[y].offset
  BY <1>1, <1>2, <1>3, <1>4 DEF Resume, Resumable
<1>6. Len(o) = n /\ Len(o) \in Nat
  <2>1. Len(o) \in Nat
    BY EmptyData
  <2> QED
    BY <1>3, <1>5, <2>1
<1> HIDE DEF b, n
<1>7. o = SubSeq(b, Len(b) - Len(o) + 1, Len(b))
  <2>1. PICK e \in Data : e = b
    BY <1>2
  <2>2. PICK s \in Data : s = srv[x].data
    BY <1>3
  <2>3. PICK d \in Data : d = srv[y].data
    BY <1>3
  <2>4. Makes(s, o, d) /\ EndsIn(d, e) /\ Len(o) <= Len(e)
    BY <1>2, <1>3, <1>5, <1>6, <2>1, <2>2, <2>3
  <2>5. o = SubSeq(e, Len(e) - Len(o) + 1, Len(e))
    BY <2>4, MissingFound
  <2> QED
    BY <2>1, <2>5
<1> QED
  BY <1>1, <1>2, <1>5, <1>6, <1>7 DEF Makes

LEMMA ContinueKeeps ==
    ASSUME ReplInv, NEW x \in Server, NEW y \in Server \ {x}, srv[x].host = y,
           srv[x].state = "connect", Repl!Ready(y), Repl!Continue(x, y),
           count' = count
    PROVE  StepOK
<1> DEFINE n == srv[y].offset - srv[x].position.off
<1>1. PICK o \in Data : o = Repl!Missing(x, y)
  BY MissingFacts DEF Repl!Continue
<1>2. PICK k : k = [Repl!NoClient EXCEPT !.state = "online", !.out = o]
  OBVIOUS
<1>3. /\ k \in Repl!Client /\ k.state = "online" /\ k.out = o /\ k # Repl!NoClient
  BY <1>2, ReplFacts, SameData DEF Repl!Client, Repl!NoClient
<1>4. /\ srv' = [srv EXCEPT ![x].state = "connected"] /\ cl' = [cl EXCEPT ![x] = k]
      /\ Repl!CanContinue(x, y)
  BY <1>1, <1>2 DEF Repl!Continue
<1>5. PICK m : m = [srv[x] EXCEPT !.state = "connected"]
  OBVIOUS
<1>6. /\ m \in Repl!State /\ m.host = y /\ m.state = "connected"
      /\ m.position = srv[x].position /\ m.data = srv[x].data /\ m.run = srv[x].run
      /\ m.backlog = srv[x].backlog /\ m.offset = srv[x].offset
      /\ m.bgsave = srv[x].bgsave
  <2>1. srv[x] \in Repl!State
    BY ReplFacts
  <2> QED
    BY <1>5, <2>1 DEF Repl!State
<1>7. srv' \in [Server -> Repl!State] /\ srv'[x] = m /\ \A z \in Server \ {x} : srv'[z] = srv[z]
  BY <1>4, <1>5, <1>6 DEF ReplInv, ReplTyped
<1>8. cl' \in [Server -> Repl!Client] /\ cl'[x] = k /\ \A z \in Server \ {x} : cl'[z] = cl[z]
  BY <1>3, <1>4 DEF ReplInv, ReplTyped
<1>9. ReplTyped'
  BY <1>7, <1>8 DEF ReplInv, ReplTyped
<1>10. ASSUME NEW h \in Server
       PROVE  SameMaster(srv[h], srv'[h]) /\ srv'[h].bgsave = srv[h].bgsave
  BY <1>6, <1>7 DEF SameMaster
<1>11. ASSUME NEW z \in Server \ {x} PROVE StepKeeps(z)
  BY <1>7, <1>8, <1>10, ReplFacts, OtherKeeps
<1>12. StepKeeps(x)
  <2>1. /\ Member(x) /\ Member(y) /\ y # None /\ x # None
        /\ srv[x].position # None /\ srv[x].position.off \in Nat
        /\ srv[y].backlog # None /\ srv[y].offset \in Nat
        /\ Len(o) = srv[y].offset - srv[x].position.off
    BY <1>1, <1>4, MissingFacts, ReplFacts DEF Repl!CanContinue
  <2>2. srv[x].position.off + Len(o) = srv[y].offset
    BY <2>1
  <2>3. srv[y].state # "transfer"
    BY <2>1 DEF Repl!Ready, Member, Own
  <2>4. Own(m, k)
    BY <1>3, <1>6, <2>1 DEF Member, Own
  <2>5. Link(m, k, srv[y])
    BY <1>3, <1>6, <2>1, <2>2, <2>3 DEF Member, Link
  <2>6. Member(x)'
    BY <1>3, <1>6, <1>7, <1>8, <2>1, <2>4, <2>5 DEF Member
  <2>7. ASSUME NotOld(x) PROVE Sync(x)'
    <3>1. srv[x].data \o o = srv[y].data
      BY <1>1, <1>4, <2>7 DEF NotOld
    <3> QED
      BY <1>3, <1>6, <1>7, <1>8, <3>1 DEF Sync, InSync, Makes
  <2>8. Resume(x) => Resume(x)'
    BY <1>6, <1>7 DEF Resume, Resumable
  <2> QED
    BY <2>6, <2>7, <2>8 DEF StepKeeps
<1> QED
  BY <1>9, <1>11, <1>12 DEF StepOK

\* The client k of a slave that waits for a BGSAVE of m.
Joined(k, m) ==
    \/ k.state = "wait_start" /\ k.out = <<>>
    \/ /\ k.state = "wait_end" /\ m.bgsave # None
       /\ Makes(m.bgsave, k.out, m.data) /\ k.init + Len(k.out) = m.offset

LEMMA JoinKeeps ==
    ASSUME ReplInv, NEW x \in Server, NEW y \in Server \ {x}, srv[x].host = y,
           srv[x].state = "connect", Repl!Ready(y),
           NEW m \in Repl!State, NEW k \in Repl!Client,
           Opened(srv[y], m), Joined(k, m),
           srv' = [srv EXCEPT ![x].state = "receive_psync", ![y] = m],
           cl' = [cl EXCEPT ![x] = k], count' = count
    PROVE  StepOK
<1>1. /\ Member(x) /\ Member(y) /\ x # None /\ y # None /\ None \notin Data
      /\ <<>> \in Data
  BY ReplFacts
<1>2. PICK s : s = [srv[x] EXCEPT !.state = "receive_psync"]
  OBVIOUS
<1>3. /\ s \in Repl!State /\ s.host = y /\ s.state = "receive_psync"
      /\ s.position = srv[x].position /\ s.data = srv[x].data /\ s.run = srv[x].run
      /\ s.backlog = srv[x].backlog /\ s.offset = srv[x].offset
      /\ s.bgsave = srv[x].bgsave
  <2>1. srv[x] \in Repl!State
    BY ReplFacts
  <2> QED
    BY <1>2, <2>1 DEF Repl!State
<1>4. /\ srv' \in [Server -> Repl!State] /\ srv'[x] = s /\ srv'[y] = m
      /\ \A z \in Server \ {x, y} : srv'[z] = srv[z]
  BY <1>2, <1>3 DEF ReplInv, ReplTyped
<1>5. cl' \in [Server -> Repl!Client] /\ cl'[x] = k /\ \A z \in Server \ {x} : cl'[z] = cl[z]
  BY DEF ReplInv, ReplTyped
<1>6. ReplTyped'
  BY <1>4, <1>5 DEF ReplInv, ReplTyped
<1>7. m.backlog # None /\ m.state # "transfer" /\ srv[y].state # "transfer"
  BY <1>1 DEF Opened, Repl!Ready, Member, Own
<1>8. ASSUME NEW h \in Server \ {y}
      PROVE  SameMaster(srv[h], srv'[h]) /\ srv'[h].bgsave = srv[h].bgsave
  BY <1>3, <1>4 DEF SameMaster
<1>9. StepKeeps(x)
  <2>1. k # Repl!NoClient /\ k.state \in {"wait_start", "wait_end"}
    BY DEF Joined, Repl!NoClient
  <2>2. Own(s, k)
    BY <1>1, <1>3, <2>1 DEF Member, Own, Joined
  <2>3. Older(s.position, m.run)
    BY <1>1, <1>3 DEF Member, Link, Opened
  <2>4. Link(s, k, m)
    BY <1>7, <2>1, <2>3 DEF Link, Joined
  <2>5. Member(x)'
    BY <1>1, <1>3, <1>4, <1>5, <2>2, <2>4 DEF Member
  <2>6. Sync(x)'
    BY <1>3, <1>4, <1>5, <2>1 DEF Sync, InSync
  <2>7. Resume(x) => Resume(x)'
    <3>1. srv[y].offset \in Nat /\ (srv[x].position # None => srv[x].position.off \in Nat)
      BY ReplFacts
    <3>2. Resumable(srv[x], srv[y]) => Resumable(s, m)
      BY <1>3, <3>1, ResumableOpened
    <3> QED
      BY <1>1, <1>3, <1>4, <3>2 DEF Resume
  <2> QED
    BY <2>5, <2>6, <2>7 DEF StepKeeps
<1>10. StepKeeps(y)
  <2>1. Own(m, cl[y]) /\ m.run[1] = y /\ m.host = srv[y].host
    <3>1. EndsIn(m.data, m.backlog)
      <4>1. CASE srv[y].backlog = None
        <5>1. m.backlog = <<>> /\ m.data \in Data
          BY <4>1, ReplFacts DEF Opened
        <5> QED
          BY <5>1, MakesEmpty
      <4>2. CASE srv[y].backlog # None
        BY <1>1, <4>2 DEF Opened, Member, Own
      <4> QED
        BY <4>1, <4>2
    <3> QED
      BY <1>1, <1>7, <3>1 DEF Opened, Member, Own
  <2>2. ASSUME NEW h \in Server, srv[y].host = h
        PROVE  Kept(srv[y], cl[y], srv[h], m, cl[y], srv'[h])
    <3>1. h # y
      BY <1>1, <2>2 DEF Repl!Ready, Member, Own, Repl!NoClient
    <3>2. SameMaster(srv[h], srv'[h]) /\ srv'[h].bgsave = srv[h].bgsave
      BY <1>8, <3>1
    <3>3. PICK m2 : m2 = srv'[h]
      OBVIOUS
    <3>4. m.position = srv[y].position /\ m.data = srv[y].data
      BY DEF Opened
    <3> QED
      BY <3>2, <3>3, <3>4, KeptSame DEF SameMaster
  <2>3. srv'[y] = m /\ cl'[y] = cl[y]
    BY <1>4, <1>5
  <2>4. /\ srv'[y].host = srv[y].host /\ Own(srv'[y], cl'[y]) /\ srv'[y].run[1] = y
        /\ srv[y].host = None => cl'[y] = Repl!NoClient
        /\ cl'[y] # Repl!NoClient => srv[y].host # y
    BY <1>1, <2>1, <2>3 DEF Member
  <2>5. CASE srv[y].host = None
    BY <2>4, <2>5, KeepsOne
  <2>6. CASE srv[y].host # None
    <3>1. PICK h \in Server : srv[y].host = h
      BY <2>6, ReplFacts
    <3>2. Kept(srv[y], cl[y], srv[srv[y].host], srv'[y], cl'[y], srv'[srv[y].host])
      BY <2>2, <2>3, <3>1
    <3> QED
      BY <2>4, <2>6, <3>2, KeepsOne
  <2> QED
    BY <2>5, <2>6
<1>11. ASSUME NEW z \in Server \ {x, y} PROVE StepKeeps(z)
  <2>1. srv'[z] = srv[z] /\ cl'[z] = cl[z]
    BY <1>4, <1>5
  <2>2. CASE srv[z].host = y
    <3>1. /\ srv[y].offset \in Nat /\ Link(srv[z], cl[z], srv[y]) /\ Member(z)
          /\ srv[z].position # None => srv[z].position.off \in Nat
      BY <1>1, <2>2, ReplFacts DEF Member
    <3>2. Kept(srv[z], cl[z], srv[y], srv[z], cl[z], m)
      BY <1>1, <3>1, KeptOpened
    <3> QED
      BY <1>1, <1>4, <2>1, <2>2, <3>1, <3>2, KeepsOne DEF Member
  <2>3. CASE srv[z].host # y
    BY <1>8, <2>1, <2>3, ReplFacts, OtherKeeps
  <2> QED
    BY <2>2, <2>3
<1> QED
  BY <1>6, <1>9, <1>10, <1>11 DEF StepOK

LEMMA WaitForBgsaveKeeps ==
    ASSUME ReplInv, NEW x \in Server, NEW y \in Server \ {x}, srv[x].host = y,
           srv[x].state = "connect", Repl!Ready(y), Repl!WaitForBgsave(x, y),
           count' = count
    PROVE  StepOK
<1>1. PICK m \in Repl!State : m = Repl!WithBacklog(y)
  BY OpenedState
<1>2. Opened(srv[y], m) /\ m.bgsave = srv[y].bgsave
  BY <1>1, OpenedState
<1>3. srv' = [srv EXCEPT ![x].state = "receive_psync", ![y] = m]
  BY <1>1 DEF Repl!WaitForBgsave
<1>4. PICK k \in Repl!Client : cl' = [cl EXCEPT ![x] = k] /\ Joined(k, m)
  <2> DEFINE good == {z \in Repl!Slaves(y) : cl[z].state = "wait_end"}
             k0 == [Repl!NoClient EXCEPT !.state = "wait_start"]
  <2>1. IF good = {} THEN cl' = [cl EXCEPT ![x] = k0]
        ELSE \E z \in good : cl' = [cl EXCEPT ![x] = cl[z]]
    BY DEF Repl!WaitForBgsave
  <2>2. k0 \in Repl!Client /\ k0.state = "wait_start" /\ k0.out = <<>>
    BY ReplFacts, SameData DEF Repl!Client, Repl!NoClient
  <2> HIDE DEF k0
  <2>3. CASE good = {}
    BY <2>1, <2>2, <2>3 DEF Joined
  <2>4. CASE good # {}
    <3>1. PICK z \in good : cl' = [cl EXCEPT ![x] = cl[z]]
      BY <2>1, <2>4
    <3>2. PICK k \in Repl!Client : k = cl[z]
      BY <3>1, ReplFacts DEF Repl!Slaves
    <3>3. /\ z \in Server /\ srv[z].host = y /\ k.state = "wait_end" /\ Member(z)
          /\ y # None
      BY <3>1, <3>2, ReplFacts DEF Repl!Slaves
    <3>4. Link(srv[z], k, srv[y]) /\ k # Repl!NoClient
      BY <3>2, <3>3 DEF Member, Repl!NoClient
    <3>5. /\ srv[y].backlog # None
          /\ srv[y].bgsave # None /\ Makes(srv[y].bgsave, k.out, srv[y].data)
          /\ k.init + Len(k.out) = srv[y].offset
      BY <3>3, <3>4 DEF Link
    <3>6. Joined(k, m)
      BY <1>2, <3>3, <3>5 DEF Joined, Opened
    <3> QED
      BY <3>1, <3>2, <3>6
  <2> QED
    BY <2>3, <2>4
<1> QED
  BY <1>2, <1>3, <1>4, JoinKeeps

LEMMA StartBgsaveKeeps ==
    ASSUME ReplInv, NEW x \in Server, NEW y \in Server \ {x}, srv[x].host = y,
           srv[x].state = "connect", Repl!Ready(y), Repl!StartBgsave(x, y),
           count' = count
    PROVE  StepOK
<1>1. PICK b \in Repl!State : b = Repl!WithBacklog(y)
  BY OpenedState
<1>2. Opened(srv[y], b) /\ b.bgsave = srv[y].bgsave /\ srv[y].bgsave = None
  BY <1>1, OpenedState DEF Repl!StartBgsave
<1>3. PICK d \in Data : d = srv[y].data
  BY ReplFacts
<1>4. PICK m : m = [b EXCEPT !.bgsave = d]
  OBVIOUS
<1>5. /\ m \in Repl!State /\ m.data = b.data /\ m.run = b.run /\ m.state = b.state
      /\ m.host = b.host /\ m.position = b.position /\ m.backlog = b.backlog
      /\ m.offset = b.offset /\ m.bgsave = d
  BY <1>1, <1>4, SameData DEF Repl!State
<1>6. Opened(srv[y], m) /\ m.data = d
  BY <1>2, <1>3, <1>5 DEF Opened
<1>7. PICK n \in Nat : n = Repl!InitialOffset(srv[y]) /\ n = m.offset
  BY <1>6, ReplFacts DEF Repl!InitialOffset, Opened
<1>8. PICK k : k = [Repl!NoClient EXCEPT !.state = "wait_end", !.init = n]
  OBVIOUS
<1>9. k \in Repl!Client /\ k.state = "wait_end" /\ k.init = n /\ k.out = <<>>
  BY <1>8, ReplFacts, SameData DEF Repl!Client, Repl!NoClient
<1>10. Joined(k, m)
  <2>1. Makes(d, <<>>, d) /\ Len(<<>>) = 0 /\ None \notin Data
    BY MakesEmpty, ReplFacts
  <2> QED
    BY <1>5, <1>6, <1>7, <1>9, <2>1 DEF Joined
<1>11. cl' = [cl EXCEPT ![x] = k]
  BY <1>7, <1>8 DEF Repl!StartBgsave
<1>12. srv' = [srv EXCEPT ![x].state = "receive_psync", ![y] = m]
  BY <1>1, <1>3, <1>4 DEF Repl!StartBgsave
<1> QED
  BY <1>5, <1>6, <1>9, <1>10, <1>11, <1>12, JoinKeeps

LEMMA ConnectKeeps ==
    ASSUME ReplInv, NEW x \in Server, Repl!Connect(x)
    PROVE  StepOK
<1> DEFINE h == srv[x].host
<1>1. /\ srv[x].state = "connect"
      /\ \/ /\ Repl!Ready(h)
            /\ Repl!Continue(x, h) \/ Repl!WaitForBgsave(x, h) \/ Repl!StartBgsave(x, h)
            /\ count' = count
         \/ Repl!StartFails(x, h)
         \/ Repl!Refused(x) /\ count' = count
  BY DEF Repl!Connect
<1>2. CASE /\ Repl!Ready(h)
           /\ Repl!Continue(x, h) \/ Repl!WaitForBgsave(x, h) \/ Repl!StartBgsave(x, h)
           /\ count' = count
  <2>1. PICK y \in Server \ {x} : y = h
    BY <1>1, <1>2, ReplFacts DEF Repl!Ready, Member, Own
  <2> QED
    BY <1>1, <1>2, <2>1, ContinueKeeps, WaitForBgsaveKeeps, StartBgsaveKeeps
<1>3. CASE Repl!StartFails(x, h)
  <2>1. Repl!Refused(x) /\ Repl!Happens("bgsave fails")
    BY <1>3 DEF Repl!StartFails
  <2>2. count' \in [Repl!Events -> Nat]
    BY <2>1, CountedEvent DEF Repl!Events
  <2> QED
    BY <1>1, <2>1, <2>2, RefusedKeeps
<1>4. CASE Repl!Refused(x) /\ count' = count
  <2>1. count' \in [Repl!Events -> Nat]
    BY <1>4 DEF ReplInv, ReplTyped
  <2> QED
    BY <1>1, <1>4, <2>1, RefusedKeeps
<1> QED
  BY <1>1, <1>2, <1>3, <1>4

-----------------------------------------------------------------------------
(* Replication: the theorems *)

LEMMA InitReplInv ==
    ASSUME Repl!ReplicationAssumption, Repl!Init
    PROVE  ReplInv /\ \A z \in Server : Sync(z) /\ Resume(z)
<1>1. PICK host \in FirstHosts :
          srv = [x \in Server |->
                   [data |-> <<>>, offset |-> 0, backlog |-> None,
                    bgsave |-> None, disk |-> <<>>, run |-> <<x, 0>>,
                    host |-> host[x], position |-> None,
                    state |-> IF host[x] = None THEN "none" ELSE "connect"]]
  BY DEF Repl!Init
<1>2. /\ cl = [x \in Server |-> Repl!NoClient]
      /\ count = [e \in Repl!Events |-> 0]
  BY DEF Repl!Init
<1>3. host \in [Server -> Server \cup {None}] /\ <<>> \in Data
  BY EmptySeq DEF Repl!ReplicationAssumption, Data
<1>4. Repl!NoClient \in Repl!Client
  BY <1>3, SameData DEF Repl!NoClient, Repl!Client
<1>5. ASSUME NEW z \in Server
      PROVE  /\ srv[z] \in Repl!State /\ Own(srv[z], cl[z]) /\ srv[z].run[1] = z
             /\ srv[z].position = None /\ cl[z] = Repl!NoClient
  <2>1. <<z, 0>> \in Repl!RunId /\ <<z, 0>>[1] = z
    BY DEF Repl!RunId
  <2>2. PICK r \in Repl!RunId : r = <<z, 0>>
    BY <2>1
  <2>3. PICK h \in Server \cup {None} : h = host[z]
    BY <1>3
  <2>4. srv[z] = [data |-> <<>>, offset |-> 0, backlog |-> None,
                  bgsave |-> None, disk |-> <<>>, run |-> r, host |-> h, position |-> None,
                  state |-> IF h = None THEN "none" ELSE "connect"]
    BY <1>1, <2>2, <2>3
  <2>5. srv[z] \in Repl!State
    BY <1>3, <2>4, SameData DEF Repl!State
  <2>6. cl[z] = Repl!NoClient
    BY <1>2
  <2>7. Own(srv[z], Repl!NoClient)
    BY <2>4 DEF Own, Repl!NoClient
  <2> QED
    BY <2>1, <2>2, <2>4, <2>5, <2>6, <2>7
<1>6. ReplTyped
  BY <1>1, <1>2, <1>4, <1>5 DEF ReplTyped
<1>7. ASSUME NEW z \in Server PROVE Member(z) /\ Sync(z) /\ Resume(z)
  BY <1>5 DEF Member, Sync, Resume, Link, InSync, Resumable, Older, Repl!NoClient
<1> QED
  BY <1>6, <1>7 DEF ReplInv

LEMMA NextKeeps ==
    ASSUME ReplInv, [Repl!Next]_(Repl!vars)
    PROVE  StepOK
<1>1. CASE UNCHANGED Repl!vars
  <2>1. srv' = srv /\ cl' = cl /\ count' = count
    BY <1>1 DEF Repl!vars
  <2>2. ASSUME NEW z \in Server PROVE StepKeeps(z)
    BY <2>1, KeepsFrame
  <2> QED
    BY <2>1, <2>2 DEF StepOK, ReplInv, ReplTyped
<1>2. ASSUME NEW x \in Server, Repl!AsMaster(x) PROVE StepOK
  BY <1>2, WriteKeeps, BgsaveKeeps, BgsaveDoneKeeps, BgsaveFailedKeeps,
     NextBgsaveFailsKeeps, FreeBacklogKeeps DEF Repl!AsMaster
<1>3. ASSUME NEW x \in Server, Repl!AsSlave(x) PROVE StepOK
  BY <1>3, ConnectKeeps, ReceiveFullresyncKeeps, ReceiveRefusalKeeps, LoadRdbKeeps,
     ApplyKeeps DEF Repl!AsSlave
<1>4. ASSUME NEW x \in Server, Repl!Command(x) PROVE StepOK
  BY <1>4, SlaveofNoOneKeeps, SlaveofKeeps DEF Repl!Command
<1> QED
  BY <1>1, <1>2, <1>3, <1>4, BreakKeeps, RestartKeeps DEF Repl!Next

LEMMA KeptInv == ReplInv /\ StepOK => ReplInv'
  BY DEF ReplInv, StepOK, StepKeeps, Repl!ReplicationAssumption

\* The events are counted, and the counts never go back.
LEMMA CountGrows ==
    ASSUME ReplInv, [Repl!Next]_(Repl!vars), count'["slaveof"] = 0
    PROVE  count["slaveof"] = 0
<1>1. count \in [Repl!Events -> Nat] /\ "slaveof" \in Repl!Events
  BY DEF ReplInv, ReplTyped, Repl!Events
<1>2. ASSUME NEW e \in Repl!Events, Repl!Happens(e)
      PROVE  count["slaveof"] = 0
  BY <1>1, <1>2 DEF Repl!Happens
<1>3. CASE count' = count
  BY <1>3
<1>4. ASSUME NEW x \in Server, Repl!AsMaster(x)
      PROVE  \/ count' = count \/ Repl!Happens("write") \/ Repl!Happens("bgsave")
             \/ Repl!Happens("bgsave fails") \/ Repl!Happens("backlog freed")
  BY <1>4 DEF Repl!AsMaster, Repl!Write, Repl!Bgsave, Repl!BgsaveDone,
              Repl!BgsaveFailed, Repl!NextBgsaveFails, Repl!FreeBacklog
<1>5. ASSUME NEW x \in Server, Repl!AsSlave(x)
      PROVE  count' = count \/ Repl!Happens("bgsave fails")
  BY <1>5 DEF Repl!AsSlave, Repl!Connect, Repl!StartFails, Repl!ReceiveFullresync,
              Repl!ReceiveRefusal, Repl!LoadRdb, Repl!Apply
<1>6. ASSUME NEW x \in Server, Repl!Command(x)
      PROVE  Repl!Happens("slaveof")
  BY <1>6 DEF Repl!Command, Repl!SlaveofNoOne, Repl!Slaveof
<1>7. ASSUME NEW x \in Server, Repl!Break(x) \/ Repl!Restart(x)
      PROVE  Repl!Happens("break") \/ Repl!Happens("restart")
  BY <1>7 DEF Repl!Break, Repl!Restart
<1>8. UNCHANGED Repl!vars => count' = count
  BY DEF Repl!vars
<1>9. {"write", "bgsave", "bgsave fails", "backlog freed", "slaveof", "break", "restart"}
         \subseteq Repl!Events
  BY DEF Repl!Events
<1>10. \/ count' = count
       \/ \E e \in Repl!Events : Repl!Happens(e)
  BY <1>4, <1>5, <1>6, <1>7, <1>8, <1>9 DEF Repl!Next
<1> QED
  BY <1>2, <1>3, <1>10

\* The inductive invariant of replication: the states of the two ends of each
\* link, where its slave is in the stream of its master, and what the output
\* buffer of a slave that waits for a file collects.
THEOREM ReplicationInvariance ==
    ASSUME Repl!ReplicationAssumption
    PROVE  Repl!Spec => []ReplInv
<1>1. Repl!Init => ReplInv
  BY InitReplInv
<1>2. ReplInv /\ [Repl!Next]_(Repl!vars) => ReplInv'
  BY NextKeeps, KeptInv
<1> QED
  BY <1>1, <1>2, PTL DEF Repl!Spec

\* Types, and the assertion of freeReplicationBacklog: a server that has slaves
\* has a backlog (replication.c:93-99), for any servers and topology.
THEOREM ReplicationTypes ==
    ASSUME Repl!ReplicationAssumption
    PROVE  Repl!Spec => []Repl!TypeOK
<1>1. ReplInv => Repl!TypeOK
  BY SlavesFacts DEF Repl!TypeOK, ReplInv, ReplTyped
<1> QED
  BY <1>1, ReplicationInvariance, PTL

\* The offset that an online slave claims is that of its master less what is
\* on its way, for any servers, topology and backlog, and whatever happens.
THEOREM ReplicationOffsets ==
    ASSUME Repl!ReplicationAssumption
    PROVE  Repl!Spec => []Repl!OffsetsAgree
<1>1. ReplInv => Repl!OffsetsAgree
  <2> SUFFICES ASSUME ReplInv, NEW x \in Server, cl[x].state = "online"
               PROVE  srv[x].position.off + Len(cl[x].out) = srv[srv[x].host].offset
    BY DEF Repl!OffsetsAgree
  <2>1. Member(x) /\ srv[x].host # None
    BY ReplFacts DEF Member, Repl!NoClient
  <2> QED
    BY <2>1 DEF Member, Link
<1> QED
  BY <1>1, ReplicationInvariance, PTL

LEMMA InSyncNothingLost ==
    ReplInv /\ (\A z \in Server : Sync(z)) => Repl!NothingLost
<1> SUFFICES ASSUME ReplInv, NEW x \in Server, Sync(x)
             PROVE  LET m == srv[srv[x].host]
                    IN /\ cl[x].state = "online" => srv[x].data \o cl[x].out = m.data
                       /\ cl[x].state = "send_bulk" => cl[x].rdb \o cl[x].out = m.data
                       /\ cl[x].state = "wait_end" => m.bgsave \o cl[x].out = m.data
  BY DEF Repl!NothingLost
<1>1. Member(x)
  BY ReplFacts
<1>2. CASE srv[x].host = None
  <2>1. cl[x].state = "none"
    BY <1>1, <1>2 DEF Member, Repl!NoClient
  <2> QED
    BY <2>1
<1>3. CASE srv[x].host # None
  BY <1>1, <1>3 DEF Member, Sync, InSync, Link, Makes
<1> QED
  BY <1>2, <1>3

LEMMA NoPsyncNotOld ==
    Repl!NoPsyncWithOldSlave <=> \A z \in Server : NotOld(z)
  BY DEF Repl!NoPsyncWithOldSlave, NotOld

\* The one way to lose a write is the partial resynchronization of an old
\* slave, which the comment of createReplicationBacklog (replication.c:81) rules
\* out: as long as none happens, nothing is lost, doubled or out of order.
THEOREM ReplicationLosesNothing ==
    ASSUME Repl!ReplicationAssumption
    PROVE  Repl!Spec /\ []Repl!NoPsyncWithOldSlave => []Repl!NothingLost
<1> DEFINE I == ReplInv /\ \A z \in Server : Sync(z)
<1>1. Repl!Init => I
  BY InitReplInv
<1>2. I /\ Repl!NoPsyncWithOldSlave /\ [Repl!Next]_(Repl!vars) => I'
  BY NextKeeps, KeptInv, NoPsyncNotOld DEF StepOK, StepKeeps
<1>3. I => Repl!NothingLost
  BY InSyncNothingLost
<1> QED
  BY <1>1, <1>2, <1>3, PTL DEF Repl!Spec

\* Without a change of roles no old slave can PSYNC, and nothing is lost:
\* through breaks and restarts, for chains and shared BGSAVEs.
THEOREM ReplicationWithoutSlaveof ==
    ASSUME Repl!ReplicationAssumption
    PROVE  Repl!Spec => [](count["slaveof"] = 0 =>
                             Repl!NothingLost /\ Repl!NoPsyncWithOldSlave)
<1> DEFINE I == /\ ReplInv
                /\ count["slaveof"] = 0 => \A z \in Server : Sync(z) /\ Resume(z)
<1>1. Repl!Init => I
  BY InitReplInv
<1>2. I /\ [Repl!Next]_(Repl!vars) => I'
  <2> SUFFICES ASSUME I, [Repl!Next]_(Repl!vars)
               PROVE  I'
    OBVIOUS
  <2>1. ReplInv' /\ StepOK
    BY NextKeeps, KeptInv
  <2>2. ASSUME count'["slaveof"] = 0, NEW z \in Server PROVE Sync(z)' /\ Resume(z)'
    <3>1. Sync(z) /\ Resume(z)
      BY <2>2, CountGrows
    <3>2. NotOld(z)
      BY <3>1, ResumeFinds
    <3> QED
      BY <2>1, <2>2, <3>1, <3>2 DEF StepOK, StepKeeps
  <2> QED
    BY <2>1, <2>2
<1>3. I => (count["slaveof"] = 0 => Repl!NothingLost /\ Repl!NoPsyncWithOldSlave)
  BY InSyncNothingLost, NoPsyncNotOld, ResumeFinds
<1> QED
  BY <1>1, <1>2, <1>3, PTL DEF Repl!Spec

=============================================================================
