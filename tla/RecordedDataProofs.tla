------------------------- MODULE RecordedDataProofs -------------------------
(***************************************************************************)
(* What was recorded stands, a manifest can be followed, and a replay      *)
(* knows at each instant what the vendors' pages showed then: for any      *)
(* number of recorders, runs, pages and days, any publications, whatever   *)
(* dies or is refused.                                                     *)
(***************************************************************************)
EXTENDS RecordedData, Arithmetic

-----------------------------------------------------------------------------
(* The inductive invariant.                                                *)

Busy == {"open", "write", "replace"}
Programs ==
  [pc : {"idle", "get", "manifest", "manifest_write"} \cup Busy,
   window : 0..MaxDay, todo : Seq(Keys), answer : 0..MaxDay, inode : Inodes \cup {NoFile}]

TypeOK ==
  /\ day \in 1..MaxDay
  /\ temporary \in [Keys -> Inodes \cup {NoFile}]
  /\ file \in [Keys -> Inodes \cup {NoFile}]
  /\ content \in [Keys -> [Inodes -> 0..MaxDay]]
  /\ manifest \in [exists : BOOLEAN, window : 0..MaxDay]
  /\ recorder \in [Recorders -> Programs]

\* A page that a replay finds, unless it was raced for.
Safe(k) == k \in raced \/ Intact(k)
Page(window, n) == [window |-> window, item |-> n]

\* What is left of the requests of a window from its n-th on; the pages before
\* it were recorded, unless one failed and there are no more pages to ask for.
Rest(window, n) == SubSeq(Requests(window), n, NumPages + 1)
AtRequest(r, n) ==
  /\ r.todo = Rest(r.window, n)
  /\ n <= NumPages => \A i \in 1..(n - 1) : Safe(Page(r.window, i))

ProgramInLine(r) ==
  /\ r.pc # "idle" => r.window \in 1..MaxDay
  /\ r.pc \in Busy \cup {"get"} => \E n \in 1..(NumPages + 1) : AtRequest(r, n)
  /\ r.pc \in {"manifest", "manifest_write"} =>
       /\ r.todo = Rest(r.window, NumPages + 1)
       /\ \A i \in 1..NumPages : Safe(Page(r.window, i))
  /\ r.pc \in Busy => r.answer \in 1..MaxDay
  /\ r.pc \notin {"write", "replace"} => r.inode = NoFile
InLine == \A p \in Recorders : ProgramInLine(recorder[p])

\* A key that was not raced for has one recorder at most, and no file until it
\* is done; its temporary file is truncated, then whole.
Records(r, k) ==
  /\ file[k] = NoFile
  /\ r.pc = "write" =>
       /\ temporary[k] = r.inode /\ r.inode \in Inodes
       /\ content[k][r.inode] = Torn
  /\ r.pc = "replace" => temporary[k] \in Inodes /\ content[k][temporary[k]] # Torn
OneRecorder ==
  \A k \in Keys \ raced, p \in Recorders :
    p \in Recording(k) => Recording(k) = {p} /\ Records(recorder[p], k)

Followed == Readable => \A i \in 1..NumPages : Safe(Page(manifest.window, i))

IInv == TypeOK /\ InLine /\ OneRecorder /\ Followed
-----------------------------------------------------------------------------
(* Requests in line.                                                       *)

LEMMA Bounds == NumPages \in Nat /\ MaxDay \in Nat \ {0} /\ MaxRuns \in Nat
BY RecordedAssumption

LEMMA KeysAre ==
  /\ TheDocument \in Keys
  /\ \A w \in 1..MaxDay, i \in 1..NumPages : Page(w, i) \in Keys
BY DEF Keys, TheDocument, Page

LEMMA RequestsInLine ==
  ASSUME NEW w \in 1..MaxDay
  PROVE  /\ Requests(w) \in Seq(Keys) /\ Len(Requests(w)) = NumPages + 1
         /\ \A n \in 1..NumPages : Requests(w)[n] = Page(w, n)
         /\ Requests(w)[NumPages + 1] = TheDocument
<1> DEFINE pages == [i \in 1..NumPages |-> Page(w, i)]
<1>1. pages \in Seq(Keys) /\ Len(pages) = NumPages
  BY Bounds, KeysAre
<1>2. Requests(w) = pages \o <<TheDocument>>
  BY DEF Requests, Page
<1>3. <<TheDocument>> \in Seq(Keys) /\ Len(<<TheDocument>>) = 1
  BY KeysAre
<1>4. \A n \in 1..NumPages : pages[n] = Page(w, n)
  OBVIOUS
<1> HIDE DEF pages
<1> QED
  BY <1>1, <1>2, <1>3, <1>4, Bounds

LEMMA RestInLine ==
  ASSUME NEW w \in 1..MaxDay, NEW n \in 1..(NumPages + 1)
  PROVE  /\ Rest(w, n) \in Seq(Keys)
         /\ Head(Rest(w, n)) = IF n <= NumPages THEN Page(w, n) ELSE TheDocument
         /\ Tail(Rest(w, n)) = IF n <= NumPages THEN Rest(w, n + 1) ELSE <<>>
         /\ Rest(w, n) # <<>>
<1>1. Requests(w) \in Seq(Keys) /\ Len(Requests(w)) = NumPages + 1
  BY RequestsInLine
<1>2. n \in 1..Len(Requests(w)) /\ NumPages + 1 \in n..Len(Requests(w))
  BY <1>1, Bounds
<1>3. /\ Head(Rest(w, n)) = Requests(w)[n]
      /\ Tail(Rest(w, n)) = SubSeq(Requests(w), n + 1, NumPages + 1)
  BY <1>1, <1>2, HeadTailOfSubSeq DEF Rest
<1>4. \A i \in n..(NumPages + 1) : Requests(w)[i] \in Keys
  BY <1>1, Bounds
<1>5. Rest(w, n) \in Seq(Keys) /\ Len(Rest(w, n)) = NumPages + 1 - n + 1
  BY <1>4, Bounds, SubSeqProperties DEF Rest
<1>6. Rest(w, n) # <<>>
  BY <1>5, Bounds
<1>7. n > NumPages => SubSeq(Requests(w), n + 1, NumPages + 1) = <<>>
  BY Bounds, SubSeqEmpty
<1>8. Head(Rest(w, n)) = IF n <= NumPages THEN Page(w, n) ELSE TheDocument
  <2>1. n <= NumPages => n \in 1..NumPages
    BY Bounds
  <2>2. n > NumPages => n = NumPages + 1
    BY Bounds
  <2>3. n <= NumPages \/ n > NumPages
    BY Bounds
  <2> QED
    BY <1>3, <2>1, <2>2, <2>3, RequestsInLine
<1>9. Tail(Rest(w, n)) = IF n <= NumPages THEN Rest(w, n + 1) ELSE <<>>
  <2>1. n <= NumPages \/ n > NumPages
    BY Bounds
  <2>2. Rest(w, n + 1) = SubSeq(Requests(w), n + 1, NumPages + 1)
    BY DEF Rest
  <2> QED
    BY <1>3, <1>7, <2>1, <2>2
<1> QED
  BY <1>5, <1>6, <1>8, <1>9

LEMMA AllInLine ==
  ASSUME NEW w \in 1..MaxDay
  PROVE  Requests(w) = Rest(w, 1) /\ Rest(w, NumPages + 1) = <<TheDocument>>
<1>1. Requests(w) = Rest(w, 1)
  BY RequestsInLine, SubSeqFull DEF Rest
<1>2. Rest(w, NumPages + 1) = <<TheDocument>>
  <2> DEFINE s == Rest(w, NumPages + 1)
             m == NumPages + 1
  <2>1. \A i \in m..m : Requests(w)[i] \in Keys
    BY RequestsInLine, KeysAre, Bounds
  <2>2. m \in Int
    BY Bounds
  <2>3. s \in Seq(Keys) /\ Len(s) = 1 /\ \A i \in 1..1 : s[i] = Requests(w)[m + i - 1]
    <3> HIDE DEF m
    <3>1. /\ SubSeq(Requests(w), m, m) \in Seq(Keys)
          /\ Len(SubSeq(Requests(w), m, m)) = IF m <= m THEN m - m + 1 ELSE 0
          /\ \A i \in 1..(m - m + 1) : SubSeq(Requests(w), m, m)[i] = Requests(w)[m + i - 1]
      BY <2>1, <2>2, SubSeqProperties
    <3> QED
      BY <2>2, <3>1 DEF m, Rest
  <2>4. s[1] = TheDocument
    BY <2>2, <2>3, RequestsInLine
  <2> HIDE DEF s
  <2>5. s = <<TheDocument>>
    BY <2>3, <2>4
  <2> QED
    BY <2>5 DEF s
<1> QED
  BY <1>1, <1>2

LEMMA Windows ==
  /\ TheDocument.window = 0
  /\ \A w \in 1..MaxDay, i \in 1..NumPages : Page(w, i).window = w /\ w > 0
BY DEF TheDocument, Page

\* A program moves to its next request, to the manifest or to rest.
LEMMA Advances ==
  ASSUME NEW r \in Programs, r.window \in 1..MaxDay,
         NEW n \in 1..(NumPages + 1), r.todo = Rest(r.window, n)
  PROVE  /\ Advanced(r) \in Programs
         /\ Advanced(r).window = r.window /\ Advanced(r).answer = r.answer
         /\ Advanced(r).inode = r.inode
         /\ n < NumPages => /\ Advanced(r).pc = "get"
                            /\ Advanced(r).todo = Rest(r.window, n + 1)
         /\ n = NumPages => /\ Advanced(r).pc = "manifest"
                            /\ Advanced(r).todo = Rest(r.window, NumPages + 1)
         /\ n > NumPages => Advanced(r).pc = "idle"
<1> DEFINE w == r.window
           rest == Tail(Rest(w, n))
           pc == IF Head(Rest(w, n)).window > 0 /\ (rest = <<>> \/ Head(rest).window = 0)
                 THEN "manifest" ELSE IF rest = <<>> THEN "idle" ELSE "get"
<1>1. rest \in Seq(Keys)
  BY RestInLine, Bounds
<1>2. /\ n < NumPages => pc = "get" /\ rest = Rest(w, n + 1)
      /\ n = NumPages => pc = "manifest" /\ rest = Rest(w, NumPages + 1)
      /\ n > NumPages => pc = "idle"
  <2>1. ASSUME n < NumPages PROVE pc = "get" /\ rest = Rest(w, n + 1)
    <3>1. n + 1 \in 1..(NumPages + 1) /\ n + 1 <= NumPages /\ n <= NumPages /\ n \in 1..NumPages
          /\ n + 1 \in 1..NumPages
      BY <2>1, Bounds
    <3>2. /\ Head(Rest(w, n)) = Page(w, n) /\ rest = Rest(w, n + 1) /\ rest # <<>>
          /\ Head(rest) = Page(w, n + 1)
      BY <3>1, RestInLine
    <3>3. Head(rest).window # 0
      BY <3>1, <3>2, Windows
    <3> QED
      BY <3>2, <3>3
  <2>2. ASSUME n = NumPages PROVE pc = "manifest" /\ rest = Rest(w, NumPages + 1)
    <3>1. /\ n + 1 \in 1..(NumPages + 1) /\ ~(n + 1 <= NumPages) /\ n \in 1..NumPages
      BY <2>2, Bounds
    <3>2. Head(Rest(w, n)) = Page(w, n) /\ rest = Rest(w, n + 1)
      BY <3>1, RestInLine
    <3>3. Head(Rest(w, n + 1)) = TheDocument
      BY <3>1, RestInLine
    <3>4. TheDocument.window = 0 /\ Page(w, n).window > 0 /\ n + 1 = NumPages + 1
      BY <2>2, <3>1, Windows
    <3> QED
      BY <3>2, <3>3, <3>4
  <2>3. ASSUME n > NumPages PROVE pc = "idle"
    <3>1. Head(Rest(w, n)) = TheDocument /\ rest = <<>>
      BY <2>3, RestInLine, Bounds
    <3> QED
      BY <3>1, Windows
  <2> QED
    BY <2>1, <2>2, <2>3
<1>3. Advanced(r) = [r EXCEPT !.todo = rest, !.pc = pc]
  BY DEF Advanced
<1>4. pc \in {"manifest", "idle", "get"}
  OBVIOUS
<1> HIDE DEF rest, pc
<1>5. Advanced(r) \in Programs
  BY <1>1, <1>3, <1>4 DEF Programs
<1>6. /\ Advanced(r).window = r.window /\ Advanced(r).answer = r.answer
      /\ Advanced(r).inode = r.inode /\ Advanced(r).pc = pc /\ Advanced(r).todo = rest
  BY <1>3 DEF Programs
<1> QED
  BY <1>2, <1>5, <1>6

\* A program that fails has the document left to ask for, if anything.
LEMMA Fails ==
  ASSUME NEW r \in Programs, r.window \in 1..MaxDay,
         NEW n \in 1..(NumPages + 1), r.todo = Rest(r.window, n)
  PROVE  /\ Failed(r) \in Programs
         /\ Failed(r).window = r.window /\ Failed(r).answer = r.answer
         /\ Failed(r).inode = r.inode
         /\ \/ Failed(r).pc = "idle"
            \/ Failed(r).pc = "get" /\ Failed(r).todo = Rest(r.window, NumPages + 1)
<1> DEFINE w == r.window
           rest == IF Head(Rest(w, n)).window = 0 THEN Tail(Rest(w, n)) ELSE <<TheDocument>>
           pc == IF rest = <<>> THEN "idle" ELSE "get"
<1>1. rest \in {<<>>, <<TheDocument>>}
  <2>1. CASE n <= NumPages
    <3>1. n \in 1..NumPages
      BY <2>1, Bounds
    <3>2. Head(Rest(w, n)) = Page(w, n)
      BY <2>1, RestInLine
    <3>3. Page(w, n).window = w /\ w # 0
      BY <3>1, Windows
    <3> QED
      BY <3>2, <3>3
  <2>2. CASE n > NumPages
    <3>1. ~ (n <= NumPages)
      BY <2>2, Bounds
    <3>2. Tail(Rest(w, n)) = <<>>
      BY <3>1, RestInLine
    <3> QED
      BY <3>2
  <2> QED
    BY <2>1, <2>2, Bounds
<1>2. Rest(w, NumPages + 1) = <<TheDocument>>
  BY AllInLine
<1> HIDE DEF rest
<1>3. rest \in Seq(Keys) /\ pc \in {"idle", "get"} /\ (pc = "get" => rest = Rest(w, NumPages + 1))
  <2>1. <<TheDocument>> \in Seq(Keys) /\ <<>> \in Seq(Keys)
    BY KeysAre
  <2> QED
    BY <1>1, <1>2, <2>1
<1>4. Failed(r) = [r EXCEPT !.todo = rest, !.pc = pc]
  BY DEF Failed, rest
<1> HIDE DEF pc
<1>5. Failed(r) \in Programs
  BY <1>3, <1>4 DEF Programs
<1>6. /\ Failed(r).window = r.window /\ Failed(r).answer = r.answer
      /\ Failed(r).inode = r.inode /\ Failed(r).pc = pc /\ Failed(r).todo = rest
  BY <1>4 DEF Programs
<1> QED
  BY <1>3, <1>5, <1>6
-----------------------------------------------------------------------------
(* The parts of the invariant.                                             *)

LEMMA Initially == Init => IInv
<1> SUFFICES ASSUME Init PROVE IInv
  OBVIOUS
<1>1. Idle \in Programs
  <2>1. <<>> \in Seq(Keys) /\ 0 \in 0..MaxDay
    BY Bounds
  <2> QED
    BY <2>1 DEF Idle, Programs, NoFile
<1>2. day \in 1..MaxDay /\ 0 \in 0..MaxDay
  BY Bounds DEF Init
<1>3. \A p \in Recorders : recorder[p] = Idle
  BY DEF Init
<1>4. TypeOK
  BY <1>1, <1>2 DEF Init, TypeOK, NoFile, Torn
<1>5. InLine
  BY <1>3 DEF Idle, InLine, ProgramInLine, Busy, NoFile
<1>6. OneRecorder
  BY <1>3 DEF Idle, OneRecorder, Recording
<1>7. Followed
  BY DEF Init, Followed, Readable
<1> QED
  BY <1>4, <1>5, <1>6, <1>7 DEF IInv

\* What one recorder does to the programs.
LEMMA OneMoves ==
  ASSUME recorder \in [Recorders -> Programs], NEW p \in Recorders,
         NEW r \in Programs, Becomes(p, r)
  PROVE  /\ recorder' \in [Recorders -> Programs]
         /\ recorder'[p] = r
         /\ \A q \in Recorders \ {p} : recorder'[q] = recorder[q]
BY DEF Becomes

\* The others stay in line.
LEMMA LineKept ==
  ASSUME InLine, NEW p \in Recorders, ProgramInLine(recorder[p])',
         \A q \in Recorders \ {p} : recorder'[q] = recorder[q],
         \A k \in Keys : Safe(k) => Safe(k)'
  PROVE  InLine'
<1> SUFFICES ASSUME NEW q \in Recorders \ {p} PROVE ProgramInLine(recorder[q])'
  BY DEF InLine
<1>1. ProgramInLine(recorder[q]) /\ recorder'[q] = recorder[q]
  BY DEF InLine
<1>2. ASSUME recorder[q].window \in 1..MaxDay, NEW i \in 1..NumPages,
             Safe(Page(recorder[q].window, i))
      PROVE  Safe(Page(recorder[q].window, i))'
  BY <1>1, <1>2, KeysAre
<1>3. \A n \in 1..(NumPages + 1) : \A i \in 1..(n - 1) : n <= NumPages => i \in 1..NumPages
  BY Bounds
<1> QED
  BY <1>1, <1>2, <1>3 DEF ProgramInLine, AtRequest, Busy

\* There are inodes enough: one is neither the file of a key nor written to.
LEMMA FreshExists ==
  ASSUME TypeOK, InLine, NEW p \in Recorders, recorder[p].pc = "open", NEW k \in Keys
  PROVE  temporary[k] = NoFile => Fresh(k) \in Inodes
<1> DEFINE f == [q \in Recorders |-> IF q = p THEN file[k] ELSE recorder[q].inode]
           A == {f[q] : q \in Recorders}
<1>1. f \in Surjection(Recorders, A)
  BY DEF Surjection
<1>2. IsFiniteSet(A) /\ Cardinality(A) <= Cardinality(Recorders)
  <2> HIDE DEF f, A
  <2> QED
    BY <1>1, FS_Surjection, RecordedAssumption
<1>3. Cardinality(Recorders) \in Nat /\ Cardinality(A) \in Nat
  BY <1>2, FS_CardinalityType, RecordedAssumption
<1>4. Cardinality(Inodes) = Cardinality(Recorders) + 1
  BY <1>3, FS_Interval DEF Inodes
<1>5. ~ (Inodes \subseteq A)
  <2> HIDE DEF A
  <2> QED
    BY <1>2, <1>3, <1>4, FS_Subset
<1>6. PICK i \in Inodes : i \notin A
  BY <1>5
<1>7. i # NoFile
  BY <1>3, <1>6 DEF Inodes, NoFile
<1>8. recorder[p].inode = NoFile
  BY DEF InLine, ProgramInLine
<1>9. ASSUME temporary[k] = NoFile
      PROVE  i \in Inodes \ ({file[k], temporary[k]} \cup {recorder[q].inode : q \in Recording(k)})
  BY <1>6, <1>7, <1>8, <1>9 DEF Recording
<1> QED
  BY <1>9 DEF Fresh

\* A program that goes on to what follows its request is in line if the page it
\* leaves is safe, and one that gives up is in line anyway.
LEMMA InLineAfter ==
  ASSUME TypeOK, InLine, NEW p \in Recorders,
         NEW n \in 1..(NumPages + 1), AtRequest(recorder[p], n),
         recorder[p].window \in 1..MaxDay, recorder'[p].inode = NoFile,
         \A k \in Keys : Safe(k) => Safe(k)',
         NEW r, recorder'[p].pc = r.pc, recorder'[p].todo = r.todo, recorder'[p].window = r.window,
         \/ r = Failed(recorder[p])
         \/ r = Advanced(recorder[p]) /\ (n <= NumPages => Safe(Page(recorder[p].window, n))')
  PROVE  ProgramInLine(recorder[p])'
<1> DEFINE w == recorder[p].window
<1>1. recorder[p] \in Programs
  BY DEF TypeOK
<1>2. CASE r = Failed(recorder[p])
  <2>1. /\ recorder'[p].window = w
        /\ \/ recorder'[p].pc = "idle"
           \/ recorder'[p].pc = "get" /\ recorder'[p].todo = Rest(w, NumPages + 1)
    BY <1>1, <1>2, Fails DEF AtRequest
  <2>2. NumPages + 1 \in 1..(NumPages + 1) /\ ~ (NumPages + 1 <= NumPages)
    BY Bounds
  <2> QED
    BY <2>1, <2>2 DEF ProgramInLine, AtRequest, Busy
<1>3. CASE /\ r = Advanced(recorder[p])
           /\ n <= NumPages => Safe(Page(recorder[p].window, n))'
  <2>1. /\ recorder'[p].window = w
        /\ n < NumPages => recorder'[p].pc = "get" /\ recorder'[p].todo = Rest(w, n + 1)
        /\ n = NumPages => /\ recorder'[p].pc = "manifest"
                           /\ recorder'[p].todo = Rest(w, NumPages + 1)
        /\ n > NumPages => recorder'[p].pc = "idle"
    BY <1>1, <1>3, Advances DEF AtRequest
  <2>2. ASSUME n <= NumPages, NEW i \in 1..n PROVE Safe(Page(w, i))'
    <3>1. i \in 1..NumPages /\ (i = n \/ i \in 1..(n - 1))
      BY <2>2, Bounds
    <3> QED
      BY <1>3, <2>1, <2>2, <3>1, KeysAre DEF AtRequest
  <2>3. CASE n < NumPages
    <3>1. n + 1 \in 1..(NumPages + 1) /\ n + 1 <= NumPages /\ n <= NumPages /\ (n + 1) - 1 = n
      BY <2>3, Bounds
    <3>2. \A i \in 1..((n + 1) - 1) : Safe(Page(w, i))'
      BY <2>2, <3>1
    <3> QED
      BY <2>1, <2>3, <3>1, <3>2 DEF ProgramInLine, AtRequest, Busy
  <2>4. CASE n = NumPages
    BY <2>1, <2>2, <2>4, Bounds DEF ProgramInLine, Busy
  <2>5. CASE n > NumPages
    BY <2>1, <2>5 DEF ProgramInLine, Busy
  <2> QED
    BY <2>3, <2>4, <2>5, Bounds
<1> QED
  BY <1>2, <1>3

\* The manifest stays followed while it stands.
LEMMA FollowedKept ==
  ASSUME TypeOK, Followed, UNCHANGED manifest, \A k \in Keys : Safe(k) => Safe(k)'
  PROVE  Followed'
<1>1. Readable => manifest.window \in 1..MaxDay
  BY Bounds DEF Readable, TypeOK, Torn
<1> QED
  BY <1>1, KeysAre DEF Followed, Readable

\* A recorder that writes nothing, and leaves the files alone, disturbs none.
LEMMA OneKept ==
  ASSUME OneRecorder, UNCHANGED files, raced \subseteq raced',
         NEW p \in Recorders, recorder'[p].pc \notin Busy,
         \A q \in Recorders \ {p} : recorder'[q] = recorder[q]
  PROVE  OneRecorder'
<1> SUFFICES ASSUME NEW k \in Keys, k \notin raced',
                    NEW q \in Recorders, q \in Recording(k)'
             PROVE  (Recording(k) = {q} /\ Records(recorder[q], k))'
  BY DEF OneRecorder
<1>1. q # p /\ q \in Recording(k) /\ k \notin raced /\ recorder'[q] = recorder[q]
  BY DEF Recording, Key, Busy
<1>2. Recording(k) = {q} /\ Records(recorder[q], k)
  BY <1>1 DEF OneRecorder
<1>3. Recording(k)' = {q}
  BY <1>1, <1>2 DEF Recording, Key, Busy
<1>4. Records(recorder[q], k)'
  BY <1>1, <1>2 DEF Records, files
<1> QED
  BY <1>3, <1>4

\* Files that stand keep what is safe.
LEMMA SafeKept ==
  ASSUME UNCHANGED files, raced \subseteq raced', NEW k, Safe(k)
  PROVE  Safe(k)'
BY DEF Safe, Intact, files
-----------------------------------------------------------------------------
(* The steps.                                                              *)

LEMMA NothingMoves ==
  ASSUME IInv, UNCHANGED <<files, manifest, recorder, raced>>, day' \in 1..MaxDay
  PROVE  IInv'
BY DEF IInv, TypeOK, InLine, ProgramInLine, AtRequest, OneRecorder, Records, Recording, Key,
       Followed, Readable, Safe, Intact, files

LEMMA TickKeeps == IInv /\ Tick => IInv'
<1> SUFFICES ASSUME IInv, Tick PROVE IInv'
  OBVIOUS
<1>1. day' \in 1..MaxDay
  BY Bounds DEF IInv, TypeOK, Tick
<1> QED
  BY <1>1, NothingMoves DEF Tick

LEMMA BeginKeeps == ASSUME IInv, NEW p \in Recorders, Begin(p) PROVE IInv'
<1> DEFINE r == [Idle EXCEPT !.pc = "get", !.window = day, !.todo = Requests(day)]
<1>1. TypeOK /\ InLine /\ OneRecorder /\ Followed /\ day \in 1..MaxDay
  BY DEF IInv, TypeOK
<1>2. Requests(day) \in Seq(Keys) /\ Requests(day) = Rest(day, 1)
  BY <1>1, RequestsInLine, AllInLine
<1>3. r \in Programs /\ r.pc = "get" /\ r.window = day /\ r.todo = Requests(day) /\ r.inode = NoFile
  <2>1. day \in 0..MaxDay /\ 0 \in 0..MaxDay
    BY <1>1, Bounds
  <2> QED
    BY <1>2, <2>1 DEF Idle, Programs, NoFile
<1> HIDE DEF r
<1>4. Becomes(p, r) /\ UNCHANGED <<world, files, manifest, raced>>
  BY DEF Begin, r
<1>5. /\ recorder' \in [Recorders -> Programs] /\ recorder'[p] = r
      /\ \A q \in Recorders \ {p} : recorder'[q] = recorder[q]
  BY <1>1, <1>3, <1>4, OneMoves DEF TypeOK
<1>6. \A k \in Keys : Safe(k) => Safe(k)'
  BY <1>4, SafeKept
<1>7. TypeOK'
  BY <1>1, <1>4, <1>5 DEF TypeOK, files, world
<1>8. ProgramInLine(recorder[p])'
  <2>1. 1 \in 1..(NumPages + 1) /\ 1..(1 - 1) = {}
    BY Bounds
  <2>2. AtRequest(recorder[p], 1)'
    BY <1>2, <1>3, <1>5, <2>1 DEF AtRequest
  <2> QED
    BY <1>1, <1>3, <1>5, <2>1, <2>2 DEF ProgramInLine, Busy
<1>9. InLine' /\ OneRecorder' /\ Followed'
  <2>1. recorder'[p].pc \notin Busy
    BY <1>3, <1>5 DEF Busy
  <2> QED
    BY <1>1, <1>4, <1>5, <1>6, <1>8, <2>1, LineKept, OneKept, FollowedKept
<1> QED
  BY <1>7, <1>9 DEF IInv

LEMMA DieKeeps == ASSUME IInv, NEW p \in Recorders, Die(p) PROVE IInv'
<1>1. TypeOK /\ InLine /\ OneRecorder /\ Followed
  BY DEF IInv
<1>2. Idle \in Programs /\ Idle.pc = "idle" /\ Idle.inode = NoFile
  <2>1. <<>> \in Seq(Keys) /\ 0 \in 0..MaxDay
    BY Bounds
  <2> QED
    BY <2>1 DEF Idle, Programs, NoFile
<1>3. Becomes(p, Idle) /\ UNCHANGED <<world, files, manifest, raced>>
  BY DEF Die
<1>4. /\ recorder' \in [Recorders -> Programs] /\ recorder'[p] = Idle
      /\ \A q \in Recorders \ {p} : recorder'[q] = recorder[q]
  BY <1>1, <1>2, <1>3, OneMoves DEF TypeOK
<1>5. \A k \in Keys : Safe(k) => Safe(k)'
  BY <1>3, SafeKept
<1>6. TypeOK'
  BY <1>1, <1>3, <1>4 DEF TypeOK, files, world
<1>7. ProgramInLine(recorder[p])' /\ recorder'[p].pc \notin Busy
  BY <1>2, <1>4 DEF ProgramInLine, Busy
<1>8. InLine' /\ OneRecorder' /\ Followed'
  BY <1>1, <1>3, <1>4, <1>5, <1>7, LineKept, OneKept, FollowedKept
<1> QED
  BY <1>6, <1>8 DEF IInv

LEMMA ManifestOpenKeeps == ASSUME IInv, NEW p \in Recorders, ManifestOpen(p) PROVE IInv'
<1> DEFINE r == [recorder[p] EXCEPT !.pc = "manifest_write"]
<1>1. TypeOK /\ InLine /\ OneRecorder /\ recorder[p] \in Programs
  BY DEF IInv, TypeOK
<1>2. /\ r \in Programs /\ r.pc = "manifest_write" /\ r.window = recorder[p].window
      /\ r.todo = recorder[p].todo /\ r.inode = recorder[p].inode
  BY <1>1 DEF Programs
<1> HIDE DEF r
<1>3. /\ Becomes(p, r) /\ UNCHANGED <<world, files, raced>> /\ recorder[p].pc = "manifest"
      /\ manifest' = [exists |-> TRUE, window |-> Torn]
  BY DEF ManifestOpen, r
<1>4. /\ recorder' \in [Recorders -> Programs] /\ recorder'[p] = r
      /\ \A q \in Recorders \ {p} : recorder'[q] = recorder[q]
  BY <1>1, <1>2, <1>3, OneMoves DEF TypeOK
<1>5. \A k \in Keys : Safe(k) => Safe(k)'
  BY <1>3, SafeKept
<1>6. TypeOK'
  <2>1. manifest' \in [exists : BOOLEAN, window : 0..MaxDay]
    BY <1>3, Bounds DEF Torn
  <2> QED
    BY <1>1, <1>3, <1>4, <2>1 DEF TypeOK, files, world
<1>7. ProgramInLine(recorder[p])' /\ recorder'[p].pc \notin Busy
  <2>1. /\ recorder[p].window \in 1..MaxDay /\ recorder[p].inode = NoFile
        /\ recorder[p].todo = Rest(recorder[p].window, NumPages + 1)
        /\ \A i \in 1..NumPages : Safe(Page(recorder[p].window, i))
    BY <1>1, <1>3 DEF InLine, ProgramInLine
  <2>2. \A i \in 1..NumPages : Safe(Page(recorder[p].window, i))'
    BY <1>2, <1>4, <1>5, <2>1, KeysAre
  <2> QED
    BY <1>2, <1>4, <2>1, <2>2 DEF ProgramInLine, Busy
<1>8. InLine' /\ OneRecorder'
  BY <1>1, <1>3, <1>4, <1>5, <1>7, LineKept, OneKept
<1>9. Followed'
  BY <1>3 DEF Followed, Readable
<1> QED
  BY <1>6, <1>8, <1>9 DEF IInv

LEMMA ManifestWriteKeeps == ASSUME IInv, NEW p \in Recorders, ManifestWrite(p) PROVE IInv'
<1> DEFINE r == [recorder[p] EXCEPT !.pc = "get"]
<1>1. TypeOK /\ InLine /\ OneRecorder /\ recorder[p] \in Programs
  BY DEF IInv, TypeOK
<1>2. /\ r \in Programs /\ r.pc = "get" /\ r.window = recorder[p].window
      /\ r.todo = recorder[p].todo /\ r.inode = recorder[p].inode
  BY <1>1 DEF Programs
<1> HIDE DEF r
<1>3. /\ Becomes(p, r) /\ UNCHANGED <<world, files, raced>> /\ recorder[p].pc = "manifest_write"
      /\ manifest' = [exists |-> TRUE, window |-> recorder[p].window]
  BY DEF ManifestWrite, r
<1>4. /\ recorder' \in [Recorders -> Programs] /\ recorder'[p] = r
      /\ \A q \in Recorders \ {p} : recorder'[q] = recorder[q]
  BY <1>1, <1>2, <1>3, OneMoves DEF TypeOK
<1>5. \A k \in Keys : Safe(k) => Safe(k)'
  BY <1>3, SafeKept
<1>6. TypeOK'
  <2>1. manifest' \in [exists : BOOLEAN, window : 0..MaxDay]
    BY <1>1, <1>3 DEF Programs
  <2> QED
    BY <1>1, <1>3, <1>4, <2>1 DEF TypeOK, files, world
<1>7. /\ recorder[p].window \in 1..MaxDay /\ recorder[p].inode = NoFile
      /\ recorder[p].todo = Rest(recorder[p].window, NumPages + 1)
      /\ \A i \in 1..NumPages : Safe(Page(recorder[p].window, i))
  BY <1>1, <1>3 DEF InLine, ProgramInLine
<1>8. ProgramInLine(recorder[p])' /\ recorder'[p].pc \notin Busy
  <2>1. NumPages + 1 \in 1..(NumPages + 1) /\ ~ (NumPages + 1 <= NumPages)
    BY Bounds
  <2>2. AtRequest(recorder[p], NumPages + 1)'
    BY <1>2, <1>4, <1>7, <2>1 DEF AtRequest
  <2> QED
    BY <1>2, <1>4, <1>7, <2>1, <2>2 DEF ProgramInLine, Busy
<1>9. InLine' /\ OneRecorder'
  BY <1>1, <1>3, <1>4, <1>5, <1>8, LineKept, OneKept
<1>10. Followed'
  <2>1. \A i \in 1..NumPages : Safe(Page(manifest.window, i))'
    <3>1. manifest'.window = recorder[p].window
      BY <1>3
    <3> QED
      BY <1>5, <1>7, <3>1, KeysAre
  <2> QED
    BY <2>1 DEF Followed
<1> QED
  BY <1>6, <1>9, <1>10 DEF IInv

\* What a request in progress asks for.
LEMMA InProgress ==
  ASSUME TypeOK, InLine, NEW p \in Recorders, recorder[p].pc \in Busy \cup {"get"}
  PROVE  /\ recorder[p] \in Programs /\ recorder[p].window \in 1..MaxDay
         /\ recorder[p].pc \in Busy => recorder[p].answer \in 1..MaxDay
         /\ Key(p) \in Keys
         /\ \E n \in 1..(NumPages + 1) :
              /\ AtRequest(recorder[p], n)
              /\ n <= NumPages => n \in 1..NumPages /\ Key(p) = Page(recorder[p].window, n)
<1>1. /\ recorder[p] \in Programs /\ recorder[p].window \in 1..MaxDay
      /\ recorder[p].pc \in Busy => recorder[p].answer \in 1..MaxDay
  BY DEF TypeOK, InLine, ProgramInLine, Busy
<1>2. PICK n \in 1..(NumPages + 1) : AtRequest(recorder[p], n)
  BY DEF InLine, ProgramInLine
<1>3. Key(p) = IF n <= NumPages THEN Page(recorder[p].window, n) ELSE TheDocument
  BY <1>1, <1>2, RestInLine DEF Key, AtRequest
<1>4. n <= NumPages => n \in 1..NumPages
  BY Bounds
<1> QED
  BY <1>1, <1>2, <1>3, <1>4, KeysAre

LEMMA GetKeeps == ASSUME IInv, NEW p \in Recorders, Get(p) PROVE IInv'
<1>1. TypeOK /\ InLine /\ OneRecorder /\ Followed /\ recorder[p].pc = "get"
  BY DEF IInv, Get
<1>2. /\ recorder[p] \in Programs /\ recorder[p].window \in 1..MaxDay /\ Key(p) \in Keys
      /\ recorder[p].inode = NoFile
  BY <1>1, InProgress DEF InLine, ProgramInLine
<1>3. PICK n \in 1..(NumPages + 1) :
        /\ AtRequest(recorder[p], n)
        /\ n <= NumPages => n \in 1..NumPages /\ Key(p) = Page(recorder[p].window, n)
  BY <1>1, InProgress
<1>4. UNCHANGED <<world, files, manifest>> /\ raced \subseteq raced'
  BY DEF Get
<1>5. \A k \in Keys : Safe(k) => Safe(k)'
  BY <1>4, SafeKept
<1>6. Followed'
  BY <1>1, <1>4, <1>5, FollowedKept
<1>7. ASSUME NEW r \in Programs, Becomes(p, r), r.inode = NoFile, r.pc \notin Busy,
             \/ r = Failed(recorder[p])
             \/ r = Advanced(recorder[p]) /\ Intact(Key(p))
      PROVE  IInv'
  <2>1. /\ recorder' \in [Recorders -> Programs] /\ recorder'[p] = r
        /\ \A q \in Recorders \ {p} : recorder'[q] = recorder[q]
    BY <1>1, <1>7, OneMoves DEF TypeOK
  <2>2. TypeOK'
    BY <1>1, <1>4, <2>1 DEF TypeOK, files, world
  <2>3. ASSUME r = Advanced(recorder[p]), Intact(Key(p)), n <= NumPages
        PROVE  Safe(Page(recorder[p].window, n))'
    <3>1. Safe(Key(p))
      BY <2>3 DEF Safe
    <3>2. recorder'[p].window = recorder[p].window
      BY <1>2, <1>3, <2>1, <2>3, Advances DEF AtRequest
    <3> QED
      BY <1>2, <1>3, <1>5, <2>3, <3>1, <3>2
  <2>4. ProgramInLine(recorder[p])'
    BY <1>1, <1>2, <1>3, <1>5, <1>7, <2>1, <2>3, InLineAfter
  <2>5. InLine' /\ OneRecorder'
    BY <1>1, <1>4, <1>5, <1>7, <2>1, <2>4, LineKept, OneKept
  <2> QED
    BY <1>6, <2>2, <2>5 DEF IInv
<1>8. ASSUME Becomes(p, Failed(recorder[p])) PROVE IInv'
  <2>1. /\ Failed(recorder[p]) \in Programs /\ Failed(recorder[p]).inode = NoFile
        /\ Failed(recorder[p]).pc \notin Busy
    BY <1>2, <1>3, Fails DEF AtRequest, Busy
  <2> QED
    BY <1>7, <1>8, <2>1
<1>9. ASSUME Becomes(p, Advanced(recorder[p])), Intact(Key(p)) PROVE IInv'
  <2>1. /\ Advanced(recorder[p]) \in Programs /\ Advanced(recorder[p]).inode = NoFile
        /\ Advanced(recorder[p]).pc \notin Busy
    <3>1. n < NumPages \/ n = NumPages \/ n > NumPages
      BY Bounds
    <3> QED
      BY <1>2, <1>3, <3>1, Advances DEF AtRequest, Busy
  <2> QED
    BY <1>7, <1>9, <2>1
<1>10. ASSUME Becomes(p, [recorder[p] EXCEPT !.pc = "open", !.answer = day]),
              file[Key(p)] = NoFile,
              raced' = IF Recording(Key(p)) = {} THEN raced ELSE raced \cup {Key(p)}
       PROVE  IInv'
  <2> DEFINE r == [recorder[p] EXCEPT !.pc = "open", !.answer = day]
  <2>1. /\ r \in Programs /\ r.pc = "open" /\ r.answer = day /\ r.window = recorder[p].window
        /\ r.todo = recorder[p].todo /\ r.inode = NoFile
    <3>1. day \in 0..MaxDay
      BY <1>1 DEF TypeOK
    <3> QED
      BY <1>2, <3>1 DEF Programs, Busy
  <2>2. Becomes(p, r)
    BY <1>10
  <2> HIDE DEF r
  <2>3. /\ recorder' \in [Recorders -> Programs] /\ recorder'[p] = r
        /\ \A q \in Recorders \ {p} : recorder'[q] = recorder[q]
    BY <1>1, <2>1, <2>2, OneMoves DEF TypeOK
  <2>4. TypeOK'
    BY <1>1, <1>4, <2>3 DEF TypeOK, files, world
  <2>5. ProgramInLine(recorder[p])'
    <3>1. \A i \in 1..(n - 1) : n <= NumPages => i \in 1..NumPages
      BY Bounds
    <3>2. AtRequest(recorder[p], n)'
      BY <1>2, <1>3, <1>5, <2>1, <2>3, <3>1, KeysAre DEF AtRequest
    <3>3. day \in 1..MaxDay
      BY <1>1 DEF TypeOK
    <3> QED
      BY <1>2, <2>1, <2>3, <3>2, <3>3 DEF ProgramInLine, Busy
  <2>6. InLine'
    BY <1>1, <1>5, <2>3, <2>5, LineKept
  <2>7. OneRecorder'
    <3> SUFFICES ASSUME NEW k \in Keys, k \notin raced',
                        NEW q \in Recorders, q \in Recording(k)'
                 PROVE  (Recording(k) = {q} /\ Records(recorder[q], k))'
      BY DEF OneRecorder
    <3>1. Key(p)' = Key(p) /\ p \notin Recording(k)
      BY <1>1, <2>1, <2>3 DEF Key, Recording
    <3>2. CASE k = Key(p)
      <4>1. Recording(k) = {}
        BY <1>10, <3>2
      <4>2. Recording(k)' = {p} /\ q = p
        BY <2>1, <2>3, <3>1, <3>2, <4>1 DEF Recording, Key
      <4> QED
        BY <1>4, <1>10, <2>1, <2>3, <3>2, <4>2 DEF Records, files
    <3>3. CASE k # Key(p)
      <4>1. q # p /\ q \in Recording(k) /\ recorder'[q] = recorder[q]
        BY <2>3, <3>1, <3>3 DEF Recording, Key
      <4>2. Recording(k) = {q} /\ Records(recorder[q], k)
        BY <1>1, <1>4, <4>1 DEF OneRecorder
      <4>3. Recording(k)' = {q}
        BY <2>3, <3>1, <3>3, <4>1, <4>2 DEF Recording, Key
      <4> QED
        BY <1>4, <4>1, <4>2, <4>3 DEF Records, files
    <3> QED
      BY <3>2, <3>3
  <2> QED
    BY <1>6, <2>4, <2>6, <2>7 DEF IInv
<1> QED
  BY <1>8, <1>9, <1>10 DEF Get

\* A recorder that goes on writing one file leaves those of other keys alone.
LEMMA StillOne ==
  ASSUME OneRecorder, NEW p \in Recorders, UNCHANGED <<file, raced>>,
         recorder[p].pc \in Busy, recorder'[p].pc \in Busy, Key(p)' = Key(p),
         \A q \in Recorders \ {p} : recorder'[q] = recorder[q],
         \A k \in Keys \ {Key(p)} : temporary'[k] = temporary[k] /\ content'[k] = content[k],
         (Key(p) \notin raced /\ Recording(Key(p)) = {p} /\ Records(recorder[p], Key(p)))
            => \A k \in Keys : k = Key(p) => Records(recorder[p], k)'
  PROVE  OneRecorder'
<1> SUFFICES ASSUME NEW k \in Keys, k \notin raced',
                    NEW q \in Recorders, q \in Recording(k)'
             PROVE  (Recording(k) = {q} /\ Records(recorder[q], k))'
  BY DEF OneRecorder
<1>1. \A x \in Recorders : x \in Recording(k)' <=> x \in Recording(k)
  BY DEF Recording, Key, Busy
<1>2. Recording(k)' = Recording(k)
  BY <1>1 DEF Recording
<1>3. Recording(k) = {q} /\ Records(recorder[q], k)
  BY <1>2 DEF OneRecorder
<1>4. CASE q = p
  <2>1. k = Key(p)
    BY <1>3, <1>4 DEF Recording
  <2> QED
    BY <1>2, <1>3, <1>4, <2>1
<1>5. CASE q # p
  <2>1. k # Key(p)
    BY <1>3, <1>5 DEF Recording, Busy
  <2>2. Records(recorder[q], k)'
    BY <1>3, <1>5, <2>1 DEF Records
  <2> QED
    BY <1>2, <1>3, <2>2
<1> QED
  BY <1>4, <1>5

\* Nobody writes a file that stands, unless it was raced for.
LEMMA WrittenIsNotIntact ==
  ASSUME TypeOK, InLine, OneRecorder, NEW p \in Recorders, recorder[p].pc \in Busy,
         Intact(Key(p))
  PROVE  Key(p) \in raced
<1>1. Key(p) \in Keys /\ p \in Recording(Key(p))
  BY InProgress DEF Recording, Busy
<1> QED
  BY <1>1 DEF OneRecorder, Records, Intact

LEMMA OpenKeeps == ASSUME IInv, NEW p \in Recorders, Open(p) PROVE IInv'
<1> DEFINE K == Key(p)
           inode == IF temporary[K] = NoFile THEN Fresh(K) ELSE temporary[K]
           r == [recorder[p] EXCEPT !.pc = "write", !.inode = inode]
<1>1. TypeOK /\ InLine /\ OneRecorder /\ Followed /\ recorder[p].pc = "open" /\ "open" \in Busy
  BY DEF IInv, Open, Busy
<1>2. /\ recorder[p] \in Programs /\ recorder[p].window \in 1..MaxDay /\ K \in Keys
      /\ recorder[p].answer \in 1..MaxDay
  BY <1>1, InProgress
<1>3. inode \in Inodes
  <2>1. temporary[K] \in Inodes \cup {NoFile}
    BY <1>1, <1>2 DEF TypeOK
  <2> QED
    BY <1>1, <1>2, <2>1, FreshExists
<1>4. /\ temporary' = [temporary EXCEPT ![K] = inode]
      /\ content' = [content EXCEPT ![K][inode] = Torn]
      /\ Becomes(p, r)
      /\ UNCHANGED <<world, file, manifest, runs, raced>>
  BY DEF Open
<1> HIDE DEF inode
<1>5. /\ r \in Programs /\ r.pc = "write" /\ r.inode = inode /\ r.window = recorder[p].window
      /\ r.todo = recorder[p].todo /\ r.answer = recorder[p].answer
  BY <1>2, <1>3 DEF Programs, Busy
<1> HIDE DEF r
<1>6. /\ recorder' \in [Recorders -> Programs] /\ recorder'[p] = r
      /\ \A q \in Recorders \ {p} : recorder'[q] = recorder[q]
  BY <1>1, <1>4, <1>5, OneMoves DEF TypeOK
<1>7. K' = K
  BY <1>5, <1>6 DEF Key
<1> HIDE DEF K
<1>8. content \in [Keys -> [Inodes -> 0..MaxDay]] /\ temporary \in [Keys -> Inodes \cup {NoFile}]
  BY <1>1 DEF TypeOK
<1>9. /\ temporary' \in [Keys -> Inodes \cup {NoFile}] /\ temporary'[K] = inode
      /\ content' \in [Keys -> [Inodes -> 0..MaxDay]] /\ content'[K][inode] = Torn
      /\ \A k \in Keys \ {K} : temporary'[k] = temporary[k] /\ content'[k] = content[k]
  BY <1>2, <1>3, <1>4, <1>8, Bounds DEF Torn
<1>10. \A k \in Keys : Safe(k) => Safe(k)'
  <2>1. ASSUME NEW k \in Keys, Intact(k), k \notin raced PROVE k # K
    BY <1>1, <2>1, WrittenIsNotIntact DEF K
  <2> QED
    BY <1>4, <1>9, <2>1 DEF Safe, Intact
<1>11. TypeOK'
  BY <1>1, <1>4, <1>6, <1>9 DEF TypeOK, world
<1>12. ProgramInLine(recorder[p])'
  <2>1. PICK n \in 1..(NumPages + 1) : AtRequest(recorder[p], n)
    BY <1>1, InProgress
  <2>2. \A i \in 1..(n - 1) : n <= NumPages => i \in 1..NumPages
    BY Bounds
  <2>3. AtRequest(recorder[p], n)'
    BY <1>2, <1>5, <1>6, <1>10, <2>1, <2>2, KeysAre DEF AtRequest
  <2> QED
    BY <1>2, <1>5, <1>6, <2>3 DEF ProgramInLine, Busy
<1>13. InLine' /\ Followed'
  BY <1>1, <1>4, <1>6, <1>10, <1>12, LineKept, FollowedKept
<1>14. OneRecorder'
  <2>1. ASSUME file[K] = NoFile PROVE \A k \in Keys : k = K => Records(recorder[p], k)'
    BY <1>3, <1>4, <1>5, <1>6, <1>9, <2>1 DEF Records
  <2>2. Records(recorder[p], Key(p)) => \A k \in Keys : k = Key(p) => Records(recorder[p], k)'
    BY <2>1 DEF Records, K
  <2>3. recorder'[p].pc \in Busy /\ Key(p)' = Key(p)
    BY <1>5, <1>6, <1>7 DEF Busy, K
  <2>4. \A k \in Keys \ {Key(p)} : temporary'[k] = temporary[k] /\ content'[k] = content[k]
    BY <1>9 DEF K
  <2> QED
    BY <1>1, <1>4, <1>6, <2>2, <2>3, <2>4, StillOne
<1> QED
  BY <1>11, <1>13, <1>14 DEF IInv

LEMMA WriteKeeps == ASSUME IInv, NEW p \in Recorders, Write(p) PROVE IInv'
<1> DEFINE K == Key(p)
           inode == recorder[p].inode
           held == content[K][inode]
           r == [recorder[p] EXCEPT !.pc = "replace"]
<1>1. TypeOK /\ InLine /\ OneRecorder /\ Followed /\ recorder[p].pc = "write" /\ "write" \in Busy
  BY DEF IInv, Write, Busy
<1>2. /\ recorder[p] \in Programs /\ recorder[p].window \in 1..MaxDay /\ K \in Keys
      /\ recorder[p].answer \in 1..MaxDay
  BY <1>1, InProgress
<1>3. PICK d \in {recorder[p].answer} \cup
                  (IF held \in {Torn, recorder[p].answer} THEN {} ELSE {Torn}) :
        content' = [content EXCEPT ![K][inode] = d]
  BY DEF Write
<1>4. Becomes(p, r) /\ UNCHANGED <<world, temporary, file, manifest, runs, raced>>
  BY DEF Write
<1>5. d \in 0..MaxDay /\ (held = Torn => d # Torn)
  BY <1>2, Bounds DEF Torn
<1> HIDE DEF held
<1>6. /\ r \in Programs /\ r.pc = "replace" /\ r.inode = inode /\ r.window = recorder[p].window
      /\ r.todo = recorder[p].todo /\ r.answer = recorder[p].answer
  BY <1>2 DEF Programs, Busy
<1> HIDE DEF r, inode
<1>7. /\ recorder' \in [Recorders -> Programs] /\ recorder'[p] = r
      /\ \A q \in Recorders \ {p} : recorder'[q] = recorder[q]
  BY <1>1, <1>4, <1>6, OneMoves DEF TypeOK
<1>8. K' = K
  BY <1>6, <1>7 DEF Key
<1> HIDE DEF K
<1>9. content \in [Keys -> [Inodes -> 0..MaxDay]]
  BY <1>1 DEF TypeOK
<1>10. /\ content' \in [Keys -> [Inodes -> 0..MaxDay]]
       /\ inode \in Inodes => content'[K][inode] = d
       /\ \A k \in Keys \ {K} : content'[k] = content[k]
  BY <1>2, <1>3, <1>5, <1>9
<1>11. \A k \in Keys : Safe(k) => Safe(k)'
  <2>1. ASSUME NEW k \in Keys, Intact(k), k \notin raced PROVE k # K
    BY <1>1, <2>1, WrittenIsNotIntact DEF K
  <2> QED
    BY <1>4, <1>10, <2>1 DEF Safe, Intact
<1>12. TypeOK'
  BY <1>1, <1>4, <1>7, <1>10 DEF TypeOK, world
<1>13. ProgramInLine(recorder[p])'
  <2>1. PICK n \in 1..(NumPages + 1) : AtRequest(recorder[p], n)
    BY <1>1, InProgress
  <2>2. \A i \in 1..(n - 1) : n <= NumPages => i \in 1..NumPages
    BY Bounds
  <2>3. AtRequest(recorder[p], n)'
    BY <1>2, <1>6, <1>7, <1>11, <2>1, <2>2, KeysAre DEF AtRequest
  <2> QED
    BY <1>2, <1>6, <1>7, <2>3 DEF ProgramInLine, Busy
<1>14. InLine' /\ Followed'
  BY <1>1, <1>4, <1>7, <1>11, <1>13, LineKept, FollowedKept
<1>15. OneRecorder'
  <2>1. ASSUME Records(recorder[p], K)
        PROVE  \A k \in Keys : k = K => Records(recorder[p], k)'
    <3>1. /\ file[K] = NoFile /\ temporary[K] = inode /\ inode \in Inodes /\ held = Torn
      BY <1>1, <2>1 DEF Records, inode, held
    <3> QED
      BY <1>4, <1>5, <1>6, <1>7, <1>10, <3>1 DEF Records
  <2>2. Records(recorder[p], Key(p)) => \A k \in Keys : k = Key(p) => Records(recorder[p], k)'
    BY <2>1 DEF K
  <2>3. recorder'[p].pc \in Busy /\ Key(p)' = Key(p)
    BY <1>6, <1>7, <1>8 DEF Busy, K
  <2>4. \A k \in Keys \ {Key(p)} : temporary'[k] = temporary[k] /\ content'[k] = content[k]
    BY <1>4, <1>10 DEF K
  <2> QED
    BY <1>1, <1>4, <1>7, <2>2, <2>3, <2>4, StillOne
<1> QED
  BY <1>12, <1>14, <1>15 DEF IInv

LEMMA ReplaceKeeps == ASSUME IInv, NEW p \in Recorders, Replace(p) PROVE IInv'
<1> DEFINE K == Key(p)
           moved == temporary[K] # NoFile
           next == IF moved THEN Advanced(recorder[p]) ELSE Failed(recorder[p])
           r == [next EXCEPT !.inode = 0]
<1>1. /\ TypeOK /\ InLine /\ OneRecorder /\ Followed
      /\ recorder[p].pc = "replace" /\ "replace" \in Busy
  BY DEF IInv, Replace, Busy
<1>2. /\ recorder[p] \in Programs /\ recorder[p].window \in 1..MaxDay /\ K \in Keys
      /\ p \in Recording(K)
  BY <1>1, InProgress DEF Recording
<1>3. PICK n \in 1..(NumPages + 1) :
        /\ AtRequest(recorder[p], n)
        /\ n <= NumPages => n \in 1..NumPages /\ K = Page(recorder[p].window, n)
  BY <1>1, InProgress
<1>4. Becomes(p, r) /\ UNCHANGED <<world, content, manifest, raced>>
  BY DEF Replace, files
<1>5. /\ moved => /\ file' = [file EXCEPT ![K] = temporary[K]]
                  /\ temporary' = [temporary EXCEPT ![K] = NoFile]
      /\ ~moved => UNCHANGED <<file, temporary>>
  BY DEF Replace, files
<1>6. /\ next \in Programs /\ next.window = recorder[p].window
      /\ next.pc \notin Busy
  <2>1. n < NumPages \/ n = NumPages \/ n > NumPages
    BY Bounds
  <2> QED
    BY <1>2, <1>3, <2>1, Advances, Fails DEF AtRequest, Busy
<1>7. next = Failed(recorder[p]) \/ (next = Advanced(recorder[p]) /\ moved)
  OBVIOUS
<1> HIDE DEF next, moved
<1>8. /\ r \in Programs /\ r.inode = NoFile /\ r.pc = next.pc /\ r.todo = next.todo
      /\ r.window = next.window
  BY <1>6 DEF Programs, NoFile
<1> HIDE DEF r
<1>9. /\ recorder' \in [Recorders -> Programs] /\ recorder'[p] = r
      /\ \A q \in Recorders \ {p} : recorder'[q] = recorder[q]
  BY <1>1, <1>4, <1>8, OneMoves DEF TypeOK
<1> HIDE DEF K
<1>10. /\ temporary \in [Keys -> Inodes \cup {NoFile}] /\ file \in [Keys -> Inodes \cup {NoFile}]
       /\ content \in [Keys -> [Inodes -> 0..MaxDay]]
  BY <1>1 DEF TypeOK
<1>11. /\ temporary' \in [Keys -> Inodes \cup {NoFile}] /\ file' \in [Keys -> Inodes \cup {NoFile}]
       /\ moved => file'[K] = temporary[K]
       /\ \A k \in Keys \ {K} : temporary'[k] = temporary[k] /\ file'[k] = file[k]
  BY <1>2, <1>5, <1>10
<1>12. TypeOK'
  BY <1>1, <1>4, <1>9, <1>11 DEF TypeOK, world
\* Only the file of this key changes, and it was not whole unless raced for.
<1>13. \A k \in Keys : Safe(k) => Safe(k)'
  <2>1. ASSUME NEW k \in Keys, Intact(k), k \notin raced PROVE k # K
    BY <1>1, <2>1, WrittenIsNotIntact DEF K
  <2> QED
    BY <1>4, <1>11, <2>1 DEF Safe, Intact
<1>14. ASSUME moved, K \notin raced PROVE file'[K] # NoFile /\ content'[K][file'[K]] # Torn
  <2>1. Records(recorder[p], K)
    BY <1>1, <1>2, <1>14 DEF OneRecorder
  <2>2. temporary[K] \in Inodes /\ content[K][temporary[K]] # Torn
    BY <1>1, <2>1 DEF Records
  <2> QED
    BY <1>4, <1>11, <1>14, <2>2 DEF moved
<1>15. ProgramInLine(recorder[p])'
  <2>1. ASSUME n <= NumPages, moved PROVE Safe(Page(recorder[p].window, n))'
    <3>1. recorder'[p].window = recorder[p].window
      BY <1>6, <1>8, <1>9
    <3>2. Page(recorder[p].window, n)' = K
      BY <1>3, <2>1, <3>1
    <3> QED
      BY <1>4, <1>14, <2>1, <3>2 DEF Safe, Intact
  <2>2. recorder'[p].inode = NoFile /\ recorder'[p].pc = next.pc /\ recorder'[p].todo = next.todo
        /\ recorder'[p].window = next.window
    BY <1>8, <1>9
  <2> QED
    BY <1>1, <1>2, <1>3, <1>7, <1>13, <2>1, <2>2, InLineAfter
<1>16. InLine' /\ Followed'
  BY <1>1, <1>4, <1>9, <1>13, <1>15, LineKept, FollowedKept
<1>17. OneRecorder'
  <2> SUFFICES ASSUME NEW k \in Keys, k \notin raced',
                      NEW q \in Recorders, q \in Recording(k)'
               PROVE  (Recording(k) = {q} /\ Records(recorder[q], k))'
    BY DEF OneRecorder
  <2>1. q # p /\ q \in Recording(k) /\ k \notin raced /\ recorder'[q] = recorder[q]
    BY <1>4, <1>6, <1>8, <1>9 DEF Recording, Key, Busy
  <2>2. Recording(k) = {q} /\ Records(recorder[q], k)
    BY <1>1, <2>1 DEF OneRecorder
  <2>3. k # K
    BY <1>2, <2>1, <2>2
  <2>4. Recording(k)' = {q}
    BY <1>6, <1>8, <1>9, <2>1, <2>2 DEF Recording, Key, Busy
  <2>5. Records(recorder[q], k)'
    BY <1>4, <1>11, <2>1, <2>2, <2>3 DEF Records
  <2> QED
    BY <2>4, <2>5
<1> QED
  BY <1>12, <1>16, <1>17 DEF IInv
-----------------------------------------------------------------------------
(* The theorems.                                                           *)

LEMMA NextKeeps == IInv /\ [Next]_vars => IInv'
<1> SUFFICES ASSUME IInv, [Next]_vars PROVE IInv'
  OBVIOUS
<1>1. CASE UNCHANGED vars
  <2>1. day' \in 1..MaxDay
    BY <1>1 DEF IInv, TypeOK, vars
  <2> QED
    BY <1>1, <2>1, NothingMoves DEF vars, files
<1>2. CASE Next
  BY <1>2, TickKeeps, BeginKeeps, GetKeeps, OpenKeeps, WriteKeeps, ReplaceKeeps,
     ManifestOpenKeeps, ManifestWriteKeeps, DieKeeps DEF Next
<1> QED
  BY <1>1, <1>2

LEMMA Invariance == Spec => []IInv
<1> QED
  BY Initially, NextKeeps, PTL DEF Spec

\* A manifest that can be read can be followed: each of its pages is recorded
\* whole unless two recorders raced for one, whatever died or was refused
\* between two system calls of write_manifest (cache.py) and of put.
THEOREM ManifestsCanBeFollowed == Spec => []ManifestIsReplayable
<1>1. IInv => ManifestIsReplayable
  <2> SUFFICES ASSUME IInv, Readable, Pages(manifest.window) \cap raced = {},
                      NEW k \in Pages(manifest.window)
               PROVE  Intact(k)
    BY DEF ManifestIsReplayable, resolve_setup
  <2>1. \A i \in 1..NumPages : Safe(Page(manifest.window, i))
    BY DEF IInv, Followed
  <2>2. k.item \in 1..NumPages /\ k = Page(manifest.window, k.item)
    BY DEF Pages, Page
  <2>3. k \notin raced
    OBVIOUS
  <2> QED
    BY <2>1, <2>2, <2>3 DEF Safe
<1> QED
  BY <1>1, Invariance, PTL

\* What was recorded of a key no two recorders raced for is the answer every
\* later request gets (cache.py's get, put and get_json).
THEOREM RecordingsStand == Spec => RecordingIsStable
<1> DEFINE Stands == \A k \in Keys : (Intact(k) /\ k \notin raced) => Cached(k)' = Cached(k)
<1>1. IInv /\ [Next]_vars => [Stands]_vars
  <2> SUFFICES ASSUME IInv, Next, NEW k \in Keys, Intact(k), k \notin raced
               PROVE  Cached(k)' = Cached(k)
    BY DEF Stands
  <2>1. TypeOK /\ InLine /\ OneRecorder
    BY DEF IInv
  <2>2. CASE UNCHANGED files
    BY <2>2 DEF Cached, Intact, files
  <2>3. ASSUME NEW p \in Recorders, Open(p) \/ Write(p) \/ Replace(p)
        PROVE  Cached(k)' = Cached(k)
    <3>1. recorder[p].pc \in Busy
      BY <2>3 DEF Open, Write, Replace, Busy
    <3>2. k # Key(p)
      BY <2>1, <3>1, WrittenIsNotIntact
    <3>3. file'[k] = file[k] /\ content'[k] = content[k]
      <4>1. file \in [Keys -> Inodes \cup {NoFile}] /\ content \in [Keys -> [Inodes -> 0..MaxDay]]
        BY <2>1 DEF TypeOK
      <4> QED
        BY <2>3, <3>2, <4>1 DEF Open, Write, Replace, files
    <3> QED
      BY <3>3 DEF Cached, Intact
  <2> QED
    BY <2>2, <2>3 DEF Next, Tick, Begin, Get, ManifestOpen, ManifestWrite, Die
<1> QED
  BY <1>1, Invariance, PTL DEF Spec, RecordingIsStable
-----------------------------------------------------------------------------
(* What the vendors published, and what of it was recorded.                *)

\* A row is published a day at most; a daily figure a lag after its period; a
\* blank only where nothing was published before.
RowsInOrder ==
  /\ IsFiniteSet(rows)
  /\ \A r \in rows :
       /\ r.series \in SeriesNames /\ r.period \in Nat /\ r.stamp \in 1..day
       /\ r.value \in Nat /\ r.period <= r.stamp
       /\ r.series \in Daily => r.period + PublicationLag = r.stamp
  /\ \A r, q \in rows : r.stamp = q.stamp => r = q
  /\ \A r, q \in rows :
       r.series = q.series /\ r.period = q.period /\ r.stamp < q.stamp => q.value # Missing

\* A page still shows for a day what it showed on that day.
SiteRemembers ==
  /\ site \in Seq([SeriesNames -> SUBSET (Nat \X Nat)])
  /\ Len(site) = day
  /\ \A t \in 1..day, s \in SeriesNames : site[t][s] = Shown(rows, s, t)

\* No recorder has an answer of another day than those that were.
AnsweredInTime ==
  /\ \A k \in Keys, i \in Inodes : content[k][i] <= day
  /\ \A p \in Recorders : recorder[p].answer <= day

History == RowsInOrder /\ SiteRemembers /\ AnsweredInTime

Of(published, s, p, t) == {r \in published : r.series = s /\ r.period = p /\ r.stamp <= t}
LatestIn(S) == CHOOSE r \in S : \A q \in S : q.stamp <= r.stamp

LEMMA ShownIs ==
  ASSUME NEW published, NEW s, NEW t
  PROVE  Shown(published, s, t) =
           {<<p, LatestIn(Of(published, s, p, t)).value>> :
              p \in {q \in 0..t : Of(published, s, q, t) # {}}}
BY DEF Shown, Of, LatestIn

\* Of rows published by a day, one is the latest.
LEMMA LatestExists ==
  ASSUME NEW S, NEW t \in Nat, \A r \in S : r.stamp \in Nat /\ r.stamp <= t, S # {}
  PROVE  LatestIn(S) \in S /\ \A q \in S : q.stamp <= LatestIn(S).stamp
<1> DEFINE B == {t - r.stamp : r \in S}
<1>1. B \in SUBSET Nat /\ B # {}
  OBVIOUS
<1>2. PICK n \in B : \A m \in B : n <= m
  <2> HIDE DEF B
  <2> QED
    BY <1>1, SmallestNat
<1>3. PICK r \in S : n = t - r.stamp
  BY <1>2
<1>4. \A q \in S : q.stamp <= r.stamp
  <2>1. ASSUME NEW q \in S PROVE q.stamp <= r.stamp
    <3>1. t - q.stamp \in B
      OBVIOUS
    <3>2. n <= t - q.stamp
      BY <1>2, <3>1
    <3> QED
      BY <1>3, <3>2
  <2> QED
    BY <2>1
<1> QED
  BY <1>4 DEF LatestIn

LEMMA ShownType ==
  ASSUME NEW published, NEW s, NEW t \in Nat,
         \A r \in published : r.stamp \in Nat /\ r.value \in Nat
  PROVE  Shown(published, s, t) \in SUBSET (Nat \X Nat)
<1>1. ASSUME NEW p \in 0..t, Of(published, s, p, t) # {}
      PROVE  LatestIn(Of(published, s, p, t)).value \in Nat
  <2>1. \A r \in Of(published, s, p, t) : /\ r.stamp \in Nat /\ r.stamp <= t
                                          /\ r.value \in Nat
    BY DEF Of
  <2> QED
    BY <1>1, <2>1, LatestExists
<1> QED
  BY <1>1, ShownIs

\* What is published later is not shown.
LEMMA ShownStays ==
  ASSUME NEW R, NEW P, NEW s, NEW t,
         \A r : r.stamp <= t => (r \in R <=> r \in P)
  PROVE  Shown(R, s, t) = Shown(P, s, t)
<1>1. \A p : Of(R, s, p, t) = Of(P, s, p, t)
  BY DEF Of
<1> QED
  BY <1>1, ShownIs

LEMMA HistoryBegins == Init => History
<1> SUFFICES ASSUME Init PROVE History
  OBVIOUS
<1>1. RowsInOrder
  BY FS_EmptySet DEF Init, RowsInOrder
<1>2. SiteRemembers
  <2> DEFINE none == [s \in SeriesNames |-> {}]
  <2>1. none \in [SeriesNames -> SUBSET (Nat \X Nat)]
    OBVIOUS
  <2>2. \A s \in SeriesNames : Shown({}, s, 1) = {}
    BY ShownIs DEF Of
  <2>3. \A s \in SeriesNames : none[s] = {}
    OBVIOUS
  <2> HIDE DEF none
  <2>4. site = <<none>> /\ rows = {} /\ day = 1
    BY DEF Init, none
  <2>5. \A t \in 1..1 : t = 1
    OBVIOUS
  <2> QED
    BY <2>1, <2>2, <2>3, <2>4, <2>5 DEF SiteRemembers
<1>3. AnsweredInTime
  BY DEF Init, AnsweredInTime, Torn, Idle
<1> QED
  BY <1>1, <1>2, <1>3 DEF History

LEMMA TickRemembers == IInv /\ History /\ Tick => History'
<1> SUFFICES ASSUME IInv, History, Tick PROVE History'
  OBVIOUS
<1>1. /\ day \in Nat /\ day' = day + 1 /\ day >= 1 /\ PublicationLag \in Nat
      /\ RowsInOrder /\ SiteRemembers /\ AnsweredInTime
      /\ UNCHANGED <<content, recorder>>
  BY Bounds, PointInTimeAssumption DEF IInv, TypeOK, History, Tick, files
<1>2. \/ rows' = rows
      \/ \E r : /\ rows' = rows \cup {r} /\ r.stamp = day + 1
                /\ r.series \in SeriesNames /\ r.period \in Nat /\ r.value \in Nat
                /\ r.period <= r.stamp
                /\ r.series \in Daily => r.period + PublicationLag = r.stamp
                /\ r.value = Missing =>
                     \A q \in rows : q.series # r.series \/ q.period # r.period
  <2> DEFINE row(p) == [series |-> p.series, period |-> p.period, stamp |-> day + 1,
                        value |-> IF p.missing THEN Missing ELSE 10 * p.period + day + 1]
  <2>1. CASE UNCHANGED rows
    BY <2>1
  <2>2. ASSUME NEW p \in Publications, p.period <= day + 1,
               p.series \in Daily => p.period + PublicationLag = day + 1,
               p.missing => \A r \in rows : r.series # p.series \/ r.period # p.period
        PROVE  /\ row(p).stamp = day + 1
               /\ row(p).series \in SeriesNames /\ row(p).period \in Nat
               /\ row(p).value \in Nat /\ row(p).period <= row(p).stamp
               /\ row(p).series \in Daily => row(p).period + PublicationLag = row(p).stamp
               /\ row(p).value = Missing =>
                    \A q \in rows : q.series # row(p).series \/ q.period # row(p).period
    <3>1. p.period \in Nat /\ p.missing \in BOOLEAN
      BY RecordedAssumption
    <3>2. p.series \in SeriesNames
      BY DEF SeriesNames
    <3> QED
      BY <1>1, <2>2, <3>1, <3>2 DEF Missing
  <2>3. CASE ~ UNCHANGED rows
    <3>1. PICK p \in Publications :
            /\ p.period <= day + 1
            /\ p.series \in Daily => p.period + PublicationLag = day + 1
            /\ p.missing => \A r \in rows : r.series # p.series \/ r.period # p.period
            /\ rows' = rows \cup {row(p)}
      BY <2>3 DEF Tick
    <3> HIDE DEF row
    <3> QED
      BY <2>2, <3>1
  <2> QED
    BY <2>1, <2>3
<1>3. \A r \in rows : /\ r.stamp \in 1..day /\ r.series \in SeriesNames /\ r.period \in Nat
                      /\ r.value \in Nat /\ r.period <= r.stamp
                      /\ r.series \in Daily => r.period + PublicationLag = r.stamp
  BY <1>1 DEF RowsInOrder
<1>4. RowsInOrder'
  <2>1. CASE rows' = rows
    BY <1>1, <2>1 DEF RowsInOrder
  <2>2. ASSUME NEW r, rows' = rows \cup {r}, r.stamp = day + 1,
               r.series \in SeriesNames, r.period \in Nat, r.value \in Nat,
               r.period <= r.stamp,
               r.series \in Daily => r.period + PublicationLag = r.stamp,
               r.value = Missing =>
                 \A q \in rows : q.series # r.series \/ q.period # r.period
        PROVE  RowsInOrder'
    <3>1. IsFiniteSet(rows')
      BY <1>1, <2>2, FS_AddElement DEF RowsInOrder
    <3>2. \A q \in rows' :
            /\ q.series \in SeriesNames /\ q.period \in Nat /\ q.stamp \in 1..day'
            /\ q.value \in Nat /\ q.period <= q.stamp
            /\ q.series \in Daily => q.period + PublicationLag = q.stamp
      BY <1>1, <1>3, <2>2
    <3>3. \A o, q \in rows' : o.stamp = q.stamp => o = q
      BY <1>1, <1>3, <2>2 DEF RowsInOrder
    <3>4. \A o, q \in rows' :
            o.series = q.series /\ o.period = q.period /\ o.stamp < q.stamp
              => q.value # Missing
      BY <1>1, <1>3, <2>2 DEF RowsInOrder
    <3>5. SeriesNames' = SeriesNames
      BY DEF SeriesNames
    <3> QED
      BY <3>1, <3>2, <3>3, <3>4, <3>5 DEF RowsInOrder
  <2> QED
    BY <1>2, <2>1, <2>2
<1>5. \A r : r.stamp <= day => (r \in rows' <=> r \in rows)
  BY <1>1, <1>2
<1>6. SiteRemembers'
  <2> DEFINE new == [s \in SeriesNames |-> Shown(rows', s, day + 1)]
             P == [SeriesNames -> SUBSET (Nat \X Nat)]
  <2>1. \A r \in rows' : r.stamp \in Nat /\ r.value \in Nat
    BY <1>1, <1>4 DEF RowsInOrder
  <2>2. new \in P
    BY <1>1, <2>1, ShownType
  <2>3. site' = Append(site, new)
    BY DEF Tick
  <2>4. \A s \in SeriesNames : new[s] = Shown(rows', s, day + 1)
    OBVIOUS
  <2> HIDE DEF new, P
  <2>5. /\ site' \in Seq(P) /\ Len(site') = day + 1
        /\ \A t \in 1..day : site'[t] = site[t]
        /\ site'[day + 1] = new
    BY <1>1, <2>2, <2>3, AppendProperties DEF SiteRemembers, P
  <2>6. ASSUME NEW t \in 1..day, NEW s \in SeriesNames
        PROVE  site'[t][s] = Shown(rows', s, t)
    <3>1. \A r : r.stamp <= t => (r \in rows <=> r \in rows')
      <4>1. \A r \in rows' : r.stamp \in Nat
        BY <2>1
      <4>2. \A r \in rows : r.stamp \in Nat
        BY <1>3
      <4> QED
        BY <1>1, <1>5, <1>2, <4>1, <4>2
    <3>2. Shown(rows, s, t) = Shown(rows', s, t)
      BY <3>1, ShownStays
    <3>3. site[t][s] = Shown(rows, s, t)
      BY <1>1 DEF SiteRemembers
    <3> QED
      BY <2>5, <3>2, <3>3
  <2>7. \A t \in 1..(day + 1), s \in SeriesNames : site'[t][s] = Shown(rows', s, t)
    BY <1>1, <2>4, <2>5, <2>6
  <2>8. Shown(rows, 0, 0)' = Shown(rows', 0, 0) /\ SeriesNames' = SeriesNames
    BY DEF Shown, SeriesNames
  <2>9. \A s, t : Shown(rows, s, t)' = Shown(rows', s, t)
    BY DEF Shown
  <2> QED
    BY <1>1, <2>5, <2>7, <2>8, <2>9 DEF SiteRemembers, P
<1>7. AnsweredInTime'
  <2>1. \A k \in Keys, i \in Inodes : content[k][i] \in 0..MaxDay /\ content[k][i] <= day
    BY <1>1 DEF AnsweredInTime, IInv, TypeOK
  <2>2. \A p \in Recorders : recorder[p].answer \in 0..MaxDay /\ recorder[p].answer <= day
    BY <1>1 DEF AnsweredInTime, IInv, TypeOK, Programs
  <2> QED
    BY <1>1, <2>1, <2>2, Bounds DEF AnsweredInTime
<1> QED
  BY <1>4, <1>6, <1>7 DEF History

\* Where no day begins, the vendors show what they showed.
LEMMA VendorsWait ==
  ASSUME RowsInOrder, SiteRemembers, UNCHANGED world
  PROVE  RowsInOrder' /\ SiteRemembers'
<1>1. rows' = rows /\ site' = site /\ day' = day /\ SeriesNames' = SeriesNames
  BY DEF world, SeriesNames
<1>2. \A s, t : Shown(rows, s, t)' = Shown(rows, s, t)
  BY <1>1 DEF Shown
<1>3. RowsInOrder'
  BY <1>1 DEF RowsInOrder
<1> QED
  BY <1>1, <1>2, <1>3 DEF SiteRemembers

\* An answer is today's or one there was; a file holds an answer there was.
LEMMA AnsweredStill ==
  ASSUME IInv, AnsweredInTime, day' = day,
         \A q \in Recorders : \/ recorder'[q].answer = recorder[q].answer
                              \/ recorder'[q].answer = day
                              \/ recorder'[q].answer = 0,
         \A k \in Keys, i \in Inodes :
            \/ content'[k][i] = content[k][i]
            \/ content'[k][i] = Torn
            \/ \E q \in Recorders : content'[k][i] = recorder[q].answer
  PROVE  AnsweredInTime'
<1>1. day \in Nat
  BY Bounds DEF IInv, TypeOK
<1> QED
  BY <1>1 DEF AnsweredInTime, Torn

LEMMA AnswersKept ==
  ASSUME NEW r \in Programs
  PROVE  /\ Advanced(r).answer = r.answer /\ Failed(r).answer = r.answer
         /\ [Advanced(r) EXCEPT !.inode = 0].answer = r.answer
         /\ [Failed(r) EXCEPT !.inode = 0].answer = r.answer
<1> DEFINE todo == Tail(r.todo)
           again == IF Head(r.todo).window = 0 THEN todo ELSE <<TheDocument>>
           next == IF Head(r.todo).window > 0 /\ (todo = <<>> \/ Head(todo).window = 0)
                   THEN "manifest" ELSE IF todo = <<>> THEN "idle" ELSE "get"
           resigned == IF again = <<>> THEN "idle" ELSE "get"
<1>1. /\ Advanced(r) = [r EXCEPT !.todo = todo, !.pc = next]
      /\ Failed(r) = [r EXCEPT !.todo = again, !.pc = resigned]
  BY DEF Advanced, Failed
<1> HIDE DEF todo, again, next, resigned
<1>2. /\ Advanced(r).answer = r.answer
      /\ [Advanced(r) EXCEPT !.inode = 0].answer = r.answer
  BY <1>1 DEF Programs
<1>3. /\ Failed(r).answer = r.answer
      /\ [Failed(r) EXCEPT !.inode = 0].answer = r.answer
  BY <1>1 DEF Programs
<1> QED
  BY <1>2, <1>3

LEMMA RecorderRemembers ==
  ASSUME IInv, History, NEW p \in Recorders,
         \/ Begin(p) \/ Get(p) \/ Open(p) \/ Write(p) \/ Replace(p)
         \/ ManifestOpen(p) \/ ManifestWrite(p) \/ Die(p)
  PROVE  History'
<1>1. /\ TypeOK /\ RowsInOrder /\ SiteRemembers /\ AnsweredInTime
      /\ recorder \in [Recorders -> Programs]
      /\ content \in [Keys -> [Inodes -> 0..MaxDay]]
  BY DEF IInv, History, TypeOK
<1>2. recorder[p] \in Programs
  BY <1>1
<1>3. UNCHANGED world
  BY DEF Begin, Get, Open, Write, Replace, ManifestOpen, ManifestWrite, Die
<1>4. day' = day
  BY <1>3 DEF world
<1>5. ASSUME NEW r, Becomes(p, r),
             r.answer = recorder[p].answer \/ r.answer = day \/ r.answer = 0
      PROVE  \A q \in Recorders : \/ recorder'[q].answer = recorder[q].answer
                                  \/ recorder'[q].answer = day
                                  \/ recorder'[q].answer = 0
  BY <1>1, <1>5 DEF Becomes
<1>6. ASSUME UNCHANGED content, NEW r, Becomes(p, r),
             r.answer = recorder[p].answer \/ r.answer = day \/ r.answer = 0
      PROVE  AnsweredInTime'
  BY <1>1, <1>4, <1>5, <1>6, AnsweredStill
<1>7. CASE Begin(p)
  <2>1. [Idle EXCEPT !.pc = "get", !.window = day, !.todo = Requests(day)].answer = 0
    BY DEF Idle
  <2>2. AnsweredInTime'
    BY <1>6, <1>7, <2>1 DEF Begin, files
  <2> QED
    BY <1>1, <1>3, <2>2, VendorsWait DEF History
<1>8. CASE Get(p)
  <2>1. [recorder[p] EXCEPT !.pc = "open", !.answer = day].answer = day
    BY <1>2 DEF Programs
  <2>2. AnsweredInTime'
    BY <1>2, <1>6, <1>8, <2>1, AnswersKept DEF Get, files
  <2> QED
    BY <1>1, <1>3, <2>2, VendorsWait DEF History
<1>9. CASE Open(p)
  <2>1. PICK k, i : /\ content' = [content EXCEPT ![k][i] = Torn]
                    /\ Becomes(p, [recorder[p] EXCEPT !.pc = "write", !.inode = i])
    BY <1>9 DEF Open
  <2>2. [recorder[p] EXCEPT !.pc = "write", !.inode = i].answer = recorder[p].answer
    BY <1>2 DEF Programs
  <2>3. \A j \in Keys, n \in Inodes :
          content'[j][n] = content[j][n] \/ content'[j][n] = Torn
    BY <1>1, <2>1
  <2>4. AnsweredInTime'
    BY <1>1, <1>4, <1>5, <2>1, <2>2, <2>3, AnsweredStill
  <2> QED
    BY <1>1, <1>3, <2>4, VendorsWait DEF History
<1>10. CASE Write(p)
  <2>1. PICK k, i, d : /\ content' = [content EXCEPT ![k][i] = d]
                       /\ d \in {recorder[p].answer, Torn}
    BY <1>10 DEF Write
  <2>2. /\ Becomes(p, [recorder[p] EXCEPT !.pc = "replace"])
        /\ [recorder[p] EXCEPT !.pc = "replace"].answer = recorder[p].answer
    BY <1>2, <1>10 DEF Write, Programs
  <2>3. \A j \in Keys, n \in Inodes :
          content'[j][n] = content[j][n] \/ content'[j][n] \in {recorder[p].answer, Torn}
    BY <1>1, <2>1
  <2>4. AnsweredInTime'
    BY <1>1, <1>4, <1>5, <2>2, <2>3, AnsweredStill
  <2> QED
    BY <1>1, <1>3, <2>4, VendorsWait DEF History
<1>11. CASE Replace(p)
  <2>1. ASSUME NEW r \in {Failed(recorder[p]), Advanced(recorder[p])}
        PROVE  [r EXCEPT !.inode = 0].answer = recorder[p].answer
    <3>1. recorder[p] \in Programs
      BY <1>2
    <3> QED
      BY <3>1, AnswersKept
  <2>2. AnsweredInTime'
    BY <1>6, <1>11, <2>1 DEF Replace, files
  <2> QED
    BY <1>1, <1>3, <2>2, VendorsWait DEF History
<1>12. CASE ManifestOpen(p)
  <2>1. [recorder[p] EXCEPT !.pc = "manifest_write"].answer = recorder[p].answer
    BY <1>2 DEF Programs
  <2>2. AnsweredInTime'
    BY <1>6, <1>12, <2>1 DEF ManifestOpen, files
  <2> QED
    BY <1>1, <1>3, <2>2, VendorsWait DEF History
<1>13. CASE ManifestWrite(p)
  <2>1. [recorder[p] EXCEPT !.pc = "get"].answer = recorder[p].answer
    BY <1>2 DEF Programs
  <2>2. AnsweredInTime'
    BY <1>6, <1>13, <2>1 DEF ManifestWrite, files
  <2> QED
    BY <1>1, <1>3, <2>2, VendorsWait DEF History
<1>14. CASE Die(p)
  <2>1. Idle.answer = 0
    BY DEF Idle
  <2>2. AnsweredInTime'
    BY <1>6, <1>14, <2>1 DEF Die, files
  <2> QED
    BY <1>1, <1>3, <2>2, VendorsWait DEF History
<1> QED
  BY <1>7, <1>8, <1>9, <1>10, <1>11, <1>12, <1>13, <1>14

LEMMA NextRemembers == IInv /\ History /\ [Next]_vars => History'
<1> SUFFICES ASSUME IInv, History, [Next]_vars PROVE History'
  OBVIOUS
<1>1. CASE Tick
  BY <1>1, TickRemembers
<1>2. ASSUME NEW p \in Recorders,
             \/ Begin(p) \/ Get(p) \/ Open(p) \/ Write(p) \/ Replace(p)
             \/ ManifestOpen(p) \/ ManifestWrite(p) \/ Die(p)
      PROVE  History'
  BY <1>2, RecorderRemembers
<1>3. CASE UNCHANGED vars
  <2>1. UNCHANGED world /\ UNCHANGED <<content, recorder, day>>
    BY <1>3 DEF vars, world
  <2>2. AnsweredInTime'
    BY <2>1, AnsweredStill DEF History
  <2> QED
    BY <2>1, <2>2, VendorsWait DEF History
<1> QED
  BY <1>1, <1>2, <1>3 DEF Next

LEMMA AlwaysInOrder == Spec => [](IInv /\ History)
<1>1. Init => IInv /\ History
  BY Initially, HistoryBegins
<1>2. IInv /\ History /\ [Next]_vars => (IInv /\ History)'
  BY NextKeeps, NextRemembers
<1> QED
  BY <1>1, <1>2, PTL DEF Spec
-----------------------------------------------------------------------------
(* What a series knows at an instant is what the page showed.              *)

\* A row of the recording of day d, as usable some lag after it was published.
Dated(r, lag) ==
  [period |-> r.period, published |-> r.stamp + lag, value |-> r.value]
Vintages(s, d, lag) ==
  {Dated(r, lag) : r \in {q \in rows : q.series = s /\ q.stamp <= d /\ q.value # Missing}}

\* The row is the last one of its period that was published by day t.
LatestRow(r, s, t) ==
  /\ r \in rows /\ r.series = s /\ r.stamp <= t /\ r.value # Missing
  /\ \A q \in rows : q.series = s /\ q.period = r.period /\ q.stamp <= t => q.stamp <= r.stamp

LEMMA RowTypes ==
  ASSUME RowsInOrder, day \in Nat, NEW r \in rows
  PROVE  /\ r.period \in Nat /\ r.stamp \in Nat /\ r.stamp >= 1 /\ r.stamp <= day
         /\ r.value \in Nat /\ r.period <= r.stamp
         /\ r.series \in Daily => r.period + PublicationLag = r.stamp
BY DEF RowsInOrder

LEMMA VisibleAre ==
  ASSUME RowsInOrder, day \in Nat, NEW s, NEW d \in Int, NEW lag \in Nat, NEW t \in Int,
         t - lag <= d
  PROVE  /\ \A v \in visible_at(Vintages(s, d, lag), t) :
              \E r \in rows : LatestRow(r, s, t - lag) /\ v = Dated(r, lag)
         /\ \A r \in rows : LatestRow(r, s, t - lag) =>
              Dated(r, lag) \in visible_at(Vintages(s, d, lag), t)
<1> DEFINE V == Vintages(s, d, lag)
<1>1. \A r \in rows : /\ r.period \in Nat /\ r.stamp \in Nat /\ r.value \in Nat
                      /\ Dated(r, lag).period = r.period
                      /\ Dated(r, lag).published = r.stamp + lag
                      /\ Dated(r, lag).value = r.value
  BY RowTypes DEF Dated
<1>2. ASSUME NEW v \in V
      PROVE  \E r \in rows : /\ r.series = s /\ r.stamp <= d /\ r.value # Missing
                             /\ v = Dated(r, lag)
  BY DEF Vintages
<1>3. ASSUME NEW r \in rows, r.series = s, r.stamp <= d, r.value # Missing
      PROVE  Dated(r, lag) \in V
  BY <1>3 DEF Vintages
<1> HIDE DEF V
<1>4. \A r \in rows : (r.stamp + lag <= t) <=> (r.stamp <= t - lag)
  BY <1>1
<1>5. ASSUME NEW v \in visible_at(V, t)
      PROVE  \E r \in rows : LatestRow(r, s, t - lag) /\ v = Dated(r, lag)
  <2>1. /\ v \in V /\ v.published <= t
        /\ \A u \in V : u.period = v.period /\ u.published <= t => u.published <= v.published
    BY DEF visible_at
  <2>2. PICK r \in rows : /\ r.series = s /\ r.stamp <= d /\ r.value # Missing
                          /\ v = Dated(r, lag)
    BY <1>2, <2>1
  <2>3. r.stamp <= t - lag
    BY <1>1, <1>4, <2>1, <2>2
  <2>4. ASSUME NEW q \in rows, q.series = s, q.period = r.period, q.stamp <= t - lag,
               ~ (q.stamp <= r.stamp)
        PROVE  FALSE
    <3>1. q.value # Missing /\ q.stamp <= d
      BY <1>1, <2>2, <2>4 DEF RowsInOrder
    <3>2. Dated(q, lag) \in V
      BY <1>3, <2>4, <3>1
    <3>3. q.stamp + lag <= r.stamp + lag
      BY <1>1, <1>4, <2>1, <2>2, <2>4, <3>2
    <3> QED
      BY <1>1, <2>4, <3>3
  <2> QED
    BY <2>2, <2>3, <2>4 DEF LatestRow
<1>6. ASSUME NEW r \in rows, LatestRow(r, s, t - lag)
      PROVE  Dated(r, lag) \in visible_at(V, t)
  <2>1. r.stamp <= d
    BY <1>1, <1>6 DEF LatestRow
  <2>2. Dated(r, lag) \in V /\ Dated(r, lag).published <= t
    BY <1>1, <1>3, <1>4, <1>6, <2>1 DEF LatestRow
  <2>3. ASSUME NEW u \in V, u.period = Dated(r, lag).period, u.published <= t
        PROVE  u.published <= Dated(r, lag).published
    <3>1. PICK q \in rows : q.series = s /\ u = Dated(q, lag)
      BY <1>2
    <3>2. q.period = r.period /\ q.stamp <= t - lag
      BY <1>1, <1>4, <2>3, <3>1
    <3>3. q.stamp <= r.stamp
      BY <1>6, <3>1, <3>2 DEF LatestRow
    <3> QED
      BY <1>1, <3>1, <3>3
  <2> QED
    BY <2>2, <2>3 DEF visible_at
<1> QED
  BY <1>5, <1>6 DEF V

\* The figures of the page on day t are the latest rows of their periods.
LEMMA FiguresAre ==
  ASSUME RowsInOrder, day \in Nat, NEW s, NEW t \in Nat,
         NEW f
  PROVE  f \in {g \in Shown(rows, s, t) : g[2] # Missing} <=>
           \E r \in rows : LatestRow(r, s, t) /\ f = <<r.period, r.value>>
<1>1. \A r \in rows : /\ r.period \in Nat /\ r.stamp \in Nat /\ r.value \in Nat
                      /\ r.period <= r.stamp
  BY RowTypes
<1>2. ASSUME NEW p, Of(rows, s, p, t) # {}
      PROVE  /\ LatestIn(Of(rows, s, p, t)) \in Of(rows, s, p, t)
             /\ \A q \in Of(rows, s, p, t) : q.stamp <= LatestIn(Of(rows, s, p, t)).stamp
  <2>1. \A r \in Of(rows, s, p, t) : r.stamp \in Nat /\ r.stamp <= t
    BY <1>1 DEF Of
  <2> QED
    BY <1>2, <2>1, LatestExists
<1>3. ASSUME NEW p \in 0..t, Of(rows, s, p, t) # {},
             f = <<p, LatestIn(Of(rows, s, p, t)).value>>, f[2] # Missing
      PROVE  \E r \in rows : LatestRow(r, s, t) /\ f = <<r.period, r.value>>
  <2> DEFINE u == LatestIn(Of(rows, s, p, t))
  <2>1. /\ u \in Of(rows, s, p, t)
        /\ \A q \in Of(rows, s, p, t) : q.stamp <= u.stamp
    BY <1>2, <1>3
  <2>2. f = <<p, u.value>> /\ u.value # Missing
    BY <1>3
  <2> HIDE DEF u
  <2>3. /\ u \in rows /\ u.series = s /\ u.period = p /\ u.stamp <= t
        /\ \A q \in rows : q.series = s /\ q.period = p /\ q.stamp <= t => q.stamp <= u.stamp
    BY <2>1 DEF Of
  <2>4. LatestRow(u, s, t)
    BY <2>2, <2>3 DEF LatestRow
  <2> QED
    BY <2>2, <2>3, <2>4
<1>4. ASSUME NEW r \in rows, LatestRow(r, s, t), f = <<r.period, r.value>>
      PROVE  f \in {g \in Shown(rows, s, t) : g[2] # Missing}
  <2> DEFINE S == Of(rows, s, r.period, t)
  <2>1. r \in S /\ r.period \in 0..t
    BY <1>1, <1>4 DEF Of, LatestRow
  <2>2. LatestIn(S) \in rows /\ LatestIn(S).stamp = r.stamp
    <3>1. LatestIn(S) \in S /\ r.stamp <= LatestIn(S).stamp
      BY <1>2, <2>1
    <3>2. /\ LatestIn(S) \in rows /\ LatestIn(S).series = s
          /\ LatestIn(S).period = r.period /\ LatestIn(S).stamp <= t
      BY <3>1 DEF Of
    <3>3. LatestIn(S).stamp <= r.stamp
      BY <1>4, <3>2 DEF LatestRow
    <3> QED
      BY <1>1, <3>1, <3>2, <3>3
  <2>3. LatestIn(S) = r
    BY <2>2 DEF RowsInOrder
  <2>4. f = <<r.period, LatestIn(S).value>> /\ f[2] # Missing
    BY <1>4, <2>3 DEF LatestRow
  <2> QED
    BY <2>1, <2>4, ShownIs
<1> QED
  BY <1>3, <1>4, ShownIs

\* One row is the latest of its period at most.
LEMMA LatestIsOne ==
  ASSUME RowsInOrder, day \in Nat, NEW s, NEW t, NEW r, NEW q,
         LatestRow(r, s, t), LatestRow(q, s, t), q.period = r.period
  PROVE  q = r
<1>1. r \in rows /\ q \in rows /\ q.stamp <= r.stamp /\ r.stamp <= q.stamp
  BY DEF LatestRow
<1>2. q.stamp \in Nat /\ r.stamp \in Nat
  BY <1>1, RowTypes
<1> QED
  BY <1>1, <1>2 DEF RowsInOrder

\* Of the periods something is known of, one is the last.
LEMMA LastPeriodExists ==
  ASSUME RowsInOrder, day \in Nat, NEW s, NEW t \in Int, NEW o, LatestRow(o, s, t)
  PROVE  \E r \in rows : /\ LatestRow(r, s, t)
                         /\ \A q \in rows : LatestRow(q, s, t) => q.period <= r.period
<1> DEFINE S == {r \in rows : LatestRow(r, s, t)}
           B == {day - r.period : r \in S}
<1>1. \A r \in rows : r.period \in Nat /\ r.period <= day
  BY RowTypes
<1>2. B \in SUBSET Nat /\ B # {}
  BY <1>1 DEF LatestRow
<1>3. PICK n \in B : \A m \in B : n <= m
  <2> HIDE DEF B
  <2> QED
    BY <1>2, SmallestNat
<1>4. PICK r \in S : n = day - r.period
  BY <1>3
<1>5. ASSUME NEW q \in S PROVE q.period <= r.period
  <2>1. day - q.period \in B
    OBVIOUS
  <2>2. n <= day - q.period
    BY <1>3, <2>1
  <2> QED
    BY <1>1, <1>4, <2>2
<1> QED
  BY <1>4, <1>5

\* as_of answers with the newest figure of the page of that day, if any.
LEMMA AsOfIsNewest ==
  ASSUME RowsInOrder, day \in Nat, NEW s, NEW d \in Int, NEW lag \in Nat, NEW t \in Int,
         t - lag <= d
  PROVE  /\ t - lag \in Nat => Answer(as_of(Vintages(s, d, lag), t))
                                 = Newest(Shown(rows, s, t - lag))
         /\ t <= lag => as_of(Vintages(s, d, lag), t) = None
         /\ as_of(Vintages(s, d, lag), t) = None
              <=> Answer(as_of(Vintages(s, d, lag), t)) = <<>>
<1> DEFINE visible == visible_at(Vintages(s, d, lag), t)
           T == t - lag
           figures == {g \in Shown(rows, s, T) : g[2] # Missing}
<1>1. /\ \A v \in visible : \E r \in rows : LatestRow(r, s, T) /\ v = Dated(r, lag)
      /\ \A r \in rows : LatestRow(r, s, T) => Dated(r, lag) \in visible
  BY VisibleAre
<1>2. \A r : Dated(r, lag).period = r.period /\ Dated(r, lag).value = r.value
  BY DEF Dated
<1>3. as_of(Vintages(s, d, lag), t) =
        IF visible = {} THEN None
        ELSE CHOOSE v \in visible : \A u \in visible : u.period <= v.period
  BY DEF as_of
<1>4. T \in Nat => \A f : f \in figures <=>
                     \E r \in rows : LatestRow(r, s, T) /\ f = <<r.period, r.value>>
  BY FiguresAre
<1>5. Newest(Shown(rows, s, T)) =
        IF figures = {} THEN <<>>
        ELSE CHOOSE f \in figures : \A g \in figures : g[1] <= f[1]
  BY DEF Newest
<1>6. T \in Int
  OBVIOUS
<1> DEFINE answer == as_of(Vintages(s, d, lag), t)
           newest == Newest(Shown(rows, s, T))
<1> HIDE DEF visible, figures, T, answer, newest
<1>7. CASE \A r \in rows : ~ LatestRow(r, s, T)
  <2>1. visible = {}
    BY <1>1, <1>7
  <2>2. T \in Nat => figures = {}
    BY <1>4, <1>7
  <2> QED
    BY <1>3, <1>5, <2>1, <2>2 DEF Answer, answer, newest, T
<1>8. ASSUME NEW o \in rows, LatestRow(o, s, T)
      PROVE  /\ T \in Nat /\ T # 0 /\ answer # None /\ Answer(answer) # <<>>
             /\ Answer(answer) = newest
  <2>1. PICK r \in rows : /\ LatestRow(r, s, T)
                          /\ \A q \in rows : LatestRow(q, s, T) => q.period <= r.period
    BY <1>6, <1>8, LastPeriodExists
  <2>2. \A q \in rows : q.period \in Nat /\ q.stamp \in Nat /\ q.stamp >= 1
    BY RowTypes
  <2>3. T \in Nat /\ T # 0
    BY <1>6, <2>1, <2>2 DEF LatestRow
  <2>4. \A q \in rows : LatestRow(q, s, T) /\ q.period = r.period => q = r
    BY <2>1, LatestIsOne
  <2>5. answer = Dated(r, lag)
    <3>1. Dated(r, lag) \in visible /\ \A u \in visible : u.period <= Dated(r, lag).period
      BY <1>1, <1>2, <2>1
    <3>2. ASSUME NEW v \in visible, \A u \in visible : u.period <= v.period
          PROVE  v = Dated(r, lag)
      <4>1. PICK q \in rows : LatestRow(q, s, T) /\ v = Dated(q, lag)
        BY <1>1
      <4>2. q.period <= r.period /\ r.period <= q.period
        BY <1>2, <2>1, <3>1, <3>2, <4>1
      <4> QED
        BY <2>2, <2>4, <4>1, <4>2
    <3> QED
      BY <1>3, <3>1, <3>2 DEF answer
  <2>6. newest = <<r.period, r.value>>
    <3>1. /\ <<r.period, r.value>> \in figures
          /\ \A g \in figures : g[1] <= <<r.period, r.value>>[1]
      BY <1>4, <2>1, <2>3
    <3>2. ASSUME NEW f \in figures, \A g \in figures : g[1] <= f[1]
          PROVE  f = <<r.period, r.value>>
      <4>1. PICK q \in rows : LatestRow(q, s, T) /\ f = <<q.period, q.value>>
        BY <1>4, <2>3
      <4>2. q.period <= r.period /\ r.period <= q.period
        BY <2>1, <3>1, <3>2, <4>1
      <4> QED
        BY <2>2, <2>4, <4>1, <4>2
    <3> QED
      BY <1>5, <3>1, <3>2 DEF newest
  <2>7. answer # None
    <3>1. answer.period = r.period /\ None.period = -1
      BY <1>2, <2>5 DEF None
    <3> QED
      BY <2>2, <3>1
  <2> QED
    BY <1>2, <2>3, <2>5, <2>6, <2>7 DEF Answer
<1>9. t <= lag => ~ (T \in Nat /\ T # 0)
  BY DEF T
<1> QED
  BY <1>7, <1>8, <1>9 DEF answer, newest, T

LEMMA RecordedInTime ==
  ASSUME IInv, History
  PROVE  day \in Nat /\ RecordedOn \in 0..day /\ Len(site) = day
<1>1. day \in Nat /\ Len(site) = day
  BY Bounds DEF IInv, TypeOK, History, SiteRemembers
<1>2. /\ file[TheDocument] \in Inodes \cup {NoFile}
      /\ content \in [Keys -> [Inodes -> 0..MaxDay]] /\ TheDocument \in Keys
  BY KeysAre DEF IInv, TypeOK
<1>3. CASE Intact(TheDocument)
  <2>1. file[TheDocument] \in Inodes
    BY <1>2, <1>3 DEF Intact
  <2>2. /\ content[TheDocument][file[TheDocument]] \in 0..MaxDay
        /\ content[TheDocument][file[TheDocument]] <= day
    BY <1>2, <2>1 DEF History, AnsweredInTime
  <2> QED
    BY <1>1, <1>3, <2>2, Bounds DEF RecordedOn, Cached
<1>4. CASE ~ Intact(TheDocument)
  BY <1>1, <1>4 DEF RecordedOn, Cached, Torn
<1> QED
  BY <1>1, <1>3, <1>4

\* The vintages parse_observations and concept_series make of a recording.
LEMMA ObservationsAre ==
  ASSUME RowsInOrder, day \in Nat, NEW s, s \notin Filed
  PROVE  parse_observations(Replayed(s)) = Vintages(s, RecordedOn, 0)
<1>1. ASSUME NEW r \in rows, r.series = s
      PROVE  ParsedObservation(r) = Dated(r, 0)
  <2>1. /\ r.period \in Nat /\ r.stamp \in Nat /\ r.period <= r.stamp
        /\ r.series \in Daily => r.period + PublicationLag = r.stamp
    BY RowTypes
  <2>2. Lower(r.period, r.stamp) = r.period /\ r.stamp + 0 = r.stamp
    BY <2>1 DEF Lower
  <2>3. (IF r.series \in Daily THEN r.period + PublicationLag ELSE r.stamp) = r.stamp
    BY <2>1
  <2> QED
    BY <2>2, <2>3 DEF ParsedObservation, Dated
<1>2. {r \in Replayed(s) : r.value # Missing}
        = {q \in rows : q.series = s /\ q.stamp <= RecordedOn /\ q.value # Missing}
  BY DEF Replayed, Document
<1> DEFINE S == {q \in rows : q.series = s /\ q.stamp <= RecordedOn /\ q.value # Missing}
<1>3. \A r \in S : ParsedObservation(r) = Dated(r, 0)
  BY <1>1
<1>4. parse_observations(Replayed(s)) = {ParsedObservation(r) : r \in S}
  BY <1>2 DEF parse_observations
<1>5. Vintages(s, RecordedOn, 0) = {Dated(r, 0) : r \in S}
  BY DEF Vintages
<1> HIDE DEF S
<1> QED
  BY <1>3, <1>4, <1>5

LEMMA FactsAre ==
  ASSUME NEW s
  PROVE  concept_series(Document(RecordedOn), s) = Vintages(s, RecordedOn, PublicationLag)
<1>1. {r \in Document(RecordedOn) : r.series = s /\ r.value # Missing}
        = {q \in rows : q.series = s /\ q.stamp <= RecordedOn /\ q.value # Missing}
  BY DEF Document
<1>2. \A r : ParsedFact(r) = Dated(r, PublicationLag)
  BY DEF ParsedFact, Dated
<1> QED
  BY <1>1, <1>2 DEF concept_series, Vintages

\* Decisions on a recording are made on what the vendors' pages showed at the
\* time, whenever it was recorded: no look-ahead through a later release or
\* revision (PointInTimeSeries of pit.py, parse_observations and edgar.py).
THEOREM ReplaysAreLive == Spec => []ReplayMatchesLive
<1>1. IInv /\ History => ReplayMatchesLive
  <2> SUFFICES ASSUME IInv, History, NEW t \in 1..RecordedOn
      PROVE /\ \A s \in SeriesNames \ Filed :
                 Answer(as_of(parse_observations(Replayed(s)), t)) = Newest(site[t][s])
            /\ LET Known(i) == IF t <= PublicationLag THEN <<>>
                               ELSE Newest(site[t - PublicationLag][ConceptTags[i]])
                   known == {i \in DOMAIN ConceptTags : Known(i) # <<>>}
               IN Answer(get_fundamentals(Document(RecordedOn), t)) =
                    IF known = {} THEN <<>>
                    ELSE Known(CHOOSE i \in known : \A j \in known : i <= j)
    BY DEF ReplayMatchesLive
  <2> DEFINE D == RecordedOn
  <2>1. day \in Nat /\ D \in 0..day /\ RowsInOrder /\ SiteRemembers
    BY RecordedInTime DEF History
  <2>2. t \in Nat /\ t \in Int /\ D \in Int /\ t <= D /\ t \in 1..day /\ PublicationLag \in Nat
    BY <2>1, PointInTimeAssumption
  <2> HIDE DEF D
  <2>3. ASSUME NEW s \in SeriesNames \ Filed
        PROVE  Answer(as_of(parse_observations(Replayed(s)), t)) = Newest(site[t][s])
    <3>1. parse_observations(Replayed(s)) = Vintages(s, D, 0)
      BY <2>1, ObservationsAre DEF D
    <3>2. 0 \in Nat /\ t - 0 = t /\ t - 0 <= D
      BY <2>2
    <3>3. Answer(as_of(Vintages(s, D, 0), t)) = Newest(Shown(rows, s, t))
      BY <2>1, <2>2, <3>2, AsOfIsNewest
    <3> QED
      BY <2>1, <2>2, <3>1, <3>3 DEF SiteRemembers
  <2> DEFINE Known(i) == IF t <= PublicationLag THEN <<>>
                         ELSE Newest(site[t - PublicationLag][ConceptTags[i]])
             known == {i \in DOMAIN ConceptTags : Known(i) # <<>>}
             answer(i) == as_of(concept_series(Document(D), ConceptTags[i]), t)
             usable == {i \in DOMAIN ConceptTags : answer(i) # None}
  <2>4. ASSUME NEW i \in DOMAIN ConceptTags
        PROVE  Answer(answer(i)) = Known(i) /\ (answer(i) = None <=> Known(i) = <<>>)
    <3> DEFINE s == ConceptTags[i]
    <3>1. s \in SeriesNames
      BY PointInTimeAssumption DEF SeriesNames
    <3> HIDE DEF s
    <3>2. concept_series(Document(D), s) = Vintages(s, D, PublicationLag)
      BY FactsAre DEF D
    <3>3. t - PublicationLag <= D /\ t - PublicationLag \in Int
      BY <2>2
    <3> DEFINE a == as_of(Vintages(s, D, PublicationLag), t)
    <3>4. /\ t - PublicationLag \in Nat => Answer(a) = Newest(Shown(rows, s, t - PublicationLag))
          /\ t <= PublicationLag => a = None
          /\ a = None <=> Answer(a) = <<>>
      BY <2>1, <2>2, <3>3, AsOfIsNewest
    <3>5. answer(i) = a
      BY <3>2 DEF s
    <3> HIDE DEF a, answer
    <3>6. CASE t <= PublicationLag
      BY <3>4, <3>5, <3>6
    <3>7. CASE ~ (t <= PublicationLag)
      <4>1. t - PublicationLag \in Nat /\ t - PublicationLag \in 1..day
        BY <2>1, <2>2, <3>7
      <4>2. site[t - PublicationLag][s] = Shown(rows, s, t - PublicationLag)
        BY <2>1, <3>1, <4>1 DEF SiteRemembers
      <4>3. Known(i) = Newest(site[t - PublicationLag][s])
        BY <3>7 DEF s
      <4> HIDE DEF Known
      <4> QED
        BY <3>4, <3>5, <4>1, <4>2, <4>3
    <3> QED
      BY <3>6, <3>7
  <2>5. usable = known
    <3> HIDE DEF answer, Known
    <3> QED
      BY <2>4
  <2>6. get_fundamentals(Document(D), t) =
          IF usable = {} THEN None
          ELSE answer(CHOOSE i \in usable : \A j \in usable : i <= j)
    BY DEF get_fundamentals
  <2>7. known # {} => (CHOOSE i \in known : \A j \in known : i <= j) \in known
    <3>1. known \in SUBSET Nat
      BY PointInTimeAssumption
    <3> HIDE DEF known
    <3> QED
      BY <3>1, SmallestNat
  <2>8. known \subseteq DOMAIN ConceptTags
    OBVIOUS
  <2> DEFINE first == CHOOSE i \in known : \A j \in known : i <= j
  <2> HIDE DEF known, usable, answer, Known
  <2>9. Answer(get_fundamentals(Document(D), t)) = IF known = {} THEN <<>> ELSE Known(first)
    <3>1. CASE known = {}
      BY <2>5, <2>6, <3>1 DEF Answer
    <3>2. CASE known # {}
      <4>1. get_fundamentals(Document(D), t) = answer(first)
        BY <2>5, <2>6, <3>2
      <4>2. first \in DOMAIN ConceptTags
        BY <2>7, <2>8, <3>2
      <4> HIDE DEF first
      <4> QED
        BY <2>4, <3>2, <4>1, <4>2
    <3> QED
      BY <3>1, <3>2
  <2> QED
    BY <2>3, <2>9 DEF known, Known, D, first
<1> QED
  BY <1>1, AlwaysInOrder, PTL
-----------------------------------------------------------------------------
(* Counting the places of a series.                                        *)

Later(S, v) == {u \in S : u.period > v.period}
OnePerPeriod(S) ==
  /\ IsFiniteSet(S) /\ \A v \in S : v.period \in Nat
  /\ \A u, v \in S : u.period = v.period => u = v

\* A later period has fewer after it.
LEMMA LaterIsFewer ==
  ASSUME NEW S, OnePerPeriod(S), NEW u \in S, NEW v \in S, u.period > v.period
  PROVE  /\ Cardinality(Later(S, u)) \in Nat /\ Cardinality(Later(S, v)) \in Nat
         /\ Cardinality(Later(S, u)) < Cardinality(Later(S, v))
<1> DEFINE U == Later(S, u)
           V == Later(S, v)
<1>1. /\ U \in SUBSET S /\ V \in SUBSET S /\ U \in SUBSET V
      /\ u \in V /\ u \notin U
  BY DEF Later, OnePerPeriod
<1> HIDE DEF U, V
<1>2. IsFiniteSet(V)
  BY <1>1, FS_Subset DEF OnePerPeriod
<1>3. IsFiniteSet(U) /\ Cardinality(U) <= Cardinality(V) /\ (Cardinality(V) = Cardinality(U) => V = U)
  BY <1>1, <1>2, FS_Subset
<1>4. Cardinality(U) \in Nat /\ Cardinality(V) \in Nat
  BY <1>2, <1>3, FS_CardinalityType
<1> QED
  BY <1>1, <1>3, <1>4 DEF U, V

\* Each place in the series is somebody's, and one's only.
LEMMA PlacesAreTaken ==
  ASSUME NEW S, OnePerPeriod(S), NEW k \in Nat, k < Cardinality(S)
  PROVE  /\ \E v \in S : Cardinality(Later(S, v)) = k
         /\ \A u, v \in S : Cardinality(Later(S, u)) = k /\ Cardinality(Later(S, v)) = k => u = v
<1> DEFINE n == Cardinality(S)
           place == [v \in S |-> Cardinality(Later(S, v))]
<1>1. IsFiniteSet(S) /\ n \in Nat
  BY FS_CardinalityType DEF OnePerPeriod
<1>2. ASSUME NEW v \in S PROVE Cardinality(Later(S, v)) \in 0..(n - 1)
  <2>1. Later(S, v) \in SUBSET S /\ v \notin Later(S, v)
    BY DEF Later, OnePerPeriod
  <2> DEFINE L == Later(S, v)
  <2> HIDE DEF L, n
  <2>2. IsFiniteSet(L) /\ Cardinality(L) <= Cardinality(S) /\ (Cardinality(S) = Cardinality(L) => S = L)
    BY <1>1, <2>1, FS_Subset DEF L
  <2>3. Cardinality(L) \in Nat
    BY <2>2, FS_CardinalityType
  <2>4. S # L
    BY <2>1 DEF L
  <2> QED
    BY <1>1, <2>2, <2>3, <2>4 DEF n, L
<1>3. \A u, v \in S : Cardinality(Later(S, u)) = Cardinality(Later(S, v)) => u = v
  <2>1. ASSUME NEW u \in S, NEW v \in S, Cardinality(Later(S, u)) = Cardinality(Later(S, v)), u # v
        PROVE  FALSE
    <3>1. u.period \in Nat /\ v.period \in Nat /\ u.period # v.period
      BY <2>1 DEF OnePerPeriod
    <3>2. u.period > v.period \/ v.period > u.period
      BY <3>1
    <3> QED
      BY <2>1, <3>2, LaterIsFewer
  <2> QED
    BY <2>1
<1>4. place \in Injection(S, 0..(n - 1))
  BY <1>2, <1>3 DEF Injection, IsInjective
<1>5. IsFiniteSet(0..(n - 1)) /\ Cardinality(0..(n - 1)) = n
  <2>1. 0 \in Int /\ n - 1 \in Int
    BY <1>1
  <2> HIDE DEF n
  <2>2. Cardinality(0..(n - 1)) = IF 0 > n - 1 THEN 0 ELSE n - 1 - 0 + 1
    BY <2>1, FS_Interval
  <2> QED
    BY <1>1, <2>1, <2>2, FS_Interval
<1>6. place \in Surjection(S, 0..(n - 1))
  <2> HIDE DEF place
  <2>1. Cardinality(S) = Cardinality(0..(n - 1))
    BY <1>5
  <2> HIDE DEF n
  <2> QED
    BY <1>4, <1>5, <2>1, FS_Injection
<1>7. k \in 0..(n - 1)
  BY <1>1
<1>8. \E v \in S : place[v] = k
  BY <1>6, <1>7 DEF Surjection
<1> QED
  BY <1>3, <1>8

\* The periods from one to the last are those with a later figure, one for each
\* place between them, and those without a figure.
Unpublished(S, a, b) == {p \in a..b : \A u \in S : u.period # p}

LEMMA PlacesArePeriods ==
  ASSUME NEW S, OnePerPeriod(S), NEW last \in S, NEW first \in S,
         \A u \in S : u.period <= last.period
  PROVE  last.period - first.period =
           Cardinality(Later(S, first))
             + Cardinality(Unpublished(S, first.period, last.period))
<1> DEFINE L == Later(S, first)
           a == first.period
           b == last.period
           F == {u.period : u \in L}
           G == Unpublished(S, a, b)
           at == [u \in L |-> u.period]
<1>1. a \in Nat /\ b \in Nat /\ a <= b
  BY DEF OnePerPeriod
<1>2. L \in SUBSET S
  BY DEF Later
<1>3. \A u \in L : u.period \in (a + 1)..b
  BY <1>1 DEF Later, OnePerPeriod
<1>4. \A p \in (a + 1)..b : p \in F \/ p \in G
  <2> SUFFICES ASSUME NEW p \in (a + 1)..b, p \notin G PROVE p \in F
    OBVIOUS
  <2>1. PICK u \in S : u.period = p
    BY <1>1 DEF Unpublished
  <2>2. u \in L
    BY <1>1, <2>1 DEF Later
  <2> HIDE DEF L
  <2> QED
    BY <2>1, <2>2
<1>5. \A p \in G : p \in (a + 1)..b /\ p \notin F
  <2> SUFFICES ASSUME NEW p \in G PROVE p \in (a + 1)..b /\ p \notin F
    OBVIOUS
  <2>1. p \in a..b /\ \A u \in S : u.period # p
    BY DEF Unpublished
  <2>2. p # a
    BY <2>1
  <2> HIDE DEF L
  <2> QED
    BY <1>1, <1>2, <2>1, <2>2
<1>6. \A u, v \in L : u.period = v.period => u = v
  BY <1>2 DEF OnePerPeriod
<1>7. IsFiniteSet(L)
  BY <1>2, FS_Subset DEF OnePerPeriod
<1> HIDE DEF L, G, a, b
<1>8. Cardinality(F) = Cardinality(L)
  <2>1. at \in Bijection(L, F)
    BY <1>6 DEF Bijection, Injection, IsInjective, Surjection
  <2>2. ExistsBijection(L, F)
    <3> HIDE DEF at, F
    <3> QED
      BY <2>1 DEF ExistsBijection
  <2> HIDE DEF F
  <2> QED
    BY <1>7, <2>2, FS_Bijection
<1>9. F \cup G = (a + 1)..b /\ F \cap G = {}
  BY <1>3, <1>4, <1>5
<1>10. Cardinality((a + 1)..b) = b - a /\ IsFiniteSet((a + 1)..b)
  <2>1. a + 1 \in Int /\ b \in Int
    BY <1>1
  <2>2. /\ IsFiniteSet((a + 1)..b)
        /\ Cardinality((a + 1)..b) = IF a + 1 > b THEN 0 ELSE b - (a + 1) + 1
    BY <2>1, FS_Interval
  <2> QED
    BY <1>1, <2>2
<1> HIDE DEF F
<1>11. IsFiniteSet(F) /\ IsFiniteSet(G)
  <2>1. F \in SUBSET ((a + 1)..b) /\ G \in SUBSET ((a + 1)..b)
    BY <1>9
  <2> QED
    BY <1>10, <2>1, FS_Subset
<1>12. Cardinality(F \cup G) = Cardinality(F) + Cardinality(G)
  <2>1. Cardinality(F \cup G) = Cardinality(F) + Cardinality(G) - Cardinality(F \cap G)
    BY <1>11, FS_Union
  <2>2. Cardinality(F \cap G) = 0
    BY <1>9, FS_EmptySet
  <2> QED
    BY <1>11, <2>1, <2>2, FS_CardinalityType
<1>13. b - a = Cardinality(L) + Cardinality(G)
  BY <1>8, <1>9, <1>10, <1>12
<1> QED
  BY <1>13 DEF L, G, a, b

\* What a series knows at an instant has one vintage of a period.
LEMMA VisibleInOrder ==
  ASSUME RowsInOrder, day \in Nat, NEW s, NEW d \in Int, NEW t \in Int, t <= d
  PROVE  OnePerPeriod(visible_at(Vintages(s, d, 0), t))
<1> DEFINE S == visible_at(Vintages(s, d, 0), t)
           L == {r \in rows : LatestRow(r, s, t)}
           of == [r \in L |-> Dated(r, 0)]
<1>1. 0 \in Nat /\ t - 0 = t /\ t - 0 <= d
  OBVIOUS
<1>2. /\ \A v \in S : \E r \in rows : LatestRow(r, s, t) /\ v = Dated(r, 0)
      /\ \A r \in rows : LatestRow(r, s, t) => Dated(r, 0) \in S
  BY <1>1, VisibleAre
<1> HIDE DEF S
<1>3. of \in Surjection(L, S)
  BY <1>2 DEF Surjection
<1>4. IsFiniteSet(L)
  <2>1. L \in SUBSET rows
    OBVIOUS
  <2> HIDE DEF L
  <2> QED
    BY <2>1, FS_Subset DEF RowsInOrder
<1>5. IsFiniteSet(S)
  <2> HIDE DEF of, L
  <2> QED
    BY <1>3, <1>4, FS_Surjection
<1>6. \A v \in S : v.period \in Nat
  BY <1>2, RowTypes DEF Dated
<1>7. ASSUME NEW u \in S, NEW v \in S, u.period = v.period PROVE u = v
  <2>1. PICK r \in rows : LatestRow(r, s, t) /\ u = Dated(r, 0)
    BY <1>2
  <2>2. PICK q \in rows : LatestRow(q, s, t) /\ v = Dated(q, 0)
    BY <1>2
  <2>3. q.period = r.period
    BY <1>7, <2>1, <2>2 DEF Dated
  <2>4. q = r
    BY <2>1, <2>2, <2>3, LatestIsOne
  <2> QED
    BY <2>1, <2>2, <2>4
<1> QED
  BY <1>5, <1>6, <1>7 DEF OnePerPeriod, S

\* The two figures a year-over-year change divides stood on the page of that
\* day, and are a year apart and the periods without a figure between them
\* (year_over_year_change counts places, fred.py:216): whatever was published,
\* revised, left blank or late, that is exactly how long the "year" is.
THEOREM YearsAreCounted == Spec => []YearOverYearCountsPositions
<1>1. IInv /\ History => YearOverYearCountsPositions
  <2> SUFFICES ASSUME IInv, History, NEW t \in 1..RecordedOn, NEW year \in {1, 2},
                      NEW s \in SeriesNames \ Filed,
                      year_over_year(parse_observations(Replayed(s)), t, year) # <<>>
      PROVE LET pair == year_over_year(parse_observations(Replayed(s)), t, year)
                shown == Figures(t, s)
            IN /\ {Answer(pair[1]), Answer(pair[2])} \subseteq shown
               /\ \A i \in 1..2 :
                    pair[i] = latest_for_period(parse_observations(Replayed(s)),
                                                pair[i].period, t)
               /\ pair[1].period - pair[2].period = year +
                    Cardinality({p \in pair[2].period..pair[1].period :
                                   \A f \in shown : f[1] # p})
    BY DEF YearOverYearCountsPositions
  <2> DEFINE D == RecordedOn
             V == Vintages(s, D, 0)
             S == visible_at(V, t)
             pair == year_over_year(parse_observations(Replayed(s)), t, year)
             shown == Figures(t, s)
             Rank(v) == Cardinality({u \in S : u.period > v.period})
  <2>1. day \in Nat /\ D \in 0..day /\ RowsInOrder /\ SiteRemembers
    BY RecordedInTime DEF History
  <2>2. t \in Nat /\ t \in Int /\ D \in Int /\ t <= D /\ t \in 1..day /\ year \in Nat
        /\ 0 \in Nat /\ t - 0 = t /\ t - 0 <= D
    BY <2>1
  <2>3. parse_observations(Replayed(s)) = V
    BY <2>1, ObservationsAre
  <2> HIDE DEF D
  <2>4. OnePerPeriod(S)
    BY <2>1, <2>2, VisibleInOrder
  <2>5. /\ \A v \in S : \E r \in rows : LatestRow(r, s, t) /\ v = Dated(r, 0)
        /\ \A r \in rows : LatestRow(r, s, t) => Dated(r, 0) \in S
    BY <2>1, <2>2, VisibleAre
  <2>6. \A f : f \in shown <=> \E r \in rows : LatestRow(r, s, t) /\ f = <<r.period, r.value>>
    <3>1. site[t][s] = Shown(rows, s, t)
      BY <2>1, <2>2 DEF SiteRemembers
    <3> QED
      BY <2>1, <2>2, <3>1, FiguresAre DEF Figures
  <2>7. pair = IF Cardinality(S) <= year THEN <<>>
               ELSE << CHOOSE v \in S : Rank(v) = 0, CHOOSE v \in S : Rank(v) = year >>
    BY <2>3 DEF year_over_year
  <2>8. \A v : Rank(v) = Cardinality(Later(S, v))
    BY DEF Later
  <2>9. \A v \in S : latest_for_period(V, v.period, t) = v
    <3>1. ASSUME NEW v \in S
          PROVE  {u \in visible_at(V, t) : u.period = v.period} = {v}
      BY <2>4 DEF OnePerPeriod
    <3> QED
      BY <3>1 DEF latest_for_period
  <2> HIDE DEF S, V
  <2>10. ~ (Cardinality(S) <= year)
    BY <2>7
  <2>11. Cardinality(S) \in Nat /\ year < Cardinality(S) /\ 0 < Cardinality(S)
    BY <2>2, <2>4, <2>10, FS_CardinalityType DEF OnePerPeriod
  <2> HIDE DEF Rank
  <2>12. /\ pair[1] \in S /\ Cardinality(Later(S, pair[1])) = 0
         /\ pair[2] \in S /\ Cardinality(Later(S, pair[2])) = year
    <3>1. \E v \in S : Rank(v) = 0
      BY <2>2, <2>4, <2>8, <2>11, PlacesAreTaken
    <3>2. \E v \in S : Rank(v) = year
      BY <2>2, <2>4, <2>8, <2>11, PlacesAreTaken
    <3> HIDE DEF pair
    <3>3. /\ pair[1] = CHOOSE v \in S : Rank(v) = 0
          /\ pair[2] = CHOOSE v \in S : Rank(v) = year
      BY <2>7, <2>10
    <3>4. Rank(pair[1]) = 0 /\ pair[1] \in S
      BY <3>1, <3>3
    <3>5. Rank(pair[2]) = year /\ pair[2] \in S
      BY <3>2, <3>3
    <3> QED
      BY <2>8, <3>4, <3>5
  <2> HIDE DEF pair, shown
  <2>13. \A v \in S : Answer(v) \in shown
    <3> SUFFICES ASSUME NEW v \in S PROVE Answer(v) \in shown
      OBVIOUS
    <3>1. PICK r \in rows : LatestRow(r, s, t) /\ v = Dated(r, 0)
      BY <2>5
    <3>2. v.period = r.period /\ v.value = r.value
      BY <3>1 DEF Dated
    <3>3. v.period \in Nat
      BY <2>4 DEF OnePerPeriod
    <3>4. v # None
      BY <3>3 DEF None
    <3> QED
      BY <2>6, <3>1, <3>2, <3>4 DEF Answer
  <2>14. \A u \in S : u.period <= pair[1].period
    <3> SUFFICES ASSUME NEW u \in S, u.period > pair[1].period PROVE FALSE
      BY <2>4, <2>12 DEF OnePerPeriod
    <3>1. Cardinality(Later(S, u)) \in Nat /\ Cardinality(Later(S, u)) < Cardinality(Later(S, pair[1]))
      BY <2>4, <2>12, LaterIsFewer
    <3> QED
      BY <2>12, <3>1
  <2>15. \A p : (\A u \in S : u.period # p) <=> \A f \in shown : f[1] # p
    <3>1. ASSUME NEW p, NEW f \in shown, f[1] = p
          PROVE  \E u \in S : u.period = p
      <4>1. PICK r \in rows : LatestRow(r, s, t) /\ f = <<r.period, r.value>>
        BY <2>6
      <4>2. Dated(r, 0) \in S /\ Dated(r, 0).period = p
        BY <2>5, <3>1, <4>1 DEF Dated
      <4> QED
        BY <4>2
    <3>2. ASSUME NEW p, NEW u \in S, u.period = p
          PROVE  \E f \in shown : f[1] = p
      <4>1. u # None
        BY <2>4 DEF OnePerPeriod, None
      <4> QED
        BY <2>13, <3>2, <4>1 DEF Answer
    <3> QED
      BY <3>1, <3>2
  <2> DEFINE a == pair[2].period
             b == pair[1].period
  <2>16. Unpublished(S, a, b) = {p \in a..b : \A f \in shown : f[1] # p}
    <3> HIDE DEF a, b
    <3> QED
      BY <2>15 DEF Unpublished
  <2>17. b - a = year + Cardinality(Unpublished(S, a, b))
    BY <2>4, <2>12, <2>14, PlacesArePeriods
  <2>18. b - a = year + Cardinality({p \in a..b : \A f \in shown : f[1] # p})
    BY <2>16, <2>17
  <2> QED
    BY <2>3, <2>9, <2>12, <2>13, <2>18 DEF pair, shown
<1> QED
  BY <1>1, AlwaysInOrder, PTL
=============================================================================
