-------------------------- MODULE FsStorageProofs ---------------------------
(***************************************************************************)
(* Proofs about FsStorage when Writes and Deletes do not overlap each      *)
(* other: the file is an object with conditional writes.  Reads overlap    *)
(* anything.                                                               *)
(***************************************************************************)
EXTENDS FsStorage, FiniteSetTheorems, SequenceTheorems, TLAPS

-----------------------------------------------------------------------------
(***************************************************************************)
(* Contents.                                                               *)
(***************************************************************************)

(* Content t begins with content s. *)
Begins(s, t) ==
  /\ Len(s) <= Len(t)
  /\ \A p \in 1 .. Len(s) : s[p] = t[p]

(* An appended chunk is the last one. *)
LEMMA Appended ==
  ASSUME NEW S, NEW s \in Seq(S), NEW x \in S
  PROVE  /\ Append(s, x) \in Seq(S)
         /\ Len(Append(s, x)) = Len(s) + 1
         /\ Append(s, x)[Len(s) + 1] = x
         /\ \A p \in 1 .. Len(s) : Append(s, x)[p] = s[p]
         /\ Begins(s, Append(s, x))
BY DEF Begins

(* Contents of one length that begin alike are equal. *)
LEMMA SameContent ==
  ASSUME NEW S, NEW s \in Seq(S), NEW t \in Seq(S),
         Begins(s, t), Len(t) <= Len(s)
  PROVE  s = t
BY DEF Begins

(* A chunk written at the end of a file is appended to it. *)
LEMMA WriteAtEnd ==
  ASSUME NEW S, NEW s \in Seq(S), NEW x \in S
  PROVE  WriteAt(s, Len(s) + 1, x) = Append(s, x)
<1>1. Len(s) \in Nat
  OBVIOUS
<1>2. WriteAt(s, Len(s) + 1, x)
        = [j \in 1 .. Len(s) + 1 |-> IF j = Len(s) + 1 THEN x ELSE s[j]]
  BY <1>1 DEF WriteAt
<1>3. Append(s, x) = [j \in 1 .. Len(s) + 1 |-> IF j = Len(s) + 1 THEN x ELSE s[j]]
  <2>1. Append(s, x) \in [1 .. Len(s) + 1 -> S]
    BY Appended, LenProperties
  <2>2. \A j \in 1 .. Len(s) + 1 :
          Append(s, x)[j] = IF j = Len(s) + 1 THEN x ELSE s[j]
    BY <1>1, Appended
  <2> QED BY <2>1, <2>2
<1> QED BY <1>2, <1>3

(* What begins with a content has it as a prefix. *)
LEMMA BeginsIsPrefix ==
  ASSUME NEW S, NEW s \in Seq(S), NEW t \in Seq(S), Begins(s, t)
  PROVE  IsPrefix(s, t)
<1>1. SubSeq(s, 1, Len(s)) = SubSeq(t, 1, Len(s))
  BY DEF Begins
<1> QED BY <1>1 DEF Begins, IsPrefix

-----------------------------------------------------------------------------
(***************************************************************************)
(* The inductive invariant.  A Write that has passed its check keeps the   *)
(* name and the file as they were, until it truncates the file; what it    *)
(* has written from then on is the beginning of its data; and a Read that  *)
(* no Write or Delete overlaps holds the beginning of the file.            *)
(***************************************************************************)

(* Writes do not overlap each other. *)
OneWriter == \A b, c \in Clients : Writing(b) /\ Writing(c) => b = c

(* No Write has truncated the file and is filling it. *)
NoneFills == \A b \in Clients : client[b].pc # "chunk"

ReaderOK(c) ==
  LET r == client[c] IN
  /\ r.pc \in {"idle", "open"} => r.data = Absent
  /\ r.pc \in {"idle", "open", "read", "held"} => r.etag = Absent
  /\ Reading(c) /\ c \notin overlap => NoneFills
  /\ r.pc = "read" =>
       /\ r.ino \in Inodes /\ disk[r.ino] # Absent
       /\ r.data # Absent /\ r.at = Len(r.data) + 1
       /\ c \notin overlap => r.ino = name /\ Begins(r.data, disk[name])

WriterOK(c) ==
  LET r == client[c] IN
  /\ Writing(c) =>
       /\ r.data # Absent
       /\ r.etag # Absent => Begins(r.etag, r.data)
  /\ r.pc \in {"create", "mkdir"} /\ r.etag # Absent
       => name # Absent /\ disk[name] = r.etag
  /\ r.pc = "chunk" =>
       /\ name # Absent /\ r.ino = name
       /\ Begins(disk[name], r.data) /\ r.at = Len(disk[name]) + 1

(* Files are filled from the front: they have no holes. *)
NoHoles == \A i \in Inodes : disk[i] # Absent => disk[i] \in Seq(Chunks)

FsInv ==
  /\ TypeOK
  /\ NoHoles
  /\ OneWriter
  /\ \A c \in Clients : ReaderOK(c) /\ WriterOK(c)

(* The storage starts with no file or with one. *)
LEMMA FsInit ==
  ASSUME Init
  PROVE  FsInv
<1> USE ConstantsAssumption
<1>1. NoCall \in Call /\ NoCall.pc = "idle" /\ NoCall.data = Absent /\ NoCall.etag = Absent
  BY DEF NoCall, Call
<1>2. \A c \in Clients : client[c] = NoCall
  BY DEF Init
<1>3. OneWriter /\ \A c \in Clients : ReaderOK(c) /\ WriterOK(c)
  BY <1>1, <1>2 DEF OneWriter, ReaderOK, WriterOK, Reading, Writing
<1>4. client \in [Clients -> Call] /\ overlap \in SUBSET Clients
  BY <1>1 DEF Init
<1>5. CASE /\ dir \in BOOLEAN /\ name = Absent
           /\ disk = [i \in Inodes |-> Absent] /\ unused = Chunks
  BY <1>3, <1>4, <1>5 DEF FsInv, TypeOK, NoHoles
<1>6. ASSUME dir = TRUE, NEW i \in Inodes, NEW x \in Chunks, name = i,
             disk = [j \in Inodes |-> IF j = i THEN <<x>> ELSE Absent],
             unused = Chunks \ {x}
      PROVE  FsInv
  <2>1. <<x>> \in Seq(Chunks) /\ <<x>> \in Seq(Chunks \cup {Hole})
    OBVIOUS
  <2>2. TypeOK
    BY <1>4, <1>6, <2>1 DEF TypeOK
  <2>3. NoHoles
    BY <1>6, <2>1 DEF NoHoles
  <2> QED BY <1>3, <2>2, <2>3 DEF FsInv
<1> QED BY <1>5, <1>6 DEF Init

(* What the invariant says of the call of one client. *)
LEMMA CallType ==
  ASSUME FsInv, NEW c \in Clients
  PROVE  /\ client \in [Clients -> Call] /\ client[c] \in Call
         /\ client[c].data # Absent => client[c].data \in Seq(Chunks)
         /\ client[c].etag # Absent => client[c].etag \in Seq(Chunks)
         /\ name # Absent =>
              name \in Inodes /\ disk[name] # Absent /\ disk[name] \in Seq(Chunks)
BY DEF FsInv, TypeOK, NoHoles, Call

(* A call that ends or begins has the shape of one. *)
LEMMA NoCallType ==
  /\ NoCall \in Call /\ NoCall.pc = "idle"
  /\ NoCall.data = Absent /\ NoCall.etag = Absent
BY DEF NoCall, Call

(* A step of one client that changes no file. *)
LEMMA OneCall ==
  ASSUME FsInv, NEW c \in Clients, NEW r \in Call,
         client' = [client EXCEPT ![c] = r],
         UNCHANGED <<name, disk>>, dir' \in BOOLEAN, dir => dir',
         unused' \in SUBSET Chunks,
         overlap' \in SUBSET Clients, overlap' \ {c} = overlap \ {c},
         r.pc # "chunk",
         r.pc \in {"stat", "create", "mkdir"} =>
           Writing(c) \/ \A b \in Clients : ~Writing(b),
         ReaderOK(c)', WriterOK(c)'
  PROVE  FsInv'
<1>1. client \in [Clients -> Call] /\ client' \in [Clients -> Call]
  BY CallType
<1>2. client'[c] = r /\ \A b \in Clients \ {c} : client'[b] = client[b]
  BY <1>1
<1>3. TypeOK' /\ NoHoles'
  BY <1>1 DEF FsInv, TypeOK, NoHoles
<1>4. OneWriter'
  BY <1>2 DEF FsInv, OneWriter, Writing
<1>5. NoneFills => NoneFills'
  BY <1>2 DEF NoneFills
<1>6. ASSUME NEW b \in Clients \ {c} PROVE ReaderOK(b)' /\ WriterOK(b)'
  <2>1. ReaderOK(b) /\ WriterOK(b) /\ client'[b] = client[b]
        /\ (b \in overlap' <=> b \in overlap)
    BY <1>2, <1>6 DEF FsInv
  <2> QED BY <1>5, <2>1 DEF ReaderOK, WriterOK, Reading, Writing
<1> QED BY <1>3, <1>4, <1>6 DEF FsInv

(* The system calls of a Read preserve the invariant. *)
LEMMA ReadStepsFsInv ==
  ASSUME FsInv, NEW c \in Clients,
         CallRead(c) \/ Open(c) \/ ReadChunk(c) \/ EndRead(c)
  PROVE  FsInv'
<1> USE ConstantsAssumption
<1>1. /\ UNCHANGED <<dir, name, disk, unused>>
      /\ dir \in BOOLEAN /\ unused \in SUBSET Chunks /\ overlap \in SUBSET Clients
      /\ ReaderOK(c)
  BY DEF CallRead, Open, ReadChunk, EndRead, FsInv, TypeOK
<1>2. client \in [Clients -> Call]
  BY CallType
<1>3. CASE CallRead(c)
  <2> DEFINE r == [NoCall EXCEPT !.pc = "open"]
  <2>1. r \in Call /\ r.pc = "open" /\ r.data = Absent /\ r.etag = Absent
    BY NoCallType DEF NoCall, Call
  <2>2. client' = [client EXCEPT ![c] = r]
    BY <1>3 DEF CallRead
  <2> HIDE DEF r
  <2>3. client'[c] = r /\ \A b \in Clients \ {c} : client'[b] = client[b]
    BY <1>2, <2>2
  <2>4. /\ overlap' \in SUBSET Clients /\ overlap' \ {c} = overlap \ {c}
        /\ c \notin overlap' => NoneFills
    BY <1>1, <1>3 DEF CallRead, NoneFills
  <2>5. ReaderOK(c)' /\ WriterOK(c)'
    BY <2>1, <2>3, <2>4 DEF ReaderOK, WriterOK, Reading, Writing, NoneFills
  <2> QED BY <1>1, <2>1, <2>2, <2>4, <2>5, OneCall
<1>4. CASE Open(c)
  <2>1. CASE name = Absent
    <3> DEFINE r == [NoCall EXCEPT !.pc = "held"]
    <3>1. r \in Call /\ r.pc = "held" /\ r.data = Absent /\ r.etag = Absent
      BY NoCallType DEF NoCall, Call
    <3>2. client' = [client EXCEPT ![c] = r] /\ overlap' = overlap \ {c}
      BY <1>4, <2>1 DEF Open
    <3> HIDE DEF r
    <3>3. client'[c] = r
      BY <1>2, <3>2
    <3>4. ReaderOK(c)' /\ WriterOK(c)'
      BY <3>1, <3>3 DEF ReaderOK, WriterOK, Reading, Writing
    <3> QED BY <1>1, <3>1, <3>2, <3>4, OneCall
  <2>2. CASE name # Absent
    <3> DEFINE r == [NoCall EXCEPT !.pc = "read", !.ino = name, !.at = 1,
                                   !.data = << >>]
    <3>1. name \in Inodes /\ disk[name] # Absent /\ disk[name] \in Seq(Chunks)
      BY <2>2, CallType
    <3>2. /\ r \in Call /\ r.pc = "read" /\ r.etag = Absent
          /\ r.ino = name /\ r.at = 1 /\ r.data = << >>
      BY <3>1, EmptySeq DEF NoCall, Call
    <3>3. client' = [client EXCEPT ![c] = r] /\ UNCHANGED overlap
      BY <1>4, <2>2 DEF Open
    <3> HIDE DEF r
    <3>4. client'[c] = r /\ \A b \in Clients \ {c} : client'[b] = client[b]
      BY <1>2, <3>3
    <3>5. c \notin overlap => NoneFills
      BY <1>1, <1>4 DEF Open, ReaderOK, Reading
    <3>6. NoneFills => NoneFills'
      BY <3>2, <3>4 DEF NoneFills
    <3>7. Begins(<< >>, disk[name]) /\ << >> # Absent /\ Len(<< >>) = 0
      <4>1. << >> \in Seq(Chunks \cup {Hole}) /\ Len(<< >>) = 0
        BY EmptySeq
      <4>2. << >> # Absent
        BY <4>1
      <4>3. Len(disk[name]) \in Nat
        BY <3>1
      <4> QED BY <4>1, <4>2, <4>3 DEF Begins
    <3>8. ReaderOK(c)' /\ WriterOK(c)'
      BY <1>1, <3>1, <3>2, <3>3, <3>4, <3>5, <3>6, <3>7
      DEF ReaderOK, WriterOK, Reading, Writing
    <3> QED BY <1>1, <3>2, <3>3, <3>8, OneCall
  <2> QED BY <2>1, <2>2
<1>5. CASE ReadChunk(c)
  <2> DEFINE i == client[c].ino
             at == client[c].at
             d == Append(client[c].data, disk[i][at])
             r == [client[c] EXCEPT !.data = d, !.at = at + 1]
  <2>1. client[c].pc = "read" /\ at <= Len(disk[i])
    BY <1>5 DEF ReadChunk
  <2>2. /\ i \in Inodes /\ disk[i] \in Seq(Chunks)
        /\ client[c].data \in Seq(Chunks) /\ client[c].data # Absent
        /\ at = Len(client[c].data) + 1 /\ client[c].etag = Absent
    BY <1>1, <2>1, CallType DEF ReaderOK, FsInv, NoHoles
  <2>3. disk[i][at] \in Chunks
    BY <2>1, <2>2
  <2>4. /\ d \in Seq(Chunks) /\ Len(d) = at /\ d[at] = disk[i][at]
        /\ \A p \in 1 .. Len(client[c].data) : d[p] = client[c].data[p]
    BY <2>2, <2>3, Appended
  <2>5. d # Absent
    BY SMTT(30), <2>4
  <2>6. client' = [client EXCEPT ![c] = r]
    BY <1>2, <1>5 DEF ReadChunk, Call
  <2> HIDE DEF d
  <2>7. /\ r \in Call /\ r.pc = "read" /\ r.data = d /\ r.at = Len(d) + 1
        /\ r.ino = i /\ r.etag = Absent
    <3>1. client[c] \in Call /\ at \in Nat /\ at + 1 \in Nat
      BY <1>2 DEF Call
    <3>2. d \in Seq(Chunks) \cup {Absent}
      BY <2>4
    <3>3. r \in Call
      BY <3>1, <3>2 DEF Call
    <3>4. /\ r.pc = client[c].pc /\ r.data = d /\ r.at = at + 1
          /\ r.ino = i /\ r.etag = client[c].etag
      BY <3>1 DEF Call
    <3> QED BY <2>1, <2>2, <2>4, <3>3, <3>4
  <2> HIDE DEF r
  <2>8. client'[c] = r /\ \A b \in Clients \ {c} : client'[b] = client[b]
    BY <1>2, <2>6
  <2>9. NoneFills => NoneFills'
    BY <2>7, <2>8 DEF NoneFills
  <2>10. UNCHANGED overlap
    BY <1>5 DEF ReadChunk
  <2>11. c \notin overlap => NoneFills /\ i = name /\ Begins(client[c].data, disk[i])
    BY <1>1, <2>1 DEF ReaderOK, Reading
  <2>12. c \notin overlap => Begins(d, disk[i])
    BY <2>1, <2>2, <2>4, <2>11 DEF Begins
  <2>13. disk[i] # Absent
    BY <1>1, <2>1 DEF ReaderOK
  <2>14. ReaderOK(c)' /\ WriterOK(c)'
    BY <1>1, <2>2, <2>5, <2>7, <2>8, <2>9, <2>10, <2>11, <2>12, <2>13
    DEF ReaderOK, WriterOK, Reading, Writing
  <2> QED BY <1>1, <2>6, <2>7, <2>10, <2>14, OneCall
<1>6. CASE EndRead(c)
  <2> DEFINE r == [NoCall EXCEPT !.pc = "held", !.data = client[c].data]
  <2>1. r \in Call /\ r.pc = "held" /\ r.etag = Absent
    BY <1>2, NoCallType DEF NoCall, Call
  <2>2. client' = [client EXCEPT ![c] = r] /\ overlap' = overlap \ {c}
    BY <1>6 DEF EndRead
  <2> HIDE DEF r
  <2>3. client'[c] = r
    BY <1>2, <2>2
  <2>4. ReaderOK(c)' /\ WriterOK(c)'
    BY <2>1, <2>3 DEF ReaderOK, WriterOK, Reading, Writing
  <2> QED BY <1>1, <2>1, <2>2, <2>4, OneCall
<1> QED BY <1>3, <1>4, <1>5, <1>6

(* The system calls of a Write that change no file preserve the invariant. *)
LEMMA WriteStepsFsInv ==
  ASSUME Exclusive, FsInv, NEW c \in Clients,
         \/ CallWrite(c) \/ Stat(c) \/ MkdirAll(c) \/ EndWrite(c)
         \/ Create(c) /\ ~dir
  PROVE  FsInv'
<1> USE ConstantsAssumption
<1>1. /\ UNCHANGED <<name, disk, overlap>> /\ dir' \in BOOLEAN /\ (dir => dir')
      /\ unused' \in SUBSET Chunks /\ overlap \in SUBSET Clients
      /\ ReaderOK(c) /\ WriterOK(c)
  BY DEF CallWrite, Stat, MkdirAll, EndWrite, Create, FsInv, TypeOK
<1>2. client \in [Clients -> Call] /\ client[c] \in Call
  BY CallType
<1>3. CASE CallWrite(c)
  <2>1. PICK x \in unused :
          client' = [client EXCEPT ![c].pc = "stat", ![c].etag = client[c].data,
                       ![c].data = IF @ = Absent THEN <<x>> ELSE Append(@, x)]
    BY <1>3 DEF CallWrite
  <2> DEFINE e == client[c].data
             d == IF e = Absent THEN <<x>> ELSE Append(e, x)
             r == [client[c] EXCEPT !.pc = "stat", !.etag = e, !.data = d]
  <2>2. client' = [client EXCEPT ![c] = r]
    BY <1>2, <2>1 DEF Call
  <2>3. x \in Chunks /\ e \in Seq(Chunks) \cup {Absent}
    BY CallType, <2>1 DEF FsInv, TypeOK
  <2>4. d \in Seq(Chunks) /\ (e # Absent => Begins(e, d))
    <3>1. CASE e = Absent
      <4>1. <<x>> \in Seq(Chunks)
        BY <2>3
      <4> QED BY <3>1, <4>1
    <3>2. CASE e # Absent
      <4> HIDE DEF e
      <4>1. e \in Seq(Chunks)
        BY <2>3, <3>2
      <4> QED BY <2>3, <3>2, <4>1, Appended
    <3> QED BY <3>1, <3>2
  <2> HIDE DEF d, e
  <2>5. d # Absent
    BY <2>4
  <2>6. r \in Call /\ r.pc = "stat" /\ r.etag = e /\ r.data = d
    BY <1>2, <2>3, <2>4 DEF Call
  <2> HIDE DEF r
  <2>7. client'[c] = r
    BY <1>2, <2>2
  <2>8. ReaderOK(c)' /\ WriterOK(c)'
    BY <2>4, <2>5, <2>6, <2>7 DEF ReaderOK, WriterOK, Reading, Writing
  <2>9. \A b \in Clients : ~Writing(b)
    BY <1>3 DEF CallWrite, MayModify
  <2> QED BY <1>1, <2>2, <2>6, <2>8, <2>9, OneCall
<1>4. CASE Stat(c)
  <2>1. client[c].pc = "stat" /\ Writing(c)
    BY <1>4 DEF Stat, Writing
  <2>2. CASE AsExpected(client[c].etag)
    <3> DEFINE r == [client[c] EXCEPT !.pc = "create"]
    <3>1. client' = [client EXCEPT ![c] = r]
      BY <1>4, <2>2 DEF Stat
    <3>2. /\ r \in Call /\ r.pc = "create"
          /\ r.etag = client[c].etag /\ r.data = client[c].data
      BY <1>2 DEF Call
    <3> HIDE DEF r
    <3>3. client'[c] = r
      BY <1>2, <3>1
    <3>4. ReaderOK(c)' /\ WriterOK(c)'
      BY <1>1, <2>1, <2>2, <3>2, <3>3
      DEF ReaderOK, WriterOK, Reading, Writing, AsExpected
    <3> QED BY <1>1, <2>1, <3>1, <3>2, <3>4, OneCall
  <2>3. CASE ~AsExpected(client[c].etag)
    <3>1. client' = [client EXCEPT ![c] = NoCall]
      BY <1>4, <2>3 DEF Stat
    <3>2. client'[c] = NoCall
      BY <1>2, <3>1
    <3>3. ReaderOK(c)' /\ WriterOK(c)'
      BY <3>2, NoCallType DEF ReaderOK, WriterOK, Reading, Writing
    <3> QED BY <1>1, <3>1, <3>3, NoCallType, OneCall
  <2> QED BY <2>2, <2>3
<1>5. CASE MkdirAll(c) \/ (Create(c) /\ ~dir)
  <2>1. PICK pc \in {"create", "mkdir"} : client' = [client EXCEPT ![c].pc = pc]
    BY <1>5 DEF MkdirAll, Create
  <2>2. client[c].pc \in {"create", "mkdir"}
    BY <1>5 DEF MkdirAll, Create
  <2> DEFINE r == [client[c] EXCEPT !.pc = pc]
  <2>3. /\ r \in Call /\ r.pc = pc
        /\ r.etag = client[c].etag /\ r.data = client[c].data
    BY <1>2 DEF Call
  <2>4. client' = [client EXCEPT ![c] = r]
    BY <2>1
  <2> HIDE DEF r
  <2>5. client'[c] = r
    BY <1>2, <2>4
  <2>6. ReaderOK(c)' /\ WriterOK(c)'
    BY <1>1, <2>2, <2>3, <2>5 DEF ReaderOK, WriterOK, Reading, Writing
  <2> QED BY <1>1, <2>2, <2>3, <2>4, <2>6, OneCall DEF Writing
<1>6. CASE EndWrite(c)
  <2>1. client' = [client EXCEPT ![c] = NoCall]
    BY <1>6 DEF EndWrite
  <2>2. client'[c] = NoCall
    BY <1>2, <2>1
  <2>3. ReaderOK(c)' /\ WriterOK(c)'
    BY <2>2, NoCallType DEF ReaderOK, WriterOK, Reading, Writing
  <2> QED BY <1>1, <2>1, <2>3, NoCallType, OneCall
<1> QED BY <1>3, <1>4, <1>5, <1>6

(* Opening the file to write truncates it, or creates it, while no other   *)
(* Write is under way, and overlaps every Read.                            *)
LEMMA CreateFsInv ==
  ASSUME FsInv, NEW c \in Clients, Create(c), dir
  PROVE  FsInv'
<1> USE ConstantsAssumption
<1>1. PICK i \in Inodes :
        /\ IF name = Absent THEN disk[i] = Absent ELSE i = name
        /\ name' = i
        /\ disk' = [disk EXCEPT ![i] = << >>]
        /\ client' = [client EXCEPT ![c].pc = "chunk", ![c].ino = i, ![c].at = 1]
  BY DEF Create, Opened
<1>2. /\ client[c].pc = "create" /\ UNCHANGED <<dir, unused>>
      /\ overlap' = overlap \cup {b \in Clients : Reading(b)}
  BY DEF Create, Disturb
<1>3. /\ client \in [Clients -> Call] /\ client[c] \in Call
      /\ disk \in [Inodes -> Seq(Chunks \cup {Hole}) \cup {Absent}]
      /\ client[c].data \in Seq(Chunks) /\ client[c].data # Absent
      /\ WriterOK(c)
  BY <1>2, CallType DEF FsInv, TypeOK, WriterOK, Writing
<1> DEFINE r == [client[c] EXCEPT !.pc = "chunk", !.ino = i, !.at = 1]
<1>4. client' = [client EXCEPT ![c] = r]
  BY <1>1
<1>5. /\ r \in Call /\ r.pc = "chunk" /\ r.ino = i /\ r.at = 1
      /\ r.data = client[c].data /\ r.etag = client[c].etag
  BY <1>3 DEF Call
<1> HIDE DEF r
<1>6. /\ client' \in [Clients -> Call] /\ client'[c] = r
      /\ \A b \in Clients \ {c} : client'[b] = client[b]
  BY <1>3, <1>4, <1>5
<1>7. /\ << >> \in Seq(Chunks) /\ << >> \in Seq(Chunks \cup {Hole})
      /\ Len(<< >>) = 0
  BY EmptySeq
<1>8. /\ disk'[i] = << >> /\ << >> # Absent
      /\ \A j \in Inodes \ {i} : disk'[j] = disk[j]
  BY <1>1, <1>3, <1>7
<1>9. TypeOK' /\ NoHoles'
  <2>1. disk' \in [Inodes -> Seq(Chunks \cup {Hole}) \cup {Absent}]
    BY <1>1, <1>3, <1>7
  <2> QED BY <1>1, <1>2, <1>6, <1>7, <1>8, <2>1 DEF FsInv, TypeOK, NoHoles
<1>10. OneWriter'
  BY <1>2, <1>5, <1>6 DEF FsInv, OneWriter, Writing
<1>11. ReaderOK(c)' /\ WriterOK(c)'
  <2>1. Begins(<< >>, client[c].data)
    BY <1>3, <1>7 DEF Begins
  <2> QED
    BY <1>1, <1>2, <1>3, <1>5, <1>6, <1>7, <1>8, <2>1
    DEF ReaderOK, WriterOK, Reading, Writing
<1>12. ASSUME NEW b \in Clients \ {c} PROVE ReaderOK(b)' /\ WriterOK(b)'
  <2>1. ~Writing(b)
    BY <1>2 DEF FsInv, OneWriter, Writing
  <2>2. ReaderOK(b) /\ client'[b] = client[b] /\ (Reading(b) => b \in overlap')
    BY <1>2, <1>6 DEF FsInv
  <2>3. client[b].pc = "read" => client[b].ino \in Inodes /\ disk'[client[b].ino] # Absent
    BY <1>8, <2>2 DEF ReaderOK
  <2> QED BY <2>1, <2>2, <2>3 DEF ReaderOK, WriterOK, Reading, Writing
<1> QED BY <1>9, <1>10, <1>11, <1>12 DEF FsInv

(* Writing a chunk extends what is in the file. *)
LEMMA WriteChunkFsInv ==
  ASSUME FsInv, NEW c \in Clients, WriteChunk(c)
  PROVE  FsInv'
<1> USE ConstantsAssumption
<1> DEFINE d == client[c].data
           i == client[c].at
           s == disk[name]
<1>1. /\ client[c].pc = "chunk" /\ i <= Len(d)
      /\ disk' = [disk EXCEPT ![client[c].ino] = WriteAt(@, i, d[i])]
      /\ client' = [client EXCEPT ![c].at = @ + 1]
      /\ UNCHANGED <<dir, name, unused, overlap>>
  BY DEF WriteChunk
<1>2. /\ client \in [Clients -> Call] /\ client[c] \in Call
      /\ disk \in [Inodes -> Seq(Chunks \cup {Hole}) \cup {Absent}]
      /\ d \in Seq(Chunks) /\ d # Absent /\ ReaderOK(c)
      /\ name \in Inodes /\ name # Absent /\ s \in Seq(Chunks)
      /\ client[c].ino = name /\ Begins(s, d) /\ i = Len(s) + 1
      /\ client[c].etag # Absent => Begins(client[c].etag, d)
  BY <1>1, CallType DEF FsInv, TypeOK, WriterOK, Writing
<1>3. d[i] \in Chunks
  BY <1>1, <1>2
<1> DEFINE t == Append(s, d[i])
<1>4. /\ t \in Seq(Chunks) /\ Len(t) = i /\ t[i] = d[i]
      /\ \A p \in 1 .. Len(s) : t[p] = s[p]
  BY <1>2, <1>3, Appended
<1>5. disk' = [disk EXCEPT ![name] = t]
  BY <1>1, <1>2, <1>3, WriteAtEnd
<1>6. Begins(t, d)
  BY <1>1, <1>2, <1>4 DEF Begins
<1> HIDE DEF t
<1>7. t \in Seq(Chunks \cup {Hole}) /\ t # Absent
  BY <1>4, SeqMonotonic
<1>8. /\ disk' \in [Inodes -> Seq(Chunks \cup {Hole}) \cup {Absent}]
      /\ disk'[name] = t /\ \A j \in Inodes \ {name} : disk'[j] = disk[j]
  BY <1>2, <1>5, <1>7
<1> DEFINE r == [client[c] EXCEPT !.at = i + 1]
<1>9. /\ r \in Call /\ r.pc = "chunk" /\ r.ino = name /\ r.at = Len(t) + 1
      /\ r.data = d /\ r.etag = client[c].etag
  <2>1. client[c] \in Call /\ i + 1 \in Nat
    BY <1>2 DEF Call
  <2>2. r \in Call
    BY <2>1 DEF Call
  <2>3. /\ r.pc = client[c].pc /\ r.ino = client[c].ino /\ r.at = i + 1
        /\ r.data = d /\ r.etag = client[c].etag
    BY <2>1 DEF Call
  <2> QED BY <1>1, <1>2, <1>4, <2>2, <2>3
<1>10. client' = [client EXCEPT ![c] = r]
  BY <1>1, <1>2 DEF Call
<1> HIDE DEF r
<1>11. /\ client' \in [Clients -> Call] /\ client'[c] = r
       /\ \A b \in Clients \ {c} : client'[b] = client[b]
  BY <1>2, <1>9, <1>10
<1>12. TypeOK' /\ NoHoles'
  BY <1>1, <1>4, <1>7, <1>8, <1>11 DEF FsInv, TypeOK, NoHoles
<1>13. OneWriter'
  BY <1>1, <1>9, <1>11 DEF FsInv, OneWriter, Writing
<1>14. ReaderOK(c)' /\ WriterOK(c)'
  BY <1>1, <1>2, <1>6, <1>8, <1>9, <1>11
  DEF ReaderOK, WriterOK, Reading, Writing
<1>15. ASSUME NEW b \in Clients \ {c} PROVE ReaderOK(b)' /\ WriterOK(b)'
  <2>1. ~Writing(b)
    BY <1>1 DEF FsInv, OneWriter, Writing
  <2>2. ReaderOK(b) /\ client'[b] = client[b] /\ (Reading(b) => b \in overlap')
    BY <1>1, <1>11 DEF FsInv, ReaderOK, NoneFills
  <2>3. client[b].pc = "read" => client[b].ino \in Inodes /\ disk'[client[b].ino] # Absent
    BY <1>7, <1>8, <2>2 DEF ReaderOK
  <2> QED BY <2>1, <2>2, <2>3 DEF ReaderOK, WriterOK, Reading, Writing
<1> QED BY <1>12, <1>13, <1>14, <1>15 DEF FsInv

(* A Delete takes the name while no Write is under way. *)
LEMMA DeleteFsInv ==
  ASSUME Exclusive, FsInv, Delete
  PROVE  FsInv'
<1> USE ConstantsAssumption
<1>1. /\ \A c \in Clients : ~Writing(c)
      /\ name' = Absent /\ UNCHANGED <<dir, disk, client, unused>>
      /\ overlap' = overlap \cup {c \in Clients : Reading(c)}
  BY DEF Delete, MayModify, Disturb
<1>2. TypeOK' /\ NoHoles' /\ OneWriter'
  BY <1>1 DEF FsInv, TypeOK, NoHoles, OneWriter, Writing
<1>3. ASSUME NEW c \in Clients PROVE ReaderOK(c)' /\ WriterOK(c)'
  <2>1. ReaderOK(c) /\ ~Writing(c) /\ (Reading(c) => c \in overlap')
    BY <1>1 DEF FsInv
  <2> QED BY <1>1, <2>1 DEF ReaderOK, WriterOK, Reading, Writing
<1> QED BY <1>2, <1>3 DEF FsInv

(* Every step preserves the invariant. *)
LEMMA FsStep ==
  ASSUME Exclusive, FsInv, [Next]_vars
  PROVE  FsInv'
<1>1. CASE Next
  <2>1. ASSUME NEW c \in Clients, CallRead(c) \/ CallWrite(c) \/ Step(c)
        PROVE  FsInv'
    <3>1. CASE CallRead(c) \/ Open(c) \/ ReadChunk(c) \/ EndRead(c)
      BY <3>1, ReadStepsFsInv
    <3>2. CASE CallWrite(c) \/ Stat(c) \/ MkdirAll(c) \/ EndWrite(c)
      BY <3>2, WriteStepsFsInv
    <3>3. CASE Create(c)
      BY <3>3, WriteStepsFsInv, CreateFsInv
    <3>4. CASE WriteChunk(c)
      BY <3>4, WriteChunkFsInv
    <3> QED BY <2>1, <3>1, <3>2, <3>3, <3>4 DEF Step
  <2>2. CASE Delete
    BY <2>2, DeleteFsInv
  <2> QED BY <1>1, <2>1, <2>2 DEF Next
<1>2. CASE UNCHANGED vars
  BY <1>2 DEF vars, FsInv, TypeOK, NoHoles, OneWriter, ReaderOK, WriterOK,
     NoneFills, Reading, Writing
<1> QED BY <1>1, <1>2

(* The invariant is one of every behaviour. *)
LEMMA FsInvariance ==
  ASSUME Exclusive = TRUE
  PROVE  Spec => []FsInv
<1>1. FsInv /\ [Next]_vars => FsInv'
  BY FsStep
<1> QED BY FsInit, <1>1, PTL DEF Spec

(* Every variable keeps its type, and a named file exists, in its          *)
(* directory, while Writes and Deletes do not overlap each other.          *)
THEOREM FsTypeCorrect ==
  ASSUME Exclusive = TRUE
  PROVE  Spec => []TypeOK
<1>1. FsInv => TypeOK
  BY DEF FsInv
<1> QED BY <1>1, FsInvariance, PTL

-----------------------------------------------------------------------------
(***************************************************************************)
(* The value of the object, and the update that is not lost.               *)
(***************************************************************************)

ValueKnown ==
  /\ \A c \in Clients : client[c].pc = "chunk" => Value = client[c].data
  /\ NoneFills => Value = IF name = Absent THEN Absent ELSE disk[name]

(* The object is what the one Write under way writes, or the file. *)
LEMMA ValueIs == FsInv => ValueKnown
<1> SUFFICES ASSUME FsInv PROVE ValueKnown
  OBVIOUS
<1>1. ASSUME NEW c \in Clients, client[c].pc = "chunk"
      PROVE  Value = client[c].data
  <2> DEFINE w == CHOOSE b \in Clients : client[b].pc = "chunk"
  <2>1. w \in Clients /\ client[w].pc = "chunk"
    BY <1>1
  <2>2. w = c
    BY <1>1, <2>1 DEF FsInv, OneWriter, Writing
  <2> QED BY <1>1, <2>2 DEF Value
<1> QED BY <1>1 DEF ValueKnown, Value, NoneFills

(* A client's step leaves the calls of the others alone. *)
LEMMA OthersKeep ==
  ASSUME FsInv, NEW c \in Clients, CallRead(c) \/ CallWrite(c) \/ Step(c)
  PROVE  \A b \in Clients \ {c} : client'[b] = client[b]
BY CallType
DEF CallRead, CallWrite, Step, Open, ReadChunk, EndRead, Stat, Create, MkdirAll,
    WriteChunk, EndWrite

(* A Write passes its check, and then truncates the file, while the file   *)
(* still is what the client read.                                          *)
LEMMA CreateReplaces ==
  ASSUME Exclusive, FsInv, NEW c \in Clients, Create(c), dir
  PROVE  /\ NoneFills /\ Value' = client[c].data /\ client'[c].data = client[c].data
         /\ client[c].data \in Seq(Chunks)
         /\ client'[c].pc = "chunk" /\ client'[c].etag = client[c].etag
         /\ client[c].etag # Absent =>
              /\ Value = client[c].etag /\ client[c].etag \in Seq(Chunks)
              /\ Begins(client[c].etag, client[c].data)
<1>1. client[c].pc = "create" /\ Writing(c)
  BY DEF Create, Writing
<1>2. NoneFills
  BY <1>1 DEF FsInv, OneWriter, Writing, NoneFills
<1>3. /\ WriterOK(c) /\ client \in [Clients -> Call] /\ client[c] \in Call
      /\ client[c].data \in Seq(Chunks)
      /\ client[c].etag # Absent => client[c].etag \in Seq(Chunks)
  BY <1>1, CallType DEF FsInv, WriterOK
<1>4. /\ client'[c].pc = "chunk" /\ client'[c].data = client[c].data
      /\ client'[c].etag = client[c].etag
  <2>1. PICK i \in Inodes :
          client' = [client EXCEPT ![c].pc = "chunk", ![c].ino = i, ![c].at = 1]
    BY DEF Create
  <2> QED BY <1>3, <2>1 DEF Call
<1>5. Value' = client'[c].data
  <2>1. FsInv'
    BY CreateFsInv
  <2>2. ValueKnown'
    BY <2>1, ValueIs, PTL
  <2> QED BY <1>4, <2>2 DEF ValueKnown
<1>6. client[c].etag # Absent => Value = client[c].etag
  BY <1>1, <1>2, <1>3, ValueIs DEF WriterOK, ValueKnown
<1>7. client[c].etag # Absent => Begins(client[c].etag, client[c].data)
  BY <1>1, <1>3 DEF WriterOK
<1> QED BY <1>2, <1>3, <1>4, <1>5, <1>6, <1>7

(* A Write with an ETag keeps what was written before it, although it      *)
(* truncates the file and other clients may have read a file that a Write  *)
(* was filling: what it writes begins with what it replaces.               *)
THEOREM NoUpdateIsLost ==
  ASSUME Exclusive = TRUE
  PROVE  Spec => NoLostUpdate
<1> DEFINE Keeps(c) ==
      client[c].pc = "create" /\ client'[c].pc = "chunk" /\ client[c].etag # Absent
        => IsPrefix(Value, Value')
<1>1. ASSUME FsInv, [Next]_vars, NEW c \in Clients
      PROVE  Keeps(c)
  <2> SUFFICES ASSUME client[c].pc = "create", client'[c].pc = "chunk",
                      client[c].etag # Absent
               PROVE  IsPrefix(Value, Value')
    OBVIOUS
  <2>1. client' # client
    OBVIOUS
  <2>2. PICK b \in Clients : CallRead(b) \/ CallWrite(b) \/ Step(b)
    BY <1>1, <2>1 DEF Next, vars, Delete
  <2>3. b = c
    BY <1>1, <2>2, OthersKeep
  <2>4. client[c] \in Call /\ client \in [Clients -> Call]
    BY <1>1, CallType
  <2>5. Create(c) /\ dir
    BY <2>2, <2>3, <2>4
    DEF CallRead, CallWrite, Step, Idle, Open, ReadChunk, EndRead, Stat, Create,
        MkdirAll, WriteChunk, EndWrite, Call
  <2> QED BY <1>1, <2>5, CreateReplaces, BeginsIsPrefix
<1>2. FsInv /\ [Next]_vars => [\A c \in Clients : Keeps(c)]_vars
  BY <1>1
<1> QED BY <1>2, FsInvariance, PTL DEF Spec, NoLostUpdate

-----------------------------------------------------------------------------
(***************************************************************************)
(* Each chunk has one place: wherever it is found, in a file, in what a    *)
(* client holds or in an ETag, it is at the same offset.  So a content is  *)
(* no longer than there are chunks, and only Reads are overlapped.         *)
(***************************************************************************)
At(s, x, p) == s # Absent /\ p \in 1 .. Len(s) /\ s[p] = x

Occurs(x, p) ==
  \/ \E i \in Inodes : At(disk[i], x, p)
  \/ \E c \in Clients : At(client[c].data, x, p) \/ At(client[c].etag, x, p)

OnePlace ==
  \A x \in Chunks, p \in Nat :
    Occurs(x, p) => x \notin unused /\ \A q \in Nat : Occurs(x, q) => p = q

OverlapReads == \A c \in overlap : Reading(c)

PlaceInv ==
  /\ FsInv
  /\ OnePlace
  /\ OverlapReads

(* No step but the call of a Write brings a chunk to a new place. *)
LEMMA NoNewPlace ==
  ASSUME FsInv, NEW c \in Clients, CallRead(c) \/ Step(c), NEW x, NEW p,
         Occurs(x, p)'
  PROVE  Occurs(x, p)
<1> USE ConstantsAssumption
<1>1. client \in [Clients -> Call] /\ client[c] \in Call
  BY CallType
<1>2. \A b \in Clients \ {c} : client'[b] = client[b]
  BY OthersKeep
<1>3. CASE CallRead(c) \/ Open(c) \/ EndRead(c) \/ Stat(c) \/ MkdirAll(c)
             \/ EndWrite(c) \/ (Create(c) /\ ~dir)
  <2>1. disk' = disk
    BY <1>3 DEF CallRead, Open, EndRead, Stat, MkdirAll, EndWrite, Create
  <2>2. /\ client'[c].data \in {client[c].data, Absent, << >>}
        /\ client'[c].etag \in {client[c].etag, Absent}
    <3>1. CASE CallRead(c)
      BY <1>1, <3>1 DEF CallRead, NoCall
    <3>6. CASE Open(c)
      BY <1>1, <3>6 DEF Open, NoCall
    <3>7. CASE EndWrite(c)
      BY <1>1, <3>7 DEF EndWrite, NoCall
    <3>2. CASE EndRead(c)
      BY <1>1, <3>2 DEF EndRead, NoCall
    <3>3. CASE Stat(c)
      BY <1>1, <3>3 DEF Stat, Call, NoCall
    <3>4. CASE MkdirAll(c)
      BY <1>1, <3>4 DEF MkdirAll, Call
    <3>5. CASE Create(c) /\ ~dir
      <4>1. client' = [client EXCEPT ![c].pc = "mkdir"]
        BY <3>5 DEF Create
      <4> QED BY <1>1, <4>1 DEF Call
    <3> QED BY <1>3, <3>1, <3>2, <3>3, <3>4, <3>5, <3>6, <3>7
  <2>3. ~At(<< >>, x, p)
    BY EmptySeq DEF At
  <2> QED BY <1>2, <2>1, <2>2, <2>3 DEF Occurs, At
<1>4. CASE ReadChunk(c)
  <2> DEFINE i == client[c].ino
             e == client[c].data
             at == client[c].at
  <2>1. /\ client' = [client EXCEPT ![c].data = Append(@, disk[i][at]),
                                    ![c].at = @ + 1]
        /\ disk' = disk /\ client[c].pc = "read" /\ at <= Len(disk[i])
    BY <1>4 DEF ReadChunk
  <2>2. client'[c].data = Append(e, disk[i][at]) /\ client'[c].etag = client[c].etag
    BY <1>1, <2>1 DEF Call
  <2>3. /\ i \in Inodes /\ disk[i] # Absent /\ disk[i] \in Seq(Chunks)
        /\ e \in Seq(Chunks) /\ e # Absent /\ at = Len(e) + 1
    BY <2>1, CallType DEF FsInv, ReaderOK, NoHoles
  <2>4. disk[i][at] \in Chunks
    BY <2>1, <2>3
  <2>5. At(client'[c].data, x, p) => At(e, x, p) \/ At(disk[i], x, p)
    <3> SUFFICES ASSUME At(client'[c].data, x, p), ~At(e, x, p)
                 PROVE  At(disk[i], x, p)
      OBVIOUS
    <3>1. p \in 1 .. at /\ Append(e, disk[i][at])[p] = x
      BY <2>2, <2>3, <2>4, Appended DEF At
    <3>2. p = at
      BY <2>3, <2>4, <3>1, Appended DEF At
    <3> QED BY <2>1, <2>3, <2>4, <3>1, <3>2, Appended DEF At
  <2> QED BY <1>2, <2>1, <2>2, <2>3, <2>5 DEF Occurs
<1>5. CASE Create(c) /\ dir
  <2>1. PICK i \in Inodes :
          /\ disk' = [disk EXCEPT ![i] = << >>]
          /\ client' = [client EXCEPT ![c].pc = "chunk", ![c].ino = i, ![c].at = 1]
    BY <1>5 DEF Create, Opened
  <2>2. client'[c].data = client[c].data /\ client'[c].etag = client[c].etag
    BY <1>1, <2>1 DEF Call
  <2>3. ~At(<< >>, x, p)
    BY EmptySeq DEF At
  <2>4. \A j \in Inodes : disk'[j] = disk[j] \/ disk'[j] = << >>
    BY <2>1 DEF FsInv, TypeOK
  <2> QED BY <1>2, <2>2, <2>3, <2>4 DEF Occurs
<1>6. CASE WriteChunk(c)
  <2> DEFINE d == client[c].data
             i == client[c].at
             s == disk[name]
  <2>1. /\ client[c].pc = "chunk" /\ i <= Len(d)
        /\ disk' = [disk EXCEPT ![client[c].ino] = WriteAt(@, i, d[i])]
        /\ client' = [client EXCEPT ![c].at = @ + 1]
    BY <1>6 DEF WriteChunk
  <2>2. client'[c].data = d /\ client'[c].etag = client[c].etag
    BY <1>1, <2>1 DEF Call
  <2>3. /\ d \in Seq(Chunks) /\ d # Absent /\ name \in Inodes
        /\ s # Absent /\ s \in Seq(Chunks)
        /\ client[c].ino = name /\ i = Len(s) + 1
    BY <2>1, CallType DEF FsInv, WriterOK, Writing
  <2>4. d[i] \in Chunks
    BY <2>1, <2>3
  <2>5. disk'[name] = Append(s, d[i]) /\ \A j \in Inodes \ {name} : disk'[j] = disk[j]
    BY <2>1, <2>3, <2>4, WriteAtEnd DEF FsInv, TypeOK
  <2>6. At(disk'[name], x, p) => At(s, x, p) \/ At(d, x, p)
    <3> SUFFICES ASSUME At(disk'[name], x, p), ~At(s, x, p)
                 PROVE  At(d, x, p)
      OBVIOUS
    <3>1. p \in 1 .. i /\ Append(s, d[i])[p] = x
      BY <2>3, <2>4, <2>5, Appended DEF At
    <3>2. p = i
      BY <2>3, <2>4, <3>1, Appended DEF At
    <3> QED BY <2>1, <2>3, <2>4, <3>1, <3>2, Appended DEF At
  <2> QED BY <1>2, <2>2, <2>3, <2>5, <2>6 DEF Occurs
<1> QED BY <1>3, <1>4, <1>5, <1>6 DEF Step

(* A client puts a chunk that no one has used after what it has read. *)
LEMMA NewPlace ==
  ASSUME FsInv, OnePlace, NEW c \in Clients, CallWrite(c)
  PROVE  OnePlace'
<1> USE ConstantsAssumption
<1> DEFINE e == client[c].data
           n == IF e = Absent THEN 1 ELSE Len(e) + 1
<1>1. PICK y \in unused :
        /\ unused' = unused \ {y}
        /\ client' = [client EXCEPT ![c].pc = "stat", ![c].etag = client[c].data,
                        ![c].data = IF @ = Absent THEN <<y>> ELSE Append(@, y)]
        /\ disk' = disk
  BY DEF CallWrite
<1>2. /\ client \in [Clients -> Call] /\ client[c] \in Call /\ y \in Chunks
      /\ e # Absent => e \in Seq(Chunks)
  BY <1>1, CallType DEF FsInv, TypeOK
<1>3. /\ client'[c].data = IF e = Absent THEN <<y>> ELSE Append(e, y)
      /\ client'[c].etag = e
      /\ \A b \in Clients \ {c} : client'[b] = client[b]
  BY <1>1, <1>2 DEF Call
<1>4. ASSUME NEW x, NEW p, At(client'[c].data, x, p), ~At(e, x, p)
      PROVE  x = y /\ p = n
  <2>1. CASE e = Absent
    BY <1>2, <1>3, <1>4, <2>1 DEF At
  <2>2. CASE e # Absent
    <3>1. p \in 1 .. Len(e) + 1 /\ Append(e, y)[p] = x
      BY <1>2, <1>3, <1>4, <2>2, Appended DEF At
    <3> QED BY <1>2, <1>4, <2>2, <3>1, Appended DEF At
  <2> QED BY <2>1, <2>2
<1>5. ASSUME NEW x, NEW p, Occurs(x, p)'
      PROVE  Occurs(x, p) \/ (x = y /\ p = n)
  BY <1>1, <1>3, <1>4, <1>5 DEF Occurs
<1>6. \A p \in Nat : ~Occurs(y, p)
  BY <1>1, <1>2 DEF OnePlace
<1> HIDE DEF n
<1>7. ASSUME NEW x \in Chunks, NEW p \in Nat, Occurs(x, p)'
      PROVE  x \notin unused' /\ \A q \in Nat : Occurs(x, q)' => p = q
  BY <1>1, <1>5, <1>6, <1>7 DEF OnePlace
<1> QED BY <1>7 DEF OnePlace

(* Only Reads under way are overlapped, initially and after every step. *)
LEMMA OverlapStep ==
  ASSUME FsInv, OverlapReads, [Next]_vars
  PROVE  OverlapReads'
<1>1. client \in [Clients -> Call] /\ overlap \in SUBSET Clients
  BY DEF FsInv, TypeOK
<1>2. ASSUME NEW c \in Clients, CallRead(c) \/ CallWrite(c) \/ Step(c)
      PROVE  OverlapReads'
  <2>1. /\ overlap' \ {c} \subseteq overlap \cup {b \in Clients : Reading(b)}
        /\ c \in overlap' => Reading(c)'
    <3>1. CASE CallRead(c)
      BY <1>1, <3>1 DEF CallRead, NoCall, Reading
    <3>2. CASE Open(c)
      BY <1>1, <3>2 DEF Open, NoCall, Reading, OverlapReads
    <3>3. CASE ReadChunk(c)
      BY <1>1, <3>3 DEF ReadChunk, Reading, Call
    <3>4. CASE EndRead(c)
      BY <1>1, <3>4 DEF EndRead
    <3>5. CASE CallWrite(c) \/ Stat(c) \/ MkdirAll(c) \/ WriteChunk(c) \/ EndWrite(c)
      <4>1. overlap' = overlap /\ ~Reading(c)
        BY <3>5 DEF CallWrite, Stat, MkdirAll, WriteChunk, EndWrite, Reading
      <4> QED BY <4>1 DEF OverlapReads
    <3>6. CASE Create(c)
      <4>1. overlap' \in {overlap, overlap \cup {b \in Clients : Reading(b)}}
            /\ ~Reading(c)
        BY <3>6 DEF Create, Disturb, Reading
      <4> QED BY <4>1 DEF OverlapReads
    <3> QED BY <1>2, <3>1, <3>2, <3>3, <3>4, <3>5, <3>6 DEF Step
  <2>2. \A b \in Clients \ {c} : Reading(b) => Reading(b)'
    BY <1>2, OthersKeep DEF Reading
  <2>3. overlap' \in SUBSET Clients
    BY <1>1, <1>2
    DEF CallRead, CallWrite, Step, Open, ReadChunk, EndRead, Stat, Create, MkdirAll,
        WriteChunk, EndWrite, Disturb
  <2> QED BY <2>1, <2>2, <2>3 DEF OverlapReads
<1>3. CASE Delete
  BY <1>3 DEF Delete, Disturb, OverlapReads, Reading
<1>4. CASE UNCHANGED vars
  BY <1>4 DEF vars, OverlapReads, Reading
<1> QED BY <1>2, <1>3, <1>4 DEF Next

(* The strengthened invariant is one of every behaviour. *)
LEMMA PlaceInvariance ==
  ASSUME Exclusive = TRUE
  PROVE  Spec => []PlaceInv
<1> USE ConstantsAssumption
<1>1. Init => PlaceInv
  <2> SUFFICES ASSUME Init PROVE PlaceInv
    OBVIOUS
  <2>1. FsInv /\ OverlapReads
    BY FsInit DEF Init, OverlapReads
  <2>2. \A c \in Clients : client[c].data = Absent /\ client[c].etag = Absent
    BY NoCallType DEF Init
  <2>3. ASSUME NEW x \in Chunks, NEW p \in Nat, Occurs(x, p)
        PROVE  p = 1 /\ x \notin unused
    <3>1. PICK i \in Inodes : At(disk[i], x, p)
      BY <2>2, <2>3 DEF Occurs, At
    <3>2. PICK y \in Chunks : disk[i] = <<y>> /\ unused = Chunks \ {y}
      BY <3>1 DEF Init, At
    <3>3. p \in 1 .. 1 /\ x = y
      BY <3>1, <3>2 DEF At
    <3> QED BY <3>2, <3>3
  <2> QED BY <2>1, <2>3 DEF PlaceInv, OnePlace
<1>2. PlaceInv /\ [Next]_vars => PlaceInv'
  <2> SUFFICES ASSUME PlaceInv, [Next]_vars PROVE PlaceInv'
    OBVIOUS
  <2>1. FsInv' /\ OverlapReads'
    BY FsStep, OverlapStep DEF PlaceInv
  <2>2. ASSUME unused' \in SUBSET unused,
               \A x \in Chunks, p \in Nat : Occurs(x, p)' => Occurs(x, p)
        PROVE  OnePlace'
    <3>1. ASSUME NEW x \in Chunks, NEW p \in Nat, Occurs(x, p)'
          PROVE  x \notin unused' /\ \A q \in Nat : Occurs(x, q)' => p = q
      <4>1. Occurs(x, p) /\ \A q \in Nat : Occurs(x, q)' => Occurs(x, q)
        BY <2>2, <3>1
      <4> QED BY <2>2, <4>1 DEF PlaceInv, OnePlace
    <3> QED BY <3>1 DEF OnePlace
  <2>3. ASSUME disk' = disk, client' = client, unused' = unused
        PROVE  OnePlace'
    <3>1. \A x \in Chunks, p \in Nat : Occurs(x, p)' => Occurs(x, p)
      BY <2>3 DEF Occurs
    <3> QED BY <2>2, <2>3, <3>1
  <2>4. ASSUME NEW c \in Clients, CallRead(c) \/ Step(c)
        PROVE  OnePlace'
    <3>1. unused' = unused
      BY <2>4 DEF CallRead, Step, Open, ReadChunk, EndRead, Stat, Create, MkdirAll,
         WriteChunk, EndWrite
    <3> QED BY <2>2, <2>4, <3>1, NoNewPlace DEF PlaceInv
  <2>5. ASSUME NEW c \in Clients, CallWrite(c)
        PROVE  OnePlace'
    BY <2>5, NewPlace DEF PlaceInv
  <2>6. OnePlace'
    <3>1. CASE Next
      <4>1. CASE Delete
        BY <2>3, <4>1 DEF Delete
      <4> QED BY <2>4, <2>5, <3>1, <4>1 DEF Next
    <3>2. CASE UNCHANGED vars
      BY <2>3, <3>2 DEF vars
    <3> QED BY <3>1, <3>2
  <2> QED BY <2>1, <2>6 DEF PlaceInv
<1> QED BY <1>1, <1>2, PTL DEF Spec

(* A content all of whose chunks have their place has no chunk twice, so   *)
(* that it is one of the contents of the object.                           *)
LEMMA BoundedContent ==
  ASSUME PlaceInv, IsFiniteSet(Chunks), NEW s \in Seq(Chunks),
         \A p \in 1 .. Len(s) : Occurs(s[p], p)
  PROVE  s \in BoundedSeq(Chunks, Cardinality(Chunks))
<1>1. /\ Len(s) \in Nat /\ s \in [1 .. Len(s) -> Chunks]
      /\ Cardinality(Chunks) \in Nat
  BY FS_CardinalityType
<1>2. \A p, q \in 1 .. Len(s) : s[p] = s[q] => p = q
  <2> SUFFICES ASSUME NEW p \in 1 .. Len(s), NEW q \in 1 .. Len(s), s[p] = s[q]
               PROVE  p = q
    OBVIOUS
  <2>1. Occurs(s[p], p) /\ Occurs(s[p], q) /\ s[p] \in Chunks /\ p \in Nat /\ q \in Nat
    BY <1>1
  <2> QED BY <2>1 DEF PlaceInv, OnePlace
<1>3. s \in Injection(1 .. Len(s), Chunks)
  BY <1>1, <1>2 DEF Injection, IsInjective
<1>4. Cardinality(1 .. Len(s)) <= Cardinality(Chunks)
  BY <1>3, FS_Injection
<1>5. Len(s) <= Cardinality(Chunks)
  BY <1>1, <1>4, FS_Interval
<1>6. Len(s) \in 0 .. Cardinality(Chunks)
  BY <1>1, <1>5
<1> QED BY <1>1, <1>6 DEF BoundedSeq, SeqOf

ContentsBounded ==
  LET Contents == BoundedSeq(Chunks, Cardinality(Chunks)) IN
  /\ Value \in Contents \cup {Absent}
  /\ \A c \in Clients : /\ client[c].data \in Contents \cup {Absent}
                        /\ client[c].etag \in Contents \cup {Absent}

(* The contents of the object and of the calls are contents of the store. *)
LEMMA BoundedContents ==
  ASSUME IsFiniteSet(Chunks)
  PROVE  PlaceInv => ContentsBounded
<1> DEFINE Contents == BoundedSeq(Chunks, Cardinality(Chunks))
<1> SUFFICES ASSUME PlaceInv PROVE ContentsBounded
  OBVIOUS
<1>1. ASSUME NEW c \in Clients
      PROVE  /\ client[c].data \in Contents \cup {Absent}
             /\ client[c].etag \in Contents \cup {Absent}
  BY CallType, BoundedContent DEF PlaceInv, Occurs, At
<1> HIDE DEF Contents
<1>2. ASSUME name # Absent PROVE disk[name] \in Contents
  <2>1. /\ name \in Inodes /\ disk[name] # Absent /\ disk[name] \in Seq(Chunks)
        /\ \A p \in 1 .. Len(disk[name]) : Occurs(disk[name][p], p)
    BY <1>2, CallType DEF PlaceInv, FsInv, TypeOK, NoHoles, Occurs, At
  <2> QED BY <2>1, BoundedContent DEF Contents
<1>3. Value \in Contents \cup {Absent}
  BY <1>1, <1>2, ValueIs DEF PlaceInv, ValueKnown, NoneFills
<1> QED BY <1>1, <1>3 DEF Contents, ContentsBounded

-----------------------------------------------------------------------------
(***************************************************************************)
(* The refinement.  The variables of the store, as ImplementsObjectStore   *)
(* maps them.                                                              *)
(***************************************************************************)
OpOf(r) ==
  IF r.pc \in {"idle", "held"} THEN "idle" ELSE IF r.pc \in {"open", "read"} THEN "read"
  ELSE IF r.pc = "chunk" THEN "written" ELSE "write"

DataOf(r) == IF r.pc \in {"open", "read"} THEN Absent ELSE r.data

StoreOp ==
  [c \in Clients |->
     IF Idle(c) THEN "idle" ELSE IF Reading(c) THEN "read"
     ELSE IF client[c].pc = "chunk" THEN "written" ELSE "write"]

StoreData == [c \in Clients |-> IF Reading(c) THEN Absent ELSE client[c].data]

StoreEtag == [c \in Clients |-> client[c].etag]

StoreDirty == [c \in Clients |-> c \in overlap]

(* The step of one client changes its entries of the store alone. *)
LEMMA OneMoves ==
  ASSUME NEW c \in Clients, \A b \in Clients \ {c} : client'[b] = client[b]
  PROVE  /\ StoreOp' = [StoreOp EXCEPT ![c] = OpOf(client'[c])]
         /\ StoreData' = [StoreData EXCEPT ![c] = DataOf(client'[c])]
         /\ StoreEtag' = [StoreEtag EXCEPT ![c] = client'[c].etag]
         /\ StoreOp[c] = OpOf(client[c]) /\ StoreData[c] = DataOf(client[c])
         /\ StoreEtag[c] = client[c].etag /\ StoreDirty[c] = (c \in overlap)
<1>1. StoreOp' = [StoreOp EXCEPT ![c] = OpOf(client'[c])] /\ StoreOp[c] = OpOf(client[c])
  BY DEF StoreOp, OpOf, Idle, Reading
<1>2. /\ StoreData' = [StoreData EXCEPT ![c] = DataOf(client'[c])]
      /\ StoreData[c] = DataOf(client[c])
  BY DEF StoreData, DataOf, Reading
<1>3. StoreEtag' = [StoreEtag EXCEPT ![c] = client'[c].etag] /\ StoreEtag[c] = client[c].etag
  BY DEF StoreEtag
<1> QED BY <1>1, <1>2, <1>3 DEF StoreDirty

(* Whether the Read of one client is overlapped changes its entry alone. *)
LEMMA DirtyMoves ==
  ASSUME NEW c \in Clients, NEW v \in BOOLEAN,
         \A b \in Clients \ {c} : (b \in overlap') <=> (b \in overlap),
         (c \in overlap') <=> v
  PROVE  StoreDirty' = [StoreDirty EXCEPT ![c] = v]
<1>1. \A b \in Clients :
        (b \in overlap') = [StoreDirty EXCEPT ![c] = v][b]
  <2>1. (c \in overlap') = [StoreDirty EXCEPT ![c] = v][c]
    BY DEF StoreDirty
  <2>2. ASSUME NEW b \in Clients \ {c}
        PROVE  (b \in overlap') = [StoreDirty EXCEPT ![c] = v][b]
    BY DEF StoreDirty
  <2> QED BY <2>1, <2>2
<1>2. [StoreDirty EXCEPT ![c] = v]
        = [b \in Clients |-> [StoreDirty EXCEPT ![c] = v][b]]
  BY DEF StoreDirty
<1> HIDE DEF StoreDirty
<1>3. [b \in Clients |-> b \in overlap']
        = [b \in Clients |-> [StoreDirty EXCEPT ![c] = v][b]]
  BY <1>1, Zenon
<1> QED BY <1>2, <1>3 DEF StoreDirty

(* What replaces the object overlaps every Read under way. *)
LEMMA DirtyDisturbed ==
  ASSUME overlap' = overlap \cup {c \in Clients : Reading(c)}
  PROVE  StoreDirty' = [c \in Clients |-> StoreDirty[c] \/ StoreOp[c] = "read"]
<1>1. ASSUME NEW c \in Clients
      PROVE  (c \in overlap') = (StoreDirty[c] \/ StoreOp[c] = "read")
  <2>1. (StoreOp[c] = "read") <=> Reading(c)
    BY DEF StoreOp, Idle, Reading
  <2>2. (c \in overlap') <=> (c \in overlap \/ Reading(c))
    OBVIOUS
  <2>3. StoreDirty[c] <=> c \in overlap
    BY DEF StoreDirty
  <2>4. (c \in overlap') <=> (StoreDirty[c] \/ StoreOp[c] = "read")
    BY <2>1, <2>2, <2>3
  <2> QED BY <2>4
<1> QED BY <1>1, Zenon DEF StoreDirty

(* A step that leaves the entries of its client as they are is a stutter. *)
LEMMA NoMove ==
  ASSUME NEW c \in Clients, \A b \in Clients \ {c} : client'[b] = client[b],
         OpOf(client'[c]) = OpOf(client[c]), DataOf(client'[c]) = DataOf(client[c]),
         client'[c].etag = client[c].etag, overlap' = overlap, Value' = Value
  PROVE  UNCHANGED Store!vars
<1>1. /\ StoreOp' = [StoreOp EXCEPT ![c] = StoreOp[c]]
      /\ StoreData' = [StoreData EXCEPT ![c] = StoreData[c]]
      /\ StoreEtag' = [StoreEtag EXCEPT ![c] = StoreEtag[c]]
  BY OneMoves
<1>2. StoreOp' = StoreOp /\ StoreData' = StoreData /\ StoreEtag' = StoreEtag
  BY ZenonT(40), <1>1 DEF StoreOp, StoreData, StoreEtag
<1>3. StoreDirty' = StoreDirty
  BY DEF StoreDirty
<1> QED BY <1>2, <1>3 DEF Store!vars, StoreOp, StoreData, StoreEtag, StoreDirty

(* The object is the same after a step that changes neither a file nor the *)
(* Write that fills one.                                                   *)
LEMMA ValueKept ==
  ASSUME FsInv, ValueKnown', NEW c \in Clients,
         \A b \in Clients \ {c} : client'[b] = client[b],
         client[c].pc # "chunk", client'[c].pc # "chunk", UNCHANGED <<name, disk>>
  PROVE  Value' = Value
<1>1. CASE NoneFills
  BY <1>1, ValueIs DEF ValueKnown, NoneFills
<1>2. CASE ~NoneFills
  <2>1. PICK b \in Clients : client[b].pc = "chunk"
    BY <1>2 DEF NoneFills
  <2> QED BY <2>1, ValueIs DEF ValueKnown
<1> QED BY <1>1, <1>2

(* The system calls of a Read implement the store's. *)
LEMMA ReadsRefine ==
  ASSUME PlaceInv, ContentsBounded, ValueKnown', NEW c \in Clients,
         CallRead(c) \/ Open(c) \/ ReadChunk(c) \/ EndRead(c)
  PROVE  Store!StartRead(c) \/ Store!EndRead(c) \/ UNCHANGED Store!vars
<1> USE ConstantsAssumption
<1>1. /\ client \in [Clients -> Call] /\ client[c] \in Call
      /\ \A b \in Clients \ {c} : client'[b] = client[b]
      /\ ReaderOK(c) /\ (c \in overlap => Reading(c)) /\ FsInv
  BY CallType, OthersKeep DEF PlaceInv, FsInv, OverlapReads, Step
<1>2. UNCHANGED <<name, disk>> /\ client[c].pc # "chunk"
  BY DEF CallRead, Open, ReadChunk, EndRead, Idle
<1>3. CASE CallRead(c)
  <2>1. /\ client'[c].pc = "open" /\ client'[c].data = Absent /\ client'[c].etag = Absent
        /\ OpOf(client[c]) = "idle" /\ ~Reading(c)
    BY <1>1, <1>3 DEF CallRead, NoCall, OpOf, Idle, Reading
  <2>2. Value' = Value
    BY <1>1, <1>2, <2>1, ValueKept
  <2>3. /\ StoreOp[c] = "idle" /\ StoreOp' = [StoreOp EXCEPT ![c] = "read"]
        /\ StoreData' = [StoreData EXCEPT ![c] = Absent]
        /\ StoreEtag' = [StoreEtag EXCEPT ![c] = Absent]
    BY <1>1, <2>1, OneMoves DEF OpOf, DataOf
  <2>4. (\E b \in Clients : StoreOp[b] = "written") <=> ~NoneFills
    BY DEF StoreOp, NoneFills, Idle, Reading
  <2>5. StoreDirty' = [StoreDirty EXCEPT ![c] = \E b \in Clients : StoreOp[b] = "written"]
    <3>1. overlap' = IF NoneFills THEN overlap ELSE overlap \cup {c}
      BY <1>3 DEF CallRead, NoneFills
    <3> QED BY <1>1, <2>1, <2>4, <3>1, DirtyMoves
  <2> QED BY <2>2, <2>3, <2>5
          DEF Store!StartRead, Store!Forget, StoreOp, StoreData, StoreEtag, StoreDirty
<1>4. ASSUME OpOf(client[c]) = "read", client'[c].pc = "held",
             client'[c].data \in BoundedSeq(Chunks, Cardinality(Chunks)) \cup {Absent},
             client'[c].etag = Absent, client[c].etag = Absent,
             c \in overlap \/ client'[c].data = Value, overlap' = overlap \ {c}
      PROVE  Store!EndRead(c)
  <2>1. Value' = Value
    BY <1>1, <1>2, <1>4, ValueKept
  <2>2. /\ StoreOp[c] = "read" /\ StoreOp' = [StoreOp EXCEPT ![c] = "idle"]
        /\ StoreData' = [StoreData EXCEPT ![c] = client'[c].data]
        /\ StoreEtag' = [StoreEtag EXCEPT ![c] = StoreEtag[c]]
    BY <1>1, <1>4, OneMoves DEF OpOf, DataOf
  <2>3. StoreDirty' = [StoreDirty EXCEPT ![c] = FALSE]
    BY <1>4, DirtyMoves
  <2>4. StoreEtag' = StoreEtag
    BY <2>2 DEF StoreEtag
  <2>5. StoreDirty[c] \/ client'[c].data = Value
    BY <1>4 DEF StoreDirty
  <2> QED BY <1>4, <2>1, <2>2, <2>3, <2>4, <2>5
          DEF Store!EndRead, Store!Optional, StoreOp, StoreData, StoreEtag, StoreDirty
<1>5. CASE Open(c)
  <2>1. client[c].pc = "open" /\ client[c].etag = Absent
    BY <1>1, <1>5 DEF Open, ReaderOK
  <2>2. CASE name = Absent
    <3>1. /\ client'[c].pc = "held" /\ client'[c].data = Absent
          /\ client'[c].etag = Absent /\ overlap' = overlap \ {c}
      BY <1>1, <1>5, <2>2 DEF Open, NoCall
    <3>2. c \in overlap \/ Value = Absent
      BY <1>1, <2>1, <2>2, ValueIs DEF ReaderOK, ValueKnown, Reading
    <3> QED BY <1>4, <2>1, <3>1, <3>2 DEF OpOf
  <2>3. CASE name # Absent
    <3>1. client'[c].pc = "read" /\ client'[c].etag = Absent /\ overlap' = overlap
      BY <1>1, <1>5, <2>3 DEF Open, NoCall
    <3>2. Value' = Value
      BY <1>1, <1>2, <3>1, ValueKept
    <3> QED BY <1>1, <2>1, <3>1, <3>2, NoMove DEF OpOf, DataOf
  <2> QED BY <2>2, <2>3
<1>6. CASE ReadChunk(c)
  <2>1. /\ client[c].pc = "read" /\ overlap' = overlap
        /\ client' = [client EXCEPT
                        ![c].data = Append(@, disk[client[c].ino][client[c].at]),
                        ![c].at = @ + 1]
    BY <1>6 DEF ReadChunk
  <2>2. client'[c].pc = "read" /\ client'[c].etag = client[c].etag
    BY <1>1, <2>1 DEF Call
  <2>3. Value' = Value
    BY <1>1, <1>2, <2>2, ValueKept
  <2> QED BY <1>1, <2>1, <2>2, <2>3, NoMove DEF OpOf, DataOf
<1>7. CASE EndRead(c)
  <2>1. /\ client[c].pc = "read" /\ client[c].at > Len(disk[client[c].ino])
        /\ client'[c].pc = "held" /\ client'[c].data = client[c].data
        /\ client'[c].etag = Absent /\ overlap' = overlap \ {c}
    BY <1>1, <1>7 DEF EndRead, NoCall
  <2>2. client[c].etag = Absent
    BY <1>1, <2>1 DEF ReaderOK
  <2>3. client[c].data \in BoundedSeq(Chunks, Cardinality(Chunks)) \cup {Absent}
    BY DEF ContentsBounded
  <2>4. c \in overlap \/ client[c].data = Value
    <3> SUFFICES ASSUME c \notin overlap PROVE client[c].data = Value
      OBVIOUS
    <3>1. /\ NoneFills /\ client[c].ino = name /\ name \in Inodes /\ disk[name] # Absent
          /\ client[c].data # Absent /\ client[c].at = Len(client[c].data) + 1
          /\ Begins(client[c].data, disk[name])
      BY <1>1, <2>1 DEF ReaderOK, Reading
    <3>2. client[c].data \in Seq(Chunks) /\ disk[name] \in Seq(Chunks) /\ name # Absent
      BY <1>1, <3>1, CallType DEF FsInv, NoHoles
    <3>3. client[c].data = disk[name]
      BY <2>1, <3>1, <3>2, SameContent
    <3> QED BY <1>1, <3>1, <3>2, <3>3, ValueIs DEF ValueKnown
  <2> QED BY <1>4, <2>1, <2>2, <2>3, <2>4 DEF OpOf
<1> QED BY <1>3, <1>5, <1>6, <1>7

(* The system calls of a Write implement the store's. *)
LEMMA WritesRefine ==
  ASSUME Exclusive, PlaceInv, PlaceInv', ContentsBounded, ContentsBounded', ValueKnown',
         NEW c \in Clients,
         CallWrite(c) \/ Stat(c) \/ Create(c) \/ MkdirAll(c) \/ WriteChunk(c)
           \/ EndWrite(c)
  PROVE  \/ Store!StartWrite(c) \/ Store!TakeEffect(c) \/ Store!Refuse(c)
         \/ Store!EndWrite(c) \/ UNCHANGED Store!vars
<1> USE ConstantsAssumption
<1>1. /\ client \in [Clients -> Call] /\ client[c] \in Call
      /\ \A b \in Clients \ {c} : client'[b] = client[b]
      /\ WriterOK(c) /\ ~Reading(c) /\ FsInv
  BY CallType, OthersKeep
  DEF PlaceInv, FsInv, Step, Reading, CallWrite, Stat, Create, MkdirAll, WriteChunk, EndWrite
<1>2. CASE CallWrite(c)
  <2>1. /\ client[c].pc = "held" /\ client'[c].pc = "stat"
        /\ client'[c].data # Absent /\ UNCHANGED <<name, disk, overlap>>
    <3>1. /\ client[c].pc = "held" /\ UNCHANGED <<name, disk, overlap>>
          /\ \E x \in unused :
               client' = [client EXCEPT ![c].pc = "stat", ![c].etag = client[c].data,
                            ![c].data = IF @ = Absent THEN <<x>> ELSE Append(@, x)]
      BY <1>2 DEF CallWrite
    <3>2. client'[c].pc = "stat"
      BY <1>1, <3>1 DEF Call
    <3>3. WriterOK(c)'
      BY DEF PlaceInv, FsInv
    <3> QED BY <3>1, <3>2, <3>3 DEF WriterOK, Writing
  <2>2. Value' = Value
    BY <1>1, <2>1, ValueKept
  <2>3. /\ StoreOp[c] = "idle" /\ StoreOp' = [StoreOp EXCEPT ![c] = "write"]
        /\ StoreData' = [StoreData EXCEPT ![c] = client'[c].data]
        /\ StoreEtag' = [StoreEtag EXCEPT ![c] = client'[c].etag]
        /\ StoreDirty' = StoreDirty
    BY <1>1, <2>1, OneMoves DEF OpOf, DataOf, StoreDirty
  <2>4. /\ client'[c].data \in BoundedSeq(Chunks, Cardinality(Chunks))
        /\ client'[c].etag \in BoundedSeq(Chunks, Cardinality(Chunks)) \cup {Absent}
    BY <2>1 DEF ContentsBounded
  <2> QED BY <2>2, <2>3, <2>4
          DEF Store!StartWrite, Store!Optional, StoreOp, StoreData, StoreEtag, StoreDirty
<1>3. CASE Stat(c)
  <2>1. client[c].pc = "stat" /\ UNCHANGED <<name, disk, overlap>>
    BY <1>3 DEF Stat
  <2>2. CASE AsExpected(client[c].etag)
    <3>1. client' = [client EXCEPT ![c].pc = "create"]
      BY <1>1, <1>3, <2>2 DEF Stat
    <3>2. /\ client'[c].pc = "create" /\ client'[c].data = client[c].data
          /\ client'[c].etag = client[c].etag
      BY <1>1, <3>1 DEF Call
    <3>3. Value' = Value
      BY <1>1, <2>1, <3>2, ValueKept
    <3> QED BY <1>1, <2>1, <3>2, <3>3, NoMove DEF OpOf, DataOf
  <2>3. CASE ~AsExpected(client[c].etag)
    <3>1. client'[c] = NoCall
      BY <1>1, <1>3, <2>3 DEF Stat
    <3>2. NoneFills
      BY <1>1, <2>1 DEF FsInv, OneWriter, Writing, NoneFills
    <3>3. client[c].etag \notin {Absent, Value}
      BY <1>1, <2>3, <3>2, ValueIs DEF ValueKnown, AsExpected
    <3>4. Value' = Value
      BY <1>1, <2>1, <3>1, NoCallType, ValueKept
    <3>5. /\ StoreOp[c] = "write" /\ StoreOp' = [StoreOp EXCEPT ![c] = "idle"]
          /\ StoreData' = [StoreData EXCEPT ![c] = Absent]
          /\ StoreEtag' = [StoreEtag EXCEPT ![c] = Absent]
          /\ StoreEtag[c] = client[c].etag /\ StoreDirty' = StoreDirty
      BY <1>1, <2>1, <3>1, NoCallType, OneMoves DEF OpOf, DataOf, StoreDirty
    <3> QED BY <3>3, <3>4, <3>5
            DEF Store!Refuse, Store!Forget, StoreOp, StoreData, StoreEtag, StoreDirty
  <2> QED BY <2>2, <2>3
<1>4. CASE Create(c) /\ dir
  <2>1. /\ client[c].pc = "create" /\ overlap' = overlap \cup {b \in Clients : Reading(b)}
    BY <1>4 DEF Create, Disturb
  <2>2. /\ NoneFills /\ Value' = client[c].data /\ client'[c].data = client[c].data
        /\ client'[c].pc = "chunk" /\ client'[c].etag = client[c].etag
        /\ client[c].etag # Absent => Value = client[c].etag
    BY <1>1, <1>4, CreateReplaces
  <2>3. /\ StoreOp[c] = "write" /\ StoreOp' = [StoreOp EXCEPT ![c] = "written"]
        /\ StoreData' = [StoreData EXCEPT ![c] = StoreData[c]]
        /\ StoreEtag' = [StoreEtag EXCEPT ![c] = StoreEtag[c]]
        /\ StoreData[c] = client[c].data /\ StoreEtag[c] = client[c].etag
    BY <1>1, <2>1, <2>2, OneMoves DEF OpOf, DataOf
  <2>4. StoreData' = StoreData /\ StoreEtag' = StoreEtag
    BY <2>3 DEF StoreData, StoreEtag
  <2>5. StoreDirty' = [b \in Clients |-> StoreDirty[b] \/ StoreOp[b] = "read"]
    BY <2>1, DirtyDisturbed
  <2> QED BY <2>2, <2>3, <2>4, <2>5
          DEF Store!TakeEffect, Store!Disturb, StoreOp, StoreData, StoreEtag, StoreDirty
<1>5. CASE MkdirAll(c) \/ (Create(c) /\ ~dir)
  <2>1. \E p \in {"create", "mkdir"} : client' = [client EXCEPT ![c].pc = p]
    BY <1>5 DEF MkdirAll, Create
  <2>2. client[c].pc \in {"create", "mkdir"} /\ UNCHANGED <<name, disk, overlap>>
    BY <1>5 DEF MkdirAll, Create
  <2>3. /\ client'[c].pc \in {"create", "mkdir"} /\ client'[c].data = client[c].data
        /\ client'[c].etag = client[c].etag
    BY <1>1, <2>1 DEF Call
  <2>4. Value' = Value
    BY <1>1, <2>2, <2>3, ValueKept
  <2> QED BY <1>1, <2>2, <2>3, <2>4, NoMove DEF OpOf, DataOf
<1>6. CASE WriteChunk(c)
  <2>1. /\ client[c].pc = "chunk" /\ client' = [client EXCEPT ![c].at = @ + 1]
        /\ overlap' = overlap
    BY <1>6 DEF WriteChunk
  <2>2. /\ client'[c].pc = "chunk" /\ client'[c].data = client[c].data
        /\ client'[c].etag = client[c].etag
    BY <1>1, <2>1 DEF Call
  <2>3. Value' = Value
    BY <1>1, <2>1, <2>2, ValueIs DEF ValueKnown
  <2> QED BY <1>1, <2>1, <2>2, <2>3, NoMove DEF OpOf, DataOf
<1>7. CASE EndWrite(c)
  <2>1. /\ client[c].pc = "chunk" /\ client[c].at > Len(client[c].data)
        /\ client'[c] = NoCall /\ UNCHANGED <<name, disk, overlap>>
    BY <1>1, <1>7 DEF EndWrite
  <2>2. /\ name # Absent /\ disk[name] \in Seq(Chunks) /\ client[c].data \in Seq(Chunks)
        /\ Begins(disk[name], client[c].data) /\ client[c].at = Len(disk[name]) + 1
    BY <1>1, <2>1, CallType DEF WriterOK, Writing
  <2>3. disk[name] = client[c].data
    BY <2>1, <2>2, SameContent
  <2>4. NoneFills'
    BY <1>1, <2>1, NoCallType DEF FsInv, OneWriter, Writing, NoneFills
  <2>5. Value' = Value
    BY <1>1, <2>1, <2>2, <2>3, <2>4, ValueIs DEF ValueKnown
  <2>6. /\ StoreOp[c] = "written" /\ StoreOp' = [StoreOp EXCEPT ![c] = "idle"]
        /\ StoreData' = [StoreData EXCEPT ![c] = Absent]
        /\ StoreEtag' = [StoreEtag EXCEPT ![c] = Absent]
        /\ StoreDirty' = StoreDirty
    BY <1>1, <2>1, NoCallType, OneMoves DEF OpOf, DataOf, StoreDirty
  <2> QED BY <2>5, <2>6
          DEF Store!EndWrite, Store!Forget, StoreOp, StoreData, StoreEtag, StoreDirty
<1> QED BY <1>2, <1>3, <1>4, <1>5, <1>6, <1>7

(* The file is an object with conditional writes, which is what the log    *)
(* needs of its storage, while Writes and Deletes do not overlap each      *)
(* other: a Write takes effect when it truncates the file, a Read that     *)
(* none overlaps returns the object.                                       *)
THEOREM FileIsAnObject ==
  ASSUME Exclusive = TRUE, IsFiniteSet(Chunks)
  PROVE  Spec => ImplementsObjectStore
<1> USE ConstantsAssumption
<1>1. Init /\ PlaceInv /\ ContentsBounded => Store!Init
  <2> SUFFICES ASSUME Init, ContentsBounded PROVE Store!Init
    OBVIOUS
  <2>1. \A c \in Clients : /\ Idle(c) /\ ~Reading(c)
                           /\ client[c].data = Absent /\ client[c].etag = Absent
    BY NoCallType DEF Init, Idle, Reading
  <2>2. /\ StoreOp = [c \in Clients |-> "idle"]
        /\ StoreData = [c \in Clients |-> Absent]
        /\ StoreEtag = [c \in Clients |-> Absent]
    BY <2>1 DEF StoreOp, StoreData, StoreEtag
  <2>3. StoreDirty = [c \in Clients |-> FALSE]
    <3>1. \A c \in Clients : (c \in overlap) = FALSE
      BY DEF Init
    <3> QED BY <3>1, Zenon DEF StoreDirty
  <2> QED BY <2>2, <2>3
          DEF ContentsBounded, Store!Init, Store!Optional,
              StoreOp, StoreData, StoreEtag, StoreDirty
<1>2. /\ PlaceInv /\ PlaceInv' /\ ContentsBounded /\ ContentsBounded' /\ ValueKnown'
      /\ [Next]_vars
      => [Store!Next]_Store!vars
  <2> SUFFICES ASSUME PlaceInv, PlaceInv', ContentsBounded, ContentsBounded',
                      ValueKnown', [Next]_vars
               PROVE  [Store!Next]_Store!vars
    OBVIOUS
  <2>1. ASSUME NEW c \in Clients, CallRead(c) \/ CallWrite(c) \/ Step(c)
        PROVE  [Store!Next]_Store!vars
    BY <2>1, ReadsRefine, WritesRefine DEF Step, Store!Next
  <2>2. CASE Delete
    <3>1. /\ NoneFills /\ name' = Absent /\ UNCHANGED <<disk, client>>
          /\ overlap' = overlap \cup {c \in Clients : Reading(c)}
      BY <2>2 DEF Delete, MayModify, Disturb, Writing, NoneFills
    <3>2. Value' = Absent
      BY <3>1 DEF NoneFills, ValueKnown
    <3>3. UNCHANGED <<StoreOp, StoreData, StoreEtag>>
      BY <3>1 DEF StoreOp, StoreData, StoreEtag, Idle, Reading
    <3>4. StoreDirty' = [c \in Clients |-> StoreDirty[c] \/ StoreOp[c] = "read"]
      BY <3>1, DirtyDisturbed
    <3> QED BY <3>2, <3>3, <3>4
            DEF Store!Next, Store!Delete, Store!Disturb,
                StoreOp, StoreData, StoreEtag, StoreDirty
  <2>3. CASE UNCHANGED vars
    BY <2>3 DEF vars, Store!vars, Value, Idle, Reading
  <2> QED BY <2>1, <2>2, <2>3 DEF Next
<1>3. PlaceInv => ContentsBounded /\ ValueKnown
  BY BoundedContents, ValueIs DEF PlaceInv
<1> QED BY <1>1, <1>2, <1>3, PlaceInvariance, PTL
        DEF Spec, ImplementsObjectStore, Store!Spec

=============================================================================
