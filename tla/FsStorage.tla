----------------------------- MODULE FsStorage -----------------------------
(***************************************************************************)
(* FSStorage: the log object of a table as one file.  Each system call of  *)
(* Read, Write and Delete is a step.  A content is a sequence of chunks,   *)
(* as they are read and written; its ETag, the MD5 of the content, is      *)
(* modelled by the content itself.  Clients do what withPersistedLog does: *)
(* read the log, add rows to it, write it with the ETag of what they read. *)
(***************************************************************************)
EXTENDS Naturals, Sequences, SequencesExt

CONSTANTS
  Clients,     \* goroutines and processes that use the storage
  Chunks,      \* what clients add to the log; bound: each once
  Inodes,      \* files ever created; bound: each once
  Exclusive,   \* TRUE: Writes and Deletes do not overlap each other
  Hole,        \* what a file holds where nothing was written
  Absent       \* no file, no content, no ETag

VARIABLES
  dir,     \* the directory of the file exists
  name,    \* the file that the path names, or Absent
  disk,    \* the content of every file ever created, or Absent
  client,  \* the call of each client
  unused,  \* chunks not yet added by a client
  overlap  \* history: the clients whose read a Write or Delete overlapped

vars == <<dir, name, disk, client, unused, overlap>>

ASSUME ConstantsAssumption ==
  /\ Exclusive \in BOOLEAN
  /\ Hole \notin Chunks
  /\ Absent \notin Inodes \cup Seq(Chunks \cup {Hole})

(***************************************************************************)
(* A client's call: the file it has open and the offset in it, the data    *)
(* read so far or to be written, cfg.etag of a Write.  held: a Read has    *)
(* returned data.                                                          *)
(***************************************************************************)
Call ==
  [pc   : {"idle", "open", "read", "held", "stat", "create", "mkdir", "chunk"},
   ino  : Inodes \cup {Absent},
   at   : Nat,
   data : Seq(Chunks) \cup {Absent},
   etag : Seq(Chunks) \cup {Absent}]

NoCall == [pc |-> "idle", ino |-> Absent, at |-> 0, data |-> Absent, etag |-> Absent]

Idle(c) == client[c].pc \in {"idle", "held"}

Reading(c) == client[c].pc \in {"open", "read"}

Writing(c) == client[c].pc \in {"stat", "create", "mkdir", "chunk"}

MayModify == Exclusive => \A c \in Clients : ~Writing(c)

Init ==
  /\ client = [c \in Clients |-> NoCall]
  /\ overlap = {}
  /\ \/ /\ dir \in BOOLEAN
        /\ name = Absent
        /\ disk = [i \in Inodes |-> Absent]
        /\ unused = Chunks
     \/ /\ dir = TRUE
        /\ \E i \in Inodes, x \in Chunks :
             /\ name = i
             /\ disk = [j \in Inodes |-> IF j = i THEN <<x>> ELSE Absent]
             /\ unused = Chunks \ {x}

(* Every read under way is overlapped. *)
Disturb == overlap' = overlap \cup {c \in Clients : Reading(c)}

(***************************************************************************)
(* Read: open, read up to the end of the file, ETag of what was read.      *)
(***************************************************************************)
CallRead(c) ==
  /\ Idle(c)
  /\ client' = [client EXCEPT ![c] = [NoCall EXCEPT !.pc = "open"]]
  /\ overlap' = IF \E b \in Clients : client[b].pc = "chunk"
                THEN overlap \cup {c} ELSE overlap
  /\ UNCHANGED <<dir, name, disk, unused>>

Open(c) ==
  /\ client[c].pc = "open"
  /\ IF name = Absent
     THEN /\ client' = [client EXCEPT ![c] = [NoCall EXCEPT !.pc = "held"]]
          /\ overlap' = overlap \ {c}
     ELSE /\ client' = [client EXCEPT ![c] = [NoCall EXCEPT
                          !.pc = "read", !.ino = name, !.at = 1, !.data = << >>]]
          /\ UNCHANGED overlap
  /\ UNCHANGED <<dir, name, disk, unused>>

ReadChunk(c) ==
  LET file == disk[client[c].ino] IN
  /\ client[c].pc = "read"
  /\ client[c].at <= Len(file)
  /\ client' = [client EXCEPT ![c].data = Append(@, file[client[c].at]),
                              ![c].at = @ + 1]
  /\ UNCHANGED <<dir, name, disk, unused, overlap>>

EndRead(c) ==
  /\ client[c].pc = "read"
  /\ client[c].at > Len(disk[client[c].ino])
  /\ client' = [client EXCEPT ![c] = [NoCall EXCEPT
               !.pc = "held", !.data = client[c].data]]
  /\ overlap' = overlap \ {c}
  /\ UNCHANGED <<dir, name, disk, unused>>

(***************************************************************************)
(* Write of what the client read and a chunk of its own, If-Match what it  *)
(* read: nothing to match when it read no file.                            *)
(***************************************************************************)
CallWrite(c) ==
  /\ client[c].pc = "held" /\ MayModify
  /\ \E x \in unused :
       /\ unused' = unused \ {x}
       /\ client' = [client EXCEPT ![c].pc = "stat", ![c].etag = client[c].data,
                       ![c].data = IF @ = Absent THEN <<x>> ELSE Append(@, x)]
  /\ UNCHANGED <<dir, name, disk, overlap>>

(* Mutant: the checksums are not compared. *)
ExistsOnly(etag) == etag = Absent \/ name # Absent

AsExpected(etag) == etag = Absent \/ (name # Absent /\ disk[name] = etag)

(* Stat reads the whole file; as a Write, it is one step. *)
Stat(c) ==
  /\ client[c].pc = "stat"
  /\ client' = [client EXCEPT ![c] =
                  IF AsExpected(@.etag) THEN [@ EXCEPT !.pc = "create"] ELSE NoCall]
  /\ UNCHANGED <<dir, name, disk, unused, overlap>>

(* Mutant: the old content stays until it is overwritten. *)
OpenedKeep(data) == IF data = Absent THEN << >> ELSE data

(* O_CREATE and O_TRUNC: the content of a file that was opened to write. *)
Opened(data) == << >>

Create(c) ==
  /\ client[c].pc = "create"
  /\ \/ /\ ~dir
        /\ client' = [client EXCEPT ![c].pc = "mkdir"]
        /\ UNCHANGED <<name, disk, overlap>>
     \/ /\ dir
        /\ \E i \in Inodes :
             /\ IF name = Absent THEN disk[i] = Absent ELSE i = name
             /\ name' = i
             /\ disk' = [disk EXCEPT ![i] = Opened(disk[i])]
             /\ client' = [client EXCEPT ![c].pc = "chunk", ![c].ino = i, ![c].at = 1]
        /\ Disturb
  /\ UNCHANGED <<dir, unused>>

(* os.WriteFile failed because the directory is missing: make it, retry. *)
MkdirAll(c) ==
  /\ client[c].pc = "mkdir"
  /\ dir' = TRUE
  /\ client' = [client EXCEPT ![c].pc = "create"]
  /\ UNCHANGED <<name, disk, unused, overlap>>

(* Mutant: the offset is one too far. *)
WriteAtNext(file, i, x) ==
  [j \in 1 .. i + 1 |-> IF j = i + 1 THEN x ELSE IF j <= Len(file) THEN file[j] ELSE Hole]

(* A file after a write of x at offset i. *)
WriteAt(file, i, x) ==
  [j \in 1 .. (IF i > Len(file) THEN i ELSE Len(file)) |->
     IF j = i THEN x ELSE IF j <= Len(file) THEN file[j] ELSE Hole]

WriteChunk(c) ==
  LET i == client[c].at IN
  /\ client[c].pc = "chunk"
  /\ i <= Len(client[c].data)
  /\ disk' = [disk EXCEPT ![client[c].ino] = WriteAt(@, i, client[c].data[i])]
  /\ client' = [client EXCEPT ![c].at = @ + 1]
  /\ UNCHANGED <<dir, name, unused, overlap>>

EndWrite(c) ==
  /\ client[c].pc = "chunk"
  /\ client[c].at > Len(client[c].data)
  /\ client' = [client EXCEPT ![c] = NoCall]
  /\ UNCHANGED <<dir, name, disk, unused, overlap>>

(* Delete; a missing file is no error. *)
Delete ==
  /\ MayModify
  /\ name' = Absent
  /\ Disturb
  /\ UNCHANGED <<dir, disk, client, unused>>

Step(c) ==
  \/ Open(c)
  \/ ReadChunk(c)
  \/ EndRead(c)
  \/ Stat(c)
  \/ Create(c)
  \/ MkdirAll(c)
  \/ WriteChunk(c)
  \/ EndWrite(c)

Next ==
  \/ \E c \in Clients : CallRead(c) \/ CallWrite(c) \/ Step(c)
  \/ Delete

Spec == Init /\ [][Next]_vars

-----------------------------------------------------------------------------
(***************************************************************************)
(* Properties.                                                             *)
(***************************************************************************)

(* Every variable has the shape the code gives it. *)
TypeOK ==
  /\ dir \in BOOLEAN
  /\ name \in Inodes \cup {Absent}
  /\ disk \in [Inodes -> Seq(Chunks \cup {Hole}) \cup {Absent}]
  /\ client \in [Clients -> Call]
  /\ unused \in SUBSET Chunks
  /\ overlap \in SUBSET Clients
  /\ name # Absent => dir /\ disk[name] # Absent

(* The object: what the Write under way writes, else the content of the    *)
(* file.                                                                   *)
Value ==
  IF \E c \in Clients : client[c].pc = "chunk"
  THEN client[CHOOSE c \in Clients : client[c].pc = "chunk"].data
  ELSE IF name = Absent THEN Absent ELSE disk[name]

(* A Write that has an ETag to match loses nothing that was written before *)
(* it, although its client may have read a file that another Write had     *)
(* truncated (Read, Write).                                                *)
NoLostUpdate ==
  [][\A c \in Clients :
       client[c].pc = "create" /\ client'[c].pc = "chunk" /\ client[c].etag # Absent
         => IsPrefix(Value, Value')]_vars

(* The file behaves as an object with conditional writes.                  *)
Store == INSTANCE ObjectStore WITH
  Contents <- BoundedSeq(Chunks, Cardinality(Chunks)),
  value    <- Value,
  op       <- [c \in Clients |->
                 IF Idle(c) THEN "idle" ELSE IF Reading(c) THEN "read"
                 ELSE IF client[c].pc = "chunk" THEN "written" ELSE "write"],
  data     <- [c \in Clients |-> IF Reading(c) THEN Absent ELSE client[c].data],
  etag     <- [c \in Clients |-> client[c].etag],
  dirty    <- [c \in Clients |-> c \in overlap]

ImplementsObjectStore == Store!Spec

=============================================================================
