---------------------------- MODULE ObjectStore ----------------------------
(***************************************************************************)
(* What the Log needs of its storage, for the one object it writes: a      *)
(* write takes effect at one instant, and with If-Match only if the object *)
(* still is what the ETag names; a read that no write overlaps returns the *)
(* object; a read that one does overlap may return anything.               *)
(***************************************************************************)
CONSTANTS
  Clients,    \* goroutines and processes that use the storage
  Contents,   \* what the object can hold
  Absent      \* no object, no precondition

VARIABLES
  value,   \* the object, or Absent
  op,      \* what each client is doing
  data,    \* what its last read returned, or what it writes
  etag,    \* the precondition of its write, or Absent
  dirty    \* a write or delete took effect while it reads, or is under way

vars == <<value, op, data, etag, dirty>>

Optional == Contents \cup {Absent}

Init ==
  /\ value \in Optional
  /\ op = [c \in Clients |-> "idle"]
  /\ data = [c \in Clients |-> Absent]
  /\ etag = [c \in Clients |-> Absent]
  /\ dirty = [c \in Clients |-> FALSE]

Forget(c) ==
  /\ data' = [data EXCEPT ![c] = Absent]
  /\ etag' = [etag EXCEPT ![c] = Absent]

(* Every read under way is overlapped. *)
Disturb == dirty' = [c \in Clients |-> dirty[c] \/ op[c] = "read"]

StartRead(c) ==
  /\ op[c] = "idle"
  /\ op' = [op EXCEPT ![c] = "read"]
  /\ dirty' = [dirty EXCEPT ![c] = \E b \in Clients : op[b] = "written"]
  /\ Forget(c)
  /\ UNCHANGED value

EndRead(c) ==
  /\ op[c] = "read"
  /\ op' = [op EXCEPT ![c] = "idle"]
  /\ \E d \in Optional :
       /\ dirty[c] \/ d = value
       /\ data' = [data EXCEPT ![c] = d]
  /\ dirty' = [dirty EXCEPT ![c] = FALSE]
  /\ UNCHANGED <<value, etag>>

StartWrite(c) ==
  /\ op[c] = "idle"
  /\ op' = [op EXCEPT ![c] = "write"]
  /\ \E d \in Contents, e \in Optional :
       /\ data' = [data EXCEPT ![c] = d]
       /\ etag' = [etag EXCEPT ![c] = e]
  /\ UNCHANGED <<value, dirty>>

TakeEffect(c) ==
  /\ op[c] = "write"
  /\ etag[c] \in {Absent, value}
  /\ op' = [op EXCEPT ![c] = "written"]
  /\ value' = data[c]
  /\ Disturb
  /\ UNCHANGED <<data, etag>>

Refuse(c) ==
  /\ op[c] = "write"
  /\ etag[c] \notin {Absent, value}
  /\ op' = [op EXCEPT ![c] = "idle"]
  /\ Forget(c)
  /\ UNCHANGED <<value, dirty>>

EndWrite(c) ==
  /\ op[c] = "written"
  /\ op' = [op EXCEPT ![c] = "idle"]
  /\ Forget(c)
  /\ UNCHANGED <<value, dirty>>

Delete ==
  /\ value' = Absent
  /\ Disturb
  /\ UNCHANGED <<op, data, etag>>

Next ==
  \/ \E c \in Clients :
       StartRead(c) \/ EndRead(c) \/ StartWrite(c) \/ TakeEffect(c)
         \/ Refuse(c) \/ EndWrite(c)
  \/ Delete

Spec == Init /\ [][Next]_vars

=============================================================================
