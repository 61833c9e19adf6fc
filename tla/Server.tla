------------------------------- MODULE Server -------------------------------
(***************************************************************************)
(* A duckpond server from the HTTP request to its answer: the checks of    *)
(* RequestHandler, the endpoints, and the loop of handleQuery over the     *)
(* statements of a body.  A table is what the LOG database and the bucket  *)
(* amount to: the text of its CREATE TABLE, which every later statement    *)
(* runs again, its rows, and which of log and files are there.  A          *)
(* statement is one step (Duckpond takes it apart), which may stop         *)
(* half-way; requests come one at a time.                                  *)
(***************************************************************************)
EXTENDS Statements

CONSTANTS
  Bodies,       \* texts that clients send
  Tables,       \* names in them
  Absent,       \* no table
  MaxRequests,  \* bound: requests sent
  MaxFaults,    \* bound: storage failures
  MaxCrashes    \* bound: restarts

VARIABLES
  authToken,  \* BEARER_TOKEN is set
  splitting,  \* options.enableQuerySplitting
  tables,     \* the tables: text, rows, and the state of log and files
  req,        \* the request under way
  queue,      \* filteredQueries not yet executed
  status,     \* the HTTP status of the last answer, 0 when there was none
  before,     \* history: tables when the request arrived
  requests, faults, crashes   \* counters of the bounds

config == <<authToken, splitting>>
bounds == <<requests, faults, crashes>>
vars == <<config, tables, req, queue, status, before, bounds>>

(***************************************************************************)
(* What is there of a table:                                               *)
(*   whole  its log in the bucket, and the files that the log lists;       *)
(*   torn   the log, but a DROP has deleted files that it lists;           *)
(*   fresh  only its CREATE, in the LOG database: the export failed;       *)
(*   stuck  the same, and the LOG database lists files: no log can be      *)
(*          read from the bucket where the view of the table looks for it. *)
(***************************************************************************)
States == {"whole", "torn", "fresh", "stuck"}
Unsaved == {"fresh", "stuck"}

ASSUME ConstantsAssumption ==
  /\ Tables \subseteq STRING
  /\ Tables \cap {"", "NL", "--", ";", "name;"} = {}
  /\ Absent \notin [create : Seq(STRING), rows : Seq(STRING), state : States]
  /\ Absent \notin [rows : Seq(STRING), view : BOOLEAN, state : States]
  /\ {MaxRequests, MaxFaults, MaxCrashes} \subseteq Nat

(* The words that the model itself writes are strings: the prover does not *)
(* know it of a literal.                                                   *)
ASSUME WordsAssumption ==
  {"", "r0", ";", "NL", "INSERT", "INTO", "OR", "REPLACE", "IGNORE", "CREATE", "TEMP",
   "TABLE", "DROP", "VACUUM"} \subseteq STRING

(* The first words of the statements that the log knows. *)
KnownHeads == InsertHeads \cup CreateHeads \cup {<<"DROP", "TABLE">>, <<"VACUUM">>}

(* q is a comment, a SELECT, or a statement that the log knows: one that   *)
(* writes its first words and the name after them without a comment.       *)
Known(q) ==
  q # << >> => q[1] \in {"--", ";", "SELECT"} \/ Heads(q, KnownHeads) # {}

(* The code ignores a CREATE OR REPLACE of a table that exists.            *)
ASSUME BodiesAssumption ==
  \A body \in Bodies :
    /\ body \in Seq(STRING)
    /\ \A w \in ToSet(SqlStatements(body)) : ~IsPrefix(<<"CREATE", "OR">>, w)
    /\ ~SemicolonInComment(body) =>
         \A q \in ToSet(SplitNonEmptyQueries(body)) \cup {Trim(body)} : Known(q)

(* main mounts the handler on the first two paths, tests on all.            *)
Methods == {"POST", "GET", "OPTIONS"}
Paths == {"/query", "/parse", "/other"}

NoRequest ==
  [pc |-> "idle", method |-> "", bearer |-> FALSE, path |-> "", body |-> << >>]

(* A table made by an earlier CREATE TABLE. *)
Made(t, rows, state) ==
  [create |-> <<"CREATE", "TABLE", t>>, rows |-> rows, state |-> state]

(* No row or one, in each state that earlier requests may have left. *)
Starts == {<< << >>, "whole">>, << <<"r0">>, "whole">>, << <<"r0">>, "torn">>,
           << << >>, "fresh">>, << <<"r0">>, "stuck">>}

Init ==
  /\ authToken \in BOOLEAN /\ splitting \in BOOLEAN
  /\ tables \in [Tables -> {Absent}] \cup
                {[t \in Tables |-> Made(t, s[1], s[2])] : s \in Starts}
  /\ req = NoRequest /\ queue = << >> /\ status = 0
  /\ before = tables
  /\ requests = 0 /\ faults = 0 /\ crashes = 0

-----------------------------------------------------------------------------
(***************************************************************************)
(* DuckDB: what a text does to the tables and views of a transaction.      *)
(***************************************************************************)
Empty == [rows |-> << >>, view |-> FALSE, state |-> "whole"]

(* An export saves the log; deleted files stay deleted. *)
Exported(state) == IF state = "torn" THEN "torn" ELSE "whole"

In(table, state) == [table EXCEPT !.state = state]

Written(table, rows) == In([table EXCEPT !.rows = rows], Exported(table.state))

Runs(tx, s) ==
  CASE s.verb = "CREATE" -> s.table \in Tables /\ tx[s.table] = Absent
    [] s.verb \in {"INSERT", "DROP"} ->
         s.table \in Tables /\ tx[s.table] # Absent /\ ~tx[s.table].view
    [] s.verb = "VACUUM" ->
         /\ s.table \in Tables /\ tx[s.table] # Absent /\ ~tx[s.table].view
         /\ tx[s.table].state # "stuck"
    [] s.verb = "SELECT" ->
         \/ s.table = ""
         \/ /\ s.table \in Tables /\ tx[s.table] # Absent
            /\ tx[s.table].state \in {"whole", "fresh"}
    [] OTHER -> TRUE

Effect(tx, s) ==
  IF ~Runs(tx, s) THEN tx
  ELSE CASE s.verb = "CREATE" -> [tx EXCEPT ![s.table] = Empty]
         [] s.verb = "INSERT" ->
              [tx EXCEPT ![s.table] = Written(@, Append(@.rows, s.row))]
         [] s.verb = "VACUUM" -> [tx EXCEPT ![s.table] = Written(@, @.rows)]
         [] s.verb = "DROP"   -> [tx EXCEPT ![s.table] = Absent]
         [] OTHER -> tx

Effects(tx, statements) == FoldLeft(LAMBDA x, w : Effect(x, Sql(w)), tx, statements)

(* A text runs if each of its statements does, after those before it. *)
AllRun(tx, statements) ==
  \A i \in 1 .. Len(statements) :
    Runs(Effects(tx, SubSeq(statements, 1, i - 1)), Sql(statements[i]))

-----------------------------------------------------------------------------
(***************************************************************************)
(* A statement in handleQuery.                                             *)
(***************************************************************************)
NoTables == [t \in Tables |-> Absent]

Exists(t) == t \in Tables /\ tables[t] # Absent

(* The DATA transaction after CreateViewOfParquet or CreateTempTable. *)
Prepared(p) ==
  IF ~Exists(p.table) THEN NoTables
  ELSE IF /\ p.op \in {"select", "vacuum"}
          /\ \/ tables[p.table].rows # << >>
             \/ tables[p.table].state \in {"torn", "stuck"}
  THEN [NoTables EXCEPT ![p.table] = [rows |-> tables[p.table].rows, view |-> TRUE,
                                      state |-> tables[p.table].state]]
  ELSE Effects(NoTables, SqlStatements(tables[p.table].create))

(* ExecuteQuery, and what the statement needs after it: INSERT and VACUUM  *)
(* copy the table from the transaction.  The view of a stuck table cannot  *)
(* be made, and that of a torn one not be read.                            *)
Succeeds(q) ==
  LET p == Parse(q)
      tx == Prepared(p)
      ran == Effects(tx, SqlStatements(q))
  IN CASE p.op = "drop_table" -> TRUE
       [] p.op = "vacuum" ->
            /\ Exists(p.table) /\ tx[p.table] # Absent
            /\ tx[p.table].state # "stuck"
       [] p.op = "insert" ->
            /\ AllRun(tx, SqlStatements(q))
            /\ p.table \in Tables /\ ran[p.table] # Absent
       [] OTHER -> AllRun(tx, SqlStatements(q))

(* Mutant: whatever a statement runs on a table becomes its CREATE TABLE. *)
CommittedAsDDL(q) ==
  LET p == Parse(q) IN
  IF p.op \in {"create_table", "insert"} /\ p.table \in Tables
  THEN [tables EXCEPT ![p.table] = [create |-> q, rows |-> << >>, state |-> "whole"]]
  ELSE tables

(* VACUUM would copy a table whose files are gone. *)
CopiesTorn(q) ==
  LET p == Parse(q) IN p.op = "vacuum" /\ Exists(p.table) /\ tables[p.table].state = "torn"

(* What the statement leaves when it runs to its end.  The DATA            *)
(* transaction itself is rolled back.                                      *)
Committed(q) ==
  LET p == Parse(q)
      ran == Effects(Prepared(p), SqlStatements(q))
  IN IF p.table \notin Tables THEN tables
     ELSE CASE p.op = "create_table" /\ ~Exists(p.table) ->
                 [tables EXCEPT ![p.table] =
                    [create |-> q, rows |-> << >>, state |-> "whole"]]
            [] p.op = "insert" ->
                 [tables EXCEPT ![p.table] = Written(@, @.rows \o ran[p.table].rows)]
            [] p.op = "vacuum" ->
                 [tables EXCEPT ![p.table] = Written(@, Prepared(p)[p.table].rows)]
            [] p.op = "drop_table" -> [tables EXCEPT ![p.table] = Absent]
            [] OTHER -> tables

(* The statement goes through the log. *)
Logged(q) == Parse(q).op \in {"create_table", "insert", "vacuum", "drop_table"}

Saved(t) == Exists(t) /\ tables[t].state \notin Unsaved

(* A statement parses to p and leaves the tables new when it runs to its   *)
(* end: what it leaves when it stops before its last call to the bucket.   *)
(* withPersistedLog changes the LOG database first, and a later import     *)
(* undoes that if the bucket has a log; Destroy deletes the files first,   *)
(* and has closed the LOG database when it deletes the log.                *)
StoppedBefore(p, new) ==
  CASE p.table \notin Tables -> tables
    [] p.table \in Tables /\ p.op = "create_table" /\ ~Exists(p.table) ->
         [new EXCEPT ![p.table] = In(@, "fresh")]
    [] p.op \in {"insert", "vacuum"} /\ Exists(p.table) /\ ~Saved(p.table) ->
         [new EXCEPT ![p.table] = In(@, "stuck")]
    [] p.op = "drop_table" /\ Saved(p.table) ->
         [tables EXCEPT ![p.table] = In(@, "torn")]
    [] p.op = "drop_table" /\ p.table \in Tables /\ ~Saved(p.table) -> new
    [] OTHER -> tables

HalfDone(q) == StoppedBefore(Parse(q), Committed(q))

(* The outcomes of a statement whose calls to the bucket fail or lose      *)
(* their answers.  The CREATE of a missing table is recorded before its    *)
(* one write, and only the LOG database knows of an unsaved one.           *)
Outcomes(p, new) ==
  {new, StoppedBefore(p, new)} \cup
  {x \in {tables} : ~(p.op \in {"create_table", "drop_table"} /\ ~Saved(p.table))}

Interrupted(q) == Outcomes(Parse(q), Committed(q))

(* A restart begins with empty LOG databases. *)
Forget(tabs) ==
  [t \in Tables |-> IF tabs[t] # Absent /\ tabs[t].state \in Unsaved THEN Absent
                    ELSE tabs[t]]

-----------------------------------------------------------------------------
(***************************************************************************)
(* RequestHandler.                                                         *)
(***************************************************************************)
(* The header of a request is only looked at when a token is set. *)
Arrive(method, bearer, path) ==
  /\ req.pc = "idle"
  /\ bearer => authToken
  /\ requests < MaxRequests
  /\ requests' = requests + 1
  /\ req' = [pc |-> "check", method |-> method, bearer |-> bearer,
             path |-> path, body |-> << >>]
  /\ before' = tables /\ status' = 0
  /\ UNCHANGED <<config, tables, queue, faults, crashes>>

(* The answer; req keeps the body for the properties. *)
Answer(code) ==
  /\ req' = [req EXCEPT !.pc = "idle"]
  /\ queue' = << >>
  /\ status' = code

Allowed == authToken => req.bearer

Reject ==
  /\ req.pc = "check"
  /\ \/ ~Allowed /\ Answer(401)
     \/ Allowed /\ req.method = "OPTIONS" /\ Answer(200)
     \/ Allowed /\ req.method = "GET" /\ Answer(405)
     \/ Allowed /\ req.method = "POST" /\ Answer(400)   \* reading the body fails
  /\ UNCHANGED <<config, tables, before, bounds>>

PostEndpoint(body) ==
  /\ req.pc = "check"
  /\ Allowed /\ req.method = "POST"
  /\ \/ /\ req.path = "/query"
        /\ req' = [req EXCEPT !.pc = "run", !.body = body]
        /\ queue' = IF splitting THEN SplitNonEmptyQueries(body) ELSE <<Trim(body)>>
        /\ UNCHANGED status
     \/ req.path = "/parse" /\ Answer(200)
     \/ req.path = "/other" /\ Answer(400)
  /\ UNCHANGED <<config, tables, before, bounds>>

(***************************************************************************)
(* handleQuery.                                                            *)
(***************************************************************************)
Running == req.pc = "run" /\ queue # << >>

RunStatement ==
  /\ Running
  /\ Succeeds(Head(queue))
  /\ tables' = Committed(Head(queue))
  /\ queue' = Tail(queue)
  /\ UNCHANGED <<config, req, status, before, bounds>>

(* Mutant: the next statement is run although this one failed. *)
StatementSkipped ==
  /\ Running
  /\ ~Succeeds(Head(queue))
  /\ queue' = Tail(queue)
  /\ UNCHANGED <<config, tables, req, status, before, bounds>>

(* The tombstones of a torn table may let its VACUUM end before the copy.  *)
StatementFails ==
  /\ Running
  /\ ~Succeeds(Head(queue)) \/ CopiesTorn(Head(queue))
  /\ Answer(400)
  /\ UNCHANGED <<config, tables, before, bounds>>

(* A call to the bucket fails, or its answer is lost. *)
StorageFails ==
  /\ Running
  /\ Succeeds(Head(queue)) /\ Logged(Head(queue))
  /\ faults < MaxFaults
  /\ faults' = faults + 1
  /\ tables' \in Interrupted(Head(queue))
  /\ Answer(400)
  /\ UNCHANGED <<config, before, requests, crashes>>

Respond ==
  /\ req.pc = "run" /\ queue = << >>
  /\ Answer(200)
  /\ UNCHANGED <<config, tables, before, bounds>>

(* The server stops, between two calls of a statement or anywhere else. *)
Crash ==
  /\ crashes < MaxCrashes
  /\ req.pc # "idle"
  /\ crashes' = crashes + 1
  /\ \E left \in {tables} \cup
       (IF Running /\ Succeeds(Head(queue)) THEN Interrupted(Head(queue)) ELSE {}) :
         tables' = Forget(left)
  /\ Answer(0)
  /\ UNCHANGED <<config, before, requests, faults>>

(* No request is under way: the system may rest. *)
Rest == req.pc = "idle" /\ UNCHANGED vars

Handle ==
  \/ Reject
  \/ \E body \in Bodies : PostEndpoint(body)
  \/ RunStatement \/ StatementFails \/ StorageFails
  \/ Respond

Next ==
  \/ \E m \in Methods, b \in BOOLEAN, p \in Paths : Arrive(m, b, p)
  \/ Handle
  \/ Crash
  \/ Rest

Spec == Init /\ [][Next]_vars

-----------------------------------------------------------------------------
(***************************************************************************)
(* Properties.                                                             *)
(***************************************************************************)

(* Every variable has the shape the code gives it; the text kept with a    *)
(* table creates that table.                                               *)
TypeOK ==
  /\ authToken \in BOOLEAN /\ splitting \in BOOLEAN
  /\ \A t \in Tables :
       tables[t] # Absent =>
         /\ Parse(tables[t].create) = [op |-> "create_table", table |-> t]
         /\ tables[t].state \in States
  /\ req.pc \in {"idle", "check", "run"}
  /\ queue # << >> => req.pc = "run"
  /\ status \in {0, 200, 400, 401, 405}
  /\ {requests, faults, crashes} \subseteq Nat

(* Split and Parse read a body as DuckDB does: with splitting, the queries *)
(* are the SQL statements of the body, in order, each with at most one;    *)
(* and a statement that writes a table is logged as what it is, for the    *)
(* table it names (SplitNonEmptyQueries, Parse).                           *)
ReadsAsDuckDB ==
  LET queries == SplitNonEmptyQueries(req.body) IN
  req.pc = "run" /\ ~SemicolonInComment(req.body) =>
    /\ FlattenSeq([i \in 1 .. Len(queries) |-> SqlStatements(queries[i])])
         = SqlStatements(req.body)
    /\ \A q \in ToSet(queries) :
         LET w == SqlStatements(q) IN
         IF w = << >> \/ Sql(w[1]).verb = "SELECT" THEN ~Logged(q)
         ELSE Logged(q) /\ Len(w) = 1 /\ Parse(q).table = Sql(w[1]).table

(* The tables without the text kept with them. *)
Plain(tabs) ==
  [t \in Tables |-> IF tabs[t] = Absent THEN Absent
                   ELSE [rows |-> tabs[t].rows, view |-> FALSE, state |-> tabs[t].state]]

(* The statements that the server is asked to run. *)
Asked ==
  IF Allowed /\ req.method = "POST" /\ req.path = "/query"
  THEN SqlStatements(req.body) ELSE << >>

(* The requests whose answers say what happened: several statements, or a  *)
(* comment or semicolon before one, take splitting, a semicolon may not    *)
(* stand in a comment, and the tables were created by single statements.   *)
Ordinary ==
  /\ ~SemicolonInComment(req.body)
  /\ \/ splitting
     \/ /\ Len(SqlStatements(req.body)) <= 1
        /\ Trim(req.body) # << >> => Trim(req.body)[1] \notin {"--", ";"}
  /\ \A t \in Tables : before[t] # Absent => Len(SqlStatements(before[t].create)) = 1

(* What a statement may leave that stops before its end: a table that only *)
(* the server knows, rows that are not saved, or a log without its files.  *)
Partial(tx, s) ==
  CASE s.table \notin Tables -> tx
    [] s.table \in Tables /\ s.verb = "CREATE" /\ tx[s.table] = Absent ->
         [Effect(tx, s) EXCEPT ![s.table] = In(@, "fresh")]
    [] /\ s.table \in Tables /\ s.verb \in {"INSERT", "VACUUM"}
       /\ tx[s.table] # Absent /\ tx[s.table].state \in Unsaved ->
         [Effect(tx, s) EXCEPT ![s.table] = In(@, "stuck")]
    [] /\ s.table \in Tables /\ s.verb = "DROP"
       /\ tx[s.table] # Absent /\ tx[s.table].state \notin Unsaved ->
         [tx EXCEPT ![s.table] = In(@, "torn")]
    [] OTHER -> tx

(* The effects of the first n statements asked, and those with what the    *)
(* next one leaves that stops.                                             *)
First(from, asked, n) == Effects(from, SubSeq(asked, 1, n))

FirstAndPartial(from, asked, n) ==
  IF n < Len(asked) THEN Partial(First(from, asked, n), Sql(asked[n + 1]))
  ELSE First(from, asked, n)

(* The statements run one after the other and each once.  A request that   *)
(* is answered with success ran them all, and a DROP of a missing table is *)
(* the only one that may have nothing to do; one that fails leaves the     *)
(* effects of the first ones, and of the next at most what Partial says;   *)
(* one that loses its server leaves the same without what only the server  *)
(* knew; a request that is refused has none (RequestHandler, handleQuery,  *)
(* withPersistedLog, Log.Destroy).                                         *)
BatchIsPrefix ==
  LET from == Plain(before)
      Done(n) == Plain(tables) = First(from, Asked, n)
      left == FlattenSeq([i \in 1 .. Len(queue) |-> SqlStatements(queue[i])])
  IN Ordinary =>
       CASE req.pc = "check" -> Done(0)
         [] req.pc = "run" ->
              Len(left) <= Len(Asked) /\ Done(Len(Asked) - Len(left))
         [] req.pc = "idle" /\ status = 200 ->
              /\ Done(Len(Asked))
              /\ \A i \in 1 .. Len(Asked) :
                   \/ Sql(Asked[i]).verb = "DROP"
                   \/ Runs(First(from, Asked, i - 1), Sql(Asked[i]))
         [] req.pc = "idle" /\ status = 0 ->
              \/ requests = 0 /\ Done(0)
              \/ \E n \in 0 .. Len(Asked) :
                   \/ Plain(tables) = Forget(First(from, Asked, n))
                   \/ Plain(tables) = Forget(FirstAndPartial(from, Asked, n))
         [] OTHER ->
              \E n \in 0 .. Len(Asked) :
                Done(n) \/ Plain(tables) = FirstAndPartial(from, Asked, n)

=============================================================================
