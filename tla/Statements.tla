---------------------------- MODULE Statements -----------------------------
(***************************************************************************)
(* The text of a request as a sequence of tokens: words, ";", "--" where a *)
(* comment begins and "NL" for a line feed; blanks are left out.  Split    *)
(* and Parse are the code's reading of it, SqlStatements is DuckDB's.      *)
(* Quoted text and /* */ comments are left out.                            *)
(***************************************************************************)
EXTENDS Naturals, Sequences, SequencesExt, FiniteSetsExt

(***************************************************************************)
(* Parts of a sequence.                                                    *)
(***************************************************************************)
SplitBy(s, sep) ==
  FoldLeft(LAMBDA parts, x :
             IF x = sep THEN Append(parts, << >>)
             ELSE [parts EXCEPT ![Len(parts)] = Append(@, x)],
           << << >> >>, s)

(* The elements of s other than x. *)
Without(s, x) ==
  FoldLeft(LAMBDA kept, y : IF y = x THEN kept ELSE Append(kept, y), << >>, s)

(* strings.TrimSpace *)
Trim(s) ==
  LET dark == {i \in 1 .. Len(s) : s[i] # "NL"}
  IN IF dark = {} THEN << >> ELSE SubSeq(s, Min(dark), Max(dark))

FirstFrom(s, i, P(_)) ==
  LET at == {j \in i .. Len(s) : P(s[j])} IN IF at = {} THEN Len(s) + 1 ELSE Min(at)

(***************************************************************************)
(* SplitNonEmptyQueries: a query per semicolon; comment lines at the start *)
(* of a query become queries of their own.                                 *)
(***************************************************************************)
(* Mutant: what follows a leading comment is taken for a part of it. *)
CommentsSwallow(s) == IF Trim(s) = << >> THEN << >> ELSE <<Trim(s)>>

SeparateComments(s) ==
  LET from[i \in 1 .. Len(s) + 1] ==
        LET a == FirstFrom(s, i, LAMBDA x : x # "NL")
            b == FirstFrom(s, a, LAMBDA x : x = "NL")
        IN IF a > Len(s) THEN << >>
           ELSE IF s[a] # "--" \/ b > Len(s) THEN <<Trim(SubSeq(s, a, Len(s)))>>
           ELSE <<SubSeq(s, a, b - 1)>> \o from[b + 1]
  IN from[1]

SplitNonEmptyQueries(body) ==
  FoldLeft(LAMBDA queries, q : queries \o SeparateComments(q),
           << >>, SplitBy(body, ";"))

(***************************************************************************)
(* Parse: the operation and the table of a query, by regular expressions   *)
(* on its first words.  \s matches a line feed, the dot of selectRe does   *)
(* not.                                                                    *)
(***************************************************************************)
Blind(q) == Without(q, "NL")

InsertHeads ==
  {<<"INSERT", "INTO">>, <<"INSERT", "OR", "REPLACE", "INTO">>,
   <<"INSERT", "OR", "IGNORE", "INTO">>}

CreateHeads ==
  {<<"CREATE", "TABLE">>, <<"CREATE", "TEMP", "TABLE">>,
   <<"CREATE", "OR", "REPLACE", "TABLE">>, <<"CREATE", "OR", "REPLACE", "TEMP", "TABLE">>}

(* The heads that begin q and are followed by a name. *)
Heads(q, heads) ==
  {p \in heads : /\ IsPrefix(p, Blind(q))
                 /\ Len(Blind(q)) > Len(p)
                 /\ Blind(q)[Len(p) + 1] \notin {"--", ";"}}

NameAfter(q, heads) ==
  Blind(q)[Len(CHOOSE p \in Heads(q, heads) : TRUE) + 1]

(* What selectRe captures between SELECT and the blank end of the query. *)
SelectBody(q) ==
  LET last == {i \in 1 .. Len(q) : q[i] \notin {"NL", ";"}}
  IN Trim(SubSeq(q, 2, Max(last \cup {1})))

SelectMatches(q) ==
  LET b == SelectBody(q)
      table == Len(b) > 2 /\ b[Len(b) - 1] = "FROM" /\ b[Len(b)] # "--"
      dots == IF table THEN Trim(SubSeq(b, 1, Len(b) - 2)) ELSE b
  IN IF q = << >> \/ b = << >> THEN {}
     ELSE IF q[1] # "SELECT" \/ "NL" \in ToSet(dots) THEN {}
     ELSE {IF table THEN b[Len(b)] ELSE ""}

(* \S+ takes a semicolon after the name for a part of it. *)
VacuumTable(q) ==
  LET words == Blind(q)
      glued == \E i \in 2 .. Len(q) : q[i] = ";" /\ q[i - 1] = words[2]
  IN CASE Len(words) = 1 -> ""
       [] Len(words) > 1 /\ glued -> "name;"
       [] OTHER -> words[2]

Parse(query) ==
  LET q == Trim(query) IN
  CASE Heads(q, InsertHeads) # {} ->
         [op |-> "insert", table |-> NameAfter(q, InsertHeads)]
    [] Heads(q, CreateHeads) # {} ->
         [op |-> "create_table", table |-> NameAfter(q, CreateHeads)]
    [] SelectMatches(q) # {} ->
         [op |-> "select", table |-> CHOOSE t \in SelectMatches(q) : TRUE]
    [] Heads(q, {<<"ALTER", "TABLE">>}) # {} ->
         [op |-> "alter_table", table |-> NameAfter(q, {<<"ALTER", "TABLE">>})]
    [] IsPrefix(<<"VACUUM">>, Blind(q)) ->
         [op |-> "vacuum", table |-> VacuumTable(q)]
    [] Heads(q, {<<"DROP", "TABLE">>}) # {} ->
         [op |-> "drop_table", table |-> NameAfter(q, {<<"DROP", "TABLE">>})]
    [] OTHER -> [op |-> "unknown", table |-> ""]

-----------------------------------------------------------------------------
(***************************************************************************)
(* DuckDB's reading: comments run to the end of the line; semicolons       *)
(* outside comments separate statements.                                   *)
(***************************************************************************)
StripComments(s) ==
  FoldLeft(LAMBDA acc, x :
             [comment |-> x # "NL" /\ (acc.comment \/ x = "--"),
              text    |-> IF acc.comment \/ x \in {"--", "NL"} THEN acc.text
                          ELSE Append(acc.text, x)],
           [comment |-> FALSE, text |-> << >>], s).text

SqlStatements(body) ==
  Without(SplitBy(StripComments(body), ";"), << >>)

(* A semicolon stands in a comment: Split and DuckDB then disagree. *)
SemicolonInComment(body) ==
  \E i, j \in 1 .. Len(body) :
    /\ i < j /\ body[i] = "--" /\ body[j] = ";"
    /\ \A k \in i .. j : body[k] # "NL"

(* The word after the first x of statement w. *)
After(w, x) ==
  LET i == FirstFrom(w, 1, LAMBDA y : y = x) IN IF i < Len(w) THEN w[i + 1] ELSE ""

(* The statement that the words w are: its row is the word that stands for *)
(* the values of an INSERT.                                                *)
Sql(w) ==
  LET insert == w[1] = "INSERT"
      table == After(w, CASE insert -> "INTO" [] w[1] = "SELECT" -> "FROM"
                          [] w[1] = "VACUUM" -> "VACUUM" [] OTHER -> "TABLE")
  IN [verb  |-> w[1],
      table |-> table,
      row   |-> IF insert THEN After(w, table) ELSE ""]

=============================================================================
