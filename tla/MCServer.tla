------------------------------ MODULE MCServer ------------------------------
(* Instances of Server for TLC. *)
EXTENDS Server

(* What clients put together; the rows r1 and r2 stand for VALUES lists,   *)
(* the first INSERT may be written before a line comment.                  *)
Pieces ==
  {<<"CREATE", "TABLE", "t", ";">>,
   <<"INSERT", "INTO", "t", "r1", ";">>,
   <<"INSERT", "INTO", "t", "r2", "--", "note", "NL", ";">>,
   <<"SELECT", "x", "FROM", "t", ";">>,
   <<"VACUUM", "t", ";">>,
   <<"DROP", "TABLE", "t", ";">>,
   <<"--", "note", "NL">>}

MorePieces ==
  Pieces \cup
  {<<"SELECT", "x", "NL", "FROM", "t", "NL">>,
   <<"--", "note", ";", "NL">>,
   <<"NL", ";">>}

(* Bodies of up to three pieces, or up to two of all of them. *)
Texts == {x \o y \o z : x, y, z \in Pieces \cup {<< >>}} \cup
         {x \o y : x, y \in MorePieces \cup {<< >>}}

=============================================================================
