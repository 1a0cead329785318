------------------------------- MODULE MCSearch -------------------------------
(***************************************************************************)
(* Instances of Search for TLC: a paper with a table whose second parse    *)
(* differs, and a note that shares a text with it.  Words are numbers.     *)
(***************************************************************************)
EXTENDS Search

Text(digest, terms) ==
  [text |-> digest, terms |-> terms, indexed |-> TRUE, parent |-> 0, cells |-> {}]
Parent(digest) == [Text(digest, {}) EXCEPT !.indexed = FALSE]
Row(digest, terms, parent, cells) ==
  [Text(digest, terms) EXCEPT !.parent = parent, !.cells = cells]

\* The second parse finds no table; the note is one chunk, and then nothing.
MCLayout ==
  <<  << <<Parent(2), Row(1, {1}, 1, {1}), Row(4, {1, 2}, 1, {1})>>,
         <<Text(5, {2})>> >>,
      << <<Text(1, {2})>>, <<>> >>  >>
MCDocs == 1..2
MCModels == <<"e5", "other">>
MCMember == {2}
Documents(docs) == [type |-> "documents", docs |-> docs]
Wide(type) == [type |-> type, docs |-> {}]
Ask(scope, query, topK, match, strategy) ==
  [scope |-> scope, query |-> query, topK |-> topK, match |-> match, strategy |-> strategy]
MCRequests == {
  Ask(Documents({1, 2}), {1}, 2, 1, "legacy"),
  Ask(Documents({1, 2}), {1, 2}, 3, 2, "cell_coverage"),
  Ask(Wide("all"), {1}, 3, 1, "cell_coverage"),
  Ask(Wide("all"), {1, 2}, 3, 1, "legacy"),
  Ask(Wide("collection"), {2}, 1, 3, "legacy")}
=============================================================================
