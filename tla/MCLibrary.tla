----------------------------- MODULE MCLibrary -----------------------------
(***************************************************************************)
(* A small vault for Library: a note that links by name or by path, its    *)
(* target, another file with the target's file name, and a map of them.    *)
(***************************************************************************)
EXTENDS Library

Nothing == [kind \in Kinds |-> {}]
Disputes(name) == [Nothing EXCEPT !["contradicts"] = {name}]
Plain == [name |-> <<"a">>, path |-> <<"p", "a">>, links |-> {}, markdown |-> {}, cites |-> Nothing,
          type |-> "project", status |-> "active", audience |-> {"tech"}, broken |-> FALSE, text |-> 1 .. 8]

MCCorpus ==
  {[Plain EXCEPT !.links = l, !.status = s, !.cites = IF <<"b">> \in l THEN Disputes(<<"b">>) ELSE Nothing] :
     l \in {{<<"b">>}, {<<"..", "q", "b">>, <<"gone">>}}, s \in {"active", "quarantine"}}
  \cup {[Plain EXCEPT !.name = <<"b">>, !.path = <<"q", "b">>, !.audience = x, !.cites = c,
                       !.text = 5 .. 32] :
          x \in {{"tech"}, {"ops"}}, c \in {Nothing, Disputes(<<"a">>)}}
  \cup {[Plain EXCEPT !.name = <<"c">>, !.path = <<"p", "b">>, !.text = 5 .. 12,
                      !.cites = [Nothing EXCEPT !["supersedes"] = {<<"b">>}]],
        \* its frontmatter does not parse: it has the name of its file, and is private
        [Plain EXCEPT !.name = <<"b">>, !.path = <<"p", "b">>, !.type = "none", !.audience = {},
                      !.links = {<<"a">>}, !.broken = TRUE]}
  \cup {[Plain EXCEPT !.name = <<"hub">>, !.path = <<"hub">>, !.type = "moc",
                      !.links = {<<"a">>}, !.markdown = {<<"q", "b">>}, !.audience = x] : x \in {{"tech"}, {}}}

MCScopes == {{"*"}, {"tech"}}
MCAlphabet == <<"..", "a", "b", "c", "gone", "hub", "p", "q">>

\* The scores of a ranker, one of them below zero.
MCScores == {-1, 2}
=============================================================================
