---------------------------- MODULE MCSavedFiles ----------------------------
(***************************************************************************)
(* Small instances of SavedFiles: the uploads among which people choose.   *)
(***************************************************************************)
EXTENDS SavedFiles

Member(dir, name, text) == [dir |-> dir, name |-> name, text |-> text, kind |-> "regular"]
Zip(members)            == [readable |-> TRUE, members |-> members]
Python(dir)             == {Member(dir, "requirements.txt", "data"), Member(dir, "main.py", "app")}
Brings(dir, names)      == {Member(Append(dir, "data"), n, "seed") : n \in names}
Page(dir)               == {Member(dir, "package.json", "build")}

\* A backend by itself, with one file of data.
Plain == Zip(Python(<<>>) \cup Brings(<<>>, {"rows"}))

\* Both halves in a folder of their own, with two files of data, with junk and
\* a link among the members.
Halved == Zip(Python(<<"my-app", "backend">>) \cup Page(<<"my-app", "frontend">>)
              \cup Brings(<<"my-app", "backend">>, {"rows", "notes"})
              \cup {Member(<<"my-app", "frontend", "node_modules">>, "main.py", "app"),
                    [Member(<<"my-app">>, "main.py", "app") EXCEPT !.kind = "link"],
                    Member(<<"__MACOSX">>, "._my-app", "data")})

\* A page only; nothing that runs; no ZIP at all.
PageOnly == Zip(Page(<<"web">>) \cup Brings(<<>>, {"rows"}))
Nothing  == Zip({Member(<<>>, "readme", "data"), Member(<<>>, "main.py", "plain")})
Garbled  == [readable |-> FALSE, members |-> {}]

\* A manifest that names its backend and asks for a setting.
Asking == Zip({Member(<<>>, "launcher.yaml", "asking"), Member(<<"tool">>, "tool.py", "plain")})

Entry(name, required, default) ==
    [name |-> name, valid |-> TRUE, required |-> required, default |-> default]

MCManifests ==
    [text \in {"asking"} |->
        [parses |-> TRUE, backend |-> <<"tool">>, starts |-> TRUE, frontend |-> NoDir,
         settings |-> <<Entry("KEY", "yes", "no"), Entry("PORT", "yes", "no"),
                        Entry("LEVEL", "yes", "yes")>>]]

MCZips    == {Plain, Halved, PageOnly, Nothing, Garbled, Asking}
=============================================================================
