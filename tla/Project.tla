------------------------------ MODULE Project ------------------------------
(***************************************************************************)
(* What is inside a ZIP: which members are unpacked and how                *)
(* (launcher/archive.py), and what the launcher then takes the project for *)
(* (launcher/detect.py).  Functions of one input, without state.           *)
(*                                                                         *)
(* A file is [dir, name, text]: the folders above it, its name, and what   *)
(* its contents amount to for whoever reads it.  A member of a ZIP also    *)
(* has a kind; every member counts as one unit of size.                    *)
(***************************************************************************)
EXTENDS Naturals, Sequences, FiniteSets

CONSTANTS Manifests,            \* what each launcher.yaml says, by its text
          MAX_ARCHIVE_ENTRIES,  \* members a ZIP may have
          MAX_EXTRACTED         \* members that may be unpacked

ASSUME ProjectConstants == {MAX_ARCHIVE_ENTRIES, MAX_EXTRACTED} \subseteq Nat

\* The folders a manifest names are paths.
ASSUME ManifestsAssumption ==
    \A text \in DOMAIN Manifests :
        {Manifests[text].backend, Manifests[text].frontend} \subseteq Seq(STRING)

-----------------------------------------------------------------------------
(* archive.py *)

JUNK_DIRS == {"node_modules", ".venv", "venv", "env", "__pycache__", ".git",
              ".next", "dist", "build", ".pytest_cache", ".mypy_cache",
              ".DS_Store", ".idea", ".vscode", "coverage", ".tox", ".cache"}

PartsOf(file) == Append(file.dir, file.name)
IsJunk(file)  == \E i \in DOMAIN PartsOf(file) : PartsOf(file)[i] \in JUNK_DIRS

\* Links and other special files are dropped, like everything below a junk
\* folder; a path that leads out of the project rejects the ZIP.
SafeMembers(zip) == {m \in zip.members : ~ IsJunk(m) /\ m.kind = "regular"}

Unreadable(zip) ==
    \/ ~ zip.readable
    \/ Cardinality(zip.members) > MAX_ARCHIVE_ENTRIES
    \/ \E m \in zip.members : m.kind = "outside"
    \/ Cardinality(SafeMembers(zip)) > MAX_EXTRACTED
    \/ SafeMembers(zip) = {}

Top(file) == Head(PartsOf(file))

\* Mutant: what a Mac adds beside the folder counts as one of the entries.
EveryTop(files) == {Top(f) : f \in files}

\* The entries a wrapper folder would have to be alone among.
TopEntries(files) == {Top(f) : f \in files} \ {"__MACOSX"}

IsWrapper(files, top) ==
    TopEntries(files) = {top} /\ \A f \in files : Top(f) = top => f.dir # <<>>

\* One wrapper folder is taken away, and whatever lay beside it goes too.
Unwrap(files) ==
    IF \E top \in TopEntries(files) : IsWrapper(files, top)
    THEN {[f EXCEPT !.dir = Tail(f.dir)] :
            f \in {g \in files : Top(g) \in TopEntries(files)}}
    ELSE files

Unpacked(zip) ==
    Unwrap({[dir |-> m.dir, name |-> m.name, text |-> m.text] : m \in SafeMembers(zip)})

-----------------------------------------------------------------------------
(* detect.py: the two halves, by what lies in the folders *)

BACKEND_HINTS  == <<"backend", "api", "server", "app", "src">>
FRONTEND_HINTS == <<"frontend", "web", "client", "ui", "app">>
ENTRIES        == {"main.py", "app.py", "server.py", "api.py", "run.py"}

NoDir == <<"(none)">>

DirsWith(files, name) == {f.dir : f \in {g \in files : g.name = name}}

\* The root first, then the conventional names in their order, then any folder
\* one level down, then two.
Distance(dir, hints) ==
    LET hinted == {i \in DOMAIN hints : dir = <<hints[i]>>}
    IN  IF dir = <<>> THEN 0
        ELSE IF hinted # {} THEN CHOOSE i \in hinted : TRUE
        ELSE Len(hints) + Len(dir)

\* Which of two folders at one distance comes first in the alphabet is left open.
FindDirContaining(files, name, hints) ==
    LET near == {d \in DirsWith(files, name) : Len(d) <= 2}
    IN  {d \in near : \A e \in near : Distance(d, hints) <= Distance(e, hints)}

\* _guess_start_command: Django's script, or a file that creates or runs an app.
Startable(files, dir) ==
    \E f \in files : /\ f.dir = dir
                     /\ f.name = "manage.py" \/ (f.name \in ENTRIES /\ f.text = "app")

\* Python files ("app" or "plain") at the root, or else one level down, count too.
BarePython(files) ==
    LET near == {f.dir : f \in {g \in files : g.text \in {"app", "plain"} /\ Len(g.dir) <= 1}}
    IN  IF <<>> \in near THEN {<<>>} ELSE near

BackendDirs(files) ==
    LET required == FindDirContaining(files, "requirements.txt", BACKEND_HINTS)
        project  == FindDirContaining(files, "pyproject.toml", BACKEND_HINTS)
    IN  IF required # {} THEN required
        ELSE IF project # {} THEN project
        ELSE BarePython(files)

\* A half is where it lies and whether it can be used.
NoHalf == [dir |-> NoDir, usable |-> TRUE]

Halves(dirs, Usable(_)) ==
    IF dirs = {} THEN {NoHalf} ELSE {[dir |-> d, usable |-> Usable(d)] : d \in dirs}

Backends(files) ==
    LET Starts(d) == Startable(files, d) IN Halves(BackendDirs(files), Starts)

\* A package.json has to parse and to have a build command.
Frontends(files) ==
    LET Builds(d) == [dir |-> d, name |-> "package.json", text |-> "build"] \in files
    IN  Halves(FindDirContaining(files, "package.json", FRONTEND_HINTS), Builds)

-----------------------------------------------------------------------------
(* detect.py: launcher.yaml *)

SERVER_SETTINGS == {"PORT", "APP_DATA_DIR", "PYTHONUNBUFFERED"}

\* An entry is [name, valid, required, default]; the last two are "yes", "no" or
\* "odd" for what cannot be read, and valid says whether the name is one.
Understood(entry) == "odd" \notin {entry.required, entry.default}
UsableKey(entry)  == entry.valid /\ entry.name \notin SERVER_SETTINGS

\* The names the server sets itself are left out, whatever is said of them.
DeclaredAt(entries) == {i \in DOMAIN entries : entries[i].name \notin SERVER_SETTINGS}

SettingsRejected(entries) ==
    \/ \E i \in DOMAIN entries : ~ Understood(entries[i])
    \/ \E i \in DeclaredAt(entries) : ~ UsableKey(entries[i])
    \/ \E i, j \in DeclaredAt(entries) : i # j /\ entries[i].name = entries[j].name

Needed(entries) ==
    {entries[i].name : i \in {j \in DeclaredAt(entries) :
                                entries[j].required = "yes" /\ entries[j].default = "no"}}

\* What a project is taken for.
Taken(backend, frontend, needs, accepted) ==
    [backend |-> backend.dir, frontend |-> frontend.dir, needs |-> needs,
     ok |-> accepted /\ backend.usable /\ frontend.usable
            /\ {backend.dir, frontend.dir} # {NoDir}]

\* A half the manifest names is taken at its word, but for a start command it
\* leaves to be guessed; if it names neither, the folders decide.
FromManifest(files, said) ==
    LET NamedBackend  == [dir |-> said.backend,
                          usable |-> said.starts \/ Startable(files, said.backend)]
        NamedFrontend == [dir |-> said.frontend, usable |-> TRUE]
        silent        == said.backend = NoDir /\ said.frontend = NoDir
        back  == IF silent THEN Backends(files)
                 ELSE IF said.backend = NoDir THEN {NoHalf}
                 ELSE {NamedBackend}
        front == IF silent THEN Frontends(files) ELSE {NamedFrontend}
    IN  {Taken(b, f, Needed(said.settings),
               said.parses /\ ~ SettingsRejected(said.settings)) : b \in back, f \in front}

\* Every outcome of detect: one, unless the alphabet has to decide.
ManifestsIn(files) == {f \in files : f.dir = <<>> /\ f.name \in {"launcher.yaml", "launcher.yml"}}

Detect(files) ==
    IF ManifestsIn(files) # {}
    THEN UNION {FromManifest(files, Manifests[m.text]) :
                  m \in {g \in ManifestsIn(files) :
                           g.name = "launcher.yaml" \/ Cardinality(ManifestsIn(files)) = 1}}
    ELSE {Taken(b, f, {}, TRUE) : b \in Backends(files), f \in Frontends(files)}
=============================================================================
