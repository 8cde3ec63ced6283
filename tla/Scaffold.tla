------------------------------ MODULE Scaffold ------------------------------
(***************************************************************************)
(* The generator: scripts/init.mjs tailors a clone of the scaffold once,   *)
(* scripts/add.mjs, rename-app.mjs and new-app.mjs change the generated    *)
(* project later.  One tool runs at a time and may stop between any two of *)
(* its steps (a failing install or build, an interrupted terminal, a full  *)
(* disk); the files it has written stay.                                   *)
(*                                                                         *)
(* A kebab-case name is the sequence of its words.  A path is a pair: the  *)
(* directory below apps/ (Root outside of it) and what stands there.  Text *)
(* is kept to what the tools look for: the blocks of a capability, its     *)
(* markers, the package scope, the places where an app is registered.      *)
(***************************************************************************)
EXTENDS Naturals, SequencesExt

CONSTANTS
  Clients,        \* the client apps of the scaffold considered
  ProjectNames,   \* names given to init
  FreeNames,      \* names given to rename-app and new-app
  Picks,          \* sets of capabilities asked for
  MaxRuns         \* bound on the tools ever started

Root == << >>
Api  == <<"api">>
Apps == {"api"} \cup Clients

\* The manifest of components and capabilities.
Docker     == Apps \ {"mobile"}
Standalone == Apps \ {"api"}
AppOrder   == <<"api", "web", "web-next", "mobile">>

CapOrder   == <<"auth", "messaging", "realtime", "featureflags", "metrics", "compliance", "tasks">>
AllCaps    == ToSet(CapOrder)
Selectable == AllCaps \ {"tasks"}
LibCaps    == AllCaps \ {"metrics", "tasks"}
Requires(c) == IF c \in {"messaging", "realtime", "compliance"} THEN {"auth"} ELSE {}

ASSUME ScaffoldAssumption ==
  /\ Clients \subseteq {"web", "web-next", "mobile"}
  /\ ProjectNames \cup FreeNames \subseteq Seq(STRING) \ {Root}
  /\ \A picked \in Picks : picked \subseteq Selectable   \* others are refused
  /\ MaxRuns \in Nat

Modules == [auth |-> <<"auth", "users">>, messaging |-> <<"notifications">>,
            compliance |-> <<"compliance">>, tasks |-> <<"tasks">>,
            realtime |-> << >>, featureflags |-> << >>, metrics |-> << >>]
MigrationOf(c) == IF c \in AllCaps \ {"realtime", "metrics"} THEN <<<<Root, <<"migration", c>>>>>> ELSE << >>
CapDirs(c) == (IF c \in LibCaps THEN <<<<Root, <<"lib", c>>>>>> ELSE << >>)
              \o [i \in 1..Len(Modules[c]) |-> <<Api, <<"module", Modules[c][i]>>>>]
CapPlaces(c) == ToSet(CapDirs(c) \o MigrationOf(c))

\* Shared files with blocks of capabilities: what holds the file, what it carries.
Holder == [app |-> <<"app", "api">>, main |-> <<"app", "api">>, appAuth |-> <<"module", "auth">>,
           notifications |-> <<"module", "notifications">>, wiring |-> <<"module", "compliance">>]
Carries == [app |-> AllCaps, main |-> {"auth", "messaging", "metrics", "tasks"},
            appAuth |-> {"messaging"}, notifications |-> {"realtime"},
            wiring |-> {"messaging", "tasks"}, env |-> Selectable]
Env == <<Root, "env">>
SentinelFiles == {<<Api, f>> : f \in DOMAIN Holder} \cup {Env}

PristineTree  == {<<<<o>>, <<"app", o>>>> : o \in Apps}
                 \cup {<<<<o>>, <<"sample", o>>>> : o \in Clients \ {"web-next"}}
                 \cup UNION {CapPlaces(c) : c \in AllCaps}
PristineWired == {w \in SentinelFiles \X AllCaps : w[2] \in Carries[w[1][2]]}

VARIABLES
  tree,        \* directories (and migrations, samples, e2e suites) there are
  wired,       \* <<file, capability>>: the file holds the blocks of the capability
  marked,      \* files whose blocks still have their markers
  unscoped,    \* parts of the tree with the scope of the scaffold
  aliases,     \* capabilities with a path alias in tsconfig.base.json
  deps,        \* <<directory, capability>>: library dependencies of an app
  ci, audit, scripts,   \* apps in the image matrices, the audit matrix, the dev: scripts
  manifest,    \* .clevscaffold.json
  apiDir,      \* where the api of the scaffold has been moved to (for the properties)
  guides,      \* <<file, capability>>: sections of docs/wiring-<capability>.md
  initScript,  \* scripts/init.mjs exists
  tool,        \* the tool that is running
  scars,       \* what has gone wrong or unusually so far, for the properties
  runs         \* tools started

files    == <<tree, wired, marked, unscoped, aliases, deps>>
registry == <<ci, audit, scripts, apiDir>>
vars     == <<files, registry, manifest, guides, initScript, tool, scars, runs>>

NoManifest == [made |-> FALSE, caps |-> {}, renames |-> {}]
NoTool == [kind |-> "none", pc |-> "idle", name |-> Root, to |-> Root, keep |-> {}, minimal |-> FALSE,
           caps |-> {}, todo |-> << >>, done |-> {}]

Idle         == tool.kind = "none"
DirExists(d) == \E p \in tree : p[1] = d
FileExists(f, t) == f = Env \/ (f[2] \in DOMAIN Holder /\ <<f[1], Holder[f[2]]>> \in t)
Local(d) == IF \E r \in manifest.renames : <<r[1]>> = d
            THEN (CHOOSE r \in manifest.renames : <<r[1]>> = d)[2] ELSE d

\* Blocks are found by their markers; the lines between go with them.
WithoutBlocks(fs, caps) == wired \ ((fs \cap marked) \X caps)
WithoutMarkers(fs)      == marked \ fs
\* The shell of a client replaces its sample, which needs auth and tasks.
WithoutSamples(ds)      == {p \in tree : ~ (p[1] \in ds /\ p[2][1] = "sample")}
AppendTo(list, d, wanted) == IF wanted THEN list \cup {d} ELSE list

ScaffoldTypeOK ==
  /\ \A p \in tree : p[1] \in Seq(STRING) /\ (p[2][1] \in {"lib", "migration"}) = (p[1] = Root)
  /\ \A w \in wired : FileExists(w[1], tree) /\ w[2] \in Carries[w[1][2]]
  /\ \A f \in marked : FileExists(f, tree)
  /\ unscoped \subseteq tree
  /\ aliases \subseteq LibCaps
  /\ \A d \in deps : d[2] \in LibCaps
  /\ ci \cup audit \cup scripts \subseteq Seq(STRING) \ {Root}
  /\ manifest.caps \subseteq Selectable
  /\ \A r \in manifest.renames : r[1] \in Apps
  /\ \A g \in guides : g[1] # Env
  /\ tool.kind \in {"none", "init", "add", "rename", "new"}
  /\ runs \in 0..MaxRuns

ScaffoldInit ==
  /\ tree = PristineTree
  /\ wired = PristineWired
  /\ marked = SentinelFiles
  /\ unscoped = PristineTree
  /\ aliases = LibCaps
  /\ deps = {Api} \X LibCaps
  /\ ci = {<<o>> : o \in Docker}
  /\ audit = {<<o>> : o \in Standalone}
  /\ scripts = {<<o>> : o \in Apps}
  /\ apiDir = Api
  /\ manifest = NoManifest
  /\ guides = {}
  /\ initScript = TRUE
  /\ tool = NoTool
  /\ scars = {}
  /\ runs = 0

Start(started) ==
  /\ Idle
  /\ runs < MaxRuns
  /\ runs' = runs + 1
  /\ tool' = started
At(kind, pc) == tool.kind = kind /\ tool.pc = pc
Goto(pc) == tool' = [tool EXCEPT !.pc = pc]
Done == tool' = NoTool

\* A command fails or the run is interrupted after something has been written.
Stop ==
  /\ tool.pc \notin {"idle", "begin"}
  /\ scars' = scars \cup {tool.kind}
  /\ Done
  /\ UNCHANGED <<files, registry, manifest, guides, initScript, runs>>

-----------------------------------------------------------------------------
(* renameApp: the directory and every reference to it *)

Moved(d, from, to) == IF d = from THEN to ELSE d
\* Mutation: the app keeps its old name in the image matrices.
RenameAppPathsOnly(from, to) ==
  LET Path(p) == <<Moved(p[1], from, to), p[2]>>
      Hit(w)  == <<Path(w[1]), w[2]>>
      Dirs(S) == {Moved(d, from, to) : d \in S}
  IN /\ tree' = {Path(p) : p \in tree} /\ unscoped' = {Path(p) : p \in unscoped}
     /\ deps' = {Path(p) : p \in deps} /\ marked' = {Path(p) : p \in marked}
     /\ wired' = {Hit(w) : w \in wired} /\ guides' = {Hit(g) : g \in guides}
     /\ audit' = Dirs(audit) /\ scripts' = Dirs(scripts)
     /\ apiDir' = Moved(apiDir, from, to)
     /\ UNCHANGED <<ci, aliases>>
RenameApp(from, to) ==
  LET Path(p) == <<Moved(p[1], from, to), p[2]>>
      Hit(w)  == <<Path(w[1]), w[2]>>
      Dirs(S) == {Moved(d, from, to) : d \in S}
  IN /\ tree' = {Path(p) : p \in tree} /\ unscoped' = {Path(p) : p \in unscoped}
     /\ deps' = {Path(p) : p \in deps} /\ marked' = {Path(p) : p \in marked}
     /\ wired' = {Hit(w) : w \in wired} /\ guides' = {Hit(g) : g \in guides}
     /\ ci' = Dirs(ci) /\ audit' = Dirs(audit) /\ scripts' = Dirs(scripts)
     /\ apiDir' = Moved(apiDir, from, to)
     /\ UNCHANGED aliases

-----------------------------------------------------------------------------
(* init.mjs *)

\* <name>-<app>, unless the name already ends so.
Target(name, o) == IF Last(name) = o THEN name ELSE Append(name, o)
Dropped == AllCaps \ tool.caps

StartInit(name, keep, minimal, picked) ==
  /\ initScript
  /\ Start([NoTool EXCEPT
              !.kind = "init", !.pc = "begin", !.name = name,
              !.keep = {"api"} \cup keep, !.minimal = minimal,
              !.caps = IF minimal THEN picked \cup UNION {Requires(c) : c \in picked} ELSE AllCaps])
  /\ UNCHANGED <<files, registry, manifest, guides, initScript, scars>>

\* Directories, migrations, scripts, dependencies and aliases that are not kept.
Prune ==
  LET gone == {<<o>> : o \in Apps \ tool.keep}
  IN /\ At("init", "begin")
     /\ tree' = {p \in tree : p[1] \notin gone} \ UNION {CapPlaces(c) : c \in Dropped}
     /\ wired' = {w \in wired : FileExists(w[1], tree')}
     /\ marked' = {f \in marked : FileExists(f, tree')}
     /\ unscoped' = unscoped \cap tree'
     /\ aliases' = aliases \ Dropped
     /\ deps' = deps \ ({Api} \X Dropped)
     /\ scripts' = scripts \ gone
     /\ Goto("strip")
     /\ UNCHANGED <<ci, audit, apiDir, manifest, guides, initScript, scars, runs>>

\* Blocks are found by their markers, which go afterwards; the matrices and the
\* samples of a minimal project are rewritten under the names of the scaffold.
StripBlocks ==
  /\ At("init", "strip")
  /\ wired' = WithoutBlocks(SentinelFiles, Dropped)
  /\ marked' = WithoutMarkers(SentinelFiles)
  /\ tree' = IF tool.minimal THEN WithoutSamples({<<o>> : o \in tool.keep}) ELSE tree
  /\ unscoped' = unscoped \cap tree'
  /\ ci' = {<<o>> : o \in tool.keep \cap Docker}
  /\ audit' = {<<o>> : o \in tool.keep \cap Standalone}
  /\ Goto("scope")
  /\ UNCHANGED <<aliases, deps, scripts, apiDir, manifest, guides, initScript, scars, runs>>

RenameScope ==
  /\ At("init", "scope")
  /\ unscoped' = {}
  /\ tool' = [tool EXCEPT !.pc = "apps", !.todo = SelectSeq(AppOrder, LAMBDA o : o \in tool.keep)]
  /\ UNCHANGED <<tree, wired, marked, aliases, deps, registry, manifest, guides, initScript, scars, runs>>

\* An app whose target exists is passed over; the rename throws when the app is gone.
RenameKeptApp ==
  LET o == Head(tool.todo)
      target == Target(tool.name, o)
      Next(done) == tool' = [tool EXCEPT !.todo = Tail(@), !.done = done]
  IN /\ At("init", "apps") /\ tool.todo # << >>
     /\ \/ /\ target = <<o>> \/ DirExists(target)
           /\ Next(tool.done)
           /\ UNCHANGED <<files, registry, guides>>
        \/ /\ target # <<o>> /\ ~ DirExists(target) /\ DirExists(<<o>>)
           /\ RenameApp(<<o>>, target)
           /\ Next(tool.done \cup {<<o, target>>})
     /\ UNCHANGED <<manifest, initScript, scars, runs>>

WriteManifest ==
  /\ At("init", "apps") /\ tool.todo = << >>
  /\ manifest' = [made |-> TRUE, caps |-> tool.caps \ {"tasks"}, renames |-> tool.done]
  /\ Goto("verify")
  /\ UNCHANGED <<files, registry, guides, initScript, scars, runs>>

\* Install, lint, build and test passed: the initializer removes itself.
RemoveSelf ==
  /\ At("init", "verify")
  /\ initScript' = FALSE
  /\ Done
  /\ UNCHANGED <<files, registry, manifest, guides, scars, runs>>

-----------------------------------------------------------------------------
(* add.mjs; the scaffold it copies from is pristine *)

Adding == tool.caps \ manifest.caps
InLocal(p) == <<Local(p[1]), p[2]>>
Held(places) == {f \in {InLocal(g) : g \in SentinelFiles \ {Env}} : <<f[1], Holder[f[2]]>> \in places}

StartAddOf(wanted) ==
  /\ ~ initScript
  /\ manifest.made
  /\ wanted \ manifest.caps # {}
  /\ Start([NoTool EXCEPT
              !.kind = "add", !.pc = "copy", !.caps = wanted,
              !.todo = FlattenSeq([i \in 1..Len(CapOrder) |->
                         IF CapOrder[i] \in wanted \ manifest.caps
                         THEN CapDirs(CapOrder[i]) \o MigrationOf(CapOrder[i]) ELSE << >>])])
  /\ scars' = IF Local(Api) = apiDir THEN scars ELSE scars \cup {"strayed"}
  /\ UNCHANGED <<files, registry, manifest, guides, initScript>>
\* Mutation: what the wanted capabilities require is left out.
StartAddAlone(asked) == StartAddOf(asked)
StartAdd(asked) ==
  StartAddOf(asked \cup ((UNION {Requires(c) : c \in asked}) \ manifest.caps))

\* The next directory or migration.  A directory whose app does not exist, or
\* that exists itself, is passed over; a migration is copied again.
CopyIn ==
  LET p == InLocal(Head(tool.todo))
      migration == p[2][1] = "migration"
      copied == {w \in Held({p}) \X AllCaps : w[2] \in Carries[w[1][2]]}
  IN /\ At("add", "copy") /\ tool.todo # << >>
     /\ \/ /\ ~ migration
           /\ (p[1] # Root /\ ~ DirExists(p[1])) \/ p \in tree
           /\ tool' = [tool EXCEPT !.todo = Tail(@)]
           /\ UNCHANGED files
        \/ /\ migration \/ (p \notin tree /\ (p[1] = Root \/ DirExists(p[1])))
           /\ tree' = tree \cup {p}
           /\ unscoped' = unscoped \cup {p}
           /\ wired' = wired \cup copied
           /\ marked' = marked \cup Held({p})
           /\ tool' = [tool EXCEPT !.todo = Tail(@), !.done = @ \cup {p}]
           /\ UNCHANGED <<aliases, deps>>
     /\ UNCHANGED <<registry, manifest, guides, initScript, scars, runs>>

\* Mutation: the blocks of absent capabilities stay in the copied files.
StripScopeOnly ==
  /\ At("add", "copy") /\ tool.todo = << >>
  /\ marked' = WithoutMarkers(Held(tool.done))
  /\ unscoped' = unscoped \ tool.done
  /\ Goto("configure")
  /\ UNCHANGED <<tree, wired, aliases, deps, registry, manifest, guides, initScript, scars, runs>>
StripCopied ==
  /\ At("add", "copy") /\ tool.todo = << >>
  /\ wired' = WithoutBlocks(Held(tool.done), AllCaps \ (manifest.caps \cup tool.caps))
  /\ marked' = WithoutMarkers(Held(tool.done))
  /\ unscoped' = unscoped \ tool.done
  /\ Goto("configure")
  /\ UNCHANGED <<tree, aliases, deps, registry, manifest, guides, initScript, scars, runs>>

\* Path aliases, package dependencies, the keys of .env.example.
Configure ==
  /\ At("add", "configure")
  /\ aliases' = aliases \cup (Adding \cap LibCaps)
  /\ deps' = deps \cup (IF DirExists(Local(Api)) THEN {Local(Api)} \X (Adding \cap LibCaps) ELSE {})
  /\ wired' = wired \cup ({Env} \X (Adding \cap Carries["env"]))
  /\ Goto("guides")
  /\ UNCHANGED <<tree, marked, unscoped, registry, manifest, guides, initScript, scars, runs>>

\* A guide per capability for the blocks of the files that were there before.
\* Mutation: the files are looked up under the names of the scaffold.
WriteGuidesUnmapped ==
  LET sections(c) == {f \in SentinelFiles \ {Env} : FileExists(f, tree) /\ f \notin Held(tool.done)
                                                    /\ c \in Carries[f[2]]}
      written == {c \in Adding : sections(c) # {}}
  IN /\ At("add", "guides")
     /\ guides' = {g \in guides : g[2] \notin written} \cup UNION {sections(c) \X {c} : c \in written}
     /\ Goto("record")
     /\ UNCHANGED <<files, registry, manifest, initScript, scars, runs>>
WriteGuides ==
  LET old == {InLocal(f) : f \in SentinelFiles \ {Env}} \ Held(tool.done)
      sections(c) == {f \in old : FileExists(f, tree) /\ c \in Carries[f[2]]}
      written == {c \in Adding : sections(c) # {}}
  IN /\ At("add", "guides")
     /\ guides' = {g \in guides : g[2] \notin written} \cup UNION {sections(c) \X {c} : c \in written}
     /\ Goto("record")
     /\ UNCHANGED <<files, registry, manifest, initScript, scars, runs>>

RecordAdded ==
  /\ At("add", "record")
  /\ manifest' = [manifest EXCEPT !.caps = @ \cup Adding]
  /\ Done
  /\ UNCHANGED <<files, registry, guides, initScript, scars, runs>>

\* The owner merges a guide and deletes it (docs/EVOLVING.md).
ApplyGuide(c) ==
  LET sections == {g \in guides : g[2] = c}
  IN /\ Idle /\ sections # {}
     /\ wired' = wired \cup {g \in sections : FileExists(g[1], tree)}
     /\ guides' = guides \ sections
     /\ UNCHANGED <<tree, marked, unscoped, aliases, deps, registry, manifest, initScript, tool, scars, runs>>

-----------------------------------------------------------------------------
(* rename-app.mjs *)

StartRename(from, to) ==
  /\ ~ initScript
  /\ DirExists(from) /\ ~ DirExists(to)
  /\ Start([NoTool EXCEPT !.kind = "rename", !.pc = "record", !.name = from, !.to = to])
  /\ RenameApp(from, to)
  /\ UNCHANGED <<manifest, initScript, scars>>

\* An app that no entry of appRenames leads to is taken for a custom one.
\* Mutation: only the first rename of an app is recorded.
RecordFirstRename ==
  /\ At("rename", "record")
  /\ manifest' = [manifest EXCEPT !.renames =
                    {r \in @ : <<r[1]>> # tool.name}
                    \cup {<<r[1], tool.to>> : r \in {q \in @ : <<q[1]>> = tool.name}}]
  /\ Done
  /\ UNCHANGED <<files, registry, guides, initScript, scars, runs>>
RecordRename ==
  /\ At("rename", "record")
  /\ manifest' = [manifest EXCEPT !.renames =
                    {<<r[1], Moved(r[2], tool.name, tool.to)>> : r \in @}]
  /\ Done
  /\ UNCHANGED <<files, registry, guides, initScript, scars, runs>>

-----------------------------------------------------------------------------
(* new-app.mjs; in the scaffold itself it copies from the working tree *)

SourceTree  == IF initScript THEN tree ELSE PristineTree
SourceWired == IF initScript THEN wired ELSE PristineWired
SourceMarks == IF initScript THEN marked ELSE SentinelFiles

StartNewApp(o, name) ==
  LET Copy(S) == {<<name, p[2]>> : p \in {q \in S : q[1] = <<o>>}}
  IN /\ ~ DirExists(name)
     /\ <<<<o>>, <<"app", o>>>> \in SourceTree
     /\ initScript \/ manifest.made
     /\ Start([NoTool EXCEPT !.kind = "new", !.pc = "reduce", !.name = name, !.keep = {o}])
     /\ tree' = tree \cup Copy(SourceTree)
     /\ unscoped' = unscoped \cup Copy(SourceTree)
     /\ wired' = wired \cup {<<<<name, w[1][2]>>, w[2]>> : w \in {v \in SourceWired : v[1][1] = <<o>>}}
     /\ marked' = marked \cup Copy(SourceMarks)
     /\ deps' = deps \cup Copy(IF initScript THEN deps ELSE {Api} \X LibCaps)
     /\ scars' = IF initScript THEN scars \cup {"early"} ELSE scars
     /\ UNCHANGED <<aliases, registry, manifest, guides, initScript>>

Reduce ==
  LET mine(p) == p[1] = tool.name
      isCore(p) == p[2][1] = "app"
  IN /\ At("new", "reduce")
     /\ tree' = {p \in WithoutSamples({tool.name}) : mine(p) => isCore(p)}
     /\ wired' = {w \in WithoutBlocks({f \in marked : mine(f)}, AllCaps) : FileExists(w[1], tree')}
     /\ marked' = WithoutMarkers({f \in marked : mine(f)})
     /\ deps' = {d \in deps : ~ mine(d)}
     /\ unscoped' = {p \in unscoped : initScript \/ ~ mine(p)} \cap tree'
     /\ Goto("register")
     /\ UNCHANGED <<aliases, registry, manifest, guides, initScript, scars, runs>>

Register ==
  /\ At("new", "register")
  /\ scripts' = scripts \cup {tool.name}
  /\ ci' = AppendTo(ci, tool.name, tool.keep \subseteq Docker)
  /\ audit' = AppendTo(audit, tool.name, tool.keep \subseteq Standalone)
  /\ Done
  /\ UNCHANGED <<files, apiDir, manifest, guides, initScript, scars, runs>>

-----------------------------------------------------------------------------
ScaffoldNext ==
  \/ \E name \in ProjectNames, keep \in SUBSET Clients :
       \/ StartInit(name, keep, FALSE, {})
       \/ \E picked \in Picks : StartInit(name, keep, TRUE, picked)
  \/ Prune \/ StripBlocks \/ RenameScope \/ RenameKeptApp \/ WriteManifest \/ RemoveSelf
  \/ \E asked \in Picks : StartAdd(asked)
  \/ CopyIn \/ StripCopied \/ Configure \/ WriteGuides \/ RecordAdded
  \/ \E c \in AllCaps : ApplyGuide(c)
  \/ \E from \in {p[1] : p \in tree} \ {Root}, to \in FreeNames : StartRename(from, to)
  \/ RecordRename
  \/ \E o \in Apps, name \in FreeNames : StartNewApp(o, name)
  \/ Reduce \/ Register
  \/ Stop

ScaffoldSpec == ScaffoldInit /\ [][ScaffoldNext]_vars

-----------------------------------------------------------------------------
(* Properties, of a generated project between two runs of the tools *)

Generated == Idle /\ ~ initScript
Unless(events) == scars \cap events = {}

\* Where a path of the scaffold is now.
Here(p) == <<IF p[1] = Api THEN apiDir ELSE p[1], p[2]>>

\* A recorded capability is all there: what it requires, its directories and
\* migrations, alias, dependency (add.mjs:143-253, init.mjs:212-232).
CapabilityInstalled ==
  Generated /\ Unless({"init", "strayed"}) =>
    \A c \in manifest.caps :
      /\ Requires(c) \subseteq manifest.caps
      /\ {Here(p) : p \in CapPlaces(c)} \subseteq tree
      /\ c \in LibCaps => c \in aliases /\ <<apiDir, c>> \in deps

\* Every shared file that should know a recorded capability has its blocks, or
\* the guide that was written for it has not been applied yet, in whatever
\* order capabilities were added (add.mjs:201-324).
WiringComplete ==
  Generated /\ Unless({"init", "strayed"}) =>
    \A c \in manifest.caps, f \in {Here(g) : g \in SentinelFiles} :
      FileExists(f, tree) /\ c \in Carries[f[2]] => <<f, c>> \in wired \cup guides

\* Nothing left behind refers to code that is not there: blocks to a dropped
\* capability, a sample to a dropped endpoint, a file to the scaffold's scope
\* (init.mjs:251-339, add.mjs:201-218).
NothingDangling ==
  Generated /\ Unless({"init", "add", "new", "strayed"}) =>
    /\ \A w \in wired : {Here(p) : p \in CapPlaces(w[2])} \subseteq tree
    /\ \A p \in tree : p[2][1] = "sample" => Here(<<Api, <<"module", "tasks">>>>) \in tree
    /\ unscoped = {}

\* The image matrices, the audit matrix and the scripts name the apps there
\* are, whatever was renamed or created since (scaffold-manifest.mjs:418-437).
RegistriesMatch ==
  Generated /\ scars \subseteq {"add", "strayed"} =>
    LET Dirs(kinds) == {p[1] : p \in {q \in tree : q[2][1] = "app" /\ q[2][2] \in kinds}}
    IN ci = Dirs(Docker) /\ audit = Dirs(Standalone) /\ scripts = Dirs(Apps)

\* add.mjs finds the api of the scaffold wherever it has been moved, once init
\* has recorded a name for it (rename-app.mjs:57-71).
RenamesFollowed ==
  Generated /\ Unless({"init", "rename"}) /\ (\E r \in manifest.renames : r[1] = "api") =>
    Local(Api) = apiDir

\* Documented without that condition (docs/EVOLVING.md:127-128).  Not so for a project
\* named "api".  No run checks it.
EveryRenameFollowed == Generated /\ scars = {} => Local(Api) = apiDir
=============================================================================
