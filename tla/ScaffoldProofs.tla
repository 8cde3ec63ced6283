---------------------------- MODULE ScaffoldProofs ----------------------------
(***************************************************************************)
(* Theorems about the generator, for any project and app names, any        *)
(* capabilities asked for and any number of runs of the tools.             *)
(***************************************************************************)
EXTENDS Scaffold, SequenceTheorems, TLAPS

(* Where the api is *)

\* The directory the manifest names for the api is where it is.
Recorded == \A r \in manifest.renames : r[1] = "api" => r[2] = apiDir

\* What init has renamed so far.
Tracked ==
  /\ \A r \in tool.done : r[1] = "api" => r[2] = apiDir /\ ~ DirExists(Api)
  /\ (\A r \in tool.done : r[1] # "api") => apiDir = Api
  /\ Last(apiDir) = "api"

InitWhere ==
  /\ initScript
  /\ tool.name \in Seq(STRING) /\ tool.name # Root
  /\ tool.pc \in {"begin", "strip", "scope", "apps", "verify"}
  /\ tool.pc \in {"begin", "strip", "scope"} => apiDir = Api /\ tool.done = {}
  /\ tool.pc = "apps" => Tracked
  /\ tool.pc = "verify" => Recorded

\* Before init the api is where the scaffold has it; afterwards where the manifest says,
\* but for the rename that is being recorded.
WhereInv ==
  Unless({"init", "rename"}) =>
    /\ initScript /\ tool.kind # "init" => apiDir = Api
    /\ tool.kind = "init" => InitWhere
    /\ tool.kind \in {"add", "rename"} => ~ initScript
    /\ ~ initScript /\ tool.kind # "rename" => Recorded
    /\ tool.kind = "rename" =>
         \A r \in manifest.renames : r[1] = "api" => Moved(r[2], tool.name, tool.to) = apiDir

LEMMA TargetEndsInApp ==
  ASSUME NEW name \in Seq(STRING), name # Root, NEW o
  PROVE  Last(Target(name, o)) = o
<1>1. CASE Last(name) = o
  BY <1>1 DEF Target
<1>2. CASE Last(name) # o
  <2>1. Target(name, o) = Append(name, o)
    BY <1>2 DEF Target
  <2>2. Len(Append(name, o)) = Len(name) + 1 /\ Append(name, o)[Len(name) + 1] = o
    OBVIOUS
  <2>3. QED
    BY <2>1, <2>2 DEF Last
<1>3. QED
  BY <1>1, <1>2

LEMMA NoToolIdle ==
  /\ NoTool.kind = "none" /\ NoTool.pc = "idle" /\ NoTool.done = {}
  BY DEF NoTool

\* Renaming one app.
LEMMA RenameMoves ==
  ASSUME NEW from, NEW to, RenameApp(from, to)
  PROVE  /\ apiDir' = Moved(apiDir, from, to)
         /\ from # to /\ to # Api /\ (from = Api \/ ~ DirExists(Api)) => ~ DirExists(Api)'
<1>1. tree' = {<<Moved(p[1], from, to), p[2]>> : p \in tree} /\ apiDir' = Moved(apiDir, from, to)
  BY DEF RenameApp
<1>2. ASSUME from # to, to # Api, from = Api \/ ~ DirExists(Api), NEW p \in tree
      PROVE  Moved(p[1], from, to) # Api
  BY <1>2 DEF Moved, DirExists
<1>3. QED
  BY <1>1, <1>2 DEF DirExists

LEMMA WhereStep ==
  ASSUME WhereInv, [ScaffoldNext]_vars, Unless({"init", "rename"})'
  PROVE  WhereInv'
<1> USE NoToolIdle
<1>1. ASSUME UNCHANGED <<apiDir, initScript>>, manifest'.renames = manifest.renames,
             scars \subseteq scars', tool.kind \notin {"init", "rename"},
             tool'.kind \notin {"init", "rename"}, tool'.kind = "add" => ~ initScript
      PROVE  WhereInv'
  BY <1>1 DEF WhereInv, Recorded, Unless
\* init
<1>2. ASSUME NEW name \in ProjectNames, NEW keep, NEW minimal, NEW picked,
             StartInit(name, keep, minimal, picked)
      PROVE  WhereInv'
  <2>1. /\ initScript /\ tool.kind = "none" /\ UNCHANGED <<apiDir, manifest, initScript, scars>>
        /\ tool'.kind = "init" /\ tool'.pc = "begin" /\ tool'.name = name /\ tool'.done = {}
    BY <1>2 DEF StartInit, Start, Idle, NoTool, registry
  <2>2. name \in Seq(STRING) /\ name # Root
    BY ScaffoldAssumption
  <2>3. QED
    BY <2>1, <2>2 DEF WhereInv, InitWhere, Unless
<1>3. ASSUME tool.kind = "init", tool'.kind = "init", tool'.name = tool.name, tool'.done = tool.done,
             tool.pc \in {"begin", "strip"}, tool'.pc \in {"strip", "scope"},
             UNCHANGED <<apiDir, initScript, scars>>
      PROVE  WhereInv'
  BY <1>3 DEF WhereInv, InitWhere, Unless
<1>4. CASE Prune
  BY <1>3, <1>4 DEF Prune, At, Goto
<1>5. CASE StripBlocks
  BY <1>3, <1>5 DEF StripBlocks, At, Goto
<1>6. CASE RenameScope
  <2>1. /\ tool.kind = "init" /\ tool.pc = "scope" /\ UNCHANGED <<apiDir, initScript, scars, tree>>
        /\ tool'.kind = "init" /\ tool'.pc = "apps" /\ tool'.name = tool.name /\ tool'.done = tool.done
    BY <1>6 DEF RenameScope, At, registry
  <2>2. apiDir = Api /\ tool.done = {}
    BY <2>1 DEF WhereInv, InitWhere, Unless
  <2>3. Tracked'
    BY <2>1, <2>2 DEF Tracked, Api, Last
  <2>4. QED
    BY <2>1, <2>3 DEF WhereInv, InitWhere, Unless
<1>7. CASE RenameKeptApp
  <2> DEFINE o == Head(tool.todo)
             target == Target(tool.name, o)
  <2>0. /\ tool.kind = "init" /\ tool.pc = "apps" /\ UNCHANGED <<initScript, scars>>
        /\ tool'.kind = "init" /\ tool'.pc = "apps" /\ tool'.name = tool.name
    <3>1. PICK done : tool' = [tool EXCEPT !.todo = Tail(tool.todo), !.done = done]
      BY <1>7 DEF RenameKeptApp
    <3>2. QED
      BY <1>7, <3>1 DEF RenameKeptApp, At
  <2>1. Tracked /\ tool.name \in Seq(STRING) /\ tool.name # Root
    BY <2>0 DEF WhereInv, InitWhere, Unless
  <2>2. CASE tool'.done = tool.done /\ UNCHANGED files /\ UNCHANGED registry
    <3>1. Tracked'
      BY <2>1, <2>2 DEF Tracked, DirExists, files, registry
    <3>2. QED
      BY <2>0, <3>1 DEF WhereInv, InitWhere, Unless
  <2>3. CASE /\ target # <<o>> /\ DirExists(<<o>>) /\ RenameApp(<<o>>, target)
             /\ tool'.done = tool.done \cup {<<o, target>>}
    <3>1. Last(target) = o /\ Last(<<o>>) = o /\ Last(Api) = "api"
      BY <2>1, TargetEndsInApp DEF Last, Api
    <3> HIDE DEF o, target
    <3>2. o = "api" <=> <<o>> = Api
      BY DEF Api
    <3>3. target # Api
      BY <2>3, <3>1, <3>2
    <3>4. apiDir' = Moved(apiDir, <<o>>, target)
      BY <2>3, RenameMoves
    <3>5. CASE o = "api"
      <4>1. apiDir = Api /\ \A r \in tool.done : r[1] # "api"
        BY <2>1, <2>3, <3>2, <3>5 DEF Tracked
      <4>2. ~ DirExists(Api)'
        BY <2>3, <3>2, <3>3, <3>5, RenameMoves
      <4>3. apiDir' = target
        BY <3>2, <3>4, <3>5, <4>1 DEF Moved
      <4>4. Tracked'
        <5>1. \A r \in tool'.done : r[1] = "api" => r = <<o, target>>
          BY <2>3, <4>1
        <5>2. <<o, target>> \in tool'.done /\ <<o, target>>[1] = "api" /\ <<o, target>>[2] = target
          BY <2>3, <3>5
        <5>3. Last(apiDir') = "api"
          BY <3>1, <3>5, <4>3
        <5>4. QED
          BY <4>2, <4>3, <5>1, <5>2, <5>3 DEF Tracked, Last
      <4>5. QED
        BY <2>0, <2>1, <4>4 DEF WhereInv, InitWhere, Unless
    <3>6. CASE o # "api"
      <4>1. apiDir' = apiDir
        BY <2>1, <3>1, <3>4, <3>6 DEF Tracked, Moved
      <4>2. ~ DirExists(Api) => ~ DirExists(Api)'
        BY <2>3, <3>3, RenameMoves
      <4>3. Tracked'
        BY <2>1, <2>3, <3>6, <4>1, <4>2 DEF Tracked
      <4>4. QED
        BY <2>0, <2>1, <4>3 DEF WhereInv, InitWhere, Unless
    <3>7. QED
      BY <3>5, <3>6
  <2>4. QED
    <3>1. CASE target # <<o>> /\ DirExists(<<o>>) /\ RenameApp(<<o>>, target)
               /\ tool' = [tool EXCEPT !.todo = Tail(@), !.done = tool.done \cup {<<o, target>>}]
      BY <2>3, <3>1
    <3>2. CASE /\ tool' = [tool EXCEPT !.todo = Tail(@), !.done = tool.done]
               /\ UNCHANGED files /\ UNCHANGED registry
      BY <2>2, <3>2
    <3>3. QED
      BY <1>7, <3>1, <3>2 DEF RenameKeptApp
<1>8. CASE WriteManifest
  <2>1. /\ tool.kind = "init" /\ tool.pc = "apps" /\ UNCHANGED <<apiDir, initScript, scars>>
        /\ tool'.kind = "init" /\ tool'.pc = "verify" /\ tool'.name = tool.name
        /\ manifest'.renames = tool.done
    BY <1>8 DEF WriteManifest, At, Goto, registry
  <2>2. QED
    BY <2>1 DEF WhereInv, InitWhere, Unless, Tracked, Recorded
<1>9. CASE RemoveSelf
  <2>1. /\ tool.kind = "init" /\ tool.pc = "verify" /\ UNCHANGED <<apiDir, manifest, scars>>
        /\ tool'.kind = "none" /\ initScript' = FALSE
    BY <1>9 DEF RemoveSelf, At, Done, registry
  <2>2. QED
    BY <2>1 DEF WhereInv, InitWhere, Unless, Recorded
\* add, its guides and new-app leave names alone.
<1>10. ASSUME NEW asked, StartAdd(asked)
       PROVE  WhereInv'
  <2>1. PICK wanted : StartAddOf(wanted)
    BY <1>10 DEF StartAdd
  <2>2. PICK todo : tool' = [NoTool EXCEPT !.kind = "add", !.pc = "copy", !.caps = wanted, !.todo = todo]
    BY <2>1 DEF StartAddOf, Start
  <2>3. tool'.kind = "add"
    BY <2>2 DEF NoTool
  <2>4. /\ ~ initScript /\ tool.kind = "none" /\ scars \subseteq scars'
        /\ UNCHANGED <<apiDir, manifest, initScript>>
    BY <2>1 DEF StartAddOf, Start, Idle, registry
  <2>5. QED
    BY <1>1, <2>3, <2>4
<1>11. CASE CopyIn \/ StripCopied \/ Configure \/ WriteGuides
  <2>1. /\ tool.kind = "add" /\ UNCHANGED <<apiDir, manifest, initScript, scars>>
        /\ tool'.kind = "add"
    <3>1. CASE CopyIn
      <4>1. /\ tool.kind = "add" /\ UNCHANGED <<apiDir, manifest, initScript, scars>>
            /\ \/ tool' = [tool EXCEPT !.todo = Tail(tool.todo)]
               \/ \E done : tool' = [tool EXCEPT !.todo = Tail(tool.todo), !.done = done]
        BY <3>1 DEF CopyIn, At, registry
      <4>2. tool'.kind = tool.kind
        <5>1. ASSUME NEW done, tool' = [tool EXCEPT !.todo = Tail(tool.todo), !.done = done]
              PROVE  tool'.kind = tool.kind
          BY <5>1
        <5>2. CASE tool' = [tool EXCEPT !.todo = Tail(tool.todo)]
          BY <5>2
        <5>3. QED
          BY <4>1, <5>1, <5>2
      <4>3. QED
        BY <4>1, <4>2
    <3>2. CASE StripCopied
      BY <3>2 DEF StripCopied, At, Goto, registry
    <3>3. CASE Configure
      BY <3>3 DEF Configure, At, Goto, registry
    <3>4. CASE WriteGuides
      BY <3>4 DEF WriteGuides, At, Goto, registry
    <3>5. QED
      BY <1>11, <3>1, <3>2, <3>3, <3>4
  <2>2. ~ initScript
    BY <2>1 DEF WhereInv, Unless
  <2>3. QED
    BY <1>1, <2>1, <2>2
<1>12. CASE RecordAdded
  BY <1>1, <1>12 DEF RecordAdded, At, Done, registry
<1>13. ASSUME NEW c, ApplyGuide(c)
       PROVE  WhereInv'
  BY <1>1, <1>13 DEF ApplyGuide, Idle, registry
<1>14. ASSUME NEW o, NEW name, StartNewApp(o, name)
       PROVE  WhereInv'
  <2>1. /\ tool.kind = "none" /\ scars \subseteq scars' /\ UNCHANGED <<apiDir, manifest, initScript>>
        /\ tool' = [NoTool EXCEPT !.kind = "new", !.pc = "reduce", !.name = name, !.keep = {o}]
    BY <1>14 DEF StartNewApp, Start, Idle, registry
  <2>2. tool'.kind = "new"
    BY <2>1 DEF NoTool
  <2>3. QED
    BY <1>1, <2>1, <2>2
<1>15. CASE Reduce \/ Register
  <2>1. CASE Reduce
    BY <1>1, <2>1 DEF Reduce, At, Goto, registry
  <2>2. CASE Register
    BY <1>1, <2>2 DEF Register, At, Done
  <2>3. QED
    BY <1>15, <2>1, <2>2
\* rename-app
<1>16. ASSUME NEW from, NEW to, StartRename(from, to)
       PROVE  WhereInv'
  <2>1. /\ ~ initScript /\ tool.kind = "none" /\ UNCHANGED <<manifest, initScript, scars>>
        /\ tool'.kind = "rename" /\ tool'.name = from /\ tool'.to = to
        /\ apiDir' = Moved(apiDir, from, to)
    BY <1>16, RenameMoves DEF StartRename, Start, Idle, NoTool
  <2>2. QED
    BY <2>1 DEF WhereInv, Unless, Recorded
<1>17. CASE RecordRename
  <2>1. /\ tool.kind = "rename" /\ UNCHANGED <<apiDir, initScript, scars>> /\ tool'.kind = "none"
        /\ manifest'.renames = {<<r[1], Moved(r[2], tool.name, tool.to)>> : r \in manifest.renames}
    BY <1>17 DEF RecordRename, At, Done, registry
  <2>2. QED
    BY <2>1 DEF WhereInv, Unless, Recorded
<1>18. CASE Stop
  <2>1. /\ scars' = scars \cup {tool.kind} /\ tool'.kind = "none"
        /\ UNCHANGED <<apiDir, manifest, initScript>>
    BY <1>18 DEF Stop, Done, registry
  <2>2. QED
    BY <1>1, <2>1 DEF Unless
<1>19. CASE UNCHANGED vars
  BY <1>19 DEF vars, files, registry, WhereInv, InitWhere, Tracked, Recorded, DirExists, Unless
<1>20. QED
  BY <1>2, <1>4, <1>5, <1>6, <1>7, <1>8, <1>9, <1>10, <1>11, <1>12, <1>13, <1>14, <1>15, <1>16, <1>17,
     <1>18, <1>19 DEF ScaffoldNext

LEMMA WhereInvInductive == WhereInv /\ [ScaffoldNext]_vars => WhereInv'
<1> SUFFICES ASSUME WhereInv, [ScaffoldNext]_vars PROVE WhereInv'
  OBVIOUS
<1>1. CASE Unless({"init", "rename"})'
  BY <1>1, WhereStep
<1>2. CASE ~ Unless({"init", "rename"})'
  BY <1>2 DEF WhereInv
<1>3. QED
  BY <1>1, <1>2

\* Once init has recorded a name for the api, every later rename is followed, in whatever order
\* tools run and whatever else they are stopped in: add.mjs finds the api where it is
\* (rename-app.mjs:57-71, init.mjs:344-355).
THEOREM ScaffoldRenamesFollowed == ScaffoldSpec => []RenamesFollowed
<1>1. ScaffoldInit => WhereInv
  BY NoToolIdle DEF ScaffoldInit, WhereInv
<1>2. WhereInv => RenamesFollowed
  <2> SUFFICES ASSUME WhereInv, Generated, Unless({"init", "rename"}),
                      NEW r \in manifest.renames, r[1] = "api"
               PROVE  Local(Api) = apiDir
    BY DEF RenamesFollowed
  <2>1. Recorded
    BY DEF WhereInv, Generated, Idle
  <2>2. \A q : <<q[1]>> = Api <=> q[1] = "api"
    BY DEF Api
  <2>3. QED
    BY <2>1, <2>2 DEF Local, Recorded
<1>3. QED
  BY <1>1, <1>2, WhereInvInductive, PTL DEF ScaffoldSpec

(* What the capabilities own *)

Named  == AllCaps \cup {"users", "notifications"}
Places == {Root, Api} \X ({"lib", "module", "migration"} \X Named)

LEMMA ConcatMembers ==
  ASSUME NEW S, NEW u \in Seq(S), NEW v \in Seq(S)
  PROVE  ToSet(u \o v) = ToSet(u) \cup ToSet(v)
<1>1. \A s : ToSet(s) = Range(s)
  BY DEF ToSet, Range
<1>2. Range(u \o v) = Range(u) \cup Range(v)
  BY RangeConcatenation
<1>3. QED
  BY <1>1, <1>2

LEMMA FlattenSeven ==
  ASSUME NEW S, NEW s \in [1..7 -> Seq(S)]
  PROVE  FlattenSeq(s) \in Seq(S) /\ \A i \in 1..7 : ToSet(s[i]) \subseteq ToSet(FlattenSeq(s))
<1> DEFINE flat == CHOOSE g : g = [i \in 1..7 |-> IF i = 1 THEN s[i] ELSE g[i-1] \o s[i]]
<1>1. Len(s) = 7
  OBVIOUS
<1>2. FlattenSeq(s) = flat[7]
  BY <1>1 DEF FlattenSeq
<1>3. flat = [i \in 1..7 |-> IF i = 1 THEN s[i] ELSE flat[i-1] \o s[i]]
  <2> DEFINE
    a2 == s[1] \o s[2]
    a3 == a2 \o s[3]
    a4 == a3 \o s[4]
    a5 == a4 \o s[5]
    a6 == a5 \o s[6]
    a7 == a6 \o s[7]
    w == <<s[1], a2, a3, a4, a5, a6, a7>>
  <2>3. /\ w = [i \in 1..7 |-> w[i]] /\ w[1] = s[1]
        /\ w[2] = w[1] \o s[2] /\ w[3] = w[2] \o s[3] /\ w[4] = w[3] \o s[4]
        /\ w[5] = w[4] \o s[5] /\ w[6] = w[5] \o s[6] /\ w[7] = w[6] \o s[7]
    <3> HIDE DEF a2, a3, a4, a5, a6, a7
    <3>1. /\ w = [i \in 1..7 |-> w[i]] /\ w[1] = s[1] /\ w[2] = a2 /\ w[3] = a3 /\ w[4] = a4 /\ w[5] = a5
          /\ w[6] = a6 /\ w[7] = a7
      OBVIOUS
    <3> HIDE DEF w
    <3>2. QED
      BY <3>1 DEF a2, a3, a4, a5, a6, a7
  <2> HIDE DEF w
  <2>4. \A i \in 1..7 : w[i] = IF i = 1 THEN s[i] ELSE w[i-1] \o s[i]
    <3>1. \A i \in 1..7 : i = 1 \/ i = 2 \/ i = 3 \/ i = 4 \/ i = 5 \/ i = 6 \/ i = 7
      OBVIOUS
    <3>2. /\ 2-1 = 1 /\ 3-1 = 2 /\ 4-1 = 3 /\ 5-1 = 4 /\ 6-1 = 5 /\ 7-1 = 6
      OBVIOUS
    <3>3. QED
      BY <2>3, <3>1, <3>2
  <2>1. w = [i \in 1..7 |-> IF i = 1 THEN s[i] ELSE w[i-1] \o s[i]]
    BY <2>3, <2>4
  <2> HIDE DEF w
  <2>2. QED
    BY <2>1
<1> HIDE DEF flat
<1>4. \A i \in 1..7 : flat[i] = IF i = 1 THEN s[i] ELSE flat[i-1] \o s[i]
  <2> DEFINE F(g) == [i \in 1..7 |-> IF i = 1 THEN s[i] ELSE g[i-1] \o s[i]]
  <2>1. flat = F(flat)
    BY <1>3
  <2>2. \A i \in 1..7 : F(flat)[i] = IF i = 1 THEN s[i] ELSE flat[i-1] \o s[i]
    OBVIOUS
  <2> HIDE DEF F
  <2>3. QED
    BY <2>1, <2>2
<1>14. /\ flat[1] = s[1] /\ flat[2] = flat[1] \o s[2] /\ flat[3] = flat[2] \o s[3]
      /\ flat[4] = flat[3] \o s[4] /\ flat[5] = flat[4] \o s[5] /\ flat[6] = flat[5] \o s[6]
      /\ flat[7] = flat[6] \o s[7]
  <2>1. /\ 2-1 = 1 /\ 3-1 = 2 /\ 4-1 = 3 /\ 5-1 = 4 /\ 6-1 = 5 /\ 7-1 = 6
        /\ 1 \in 1..7 /\ 2 \in 1..7 /\ 3 \in 1..7 /\ 4 \in 1..7 /\ 5 \in 1..7 /\ 6 \in 1..7 /\ 7 \in 1..7
        /\ 2 # 1 /\ 3 # 1 /\ 4 # 1 /\ 5 # 1 /\ 6 # 1 /\ 7 # 1
    OBVIOUS
  <2>2. QED
    BY <1>4, <2>1
<1>5. \A i \in 1..7 : s[i] \in Seq(S)
  OBVIOUS
<1>6. \A u, v \in Seq(S) : u \o v \in Seq(S)
  OBVIOUS
<1> HIDE DEF flat
<1>7. flat[1] \in Seq(S) /\ flat[2] \in Seq(S) /\ flat[3] \in Seq(S) /\ flat[4] \in Seq(S)
  BY <1>14, <1>5, <1>6
<1>8. flat[5] \in Seq(S) /\ flat[6] \in Seq(S) /\ flat[7] \in Seq(S)
  BY <1>14, <1>5, <1>6, <1>7
<1>9. /\ ToSet(flat[2]) = ToSet(flat[1]) \cup ToSet(s[2]) /\ ToSet(flat[3]) = ToSet(flat[2]) \cup ToSet(s[3])
      /\ ToSet(flat[4]) = ToSet(flat[3]) \cup ToSet(s[4]) /\ ToSet(flat[5]) = ToSet(flat[4]) \cup ToSet(s[5])
      /\ ToSet(flat[6]) = ToSet(flat[5]) \cup ToSet(s[6]) /\ ToSet(flat[7]) = ToSet(flat[6]) \cup ToSet(s[7])
  <2>1. \A u, v \in Seq(S) : ToSet(u \o v) = ToSet(u) \cup ToSet(v)
    BY ConcatMembers
  <2>2. s[2] \in Seq(S) /\ s[3] \in Seq(S) /\ s[4] \in Seq(S) /\ s[5] \in Seq(S) /\ s[6] \in Seq(S) /\ s[7] \in Seq(S)
    BY <1>5
  <2>3. ToSet(flat[1] \o s[2]) = ToSet(flat[1]) \cup ToSet(s[2])
    BY <1>7, <2>1, <2>2
  <2>4. ToSet(flat[2] \o s[3]) = ToSet(flat[2]) \cup ToSet(s[3])
    BY <1>7, <2>1, <2>2
  <2>5. ToSet(flat[3] \o s[4]) = ToSet(flat[3]) \cup ToSet(s[4])
    BY <1>7, <2>1, <2>2
  <2>6. ToSet(flat[4] \o s[5]) = ToSet(flat[4]) \cup ToSet(s[5])
    BY <1>7, <2>1, <2>2
  <2>7. ToSet(flat[5] \o s[6]) = ToSet(flat[5]) \cup ToSet(s[6])
    BY <1>8, <2>1, <2>2
  <2>8. ToSet(flat[6] \o s[7]) = ToSet(flat[6]) \cup ToSet(s[7])
    BY <1>8, <2>1, <2>2
  <2>9. QED
    BY <1>14, <2>3, <2>4, <2>5, <2>6, <2>7, <2>8
<1>10. \A i \in 1..7 : ToSet(s[i]) \subseteq ToSet(flat[7])
  <2>1. \A i \in 1..7 : i = 1 \/ i = 2 \/ i = 3 \/ i = 4 \/ i = 5 \/ i = 6 \/ i = 7
    OBVIOUS
  <2>2. flat[1] = s[1]
    BY <1>14
  <2>3. QED
    BY <1>9, <2>1, <2>2
<1>11. QED
  BY <1>2, <1>8, <1>10

LEMMA CapOrderIs == AllCaps = {"auth", "messaging", "realtime", "featureflags", "metrics", "compliance", "tasks"}
                    /\ Len(CapOrder) = 7 /\ \A i \in 1..7 : CapOrder[i] \in AllCaps
  BY DEF AllCaps, CapOrder, ToSet

LEMMA ModulesAreSeqs ==
  ASSUME NEW c \in AllCaps
  PROVE  Modules[c] \in Seq(Named)
<1>1. /\ Modules["auth"] = <<"auth", "users">> /\ Modules["messaging"] = <<"notifications">>
      /\ Modules["compliance"] = <<"compliance">> /\ Modules["tasks"] = <<"tasks">>
      /\ Modules["realtime"] = << >> /\ Modules["featureflags"] = << >> /\ Modules["metrics"] = << >>
  BY DEF Modules
<1>2. /\ <<"auth", "users">> \in Seq(Named) /\ <<"notifications">> \in Seq(Named)
      /\ <<"compliance">> \in Seq(Named) /\ <<"tasks">> \in Seq(Named) /\ << >> \in Seq(Named)
  BY CapOrderIs DEF Named
<1>3. c \in {"auth", "messaging", "realtime", "featureflags", "metrics", "compliance", "tasks"}
  BY CapOrderIs
<1>4. QED
  BY <1>1, <1>2, <1>3

LibOf(c)     == IF c \in LibCaps THEN <<<<Root, <<"lib", c>>>>>> ELSE << >>
ModulesOf(c) == [i \in 1..Len(Modules[c]) |-> <<Api, <<"module", Modules[c][i]>>>>]

LEMMA CapSeqs ==
  ASSUME NEW c \in AllCaps
  PROVE  /\ LibOf(c) \in Seq(Places) /\ ModulesOf(c) \in Seq(Places) /\ MigrationOf(c) \in Seq(Places)
         /\ CapDirs(c) = LibOf(c) \o ModulesOf(c) /\ CapDirs(c) \in Seq(Places)
<1>1. c \in Named
  BY DEF Named
<1>2. LibOf(c) \in Seq(Places)
  <2>1. <<Root, <<"lib", c>>>> \in Places
    BY <1>1 DEF Places
  <2>2. QED
    BY <2>1 DEF LibOf
<1>3. ModulesOf(c) \in Seq(Places)
  <2>1. \A i \in 1..Len(Modules[c]) : <<Api, <<"module", Modules[c][i]>>>> \in Places
    BY ModulesAreSeqs DEF Places
  <2>2. QED
    BY <2>1, ModulesAreSeqs, IsASeq DEF ModulesOf
<1>4. MigrationOf(c) \in Seq(Places)
  <2>1. <<Root, <<"migration", c>>>> \in Places
    BY <1>1 DEF Places
  <2>2. QED
    BY <2>1 DEF MigrationOf
<1>5. CapDirs(c) = LibOf(c) \o ModulesOf(c)
  BY DEF CapDirs, LibOf, ModulesOf
<1>6. QED
  BY <1>2, <1>3, <1>4, <1>5

(* The registries *)

\* The directories of the apps there are, by kind.
AppsIn(T, kinds) == {p[1] : p \in {q \in T : q[2][1] = "app" /\ q[2][2] \in kinds}}
DockerDirs     == AppsIn(tree, Docker)
StandaloneDirs == AppsIn(tree, Standalone)
AppDirs        == AppsIn(tree, Apps)

ScriptsMatch == scripts = AppDirs
AllMatch     == ci = DockerDirs /\ audit = StandaloneDirs /\ ScriptsMatch

Untouched == tree = PristineTree /\ AllMatch

\* The matrices are written once the kept apps are known, and only then match.
InitRegs ==
  /\ initScript
  /\ tool.pc \in {"begin", "strip", "scope", "apps", "verify"}
  /\ tool.pc = "begin" => Untouched
  /\ tool.pc = "strip" =>
       /\ ScriptsMatch
       /\ DockerDirs = {<<o>> : o \in tool.keep \cap Docker}
       /\ StandaloneDirs = {<<o>> : o \in tool.keep \cap Standalone}
  /\ tool.pc \in {"scope", "apps", "verify"} => AllMatch

\* The copy is there before it is registered.
NewRegs ==
  \E o \in Apps :
    /\ tool.keep = {o}
    /\ DockerDirs = ci \cup (IF o \in Docker THEN {tool.name} ELSE {})
    /\ StandaloneDirs = audit \cup (IF o \in Standalone THEN {tool.name} ELSE {})
    /\ AppDirs = scripts \cup {tool.name}

RegInv ==
  scars \subseteq {"add", "strayed"} =>
    /\ tool.kind \in {"none", "init", "add", "rename", "new"}
    /\ tool.kind = "none" => AllMatch /\ (initScript => Untouched)
    /\ tool.kind = "init" => InitRegs
    /\ tool.kind = "add" => ~ initScript /\ AllMatch /\ tool.todo \in Seq(Places)
    /\ tool.kind = "rename" => ~ initScript /\ AllMatch
    /\ tool.kind = "new" => ~ initScript /\ NewRegs

LEMMA PlacesAreNoApps ==
  ASSUME NEW c \in AllCaps, NEW p \in CapPlaces(c)
  PROVE  p[2][1] # "app" /\ p[2][1] # "sample"
<1>1. CapDirs(c) \in Seq(Places) /\ MigrationOf(c) \in Seq(Places)
  BY CapSeqs
<1>2. CapDirs(c) \o MigrationOf(c) \in Seq(Places)
  BY <1>1
<1>3. \E i \in 1..Len(CapDirs(c) \o MigrationOf(c)) : p = (CapDirs(c) \o MigrationOf(c))[i]
  BY <1>2 DEF CapPlaces, ToSet
<1>4. p \in Places
  <2> DEFINE s == CapDirs(c) \o MigrationOf(c)
  <2>1. s \in Seq(Places) /\ \E i \in 1..Len(s) : p = s[i]
    BY <1>2, <1>3
  <2> HIDE DEF s
  <2>2. QED
    BY <2>1, ElementOfSeq
<1>5. QED
  BY <1>4 DEF Places

LEMMA PristineApps ==
  \A q : q \in PristineTree /\ q[2][1] = "app" <=> \E o \in Apps : q = <<<<o>>, <<"app", o>>>>
<1>1. ASSUME NEW q \in PristineTree, q[2][1] = "app"
      PROVE  \E o \in Apps : q = <<<<o>>, <<"app", o>>>>
  <2>1. CASE q \in UNION {CapPlaces(c) : c \in AllCaps}
    <3>1. PICK c \in AllCaps : q \in CapPlaces(c)
      BY <2>1
    <3>2. QED
      BY <1>1, <3>1, PlacesAreNoApps
  <2>2. CASE q \in {<<<<o>>, <<"sample", o>>>> : o \in Clients \ {"web-next"}}
    BY <1>1, <2>2
  <2>3. CASE q \in {<<<<o>>, <<"app", o>>>> : o \in Apps}
    BY <2>3
  <2>4. QED
    BY <2>1, <2>2, <2>3 DEF PristineTree
<1>2. ASSUME NEW o \in Apps
      PROVE  <<<<o>>, <<"app", o>>>> \in PristineTree /\ <<<<o>>, <<"app", o>>>>[2][1] = "app"
  BY DEF PristineTree
<1>3. QED
  BY <1>1, <1>2

LEMMA AppsInMembers ==
  ASSUME NEW T, NEW kinds, NEW d
  PROVE  d \in AppsIn(T, kinds) <=> \E q \in T : q[2][1] = "app" /\ q[2][2] \in kinds /\ d = q[1]
  BY DEF AppsIn

\* Which entries are apps decides the directories.
LEMMA SameApps ==
  ASSUME NEW T, NEW U, \A q : q[2][1] = "app" => (q \in T <=> q \in U)
  PROVE  \A kinds : AppsIn(T, kinds) = AppsIn(U, kinds)
  BY DEF AppsIn

LEMMA RenamedApps ==
  ASSUME NEW T, NEW kinds, NEW from, NEW to
  PROVE  AppsIn({<<Moved(p[1], from, to), p[2]>> : p \in T}, kinds)
           = {Moved(d, from, to) : d \in AppsIn(T, kinds)}
<1> DEFINE U == {<<Moved(p[1], from, to), p[2]>> : p \in T}
<1>1. ASSUME NEW d \in AppsIn(U, kinds)
      PROVE  d \in {Moved(e, from, to) : e \in AppsIn(T, kinds)}
  <2>1. PICK q \in U : q[2][1] = "app" /\ q[2][2] \in kinds /\ d = q[1]
    BY AppsInMembers
  <2>2. PICK p \in T : q = <<Moved(p[1], from, to), p[2]>>
    OBVIOUS
  <2>3. p[1] \in AppsIn(T, kinds) /\ d = Moved(p[1], from, to)
    BY <2>1, <2>2, AppsInMembers
  <2>4. QED
    BY <2>3
<1>2. ASSUME NEW e \in AppsIn(T, kinds)
      PROVE  Moved(e, from, to) \in AppsIn(U, kinds)
  <2>1. PICK p \in T : p[2][1] = "app" /\ p[2][2] \in kinds /\ e = p[1]
    BY AppsInMembers
  <2>2. <<Moved(p[1], from, to), p[2]>> \in U
    OBVIOUS
  <2>3. QED
    BY <2>1, <2>2, AppsInMembers
<1> HIDE DEF U
<1>3. AppsIn(U, kinds) = {Moved(d, from, to) : d \in AppsIn(T, kinds)}
  BY <1>1, <1>2
<1>4. QED
  BY <1>3 DEF U

LEMMA PristineDirs ==
  ASSUME NEW kinds \in SUBSET Apps
  PROVE  AppsIn(PristineTree, kinds) = {<<o>> : o \in kinds}
<1>1. ASSUME NEW d \in AppsIn(PristineTree, kinds)
      PROVE  d \in {<<o>> : o \in kinds}
  <2>1. PICK q \in PristineTree : q[2][1] = "app" /\ q[2][2] \in kinds /\ d = q[1]
    BY AppsInMembers
  <2>2. PICK o \in Apps : q = <<<<o>>, <<"app", o>>>>
    BY <2>1, PristineApps
  <2>3. QED
    BY <2>1, <2>2
<1>2. ASSUME NEW o \in kinds
      PROVE  <<o>> \in AppsIn(PristineTree, kinds)
  <2>1. <<<<o>>, <<"app", o>>>> \in PristineTree
    BY PristineApps
  <2>2. QED
    BY <2>1, AppsInMembers
<1>3. QED
  BY <1>1, <1>2

LEMMA Kinds == Docker \in SUBSET Apps /\ Standalone \in SUBSET Apps /\ Apps \in SUBSET Apps
  BY DEF Docker, Standalone

LEMMA SameDirs ==
  ASSUME \A q : q[2][1] = "app" => (q \in tree' <=> q \in tree)
  PROVE  DockerDirs' = DockerDirs /\ StandaloneDirs' = StandaloneDirs /\ AppDirs' = AppDirs
<1>1. \A kinds : AppsIn(tree', kinds) = AppsIn(tree, kinds)
  BY SameApps
<1>2. QED
  BY <1>1 DEF DockerDirs, StandaloneDirs, AppDirs

LEMMA RenameKeepsMatch ==
  ASSUME NEW from, NEW to, AllMatch, RenameApp(from, to)
  PROVE  AllMatch'
<1>1. /\ tree' = {<<Moved(p[1], from, to), p[2]>> : p \in tree}
      /\ ci' = {Moved(d, from, to) : d \in ci} /\ audit' = {Moved(d, from, to) : d \in audit}
      /\ scripts' = {Moved(d, from, to) : d \in scripts}
  BY DEF RenameApp
<1>2. \A kinds : AppsIn(tree', kinds) = {Moved(d, from, to) : d \in AppsIn(tree, kinds)}
  BY <1>1, RenamedApps
<1>3. QED
  BY <1>1, <1>2 DEF AllMatch, ScriptsMatch, DockerDirs, StandaloneDirs, AppDirs

Registries == <<ci, audit, scripts>>

LEMMA MatchKept ==
  ASSUME \A q : q[2][1] = "app" => (q \in tree' <=> q \in tree), UNCHANGED Registries
  PROVE  AllMatch => AllMatch'
  BY SameDirs DEF AllMatch, ScriptsMatch, Registries

LEMMA RegStep ==
  ASSUME RegInv, [ScaffoldNext]_vars, (scars \subseteq {"add", "strayed"})'
  PROVE  RegInv'
<1> USE NoToolIdle
\* init
<1>1. ASSUME NEW name \in ProjectNames, NEW keep, NEW minimal, NEW picked,
             StartInit(name, keep, minimal, picked)
      PROVE  RegInv'
  <2>1. /\ initScript /\ tool.kind = "none" /\ UNCHANGED <<tree, Registries, initScript, scars>>
        /\ tool'.kind = "init" /\ tool'.pc = "begin"
    BY <1>1 DEF StartInit, Start, Idle, NoTool, files, registry, Registries
  <2>2. Untouched
    BY <2>1 DEF RegInv
  <2>3. Untouched'
    BY <2>1, <2>2, MatchKept DEF Untouched
  <2>4. QED
    BY <2>1, <2>3 DEF RegInv, InitRegs
<1>2. CASE Prune
  <2> DEFINE gone == {<<o>> : o \in Apps \ tool.keep}
  <2>1. /\ tool.kind = "init" /\ tool.pc = "begin" /\ UNCHANGED <<ci, audit, initScript, scars>>
        /\ tool'.kind = "init" /\ tool'.pc = "strip" /\ tool'.keep = tool.keep
        /\ tree' = {p \in tree : p[1] \notin gone} \ UNION {CapPlaces(c) : c \in Dropped}
        /\ scripts' = scripts \ gone
    BY <1>2 DEF Prune, At, Goto
  <2>2. Untouched /\ initScript
    BY <2>1 DEF RegInv, InitRegs
  <2>3. Dropped \subseteq AllCaps
    BY DEF Dropped
  <2>4. ASSUME NEW kinds \in SUBSET Apps
        PROVE  AppsIn(tree', kinds) = {<<o>> : o \in tool.keep \cap kinds}
    <3>1. ASSUME NEW d \in AppsIn(tree', kinds)
          PROVE  d \in {<<o>> : o \in tool.keep \cap kinds}
      <4>1. PICK q \in tree' : q[2][1] = "app" /\ q[2][2] \in kinds /\ d = q[1]
        BY AppsInMembers
      <4>2. q \in PristineTree /\ q[1] \notin gone
        BY <2>1, <2>2 DEF Untouched
      <4>3. PICK o \in Apps : q = <<<<o>>, <<"app", o>>>>
        BY <4>1, <4>2, PristineApps
      <4>4. QED
        BY <4>1, <4>2, <4>3
    <3>2. ASSUME NEW o \in tool.keep \cap kinds
          PROVE  <<o>> \in AppsIn(tree', kinds)
      <4>1. <<<<o>>, <<"app", o>>>> \in PristineTree
        BY PristineApps
      <4>2. <<o>> \notin gone
        OBVIOUS
      <4>3. \A c \in Dropped : <<<<o>>, <<"app", o>>>> \notin CapPlaces(c)
        BY <2>3, PlacesAreNoApps
      <4>4. <<<<o>>, <<"app", o>>>> \in tree'
        BY <2>1, <2>2, <4>1, <4>2, <4>3 DEF Untouched
      <4>5. QED
        BY <4>4, AppsInMembers
    <3>3. QED
      BY <3>1, <3>2
  <2>5. scripts' = {<<o>> : o \in tool.keep \cap Apps}
    <3>1. scripts = {<<o>> : o \in Apps}
      BY <2>2, PristineDirs DEF Untouched, AllMatch, ScriptsMatch, AppDirs
    <3>2. QED
      BY <2>1, <3>1
  <2>6. /\ DockerDirs' = {<<o>> : o \in tool.keep \cap Docker}
        /\ StandaloneDirs' = {<<o>> : o \in tool.keep \cap Standalone}
        /\ AppDirs' = {<<o>> : o \in tool.keep \cap Apps}
    BY <2>4, Kinds DEF DockerDirs, StandaloneDirs, AppDirs
  <2>7. /\ {<<o>> : o \in tool.keep \cap Docker}' = {<<o>> : o \in tool.keep \cap Docker}
        /\ {<<o>> : o \in tool.keep \cap Standalone}' = {<<o>> : o \in tool.keep \cap Standalone}
    BY <2>1
  <2>8. InitRegs'
    BY <2>1, <2>2, <2>5, <2>6, <2>7 DEF InitRegs, ScriptsMatch
  <2>9. QED
    BY <2>1, <2>8 DEF RegInv
<1>3. CASE StripBlocks
  <2>1. /\ tool.kind = "init" /\ tool.pc = "strip" /\ UNCHANGED <<scripts, initScript, scars>>
        /\ tool'.kind = "init" /\ tool'.pc = "scope"
        /\ ci' = {<<o>> : o \in tool.keep \cap Docker}
        /\ audit' = {<<o>> : o \in tool.keep \cap Standalone}
        /\ tree' = tree \/ \E ds : tree' = WithoutSamples(ds)
    BY <1>3 DEF StripBlocks, At, Goto
  <2>2. \A q : q[2][1] = "app" => (q \in tree' <=> q \in tree)
    BY <2>1 DEF WithoutSamples
  <2>3. InitRegs
    BY <2>1 DEF RegInv
  <2>4. AllMatch'
    BY <2>1, <2>2, <2>3, SameDirs DEF InitRegs, AllMatch, ScriptsMatch
  <2>5. QED
    BY <2>1, <2>3, <2>4 DEF RegInv, InitRegs
<1>4. ASSUME tool.kind = "init", tool.pc \in {"scope", "apps", "verify"}, AllMatch => AllMatch',
             UNCHANGED <<initScript, scars>>, tool'.kind = "init", tool'.pc \in {"scope", "apps", "verify"}
      PROVE  RegInv'
  BY <1>4 DEF RegInv, InitRegs
<1>5. CASE RenameScope
  <2>1. /\ tool.kind = "init" /\ tool.pc = "scope" /\ UNCHANGED <<tree, Registries, initScript, scars>>
        /\ tool'.kind = "init" /\ tool'.pc = "apps"
    BY <1>5 DEF RenameScope, At, registry, Registries
  <2>2. QED
    BY <1>4, <2>1, MatchKept
<1>6. CASE RenameKeptApp
  <2>1. /\ tool.kind = "init" /\ tool.pc = "apps" /\ UNCHANGED <<initScript, scars>>
        /\ tool'.kind = "init" /\ tool'.pc = "apps"
    <3>1. PICK done : tool' = [tool EXCEPT !.todo = Tail(tool.todo), !.done = done]
      BY <1>6 DEF RenameKeptApp
    <3>2. QED
      BY <1>6, <3>1 DEF RenameKeptApp, At
  <2>2. CASE UNCHANGED <<tree, Registries>>
    BY <1>4, <2>1, <2>2, MatchKept
  <2>3. ASSUME NEW from, NEW to, RenameApp(from, to)
        PROVE  RegInv'
    BY <1>4, <2>1, <2>3, RenameKeepsMatch
  <2>4. QED
    <3>1. UNCHANGED <<files, registry>> \/ \E from, to : RenameApp(from, to)
      BY <1>6 DEF RenameKeptApp
    <3>2. QED
      BY <2>2, <2>3, <3>1 DEF files, registry, Registries
<1>7. CASE WriteManifest
  <2>1. /\ tool.kind = "init" /\ tool.pc = "apps" /\ UNCHANGED <<tree, Registries, initScript, scars>>
        /\ tool'.kind = "init" /\ tool'.pc = "verify"
    BY <1>7 DEF WriteManifest, At, Goto, files, registry, Registries
  <2>2. QED
    BY <1>4, <2>1, MatchKept
<1>8. CASE RemoveSelf
  <2>1. /\ tool.kind = "init" /\ tool.pc = "verify" /\ UNCHANGED <<tree, Registries, scars>>
        /\ tool'.kind = "none" /\ initScript' = FALSE
    BY <1>8 DEF RemoveSelf, At, Done, files, registry, Registries
  <2>2. AllMatch'
    BY <2>1, MatchKept DEF RegInv, InitRegs
  <2>3. QED
    BY <2>1, <2>2 DEF RegInv
\* add
<1>9. ASSUME NEW asked, StartAdd(asked)
      PROVE  RegInv'
  <2>1. PICK wanted : StartAddOf(wanted)
    BY <1>9 DEF StartAdd
  <2> DEFINE steps == [i \in 1..Len(CapOrder) |->
                         IF CapOrder[i] \in wanted \ manifest.caps
                         THEN CapDirs(CapOrder[i]) \o MigrationOf(CapOrder[i]) ELSE << >>]
  <2>2. tool' = [NoTool EXCEPT !.kind = "add", !.pc = "copy", !.caps = wanted, !.todo = FlattenSeq(steps)]
    BY <2>1 DEF StartAddOf, Start
  <2>3. steps \in [1..7 -> Seq(Places)]
    <3>1. ASSUME NEW i \in 1..7 PROVE CapDirs(CapOrder[i]) \o MigrationOf(CapOrder[i]) \in Seq(Places)
      <4>1. CapOrder[i] \in AllCaps
        BY CapOrderIs
      <4>2. CapDirs(CapOrder[i]) \in Seq(Places) /\ MigrationOf(CapOrder[i]) \in Seq(Places)
        BY <4>1, CapSeqs
      <4>3. QED
        BY <4>2
    <3>2. << >> \in Seq(Places) /\ Len(CapOrder) = 7
      BY CapOrderIs
    <3>3. QED
      BY <3>1, <3>2
  <2> HIDE DEF steps
  <2>4. FlattenSeq(steps) \in Seq(Places)
    BY <2>3, FlattenSeven
  <2>5. tool'.kind = "add" /\ tool'.todo \in Seq(Places)
    BY <2>2, <2>4 DEF NoTool
  <2>6. /\ ~ initScript /\ tool.kind = "none" /\ scars \subseteq scars'
        /\ UNCHANGED <<tree, Registries, initScript>>
    BY <2>1 DEF StartAddOf, Start, Idle, files, registry, Registries
  <2>7. AllMatch'
    BY <2>6, MatchKept DEF RegInv
  <2>8. QED
    BY <2>5, <2>6, <2>7 DEF RegInv
<1>10. ASSUME tool.kind = "add", UNCHANGED <<Registries, initScript, scars>>,
              tool'.kind = "add", tool.todo \in Seq(Places) => tool'.todo \in Seq(Places),
              \A q : q[2][1] = "app" => (q \in tree' <=> q \in tree)
       PROVE  RegInv'
  <2>1. ~ initScript /\ AllMatch /\ tool.todo \in Seq(Places)
    BY <1>10 DEF RegInv
  <2>2. AllMatch'
    BY <1>10, <2>1, MatchKept
  <2>3. QED
    BY <1>10, <2>1, <2>2 DEF RegInv
<1>11. CASE CopyIn
  <2> DEFINE p == InLocal(Head(tool.todo))
  <2>1. /\ tool.kind = "add" /\ UNCHANGED <<Registries, initScript, scars>> /\ tool.todo # << >>
        /\ tree' = tree \/ tree' = tree \cup {p}
        /\ \E done : tool' = [tool EXCEPT !.todo = Tail(tool.todo), !.done = done]
    <3>1. CASE tool' = [tool EXCEPT !.todo = Tail(@)] /\ UNCHANGED files
      <4>1. tool' = [tool EXCEPT !.todo = Tail(@), !.done = tool.done]
        BY <1>11, <3>1 DEF CopyIn
      <4>2. QED
        BY <1>11, <3>1, <4>1 DEF CopyIn, At, files, registry, Registries
    <3>2. CASE tree' = tree \cup {p} /\ tool' = [tool EXCEPT !.todo = Tail(@), !.done = @ \cup {p}]
      BY <1>11, <3>2 DEF CopyIn, At, registry, Registries
    <3>3. QED
      BY <1>11, <3>1, <3>2 DEF CopyIn
  <2>2. tool.todo \in Seq(Places)
    BY <2>1 DEF RegInv
  <2>3. Head(tool.todo) \in Places /\ Tail(tool.todo) \in Seq(Places)
    BY <2>1, <2>2
  <2>4. p[2][1] # "app"
    BY <2>3 DEF InLocal, Places
  <2>5. \A q : q[2][1] = "app" => (q \in tree' <=> q \in tree)
    BY <2>1, <2>4
  <2> HIDE DEF p
  <2>6. tool'.kind = tool.kind /\ tool'.todo = Tail(tool.todo)
    BY <2>1
  <2>7. QED
    BY <1>10, <2>1, <2>3, <2>5, <2>6
<1>12. CASE StripCopied
  <2>1. /\ tool.kind = "add" /\ UNCHANGED <<tree, Registries, initScript, scars>>
        /\ tool'.kind = "add" /\ tool'.todo = tool.todo
    BY <1>12 DEF StripCopied, At, Goto, registry, Registries
  <2>2. QED
    BY <1>10, <2>1
<1>13. CASE Configure \/ WriteGuides
  <2>1. /\ tool.kind = "add" /\ UNCHANGED <<tree, Registries, initScript, scars>>
        /\ tool'.kind = "add" /\ tool'.todo = tool.todo
    <3>1. CASE Configure
      BY <3>1 DEF Configure, At, Goto, registry, Registries
    <3>2. CASE WriteGuides
      BY <3>2 DEF WriteGuides, At, Goto, files, registry, Registries
    <3>3. QED
      BY <1>13, <3>1, <3>2
  <2>2. QED
    BY <1>10, <2>1
<1>14. CASE RecordAdded
  <2>1. /\ tool.kind = "add" /\ UNCHANGED <<tree, Registries, initScript, scars>> /\ tool'.kind = "none"
    BY <1>14 DEF RecordAdded, At, Done, files, registry, Registries
  <2>2. QED
    BY <2>1, MatchKept DEF RegInv
<1>15. ASSUME NEW c, ApplyGuide(c)
       PROVE  RegInv'
  <2>1. tool.kind = "none" /\ UNCHANGED <<tree, Registries, initScript, scars, tool>>
    BY <1>15 DEF ApplyGuide, Idle, registry, Registries
  <2>2. QED
    BY <2>1, MatchKept DEF RegInv, Untouched
\* rename-app
<1>16. ASSUME NEW from, NEW to, StartRename(from, to)
       PROVE  RegInv'
  <2>1. /\ ~ initScript /\ tool.kind = "none" /\ UNCHANGED <<initScript, scars>>
        /\ tool'.kind = "rename" /\ RenameApp(from, to)
    BY <1>16 DEF StartRename, Start, Idle, NoTool
  <2>2. AllMatch'
    BY <2>1, RenameKeepsMatch DEF RegInv
  <2>3. QED
    BY <2>1, <2>2 DEF RegInv
<1>17. CASE RecordRename
  <2>1. /\ tool.kind = "rename" /\ UNCHANGED <<tree, Registries, initScript, scars>> /\ tool'.kind = "none"
    BY <1>17 DEF RecordRename, At, Done, files, registry, Registries
  <2>2. QED
    BY <2>1, MatchKept DEF RegInv
\* new-app
<1>18. ASSUME NEW o \in Apps, NEW name, StartNewApp(o, name)
       PROVE  RegInv'
  <2> DEFINE copy == {<<name, p[2]>> : p \in {q \in PristineTree : q[1] = <<o>>}}
  <2>1. /\ tool.kind = "none" /\ UNCHANGED <<Registries, initScript>>
        /\ scars' = IF initScript THEN scars \cup {"early"} ELSE scars
        /\ tool' = [NoTool EXCEPT !.kind = "new", !.pc = "reduce", !.name = name, !.keep = {o}]
        /\ tree' = tree \cup {<<name, p[2]>> : p \in {q \in SourceTree : q[1] = <<o>>}}
    BY <1>18 DEF StartNewApp, Start, Idle, registry, Registries
  <2>2. ~ initScript
    BY <2>1
  <2>3. tree' = tree \cup copy
    BY <2>1, <2>2 DEF SourceTree
  <2>4. tool'.kind = "new" /\ tool'.name = name /\ tool'.keep = {o}
    BY <2>1 DEF NoTool
  <2>5. \A q \in copy : q[2][1] = "app" => q = <<name, <<"app", o>>>>
    <3>1. ASSUME NEW p \in PristineTree, p[1] = <<o>>, p[2][1] = "app"
          PROVE  p[2] = <<"app", o>>
      BY <3>1, PristineApps
    <3>2. QED
      BY <3>1
  <2>6. <<name, <<"app", o>>>> \in copy
    <3>1. <<<<o>>, <<"app", o>>>> \in PristineTree
      BY PristineApps
    <3>2. QED
      BY <3>1
  <2>7. ASSUME NEW kinds
        PROVE  AppsIn(tree', kinds) = AppsIn(tree, kinds) \cup (IF o \in kinds THEN {name} ELSE {})
    <3>1. ASSUME NEW d \in AppsIn(tree', kinds)
          PROVE  d \in AppsIn(tree, kinds) \/ (o \in kinds /\ d = name)
      <4>1. PICK q \in tree' : q[2][1] = "app" /\ q[2][2] \in kinds /\ d = q[1]
        BY AppsInMembers
      <4>2. CASE q \in tree
        BY <4>1, <4>2, AppsInMembers
      <4>3. CASE q \in copy
        BY <2>5, <4>1, <4>3
      <4>4. QED
        BY <2>3, <4>2, <4>3
    <3>2. ASSUME NEW d \in AppsIn(tree, kinds)
          PROVE  d \in AppsIn(tree', kinds)
      <4>1. PICK q \in tree : q[2][1] = "app" /\ q[2][2] \in kinds /\ d = q[1]
        BY AppsInMembers
      <4>2. QED
        BY <2>3, <4>1, AppsInMembers
    <3>3. ASSUME o \in kinds
          PROVE  name \in AppsIn(tree', kinds)
      <4>1. <<name, <<"app", o>>>> \in tree'
        BY <2>3, <2>6
      <4>2. QED
        BY <3>3, <4>1, AppsInMembers
    <3>4. QED
      BY <3>1, <3>2, <3>3
  <2>8. AllMatch
    BY <2>1, <2>2 DEF RegInv
  <2>9. /\ DockerDirs' = ci' \cup (IF o \in Docker THEN {name} ELSE {})
        /\ StandaloneDirs' = audit' \cup (IF o \in Standalone THEN {name} ELSE {})
        /\ AppDirs' = scripts' \cup {name}
    BY <2>1, <2>7, <2>8 DEF DockerDirs, StandaloneDirs, AppDirs, AllMatch, ScriptsMatch, Registries
  <2>10. NewRegs'
    BY <2>4, <2>9 DEF NewRegs
  <2>11. QED
    BY <2>1, <2>2, <2>4, <2>10 DEF RegInv
<1>19. CASE Reduce
  <2>1. /\ tool.kind = "new" /\ UNCHANGED <<Registries, initScript, scars>>
        /\ tool'.kind = "new" /\ tool'.name = tool.name /\ tool'.keep = tool.keep
        /\ tree' = {p \in WithoutSamples({tool.name}) : p[1] = tool.name => p[2][1] = "app"}
    BY <1>19 DEF Reduce, At, Goto, registry, Registries
  <2>2. \A q : q[2][1] = "app" => (q \in tree' <=> q \in tree)
    BY <2>1 DEF WithoutSamples
  <2>3. NewRegs /\ ~ initScript
    BY <2>1 DEF RegInv
  <2>4. NewRegs'
    BY <2>1, <2>2, <2>3, SameDirs DEF NewRegs, Registries
  <2>5. QED
    BY <2>1, <2>3, <2>4 DEF RegInv
<1>20. CASE Register
  <2>1. /\ tool.kind = "new" /\ UNCHANGED <<tree, initScript, scars>> /\ tool'.kind = "none"
        /\ scripts' = scripts \cup {tool.name}
        /\ ci' = AppendTo(ci, tool.name, tool.keep \subseteq Docker)
        /\ audit' = AppendTo(audit, tool.name, tool.keep \subseteq Standalone)
    BY <1>20 DEF Register, At, Done, files
  <2>2. NewRegs /\ ~ initScript
    BY <2>1 DEF RegInv
  <2>3. AllMatch'
    <3>1. UNCHANGED <<DockerDirs, StandaloneDirs, AppDirs>>
      BY <2>1, SameDirs
    <3>2. QED
      BY <2>1, <2>2, <3>1 DEF NewRegs, AllMatch, ScriptsMatch, AppendTo
  <2>4. QED
    BY <2>1, <2>2, <2>3 DEF RegInv
<1>21. CASE Stop
  <2>1. /\ scars' = scars \cup {tool.kind} /\ tool'.kind = "none" /\ UNCHANGED <<tree, Registries, initScript>>
    BY <1>21 DEF Stop, Done, files, registry, Registries
  <2>2. tool.kind = "add"
    BY <2>1 DEF RegInv
  <2>3. QED
    BY <2>1, <2>2, MatchKept DEF RegInv
<1>22. CASE UNCHANGED vars
  <2>1. UNCHANGED <<tree, Registries, initScript, scars, tool>>
    BY <1>22 DEF vars, files, registry, Registries
  <2>2. UNCHANGED <<DockerDirs, StandaloneDirs, AppDirs>>
    BY <2>1, SameDirs
  <2>3. QED
    BY <2>1, <2>2 DEF RegInv, InitRegs, NewRegs, Untouched, AllMatch, ScriptsMatch, Registries
<1>23. QED
  BY <1>1, <1>2, <1>3, <1>5, <1>6, <1>7, <1>8, <1>9, <1>11, <1>12, <1>13, <1>14, <1>15, <1>16, <1>17,
     <1>18, <1>19, <1>20, <1>21, <1>22 DEF ScaffoldNext

LEMMA RegInvInductive == RegInv /\ [ScaffoldNext]_vars => RegInv'
<1> SUFFICES ASSUME RegInv, [ScaffoldNext]_vars PROVE RegInv'
  OBVIOUS
<1>1. CASE (scars \subseteq {"add", "strayed"})'
  BY <1>1, RegStep
<1>2. CASE ~ (scars \subseteq {"add", "strayed"})'
  BY <1>2 DEF RegInv
<1>3. QED
  BY <1>1, <1>2

\* Whatever was renamed or created since, and wherever add was stopped, the image matrices, the audit
\* matrix and the scripts name exactly the apps there are (scaffold-manifest.mjs:418-437, init.mjs:251-276).
THEOREM ScaffoldRegistriesMatch == ScaffoldSpec => []RegistriesMatch
<1>1. ScaffoldInit => RegInv
  <2> SUFFICES ASSUME ScaffoldInit PROVE RegInv
    OBVIOUS
  <2>1. tree = PristineTree /\ tool.kind = "none"
    BY NoToolIdle DEF ScaffoldInit
  <2>2. AllMatch
    BY <2>1, PristineDirs, Kinds DEF ScaffoldInit, AllMatch, ScriptsMatch, DockerDirs, StandaloneDirs, AppDirs
  <2>3. QED
    BY <2>1, <2>2 DEF RegInv, Untouched
<1>2. RegInv => RegistriesMatch
  <2> SUFFICES ASSUME RegInv, Generated, scars \subseteq {"add", "strayed"}
               PROVE  ci = DockerDirs /\ audit = StandaloneDirs /\ scripts = AppDirs
    BY DEF RegistriesMatch, DockerDirs, StandaloneDirs, AppDirs, AppsIn
  <2>1. QED
    BY DEF RegInv, Generated, Idle, AllMatch, ScriptsMatch
<1>3. QED
  BY <1>1, <1>2, RegInvInductive, PTL DEF ScaffoldSpec

(* What is installed *)

\* Where the parts of a capability are in the scaffold.
LEMMA PlacesOf ==
  ASSUME NEW c \in AllCaps, NEW p
  PROVE  p \in CapPlaces(c) <=>
           \/ c \in LibCaps /\ p = <<Root, <<"lib", c>>>>
           \/ c \in AllCaps \ {"realtime", "metrics"} /\ p = <<Root, <<"migration", c>>>>
           \/ \E i \in 1..Len(Modules[c]) : p = <<Api, <<"module", Modules[c][i]>>>>
<1>1. p \in ToSet(LibOf(c)) <=> c \in LibCaps /\ p = <<Root, <<"lib", c>>>>
  BY DEF LibOf, ToSet
<1>2. p \in ToSet(MigrationOf(c)) <=> c \in AllCaps \ {"realtime", "metrics"} /\ p = <<Root, <<"migration", c>>>>
  BY DEF MigrationOf, ToSet
<1>3. p \in ToSet(ModulesOf(c)) <=> \E i \in 1..Len(Modules[c]) : p = <<Api, <<"module", Modules[c][i]>>>>
  <2>1. Len(Modules[c]) \in Nat
    BY ModulesAreSeqs
  <2>2. Len(ModulesOf(c)) = Len(Modules[c]) /\ DOMAIN ModulesOf(c) = 1..Len(Modules[c])
    BY <2>1 DEF ModulesOf
  <2>3. QED
    BY <2>2 DEF ToSet, ModulesOf
<1>4. CapPlaces(c) = ToSet((LibOf(c) \o ModulesOf(c)) \o MigrationOf(c))
  BY CapSeqs DEF CapPlaces
<1>5. LibOf(c) \o ModulesOf(c) \in Seq(Places)
  BY CapSeqs
<1>6. CapPlaces(c) = (ToSet(LibOf(c)) \cup ToSet(ModulesOf(c))) \cup ToSet(MigrationOf(c))
  <2>1. ToSet(LibOf(c) \o ModulesOf(c)) = ToSet(LibOf(c)) \cup ToSet(ModulesOf(c))
    BY CapSeqs, ConcatMembers
  <2>2. ASSUME NEW u \in Seq(Places)
        PROVE  ToSet(u \o MigrationOf(c)) = ToSet(u) \cup ToSet(MigrationOf(c))
    BY CapSeqs, ConcatMembers
  <2>3. QED
    BY <1>4, <1>5, <2>1, <2>2
<1>7. QED
  BY <1>1, <1>2, <1>3, <1>6

LEMMA ModuleOwner ==
  ASSUME NEW c \in AllCaps, NEW i \in 1..Len(Modules[c])
  PROVE  /\ Modules[c][i] \in {"auth", "users"} => c = "auth"
         /\ Modules[c][i] = "notifications" => c = "messaging"
         /\ Modules[c][i] \notin {"auth", "users", "notifications"} => c = Modules[c][i]
<1>1. /\ Modules["auth"] = <<"auth", "users">> /\ Modules["messaging"] = <<"notifications">>
      /\ Modules["compliance"] = <<"compliance">> /\ Modules["tasks"] = <<"tasks">>
      /\ Modules["realtime"] = << >> /\ Modules["featureflags"] = << >> /\ Modules["metrics"] = << >>
  BY DEF Modules
<1>2. c \in {"auth", "messaging", "realtime", "featureflags", "metrics", "compliance", "tasks"}
  BY CapOrderIs
<1>3. CASE c = "auth"
  <2>1. Modules[c] = <<"auth", "users">>
    BY <1>1, <1>3
  <2>2. i \in 1..Len(<<"auth", "users">>)
    BY <2>1
  <2>3. i = 1 \/ i = 2
    BY <2>2
  <2>4. Modules[c][i] = "auth" \/ Modules[c][i] = "users"
    BY <2>1, <2>3
  <2>5. QED
    BY <1>3, <2>4
<1>4. ASSUME NEW m, Modules[c] = <<m>>
      PROVE  Modules[c][i] = m
  <2>1. i \in 1..Len(<<m>>)
    BY <1>4
  <2>2. i = 1
    BY <2>1
  <2>3. QED
    BY <1>4, <2>2
<1>5. Modules[c] # << >>
  <2>1. ASSUME Modules[c] = << >> PROVE FALSE
    <3>1. i \in 1..Len(<< >>)
      BY <2>1
    <3>2. QED
      BY <3>1
  <2>2. QED
    BY <2>1
<1>6. CASE c = "messaging"
  BY <1>1, <1>4, <1>6
<1>7. CASE c = "compliance"
  BY <1>1, <1>4, <1>7
<1>8. CASE c = "tasks"
  BY <1>1, <1>4, <1>8
<1>9. QED
  BY <1>1, <1>2, <1>3, <1>5, <1>6, <1>7, <1>8

\* No two capabilities share a place.
LEMMA PlacesApart ==
  ASSUME NEW c \in AllCaps, NEW d \in AllCaps, NEW p \in CapPlaces(c), p \in CapPlaces(d)
  PROVE  c = d
<1>1. CASE p[2][1] = "module"
  <2>1. PICK i \in 1..Len(Modules[c]) : p = <<Api, <<"module", Modules[c][i]>>>>
    BY <1>1, PlacesOf
  <2>2. PICK j \in 1..Len(Modules[d]) : p = <<Api, <<"module", Modules[d][j]>>>>
    BY <1>1, PlacesOf
  <2>3. Modules[c][i] = Modules[d][j]
    BY <2>1, <2>2
  <2>4. QED
    BY <2>3, ModuleOwner
<1>2. CASE p[2][1] # "module"
  <2>1. p = <<Root, <<"lib", c>>>> \/ p = <<Root, <<"migration", c>>>>
    BY <1>2, PlacesOf
  <2>2. p = <<Root, <<"lib", d>>>> \/ p = <<Root, <<"migration", d>>>>
    BY <1>2, PlacesOf
  <2>3. QED
    BY <2>1, <2>2
<1>3. QED
  BY <1>1, <1>2

LEMMA PlaceShape ==
  ASSUME NEW c \in AllCaps, NEW p \in CapPlaces(c)
  PROVE  /\ p \in Places /\ p = <<p[1], p[2]>> /\ p[1] \in {Root, Api}
         /\ p[2][1] \in {"lib", "module", "migration"}
<1>1. LibOf(c) \o ModulesOf(c) \in Seq(Places) /\ CapDirs(c) = LibOf(c) \o ModulesOf(c)
  BY CapSeqs
<1>2. \A s \in Seq(Places) : \A x \in ToSet(s) : x \in Places
  BY DEF ToSet
<1>3. CapDirs(c) \o MigrationOf(c) \in Seq(Places)
  BY <1>1, CapSeqs
<1>4. p \in Places
  BY <1>2, <1>3 DEF CapPlaces
<1>5. QED
  BY <1>4 DEF Places

\* What is there and known of a capability.
Whole == {c \in AllCaps : /\ \A p \in CapPlaces(c) : Here(p) \in tree
                          /\ c \in LibCaps => c \in aliases /\ <<apiDir, c>> \in deps}

ApiThere     == <<apiDir, <<"app", "api">>>> \in tree
ApiFollowed  == Local(Api) = apiDir
ManifestGood == /\ manifest.caps \subseteq Whole \cap Selectable
                /\ \A c \in manifest.caps : Requires(c) \subseteq manifest.caps

\* A capability that init keeps stays whole through every step.
InitCaps ==
  /\ initScript
  /\ tool.pc \in {"begin", "strip", "scope", "apps", "verify"}
  /\ "api" \in tool.keep
  /\ tool.caps \subseteq AllCaps /\ \A c \in tool.caps : Requires(c) \subseteq tool.caps
  /\ tool.pc # "verify" => manifest.caps = {}
  /\ tool.pc \in {"begin", "strip", "scope"} => apiDir = Api
  /\ tool.pc = "begin" => Whole = AllCaps
  /\ tool.caps \subseteq Whole

\* What add still has to copy of the capabilities it is adding.
Installing ==
  /\ tool.pc = "copy" => tool.todo \in Seq(Places)
  /\ \A c \in Adding : \A p \in CapPlaces(c) :
       Here(p) \in tree \/ (tool.pc = "copy" /\ p \in ToSet(tool.todo))
  /\ tool.pc \in {"guides", "record"} => Adding \subseteq Whole

AddCaps ==
  /\ ~ initScript
  /\ ApiFollowed
  /\ tool.pc \in {"copy", "configure", "guides", "record"}
  /\ tool.caps \subseteq Selectable
  /\ \A c \in tool.caps : Requires(c) \subseteq tool.caps \cup manifest.caps
  /\ Installing

InstallInv ==
  Unless({"init", "strayed"}) =>
    /\ ApiThere
    /\ ManifestGood
    /\ initScript /\ tool.kind # "init" =>
         tool.kind \in {"none", "new"} /\ apiDir = Api /\ Whole = AllCaps /\ manifest.caps = {}
    /\ tool.kind = "init" => InitCaps
    /\ tool.kind = "add" => AddCaps
    /\ tool.kind = "new" => tool.name \in FreeNames /\ tool.name # apiDir

LEMMA WholeKept ==
  ASSUME UNCHANGED apiDir,
         \A c \in AllCaps : \A p \in CapPlaces(c) : Here(p) \in tree => Here(p) \in tree',
         aliases \subseteq aliases', \A c : <<apiDir, c>> \in deps => <<apiDir, c>> \in deps'
  PROVE  Whole \subseteq Whole'
<1>1. \A p : Here(p)' = Here(p)
  BY DEF Here
<1>2. QED
  BY <1>1 DEF Whole

LEMMA WholeGrows ==
  ASSUME UNCHANGED apiDir, tree \subseteq tree', aliases \subseteq aliases', deps \subseteq deps'
  PROVE  Whole \subseteq Whole'
  BY WholeKept

LEMMA PlaceMoves ==
  ASSUME NEW from, NEW to, from # Root, RenameApp(from, to)
  PROVE  \A c \in AllCaps : \A p \in CapPlaces(c) : Here(p) \in tree => Here(p)' \in tree'
<1>1. /\ tree' = {<<Moved(p[1], from, to), p[2]>> : p \in tree} /\ apiDir' = Moved(apiDir, from, to)
  BY DEF RenameApp
<1>2. ASSUME NEW c \in AllCaps, NEW p \in CapPlaces(c), Here(p) \in tree
      PROVE  Here(p)' \in tree'
  <2>1. p[1] \in {Root, Api}
    BY PlaceShape
  <2>2. CASE p[1] = Api
    <3>1. Here(p) = <<apiDir, p[2]>> /\ Here(p)' = <<apiDir', p[2]>>
      BY <2>2 DEF Here
    <3>2. QED
      BY <1>1, <1>2, <3>1
  <2>3. CASE p[1] = Root
    <3>1. Here(p) = <<Root, p[2]>> /\ Here(p)' = <<Root, p[2]>>
      BY <2>3 DEF Here, Root, Api
    <3>2. Moved(Root, from, to) = Root
      BY DEF Moved
    <3>3. QED
      BY <1>1, <1>2, <3>1, <3>2
  <2>4. QED
    BY <2>1, <2>2, <2>3
<1>3. QED
  BY <1>2

LEMMA WholeMoves ==
  ASSUME NEW from, NEW to, from # Root, RenameApp(from, to)
  PROVE  Whole \subseteq Whole' /\ (ApiThere => ApiThere')
<1>1. /\ tree' = {<<Moved(p[1], from, to), p[2]>> : p \in tree}
      /\ deps' = {<<Moved(p[1], from, to), p[2]>> : p \in deps}
      /\ apiDir' = Moved(apiDir, from, to) /\ aliases' = aliases
  BY DEF RenameApp
<1>2. \A c \in AllCaps : \A p \in CapPlaces(c) : Here(p) \in tree => Here(p)' \in tree'
  BY PlaceMoves
<1>3. \A c : <<apiDir, c>> \in deps => <<apiDir', c>> \in deps'
  BY <1>1
<1>4. QED
  BY <1>1, <1>2, <1>3 DEF Whole, ApiThere

LEMMA InLocalIsHere ==
  ASSUME ApiFollowed, NEW p \in Places
  PROVE  InLocal(p) = Here(p)
<1>1. Local(Root) = Root
  <2>1. \A r : <<r[1]>> # Root
    BY DEF Root
  <2>2. QED
    BY <2>1 DEF Local
<1>2. p[1] = Root \/ p[1] = Api
  BY DEF Places
<1>3. QED
  BY <1>1, <1>2 DEF InLocal, Here, ApiFollowed

LEMMA CapFacts ==
  /\ \A c : Requires(c) \subseteq {"auth"} /\ Requires("auth") = {}
  /\ "tasks" \notin Selectable /\ Selectable \subseteq AllCaps /\ "auth" \in Selectable
  /\ Api # Root
  BY CapOrderIs DEF Requires, Selectable, Api, Root

LEMMA InstallStep ==
  ASSUME InstallInv, [ScaffoldNext]_vars, Unless({"init", "strayed"})'
  PROVE  InstallInv'
<1> USE NoToolIdle, CapFacts
<1>a. scars \subseteq scars' => Unless({"init", "strayed"})
  BY DEF Unless
\* init
<1>1. ASSUME NEW name \in ProjectNames, NEW keep, NEW minimal, NEW picked,
             picked \subseteq Selectable,
             StartInit(name, keep, minimal, picked)
      PROVE  InstallInv'
  <2> DEFINE caps == IF minimal THEN picked \cup UNION {Requires(c) : c \in picked} ELSE AllCaps
  <2>1. /\ initScript /\ tool.kind = "none" /\ UNCHANGED <<files, registry, manifest, initScript, scars>>
        /\ tool' = [NoTool EXCEPT !.kind = "init", !.pc = "begin", !.name = name,
                                  !.keep = {"api"} \cup keep, !.minimal = minimal, !.caps = caps]
    BY <1>1 DEF StartInit, Start, Idle
  <2>2. caps \subseteq AllCaps /\ \A c \in caps : Requires(c) \subseteq caps
    <3>1. CASE ~ minimal
      BY <3>1
    <3>2. CASE minimal
      <4>1. caps = picked \cup UNION {Requires(c) : c \in picked}
        BY <3>2
      <4> HIDE DEF caps
      <4>2. caps \subseteq AllCaps
        BY <1>1, <4>1
      <4>3. QED
        BY <4>1, <4>2
    <3>3. QED
      BY <3>1, <3>2
  <2> HIDE DEF caps
  <2>3. tool'.kind = "init" /\ tool'.pc = "begin" /\ "api" \in tool'.keep /\ tool'.caps = caps
    BY <2>1 DEF NoTool
  <2>4. ApiThere /\ ManifestGood /\ Whole = AllCaps /\ apiDir = Api /\ manifest.caps = {}
    BY <2>1, <1>a DEF InstallInv
  <2>5. Whole' = Whole /\ ApiThere' /\ ManifestGood'
    <3>1. Whole' = Whole
      BY <2>1 DEF Whole, Here, files, registry
    <3>2. QED
      BY <2>1, <2>4, <3>1 DEF ApiThere, ManifestGood, files, registry
  <2>6. InitCaps'
    BY <2>1, <2>2, <2>3, <2>4, <2>5 DEF InitCaps, registry
  <2>7. QED
    BY <2>3, <2>5, <2>6 DEF InstallInv
<1>2. ASSUME UNCHANGED <<initScript, scars, manifest>>, tool.kind = "init", tool'.kind = "init",
             tool'.pc \in {"strip", "scope", "apps"}, tool.pc # "verify",
             tool'.keep = tool.keep, tool'.caps = tool.caps, tool.caps \subseteq Whole => tool.caps \subseteq Whole',
             ApiThere => ApiThere', tool'.pc # "apps" => tool.pc \in {"begin", "strip", "scope"} /\ UNCHANGED apiDir
      PROVE  InstallInv'
  <2>1. InitCaps /\ ApiThere
    BY <1>2, <1>a DEF InstallInv
  <2>2. InitCaps' /\ ApiThere' /\ ManifestGood'
    BY <1>2, <2>1 DEF InitCaps, ManifestGood
  <2>3. QED
    BY <1>2, <2>2 DEF InstallInv
<1>3. CASE Prune
  <2> DEFINE gone == {<<o>> : o \in Apps \ tool.keep}
  <2>1. /\ tool.kind = "init" /\ tool.pc = "begin" /\ UNCHANGED <<apiDir, initScript, scars, manifest>>
        /\ tool'.kind = "init" /\ tool'.pc = "strip" /\ tool'.keep = tool.keep /\ tool'.caps = tool.caps
        /\ tree' = {p \in tree : p[1] \notin gone} \ UNION {CapPlaces(c) : c \in Dropped}
        /\ aliases' = aliases \ Dropped /\ deps' = deps \ ({Api} \X Dropped)
    BY <1>3 DEF Prune, At, Goto
  <2>2. InitCaps /\ ApiThere
    BY <2>1, <1>a DEF InstallInv
  <2>3. Dropped \subseteq AllCaps /\ Dropped \cap tool.caps = {} /\ Api \notin gone /\ Root \notin gone /\ apiDir = Api
    BY <2>1, <2>2 DEF InitCaps, Dropped, Api, Root
  <2>4. ApiThere'
    <3>1. <<Api, <<"app", "api">>>> \in tree
      BY <2>2, <2>3 DEF ApiThere
    <3>2. \A c \in Dropped : <<Api, <<"app", "api">>>> \notin CapPlaces(c)
      BY <2>3, PlacesAreNoApps
    <3>3. <<Api, <<"app", "api">>>> \in tree'
      BY <2>1, <2>3, <3>1, <3>2
    <3>4. QED
      BY <2>1, <2>3, <3>3 DEF ApiThere
  <2>5. ASSUME NEW c \in tool.caps, c \in Whole
        PROVE  c \in Whole'
    <3>1. c \in AllCaps /\ c \notin Dropped
      BY <2>2, <2>3 DEF InitCaps
    <3>2. ASSUME NEW p \in CapPlaces(c)
          PROVE  Here(p)' \in tree'
      <4>1. Here(p) \in tree
        BY <2>5 DEF Whole
      <4>2. Here(p) = p /\ Here(p)' = p
        <5>1. p = <<p[1], p[2]>>
          BY <3>1, PlaceShape
        <5>2. Here(p) = <<p[1], p[2]>> /\ Here(p)' = <<p[1], p[2]>>
          BY <2>1, <2>3 DEF Here
        <5>3. QED
          BY <5>1, <5>2
      <4>3. p[1] \notin gone
        BY <2>3, <3>1, PlaceShape
      <4>4. \A d \in Dropped : p \notin CapPlaces(d)
        BY <2>3, <3>1, PlacesApart
      <4>5. QED
        BY <2>1, <4>1, <4>2, <4>3, <4>4
    <3>3. c \in LibCaps => c \in aliases' /\ <<apiDir', c>> \in deps'
      BY <2>1, <2>3, <2>5, <3>1 DEF Whole
    <3>4. QED
      BY <3>1, <3>2, <3>3 DEF Whole
  <2>6. QED
    BY <1>2, <2>1, <2>4, <2>5
<1>4. CASE StripBlocks
  <2>1. /\ tool.kind = "init" /\ tool.pc = "strip" /\ UNCHANGED <<apiDir, initScript, scars, manifest, aliases, deps>>
        /\ tool'.kind = "init" /\ tool'.pc = "scope" /\ tool'.keep = tool.keep /\ tool'.caps = tool.caps
        /\ tree' = tree \/ \E ds : tree' = WithoutSamples(ds)
    BY <1>4 DEF StripBlocks, At, Goto
  <2>2. \A p \in tree : p[2][1] # "sample" => p \in tree'
    BY <2>1 DEF WithoutSamples
  <2>3. \A c \in AllCaps : \A p \in CapPlaces(c) : Here(p)[2][1] # "sample"
    BY PlacesAreNoApps DEF Here
  <2>4. Whole \subseteq Whole'
    BY <2>1, <2>2, <2>3, WholeKept
  <2>5. ApiThere => ApiThere'
    BY <2>1, <2>2 DEF ApiThere
  <2>6. QED
    BY <1>2, <2>1, <2>4, <2>5
<1>5. CASE RenameScope
  <2>1. /\ tool.kind = "init" /\ tool.pc = "scope" /\ UNCHANGED <<tree, apiDir, initScript, scars, manifest, aliases, deps>>
        /\ tool'.kind = "init" /\ tool'.pc = "apps" /\ tool'.keep = tool.keep /\ tool'.caps = tool.caps
    BY <1>5 DEF RenameScope, At, registry
  <2>2. Whole \subseteq Whole' /\ (ApiThere => ApiThere')
    BY <2>1, WholeGrows DEF ApiThere
  <2>3. QED
    BY <1>2, <2>1, <2>2
<1>6. CASE RenameKeptApp
  <2>1. /\ tool.kind = "init" /\ tool.pc = "apps" /\ UNCHANGED <<initScript, scars, manifest>>
        /\ tool'.kind = "init" /\ tool'.pc = "apps" /\ tool'.keep = tool.keep /\ tool'.caps = tool.caps
    <3>1. PICK done : tool' = [tool EXCEPT !.todo = Tail(tool.todo), !.done = done]
      BY <1>6 DEF RenameKeptApp
    <3>2. QED
      BY <1>6, <3>1 DEF RenameKeptApp, At
  <2>2. CASE UNCHANGED <<files, registry>>
    <3>1. Whole \subseteq Whole' /\ (ApiThere => ApiThere')
      BY <2>2, WholeGrows DEF ApiThere, files, registry
    <3>2. QED
      BY <1>2, <2>1, <3>1
  <2>3. ASSUME NEW o, NEW to, RenameApp(<<o>>, to)
        PROVE  InstallInv'
    <3>1. <<o>> # Root
      BY DEF Root
    <3>2. QED
      BY <1>2, <2>1, <2>3, <3>1, WholeMoves
  <2>4. QED
    <3>1. UNCHANGED <<files, registry>> \/ \E o, to : RenameApp(<<o>>, to)
      BY <1>6 DEF RenameKeptApp
    <3>2. QED
      BY <2>2, <2>3, <3>1
<1>7. CASE WriteManifest
  <2>1. /\ tool.kind = "init" /\ tool.pc = "apps" /\ UNCHANGED <<files, registry, initScript, scars>>
        /\ tool'.kind = "init" /\ tool'.pc = "verify" /\ tool'.keep = tool.keep /\ tool'.caps = tool.caps
        /\ manifest'.caps = tool.caps \ {"tasks"}
    BY <1>7 DEF WriteManifest, At, Goto
  <2>2. InitCaps /\ ApiThere
    BY <2>1, <1>a DEF InstallInv
  <2>3. Whole \subseteq Whole' /\ ApiThere'
    BY <2>1, <2>2, WholeGrows DEF ApiThere, files, registry
  <2>4. ManifestGood'
    BY <2>1, <2>2, <2>3 DEF InitCaps, ManifestGood, Selectable
  <2>5. InitCaps'
    BY <2>1, <2>2, <2>3 DEF InitCaps
  <2>6. QED
    BY <2>1, <2>3, <2>4, <2>5 DEF InstallInv
\* Steps that leave the tree, the aliases and the dependencies alone.
<1>8. ASSUME UNCHANGED <<tree, aliases, deps, apiDir>>, manifest'.caps = manifest.caps, scars \subseteq scars',
             initScript' => initScript, tool'.kind \in {"none", "rename"},
             initScript' => tool.kind # "init" /\ tool'.kind = "none"
      PROVE  InstallInv'
  <2>1. Whole' = Whole
    BY <1>8 DEF Whole, Here
  <2>2. ApiThere' /\ ManifestGood'
    BY <1>8, <2>1, <1>a DEF InstallInv, ApiThere, ManifestGood
  <2>3. QED
    BY <1>8, <2>1, <2>2, <1>a DEF InstallInv
<1>9. CASE RemoveSelf
  BY <1>8, <1>9 DEF RemoveSelf, At, Done, files, registry
\* add
<1>10. ASSUME NEW asked \in Picks, StartAdd(asked)
       PROVE  InstallInv'
  <2> DEFINE wanted == asked \cup ((UNION {Requires(c) : c \in asked}) \ manifest.caps)
             steps == [i \in 1..Len(CapOrder) |->
                         IF CapOrder[i] \in wanted \ manifest.caps
                         THEN CapDirs(CapOrder[i]) \o MigrationOf(CapOrder[i]) ELSE << >>]
  <2>1. /\ tool' = [NoTool EXCEPT !.kind = "add", !.pc = "copy", !.caps = wanted, !.todo = FlattenSeq(steps)]
        /\ ~ initScript /\ tool.kind = "none" /\ UNCHANGED <<files, registry, manifest, initScript>>
        /\ scars' = IF Local(Api) = apiDir THEN scars ELSE scars \cup {"strayed"}
    BY <1>10 DEF StartAdd, StartAddOf, Start, Idle
  <2>2. Local(Api) = apiDir /\ scars' = scars
    BY <2>1 DEF Unless
  <2>3. asked \subseteq Selectable
    BY ScaffoldAssumption
  <2>4. wanted \subseteq Selectable /\ \A c \in wanted : Requires(c) \subseteq wanted \cup manifest.caps
    <3>1. wanted \subseteq Selectable
      BY <2>3
    <3>2. ASSUME NEW c \in wanted PROVE Requires(c) \subseteq wanted \cup manifest.caps
      <4>1. CASE c \in asked
        <5>1. ASSUME NEW r \in Requires(c), r \notin manifest.caps PROVE r \in wanted
          <6>1. Requires(c) \in {Requires(d) : d \in asked}
            BY <4>1
          <6>2. r \in UNION {Requires(d) : d \in asked}
            BY <5>1, <6>1
          <6>3. r \in (UNION {Requires(d) : d \in asked}) \ manifest.caps
            BY <5>1, <6>2
          <6>4. QED
            BY <6>3
        <5>2. QED
          BY <5>1
      <4>2. CASE c = "auth"
        BY <4>2
      <4>3. QED
        BY <3>2, <4>1, <4>2
    <3>3. QED
      BY <3>1, <3>2
  <2> HIDE DEF wanted
  <2>5. ApiThere /\ ManifestGood
    BY <2>2, <1>a DEF InstallInv
  <2>6. \A i \in 1..7 : CapDirs(CapOrder[i]) \o MigrationOf(CapOrder[i]) \in Seq(Places)
    <3>1. ASSUME NEW i \in 1..7
          PROVE  CapDirs(CapOrder[i]) \o MigrationOf(CapOrder[i]) \in Seq(Places)
      <4>1. CapOrder[i] \in AllCaps
        BY CapOrderIs
      <4>2. CapDirs(CapOrder[i]) \in Seq(Places) /\ MigrationOf(CapOrder[i]) \in Seq(Places)
        BY <4>1, CapSeqs
      <4>3. QED
        BY <4>2
    <3>2. QED
      BY <3>1
  <2>7. steps \in [1..7 -> Seq(Places)]
    <3>1. << >> \in Seq(Places) /\ Len(CapOrder) = 7
      BY CapOrderIs
    <3>2. QED
      BY <2>6, <3>1
  <2>8. \A c \in wanted \ manifest.caps : \E i \in 1..7 : steps[i] = CapDirs(c) \o MigrationOf(c)
    <3>1. \A c \in AllCaps : \E i \in 1..7 : CapOrder[i] = c
      BY CapOrderIs DEF AllCaps, ToSet
    <3>2. 1..Len(CapOrder) = 1..7
      BY CapOrderIs
    <3>3. ASSUME NEW c \in wanted \ manifest.caps, NEW i \in 1..7, CapOrder[i] = c
          PROVE  steps[i] = CapDirs(c) \o MigrationOf(c)
      BY <3>2, <3>3
    <3> HIDE DEF steps
    <3>4. \A c \in wanted : c \in AllCaps
      BY <2>4
    <3>5. QED
      BY <3>1, <3>3, <3>4
  <2> HIDE DEF steps
  <2>9. /\ FlattenSeq(steps) \in Seq(Places)
        /\ \A i \in 1..7 : ToSet(steps[i]) \subseteq ToSet(FlattenSeq(steps))
    BY <2>7, FlattenSeven
  <2>10. \A c \in wanted \ manifest.caps : CapPlaces(c) \subseteq ToSet(FlattenSeq(steps))
    BY <2>8, <2>9 DEF CapPlaces
  <2>11. /\ tool'.kind = "add" /\ tool'.pc = "copy" /\ tool'.caps = wanted
         /\ tool'.todo = FlattenSeq(steps)
    BY <2>1 DEF NoTool
  <2>12. ApiThere' /\ ManifestGood' /\ ApiFollowed'
    <3>1. Whole' = Whole
      BY <2>1 DEF Whole, Here, files, registry
    <3>2. QED
      BY <2>1, <2>2, <2>5, <3>1 DEF ApiThere, ManifestGood, ApiFollowed, Local, files, registry
  <2>13. Adding' = wanted \ manifest.caps
    BY <2>1, <2>11 DEF Adding
  <2>14. Installing'
    BY <2>9, <2>10, <2>11, <2>13 DEF Installing
  <2>15. AddCaps'
    BY <2>1, <2>4, <2>11, <2>12, <2>14 DEF AddCaps
  <2>16. QED
    BY <2>1, <2>11, <2>12, <2>15 DEF InstallInv
<1>11. ASSUME tool.kind = "add", UNCHANGED <<registry, manifest, initScript, scars>>,
              tool'.kind = "add", tool'.caps = tool.caps,
              tool'.pc \in {"copy", "configure", "guides", "record"},
              tree \subseteq tree', aliases \subseteq aliases', deps \subseteq deps',
              AddCaps /\ ApiThere => Installing'
       PROVE  InstallInv'
  <2>1. AddCaps /\ ApiThere /\ ManifestGood
    BY <1>11, <1>a DEF InstallInv
  <2>2. Whole \subseteq Whole'
    BY <1>11, WholeGrows DEF registry
  <2>3. ApiThere' /\ ManifestGood' /\ ApiFollowed'
    BY <1>11, <2>1, <2>2 DEF ApiThere, ManifestGood, ApiFollowed, AddCaps, Local, registry
  <2>4. AddCaps'
    BY <1>11, <2>1, <2>3 DEF AddCaps
  <2>5. QED
    BY <1>11, <2>1, <2>3, <2>4 DEF InstallInv, AddCaps
<1>12. CASE CopyIn
  <2> DEFINE h == Head(tool.todo)
             p == InLocal(h)
  <2>1. /\ tool.kind = "add" /\ tool.pc = "copy" /\ UNCHANGED <<registry, manifest, initScript, scars, aliases, deps>>
        /\ tool.todo # << >>
        /\ \/ tree' = tree \cup {p}
           \/ tree' = tree /\ ((p[1] # Root /\ ~ DirExists(p[1])) \/ p \in tree)
        /\ \E done : tool' = [tool EXCEPT !.todo = Tail(tool.todo), !.done = done]
    <3>1. CASE /\ (p[1] # Root /\ ~ DirExists(p[1])) \/ p \in tree
               /\ tool' = [tool EXCEPT !.todo = Tail(@)] /\ UNCHANGED files
      <4>1. tool' = [tool EXCEPT !.todo = Tail(@), !.done = tool.done]
        BY <1>12, <3>1 DEF CopyIn
      <4>2. QED
        BY <1>12, <3>1, <4>1 DEF CopyIn, At, files
    <3>2. CASE /\ tree' = tree \cup {p} /\ tool' = [tool EXCEPT !.todo = Tail(@), !.done = @ \cup {p}]
               /\ UNCHANGED <<aliases, deps>>
      BY <1>12, <3>2 DEF CopyIn, At
    <3>3. QED
      BY <1>12, <3>1, <3>2 DEF CopyIn
  <2>2. tool'.kind = tool.kind /\ tool'.pc = tool.pc /\ tool'.caps = tool.caps /\ tool'.todo = Tail(tool.todo)
    <3>1. PICK done : tool' = [tool EXCEPT !.todo = Tail(tool.todo), !.done = done]
      BY <2>1
    <3>2. QED
      BY <3>1
  <2>3. ASSUME AddCaps, ApiThere
        PROVE  Installing'
    <3>1. /\ tool.todo \in Seq(Places) /\ ApiFollowed
          /\ \A c \in Adding : \A q \in CapPlaces(c) : Here(q) \in tree \/ q \in ToSet(tool.todo)
      BY <2>1, <2>3 DEF AddCaps, Installing
    <3>2. h \in Places /\ Tail(tool.todo) \in Seq(Places)
      BY <2>1, <3>1
    <3>3. p = Here(h)
      BY <3>1, <3>2, InLocalIsHere
    <3>4. p[1] = Root \/ p[1] = apiDir
      BY <3>2, <3>3 DEF Here, Places
    <3>5. DirExists(apiDir)
      BY <2>3 DEF DirExists, ApiThere
    <3> HIDE DEF h, p
    <3>6. p \in tree' /\ tree \subseteq tree'
      BY <2>1, <3>4, <3>5
    <3>7. \A q \in ToSet(tool.todo) : q = h \/ q \in ToSet(Tail(tool.todo))
      <4> DEFINE t == Tail(tool.todo)
                 u == <<h>>
      <4>1. tool.todo = u \o t /\ u \in Seq(Places)
        BY <2>1, <3>1, <3>2 DEF h
      <4>2. t \in Seq(Places)
        BY <3>2
      <4>3. \A q \in ToSet(u) : q = h
        BY DEF ToSet
      <4> HIDE DEF t, u
      <4>4. ToSet(u \o t) = ToSet(u) \cup ToSet(t)
        BY <4>1, <4>2, ConcatMembers
      <4>5. \A q \in ToSet(tool.todo) : q = h \/ q \in ToSet(t)
        BY <4>1, <4>3, <4>4
      <4>6. QED
        BY <4>5 DEF t
    <3>8. Adding' = Adding /\ \A q : Here(q)' = Here(q)
      BY <2>1, <2>2 DEF Adding, Here, registry
    <3>9. QED
      BY <2>1, <2>2, <3>1, <3>2, <3>3, <3>6, <3>7, <3>8 DEF Installing
  <2>4. tree \subseteq tree'
    BY <2>1
  <2>5. QED
    BY <1>11, <2>1, <2>2, <2>3, <2>4
<1>13. CASE StripCopied
  <2>1. /\ tool.kind = "add" /\ tool.pc = "copy" /\ tool.todo = << >>
        /\ UNCHANGED <<tree, registry, manifest, initScript, scars, aliases, deps>>
        /\ tool'.kind = "add" /\ tool'.pc = "configure" /\ tool'.caps = tool.caps
    BY <1>13 DEF StripCopied, At, Goto
  <2>2. Adding' = Adding /\ \A q : Here(q)' = Here(q)
    BY <2>1 DEF Adding, Here, registry
  <2>3. ToSet(tool.todo) = {}
    BY <2>1 DEF ToSet
  <2>4. AddCaps => Installing'
    BY <2>1, <2>2, <2>3 DEF AddCaps, Installing
  <2>5. QED
    BY <1>11, <2>1, <2>4
<1>14. CASE Configure
  <2>1. /\ tool.kind = "add" /\ tool.pc = "configure" /\ UNCHANGED <<tree, registry, manifest, initScript, scars>>
        /\ tool'.kind = "add" /\ tool'.pc = "guides" /\ tool'.caps = tool.caps
        /\ aliases' = aliases \cup (Adding \cap LibCaps)
        /\ deps' = deps \cup (IF DirExists(Local(Api)) THEN {Local(Api)} \X (Adding \cap LibCaps) ELSE {})
    BY <1>14 DEF Configure, At, Goto
  <2>2. Adding' = Adding /\ apiDir' = apiDir /\ \A q : Here(q)' = Here(q)
    BY <2>1 DEF Adding, Here, registry
  <2>3. ASSUME AddCaps, ApiThere
        PROVE  Installing'
    <3>1. Local(Api) = apiDir /\ DirExists(apiDir)
      BY <2>3 DEF AddCaps, ApiFollowed, ApiThere, DirExists
    <3>2. \A c \in Adding : c \in AllCaps /\ \A p \in CapPlaces(c) : Here(p) \in tree
      BY <2>1, <2>3 DEF AddCaps, Installing, Adding
    <3>3. \A c \in Adding : c \in LibCaps => c \in aliases' /\ <<apiDir, c>> \in deps'
      BY <2>1, <3>1
    <3>4. Adding \subseteq Whole'
      BY <2>1, <2>2, <3>2, <3>3 DEF Whole
    <3>5. QED
      BY <2>1, <2>2, <3>2, <3>4 DEF Installing
  <2>4. QED
    BY <1>11, <2>1, <2>3
<1>15. CASE WriteGuides
  <2>1. /\ tool.kind = "add" /\ tool.pc = "guides"
        /\ UNCHANGED <<files, registry, manifest, initScript, scars>>
        /\ tool'.kind = "add" /\ tool'.pc = "record" /\ tool'.caps = tool.caps
    BY <1>15 DEF WriteGuides, At, Goto
  <2>2. Adding' = Adding /\ \A q : Here(q)' = Here(q)
    BY <2>1 DEF Adding, Here, registry
  <2>3. Whole' = Whole
    BY <2>1, <2>2 DEF Whole, files, registry
  <2>4. AddCaps => Installing'
    BY <2>1, <2>2, <2>3 DEF AddCaps, Installing, files
  <2>5. QED
    BY <1>11, <2>1, <2>4 DEF files
<1>16. CASE RecordAdded
  <2>1. /\ tool.kind = "add" /\ tool.pc = "record" /\ UNCHANGED <<files, registry, initScript, scars>>
        /\ tool'.kind = "none" /\ manifest'.caps = manifest.caps \cup Adding
    BY <1>16 DEF RecordAdded, At, Done
  <2>2. AddCaps /\ ApiThere /\ ManifestGood
    BY <2>1, <1>a DEF InstallInv
  <2>3. Whole' = Whole
    BY <2>1 DEF Whole, Here, files, registry
  <2>4. ManifestGood' /\ ApiThere' /\ ~ initScript'
    BY <2>1, <2>2, <2>3 DEF AddCaps, Installing, Adding, ManifestGood, ApiThere, files, registry
  <2>5. QED
    BY <2>1, <2>4 DEF InstallInv
<1>17. ASSUME NEW c, ApplyGuide(c)
       PROVE  InstallInv'
  BY <1>8, <1>17 DEF ApplyGuide, Idle, registry
\* rename-app
<1>18. ASSUME NEW from \in {p[1] : p \in tree} \ {Root}, NEW to, StartRename(from, to)
       PROVE  InstallInv'
  <2>1. /\ ~ initScript /\ UNCHANGED <<manifest, initScript, scars>>
        /\ tool'.kind = "rename" /\ RenameApp(from, to)
    BY <1>18 DEF StartRename, Start, Idle, NoTool
  <2>2. Whole \subseteq Whole' /\ ApiThere'
    BY <2>1, <1>a, WholeMoves DEF InstallInv
  <2>3. ManifestGood'
    BY <2>1, <2>2, <1>a DEF InstallInv, ManifestGood
  <2>4. QED
    BY <2>1, <2>2, <2>3 DEF InstallInv
<1>19. CASE RecordRename
  <2>1. tool.kind = "rename" /\ ~ initScript
    BY <1>19, <1>a DEF RecordRename, At, InstallInv
  <2>2. QED
    BY <1>8, <1>19, <2>1 DEF RecordRename, Done, files, registry
\* new-app
<1>20. ASSUME tool'.kind = "new", UNCHANGED <<registry, manifest, initScript>>, scars \subseteq scars',
              tool.kind \in {"none", "new"}, Whole \subseteq Whole', ApiThere => ApiThere',
              InstallInv /\ Unless({"init", "strayed"}) => tool'.name \in FreeNames /\ tool'.name # apiDir
       PROVE  InstallInv'
  <2>1. ApiThere' /\ ManifestGood'
    BY <1>20, <1>a DEF InstallInv, ManifestGood
  <2>2. Whole' \subseteq AllCaps
    BY DEF Whole
  <2>3. QED
    BY <1>20, <2>1, <2>2, <1>a DEF InstallInv, registry
<1>21. ASSUME NEW o \in Apps, NEW name \in FreeNames, StartNewApp(o, name)
       PROVE  InstallInv'
  <2>1. /\ tool.kind = "none" /\ UNCHANGED <<registry, aliases, manifest, initScript>> /\ scars \subseteq scars'
        /\ tool' = [NoTool EXCEPT !.kind = "new", !.pc = "reduce", !.name = name, !.keep = {o}]
        /\ tree \subseteq tree' /\ deps \subseteq deps' /\ ~ DirExists(name)
    BY <1>21 DEF StartNewApp, Start, Idle
  <2>2. tool'.kind = "new" /\ tool'.name = name
    BY <2>1 DEF NoTool
  <2>3. Whole \subseteq Whole' /\ (ApiThere => ApiThere')
    BY <2>1, WholeGrows DEF ApiThere, registry
  <2>4. ApiThere => name # apiDir
    BY <2>1 DEF ApiThere, DirExists
  <2>5. QED
    BY <1>20, <2>1, <2>2, <2>3, <2>4 DEF InstallInv
<1>22. CASE Reduce
  <2>1. /\ tool.kind = "new" /\ UNCHANGED <<registry, aliases, manifest, initScript, scars>>
        /\ tool'.kind = "new" /\ tool'.name = tool.name
        /\ tree' = {p \in WithoutSamples({tool.name}) : p[1] = tool.name => p[2][1] = "app"}
        /\ deps' = {d \in deps : ~ (d[1] = tool.name)}
    BY <1>22 DEF Reduce, At, Goto
  <2>2. tool.name # Root /\ tool.name # apiDir
    BY <2>1, <1>a, ScaffoldAssumption DEF InstallInv
  <2>3. \A p \in tree : p[1] # tool.name => p \in tree'
    BY <2>1 DEF WithoutSamples
  <2>4. \A c \in AllCaps : \A p \in CapPlaces(c) : Here(p)[1] # tool.name
    BY <2>2, PlaceShape DEF Here
  <2>5. apiDir' = apiDir
    BY <2>1 DEF registry
  <2>6. Whole \subseteq Whole'
    BY <2>1, <2>2, <2>3, <2>4, <2>5, WholeKept
  <2>7. ApiThere => ApiThere'
    BY <2>2, <2>3, <2>5 DEF ApiThere
  <2>8. QED
    BY <1>20, <2>1, <2>6, <2>7 DEF InstallInv
<1>23. CASE Register
  <2>1. tool.kind = "new" /\ tool'.kind = "none" /\ UNCHANGED <<files, apiDir, manifest, initScript, scars>>
    BY <1>23 DEF Register, At, Done
  <2>2. QED
    BY <1>8, <2>1 DEF files
<1>24. CASE Stop
  <2>1. /\ scars' = scars \cup {tool.kind} /\ tool'.kind = "none"
        /\ UNCHANGED <<files, registry, manifest, initScript>>
    BY <1>24 DEF Stop, Done
  <2>2. tool.kind # "init"
    BY <2>1 DEF Unless
  <2>3. QED
    BY <1>8, <2>1, <2>2 DEF files, registry
<1>25. CASE UNCHANGED vars
  <2>1. UNCHANGED <<tree, aliases, deps, apiDir, manifest, initScript, tool, scars>>
    BY <1>25 DEF vars, files, registry
  <2>2. Whole' = Whole /\ \A q : Here(q)' = Here(q)
    BY <2>1 DEF Whole, Here
  <2>3. Adding' = Adding /\ Local(Api)' = Local(Api)
    BY <2>1 DEF Adding, Local
  <2>4. ApiThere' = ApiThere /\ ApiFollowed' = ApiFollowed /\ ManifestGood' = ManifestGood /\ InitCaps' = InitCaps
    BY <2>1, <2>2, <2>3 DEF InitCaps, ApiThere, ApiFollowed, ManifestGood
  <2>5. Installing' = Installing
    BY <2>1, <2>2, <2>3 DEF Installing
  <2>6. AddCaps' = AddCaps
    BY <2>1, <2>4, <2>5 DEF AddCaps
  <2>7. QED
    BY <2>1, <2>2, <2>4, <2>6 DEF InstallInv, Unless
<1>26. ASSUME NEW name \in ProjectNames, NEW keep,
              \/ StartInit(name, keep, FALSE, {})
              \/ \E picked \in Picks : StartInit(name, keep, TRUE, picked)
       PROVE  InstallInv'
  <2>1. CASE StartInit(name, keep, FALSE, {})
    <3>1. {} \subseteq Selectable
      OBVIOUS
    <3>2. QED
      BY <1>1, <2>1, <3>1, Zenon
  <2>2. ASSUME NEW picked \in Picks, StartInit(name, keep, TRUE, picked)
        PROVE  InstallInv'
    <3>1. picked \subseteq Selectable
      BY ScaffoldAssumption
    <3>2. QED
      BY <1>1, <2>2, <3>1, Zenon
  <2>3. QED
    BY <1>26, <2>1, <2>2
<1>27. QED
  BY <1>26, <1>3, <1>4, <1>5, <1>6, <1>7, <1>9, <1>10, <1>12, <1>13, <1>14, <1>15, <1>16, <1>17, <1>18,
     <1>19, <1>21, <1>22, <1>23, <1>24, <1>25 DEF ScaffoldNext

LEMMA InstallInvInductive == InstallInv /\ [ScaffoldNext]_vars => InstallInv'
<1> SUFFICES ASSUME InstallInv, [ScaffoldNext]_vars PROVE InstallInv'
  OBVIOUS
<1>1. CASE Unless({"init", "strayed"})'
  BY <1>1, InstallStep
<1>2. CASE ~ Unless({"init", "strayed"})'
  BY <1>2 DEF InstallInv
<1>3. QED
  BY <1>1, <1>2

LEMMA InitInstalled == ScaffoldInit => InstallInv
<1> SUFFICES ASSUME ScaffoldInit PROVE InstallInv
  OBVIOUS
<1>1. /\ tree = PristineTree /\ tool.kind = "none" /\ apiDir = Api /\ manifest.caps = {}
      /\ aliases = LibCaps /\ deps = {Api} \X LibCaps
  BY NoToolIdle DEF ScaffoldInit, NoManifest
<1>2. Whole = AllCaps
  <2>1. ASSUME NEW c \in AllCaps, NEW p \in CapPlaces(c)
        PROVE  Here(p) \in tree
    <3>1. Here(p) = <<p[1], p[2]>>
      BY <1>1 DEF Here
    <3>2. Here(p) = p
      BY <3>1, PlaceShape
    <3>3. QED
      BY <1>1, <3>2 DEF PristineTree
  <2>2. QED
    BY <1>1, <2>1 DEF Whole
<1>3. ApiThere
  BY <1>1 DEF ApiThere, PristineTree, Api, Apps
<1>4. QED
  BY <1>1, <1>2, <1>3 DEF InstallInv, ManifestGood

\* A recorded capability is all there, with what it requires, its directories and migrations, its alias
\* and its dependency, whatever tools ran since and wherever add, new-app or rename-app were stopped, as
\* long as init finished and add could find the api (add.mjs:143-253, init.mjs:212-232).
THEOREM ScaffoldCapabilityInstalled == ScaffoldSpec => []CapabilityInstalled
<1>1. InstallInv => CapabilityInstalled
  BY DEF InstallInv, ManifestGood, Whole, CapabilityInstalled
<1>2. QED
  BY <1>1, InitInstalled, InstallInvInductive, PTL DEF ScaffoldSpec

(* How the capabilities are wired *)

Pairs == \A p \in tree : p = <<p[1], p[2]>>

\* The capabilities every shared file knows, or for which the guide is still to be merged.
Knows ==
  {c \in AllCaps :
     /\ \A x \in DOMAIN Holder : <<apiDir, Holder[x]>> \in tree /\ c \in Carries[x]
          => <<<<apiDir, x>>, c>> \in wired \cup guides
     /\ c \in Carries["env"] => <<Env, c>> \in wired \cup guides}

\* The files add has copied know what is being added.
Fresh ==
  \A c \in Adding : \A x \in DOMAIN Holder :
    <<apiDir, Holder[x]>> \in tool.done /\ c \in Carries[x] => <<<<apiDir, x>>, c>> \in wired
EnvKnown == \A c \in Adding : c \in Carries["env"] => <<Env, c>> \in wired

WiringInv ==
  Unless({"init", "strayed"}) =>
    /\ manifest.caps \subseteq Knows
    /\ tool.kind = "init" => tool.caps \subseteq Knows
    /\ initScript /\ tool.kind # "init" => Knows = AllCaps
    /\ tool.kind = "add" =>
         /\ tool.pc \in {"copy", "configure", "guides"} => Fresh
         /\ tool.pc = "guides" => EnvKnown
         /\ tool.pc = "record" => Adding \subseteq Knows

LEMMA PairsKept == Pairs /\ [ScaffoldNext]_vars => Pairs'
<1> SUFFICES ASSUME Pairs, [ScaffoldNext]_vars PROVE Pairs'
  OBVIOUS
<1>1. ASSUME tree' \subseteq tree PROVE Pairs'
  BY <1>1 DEF Pairs
<1>2. ASSUME NEW from, NEW to, RenameApp(from, to)
      PROVE  Pairs'
  <2>1. tree' = {<<Moved(p[1], from, to), p[2]>> : p \in tree}
    BY <1>2 DEF RenameApp
  <2>2. QED
    BY <2>1 DEF Pairs
<1>3. CASE UNCHANGED vars
  BY <1>1, <1>3 DEF vars, files
<1>4. CASE Prune
  BY <1>1, <1>4 DEF Prune
<1>5. CASE StripBlocks
  BY <1>1, <1>5 DEF StripBlocks, WithoutSamples
<1>6. CASE RenameKeptApp
  BY <1>1, <1>2, <1>6 DEF RenameKeptApp, files
<1>7. CASE CopyIn
  <2>1. tree' = tree \/ tree' = tree \cup {InLocal(Head(tool.todo))}
    BY <1>7 DEF CopyIn, files
  <2>2. \A p : InLocal(p) = <<InLocal(p)[1], InLocal(p)[2]>>
    BY DEF InLocal
  <2>3. QED
    BY <2>1, <2>2 DEF Pairs
<1>8. ASSUME NEW from, NEW to, StartRename(from, to)
      PROVE  Pairs'
  BY <1>2, <1>8 DEF StartRename
<1>9. ASSUME NEW o, NEW name, StartNewApp(o, name)
      PROVE  Pairs'
  <2>1. tree' = tree \cup {<<name, p[2]>> : p \in {q \in SourceTree : q[1] = <<o>>}}
    BY <1>9 DEF StartNewApp
  <2>2. QED
    BY <2>1 DEF Pairs
<1>10. CASE Reduce
  BY <1>1, <1>10 DEF Reduce, WithoutSamples
<1>11. ASSUME NEW name, NEW keep, NEW minimal, NEW picked, StartInit(name, keep, minimal, picked)
       PROVE  tree' = tree
  BY <1>11 DEF StartInit, files
<1>12. ASSUME NEW asked, StartAdd(asked)
       PROVE  tree' = tree
  BY <1>12 DEF StartAdd, StartAddOf, files
<1>13. ASSUME NEW c, ApplyGuide(c)
       PROVE  tree' = tree
  BY <1>13 DEF ApplyGuide
<1>14. ASSUME RenameScope \/ WriteManifest \/ RemoveSelf \/ StripCopied \/ Configure
       PROVE  tree' = tree
  BY <1>14 DEF RenameScope, WriteManifest, RemoveSelf, StripCopied, Configure, files
<1>15. ASSUME WriteGuides \/ RecordAdded \/ RecordRename \/ Register \/ Stop
       PROVE  tree' = tree
  BY <1>15 DEF WriteGuides, RecordAdded, RecordRename, Register, Stop, files
<1>16. QED
  BY <1>1, <1>3, <1>4, <1>5, <1>6, <1>7, <1>8, <1>9, <1>10, <1>11, <1>12, <1>13, <1>14, <1>15 DEF ScaffoldNext

LEMMA HolderFacts ==
  /\ DOMAIN Holder = {"app", "main", "appAuth", "notifications", "wiring"} /\ "env" \notin DOMAIN Holder
  /\ \A x \in DOMAIN Holder : Holder[x][1] \in {"app", "module"} /\ Carries[x] \subseteq AllCaps
  /\ Carries["env"] = Selectable
  /\ \A d, x : <<d, x>> = Env => d = Root /\ x = "env"
  BY CapOrderIs DEF Holder, Carries, Env

LEMMA ExistsIs ==
  ASSUME NEW T
  PROVE  /\ FileExists(Env, T)
         /\ \A d, x : x \in DOMAIN Holder => (FileExists(<<d, x>>, T) <=> <<d, Holder[x]>> \in T)
  BY HolderFacts DEF FileExists

LEMMA HeldIs ==
  ASSUME ApiFollowed
  PROVE  \A S : Held(S) = {<<apiDir, x>> : x \in {y \in DOMAIN Holder : <<apiDir, Holder[y]>> \in S}}
<1>1. SentinelFiles \ {Env} = {<<Api, x>> : x \in DOMAIN Holder}
  BY CapFacts, HolderFacts DEF SentinelFiles
<1>2. \A x : InLocal(<<Api, x>>) = <<apiDir, x>>
  BY DEF InLocal, ApiFollowed
<1>3. {InLocal(g) : g \in SentinelFiles \ {Env}} = {<<apiDir, x>> : x \in DOMAIN Holder}
  BY <1>1, <1>2
<1>4. ASSUME NEW S
      PROVE  Held(S) = {<<apiDir, x>> : x \in {y \in DOMAIN Holder : <<apiDir, Holder[y]>> \in S}}
  <2>1. Held(S) = {f \in {<<apiDir, x>> : x \in DOMAIN Holder} : <<f[1], Holder[f[2]]>> \in S}
    BY <1>3 DEF Held
  <2>2. \A x : <<apiDir, x>>[1] = apiDir /\ <<apiDir, x>>[2] = x
    OBVIOUS
  <2>3. ASSUME NEW f \in Held(S)
        PROVE  f \in {<<apiDir, x>> : x \in {y \in DOMAIN Holder : <<apiDir, Holder[y]>> \in S}}
    BY <2>1, <2>2
  <2>4. ASSUME NEW x \in DOMAIN Holder, <<apiDir, Holder[x]>> \in S
        PROVE  <<apiDir, x>> \in Held(S)
    BY <2>1, <2>2, <2>4
  <2>5. QED
    BY <2>3, <2>4
<1>5. QED
  BY <1>4

\* Capabilities of which no block is lost and no file appears.
LEMMA KnowsKept ==
  ASSUME NEW C, UNCHANGED apiDir,
         \A x \in DOMAIN Holder : <<apiDir, Holder[x]>> \in tree' => <<apiDir, Holder[x]>> \in tree,
         \A c \in C : \A x \in DOMAIN Holder :
           <<<<apiDir, x>>, c>> \in wired \cup guides /\ <<apiDir, Holder[x]>> \in tree'
             => <<<<apiDir, x>>, c>> \in wired' \cup guides',
         \A c \in C : <<Env, c>> \in wired \cup guides => <<Env, c>> \in wired' \cup guides'
  PROVE  Knows \cap C \subseteq Knows'
  BY DEF Knows

LEMMA KnowsStays ==
  ASSUME UNCHANGED <<tree, wired, guides, apiDir>>
  PROVE  Knows' = Knows
  BY DEF Knows

LEMMA KnowsMoves ==
  ASSUME Pairs, ApiThere, NEW from, NEW to, from # Root, ~ DirExists(to), RenameApp(from, to)
  PROVE  Knows \subseteq Knows'
<1>1. /\ tree' = {<<Moved(p[1], from, to), p[2]>> : p \in tree} /\ apiDir' = Moved(apiDir, from, to)
      /\ wired' = {<<<<Moved(w[1][1], from, to), w[1][2]>>, w[2]>> : w \in wired}
      /\ guides' = {<<<<Moved(g[1][1], from, to), g[1][2]>>, g[2]>> : g \in guides}
  BY DEF RenameApp
<1>2. \A d, x, c : <<<<d, x>>, c>> \in wired \cup guides
                     => <<<<Moved(d, from, to), x>>, c>> \in wired' \cup guides'
  BY <1>1
<1>3. apiDir # to
  BY DEF ApiThere, DirExists
<1>4. \A h : <<apiDir', h>> \in tree' => <<apiDir, h>> \in tree
  <2>1. ASSUME NEW h, <<apiDir', h>> \in tree'
        PROVE  <<apiDir, h>> \in tree
    <3>1. PICK p \in tree : Moved(p[1], from, to) = apiDir' /\ p[2] = h
      BY <1>1, <2>1
    <3>2. p[1] # to
      BY DEF DirExists
    <3>3. p[1] = apiDir
      BY <1>1, <1>3, <3>1, <3>2 DEF Moved
    <3>4. QED
      BY <3>1, <3>3 DEF Pairs
  <2>2. QED
    BY <2>1
<1>5. Moved(Root, from, to) = Root
  BY DEF Moved
<1>6. ASSUME NEW c \in Knows, NEW x \in DOMAIN Holder, <<apiDir', Holder[x]>> \in tree', c \in Carries[x]
      PROVE  <<<<apiDir', x>>, c>> \in wired' \cup guides'
  <2>1. <<<<apiDir, x>>, c>> \in wired \cup guides
    BY <1>4, <1>6 DEF Knows
  <2>2. QED
    BY <1>1, <1>2, <2>1
<1>7. ASSUME NEW c \in Knows, c \in Carries["env"]
      PROVE  <<Env, c>> \in wired' \cup guides'
  <2>1. <<<<Root, "env">>, c>> \in wired \cup guides
    BY <1>7 DEF Knows, Env
  <2>2. <<<<Moved(Root, from, to), "env">>, c>> \in wired' \cup guides'
    BY <1>2, <2>1
  <2>3. QED
    BY <1>5, <2>2 DEF Env
<1>8. QED
  BY <1>6, <1>7 DEF Knows

LEMMA WiringStep ==
  ASSUME InstallInv, InstallInv', Pairs, WiringInv, [ScaffoldNext]_vars, Unless({"init", "strayed"})'
  PROVE  WiringInv'
<1> USE NoToolIdle
<1>a. scars \subseteq scars' => Unless({"init", "strayed"})
  BY DEF Unless
<1>b. Knows \subseteq AllCaps /\ Knows' \subseteq AllCaps
  BY DEF Knows
\* Steps of init after its first, and steps after which no tool runs.
<1>1. ASSUME tool.kind = "init", tool'.kind = "init", tool'.caps = tool.caps, UNCHANGED <<manifest, scars>>,
             Knows \cap tool.caps \subseteq Knows', manifest.caps = {} \/ Knows \subseteq Knows'
      PROVE  WiringInv'
  BY <1>1, <1>a DEF WiringInv
<1>2. ASSUME Knows \subseteq Knows', manifest'.caps = manifest.caps, scars \subseteq scars',
             tool'.kind \notin {"init", "add"},
             initScript' => initScript /\ tool.kind # "init"
      PROVE  WiringInv'
  BY <1>2, <1>a, <1>b DEF WiringInv
\* init
<1>3. ASSUME NEW name \in ProjectNames, NEW keep, NEW minimal, NEW picked,
             StartInit(name, keep, minimal, picked)
      PROVE  WiringInv'
  <2>1. /\ initScript /\ tool.kind = "none" /\ UNCHANGED <<files, registry, guides, manifest, scars>>
        /\ tool'.kind = "init"
    BY <1>3 DEF StartInit, Start, Idle, NoTool
  <2>2. Knows' = Knows
    BY <2>1, KnowsStays DEF files, registry
  <2>3. tool'.caps \subseteq AllCaps
    BY <2>1 DEF InstallInv, InitCaps
  <2>4. Knows = AllCaps /\ manifest.caps \subseteq Knows
    BY <2>1, <1>a DEF WiringInv
  <2>5. QED
    BY <2>1, <2>2, <2>3, <2>4 DEF WiringInv
<1>4. CASE Prune
  <2>1. /\ tool.kind = "init" /\ tool.pc = "begin" /\ UNCHANGED <<apiDir, guides, scars, manifest>>
        /\ tool'.kind = "init" /\ tool'.caps = tool.caps /\ tree' \subseteq tree
        /\ wired' = {w \in wired : FileExists(w[1], tree')}
    BY <1>4 DEF Prune, At, Goto
  <2>2. \A x \in DOMAIN Holder : \A c : <<<<apiDir, x>>, c>> \in wired /\ <<apiDir, Holder[x]>> \in tree'
                                          => <<<<apiDir, x>>, c>> \in wired'
    BY <2>1, ExistsIs
  <2>3. \A c : <<Env, c>> \in wired => <<Env, c>> \in wired'
    BY <2>1, ExistsIs
  <2>4. Knows \cap AllCaps \subseteq Knows'
    BY <2>1, <2>2, <2>3, KnowsKept
  <2>5. QED
    BY <1>1, <1>b, <2>1, <2>4
<1>5. CASE StripBlocks
  <2>1. /\ tool.kind = "init" /\ tool.pc = "strip" /\ UNCHANGED <<apiDir, guides, scars, manifest>>
        /\ tool'.kind = "init" /\ tool'.caps = tool.caps
        /\ tree' = tree \/ \E ds : tree' = WithoutSamples(ds)
        /\ wired' = wired \ ((SentinelFiles \cap marked) \X Dropped)
    BY <1>5 DEF StripBlocks, At, Goto, WithoutBlocks
  <2>2. tree' \subseteq tree
    BY <2>1 DEF WithoutSamples
  <2>3. \A c \in tool.caps : \A f : <<f, c>> \in wired => <<f, c>> \in wired'
    BY <2>1 DEF Dropped
  <2>4. Knows \cap tool.caps \subseteq Knows'
    BY <2>1, <2>2, <2>3, KnowsKept
  <2>5. manifest.caps = {}
    BY <2>1, <1>a DEF InstallInv, InitCaps
  <2>6. QED
    BY <1>1, <2>1, <2>4, <2>5
<1>6. CASE RenameScope
  <2>1. /\ tool.kind = "init" /\ tool'.kind = "init" /\ tool'.caps = tool.caps
        /\ UNCHANGED <<tree, wired, guides, apiDir, manifest, scars>>
    BY <1>6 DEF RenameScope, At, registry
  <2>2. QED
    BY <1>1, <2>1, KnowsStays
<1>7. CASE RenameKeptApp
  <2>1. tool.kind = "init" /\ tool'.kind = "init" /\ tool'.caps = tool.caps /\ UNCHANGED <<manifest, scars>>
    <3>1. PICK done : tool' = [tool EXCEPT !.todo = Tail(tool.todo), !.done = done]
      BY <1>7 DEF RenameKeptApp
    <3>2. QED
      BY <1>7, <3>1 DEF RenameKeptApp, At
  <2>2. CASE UNCHANGED <<files, registry, guides>>
    BY <1>1, <2>1, <2>2, KnowsStays DEF files, registry
  <2>3. ASSUME NEW o, NEW to, ~ DirExists(to), RenameApp(<<o>>, to)
        PROVE  WiringInv'
    <3>1. <<o>> # Root
      BY DEF Root
    <3>2. ApiThere
      BY <2>1, <1>a DEF InstallInv
    <3>3. Knows \subseteq Knows'
      BY <2>3, <3>1, <3>2, KnowsMoves
    <3>4. QED
      BY <1>1, <2>1, <3>3
  <2>4. QED
    <3>1. UNCHANGED <<files, registry, guides>> \/ \E o, to : ~ DirExists(to) /\ RenameApp(<<o>>, to)
      BY <1>7 DEF RenameKeptApp
    <3>2. QED
      BY <2>2, <2>3, <3>1
<1>8. CASE WriteManifest
  <2>1. /\ tool.kind = "init" /\ UNCHANGED <<files, registry, guides, scars>>
        /\ tool'.kind = "init" /\ tool'.caps = tool.caps /\ manifest'.caps = tool.caps \ {"tasks"}
    BY <1>8 DEF WriteManifest, At, Goto
  <2>2. Knows' = Knows
    BY <2>1, KnowsStays DEF files, registry
  <2>3. QED
    BY <2>1, <2>2, <1>a DEF WiringInv
<1>9. CASE RemoveSelf
  <2>1. /\ UNCHANGED <<files, registry, guides, manifest, scars>> /\ tool'.kind = "none" /\ initScript' = FALSE
    BY <1>9 DEF RemoveSelf, Done
  <2>2. Knows' = Knows
    BY <2>1, KnowsStays DEF files, registry
  <2>3. QED
    BY <1>2, <2>1, <2>2
\* add
<1>10. ASSUME NEW asked \in Picks, StartAdd(asked)
       PROVE  WiringInv'
  <2>1. PICK wanted : StartAddOf(wanted)
    BY <1>10 DEF StartAdd
  <2>2. PICK todo : tool' = [NoTool EXCEPT !.kind = "add", !.pc = "copy", !.caps = wanted, !.todo = todo]
    BY <2>1 DEF StartAddOf, Start
  <2>3. tool'.kind = "add" /\ tool'.pc = "copy" /\ tool'.done = {}
    BY <2>2 DEF NoTool
  <2>4. scars \subseteq scars' /\ UNCHANGED <<files, registry, manifest, guides, initScript>> /\ ~ initScript
    BY <2>1 DEF StartAddOf
  <2>5. Knows' = Knows
    BY <2>4, KnowsStays DEF files, registry
  <2>6. Fresh'
    BY <2>3 DEF Fresh
  <2>7. manifest.caps \subseteq Knows
    BY <2>4, <1>a DEF WiringInv
  <2>8. QED
    BY <2>3, <2>4, <2>5, <2>6, <2>7 DEF WiringInv
<1>11. ASSUME tool.kind = "add", UNCHANGED <<registry, manifest, initScript, scars>>,
              tool'.kind = "add", tool'.caps = tool.caps,
              manifest.caps \subseteq Knows => manifest.caps \subseteq Knows',
              (tool.pc \in {"copy", "configure", "guides"} => Fresh) /\ ApiFollowed
                => (tool'.pc \in {"copy", "configure", "guides"} => Fresh'),
              tool'.pc = "guides" => EnvKnown',
              tool'.pc = "record" /\ Fresh /\ EnvKnown /\ ApiFollowed => tool.pc = "guides" /\ Adding \subseteq Knows',
              tool'.pc = "record" => tool.pc = "guides"
       PROVE  WiringInv'
  <2>1. AddCaps /\ ApiFollowed
    BY <1>11, <1>a DEF InstallInv, AddCaps
  <2>2. Adding' = Adding
    BY <1>11 DEF Adding
  <2>3. manifest.caps \subseteq Knows /\ (tool.pc \in {"copy", "configure", "guides"} => Fresh)
        /\ (tool.pc = "guides" => EnvKnown)
    BY <1>11, <1>a DEF WiringInv
  <2>4. tool'.pc = "record" => Adding' \subseteq Knows'
    BY <1>11, <2>1, <2>2, <2>3
  <2>5. QED
    BY <1>11, <2>1, <2>3, <2>4 DEF WiringInv, AddCaps
<1>12. CASE CopyIn
  <2> DEFINE p == InLocal(Head(tool.todo))
             copied == {w \in Held({p}) \X AllCaps : w[2] \in Carries[w[1][2]]}
  <2>1. /\ tool.kind = "add" /\ tool.pc = "copy" /\ UNCHANGED <<registry, manifest, guides, initScript, scars>>
        /\ \/ UNCHANGED files /\ tool' = [tool EXCEPT !.todo = Tail(tool.todo), !.done = tool.done]
           \/ /\ tree' = tree \cup {p} /\ wired' = wired \cup copied
              /\ tool' = [tool EXCEPT !.todo = Tail(tool.todo), !.done = tool.done \cup {p}]
    <3>1. CASE tool' = [tool EXCEPT !.todo = Tail(@)] /\ UNCHANGED files
      <4>1. tool' = [tool EXCEPT !.todo = Tail(@), !.done = tool.done]
        BY <1>12, <3>1 DEF CopyIn
      <4>2. QED
        BY <1>12, <3>1, <4>1 DEF CopyIn, At
    <3>2. CASE /\ tree' = tree \cup {p} /\ tool' = [tool EXCEPT !.todo = Tail(@), !.done = @ \cup {p}]
               /\ wired' = wired \cup copied
      BY <1>12, <3>2 DEF CopyIn, At
    <3>3. QED
      BY <1>12, <3>1, <3>2 DEF CopyIn
  <2>2. ApiFollowed
    BY <2>1, <1>a DEF InstallInv, AddCaps
  <2>3. \A x \in DOMAIN Holder : \A c \in Carries[x] : <<apiDir, Holder[x]>> = p => <<<<apiDir, x>>, c>> \in copied
    <3>1. ASSUME NEW x \in DOMAIN Holder, NEW c \in Carries[x], <<apiDir, Holder[x]>> = p
          PROVE  <<<<apiDir, x>>, c>> \in copied
      <4>1. <<apiDir, x>> \in Held({p})
        BY <2>2, <3>1, HeldIs
      <4>2. c \in AllCaps
        BY HolderFacts
      <4>3. QED
        BY <4>1, <4>2
    <3>2. QED
      BY <3>1
  <2> HIDE DEF p, copied
  <2>4. CASE UNCHANGED files /\ tool' = [tool EXCEPT !.todo = Tail(tool.todo), !.done = tool.done]
    <3>1. tool'.kind = tool.kind /\ tool'.pc = tool.pc /\ tool'.caps = tool.caps /\ tool'.done = tool.done
      BY <2>4
    <3>2. Knows' = Knows
      BY <2>1, <2>4, KnowsStays DEF files, registry
    <3>3. Fresh' = Fresh
      BY <2>1, <2>4, <3>1 DEF Fresh, Adding, files, registry
    <3>4. QED
      BY <1>11, <2>1, <3>1, <3>2, <3>3
  <2>5. CASE /\ tree' = tree \cup {p} /\ wired' = wired \cup copied
             /\ tool' = [tool EXCEPT !.todo = Tail(tool.todo), !.done = tool.done \cup {p}]
    <3>1. /\ tool'.kind = tool.kind /\ tool'.pc = tool.pc /\ tool'.caps = tool.caps
          /\ tool'.done = tool.done \cup {p} /\ apiDir' = apiDir
      BY <2>1, <2>5 DEF registry
    <3>2. Knows \subseteq Knows'
      BY <2>1, <2>3, <2>5, <3>1 DEF Knows
    <3>3. Adding' = Adding
      BY <2>1, <3>1 DEF Adding
    <3>4. Fresh => Fresh'
      BY <2>3, <2>5, <3>1, <3>3 DEF Fresh
    <3>5. QED
      BY <1>11, <2>1, <3>1, <3>2, <3>4
  <2>6. QED
    BY <2>1, <2>4, <2>5
<1>13. CASE StripCopied
  <2>1. /\ tool.kind = "add" /\ tool.pc = "copy" /\ UNCHANGED <<tree, registry, manifest, guides, initScript, scars>>
        /\ tool'.kind = "add" /\ tool'.pc = "configure" /\ tool'.caps = tool.caps /\ tool'.done = tool.done
        /\ wired' = wired \ ((Held(tool.done) \cap marked) \X (AllCaps \ (manifest.caps \cup tool.caps)))
    BY <1>13 DEF StripCopied, At, Goto, WithoutBlocks
  <2>2. \A c \in manifest.caps \cup tool.caps : \A f : <<f, c>> \in wired => <<f, c>> \in wired'
    BY <2>1
  <2>3. Knows \cap manifest.caps \subseteq Knows'
    BY <2>1, <2>2, KnowsKept DEF registry
  <2>4. Fresh => Fresh'
    BY <2>1, <2>2 DEF Fresh, Adding, registry
  <2>5. QED
    BY <1>11, <2>1, <2>3, <2>4
<1>14. CASE Configure
  <2>1. /\ tool.kind = "add" /\ tool.pc = "configure" /\ UNCHANGED <<tree, registry, manifest, guides, initScript, scars>>
        /\ tool'.kind = "add" /\ tool'.pc = "guides" /\ tool'.caps = tool.caps /\ tool'.done = tool.done
        /\ wired' = wired \cup ({Env} \X (Adding \cap Carries["env"]))
    BY <1>14 DEF Configure, At, Goto
  <2>2. Knows \cap AllCaps \subseteq Knows'
    BY <2>1, KnowsKept DEF registry
  <2>3. Fresh => Fresh'
    BY <2>1 DEF Fresh, Adding, registry
  <2>4. EnvKnown'
    BY <2>1 DEF EnvKnown, Adding
  <2>5. QED
    BY <1>11, <1>b, <2>1, <2>2, <2>3, <2>4
<1>15. CASE WriteGuides
  <2> DEFINE old == {InLocal(f) : f \in SentinelFiles \ {Env}} \ Held(tool.done)
             sections(c) == {f \in old : FileExists(f, tree) /\ c \in Carries[f[2]]}
             written == {c \in Adding : sections(c) # {}}
  <2>1. /\ tool.kind = "add" /\ tool.pc = "guides" /\ UNCHANGED <<files, registry, manifest, initScript, scars>>
        /\ tool'.kind = "add" /\ tool'.pc = "record" /\ tool'.caps = tool.caps
        /\ guides' = {g \in guides : g[2] \notin written} \cup UNION {sections(c) \X {c} : c \in written}
    BY <1>15 DEF WriteGuides, At, Goto
  <2>2. Knows \cap manifest.caps \subseteq Knows'
    <3>1. \A c \in manifest.caps : \A f : <<f, c>> \in guides => <<f, c>> \in guides'
      BY <2>1 DEF Adding
    <3>2. QED
      BY <2>1, <3>1, KnowsKept DEF files, registry
  <2>3. ASSUME Fresh, EnvKnown, ApiFollowed
        PROVE  Adding \subseteq Knows'
    <3>1. ASSUME NEW c \in Adding, NEW x \in DOMAIN Holder, <<apiDir, Holder[x]>> \in tree, c \in Carries[x],
                 <<apiDir, Holder[x]>> \notin tool.done
          PROVE  <<<<apiDir, x>>, c>> \in guides'
      <4>1. <<apiDir, x>> \notin Held(tool.done)
        <5>1. Held(tool.done) = {<<apiDir, y>> : y \in {z \in DOMAIN Holder : <<apiDir, Holder[z]>> \in tool.done}}
          BY <2>3, HeldIs
        <5>2. \A y : <<apiDir, x>> = <<apiDir, y>> => x = y
          OBVIOUS
        <5>3. QED
          BY <3>1, <5>1, <5>2
      <4>2. <<Api, x>> \in SentinelFiles \ {Env}
        BY CapFacts, HolderFacts DEF SentinelFiles
      <4>3. InLocal(<<Api, x>>) = <<apiDir, x>>
        BY <2>3 DEF InLocal, ApiFollowed
      <4>4. <<apiDir, x>> \in old
        BY <4>1, <4>2, <4>3
      <4> HIDE DEF old
      <4>5. FileExists(<<apiDir, x>>, tree)
        BY <3>1, ExistsIs
      <4>6. <<apiDir, x>> \in sections(c)
        BY <3>1, <4>4, <4>5
      <4> HIDE DEF sections
      <4>7. c \in written
        BY <4>6
      <4>8. <<<<apiDir, x>>, c>> \in sections(c) \X {c}
        BY <4>6
      <4> HIDE DEF written
      <4>9. QED
        BY <2>1, <4>7, <4>8
    <3>2. \A c \in Adding : c \in AllCaps
      BY <2>1, <1>a, CapFacts DEF InstallInv, AddCaps, Adding
    <3>3. UNCHANGED <<apiDir, tree, wired>>
      BY <2>1 DEF files, registry
    <3>4. QED
      BY <2>3, <3>1, <3>2, <3>3 DEF Knows, Fresh, EnvKnown
  <2>4. QED
    BY <1>11, <2>1, <2>2, <2>3
<1>16. CASE RecordAdded
  <2>1. /\ tool.kind = "add" /\ tool.pc = "record" /\ UNCHANGED <<files, registry, guides, initScript, scars>>
        /\ tool'.kind = "none" /\ manifest'.caps = manifest.caps \cup Adding
    BY <1>16 DEF RecordAdded, At, Done
  <2>2. Knows' = Knows
    BY <2>1, KnowsStays DEF files, registry
  <2>3. ~ initScript
    BY <2>1, <1>a DEF InstallInv, AddCaps
  <2>4. QED
    BY <2>1, <2>2, <2>3, <1>a DEF WiringInv
<1>17. ASSUME NEW c, ApplyGuide(c)
       PROVE  WiringInv'
  <2> DEFINE sections == {g \in guides : g[2] = c}
  <2>1. /\ tool.kind = "none" /\ UNCHANGED <<tree, registry, manifest, initScript, tool, scars>>
        /\ wired' = wired \cup {g \in sections : FileExists(g[1], tree)} /\ guides' = guides \ sections
    BY <1>17 DEF ApplyGuide, Idle
  <2>2. \A x \in DOMAIN Holder : \A d : <<<<apiDir, x>>, d>> \in wired \cup guides /\ <<apiDir, Holder[x]>> \in tree
                                          => <<<<apiDir, x>>, d>> \in wired' \cup guides'
    BY <2>1, ExistsIs
  <2>3. \A d : <<Env, d>> \in wired \cup guides => <<Env, d>> \in wired' \cup guides'
    BY <2>1, ExistsIs
  <2> HIDE DEF sections
  <2>4. Knows \cap AllCaps \subseteq Knows'
    BY <2>1, <2>2, <2>3, KnowsKept DEF registry
  <2>5. QED
    BY <1>2, <1>b, <2>1, <2>4
\* rename-app
<1>18. ASSUME NEW from \in {p[1] : p \in tree} \ {Root}, NEW to, StartRename(from, to)
       PROVE  WiringInv'
  <2>1. /\ ~ initScript /\ UNCHANGED <<manifest, initScript, scars>> /\ tool'.kind = "rename"
        /\ RenameApp(from, to) /\ ~ DirExists(to)
    BY <1>18 DEF StartRename, Start, NoTool
  <2>2. ApiThere
    BY <2>1, <1>a DEF InstallInv
  <2>3. Knows \subseteq Knows'
    BY <2>1, <2>2, KnowsMoves
  <2>4. QED
    BY <1>2, <2>1, <2>3
<1>19. CASE RecordRename
  <2>1. /\ tool.kind = "rename" /\ UNCHANGED <<files, registry, guides, initScript, scars>>
        /\ manifest'.caps = manifest.caps /\ tool'.kind = "none"
    BY <1>19 DEF RecordRename, At, Done
  <2>2. Knows' = Knows
    BY <2>1, KnowsStays DEF files, registry
  <2>3. QED
    BY <1>2, <2>1, <2>2
\* new-app
<1>20. ASSUME NEW o \in Apps, NEW name \in FreeNames, StartNewApp(o, name)
       PROVE  WiringInv'
  <2>1. /\ tool.kind = "none" /\ UNCHANGED <<registry, manifest, guides, initScript>> /\ scars \subseteq scars'
        /\ tool' = [NoTool EXCEPT !.kind = "new", !.pc = "reduce", !.name = name, !.keep = {o}]
        /\ tree' = tree \cup {<<name, p[2]>> : p \in {q \in SourceTree : q[1] = <<o>>}}
        /\ wired \subseteq wired' /\ ~ DirExists(name)
    BY <1>20 DEF StartNewApp, Start, Idle
  <2>2. tool'.kind = "new"
    BY <2>1 DEF NoTool
  <2>3. name # apiDir
    BY <2>1, <1>a DEF InstallInv, ApiThere, DirExists
  <2>4. \A h : <<apiDir, h>> \in tree' => <<apiDir, h>> \in tree
    BY <2>1, <2>3
  <2>5. Knows \cap AllCaps \subseteq Knows'
    BY <2>1, <2>4, KnowsKept DEF registry
  <2>6. QED
    BY <1>2, <1>b, <2>1, <2>2, <2>5
<1>21. CASE Reduce
  <2>1. /\ tool.kind = "new" /\ UNCHANGED <<registry, manifest, guides, initScript, scars>>
        /\ tool'.kind = "new" /\ tree' \subseteq tree
        /\ wired' = {w \in WithoutBlocks({f \in marked : f[1] = tool.name}, AllCaps) : FileExists(w[1], tree')}
    BY <1>21 DEF Reduce, At, Goto, WithoutSamples
  <2>2. tool.name # Root /\ tool.name # apiDir
    BY <2>1, <1>a, ScaffoldAssumption DEF InstallInv
  <2>3. \A x, c : x \in DOMAIN Holder /\ <<<<apiDir, x>>, c>> \in wired /\ <<apiDir, Holder[x]>> \in tree'
                    => <<<<apiDir, x>>, c>> \in wired'
    BY <2>1, <2>2, ExistsIs DEF WithoutBlocks
  <2>4. \A c : <<Env, c>> \in wired => <<Env, c>> \in wired'
    BY <2>1, <2>2, ExistsIs DEF WithoutBlocks, Env
  <2>5. Knows \cap AllCaps \subseteq Knows'
    BY <2>1, <2>3, <2>4, KnowsKept DEF registry
  <2>6. QED
    BY <1>2, <1>b, <2>1, <2>5
<1>22. CASE Register
  <2>1. /\ tool.kind = "new" /\ tool'.kind = "none"
        /\ UNCHANGED <<files, apiDir, manifest, guides, initScript, scars>>
    BY <1>22 DEF Register, At, Done
  <2>2. Knows' = Knows
    BY <2>1, KnowsStays DEF files
  <2>3. QED
    BY <1>2, <2>1, <2>2
<1>23. CASE Stop
  <2>1. /\ scars' = scars \cup {tool.kind} /\ tool'.kind = "none"
        /\ UNCHANGED <<files, registry, manifest, guides, initScript>>
    BY <1>23 DEF Stop, Done
  <2>2. tool.kind # "init"
    BY <2>1 DEF Unless
  <2>3. Knows' = Knows
    BY <2>1, KnowsStays DEF files, registry
  <2>4. QED
    BY <1>2, <2>1, <2>2, <2>3
<1>24. CASE UNCHANGED vars
  <2>1. UNCHANGED <<tree, wired, guides, apiDir, manifest, initScript, tool, scars>>
    BY <1>24 DEF vars, files, registry
  <2>2. Knows' = Knows /\ Fresh' = Fresh /\ EnvKnown' = EnvKnown /\ Adding' = Adding
    BY <2>1, KnowsStays DEF Fresh, EnvKnown, Adding
  <2>3. QED
    BY <2>1, <2>2 DEF WiringInv, Unless
<1>25. ASSUME NEW name \in ProjectNames, NEW keep,
              \/ StartInit(name, keep, FALSE, {})
              \/ \E picked \in Picks : StartInit(name, keep, TRUE, picked)
       PROVE  WiringInv'
  BY <1>3, <1>25, Zenon
<1>26. QED
  BY <1>4, <1>5, <1>6, <1>7, <1>8, <1>9, <1>10, <1>12, <1>13, <1>14, <1>15, <1>16, <1>17, <1>18,
     <1>19, <1>20, <1>21, <1>22, <1>23, <1>24, <1>25 DEF ScaffoldNext

LEMMA WiringInvInductive ==
  InstallInv /\ InstallInv' /\ Pairs /\ WiringInv /\ [ScaffoldNext]_vars => WiringInv'
<1> SUFFICES ASSUME InstallInv, InstallInv', Pairs, WiringInv, [ScaffoldNext]_vars PROVE WiringInv'
  OBVIOUS
<1>1. CASE Unless({"init", "strayed"})'
  BY <1>1, WiringStep
<1>2. CASE ~ Unless({"init", "strayed"})'
  BY <1>2 DEF WiringInv
<1>3. QED
  BY <1>1, <1>2

LEMMA InitWired == ScaffoldInit => Pairs /\ WiringInv
<1> SUFFICES ASSUME ScaffoldInit PROVE Pairs /\ WiringInv
  OBVIOUS
<1>1. /\ tree = PristineTree /\ tool.kind = "none" /\ apiDir = Api /\ manifest.caps = {} /\ wired = PristineWired
  BY NoToolIdle DEF ScaffoldInit, NoManifest
<1>2. Knows = AllCaps
  <2>1. ASSUME NEW c \in AllCaps, NEW f \in SentinelFiles, c \in Carries[f[2]]
        PROVE  <<f, c>> \in wired
    BY <1>1, <2>1 DEF PristineWired
  <2>2. \A x \in DOMAIN Holder : <<Api, x>> \in SentinelFiles
    BY DEF SentinelFiles
  <2>3. Env \in SentinelFiles /\ Env[2] = "env"
    BY DEF SentinelFiles, Env
  <2>4. QED
    BY <1>1, <2>1, <2>2, <2>3 DEF Knows
<1>3. ASSUME NEW p \in PristineTree PROVE p = <<p[1], p[2]>>
  <2>1. CASE p \in UNION {CapPlaces(c) : c \in AllCaps}
    BY <2>1, PlaceShape
  <2>2. CASE p \in {<<<<o>>, <<"app", o>>>> : o \in Apps}
    BY <2>2
  <2>3. CASE p \in {<<<<o>>, <<"sample", o>>>> : o \in Clients \ {"web-next"}}
    BY <2>3
  <2>4. QED
    BY <2>1, <2>2, <2>3 DEF PristineTree
<1>4. QED
  BY <1>1, <1>2, <1>3 DEF Pairs, WiringInv

\* In whatever order capabilities were added, every shared file that should know a recorded one has its
\* blocks, or the guide written for them is still to be merged: no block is lost by a rename, a new app,
\* an add that was stopped or the markers add removes (add.mjs:201-324).
THEOREM ScaffoldWiringComplete == ScaffoldSpec => []WiringComplete
<1>1. WiringInv => WiringComplete
  <2> SUFFICES ASSUME WiringInv, Generated, Unless({"init", "strayed"}), NEW c \in manifest.caps,
                      NEW g \in SentinelFiles, FileExists(Here(g), tree), c \in Carries[Here(g)[2]]
               PROVE  <<Here(g), c>> \in wired \cup guides
    BY DEF WiringComplete
  <2>1. c \in Knows
    BY DEF WiringInv
  <2>2. CASE g = Env
    <3>1. Here(g) = Env /\ Env[2] = "env"
      BY <2>2, CapFacts DEF Here, Env
    <3>2. QED
      BY <2>1, <3>1 DEF Knows
  <2>3. ASSUME NEW x \in DOMAIN Holder, g = <<Api, x>>
        PROVE  <<Here(g), c>> \in wired \cup guides
    <3>1. Here(g) = <<apiDir, x>> /\ Here(g)[2] = x
      BY <2>3 DEF Here
    <3>2. <<apiDir, Holder[x]>> \in tree
      BY <3>1, ExistsIs
    <3>3. QED
      BY <2>1, <3>1, <3>2 DEF Knows
  <2>4. QED
    BY <2>2, <2>3 DEF SentinelFiles
<1>2. QED
  BY <1>1, InitInstalled, InstallInvInductive, InitWired, PairsKept, WiringInvInductive, PTL DEF ScaffoldSpec

(* What is left behind *)

\* The capabilities whose directories and migrations are all there.
Present == {c \in AllCaps : \A p \in CapPlaces(c) : Here(p) \in tree}

Samples    == {p \in tree : p[2][1] = "sample"}
TasksThere == <<apiDir, <<"module", "tasks">>>> \in tree
BlocksTrue == \A w \in wired : w[2] \in Present
SamplesRun == Samples # {} => TasksThere
Clean      == BlocksTrue /\ SamplesRun /\ unscoped = {}

\* Until init strips them, blocks are in files of the scaffold and between markers.
AllMarked   == wired \subseteq (SentinelFiles \cap marked) \X AllCaps
HomeSamples == \A p \in Samples : \E o \in Apps : p[1] = <<o>>

InitClean ==
  /\ ~ tool.minimal => tool.caps = AllCaps
  /\ tool.pc \in {"begin", "strip"} => AllMarked
  /\ tool.pc = "begin" => HomeSamples
  /\ tool.pc = "strip" => \A p \in Samples : \E o \in tool.keep : p[1] = <<o>>
  /\ tool.pc \in {"scope", "apps", "verify"} => BlocksTrue /\ SamplesRun
  /\ tool.pc \in {"apps", "verify"} => unscoped = {}

\* The files of the api that add has copied.
CopiedFiles == {<<apiDir, x>> : x \in {y \in DOMAIN Holder : <<apiDir, Holder[y]>> \in tool.done}}
AddClean ==
  /\ \A w \in wired : \/ w[2] \in Present \cup Adding
                      \/ tool.pc = "copy" /\ w \in (CopiedFiles \cap marked) \X AllCaps
  /\ SamplesRun
  /\ tool.pc = "copy" => unscoped \subseteq tool.done
  /\ tool.pc # "copy" => unscoped = {}

\* The files of the copy that new-app is making.
NewFiles == {f \in marked : f[1] = tool.name}
NewClean ==
  /\ tool.pc \in {"reduce", "register"}
  /\ IF tool.pc = "register" THEN IF initScript THEN AllMarked /\ HomeSamples ELSE Clean
     ELSE IF initScript
     THEN /\ wired \subseteq ((SentinelFiles \cap marked) \cup NewFiles) \X AllCaps
          /\ \A p \in Samples : p[1] = tool.name \/ \E o \in Apps : p[1] = <<o>>
     ELSE /\ \A w \in wired : w[2] \in Present \/ w \in NewFiles \X AllCaps
          /\ \A p \in Samples : p[1] = tool.name \/ TasksThere
          /\ \A p \in unscoped : p[1] = tool.name

CleanInv ==
  Unless({"init", "add", "new", "strayed"}) =>
    /\ \A g \in guides : g[2] \in Present
    /\ initScript => guides = {}
    /\ tool.kind \in {"none", "init", "add", "rename", "new"}
    /\ tool.kind = "none" => IF initScript THEN AllMarked /\ HomeSamples ELSE Clean
    /\ tool.kind = "init" => InitClean
    /\ tool.kind = "add" => AddClean
    /\ tool.kind = "rename" => ~ initScript /\ Clean
    /\ tool.kind = "new" => NewClean

LEMMA PresentKept ==
  ASSUME UNCHANGED apiDir, \A c \in AllCaps : \A p \in CapPlaces(c) : Here(p) \in tree => Here(p) \in tree'
  PROVE  Present \subseteq Present'
<1>1. \A p : Here(p)' = Here(p)
  BY DEF Here
<1>2. QED
  BY <1>1 DEF Present

LEMMA PresentMoves ==
  ASSUME NEW from, NEW to, from # Root, RenameApp(from, to)
  PROVE  Present \subseteq Present'
  BY PlaceMoves DEF Present

LEMMA CleanMoves ==
  ASSUME NEW from, NEW to, from # Root, RenameApp(from, to)
  PROVE  /\ BlocksTrue => BlocksTrue'
         /\ SamplesRun => SamplesRun'
         /\ unscoped = {} => unscoped' = {}
         /\ (\A g \in guides : g[2] \in Present) => (\A g \in guides' : g[2] \in Present')
         /\ guides = {} => guides' = {}
<1>1. /\ tree' = {<<Moved(p[1], from, to), p[2]>> : p \in tree} /\ apiDir' = Moved(apiDir, from, to)
      /\ wired' = {<<<<Moved(w[1][1], from, to), w[1][2]>>, w[2]>> : w \in wired}
      /\ guides' = {<<<<Moved(g[1][1], from, to), g[1][2]>>, g[2]>> : g \in guides}
      /\ unscoped' = {<<Moved(p[1], from, to), p[2]>> : p \in unscoped}
  BY DEF RenameApp
<1>2. Present \subseteq Present'
  BY PresentMoves
<1>3. TasksThere => TasksThere'
  BY <1>1 DEF TasksThere
<1>4. Samples = {} => Samples' = {}
  BY <1>1 DEF Samples
<1>5. \A w \in wired' : \E v \in wired : w[2] = v[2]
  BY <1>1
<1>6. \A g \in guides' : \E h \in guides : g[2] = h[2]
  BY <1>1
<1>7. QED
  BY <1>1, <1>2, <1>3, <1>4, <1>5, <1>6 DEF BlocksTrue, SamplesRun

\* Nothing that the properties look at changes.
LEMMA CleanStays ==
  ASSUME UNCHANGED <<tree, wired, marked, unscoped, apiDir>>
  PROVE  /\ Present' = Present /\ Clean' = Clean /\ AllMarked' = AllMarked /\ HomeSamples' = HomeSamples
         /\ BlocksTrue' = BlocksTrue /\ SamplesRun' = SamplesRun /\ Samples' = Samples /\ TasksThere' = TasksThere
<1>1. Present' = Present
  BY DEF Present, Here
<1>2. Samples' = Samples /\ TasksThere' = TasksThere
  BY DEF Samples, TasksThere
<1>3. AllMarked' = AllMarked /\ HomeSamples' = HomeSamples
  BY <1>2 DEF AllMarked, HomeSamples
<1>4. BlocksTrue' = BlocksTrue /\ SamplesRun' = SamplesRun
  BY <1>1, <1>2 DEF BlocksTrue, SamplesRun
<1>5. QED
  BY <1>1, <1>2, <1>3, <1>4 DEF Clean

LEMMA WholeIsPresent == Whole \subseteq Present
  BY DEF Whole, Present

LEMMA TasksWhole == "tasks" \in Present => TasksThere
<1>1. Modules["tasks"] = <<"tasks">> /\ "tasks" \in AllCaps
  BY CapOrderIs DEF Modules
<1>2. 1 \in 1..Len(<<"tasks">>) /\ <<"tasks">>[1] = "tasks"
  OBVIOUS
<1>3. <<Api, <<"module", "tasks">>>> \in CapPlaces("tasks")
  BY <1>1, <1>2, PlacesOf
<1>4. Here(<<Api, <<"module", "tasks">>>>) = <<apiDir, <<"module", "tasks">>>>
  BY DEF Here
<1>5. QED
  BY <1>3, <1>4 DEF Present, TasksThere

LEMMA CleanStep ==
  ASSUME InstallInv, InstallInv', CleanInv, [ScaffoldNext]_vars, Unless({"init", "add", "new", "strayed"})'
  PROVE  CleanInv'
<1> USE NoToolIdle
<1>a. scars \subseteq scars' => Unless({"init", "add", "new", "strayed"}) /\ Unless({"init", "strayed"})
  BY DEF Unless
<1>b. Unless({"init", "strayed"})'
  BY DEF Unless
<1> DEFINE GuidesTrue == \A g \in guides : g[2] \in Present
\* init
<1>1. ASSUME tool.kind = "init", tool'.kind = "init", UNCHANGED <<initScript, scars>>,
             GuidesTrue => GuidesTrue', guides = {} => guides' = {}, InitClean => InitClean'
      PROVE  CleanInv'
  BY <1>1, <1>a DEF CleanInv
<1>2. ASSUME NEW name \in ProjectNames, NEW keep, NEW minimal, NEW picked,
             StartInit(name, keep, minimal, picked)
      PROVE  CleanInv'
  <2> DEFINE caps == IF minimal THEN picked \cup UNION {Requires(c) : c \in picked} ELSE AllCaps
  <2>1. /\ initScript /\ tool.kind = "none" /\ UNCHANGED <<files, registry, guides, initScript, scars>>
        /\ tool' = [NoTool EXCEPT !.kind = "init", !.pc = "begin", !.name = name,
                                  !.keep = {"api"} \cup keep, !.minimal = minimal, !.caps = caps]
    BY <1>2 DEF StartInit, Start, Idle
  <2>2. ~ minimal => caps = AllCaps
    OBVIOUS
  <2> HIDE DEF caps
  <2>3. tool'.kind = "init" /\ tool'.pc = "begin" /\ tool'.caps = caps /\ tool'.minimal = minimal
    BY <2>1, Zenon DEF NoTool
  <2>4. ~ tool'.minimal => tool'.caps = AllCaps
    BY <2>2, <2>3, Zenon
  <2>5. AllMarked' /\ HomeSamples' /\ GuidesTrue' /\ guides' = {}
    BY <2>1, <1>a, CleanStays DEF CleanInv, files, registry
  <2>6. InitClean'
    BY <2>3, <2>4, <2>5 DEF InitClean
  <2>7. QED
    BY <2>1, <2>3, <2>5, <2>6 DEF CleanInv
<1>3. CASE Prune
  <2> DEFINE gone == {<<o>> : o \in Apps \ tool.keep}
  <2>1. /\ tool.kind = "init" /\ tool.pc = "begin" /\ UNCHANGED <<guides, initScript, scars>>
        /\ tool'.kind = "init" /\ tool'.pc = "strip" /\ tool'.keep = tool.keep /\ tool'.caps = tool.caps
        /\ tool'.minimal = tool.minimal
        /\ tree' = {p \in tree : p[1] \notin gone} \ UNION {CapPlaces(c) : c \in Dropped}
        /\ wired' = {w \in wired : FileExists(w[1], tree')}
        /\ marked' = {f \in marked : FileExists(f, tree')}
    <3>1. tool' = [tool EXCEPT !.pc = "strip"]
      BY <1>3 DEF Prune, Goto
    <3>2. /\ tool'.kind = tool.kind /\ tool'.pc = "strip" /\ tool'.keep = tool.keep
          /\ tool'.caps = tool.caps /\ tool'.minimal = tool.minimal
      BY <3>1
    <3>3. QED
      BY <1>3, <3>2 DEF Prune, At
  <2>2. InitClean /\ guides = {}
    BY <2>1, <1>a DEF CleanInv, InstallInv, InitCaps
  <2>3. AllMarked'
    BY <2>1, <2>2 DEF InitClean, AllMarked
  <2>4. \A p \in Samples' : \E o \in tool.keep : p[1] = <<o>>
    BY <2>1, <2>2 DEF InitClean, HomeSamples, Samples
  <2>5. ~ tool'.minimal => tool'.caps = AllCaps
    BY <2>1, <2>2 DEF InitClean
  <2>6. InitClean'
    BY <2>1, <2>3, <2>4, <2>5 DEF InitClean
  <2>7. QED
    BY <1>1, <2>1, <2>2, <2>6
<1>4. CASE StripBlocks
  <2>1. /\ tool.kind = "init" /\ tool.pc = "strip" /\ UNCHANGED <<apiDir, guides, initScript, scars>>
        /\ tool'.kind = "init" /\ tool'.pc = "scope" /\ tool'.caps = tool.caps /\ tool'.minimal = tool.minimal
        /\ tree' = IF tool.minimal THEN WithoutSamples({<<o>> : o \in tool.keep}) ELSE tree
        /\ wired' = wired \ ((SentinelFiles \cap marked) \X Dropped)
    <3>1. tool' = [tool EXCEPT !.pc = "scope"]
      BY <1>4 DEF StripBlocks, Goto
    <3>2. tool'.kind = tool.kind /\ tool'.pc = "scope" /\ tool'.caps = tool.caps /\ tool'.minimal = tool.minimal
      BY <3>1
    <3>3. QED
      BY <1>4, <3>2 DEF StripBlocks, At, WithoutBlocks, registry
  <2>2. InitClean /\ guides = {}
    BY <2>1, <1>a DEF CleanInv, InstallInv, InitCaps
  <2>3. tool.caps \subseteq Present'
    BY <2>1, <1>b, WholeIsPresent DEF InstallInv, InitCaps, Whole, Present
  <2>4. BlocksTrue'
    <3>1. ASSUME NEW w \in wired'
          PROVE  w[2] \in tool.caps
      <4>1. w \in (SentinelFiles \cap marked) \X AllCaps
        BY <2>1, <2>2 DEF InitClean, AllMarked
      <4>2. w[2] \notin Dropped /\ w[2] \in AllCaps
        BY <2>1, <4>1
      <4>3. QED
        BY <4>2 DEF Dropped
    <3>2. QED
      BY <2>3, <3>1 DEF BlocksTrue
  <2>5. SamplesRun'
    <3>1. CASE tool.minimal
      <4>1. tree' = WithoutSamples({<<o>> : o \in tool.keep})
        BY <2>1, <3>1
      <4>2. \A p \in tree : p[2][1] = "sample" => p[1] \in {<<o>> : o \in tool.keep}
        BY <2>1, <2>2 DEF InitClean, Samples
      <4>3. Samples' = {}
        BY <4>1, <4>2 DEF Samples, WithoutSamples
      <4>4. QED
        BY <4>3 DEF SamplesRun
    <3>2. CASE ~ tool.minimal
      <4>1. tool.caps = AllCaps
        BY <2>2, <3>2 DEF InitClean
      <4>2. "tasks" \in Present'
        BY <2>3, <4>1, CapOrderIs
      <4>3. TasksThere'
        <5>1. ("tasks" \in Present)'
          BY <4>2
        <5>2. QED
          BY <5>1, TasksWhole, PTL
      <4>4. QED
        BY <4>3 DEF SamplesRun
    <3>3. QED
      BY <3>1, <3>2
  <2>6. ~ tool'.minimal => tool'.caps = AllCaps
    BY <2>1, <2>2 DEF InitClean
  <2>7. InitClean'
    BY <2>1, <2>4, <2>5, <2>6 DEF InitClean
  <2>8. QED
    BY <1>1, <2>1, <2>2, <2>7
<1>5. ASSUME tool.kind = "init", tool'.kind = "init", UNCHANGED <<initScript, scars>>,
             tool'.caps = tool.caps, tool'.minimal = tool.minimal,
             tool.pc \in {"scope", "apps"}, tool'.pc \in {"apps", "verify"},
             BlocksTrue => BlocksTrue', SamplesRun => SamplesRun',
             (tool.pc = "apps" => unscoped = {}) => unscoped' = {},
             GuidesTrue => GuidesTrue', guides = {} => guides' = {}
      PROVE  CleanInv'
  <2>1. InitClean
    BY <1>5, <1>a DEF CleanInv
  <2>2. InitClean'
    BY <1>5, <2>1 DEF InitClean
  <2>3. QED
    BY <1>1, <1>5, <2>2
<1>6. CASE RenameScope
  <2>1. /\ tool.kind = "init" /\ tool.pc = "scope" /\ UNCHANGED <<tree, wired, apiDir, guides, initScript, scars>>
        /\ tool'.kind = "init" /\ tool'.pc = "apps" /\ tool'.caps = tool.caps /\ tool'.minimal = tool.minimal
        /\ unscoped' = {}
    <3>1. PICK todo : tool' = [tool EXCEPT !.pc = "apps", !.todo = todo]
      BY <1>6 DEF RenameScope
    <3>2. tool'.kind = tool.kind /\ tool'.pc = "apps" /\ tool'.caps = tool.caps /\ tool'.minimal = tool.minimal
      BY <3>1
    <3>3. QED
      BY <1>6, <3>2 DEF RenameScope, At, registry
  <2>2. Present' = Present /\ Samples' = Samples /\ TasksThere' = TasksThere
    BY <2>1 DEF Present, Here, Samples, TasksThere
  <2>3. QED
    BY <1>5, <2>1, <2>2 DEF BlocksTrue, SamplesRun
<1>7. CASE RenameKeptApp
  <2>1. /\ tool.kind = "init" /\ tool.pc = "apps" /\ UNCHANGED <<initScript, scars>>
        /\ tool'.kind = "init" /\ tool'.pc = "apps" /\ tool'.caps = tool.caps /\ tool'.minimal = tool.minimal
    <3>1. PICK done : tool' = [tool EXCEPT !.todo = Tail(tool.todo), !.done = done]
      BY <1>7 DEF RenameKeptApp
    <3>2. tool'.kind = tool.kind /\ tool'.pc = tool.pc /\ tool'.caps = tool.caps /\ tool'.minimal = tool.minimal
      BY <3>1
    <3>3. QED
      BY <1>7, <3>2 DEF RenameKeptApp, At
  <2>2. CASE UNCHANGED <<files, registry, guides>>
    BY <1>5, <2>1, <2>2, CleanStays DEF files, registry
  <2>3. ASSUME NEW o, NEW to, RenameApp(<<o>>, to)
        PROVE  CleanInv'
    <3>1. <<o>> # Root
      BY DEF Root
    <3>2. /\ BlocksTrue => BlocksTrue'
          /\ SamplesRun => SamplesRun'
          /\ unscoped = {} => unscoped' = {}
          /\ GuidesTrue => GuidesTrue'
          /\ guides = {} => guides' = {}
      BY <2>3, <3>1, CleanMoves
    <3>3. QED
      BY <1>5, <2>1, <3>2
  <2>4. QED
    <3>1. UNCHANGED <<files, registry, guides>> \/ \E o, to : RenameApp(<<o>>, to)
      BY <1>7 DEF RenameKeptApp
    <3>2. QED
      BY <2>2, <2>3, <3>1
<1>8. CASE WriteManifest
  <2>1. /\ tool.kind = "init" /\ tool.pc = "apps" /\ UNCHANGED <<files, registry, guides, initScript, scars>>
        /\ tool'.kind = "init" /\ tool'.pc = "verify" /\ tool'.caps = tool.caps /\ tool'.minimal = tool.minimal
    <3>1. tool' = [tool EXCEPT !.pc = "verify"]
      BY <1>8 DEF WriteManifest, Goto
    <3>2. tool'.kind = tool.kind /\ tool'.pc = "verify" /\ tool'.caps = tool.caps /\ tool'.minimal = tool.minimal
      BY <3>1
    <3>3. QED
      BY <1>8, <3>2 DEF WriteManifest, At
  <2>2. QED
    BY <1>5, <2>1, CleanStays DEF files, registry
<1>9. CASE RemoveSelf
  <2>1. /\ tool.kind = "init" /\ tool.pc = "verify" /\ UNCHANGED <<files, registry, guides, scars>>
        /\ tool'.kind = "none" /\ initScript' = FALSE
    BY <1>9 DEF RemoveSelf, At, Done
  <2>2. Clean /\ GuidesTrue
    BY <2>1, <1>a DEF CleanInv, InitClean, Clean
  <2>3. Clean' /\ GuidesTrue'
    BY <2>1, <2>2, CleanStays DEF files, registry
  <2>4. QED
    BY <2>1, <2>3 DEF CleanInv
\* add
<1>10. ASSUME NEW asked \in Picks, StartAdd(asked)
       PROVE  CleanInv'
  <2>1. PICK wanted : StartAddOf(wanted)
    BY <1>10 DEF StartAdd
  <2>2. PICK todo : tool' = [NoTool EXCEPT !.kind = "add", !.pc = "copy", !.caps = wanted, !.todo = todo]
    BY <2>1 DEF StartAddOf, Start
  <2>3. tool'.kind = "add" /\ tool'.pc = "copy" /\ tool'.done = {}
    BY <2>2 DEF NoTool
  <2>4. /\ scars \subseteq scars' /\ UNCHANGED <<files, registry, guides, initScript>>
        /\ ~ initScript /\ tool.kind = "none"
    BY <2>1 DEF StartAddOf, Start, Idle
  <2>5. Clean /\ GuidesTrue
    BY <2>4, <1>a DEF CleanInv
  <2>6. Clean' /\ GuidesTrue'
    BY <2>4, <2>5, CleanStays DEF files, registry
  <2>7. AddClean'
    BY <2>3, <2>6 DEF AddClean, Clean, BlocksTrue
  <2>8. QED
    BY <2>3, <2>4, <2>6, <2>7 DEF CleanInv
<1>11. ASSUME tool.kind = "add", UNCHANGED <<initScript, scars>>, tool'.kind = "add",
              GuidesTrue => GuidesTrue', AddClean => AddClean'
       PROVE  CleanInv'
  <2>1. ~ initScript
    BY <1>11, <1>a DEF InstallInv, AddCaps
  <2>2. QED
    BY <1>11, <2>1, <1>a DEF CleanInv
<1>12. CASE CopyIn
  <2> DEFINE p == InLocal(Head(tool.todo))
             copied == {w \in Held({p}) \X AllCaps : w[2] \in Carries[w[1][2]]}
  <2>1. /\ tool.kind = "add" /\ tool.pc = "copy" /\ UNCHANGED <<registry, manifest, guides, initScript, scars>>
        /\ tool.todo # << >>
        /\ \/ UNCHANGED files /\ tool' = [tool EXCEPT !.todo = Tail(tool.todo), !.done = tool.done]
           \/ /\ tree' = tree \cup {p} /\ wired' = wired \cup copied
              /\ unscoped' = unscoped \cup {p} /\ marked' = marked \cup Held({p})
              /\ tool' = [tool EXCEPT !.todo = Tail(tool.todo), !.done = tool.done \cup {p}]
    <3>1. CASE tool' = [tool EXCEPT !.todo = Tail(@)] /\ UNCHANGED files
      <4>1. tool' = [tool EXCEPT !.todo = Tail(@), !.done = tool.done]
        BY <1>12, <3>1 DEF CopyIn
      <4>2. QED
        BY <1>12, <3>1, <4>1 DEF CopyIn, At
    <3>2. CASE /\ tree' = tree \cup {p} /\ tool' = [tool EXCEPT !.todo = Tail(@), !.done = @ \cup {p}]
               /\ wired' = wired \cup copied
               /\ unscoped' = unscoped \cup {p} /\ marked' = marked \cup Held({p})
      BY <1>12, <3>2 DEF CopyIn, At
    <3>3. QED
      BY <1>12, <3>1, <3>2 DEF CopyIn
  <2>2. ApiFollowed /\ tool.todo \in Seq(Places)
    BY <2>1, <1>a DEF InstallInv, AddCaps, Installing
  <2>3. p[2][1] # "sample"
    <3>1. Head(tool.todo) \in Places
      BY <2>1, <2>2
    <3>2. QED
      BY <3>1 DEF InLocal, Places
  <2>4. Held({p}) = {<<apiDir, x>> : x \in {y \in DOMAIN Holder : <<apiDir, Holder[y]>> = p}}
    BY <2>2, HeldIs
  <2>5. copied \subseteq Held({p}) \X AllCaps
    OBVIOUS
  <2> HIDE DEF p, copied
  <2>6. CASE UNCHANGED files /\ tool' = [tool EXCEPT !.todo = Tail(tool.todo), !.done = tool.done]
    <3>1. tool'.kind = tool.kind /\ tool'.pc = tool.pc /\ tool'.caps = tool.caps /\ tool'.done = tool.done
      BY <2>6
    <3>2. Present' = Present /\ SamplesRun' = SamplesRun
      BY <2>1, <2>6, CleanStays DEF files, registry
    <3>3. Adding' = Adding /\ CopiedFiles' = CopiedFiles
      BY <2>1, <3>1 DEF Adding, CopiedFiles, registry
    <3>4. AddClean => AddClean'
      BY <2>6, <3>1, <3>2, <3>3 DEF AddClean, files
    <3>5. QED
      BY <1>11, <2>1, <3>1, <3>2, <3>4
  <2>7. CASE /\ tree' = tree \cup {p} /\ wired' = wired \cup copied
             /\ unscoped' = unscoped \cup {p} /\ marked' = marked \cup Held({p})
             /\ tool' = [tool EXCEPT !.todo = Tail(tool.todo), !.done = tool.done \cup {p}]
    <3>1. /\ tool'.kind = tool.kind /\ tool'.pc = tool.pc /\ tool'.caps = tool.caps
          /\ tool'.done = tool.done \cup {p} /\ apiDir' = apiDir
      BY <2>1, <2>7 DEF registry
    <3>2. Present \subseteq Present'
      BY <2>7, <3>1, PresentKept
    <3>3. Adding' = Adding
      BY <2>1, <3>1 DEF Adding
    <3>4. CopiedFiles \subseteq CopiedFiles' /\ Held({p}) \subseteq CopiedFiles'
      BY <2>4, <3>1 DEF CopiedFiles
    <3>5. SamplesRun => SamplesRun'
      BY <2>3, <2>7, <3>1 DEF SamplesRun, Samples, TasksThere
    <3>6. ASSUME AddClean PROVE AddClean'
      <4>1. ASSUME NEW w \in wired
            PROVE  \/ w[2] \in Present' \cup Adding'
                   \/ w \in (CopiedFiles' \cap marked') \X AllCaps
        <5>1. CASE w[2] \in Present \cup Adding
          BY <3>2, <3>3, <5>1
        <5>2. CASE w \in (CopiedFiles \cap marked) \X AllCaps
          BY <2>7, <3>4, <5>2
        <5>3. QED
          BY <3>6, <5>1, <5>2 DEF AddClean
      <4>2. ASSUME NEW w \in copied
            PROVE  w \in (CopiedFiles' \cap marked') \X AllCaps
        BY <2>5, <2>7, <3>4
      <4>3. unscoped' \subseteq tool'.done
        BY <2>1, <2>7, <3>1, <3>6 DEF AddClean
      <4>4. QED
        BY <2>1, <2>7, <3>1, <3>5, <3>6, <4>1, <4>2, <4>3 DEF AddClean
    <3>7. QED
      BY <1>11, <2>1, <3>1, <3>2, <3>6
  <2>8. QED
    BY <2>1, <2>6, <2>7
<1>13. CASE StripCopied
  <2>1. /\ tool.kind = "add" /\ tool.pc = "copy" /\ UNCHANGED <<tree, registry, manifest, guides, initScript, scars>>
        /\ tool'.kind = "add" /\ tool'.pc = "configure" /\ tool'.caps = tool.caps
        /\ wired' = wired \ ((Held(tool.done) \cap marked) \X (AllCaps \ (manifest.caps \cup tool.caps)))
        /\ unscoped' = unscoped \ tool.done
    BY <1>13 DEF StripCopied, At, Goto, WithoutBlocks
  <2>2. apiDir' = apiDir /\ ApiFollowed /\ ManifestGood
    BY <2>1, <1>a DEF InstallInv, AddCaps, registry
  <2>3. Held(tool.done) = CopiedFiles
    BY <2>2, HeldIs DEF CopiedFiles
  <2>4. Present' = Present /\ SamplesRun' = SamplesRun /\ Adding' = Adding
    BY <2>1, <2>2 DEF Present, Here, SamplesRun, Samples, TasksThere, Adding
  <2>5. ASSUME AddClean PROVE AddClean'
    <3>1. ASSUME NEW w \in wired'
          PROVE  w[2] \in Present \cup Adding
      <4>1. CASE w \in (CopiedFiles \cap marked) \X AllCaps
        <5>1. w[2] \in manifest.caps \cup tool.caps
          BY <2>1, <2>3, <4>1
        <5>2. manifest.caps \subseteq Present
          BY <2>2, WholeIsPresent DEF ManifestGood
        <5>3. QED
          BY <5>1, <5>2 DEF Adding
      <4>2. QED
        BY <2>1, <2>5, <4>1 DEF AddClean
    <3>2. unscoped' = {}
      BY <2>1, <2>5 DEF AddClean
    <3>3. QED
      BY <2>1, <2>4, <2>5, <3>1, <3>2 DEF AddClean
  <2>6. QED
    BY <1>11, <2>1, <2>4, <2>5
<1>14. CASE Configure
  <2>1. /\ tool.kind = "add" /\ tool.pc = "configure"
        /\ UNCHANGED <<tree, unscoped, registry, manifest, guides, initScript, scars>>
        /\ tool'.kind = "add" /\ tool'.pc = "guides" /\ tool'.caps = tool.caps
        /\ wired' = wired \cup ({Env} \X (Adding \cap Carries["env"]))
    BY <1>14 DEF Configure, At, Goto
  <2>2. Present' = Present /\ SamplesRun' = SamplesRun /\ Adding' = Adding
    BY <2>1 DEF Present, Here, SamplesRun, Samples, TasksThere, Adding, registry
  <2>3. AddClean => AddClean'
    BY <2>1, <2>2 DEF AddClean
  <2>4. QED
    BY <1>11, <2>1, <2>2, <2>3
<1>15. CASE WriteGuides
  <2> DEFINE old == {InLocal(f) : f \in SentinelFiles \ {Env}} \ Held(tool.done)
             sections(c) == {f \in old : FileExists(f, tree) /\ c \in Carries[f[2]]}
             written == {c \in Adding : sections(c) # {}}
  <2>1. /\ tool.kind = "add" /\ tool.pc = "guides" /\ UNCHANGED <<files, registry, manifest, initScript, scars>>
        /\ tool'.kind = "add" /\ tool'.pc = "record" /\ tool'.caps = tool.caps
        /\ guides' = {g \in guides : g[2] \notin written} \cup UNION {sections(c) \X {c} : c \in written}
    BY <1>15 DEF WriteGuides, At, Goto
  <2> HIDE DEF sections
  <2>2. \A g \in guides' : g \in guides \/ g[2] \in Adding
    BY <2>1
  <2>3. Adding \subseteq Present
    BY <2>1, <1>a, WholeIsPresent DEF InstallInv, AddCaps, Installing
  <2>4. Present' = Present /\ SamplesRun' = SamplesRun /\ Adding' = Adding
    BY <2>1, CleanStays DEF Adding, files, registry
  <2>5. AddClean => AddClean'
    BY <2>1, <2>4 DEF AddClean, files
  <2>6. QED
    BY <1>11, <2>1, <2>2, <2>3, <2>4, <2>5
<1>16. CASE RecordAdded
  <2>1. /\ tool.kind = "add" /\ tool.pc = "record" /\ UNCHANGED <<files, registry, guides, initScript, scars>>
        /\ tool'.kind = "none"
    BY <1>16 DEF RecordAdded, At, Done
  <2>2. Adding \subseteq Present /\ ~ initScript
    BY <2>1, <1>a, WholeIsPresent DEF InstallInv, AddCaps, Installing
  <2>3. Clean /\ GuidesTrue
    BY <2>1, <2>2, <1>a DEF CleanInv, AddClean, Clean, BlocksTrue
  <2>4. Clean' /\ GuidesTrue'
    BY <2>1, <2>3, CleanStays DEF files, registry
  <2>5. QED
    BY <2>1, <2>2, <2>4 DEF CleanInv
<1>17. ASSUME NEW c, ApplyGuide(c)
       PROVE  CleanInv'
  <2>1. /\ tool.kind = "none" /\ UNCHANGED <<tree, unscoped, registry, initScript, tool, scars>>
        /\ wired' \subseteq wired \cup guides /\ guides' \subseteq guides /\ guides # {}
    BY <1>17 DEF ApplyGuide, Idle
  <2>2. ~ initScript /\ Clean /\ GuidesTrue
    BY <2>1, <1>a DEF CleanInv
  <2>3. Present' = Present /\ SamplesRun' = SamplesRun
    BY <2>1 DEF Present, Here, SamplesRun, Samples, TasksThere, registry
  <2>4. Clean' /\ GuidesTrue'
    BY <2>1, <2>2, <2>3 DEF Clean, BlocksTrue
  <2>5. QED
    BY <2>1, <2>2, <2>4 DEF CleanInv
\* rename-app
<1>18. ASSUME NEW from \in {p[1] : p \in tree} \ {Root}, NEW to, StartRename(from, to)
       PROVE  CleanInv'
  <2>1. /\ ~ initScript /\ tool.kind = "none" /\ UNCHANGED <<initScript, scars>> /\ tool'.kind = "rename"
        /\ RenameApp(from, to)
    BY <1>18 DEF StartRename, Start, Idle, NoTool
  <2>2. Clean /\ GuidesTrue
    BY <2>1, <1>a DEF CleanInv
  <2>3. Clean' /\ GuidesTrue'
    BY <2>1, <2>2, CleanMoves DEF Clean
  <2>4. QED
    BY <2>1, <2>3 DEF CleanInv
<1>19. CASE RecordRename
  <2>1. /\ tool.kind = "rename" /\ UNCHANGED <<files, registry, guides, initScript, scars>> /\ tool'.kind = "none"
    BY <1>19 DEF RecordRename, At, Done
  <2>2. Clean /\ GuidesTrue /\ ~ initScript
    BY <2>1, <1>a DEF CleanInv
  <2>3. Clean' /\ GuidesTrue'
    BY <2>1, <2>2, CleanStays DEF files, registry
  <2>4. QED
    BY <2>1, <2>2, <2>3 DEF CleanInv
\* new-app
<1>20. ASSUME tool'.kind = "new", UNCHANGED <<guides, initScript>>, scars \subseteq scars',
              Present \subseteq Present', NewClean'
       PROVE  CleanInv'
  BY <1>20, <1>a DEF CleanInv
<1>21. ASSUME NEW o \in Apps, NEW name \in FreeNames, StartNewApp(o, name)
       PROVE  CleanInv'
  <2> DEFINE copies == {<<<<name, w[1][2]>>, w[2]>> : w \in {v \in SourceWired : v[1][1] = <<o>>}}
             marks == {<<name, p[2]>> : p \in {q \in SourceMarks : q[1] = <<o>>}}
  <2>1. /\ tool.kind = "none" /\ UNCHANGED <<registry, guides, initScript>> /\ scars \subseteq scars'
        /\ tool' = [NoTool EXCEPT !.kind = "new", !.pc = "reduce", !.name = name, !.keep = {o}]
        /\ tree' = tree \cup {<<name, p[2]>> : p \in {q \in SourceTree : q[1] = <<o>>}}
        /\ unscoped' = unscoped \cup {<<name, p[2]>> : p \in {q \in SourceTree : q[1] = <<o>>}}
        /\ wired' = wired \cup copies /\ marked' = marked \cup marks
    BY <1>21 DEF StartNewApp, Start, Idle
  <2>2. tool'.kind = "new" /\ tool'.pc = "reduce" /\ tool'.name = name
    BY <2>1 DEF NoTool
  <2>3. Present \subseteq Present'
    BY <2>1, PresentKept DEF registry
  <2>4. IF initScript THEN AllMarked /\ HomeSamples ELSE Clean
    BY <2>1, <1>a DEF CleanInv
  <2>5. copies \subseteq NewFiles' \X AllCaps
    <3>1. SourceWired \subseteq SourceMarks \X AllCaps
      BY <2>4 DEF SourceWired, SourceMarks, AllMarked, PristineWired
    <3>2. ASSUME NEW w \in SourceWired, w[1][1] = <<o>>
          PROVE  <<name, w[1][2]>> \in marks /\ w[2] \in AllCaps
      BY <3>1, <3>2
    <3>3. \A f \in marks : f \in NewFiles'
      BY <2>1, <2>2 DEF NewFiles
    <3>4. ASSUME NEW w \in copies
          PROVE  w \in NewFiles' \X AllCaps
      <4>1. PICK v \in SourceWired : v[1][1] = <<o>> /\ w = <<<<name, v[1][2]>>, v[2]>>
        OBVIOUS
      <4> HIDE DEF marks
      <4>2. <<name, v[1][2]>> \in marks /\ v[2] \in AllCaps
        BY <3>2, <4>1
      <4>3. <<name, v[1][2]>> \in NewFiles'
        BY <3>3, <4>2
      <4>4. QED
        BY <4>1, <4>2, <4>3
    <3>5. QED
      BY <3>4
  <2> HIDE DEF copies, marks
  <2>6. \A p \in tree' : p \in tree \/ p[1] = name
    BY <2>1
  <2>7. CASE initScript
    <3>1. wired' \subseteq ((SentinelFiles \cap marked') \cup NewFiles') \X AllCaps
      BY <2>1, <2>4, <2>5, <2>7 DEF AllMarked
    <3>2. \A p \in Samples' : p[1] = name \/ \E a \in Apps : p[1] = <<a>>
      BY <2>4, <2>6, <2>7 DEF HomeSamples, Samples
    <3>3. NewClean'
      BY <2>1, <2>2, <2>7, <3>1, <3>2 DEF NewClean
    <3>4. QED
      BY <1>20, <2>1, <2>2, <2>3, <3>3
  <2>8. CASE ~ initScript
    <3>1. \A w \in wired' : w[2] \in Present' \/ w \in NewFiles' \X AllCaps
      BY <2>1, <2>3, <2>4, <2>5, <2>8 DEF Clean, BlocksTrue
    <3>2. \A p \in Samples' : p[1] = name \/ TasksThere'
      BY <2>1, <2>4, <2>6, <2>8 DEF Clean, SamplesRun, Samples, TasksThere, registry
    <3>3. \A p \in unscoped' : p[1] = name
      BY <2>1, <2>4, <2>8 DEF Clean
    <3>4. NewClean'
      BY <2>1, <2>2, <2>8, <3>1, <3>2, <3>3 DEF NewClean
    <3>5. QED
      BY <1>20, <2>1, <2>2, <2>3, <3>4
  <2>9. QED
    BY <2>7, <2>8
<1>22. CASE Reduce
  <2>1. /\ tool.kind = "new" /\ tool.pc = "reduce" /\ UNCHANGED <<registry, guides, initScript, scars>>
        /\ tool'.kind = "new" /\ tool'.pc = "register"
        /\ tree' = {p \in WithoutSamples({tool.name}) : p[1] = tool.name => p[2][1] = "app"}
        /\ wired' = {w \in wired \ ((NewFiles \cap marked) \X AllCaps) : FileExists(w[1], tree')}
        /\ marked' = marked \ NewFiles
        /\ unscoped' = {p \in unscoped : initScript \/ ~ (p[1] = tool.name)} \cap tree'
    BY <1>22 DEF Reduce, At, Goto, WithoutBlocks, WithoutMarkers, NewFiles
  <2>2. tool.name # Root /\ tool.name # apiDir /\ apiDir' = apiDir
    BY <2>1, <1>a, ScaffoldAssumption DEF InstallInv, registry
  <2>3. \A p \in tree : p[1] # tool.name => p \in tree'
    BY <2>1 DEF WithoutSamples
  <2>4. Present \subseteq Present'
    <3>1. \A c \in AllCaps : \A p \in CapPlaces(c) : Here(p)[1] # tool.name
      BY <2>2, PlaceShape DEF Here
    <3>2. QED
      BY <2>2, <2>3, <3>1, PresentKept
  <2>5. NewClean
    BY <2>1, <1>a DEF CleanInv
  <2>6. NewFiles \subseteq marked
    BY DEF NewFiles
  <2>7. \A p \in Samples' : p \in Samples /\ p[1] # tool.name
    BY <2>1 DEF Samples, WithoutSamples
  <2>8. CASE initScript
    <3>1. AllMarked'
      <4>1. wired \subseteq ((SentinelFiles \cap marked) \cup NewFiles) \X AllCaps
        BY <2>1, <2>5, <2>8 DEF NewClean
      <4>2. ASSUME NEW w \in wired'
            PROVE  w \in (SentinelFiles \cap marked') \X AllCaps
        BY <2>1, <2>6, <4>1
      <4>3. QED
        BY <4>2 DEF AllMarked
    <3>2. HomeSamples'
      BY <2>1, <2>5, <2>7, <2>8 DEF NewClean, HomeSamples
    <3>3. NewClean'
      BY <2>1, <2>8, <3>1, <3>2 DEF NewClean
    <3>4. QED
      BY <1>20, <2>1, <2>4, <3>3
  <2>9. CASE ~ initScript
    <3>1. BlocksTrue'
      BY <2>1, <2>4, <2>5, <2>6, <2>9 DEF NewClean, BlocksTrue
    <3>2. SamplesRun'
      <4>1. TasksThere => TasksThere'
        BY <2>2, <2>3 DEF TasksThere
      <4>2. QED
        BY <2>1, <2>5, <2>7, <2>9, <4>1 DEF NewClean, SamplesRun
    <3>3. unscoped' = {}
      BY <2>1, <2>5, <2>9 DEF NewClean
    <3>4. NewClean'
      BY <2>1, <2>9, <3>1, <3>2, <3>3 DEF NewClean, Clean
    <3>5. QED
      BY <1>20, <2>1, <2>4, <3>4
  <2>10. QED
    BY <2>8, <2>9
<1>23. CASE Register
  <2>1. /\ tool.kind = "new" /\ tool.pc = "register" /\ tool'.kind = "none"
        /\ UNCHANGED <<files, apiDir, guides, initScript, scars>>
    BY <1>23 DEF Register, At, Done
  <2>2. NewClean /\ GuidesTrue /\ (initScript => guides = {})
    BY <2>1, <1>a DEF CleanInv
  <2>3. IF initScript THEN AllMarked' /\ HomeSamples' ELSE Clean'
    BY <2>1, <2>2, CleanStays DEF NewClean, files
  <2>4. GuidesTrue'
    BY <2>1, <2>2, CleanStays DEF files
  <2>5. QED
    BY <2>1, <2>2, <2>3, <2>4 DEF CleanInv
<1>24. CASE Stop
  <2>1. /\ scars' = scars \cup {tool.kind} /\ tool'.kind = "none" /\ tool.pc # "idle"
        /\ UNCHANGED <<files, registry, guides, initScript>>
    BY <1>24 DEF Stop, Done
  <2>2. tool.kind \notin {"init", "add", "new"}
    BY <2>1 DEF Unless
  <2>3. tool.kind \in {"none", "rename"} /\ GuidesTrue /\ (initScript => guides = {})
        /\ IF initScript THEN AllMarked /\ HomeSamples ELSE Clean
    BY <2>1, <2>2, <1>a DEF CleanInv
  <2>4. IF initScript THEN AllMarked' /\ HomeSamples' ELSE Clean'
    BY <2>1, <2>3, CleanStays DEF files, registry
  <2>5. GuidesTrue'
    BY <2>1, <2>3, CleanStays DEF files, registry
  <2>6. QED
    BY <2>1, <2>3, <2>4, <2>5 DEF CleanInv
<1>25. CASE UNCHANGED vars
  <2>1. UNCHANGED <<files, registry, guides, manifest, initScript, tool, scars>>
    BY <1>25 DEF vars
  <2>2. /\ Present' = Present /\ Clean' = Clean /\ AllMarked' = AllMarked /\ HomeSamples' = HomeSamples
        /\ BlocksTrue' = BlocksTrue /\ SamplesRun' = SamplesRun /\ Samples' = Samples /\ TasksThere' = TasksThere
    BY <2>1, CleanStays DEF files, registry
  <2>3. Adding' = Adding /\ CopiedFiles' = CopiedFiles /\ NewFiles' = NewFiles
    BY <2>1 DEF Adding, CopiedFiles, NewFiles, files, registry
  <2>4. InitClean' = InitClean
    BY <2>1, <2>2 DEF InitClean, files
  <2>5. AddClean' = AddClean
    BY <2>1, <2>2, <2>3 DEF AddClean, files
  <2>6. NewClean' = NewClean
    BY <2>1, <2>2, <2>3 DEF NewClean, files
  <2>7. QED
    BY <2>1, <2>2, <2>4, <2>5, <2>6 DEF CleanInv, Unless
<1>26. ASSUME NEW name \in ProjectNames, NEW keep,
              \/ StartInit(name, keep, FALSE, {})
              \/ \E picked \in Picks : StartInit(name, keep, TRUE, picked)
       PROVE  CleanInv'
  BY <1>2, <1>26, Zenon
<1>27. QED
  BY <1>3, <1>4, <1>6, <1>7, <1>8, <1>9, <1>10, <1>12, <1>13, <1>14, <1>15, <1>16, <1>17, <1>18,
     <1>19, <1>21, <1>22, <1>23, <1>24, <1>25, <1>26 DEF ScaffoldNext

LEMMA CleanInvInductive ==
  InstallInv /\ InstallInv' /\ CleanInv /\ [ScaffoldNext]_vars => CleanInv'
<1> SUFFICES ASSUME InstallInv, InstallInv', CleanInv, [ScaffoldNext]_vars PROVE CleanInv'
  OBVIOUS
<1>1. CASE Unless({"init", "add", "new", "strayed"})'
  BY <1>1, CleanStep
<1>2. CASE ~ Unless({"init", "add", "new", "strayed"})'
  BY <1>2 DEF CleanInv
<1>3. QED
  BY <1>1, <1>2

LEMMA InitsClean == ScaffoldInit => CleanInv
<1> SUFFICES ASSUME ScaffoldInit PROVE CleanInv
  OBVIOUS
<1>1. /\ tree = PristineTree /\ tool.kind = "none" /\ guides = {} /\ initScript
      /\ wired = PristineWired /\ marked = SentinelFiles
  BY NoToolIdle DEF ScaffoldInit
<1>2. AllMarked
  BY <1>1 DEF AllMarked, PristineWired
<1>3. ASSUME NEW p \in PristineTree, p[2][1] = "sample"
      PROVE  \E o \in Apps : p[1] = <<o>>
  <2>1. CASE p \in UNION {CapPlaces(c) : c \in AllCaps}
    BY <1>3, <2>1, PlaceShape
  <2>2. CASE p \in {<<<<o>>, <<"app", o>>>> : o \in Apps}
    BY <2>2
  <2>3. CASE p \in {<<<<o>>, <<"sample", o>>>> : o \in Clients \ {"web-next"}}
    BY <2>3 DEF Apps
  <2>4. QED
    BY <2>1, <2>2, <2>3 DEF PristineTree
<1>4. HomeSamples
  BY <1>1, <1>3 DEF HomeSamples, Samples
<1>5. QED
  BY <1>1, <1>2, <1>4 DEF CleanInv

\* Whatever was dropped, added, renamed or created, nothing left refers to code that is not there, as
\* long as every init, add and new-app ran to its end: no block of an absent capability, no sample
\* without its endpoint, no file with the scope of the scaffold (init.mjs:251-339, add.mjs:201-218).
THEOREM ScaffoldNothingDangling == ScaffoldSpec => []NothingDangling
<1>1. CleanInv => NothingDangling
  <2> SUFFICES ASSUME CleanInv, Generated, Unless({"init", "add", "new", "strayed"})
               PROVE  /\ \A w \in wired : {Here(p) : p \in CapPlaces(w[2])} \subseteq tree
                      /\ \A p \in tree : p[2][1] = "sample" => Here(<<Api, <<"module", "tasks">>>>) \in tree
                      /\ unscoped = {}
    BY DEF NothingDangling
  <2>1. Clean
    BY DEF CleanInv, Generated, Idle
  <2>2. \A w \in wired : {Here(p) : p \in CapPlaces(w[2])} \subseteq tree
    BY <2>1 DEF Clean, BlocksTrue, Present
  <2>3. Here(<<Api, <<"module", "tasks">>>>) = <<apiDir, <<"module", "tasks">>>>
    BY DEF Here
  <2>4. \A p \in tree : p[2][1] = "sample" => Here(<<Api, <<"module", "tasks">>>>) \in tree
    BY <2>1, <2>3 DEF Clean, SamplesRun, Samples, TasksThere
  <2>5. QED
    BY <2>1, <2>2, <2>4 DEF Clean
<1>2. QED
  BY <1>1, InitInstalled, InstallInvInductive, InitsClean, CleanInvInductive, PTL DEF ScaffoldSpec
=============================================================================
