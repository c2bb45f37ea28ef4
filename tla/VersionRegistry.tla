-------------------------- MODULE VersionRegistry --------------------------
(***************************************************************************)
(* The list `versions' with the projects of each, and how names become     *)
(* directories: a version is known by its path in svn, with '/', and lives *)
(* in one directory below ROOT_DIR, with '+' for each '/'.  The list is    *)
(* kept in memory only.  A new process reads the directories, whoever made *)
(* them, and turns every '+' back.                                         *)
(*                                                                         *)
(* A word is a sequence of characters.  What MkSession tells apart when a  *)
(* version is entered (its environment, the svn commands) is here one      *)
(* choice of how far it gets.                                              *)
(*                                                                         *)
(* Sources: src/cmd/mk.c, src/cmd/cmd_tool.c.                              *)
(***************************************************************************)
EXTENDS Integers, Sequences, SequencesExt, FiniteSets, FiniteSetsExt

CONSTANTS
    Characters,    \* what words and names are made of
    VersionWords,  \* what a user types for a version
    ProjectWords,  \* and for a project
    Archs,         \* and for an architecture
    MkdirPaths,    \* and for mkdir -p, as seen from ROOT_DIR
    Repository,    \* the versions svn knows -> the projects of each
    VersionAttr,   \* a name -> its row of version_attrs, "none" without one
    ProjectAttr,   \* a name -> its row of project_attrs, "none" without one
    ByScript,      \* the directories build/fwbuild makes in a version
    Disks          \* what the first process may find below ROOT_DIR

VARIABLES
    versions,  \* the list: records of name, dir, attr and the set of projects
    at,        \* the entry of vty->index, its architecture, its project or <<>>
    running,   \* whether there is a process
    disk,      \* the directories below ROOT_DIR -> the directories in each
    byHand     \* history: the paths <<d>> and <<d, s>> that mkdir lines made
vars == <<versions, at, running, disk, byHand>>

Outside == [version |-> 0, arch |-> "", project |-> <<>>]

-----------------------------------------------------------------------------
(* mk_fix_name *)
(* Slip: one slash only (NoTwins). *)
FixNameOnce(s) == IF Last(s) = "/" THEN Front(s) ELSE s
FixName(s) == SubSeq(s, 1, Max({i \in DOMAIN s : s[i] # "/"}))

(* What svn makes of a path: one slash between components, none around     *)
(* them, and no component "." (canonical paths of svn).                    *)
DotAt(s, i) ==
    /\ s[i] = "." /\ (i > 1 => s[i - 1] = "/") /\ (i < Len(s) => s[i + 1] = "/")
SvnPath(s) ==
    LET letters == {i \in DOMAIN s : s[i] # "/" /\ ~DotAt(s, i)}
        slashes == {i \in DOMAIN s : s[i] = "/" /\ i + 1 \in letters /\ \E j \in letters : j < i}
        kept    == SetToSortSeq(letters \cup slashes, <)
    IN [k \in DOMAIN kept |-> s[kept[k]]]
LastComponent(s) == SubSeq(s, 1 + Max({0} \cup {i \in DOMAIN s : s[i] = "/"}), Len(s))

(* version_change_name: the two copies of the name. *)
Changed(s, from, to) == [i \in DOMAIN s |-> IF s[i] = from THEN to ELSE s[i]]
(* Slip: the first one only, for want of a loop (Rebuilt). *)
VersionNameFirst(s) ==
    [i \in DOMAIN s |-> IF s[i] = "+" /\ \A j \in 1 .. i - 1 : s[j] # "+" THEN "/" ELSE s[i]]
VersionName(s) == Changed(s, "+", "/")
DirName(s)     == Changed(s, "/", "+")

(* version_create with version_create_finish. *)
VersionCreate(s) ==
    [name |-> VersionName(s), dir |-> DirName(s), attr |-> VersionAttr[VersionName(s)], projects |-> {}]

(* version_find, project_find: the first of that name, 0 without one. *)
VersionFind(name) ==
    LET found == {i \in DOMAIN versions : versions[i].name = name}
    IN IF found = {} THEN 0 ELSE Min(found)

(* version_exists, version_has_project: what svn ls finds. *)
VersionExists(name) == SvnPath(name) \in DOMAIN Repository
HasProject(name, project) == VersionExists(name) /\ FixName(project) \in Repository[SvnPath(name)]

(* for_all_dirs skips what begins with a dot. *)
Visible(dirs) == {d \in dirs : d[1] # "."}

(* A word for a version names something below the top of svn; no name      *)
(* there has a '+'.  A project is a directory of its version: what deeper  *)
(* ones do to the working directory is MkSession's.  What was below        *)
(* ROOT_DIR before the first process is of names changed.                  *)
Named(d) == d # <<>> /\ \A i \in DOMAIN d : d[i] # "/"
ASSUME RegistryAssumption ==
    /\ Archs \cup {"/", "+", "build", ".os", "os."} \subseteq Characters
    /\ VersionWords \cup ProjectWords \cup ByScript \subseteq Seq(Characters)
    /\ \A w \in VersionWords : SvnPath(w) # <<>> /\ \E i \in DOMAIN w : w[i] # "/"
    /\ \A w \in VersionWords : VersionExists(FixName(w)) => "+" \notin ToSet(FixName(w))
    /\ \A w \in ProjectWords :
          (\E i \in DOMAIN w : w[i] # "/") /\ Named(FixName(w)) /\ FixName(w) # <<".">>
    /\ \A p \in MkdirPaths :
          /\ p \in Seq(Seq(Characters)) /\ Len(p) \in {1, 2}
          /\ \A i \in DOMAIN p : Named(p[i])
    /\ \A found \in Disks :
          /\ IsFiniteSet(DOMAIN found) /\ DOMAIN found \subseteq Seq(Characters)
          /\ found \in [DOMAIN found -> SUBSET Seq(Characters)]
          /\ \A d \in Visible(DOMAIN found) : Named(d) /\ Last(d) # "+"

-----------------------------------------------------------------------------
(* The directories of a version *)

Inside(d) == IF d \in DOMAIN disk THEN disk[d] ELSE {}
Makes(dir, new) ==
    disk' = [d \in DOMAIN disk \cup {dir} |-> IF d = dir THEN Inside(d) \cup new ELSE disk[d]]

(* version_3602_refresh and version_appctl_refresh check the system out. *)
OsDir(attr, arch) ==
    CASE attr = "3602"   -> {<<arch, ".os">>}
      [] attr = "appctl" -> {<<"os.", arch>>}
      [] OTHER           -> {}
Refreshed(e, arch) == {<<"build">>} \cup OsDir(e.attr, arch)

(* version_refresh stops at the first checkout that fails. *)
RefreshStops(e, arch) == {{}, {<<"build">>}, Refreshed(e, arch)}

-----------------------------------------------------------------------------
Init ==
    /\ versions = <<>> /\ at = Outside /\ running = FALSE
    /\ disk \in Disks /\ byHand = {}

(* all_versions_init: the directories in the order of readdir.             *)
Start ==
    /\ ~running /\ running' = TRUE
    /\ \E order \in SetToSeqs(Visible(DOMAIN disk)) :
          versions' = [i \in DOMAIN order |->
                         [VersionCreate(order[i]) EXCEPT !.projects = Visible(disk[order[i]])]]
    /\ UNCHANGED <<at, disk>>

(* quit, end of file, or a crash. *)
Stop ==
    /\ running /\ running' = FALSE
    /\ versions' = <<>> /\ at' = Outside
    /\ UNCHANGED disk

(* version_get *)
VersionGet(name) ==
    CASE VersionFind(name) # 0 -> versions' = versions
      [] VersionFind(name) = 0 /\ VersionExists(name) -> versions' = Append(versions, VersionCreate(name))
      [] OTHER -> FALSE

(* version_init and the first refresh, or the one asked for.  The          *)
(* directory is not made, or it is and its build/fwbuild does not have the *)
(* architecture, or what refresh brings decides.                           *)
VersionInit(k, e, arch) ==
    \/ UNCHANGED <<disk, at>>
    \/ Makes(e.dir, {}) /\ UNCHANGED at
    \/ /\ <<"build">> \in Inside(e.dir)
       /\ \/ \E new \in RefreshStops(e, arch) : Makes(e.dir, new) /\ UNCHANGED at
          \/ /\ \E new \in {{}, Refreshed(e, arch)} : Makes(e.dir, new)
             /\ at' = [version |-> k, arch |-> arch, project |-> <<>>]

(* version WORD ARCH [refresh] *)
Entry(name) == Min({i \in DOMAIN versions' : versions'[i].name = VersionName(name)})
Version(word, arch) ==
    LET name == FixName(word)
    IN /\ running /\ at = Outside
       /\ VersionGet(name)
       /\ VersionInit(Entry(name), versions'[Entry(name)], arch)
       /\ UNCHANGED running

AtVersion == at.version # 0 /\ at.project = <<>>
AtProject == at.version # 0 /\ at.project # <<>>
Current == versions[at.version]

(* The refresh of a version, at its prompt. *)
VersionRefresh ==
    /\ AtVersion
    /\ \E new \in RefreshStops(Current, at.arch) : Makes(Current.dir, new)
    /\ UNCHANGED <<versions, at, running>>

(* version_build checks out the version itself, in the version, and lets   *)
(* the script of build make what it makes.                                 *)
VersionBuild ==
    /\ AtVersion
    /\ \E new \in SUBSET ({LastComponent(SvnPath(Current.name))} \cup ByScript) : Makes(Current.dir, new)
    /\ UNCHANGED <<versions, at, running>>

(* project_get, which does not fix the name. *)
ProjectGet(word) ==
    /\ word \in Current.projects \/ HasProject(Current.name, word)
    /\ versions' = [versions EXCEPT ![at.version].projects = @ \cup {word}]

(* project WORD [refresh]: the sources are there or are checked out, and   *)
(* even then the environment may be refused (project_init).                *)
Project(word) ==
    LET f == FixName(word)
    IN /\ AtVersion /\ ProjectGet(word)
       /\ \E new \in {{}, {f}} :
             /\ Makes(Current.dir, new)
             /\ \/ UNCHANGED at
                \/ f \in Inside(Current.dir) \cup new /\ at' = [at EXCEPT !.project = word]
       /\ UNCHANGED running

(* The refresh of a project, from the version's directory. *)
ProjectRefresh ==
    /\ AtProject
    /\ \E new \in {{}, {FixName(at.project)}} : Makes(Current.dir, new)
    /\ UNCHANGED <<versions, at, running>>

(* mkdir -p, at both prompts, of a path anywhere below ROOT_DIR; it may    *)
(* fail after the first component.                                         *)
Mkdir(path) ==
    /\ at.version # 0
    /\ \E new \in {{}, {path[i] : i \in 2 .. Len(path)}} :
          /\ Makes(path[1], new)
          /\ byHand' = byHand \cup ({<<path[1]>>} \ {<<d>> : d \in DOMAIN disk})
                              \cup {<<path[1], s>> : s \in new \ Inside(path[1])}
    /\ UNCHANGED <<versions, at, running>>

(* exit and end. *)
Exit ==
    /\ at # Outside
    /\ at' \in {Outside} \cup IF at.project = <<>> THEN {} ELSE {[at EXCEPT !.project = <<>>]}
    /\ UNCHANGED <<versions, running, disk>>

Next ==
    \/ \E p \in MkdirPaths : Mkdir(p)
    \/ /\ \/ Start \/ Stop \/ Exit
          \/ \E w \in VersionWords, a \in Archs : Version(w, a)
          \/ \E w \in ProjectWords : Project(w)
          \/ VersionRefresh \/ VersionBuild \/ ProjectRefresh
       /\ UNCHANGED byHand

Spec == Init /\ [][Next]_vars

-----------------------------------------------------------------------------
(* Of the ways to write one version, only one that svn would write so too  *)
(* is in the list, whichever way it came there: typed, with slashes at the *)
(* end or without, or found as a directory that no mkdir line made.  A     *)
(* second entry would have projects and an architecture of its own for the *)
(* same sources, as those have that are typed with a slash doubled or in   *)
(* front, which mk_fix_name leaves.  And no two entries share a directory. *)
Plain(name) == SvnPath(name) = FixName(name)
NoTwins ==
    \A i, j \in DOMAIN versions :
        LET a == versions[i]
            b == versions[j]
        IN i # j =>
             /\ a.dir # b.dir
             /\ Plain(a.name) /\ Plain(b.name) /\ SvnPath(a.name) = SvnPath(b.name)
                   => <<a.dir>> \in byHand \/ <<b.dir>> \in byHand

(* A directory gives its entry back when the next process reads it: the    *)
(* name, the directory and the row of version_attrs that is found by the   *)
(* name; and it has no other project than those of the entry and what the  *)
(* program itself put there: the trees of refresh, what build checks out   *)
(* and makes, and the directories of mkdir lines.                          *)
AlsoMade(e) ==
    {<<"build">>, LastComponent(SvnPath(e.name))} \cup ByScript
        \cup {FixName(p) : p \in e.projects} \cup UNION {OsDir(e.attr, a) : a \in Archs}
Rebuilt ==
    \A i \in DOMAIN versions :
        LET e == versions[i]
        IN /\ VersionCreate(e.dir) = [e EXCEPT !.projects = {}]
           /\ e.dir \in Visible(DOMAIN disk) =>
                 \A s \in Visible(disk[e.dir]) :
                    s \in e.projects \cup AlsoMade(e) \/ <<e.dir, s>> \in byHand
============================================================================
