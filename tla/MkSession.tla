----------------------------- MODULE MkSession -----------------------------
(***************************************************************************)
(* The interactive session of mksh: one process, one vty, whose prompt is  *)
(* at a node of the command tree (ENABLE, VERSION, PROJECT, PRO_CONF).     *)
(* Entering a node is not only a change of vty->node: the process changes  *)
(* its working directory, sets environment variables for the build, fills  *)
(* the registry of versions and projects and checks sources out.  Leaving  *)
(* has to undo exactly that, with chdir("..") and unsetenv only.           *)
(*                                                                         *)
(* One action is one typed line whose handler changes state, from dispatch *)
(* to return (the handlers run to completion; there is one thread).  The   *)
(* lines that change none of the variables below (pwd, env, ls, show ...,  *)
(* ping, traceroute, password, patch, make ..., a rejected line) are       *)
(* stuttering steps.  What the outside world answers (svn, mkdir, rsync,   *)
(* ./configure) is chosen nondeterministically.                            *)
(*                                                                         *)
(* Sources: src/cmd/cmd_tool.c, src/cmd/mk.c, src/cmd/mk.h, src/vtysh.c,   *)
(* src/vtysh_main.c, src/cmd/cmd_common.c.                                 *)
(***************************************************************************)
EXTENDS Naturals, Sequences, SequencesExt

CONSTANTS
    Names,        \* names of directories and files, one path component each
    Versions,     \* the version names a user types
    Projects,     \* the project names a user types: <<"a">> is a, <<"a","b">> is a/b
    Archs,        \* the tokens a user types for the architecture
    Family,       \* Archs -> {"3602", "3609"}: the list of mk.h the token occurs in
    FwArgs,       \* Names -> SUBSET {"3602", "3609"}: the lists its build/fwbuild holds
    VersionAttr,  \* Names -> {"none", "3602", "appctl"}: the row of version_attrs
    ProjectAttr,  \* Projects -> {"none", "fcms", "kernel", "configured"}
    Repo,         \* Names -> set of paths under that version in the svn server
    MkdirArgs,    \* the words a user gives to mkdir -p: how far up, then a path
    InitialTrees, \* the file systems the first process may find
    UserVars,     \* build variables that the user's own environment defines
    LaunchDir     \* where the process is started

Path == Seq(Names)

(* ROOT_DIR and its parent; the path <<>> is "/". *)
Home == <<"home", "Bane">>
Root == <<"home", "Bane", "src">>
NoName == "none"

(* Components that are plain files: a scan skips them, chdir refuses them. *)
Files == {"fwbuild", ".config"}

(* Variables version_appctl_init_env and version_3602_init_env export. *)
Vars3602   == {"SRC_ROOT", "TARGET_ROOT", "INSTALL_ROOT", "SNMPLIB",
               "INCLUDEDIR", "FW_PLATFORM", "THEMIS_KERNEL_DIR"}
VarsAppctl == {"SRC_ROOT", "TARGET_ROOT", "INSTALL_ROOT", "SNMPLIB", "CFLAGS",
               "GW_PLATFORM", "COMPILE_ROOT", "COMPILE_INCLUDE_DIR",
               "COMPILE_LIB_DIR", "LD_LIBRARY_PATH"}
VarsCross  == {"CROSS", "CROSS_HOST"}
VarsFcms   == {"CLI_ROOT"}
EnvVars    == Vars3602 \cup VarsAppctl \cup VarsCross \cup VarsFcms

(* Whose value a variable holds: nobody's, the user's, or that of the      *)
(* version and architecture (or version and project) it was computed from. *)
Unset   == <<>>
UserSet == <<"user">>

ASSUME ConstantsAssumption ==
    /\ NoName \notin Names /\ {"home", "Bane", "src", "build", "os"} \subseteq Names
    /\ Files \subseteq Names
    /\ Versions \subseteq Names
    /\ Projects \subseteq Path \ {<<>>}
    /\ NoName \notin Archs
    /\ Family \in [Archs -> {"3602", "3609"}]
    /\ FwArgs \in [Names -> SUBSET {"3602", "3609"}]
    /\ VersionAttr \in [Names -> {"none", "3602", "appctl"}]
    /\ ProjectAttr \in [Projects -> {"none", "fcms", "kernel", "configured"}]
    /\ \A v \in Names : Repo[v] \subseteq Path
    /\ MkdirArgs \subseteq [up : Nat, path : Path]
    /\ \A w \in MkdirArgs : \A i \in DOMAIN w.path : w.path[i] \notin Files
    /\ \A t \in InitialTrees : t \subseteq Path
    /\ UserVars \subseteq EnvVars
    /\ LaunchDir \in Path

VARIABLES
    node,      \* vty->node, or "DOWN" when no process runs
    index,     \* vty->index: NULL, a version_inf or a project_inf
    cwd,       \* the working directory of the process
    env,       \* EnvVars -> owner of the value
    crossPath, \* how often ":/opt/crossarm/bin" was appended to PATH
    arch,      \* vi->arch of every version
    known,     \* the list `versions'
    projs,     \* vi->projects of every version
    fs,        \* the directories and files that exist
    byHand     \* history: the directories in ROOT_DIR this process's mkdir lines made

session  == <<node, index>>
exports  == <<env, crossPath>>
registry == <<known, projs>>
vars     == <<node, index, cwd, env, crossPath, arch, known, projs, fs, byHand>>

-----------------------------------------------------------------------------
(* Paths, checkouts and the environment *)

VersionIndex(v)    == [ver |-> v, proj |-> <<>>]
ProjectIndex(v, p) == [ver |-> v, proj |-> p]
NoIndex            == VersionIndex(NoName)

(* version_src_root_dir, and the chdir target of version_init. *)
VersionDir(v) == Append(Root, v)

(* chdir(".."): "/" is its own parent. *)
Parent(d) == IF d = <<>> THEN d ELSE SubSeq(d, 1, Len(d) - 1)

IsDir(f, d) == d \in f /\ (d = <<>> \/ Last(d) \notin Files)

(* chdir(p) with the result ignored: a failed call stays where it was. *)
Chdir(f, d, p) == IF IsDir(f, d \o p) THEN d \o p ELSE d

(* svn co URL/v/sub, run in d: the tree lands under the last component. *)
Basename(v, sub) == IF sub = <<>> THEN v ELSE Last(sub)
Checkout(v, sub, d) ==
    LET top == Append(d, Basename(v, sub))
        below == {r \in Repo[v] : IsPrefix(sub, r)}
    IN {top} \cup {top \o SubSeq(r, Len(sub) + 1, Len(r)) : r \in below}

(* What svn co may answer on the tree f: an error after nothing or after   *)
(* the empty top directory, or the whole tree when the server has it.      *)
SvnCo(v, sub, d, f) ==
    {[ok |-> FALSE, fs |-> f],
     [ok |-> FALSE, fs |-> f \cup {Append(d, Basename(v, sub))}]}
    \cup {[ok |-> TRUE, fs |-> f \cup Checkout(v, s, d)] :
             s \in {sub} \cap (Repo[v] \cup {<<>>})}

(* The directory k times ".." leads to from d. *)
Ancestor(d, k) == SubSeq(d, 1, IF k <= Len(d) THEN Len(d) - k ELSE 0)

(* mkdir -p p in d. *)
MkdirP(d, p) == {d \o SubSeq(p, 1, i) : i \in 1..Len(p)}

SetAll(e, S, owner) == [x \in EnvVars |-> IF x \in S THEN owner ELSE e[x]]

UserEnv == [x \in EnvVars |-> IF x \in UserVars THEN UserSet ELSE Unset]

IsArmAppctl(v, a) == VersionAttr[v] = "appctl" /\ a = "arm_32"

(* version_3602_init_env, version_appctl_init_env: what they set ... *)
VersionVars(v, a) ==
    CASE VersionAttr[v] = "3602"   -> Vars3602
      [] VersionAttr[v] = "appctl" ->
            IF a = "arm_32" THEN VarsAppctl \cup VarsCross ELSE VarsAppctl
      [] VersionAttr[v] = "none"   -> {}

(* ... and what version_3602_finit_env, version_appctl_finit_env unset. *)
(* Slip: CROSS and CROSS_HOST forgotten (EnvironmentOfNode). *)
VersionUnsetVarsNoCross(v) ==
    CASE VersionAttr[v] = "3602"   -> Vars3602
      [] VersionAttr[v] = "appctl" -> VarsAppctl
      [] VersionAttr[v] = "none"   -> {}
VersionUnsetVars(v) ==
    CASE VersionAttr[v] = "3602"   -> Vars3602
      [] VersionAttr[v] = "appctl" -> VarsAppctl \cup VarsCross
      [] VersionAttr[v] = "none"   -> {}

InitEnv(e, v, a)    == SetAll(e, VersionVars(v, a), <<v, a>>)
FinitEnv(e, v)      == SetAll(e, VersionUnsetVars(v), Unset)
AppendPath(n, v, a) == IF IsArmAppctl(v, a) THEN n + 1 ELSE n
(* Slip: the suffix is cut without looking at the architecture (Typed). *)
CutPathAlways(n, v, a) == IF VersionAttr[v] = "appctl" THEN n - 1 ELSE n
CutPath(n, v, a)    == IF IsArmAppctl(v, a) THEN 0 ELSE n

ProjectVars(p) == IF ProjectAttr[p] = "fcms" THEN VarsFcms ELSE {}

-----------------------------------------------------------------------------
(* The version and project objects *)

(* version_arch_invalid: greps build/fwbuild of the current directory.     *)
(* Slip: the build directory is not looked at (DirectoryOfNode). *)
ArchInvalidNoGrep(f, v, a) == Family[a] \notin FwArgs[v]
ArchInvalid(f, v, a) ==
    \/ ~IsDir(f, Append(VersionDir(v), "build"))
    \/ Append(Append(VersionDir(v), "build"), "fwbuild") \notin f
    \/ Family[a] \notin FwArgs[v]

(* The refresh of the attribute: the os tree, then rsync to INSTALL_ROOT.  *)
AttrRefresh(v, d, e, f) ==
    UNION {{[ok |-> ok, fs |-> r.fs] :
              ok \in IF r.ok /\ e["INSTALL_ROOT"] # Unset THEN BOOLEAN ELSE {FALSE}} :
           r \in SvnCo(v, <<"os">>, d, f)}

(* version_refresh: the build tree first, then the attribute's part. *)
VersionRefresh(v, d, e, f) ==
    UNION {IF r.ok /\ VersionAttr[v] # "none" THEN AttrRefresh(v, d, e, r.fs) ELSE {r} :
           r \in SvnCo(v, <<"build">>, d, f)}

(* The init_env of a project attribute, run in d: nothing that can fail,   *)
(* a configure script or a chmod, or a .config copied when it is missing.  *)
ProjectInitEnv(p, d, f) ==
    LET config == Append(d, ".config")
        may == IF \/ ProjectAttr[p] \in {"none", "fcms"}
                  \/ ProjectAttr[p] = "kernel" /\ config \in f
               THEN {TRUE} ELSE BOOLEAN
    IN {[ok |-> ok, fs |-> IF ok /\ ProjectAttr[p] = "kernel" THEN f \cup {config} ELSE f] :
          ok \in may}

-----------------------------------------------------------------------------
(* Start of a process: all_versions_init scans ROOT_DIR, two levels deep   *)

Entries(f, d) == {n \in Names \ Files : Append(d, n) \in f}

NoProcess ==
    /\ node' = "DOWN" /\ index' = NoIndex
    /\ cwd' = LaunchDir /\ env' = UserEnv /\ crossPath' = 0
    /\ arch' = [v \in Names |-> NoName]
    /\ known' = {} /\ projs' = [v \in Names |-> {}]
    /\ byHand' = {}

Init ==
    /\ node = "DOWN" /\ index = NoIndex
    /\ cwd = LaunchDir /\ env = UserEnv /\ crossPath = 0
    /\ arch = [v \in Names |-> NoName]
    /\ known = {} /\ projs = [v \in Names |-> {}]
    /\ fs \in InitialTrees
    /\ byHand = {}

(* for_all_dirs leaves the process in the parent of ROOT_DIR.  When        *)
(* ROOT_DIR cannot be opened it returns before its first chdir.            *)
Start ==
    /\ node = "DOWN"
    /\ node' = "ENABLE"
    /\ known' = Entries(fs, Root)
    /\ projs' = [v \in Names |->
                    {<<n>> : n \in IF v \in known' THEN Entries(fs, VersionDir(v)) ELSE {}}]
    /\ cwd' = IF IsDir(fs, Root) THEN Home ELSE LaunchDir
    /\ UNCHANGED <<index, env, crossPath, arch, fs>>

(* quit is a command of ENABLE_NODE only ... *)
Quit == node = "ENABLE" /\ NoProcess /\ UNCHANGED fs

(* ... but end of file on the terminal ends the process at any prompt. *)
Eof == node # "DOWN" /\ NoProcess /\ UNCHANGED fs

-----------------------------------------------------------------------------
(* ENABLE_NODE: version WORD ARCH [refresh] *)

(* version_get: a version the list has not is created if svn knows it.     *)
(* Slip: the version is not put in the list (RegistryCoversDisk). *)
VersionGetUnlisted(v) == UNCHANGED registry
VersionGet(v) == known' = known \cup {v} /\ UNCHANGED projs

(* mkdir -p, then chdir: on failure version_init returns where it was.     *)
VersionDirFails(v) ==
    /\ ~IsDir(fs, VersionDir(v))
    /\ UNCHANGED <<node, index, cwd, env, crossPath, arch, fs>>

(* The architecture is refused after the chdir, and nothing moves back. *)
VersionArchFails(v, a) ==
    LET f == fs \cup MkdirP(<<>>, VersionDir(v))
    IN /\ ArchInvalid(f, v, a)
       /\ cwd' = VersionDir(v)
       /\ fs' = f
       /\ UNCHANGED <<node, index, env, crossPath, arch>>

(* version_init succeeded; a refresh, asked for or needed, fails: finit.   *)
(* Slip: no finit (EnvironmentOfNode). *)
VersionRefreshFailsNoFinit(v, a, refresh) ==
    LET f == fs \cup MkdirP(<<>>, VersionDir(v))
    IN /\ ~ArchInvalid(f, v, a)
       /\ refresh \/ ~IsDir(f, Append(VersionDir(v), "build"))
       /\ \E r \in VersionRefresh(v, VersionDir(v), InitEnv(env, v, a), f) : ~r.ok /\ fs' = r.fs
       /\ env' = InitEnv(env, v, a)
       /\ crossPath' = AppendPath(crossPath, v, a)
       /\ arch' = [arch EXCEPT ![v] = a]
       /\ cwd' = VersionDir(v)
       /\ UNCHANGED session
VersionRefreshFails(v, a, refresh) ==
    LET e == InitEnv(env, v, a)
        f == fs \cup MkdirP(<<>>, VersionDir(v))
    IN /\ ~ArchInvalid(f, v, a)
       /\ refresh \/ ~IsDir(f, Append(VersionDir(v), "build"))
       /\ \E r \in VersionRefresh(v, VersionDir(v), e, f) : ~r.ok /\ fs' = r.fs
       /\ env' = FinitEnv(e, v)
       /\ crossPath' = CutPath(AppendPath(crossPath, v, a), v, a)
       /\ arch' = [arch EXCEPT ![v] = NoName]
       /\ cwd' = Parent(VersionDir(v))
       /\ UNCHANGED session

VersionEnters(v, a, refresh) ==
    LET e == InitEnv(env, v, a)
        f == fs \cup MkdirP(<<>>, VersionDir(v))
    IN /\ ~ArchInvalid(f, v, a)
       /\ IF refresh \/ ~IsDir(f, Append(VersionDir(v), "build"))
          THEN \E r \in VersionRefresh(v, VersionDir(v), e, f) : r.ok /\ fs' = r.fs
          ELSE fs' = f
       /\ env' = e
       /\ crossPath' = AppendPath(crossPath, v, a)
       /\ arch' = [arch EXCEPT ![v] = a]
       /\ cwd' = VersionDir(v)
       /\ index' = VersionIndex(v)
       /\ node' = "VERSION"

GetVersion(v, a, refresh) ==
    /\ node = "ENABLE"
    /\ VersionGet(v)
    /\ \/ VersionDirFails(v)
       \/ VersionArchFails(v, a)
       \/ VersionRefreshFails(v, a, refresh)
       \/ VersionEnters(v, a, refresh)

-----------------------------------------------------------------------------
(* VERSION_NODE *)

(* version_finit: unset the variables, forget the architecture, chdir(".."). *)
(* Slip: the architecture is forgotten before finit_env reads it (EnvironmentOfNode). *)
VersionFinitArchFirst(v, d, e) ==
    /\ arch' = [arch EXCEPT ![v] = NoName]
    /\ env' = FinitEnv(e, v)
    /\ crossPath' = CutPath(crossPath, v, arch'[v])
    /\ cwd' = Parent(d)
VersionFinit(v, d, e) ==
    /\ env' = FinitEnv(e, v)
    /\ crossPath' = CutPath(crossPath, v, arch[v])
    /\ arch' = [arch EXCEPT ![v] = NoName]
    /\ cwd' = Parent(d)

(* Slip: vty->index keeps its version_inf (Typed). *)
VersionExitKeepsIndex ==
    /\ node = "VERSION"
    /\ VersionFinit(index.ver, cwd, env)
    /\ node' = "ENABLE"
    /\ UNCHANGED <<index, known, projs, fs>>
VersionExit ==
    /\ node = "VERSION"
    /\ VersionFinit(index.ver, cwd, env)
    /\ node' = "ENABLE" /\ index' = NoIndex
    /\ UNCHANGED <<known, projs, fs>>

VersionCmdRefresh ==
    /\ node = "VERSION"
    /\ \E r \in VersionRefresh(index.ver, cwd, env, fs) : fs' = r.fs
    /\ UNCHANGED <<node, index, cwd, env, crossPath, arch, known, projs>>

(* version_build: check the whole version out here, whatever comes of it,  *)
(* then chdir("build"), ./fwbuild, chdir("../"), none of them checked.     *)
VersionBuild ==
    /\ node = "VERSION"
    /\ \E r \in SvnCo(index.ver, <<>>, cwd, fs) :
          /\ fs' = r.fs
          /\ cwd' = Parent(Chdir(r.fs, cwd, <<"build">>))
    /\ UNCHANGED <<node, index, env, crossPath, arch, known, projs>>

(* mkdir -p WORD, at the version's or the project's prompt.  Any word goes *)
(* to mkdir: ../v3 is up = 1, and an absolute path has an up that reaches  *)
(* "/" from anywhere.  mkdir may stop part way.                            *)
SystemMkdir(w) ==
    /\ node \in {"VERSION", "PROJECT"}
    /\ \E n \in 0 .. Len(w.path) :
          LET made == MkdirP(Ancestor(cwd, w.up), SubSeq(w.path, 1, n))
          IN /\ fs' = fs \cup made
             /\ byHand' = byHand \cup {v \in Names : VersionDir(v) \in made \ fs}
    /\ UNCHANGED <<node, index, cwd, env, crossPath, arch, known, projs>>

(* project_get, then project_init: the sources are checked out when asked  *)
(* for or missing; an error of svn leaves before the chdir.                *)
(* Slip: the result of svn is ignored (DirectoryOfNode). *)
ProjectSourcesUnchecked(v, p, refresh) ==
    IF refresh \/ cwd \o p \notin fs
    THEN {[ok |-> TRUE, fs |-> r.fs] : r \in SvnCo(v, p, cwd, fs)}
    ELSE {[ok |-> TRUE, fs |-> fs]}
ProjectSources(v, p, refresh) ==
    IF refresh \/ cwd \o p \notin fs
    THEN SvnCo(v, p, cwd, fs)
    ELSE {[ok |-> TRUE, fs |-> fs]}

ProjectCheckoutFails(v, p, refresh) ==
    /\ \E r \in ProjectSources(v, p, refresh) : ~r.ok /\ fs' = r.fs
    /\ UNCHANGED <<node, index, cwd, env>>

(* After the unchecked chdir, init_env fails and chdir("..") takes it back. *)
(* Slip: no way back (DirectoryOfNode). *)
ProjectInitFailsStays(v, p, refresh) ==
    /\ \E r \in ProjectSources(v, p, refresh) :
          LET d == Chdir(r.fs, cwd, p)
          IN /\ r.ok
             /\ \E i \in ProjectInitEnv(p, d, r.fs) : ~i.ok /\ fs' = i.fs
             /\ cwd' = d
    /\ UNCHANGED <<node, index, env>>
ProjectInitFails(v, p, refresh) ==
    /\ \E r \in ProjectSources(v, p, refresh) :
          LET d == Chdir(r.fs, cwd, p)
          IN /\ r.ok
             /\ \E i \in ProjectInitEnv(p, d, r.fs) : ~i.ok /\ fs' = i.fs
             /\ cwd' = Parent(d)
    /\ UNCHANGED <<node, index, env>>

ProjectEnters(v, p, refresh) ==
    /\ \E r \in ProjectSources(v, p, refresh) :
          LET d == Chdir(r.fs, cwd, p)
          IN /\ r.ok
             /\ \E i \in ProjectInitEnv(p, d, r.fs) : i.ok /\ fs' = i.fs
             /\ cwd' = d
    /\ env' = SetAll(env, ProjectVars(p), <<v, Last(p)>>)
    /\ index' = ProjectIndex(v, p)
    /\ node' = "PROJECT"

GetProject(p, refresh) ==
    LET v == index.ver
    IN /\ node = "VERSION"
       /\ projs' = [projs EXCEPT ![v] = @ \cup {p}]
       /\ \/ ProjectCheckoutFails(v, p, refresh)
          \/ ProjectInitFails(v, p, refresh)
          \/ ProjectEnters(v, p, refresh)
       /\ UNCHANGED <<crossPath, arch, known>>

-----------------------------------------------------------------------------
(* PROJECT_NODE and PRO_CONF_NODE *)

(* project_finit: chdir("..") and the finit_env of the attribute. *)
ProjectFinitDir == Parent(cwd)
(* Slip: CLI_ROOT stays (ImplementsWorkspace). *)
ProjectFinitEnvSkipped(p) == env
ProjectFinitEnv(p) == SetAll(env, ProjectVars(p), Unset)

ProjectExit ==
    /\ node = "PROJECT"
    /\ cwd' = ProjectFinitDir
    /\ env' = ProjectFinitEnv(index.proj)
    /\ index' = VersionIndex(index.ver)
    /\ node' = "VERSION"
    /\ UNCHANGED <<crossPath, arch, known, projs, fs>>

(* project_end runs the finit of the project, then that of its version. *)
(* Slip: only the prompt changes (DirectoryOfNode). *)
ProjectEndNodeOnly ==
    /\ node = "PROJECT"
    /\ node' = "ENABLE" /\ index' = NoIndex
    /\ UNCHANGED <<cwd, env, crossPath, arch, known, projs, fs>>
ProjectEnd ==
    /\ node = "PROJECT"
    /\ VersionFinit(index.ver, ProjectFinitDir, ProjectFinitEnv(index.proj))
    /\ node' = "ENABLE" /\ index' = NoIndex
    /\ UNCHANGED <<known, projs, fs>>

(* project_cmd_refresh: chdir(".."), svn co, chdir(name), none checked. *)
ProjectCmdRefresh ==
    /\ node = "PROJECT"
    /\ \E r \in SvnCo(index.ver, index.proj, Parent(cwd), fs) :
          /\ fs' = r.fs
          /\ cwd' = Chdir(r.fs, Parent(cwd), index.proj)
    /\ UNCHANGED <<node, index, env, crossPath, arch, known, projs>>

ProjectConf ==
    /\ node = "PROJECT"
    /\ node' = "PRO_CONF"
    /\ UNCHANGED <<index, cwd, env, crossPath, arch, known, projs, fs>>

(* kernel-config-file WORD: copies a file of the directory to .config. *)
KernelConfFile ==
    /\ node = "PRO_CONF"
    /\ ProjectAttr[index.proj] = "kernel"
    /\ fs' = fs \cup {Append(cwd, ".config")}
    /\ UNCHANGED <<node, index, cwd, env, crossPath, arch, known, projs>>

ProConfExit ==
    /\ node = "PRO_CONF"
    /\ node' = "PROJECT"
    /\ UNCHANGED <<index, cwd, env, crossPath, arch, known, projs, fs>>

-----------------------------------------------------------------------------
Next ==
    \/ Quit \/ Eof
    \/ \E w \in MkdirArgs : SystemMkdir(w)
    \/ /\ \/ Start
          \/ \E v \in Versions, a \in Archs, refresh \in BOOLEAN : GetVersion(v, a, refresh)
          \/ VersionExit \/ VersionCmdRefresh \/ VersionBuild
          \/ \E p \in Projects, refresh \in BOOLEAN : GetProject(p, refresh)
          \/ ProjectExit \/ ProjectEnd \/ ProjectCmdRefresh
          \/ ProjectConf \/ KernelConfFile \/ ProConfExit
       /\ UNCHANGED byHand

Spec == Init /\ [][Next]_vars

-----------------------------------------------------------------------------
(* Properties *)

(* The values version_init copies, a handler dereferences and finit uses   *)
(* are of these types, whatever svn and the file system answer.            *)
TypeOK ==
    /\ node \in {"DOWN", "ENABLE", "VERSION", "PROJECT", "PRO_CONF"}
    /\ index \in [ver : Versions \cup {NoName}, proj : Projects \cup {<<>>}]
    /\ cwd \in Path
    /\ env \in [EnvVars -> Seq(Names \cup Archs \cup {"user"})]
    /\ crossPath \in Nat
    /\ arch \in [Names -> Archs \cup {NoName}]
    /\ known \subseteq Names
    /\ projs \in [Names -> SUBSET Path]
    /\ fs \subseteq Path
    /\ byHand \subseteq Names

InVersion == node \in {"VERSION", "PROJECT", "PRO_CONF"}
InProject == node \in {"PROJECT", "PRO_CONF"}

(* vty->index is cast by the node alone: a handler of VERSION_NODE takes   *)
(* it for a version_inf, one of PROJECT_NODE or PRO_CONF_NODE for a        *)
(* project_inf.  So the node always tells what index points to.            *)
IndexOfNode ==
    /\ InVersion <=> index.ver # NoName
    /\ InProject <=> index.proj # <<>>

Typed == TypeOK /\ IndexOfNode

(* Names that are one component of a path and no plain file. *)
FlatNames == \A p \in Projects : Len(p) = 1 /\ p[1] \notin Files

(* The session works in the directory of its version or project, though    *)
(* every way back is a chdir("..") and no chdir of a project is checked.   *)
CwdOfNode ==
    /\ node = "VERSION" => cwd = VersionDir(index.ver)
    /\ InProject => cwd = VersionDir(index.ver) \o index.proj

(* At the ENABLE prompt the session is where it started, in ROOT_DIR or in *)
(* the directory of a version it was refused (version_init does not move   *)
(* back when the architecture is invalid), and in no project.              *)
CwdAtEnable ==
    node = "ENABLE" =>
        cwd \in {LaunchDir, Home, Root} \cup {VersionDir(v) : v \in Versions}

(* A version's architecture is set exactly while the session is in it.     *)
ArchOfNode == \A v \in Names : arch[v] # NoName <=> InVersion /\ index.ver = v

(* The variables a session must have set, and whose values they are.       *)
Expected(x) ==
    IF InVersion /\ x \in VersionVars(index.ver, arch[index.ver])
    THEN <<index.ver, arch[index.ver]>>
    ELSE IF InProject /\ x \in ProjectVars(index.proj)
    THEN <<index.ver, Last(index.proj)>>
    ELSE Unset

(* The build environment is that of the current version, architecture and  *)
(* project: nothing missing, nothing of an earlier version left behind,    *)
(* also when a refresh failed between init_env and the prompt.  Only a     *)
(* value the user brought along may stand where the session sets none.     *)
EnvOfNode ==
    \A x \in EnvVars :
        \/ env[x] = Expected(x)
        \/ env[x] = UserSet /\ Expected(x) = Unset

(* PATH carries the cross compiler's directory once in an arm version of   *)
(* the appctl branch, and not at all elsewhere: it never accumulates.      *)
PathOfNode ==
    crossPath = IF InVersion /\ IsArmAppctl(index.ver, arch[index.ver]) THEN 1 ELSE 0

(* Together: what a build finds in its environment.                        *)
EnvironmentOfNode == ArchOfNode /\ EnvOfNode /\ PathOfNode

(* In a version there is a build directory whose fwbuild knows the         *)
(* architecture: what version_build relies on when it runs                 *)
(* chdir("build"); ./fwbuild ARCH; chdir("../") without a check.           *)
BuildReady ==
    InVersion =>
        LET build == Append(VersionDir(index.ver), "build")
        IN /\ IsDir(fs, build) /\ Append(build, "fwbuild") \in fs
           /\ Family[arch[index.ver]] \in FwArgs[index.ver]

(* A project is entered only when its sources are on the disk: an svn that *)
(* fails is noticed before the prompt changes, and no refresh loses them.  *)
SourcesOfNode == InProject => IsDir(fs, VersionDir(index.ver) \o index.proj)

(* Together: where a session works, and what it finds there.               *)
DirectoryOfNode == CwdOfNode /\ CwdAtEnable /\ SourcesOfNode /\ BuildReady

(* The list of versions misses no directory below ROOT_DIR that a version  *)
(* line made, or that was there when the process began: a crash and a      *)
(* restart, whose scan knows the disk alone, loses no version that was     *)
(* ever entered.  Only a directory that this process's own mkdir lines     *)
(* made there is unlisted, until the next process lists it for a version.  *)
RegistryCoversDisk ==
    node # "DOWN" =>
        \A v \in Names \ Files : VersionDir(v) \in fs => v \in known \cup byHand

(* exit of a project goes "down to previous mode" (the help text of        *)
(* project_exit): the directory is again that of the version.              *)
ExitGoesDown ==
    [][node = "PROJECT" /\ node' = "VERSION" => cwd' = VersionDir(index.ver)]_vars

(* The prompt promises what Workspace says. *)
W == INSTANCE Workspace WITH
        Base <- Root,
        ExportingVersions <- {v \in Versions : VersionAttr[v] # "none"},
        ExportingProjects <- {p \in Projects : ProjectAttr[p] = "fcms"},
        place <- [ver  |-> index.ver,
                  arch |-> IF index.ver = NoName THEN NoName ELSE arch[index.ver],
                  proj |-> index.proj],
        dir <- IF index.ver = NoName THEN <<>> ELSE cwd,
        exported <- {env[x] : x \in EnvVars} \ {Unset, UserSet}

ImplementsWorkspace == W!Spec
=============================================================================
