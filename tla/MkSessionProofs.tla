-------------------------- MODULE MkSessionProofs --------------------------
(***************************************************************************)
(* Theorems about MkSession, for every set of versions, projects,          *)
(* architectures and every content of the svn server and the disk.         *)
(***************************************************************************)
EXTENDS MkSession, SequenceTheorems, TLAPS

Words == Names \cup Archs \cup {"user"}

-----------------------------------------------------------------------------
(* Lemmas about paths, checkouts and environments *)

(* ROOT_DIR and the directory of a version are paths, and chdir("..") from *)
(* the latter is ROOT_DIR.                                                 *)
LEMMA RootIsPath ==
    /\ Root \in Path
    /\ Home \in Path
    /\ \A v \in Names : VersionDir(v) \in Path
  BY ConstantsAssumption, SMT DEF Root, Home, Path, VersionDir

(* chdir("..") of a path is a path. *)
LEMMA ParentIsPath ==
    ASSUME NEW d \in Path PROVE Parent(d) \in Path
  <1>1. CASE d = <<>>
    BY <1>1 DEF Parent
  <1>2. CASE d # <<>>
    <2>1. Len(d) \in Nat /\ Len(d) >= 1
      BY <1>2, EmptySeq DEF Path
    <2>2. SubSeq(d, 1, Len(d) - 1) \in Seq(Names)
      BY <2>1, SubSeqProperties DEF Path
    <2> QED BY <1>2, <2>2 DEF Parent, Path
  <1> QED BY <1>1, <1>2

(* Undoing one step down: the parent of d/n is d. *)
LEMMA ParentOfAppend ==
    ASSUME NEW d \in Path, NEW n \in Names
    PROVE  Append(d, n) \in Path /\ Append(d, n) # <<>> /\ Parent(Append(d, n)) = d
  BY SMT DEF Parent, Path

(* A chdir to a relative path leads to a path. *)
LEMMA ChdirIsPath ==
    ASSUME NEW f, NEW d \in Path, NEW p \in Path
    PROVE  Chdir(f, d, p) \in Path
  BY ConcatProperties DEF Chdir, Path

(* The last component of a non-empty path is a name. *)
LEMMA LastIsName ==
    ASSUME NEW p \in Path, p # <<>> PROVE Last(p) \in Names
  BY EmptySeq, SMT DEF Last, Path

(* A checkout puts paths below the directory it runs in, its top directory *)
(* among them.                                                             *)
LEMMA CheckoutTree ==
    ASSUME NEW v \in Names, NEW sub \in Path, NEW d \in Path
    PROVE  /\ Append(d, Basename(v, sub)) \in Path
           /\ Checkout(v, sub, d) \subseteq Path
           /\ Append(d, Basename(v, sub)) \in Checkout(v, sub, d)
  <1> DEFINE top == Append(d, Basename(v, sub))
  <1>1. top \in Path
    BY LastIsName, ParentOfAppend DEF Basename
  <1>2. ASSUME NEW r \in Repo[v], IsPrefix(sub, r)
        PROVE  top \o SubSeq(r, Len(sub) + 1, Len(r)) \in Path
    <2>1. r \in Seq(Names) /\ sub \in Seq(Names)
      BY ConstantsAssumption DEF Path
    <2>2. SubSeq(r, Len(sub) + 1, Len(r)) \in Seq(Names)
      BY <2>1, SubSeqProperties, ElementOfSeq, LenProperties
    <2> QED BY <1>1, <2>2, ConcatProperties DEF Path
  <1> HIDE DEF top
  <1>3. Checkout(v, sub, d) = {top} \cup {top \o SubSeq(r, Len(sub) + 1, Len(r)) :
                                            r \in {q \in Repo[v] : IsPrefix(sub, q)}}
    BY DEF Checkout, top
  <1> QED BY <1>1, <1>2, <1>3 DEF top

(* svn only adds to the tree; when it succeeds the top directory is there. *)
LEMMA SvnCoResults ==
    ASSUME NEW v \in Names, NEW sub \in Path, NEW d \in Path, NEW f \in SUBSET Path
    PROVE  \A r \in SvnCo(v, sub, d, f) :
               /\ r.fs \subseteq Path /\ f \subseteq r.fs
               /\ r.ok => Append(d, Basename(v, sub)) \in r.fs
  <1> DEFINE top == Append(d, Basename(v, sub))
             tree == Checkout(v, sub, d)
  <1>1. top \in Path /\ tree \subseteq Path /\ top \in tree
    BY CheckoutTree
  <1> HIDE DEF top, tree
  <1>2. SUFFICES ASSUME NEW r \in SvnCo(v, sub, d, f)
                 PROVE  r.fs \subseteq Path /\ f \subseteq r.fs /\ (r.ok => top \in r.fs)
    BY DEF top
  <1>3. \/ r = [ok |-> FALSE, fs |-> f]
        \/ r = [ok |-> FALSE, fs |-> f \cup {top}]
        \/ r = [ok |-> TRUE, fs |-> f \cup tree]
    BY <1>2 DEF SvnCo, top, tree
  <1> QED BY <1>1, <1>3

LEMMA ShortPaths ==
    <<>> \in Path /\ \A n \in Names : <<n>> \in Path
  BY DEF Path

(* A refresh only adds to the tree. *)
LEMMA VersionRefreshResults ==
    ASSUME NEW v \in Names, NEW d \in Path, NEW e, NEW f \in SUBSET Path
    PROVE  \A r \in VersionRefresh(v, d, e, f) : r.fs \subseteq Path /\ f \subseteq r.fs
  <1>1. <<"build">> \in Path /\ <<"os">> \in Path
    BY ConstantsAssumption, ShortPaths
  <1>2. ASSUME NEW g \in SUBSET Path, NEW r \in AttrRefresh(v, d, e, g)
        PROVE  r.fs \subseteq Path /\ g \subseteq r.fs
    <2>1. PICK s \in SvnCo(v, <<"os">>, d, g) :
               \E ok \in IF s.ok /\ e["INSTALL_ROOT"] # Unset THEN BOOLEAN ELSE {FALSE} :
                   r = [ok |-> ok, fs |-> s.fs]
      BY <1>2 DEF AttrRefresh
    <2>2. s.fs \subseteq Path /\ g \subseteq s.fs
      BY <1>1, SvnCoResults
    <2> QED BY <2>1, <2>2
  <1>3. ASSUME NEW r \in VersionRefresh(v, d, e, f)
        PROVE  r.fs \subseteq Path /\ f \subseteq r.fs
    <2>1. PICK s \in SvnCo(v, <<"build">>, d, f) :
               r \in IF s.ok /\ VersionAttr[v] # "none" THEN AttrRefresh(v, d, e, s.fs) ELSE {s}
      BY <1>3 DEF VersionRefresh
    <2>2. s.fs \subseteq Path /\ f \subseteq s.fs
      BY <1>1, SvnCoResults
    <2>3. s.fs \in SUBSET Path
      BY <2>2
    <2>4. r \in AttrRefresh(v, d, e, s.fs) \/ r = s
      BY <2>1
    <2> QED BY <1>2, <2>2, <2>3, <2>4
  <1> QED BY <1>3

(* The init_env of a project only adds to the tree. *)
LEMMA ProjectInitEnvResults ==
    ASSUME NEW p \in Projects, NEW d \in Path, NEW f \in SUBSET Path
    PROVE  \A r \in ProjectInitEnv(p, d, f) : r.fs \subseteq Path /\ f \subseteq r.fs
  <1>1. Append(d, ".config") \in Path
    BY ConstantsAssumption, ParentOfAppend DEF Files
  <1>2. SUFFICES ASSUME NEW r \in ProjectInitEnv(p, d, f)
                 PROVE  r.fs \subseteq Path /\ f \subseteq r.fs
    OBVIOUS
  <1> DEFINE config == Append(d, ".config")
             left(ok) == IF ok /\ ProjectAttr[p] = "kernel" THEN f \cup {config} ELSE f
  <1>3. PICK ok : r = [ok |-> ok, fs |-> left(ok)]
    BY <1>2, Zenon DEF ProjectInitEnv
  <1>4. r.fs = left(ok)
    BY <1>3
  <1>5. r.fs = f \/ r.fs = f \cup {config}
    BY <1>4
  <1> QED BY <1>1, <1>5

(* mkdir -p makes paths, from whichever directory a word leads up to.      *)
LEMMA MkdirPaths ==
    ASSUME NEW d \in Path, NEW p \in Path PROVE MkdirP(d, p) \subseteq Path
  <1>1. ASSUME NEW i \in 1..Len(p) PROVE d \o SubSeq(p, 1, i) \in Path
    <2>1. SubSeq(p, 1, i) \in Seq(Names)
      BY SubSeqProperties, ElementOfSeq, LenProperties DEF Path
    <2> QED BY <2>1, ConcatProperties DEF Path
  <1> QED BY <1>1 DEF MkdirP

LEMMA AncestorIsPath ==
    ASSUME NEW d \in Path, NEW k \in Nat PROVE Ancestor(d, k) \in Path
  <1>1. d \in Seq(Names) /\ Len(d) \in Nat
    BY LenProperties DEF Path
  <1>2. \A m \in 0 .. Len(d) : SubSeq(d, 1, m) \in Seq(Names)
    BY <1>1, SubSeqProperties, ElementOfSeq
  <1>3. (IF k <= Len(d) THEN Len(d) - k ELSE 0) \in 0 .. Len(d)
    BY <1>1
  <1> QED BY <1>2, <1>3, Zenon DEF Ancestor, Path

LEMMA SystemMkdirMakes ==
    ASSUME Typed, NEW w \in MkdirArgs, SystemMkdir(w)
    PROVE  \E d \in Path, p \in Path :
               /\ fs' = fs \cup MkdirP(d, p)
               /\ byHand' = byHand \cup {v \in Names : VersionDir(v) \in MkdirP(d, p) \ fs}
               /\ MkdirP(d, p) \subseteq Path
  <1>1. w.up \in Nat /\ w.path \in Seq(Names) /\ Len(w.path) \in Nat
    BY ConstantsAssumption, LenProperties DEF Path
  <1>2. PICK n \in 0 .. Len(w.path) :
          LET made == MkdirP(Ancestor(cwd, w.up), SubSeq(w.path, 1, n))
          IN /\ fs' = fs \cup made
             /\ byHand' = byHand \cup {v \in Names : VersionDir(v) \in made \ fs}
    BY DEF SystemMkdir
  <1>3. Ancestor(cwd, w.up) \in Path
    BY <1>1, AncestorIsPath DEF Typed, TypeOK
  <1>4. SubSeq(w.path, 1, n) \in Path
    BY <1>1, <1>2, SubSeqProperties, ElementOfSeq DEF Path
  <1>5. MkdirP(Ancestor(cwd, w.up), SubSeq(w.path, 1, n)) \subseteq Path
    BY <1>3, <1>4, MkdirPaths
  <1> QED BY <1>2, <1>3, <1>4, <1>5

(* Setting or unsetting variables keeps the environment one of EnvVars. *)
Envs == [EnvVars -> Seq(Words)]

LEMMA EnvironmentTypes ==
    /\ \A e \in Envs, o \in Seq(Words) : \A S : SetAll(e, S, o) \in Envs
    /\ \A e \in Envs, v \in Names, a \in Archs :
           InitEnv(e, v, a) \in Envs /\ FinitEnv(e, v) \in Envs
    /\ UserEnv \in Envs /\ Unset \in Seq(Words)
  <1>1. \A e \in Envs, o \in Seq(Words) : \A S : SetAll(e, S, o) \in Envs
    BY DEF SetAll, Envs
  <1>2. Unset \in Seq(Words) /\ UserSet \in Seq(Words)
    BY DEF Unset, UserSet, Words
  <1>3. \A v \in Names, a \in Archs : <<v, a>> \in Seq(Words)
    BY DEF Words
  <1>4. UserEnv \in Envs
    BY <1>2 DEF UserEnv, Envs
  <1>5. \A e \in Envs, v \in Names, a \in Archs :
           InitEnv(e, v, a) \in Envs /\ FinitEnv(e, v) \in Envs
    <2> SUFFICES ASSUME NEW e \in Envs, NEW v \in Names, NEW a \in Archs
                 PROVE  InitEnv(e, v, a) \in Envs /\ FinitEnv(e, v) \in Envs
      OBVIOUS
    <2>1. SetAll(e, VersionVars(v, a), <<v, a>>) \in Envs
      BY <1>1, <1>3
    <2>2. SetAll(e, VersionUnsetVars(v), Unset) \in Envs
      BY <1>1, <1>2
    <2> QED BY <2>1, <2>2 DEF InitEnv, FinitEnv
  <1> QED BY <1>1, <1>2, <1>4, <1>5

-----------------------------------------------------------------------------
(* Types, and what vty->index points to *)

(* What the typing of the index says of a version's or a project's prompt. *)
LEMMA TypedIndex ==
    ASSUME Typed
    PROVE  /\ InVersion => index.ver \in Versions /\ index.ver \in Names
           /\ InProject => index.proj \in Projects /\ index.proj \in Path
           /\ cwd \in Path /\ fs \in SUBSET Path /\ env \in Envs
           /\ Parent(cwd) \in Path
  <1>1. index.ver \in Versions \cup {NoName} /\ index.proj \in Projects \cup {<<>>}
    BY DEF Typed, TypeOK
  <1>2. cwd \in Path /\ fs \in SUBSET Path /\ env \in Envs
    BY DEF Typed, TypeOK, Envs, Words
  <1> QED BY <1>1, <1>2, ConstantsAssumption, ParentIsPath DEF Typed, IndexOfNode

LEMMA IndexTypes ==
    /\ NoIndex \in [ver : Versions \cup {NoName}, proj : Projects \cup {<<>>}]
    /\ NoIndex.ver = NoName /\ NoIndex.proj = <<>>
    /\ \A v \in Versions :
           /\ VersionIndex(v) \in [ver : Versions \cup {NoName}, proj : Projects \cup {<<>>}]
           /\ VersionIndex(v).ver = v /\ VersionIndex(v).proj = <<>> /\ v # NoName
           /\ \A p \in Projects :
                 /\ ProjectIndex(v, p) \in [ver : Versions \cup {NoName},
                                            proj : Projects \cup {<<>>}]
                 /\ ProjectIndex(v, p).ver = v /\ ProjectIndex(v, p).proj = p /\ p # <<>>
  BY ConstantsAssumption DEF NoIndex, VersionIndex, ProjectIndex

(* The types of the build variables are kept by init_env and finit_env. *)
LEMMA PathCountTypes ==
    ASSUME NEW n \in Nat, NEW v, NEW a
    PROVE  AppendPath(n, v, a) \in Nat /\ CutPath(n, v, a) \in Nat
  BY DEF AppendPath, CutPath

LEMMA TypedInit == Init => Typed
  <1> SUFFICES ASSUME Init PROVE Typed
    OBVIOUS
  <1>1. fs \subseteq Path /\ cwd \in Path
    BY ConstantsAssumption DEF Init
  <1>2. env \in [EnvVars -> Seq(Names \cup Archs \cup {"user"})]
    BY EnvironmentTypes DEF Init, Envs, Words
  <1>3. arch \in [Names -> Archs \cup {NoName}] /\ projs \in [Names -> SUBSET Path]
    BY DEF Init
  <1> QED BY <1>1, <1>2, <1>3, IndexTypes
          DEF Init, Typed, TypeOK, IndexOfNode, InVersion, InProject

LEMMA TypedNoProcess == Typed /\ NoProcess /\ UNCHANGED fs => Typed'
  <1> SUFFICES ASSUME Typed, NoProcess, UNCHANGED fs PROVE Typed'
    OBVIOUS
  <1>1. fs' \subseteq Path /\ cwd' \in Path
    BY ConstantsAssumption DEF NoProcess, Typed, TypeOK
  <1>2. env' \in [EnvVars -> Seq(Names \cup Archs \cup {"user"})]
    BY EnvironmentTypes DEF NoProcess, Envs, Words
  <1>3. arch' \in [Names -> Archs \cup {NoName}] /\ projs' \in [Names -> SUBSET Path]
    BY DEF NoProcess
  <1> QED BY <1>1, <1>2, <1>3, IndexTypes
          DEF NoProcess, Typed, TypeOK, IndexOfNode, InVersion, InProject

LEMMA TypedStart == Typed /\ Start /\ UNCHANGED byHand => Typed'
  <1> SUFFICES ASSUME Typed, Start, UNCHANGED byHand PROVE Typed'
    OBVIOUS
  <1>1. cwd' \in Path
    BY ConstantsAssumption, RootIsPath DEF Start
  <1>2. \A d : Entries(fs, d) \subseteq Names
    BY DEF Entries
  <1>3. known' \subseteq Names
    BY <1>2 DEF Start
  <1>4. \A v : {<<n>> : n \in IF v \in known' THEN Entries(fs, VersionDir(v)) ELSE {}}
                \subseteq Path
    BY <1>2, ShortPaths
  <1>5. projs' \in [Names -> SUBSET Path]
    BY <1>4, Zenon DEF Start
  <1> QED BY <1>1, <1>3, <1>5 DEF Start, Typed, TypeOK, IndexOfNode, InVersion, InProject

LEMMA TypedGetVersion ==
    ASSUME Typed, NEW v \in Versions, NEW a \in Archs, NEW refresh \in BOOLEAN,
           GetVersion(v, a, refresh), UNCHANGED byHand
    PROVE  Typed'
  <1> DEFINE e == InitEnv(env, v, a)
             f == fs \cup MkdirP(<<>>, VersionDir(v))
  <1>1. v \in Names /\ v # NoName
    BY ConstantsAssumption
  <1>2. VersionDir(v) \in Path /\ f \in SUBSET Path /\ Parent(VersionDir(v)) \in Path
    BY <1>1, RootIsPath, ShortPaths, MkdirPaths, ParentIsPath DEF Typed, TypeOK
  <1>3. e \in Envs /\ FinitEnv(e, v) \in Envs
    BY <1>1, EnvironmentTypes DEF Typed, TypeOK, Envs, Words
  <1>4. known' \subseteq Names /\ projs' \in [Names -> SUBSET Path]
    BY <1>1 DEF GetVersion, VersionGet, Typed, TypeOK
  <1>5. \A r \in VersionRefresh(v, VersionDir(v), e, f) : r.fs \subseteq Path
    BY <1>1, <1>2, VersionRefreshResults
  <1>6. [arch EXCEPT ![v] = NoName] \in [Names -> Archs \cup {NoName}]
    BY DEF Typed, TypeOK
  <1>7. [arch EXCEPT ![v] = a] \in [Names -> Archs \cup {NoName}]
    BY DEF Typed, TypeOK
  <1>8. /\ AppendPath(crossPath, v, a) \in Nat
        /\ CutPath(AppendPath(crossPath, v, a), v, a) \in Nat
    BY PathCountTypes DEF Typed, TypeOK
  <1> HIDE DEF e, f
  <1>a. CASE VersionDirFails(v)
    BY <1>a, <1>4 DEF VersionDirFails, Typed, TypeOK, IndexOfNode, InVersion, InProject
  <1>b. CASE VersionArchFails(v, a)
    <2>1. fs' = f /\ cwd' = VersionDir(v) /\ UNCHANGED <<node, index, env, crossPath, arch>>
      BY <1>b DEF VersionArchFails, f
    <2> QED BY <2>1, <1>2, <1>4 DEF Typed, TypeOK, IndexOfNode, InVersion, InProject
  <1>c. CASE VersionRefreshFails(v, a, refresh)
    <2>1. /\ fs' \subseteq Path
          /\ env' = FinitEnv(e, v) /\ cwd' = Parent(VersionDir(v))
          /\ crossPath' = CutPath(AppendPath(crossPath, v, a), v, a)
          /\ arch' = [arch EXCEPT ![v] = NoName]
          /\ node' = node /\ index' = index
      BY <1>c, <1>5 DEF VersionRefreshFails, session, e, f
    <2> QED BY <2>1, <1>2, <1>3, <1>4, <1>6, <1>8
            DEF Typed, TypeOK, IndexOfNode, InVersion, InProject, Envs, Words
  <1>d. CASE VersionEnters(v, a, refresh)
    <2>1. /\ fs' \subseteq Path
          /\ env' = e /\ cwd' = VersionDir(v)
          /\ crossPath' = AppendPath(crossPath, v, a)
          /\ arch' = [arch EXCEPT ![v] = a]
          /\ node' = "VERSION" /\ index' = VersionIndex(v)
      BY <1>d, <1>2, <1>5 DEF VersionEnters, e, f
    <2> QED BY <2>1, <1>1, <1>2, <1>3, <1>4, <1>7, <1>8, IndexTypes
            DEF Typed, TypeOK, IndexOfNode, InVersion, InProject, Envs, Words
  <1> QED BY <1>a, <1>b, <1>c, <1>d DEF GetVersion

(* The commands of VERSION_NODE, and mkdir. *)
LEMMA TypedVersionNode ==
    ASSUME Typed,
           \/ (VersionExit \/ VersionCmdRefresh \/ VersionBuild) /\ UNCHANGED byHand
           \/ \E p \in MkdirArgs : SystemMkdir(p)
    PROVE  Typed'
  <1> USE DEF Typed, TypeOK, IndexOfNode, InVersion, InProject
  <1>1. CASE VersionExit /\ UNCHANGED byHand
    <2>1. index.ver \in Names /\ Parent(cwd) \in Path /\ FinitEnv(env, index.ver) \in Envs
      BY <1>1, TypedIndex, EnvironmentTypes, SMT DEF VersionExit, FinitEnv
    <2>2. CutPath(crossPath, index.ver, arch[index.ver]) \in Nat
      BY PathCountTypes
    <2>3. arch' \in [Names -> Archs \cup {NoName}]
      BY <1>1 DEF VersionExit, VersionFinit
    <2> QED BY <1>1, <2>1, <2>2, <2>3, IndexTypes DEF VersionExit, VersionFinit, Envs, Words
  <1>2. CASE VersionCmdRefresh /\ UNCHANGED byHand
    <2>1. \A r \in VersionRefresh(index.ver, cwd, env, fs) : r.fs \subseteq Path
      BY <1>2, TypedIndex, VersionRefreshResults DEF VersionCmdRefresh
    <2> QED BY <1>2, <2>1 DEF VersionCmdRefresh
  <1>3. CASE VersionBuild /\ UNCHANGED byHand
    <2>1. \A r \in SvnCo(index.ver, <<>>, cwd, fs) : r.fs \subseteq Path
      BY <1>3, TypedIndex, SvnCoResults, ShortPaths DEF VersionBuild
    <2>2. \A f : Parent(Chdir(f, cwd, <<"build">>)) \in Path
      BY ChdirIsPath, ParentIsPath, ShortPaths, ConstantsAssumption
    <2> QED BY <1>3, <2>1, <2>2 DEF VersionBuild
  <1>4. CASE \E p \in MkdirArgs : SystemMkdir(p)
    <2>1. fs' \subseteq Path /\ byHand' \subseteq Names
      BY <1>4, SystemMkdirMakes
    <2> QED BY <1>4, <2>1 DEF SystemMkdir
  <1> QED BY <1>1, <1>2, <1>3, <1>4

(* What a project's checkout and init_env leave on the disk. *)
LEMMA ProjectSourcesResults ==
    ASSUME Typed, node = "VERSION", NEW p \in Projects, NEW refresh \in BOOLEAN
    PROVE  \A r \in ProjectSources(index.ver, p, refresh) :
               /\ r.fs \subseteq Path /\ fs \subseteq r.fs
               /\ Chdir(r.fs, cwd, p) \in Path
               /\ \A i \in ProjectInitEnv(p, Chdir(r.fs, cwd, p), r.fs) :
                     i.fs \subseteq Path /\ fs \subseteq i.fs
  <1>1. index.ver \in Names /\ cwd \in Path /\ fs \in SUBSET Path /\ p \in Path
    BY TypedIndex, ConstantsAssumption DEF InVersion
  <1>2. SUFFICES ASSUME NEW r \in ProjectSources(index.ver, p, refresh)
                 PROVE  /\ r.fs \subseteq Path /\ fs \subseteq r.fs
                        /\ Chdir(r.fs, cwd, p) \in Path
                        /\ \A i \in ProjectInitEnv(p, Chdir(r.fs, cwd, p), r.fs) :
                              i.fs \subseteq Path /\ fs \subseteq i.fs
    OBVIOUS
  <1>3. r \in SvnCo(index.ver, p, cwd, fs) \/ r = [ok |-> TRUE, fs |-> fs]
    BY <1>2, Zenon DEF ProjectSources
  <1>4. r.fs \in SUBSET Path /\ fs \subseteq r.fs
    BY <1>1, <1>3, SvnCoResults
  <1>5. Chdir(r.fs, cwd, p) \in Path
    BY <1>1, ChdirIsPath
  <1>6. \A i \in ProjectInitEnv(p, Chdir(r.fs, cwd, p), r.fs) :
            i.fs \subseteq Path /\ r.fs \subseteq i.fs
    BY <1>4, <1>5, ProjectInitEnvResults
  <1> QED BY <1>4, <1>5, <1>6

LEMMA TypedGetProject ==
    ASSUME Typed, NEW p \in Projects, NEW refresh \in BOOLEAN, GetProject(p, refresh),
           UNCHANGED byHand
    PROVE  Typed'
  <1> USE DEF Typed, TypeOK, IndexOfNode, InVersion, InProject
  <1>1. node = "VERSION" /\ index.ver \in Versions /\ index.ver \in Names
    BY TypedIndex DEF GetProject
  <1>2. p \in Path /\ p # <<>> /\ Last(p) \in Names
    BY ConstantsAssumption, LastIsName
  <1>3. \A r \in ProjectSources(index.ver, p, refresh) :
            /\ r.fs \subseteq Path /\ Chdir(r.fs, cwd, p) \in Path
            /\ Parent(Chdir(r.fs, cwd, p)) \in Path
            /\ \A i \in ProjectInitEnv(p, Chdir(r.fs, cwd, p), r.fs) : i.fs \subseteq Path
    BY <1>1, ProjectSourcesResults, ParentIsPath
  <1>4. projs' \in [Names -> SUBSET Path] /\ UNCHANGED <<crossPath, arch, known>>
    BY <1>2 DEF GetProject
  <1>a. CASE ProjectCheckoutFails(index.ver, p, refresh)
    BY <1>a, <1>1, <1>3, <1>4 DEF ProjectCheckoutFails
  <1>b. CASE ProjectInitFails(index.ver, p, refresh)
    BY <1>b, <1>1, <1>3, <1>4 DEF ProjectInitFails
  <1>c. CASE ProjectEnters(index.ver, p, refresh)
    <2>1. fs' \subseteq Path /\ cwd' \in Path /\ node' = "PROJECT"
          /\ index' = ProjectIndex(index.ver, p)
      BY <1>c, <1>3 DEF ProjectEnters
    <2>2. <<index.ver, Last(p)>> \in Seq(Words)
      BY <1>1, <1>2 DEF Words
    <2>3. env' \in Envs
      BY <1>c, <2>2, EnvironmentTypes DEF ProjectEnters, Envs, Words
    <2> QED BY <2>1, <2>3, <1>1, <1>4, IndexTypes DEF Envs, Words
  <1> QED BY <1>a, <1>b, <1>c DEF GetProject

(* The commands of PROJECT_NODE and PRO_CONF_NODE. *)
LEMMA TypedProjectNode ==
    ASSUME Typed,
           \/ ProjectExit \/ ProjectEnd \/ ProjectCmdRefresh
           \/ ProjectConf \/ KernelConfFile \/ ProConfExit,
           UNCHANGED byHand
    PROVE  Typed'
  <1> USE DEF Typed, TypeOK, IndexOfNode, InVersion, InProject
  <1>1. Parent(cwd) \in Path /\ Parent(Parent(cwd)) \in Path
    BY TypedIndex, ParentIsPath
  <1>2. ProjectFinitEnv(index.proj) \in Envs
    BY EnvironmentTypes DEF ProjectFinitEnv, Envs, Words
  <1>3. CASE ProjectExit
    BY <1>1, <1>2, <1>3, TypedIndex, IndexTypes
       DEF ProjectExit, ProjectFinitDir, Envs, Words
  <1>4. CASE ProjectEnd
    <2>1. index.ver \in Names
      BY <1>4, TypedIndex DEF ProjectEnd
    <2>2. FinitEnv(ProjectFinitEnv(index.proj), index.ver) \in Envs
      BY <1>2, EnvironmentTypes DEF FinitEnv
    <2>3. CutPath(crossPath, index.ver, arch[index.ver]) \in Nat
      BY PathCountTypes
    <2>4. arch' \in [Names -> Archs \cup {NoName}]
      BY <1>4 DEF ProjectEnd, VersionFinit
    <2> QED BY <1>1, <1>4, <2>2, <2>3, <2>4, IndexTypes
            DEF ProjectEnd, VersionFinit, ProjectFinitDir, Envs, Words
  <1>5. CASE ProjectCmdRefresh
    <2>1. index.ver \in Names /\ index.proj \in Path /\ fs \in SUBSET Path
      BY <1>5, TypedIndex DEF ProjectCmdRefresh
    <2>2. \A r \in SvnCo(index.ver, index.proj, Parent(cwd), fs) : r.fs \subseteq Path
      BY <1>1, <2>1, SvnCoResults
    <2>3. \A f : Chdir(f, Parent(cwd), index.proj) \in Path
      BY <1>1, <2>1, ChdirIsPath
    <2> QED BY <1>5, <2>2, <2>3 DEF ProjectCmdRefresh
  <1>6. CASE ProjectConf
    BY <1>6 DEF ProjectConf
  <1>7. CASE KernelConfFile
    <2>1. Append(cwd, ".config") \in Path
      BY ConstantsAssumption, ParentOfAppend DEF Files
    <2> QED BY <1>7, <2>1 DEF KernelConfFile
  <1>8. CASE ProConfExit
    BY <1>8 DEF ProConfExit
  <1> QED BY <1>3, <1>4, <1>5, <1>6, <1>7, <1>8

LEMMA TypedNext == Typed /\ [Next]_vars => Typed'
  <1> SUFFICES ASSUME Typed, [Next]_vars PROVE Typed'
    OBVIOUS
  <1>1. CASE Start /\ UNCHANGED byHand
    BY <1>1, TypedStart
  <1>2. CASE Quit
    BY <1>2, TypedNoProcess DEF Quit
  <1>3. CASE Eof
    BY <1>3, TypedNoProcess DEF Eof
  <1>4. CASE /\ \E v \in Versions, a \in Archs, refresh \in BOOLEAN : GetVersion(v, a, refresh)
             /\ UNCHANGED byHand
    BY <1>4, TypedGetVersion
  <1>5. CASE \/ (VersionExit \/ VersionCmdRefresh \/ VersionBuild) /\ UNCHANGED byHand
             \/ \E w \in MkdirArgs : SystemMkdir(w)
    BY <1>5, TypedVersionNode
  <1>6. CASE /\ \E p \in Projects, refresh \in BOOLEAN : GetProject(p, refresh)
             /\ UNCHANGED byHand
    BY <1>6, TypedGetProject
  <1>7. CASE /\ \/ ProjectExit \/ ProjectEnd \/ ProjectCmdRefresh
                \/ ProjectConf \/ KernelConfFile \/ ProConfExit
             /\ UNCHANGED byHand
    BY <1>7, TypedProjectNode
  <1>8. CASE UNCHANGED vars
    BY <1>8 DEF vars, Typed, TypeOK, IndexOfNode, InVersion, InProject
  <1> QED BY <1>1, <1>2, <1>3, <1>4, <1>5, <1>6, <1>7, <1>8 DEF Next

(* Every state of a session is well typed, and vty->node always tells what *)
(* vty->index points to: no handler of cmd_tool.c can mistake a project    *)
(* for a version, or dereference the NULL of ENABLE_NODE.                  *)
THEOREM TypeCorrect == Spec => []Typed
  <1>1. Init => Typed
    BY TypedInit
  <1>2. Typed /\ [Next]_vars => Typed'
    BY TypedNext
  <1> QED BY <1>1, <1>2, PTL DEF Spec

-----------------------------------------------------------------------------
(* The build environment belongs to the node *)

(* What init_env of a version sets, its finit_env unsets, and no variable  *)
(* of a project is among them.                                             *)
LEMMA VariableSets ==
    ASSUME NEW v \in Names, NEW a
    PROVE  /\ VersionVars(v, a) \subseteq VersionUnsetVars(v)
           /\ \A p : ProjectVars(p) \cap VersionUnsetVars(v) = {}
  <1>1. VersionAttr[v] \in {"none", "3602", "appctl"}
    BY ConstantsAssumption
  <1>2. VersionVars(v, a) \subseteq VersionUnsetVars(v)
    BY <1>1 DEF VersionVars, VersionUnsetVars
  <1>3. "CLI_ROOT" \notin VersionUnsetVars(v)
    BY <1>1 DEF VersionUnsetVars, Vars3602, VarsAppctl, VarsCross
  <1> QED BY <1>2, <1>3 DEF ProjectVars, VarsFcms

LEMMA SetAllAt ==
    ASSUME NEW e, NEW S, NEW o, NEW x \in EnvVars
    PROVE  SetAll(e, S, o)[x] = IF x \in S THEN o ELSE e[x]
  BY DEF SetAll

LEMMA EnvInvInit == Init => EnvironmentOfNode
  BY IndexTypes, ConstantsAssumption, SMT
     DEF Init, EnvironmentOfNode, ArchOfNode, EnvOfNode, PathOfNode, InVersion, InProject,
         Expected, UserEnv

LEMMA EnvInvNoProcess == NoProcess => EnvironmentOfNode'
  BY IndexTypes, ConstantsAssumption, SMT
     DEF NoProcess, EnvironmentOfNode, ArchOfNode, EnvOfNode, PathOfNode, InVersion, InProject,
         Expected, UserEnv

(* A step that stays at its level and leaves the environment alone. *)
LEMMA EnvInvStutter ==
    ASSUME EnvironmentOfNode, UNCHANGED <<index, env, crossPath, arch>>,
           InVersion' = InVersion, InProject' = InProject
    PROVE  EnvironmentOfNode'
  BY DEF EnvironmentOfNode, ArchOfNode, EnvOfNode, PathOfNode, Expected

LEMMA EnvInvGetVersion ==
    ASSUME Typed, EnvironmentOfNode, NEW v \in Versions, NEW a \in Archs, NEW refresh \in BOOLEAN,
           GetVersion(v, a, refresh)
    PROVE  EnvironmentOfNode'
  <1>1. /\ v \in Names /\ v # NoName /\ a # NoName
        /\ node = "ENABLE" /\ ~InVersion /\ ~InProject /\ crossPath = 0
    BY ConstantsAssumption DEF GetVersion, InVersion, InProject, EnvironmentOfNode, PathOfNode
  <1>2. \A x \in EnvVars : env[x] \in {Unset, UserSet}
    BY <1>1 DEF EnvironmentOfNode, EnvOfNode, Expected
  <1>3. \A w \in Names : arch[w] = NoName
    BY <1>1 DEF EnvironmentOfNode, ArchOfNode
  <1>4. arch \in [Names -> Archs \cup {NoName}]
    BY DEF Typed, TypeOK
  <1>a. CASE VersionDirFails(v)
    BY <1>a, EnvInvStutter DEF VersionDirFails, InVersion, InProject
  <1>b. CASE VersionArchFails(v, a)
    BY <1>b, EnvInvStutter DEF VersionArchFails, InVersion, InProject
  <1>c. CASE VersionRefreshFails(v, a, refresh)
    <2>1. /\ env' = FinitEnv(InitEnv(env, v, a), v)
          /\ crossPath' = CutPath(AppendPath(crossPath, v, a), v, a)
          /\ arch' = [arch EXCEPT ![v] = NoName]
          /\ ~InVersion' /\ ~InProject'
      BY <1>c, <1>1 DEF VersionRefreshFails, session, InVersion, InProject
    <2>2. ASSUME NEW x \in EnvVars PROVE env'[x] \in {Unset, UserSet}
      <3>1. env'[x] = IF x \in VersionUnsetVars(v) THEN Unset
                      ELSE IF x \in VersionVars(v, a) THEN <<v, a>> ELSE env[x]
        BY <2>1, SetAllAt DEF FinitEnv, InitEnv
      <3> QED BY <3>1, <1>1, <1>2, VariableSets
    <2>3. crossPath' = 0
      BY <2>1, <1>1 DEF CutPath, AppendPath
    <2>4. \A w \in Names : arch'[w] = NoName
      BY <2>1, <1>3, <1>4
    <2> QED BY <2>1, <2>2, <2>3, <2>4 DEF EnvironmentOfNode, ArchOfNode, EnvOfNode, PathOfNode, Expected
  <1>d. CASE VersionEnters(v, a, refresh)
    <2>1. /\ env' = InitEnv(env, v, a)
          /\ crossPath' = AppendPath(crossPath, v, a)
          /\ arch' = [arch EXCEPT ![v] = a]
          /\ index'.ver = v /\ InVersion' /\ ~InProject'
      BY <1>d, IndexTypes DEF VersionEnters, InVersion, InProject
    <2>2. arch'[v] = a /\ \A w \in Names : w # v => arch'[w] = NoName
      BY <2>1, <1>1, <1>3, <1>4
    <2>3. ASSUME NEW x \in EnvVars
          PROVE  env'[x] = IF x \in VersionVars(v, a) THEN <<v, a>> ELSE env[x]
      BY <2>1, SetAllAt DEF InitEnv
    <2>4. ArchOfNode'
      BY <2>1, <2>2, <1>1 DEF ArchOfNode
    <2>5. EnvOfNode'
      BY <2>1, <2>2, <2>3, <1>2 DEF EnvOfNode, Expected
    <2>6. PathOfNode'
      BY <2>1, <2>2, <1>1 DEF PathOfNode, AppendPath
    <2> QED BY <2>4, <2>5, <2>6 DEF EnvironmentOfNode
  <1> QED BY <1>a, <1>b, <1>c, <1>d DEF GetVersion

(* project_init exports for its project only what project_finit unsets. *)
LEMMA EnvInvGetProject ==
    ASSUME Typed, EnvironmentOfNode, NEW p \in Projects, NEW refresh \in BOOLEAN, GetProject(p, refresh)
    PROVE  EnvironmentOfNode'
  <1>1. node = "VERSION" /\ InVersion /\ ~InProject /\ index.ver \in Names
    BY TypedIndex DEF GetProject, InVersion, InProject
  <1>2. UNCHANGED <<crossPath, arch>>
    BY DEF GetProject
  <1>3. CASE UNCHANGED <<node, index, env>>
    BY <1>2, <1>3, EnvInvStutter DEF InVersion, InProject
  <1>4. CASE ProjectEnters(index.ver, p, refresh)
    <2>1. /\ env' = SetAll(env, ProjectVars(p), <<index.ver, Last(p)>>)
          /\ index'.ver = index.ver /\ index'.proj = p /\ InVersion' /\ InProject'
      BY <1>4 DEF ProjectEnters, ProjectIndex, InVersion, InProject
    <2>3. ASSUME NEW x \in EnvVars
          PROVE  env'[x] = IF x \in ProjectVars(p) THEN <<index.ver, Last(p)>> ELSE env[x]
      BY <2>1, SetAllAt
    <2>4. \A x : x \in ProjectVars(p) => x \notin VersionVars(index.ver, arch[index.ver])
      BY <1>1, VariableSets
    <2>5. EnvOfNode'
      BY <1>1, <1>2, <2>1, <2>3, <2>4 DEF EnvironmentOfNode, EnvOfNode, Expected
    <2>6. ArchOfNode' /\ PathOfNode'
      BY <1>1, <1>2, <2>1 DEF EnvironmentOfNode, ArchOfNode, PathOfNode
    <2> QED BY <2>5, <2>6 DEF EnvironmentOfNode
  <1> QED BY <1>3, <1>4 DEF GetProject, ProjectCheckoutFails, ProjectInitFails

(* finit of a version from an environment in which only the version's own  *)
(* variables are set: nothing of the session is left.                      *)
LEMMA EnvInvVersionFinit ==
    ASSUME Typed, EnvironmentOfNode, InVersion, NEW e, NEW d,
           VersionFinit(index.ver, d, e), index' = NoIndex, ~InVersion', ~InProject',
           \A x \in EnvVars :
               e[x] \in {Unset, UserSet} \/ x \in VersionVars(index.ver, arch[index.ver])
    PROVE  EnvironmentOfNode'
  <1>1. index.ver \in Names
    BY TypedIndex
  <1>2. arch \in [Names -> Archs \cup {NoName}]
    BY DEF Typed, TypeOK
  <1>3. \A w \in Names : arch'[w] = NoName
    BY <1>1, <1>2 DEF VersionFinit, EnvironmentOfNode, ArchOfNode
  <1>4. ASSUME NEW x \in EnvVars PROVE env'[x] \in {Unset, UserSet}
    <2>1. env'[x] = IF x \in VersionUnsetVars(index.ver) THEN Unset ELSE e[x]
      BY SetAllAt DEF VersionFinit, FinitEnv
    <2> QED BY <2>1, <1>1, VariableSets
  <1>5. crossPath' = 0
    BY DEF VersionFinit, CutPath, EnvironmentOfNode, PathOfNode
  <1> QED BY <1>3, <1>4, <1>5 DEF EnvironmentOfNode, ArchOfNode, EnvOfNode, PathOfNode, Expected

LEMMA EnvInvLeaves ==
    ASSUME Typed, EnvironmentOfNode, VersionExit \/ ProjectExit \/ ProjectEnd
    PROVE  EnvironmentOfNode'
  <1>1. CASE VersionExit
    <2>1. /\ VersionFinit(index.ver, cwd, env) /\ index' = NoIndex
          /\ InVersion /\ ~InProject /\ ~InVersion' /\ ~InProject'
      BY <1>1 DEF VersionExit, InVersion, InProject
    <2>2. \A x \in EnvVars :
              env[x] \in {Unset, UserSet} \/ x \in VersionVars(index.ver, arch[index.ver])
      BY <2>1 DEF EnvironmentOfNode, EnvOfNode, Expected
    <2> QED BY <2>1, <2>2, EnvInvVersionFinit
  <1>2. ASSUME ProjectExit \/ ProjectEnd
        PROVE  /\ InVersion /\ InProject
               /\ \A x \in EnvVars :
                    IF x \in VersionVars(index.ver, arch[index.ver])
                    THEN ProjectFinitEnv(index.proj)[x] = <<index.ver, arch[index.ver]>>
                    ELSE ProjectFinitEnv(index.proj)[x] \in {Unset, UserSet}
    <2>1. InVersion /\ InProject /\ index.ver \in Names
      BY <1>2, TypedIndex DEF ProjectExit, ProjectEnd, InVersion, InProject
    <2>2. ASSUME NEW x \in EnvVars
          PROVE  ProjectFinitEnv(index.proj)[x] =
                     IF x \in ProjectVars(index.proj) THEN Unset ELSE env[x]
      BY SetAllAt DEF ProjectFinitEnv
    <2>3. \A x : x \in VersionVars(index.ver, arch[index.ver])
                    => x \notin ProjectVars(index.proj)
      BY <2>1, VariableSets
    <2>4. ASSUME NEW x \in EnvVars
          PROVE  IF x \in VersionVars(index.ver, arch[index.ver])
                 THEN ProjectFinitEnv(index.proj)[x] = <<index.ver, arch[index.ver]>>
                 ELSE ProjectFinitEnv(index.proj)[x] \in {Unset, UserSet}
      <3>1. env[x] = Expected(x) \/ (env[x] = UserSet /\ Expected(x) = Unset)
        BY DEF EnvironmentOfNode, EnvOfNode
      <3>2. CASE x \in VersionVars(index.ver, arch[index.ver])
        <4>1. Expected(x) = <<index.ver, arch[index.ver]>>
          BY <2>1, <3>2 DEF Expected
        <4>2. <<index.ver, arch[index.ver]>> # Unset
          BY DEF Unset
        <4> QED BY <2>2, <2>3, <3>1, <3>2, <4>1, <4>2
      <3>3. CASE x \notin VersionVars(index.ver, arch[index.ver]) /\ x \in ProjectVars(index.proj)
        BY <2>2, <3>3
      <3>4. CASE /\ x \notin VersionVars(index.ver, arch[index.ver])
                 /\ x \notin ProjectVars(index.proj)
        BY <2>2, <3>1, <3>4 DEF Expected
      <3> QED BY <3>2, <3>3, <3>4
    <2> QED BY <2>1, <2>4
  <1>3. CASE ProjectExit
    <2>1. /\ env' = ProjectFinitEnv(index.proj) /\ InVersion' /\ ~InProject'
          /\ index'.ver = index.ver /\ UNCHANGED <<crossPath, arch>>
      BY <1>3 DEF ProjectExit, VersionIndex, InVersion, InProject
    <2>2. ArchOfNode' /\ PathOfNode'
      BY <2>1, <1>2, <1>3 DEF EnvironmentOfNode, ArchOfNode, PathOfNode
    <2>3. EnvOfNode'
      BY <2>1, <1>2, <1>3 DEF EnvOfNode, Expected
    <2> QED BY <2>2, <2>3 DEF EnvironmentOfNode
  <1>4. CASE ProjectEnd
    <2>1. /\ VersionFinit(index.ver, ProjectFinitDir, ProjectFinitEnv(index.proj))
          /\ index' = NoIndex /\ ~InVersion' /\ ~InProject'
      BY <1>4 DEF ProjectEnd, InVersion, InProject
    <2>2. InVersion /\ \A x \in EnvVars :
              \/ ProjectFinitEnv(index.proj)[x] \in {Unset, UserSet}
              \/ x \in VersionVars(index.ver, arch[index.ver])
      BY <1>2, <1>4
    <2> QED BY <2>1, <2>2, EnvInvVersionFinit
  <1> QED BY <1>1, <1>3, <1>4

(* No action but those above touches the environment. *)
LEMMA EnvInvOthers ==
    ASSUME Typed, EnvironmentOfNode,
           \/ Start \/ VersionCmdRefresh \/ VersionBuild
           \/ \E p \in MkdirArgs : SystemMkdir(p)
           \/ ProjectCmdRefresh \/ ProjectConf \/ KernelConfFile \/ ProConfExit
           \/ UNCHANGED vars
    PROVE  EnvironmentOfNode'
  <1>1. UNCHANGED <<index, env, crossPath, arch>>
    BY DEF Start, VersionCmdRefresh, VersionBuild, SystemMkdir, ProjectCmdRefresh,
           ProjectConf, KernelConfFile, ProConfExit, vars
  <1>2. InVersion' = InVersion /\ InProject' = InProject
    BY DEF Start, VersionCmdRefresh, VersionBuild, SystemMkdir, ProjectCmdRefresh,
           ProjectConf, KernelConfFile, ProConfExit, vars, InVersion, InProject
  <1> QED BY <1>1, <1>2, EnvInvStutter

LEMMA EnvInvNext == Typed /\ EnvironmentOfNode /\ [Next]_vars => EnvironmentOfNode'
  <1> SUFFICES ASSUME Typed, EnvironmentOfNode, [Next]_vars PROVE EnvironmentOfNode'
    OBVIOUS
  <1>1. CASE Quit \/ Eof
    BY <1>1, EnvInvNoProcess DEF Quit, Eof
  <1>2. CASE \E v \in Versions, a \in Archs, refresh \in BOOLEAN : GetVersion(v, a, refresh)
    BY <1>2, EnvInvGetVersion
  <1>3. CASE \E p \in Projects, refresh \in BOOLEAN : GetProject(p, refresh)
    BY <1>3, EnvInvGetProject
  <1>4. CASE VersionExit \/ ProjectExit \/ ProjectEnd
    BY <1>4, EnvInvLeaves
  <1>5. CASE \/ Start \/ VersionCmdRefresh \/ VersionBuild
             \/ \E p \in MkdirArgs : SystemMkdir(p)
             \/ ProjectCmdRefresh \/ ProjectConf \/ KernelConfFile \/ ProConfExit
             \/ UNCHANGED vars
    BY <1>5, EnvInvOthers
  <1> QED BY <1>1, <1>2, <1>3, <1>4, <1>5 DEF Next

(* The environment a build runs in is that of the prompt's version,        *)
(* architecture and project and of nothing else; the cross compiler is in  *)
(* PATH once or not at all.  This needs no assumption on project names.    *)
THEOREM EnvironmentCorrect == Spec => []EnvironmentOfNode
  <1>1. Init => Typed /\ EnvironmentOfNode
    BY TypedInit, EnvInvInit
  <1>2. Typed /\ EnvironmentOfNode /\ [Next]_vars => (Typed /\ EnvironmentOfNode)'
    BY TypedNext, EnvInvNext
  <1> QED BY <1>1, <1>2, PTL DEF Spec

-----------------------------------------------------------------------------
(* The working directory is that of the node *)

LEMMA IsDirOfAppend ==
    ASSUME NEW d \in Path, NEW n \in Names, NEW f
    PROVE  IsDir(f, Append(d, n)) <=> Append(d, n) \in f /\ n \notin Files
  <1>1. Append(d, n) # <<>> /\ Last(Append(d, n)) = n
    BY SMT DEF Last, Path
  <1> QED BY <1>1 DEF IsDir

(* A flat project name is one step down, and one step up again. *)
LEMMA FlatStep ==
    ASSUME FlatNames, NEW p \in Projects, NEW d \in Path
    PROVE  /\ Last(p) \in Names \ Files /\ p \in Path /\ p # <<>>
           /\ d \o p = Append(d, Last(p))
           /\ Parent(d \o p) = d
           /\ \A v : Basename(v, p) = Last(p)
           /\ \A f : IsDir(f, d \o p) <=> d \o p \in f
  <1>1. p \in Seq(Names) /\ Len(p) = 1 /\ p[1] \notin Files
    BY ConstantsAssumption DEF FlatNames, Path
  <1>2. p # <<>> /\ Last(p) = p[1] /\ p[1] \in Names
    BY <1>1, SMT DEF Last
  <1>3. d \o p = Append(d, Last(p))
    <2>1. p = <<p[1]>>
      BY <1>1, SMT
    <2>2. \A n \in Names : d \o <<n>> = Append(d, n)
      BY AppendIsConcat DEF Path
    <2> QED BY <1>2, <2>1, <2>2
  <1>4. Parent(d \o p) = d
    BY <1>2, <1>3, ParentOfAppend
  <1>5. \A v : Basename(v, p) = Last(p)
    BY <1>2 DEF Basename
  <1>6. \A f : IsDir(f, d \o p) <=> d \o p \in f
    BY <1>1, <1>2, <1>3, IsDirOfAppend
  <1> QED BY <1>1, <1>2, <1>3, <1>4, <1>5, <1>6 DEF Path

(* The directory of a version, seen from ROOT_DIR. *)
LEMMA VersionStep ==
    ASSUME NEW v \in Names
    PROVE  /\ VersionDir(v) \in Path /\ Parent(VersionDir(v)) = Root
           /\ Append(VersionDir(v), "build") \in Path
           /\ VersionDir(v) \o <<"build">> = Append(VersionDir(v), "build")
           /\ VersionDir(v) \o <<>> = VersionDir(v)
  <1>1. VersionDir(v) \in Path /\ Parent(VersionDir(v)) = Root
    BY RootIsPath, ParentOfAppend DEF VersionDir
  <1>2. "build" \in Names
    BY ConstantsAssumption
  <1> QED BY <1>1, <1>2, ParentOfAppend, AppendIsConcat, ConcatEmptySeq DEF Path

(* svn, mkdir and cp only add to the tree, so what was ready stays ready. *)
LEMMA ReadyStays ==
    ASSUME BuildReady, InVersion, fs \subseteq fs',
           index'.ver = index.ver, arch' = arch
    PROVE  BuildReady'
  BY DEF BuildReady, IsDir

(* A step that stays at its level and its directory. *)
LEMMA DirInvStays ==
    ASSUME DirectoryOfNode, fs \subseteq fs', UNCHANGED <<node, index, cwd, arch>>
    PROVE  DirectoryOfNode'
  <1>1. InVersion' = InVersion /\ InProject' = InProject
    BY DEF InVersion, InProject
  <1>2. BuildReady'
    BY <1>1, ReadyStays DEF DirectoryOfNode, BuildReady
  <1>3. SourcesOfNode'
    BY <1>1 DEF DirectoryOfNode, SourcesOfNode, IsDir
  <1>4. CwdOfNode' /\ CwdAtEnable'
    BY <1>1 DEF DirectoryOfNode, CwdOfNode, CwdAtEnable
  <1> QED BY <1>2, <1>3, <1>4 DEF DirectoryOfNode

LEMMA DirInvGetVersion ==
    ASSUME Typed, DirectoryOfNode, NEW v \in Versions, NEW a \in Archs, NEW refresh \in BOOLEAN,
           GetVersion(v, a, refresh)
    PROVE  DirectoryOfNode'
  <1> DEFINE e == InitEnv(env, v, a)
             f == fs \cup MkdirP(<<>>, VersionDir(v))
  <1>1. node = "ENABLE" /\ v \in Names
    BY ConstantsAssumption DEF GetVersion
  <1>2. f \in SUBSET Path
    BY <1>1, VersionStep, ShortPaths, MkdirPaths DEF Typed, TypeOK
  <1> HIDE DEF e, f
  <1>a. CASE VersionDirFails(v)
    BY <1>a, DirInvStays DEF VersionDirFails
  <1>b. CASE VersionArchFails(v, a)
    BY <1>b, <1>1 DEF VersionArchFails, DirectoryOfNode, CwdOfNode, CwdAtEnable, SourcesOfNode,
                      BuildReady, InVersion, InProject
  <1>c. CASE VersionRefreshFails(v, a, refresh)
    BY <1>c, <1>1, VersionStep
       DEF VersionRefreshFails, session, DirectoryOfNode, CwdOfNode, CwdAtEnable, SourcesOfNode,
           BuildReady, InVersion, InProject
  <1>d. CASE VersionEnters(v, a, refresh)
    <2>1. /\ ~ArchInvalid(f, v, a) /\ cwd' = VersionDir(v)
          /\ arch' = [arch EXCEPT ![v] = a] /\ node' = "VERSION" /\ index'.ver = v
      BY <1>d DEF VersionEnters, VersionIndex, f
    <2>2. f \subseteq fs'
      <3>1. CASE refresh \/ ~IsDir(f, Append(VersionDir(v), "build"))
        <4>1. \E r \in VersionRefresh(v, VersionDir(v), e, f) : fs' = r.fs
          BY <1>d, <3>1 DEF VersionEnters, e, f
        <4> QED BY <4>1, <1>1, <1>2, VersionStep, VersionRefreshResults
      <3>2. CASE ~(refresh \/ ~IsDir(f, Append(VersionDir(v), "build")))
        BY <1>d, <3>2 DEF VersionEnters, f
      <3> QED BY <3>1, <3>2
    <2>3. arch'[v] = a
      BY <2>1, <1>1 DEF Typed, TypeOK
    <2>4. BuildReady'
      BY <2>1, <2>2, <2>3 DEF ArchInvalid, BuildReady, IsDir
    <2> QED BY <2>1, <2>4 DEF DirectoryOfNode, CwdOfNode, CwdAtEnable, SourcesOfNode, InProject
  <1> QED BY <1>a, <1>b, <1>c, <1>d DEF GetVersion

LEMMA DirInvVersionNode ==
    ASSUME Typed, DirectoryOfNode,
           \/ VersionExit \/ VersionCmdRefresh \/ VersionBuild
           \/ \E p \in MkdirArgs : SystemMkdir(p)
    PROVE  DirectoryOfNode'
  <1>1. CASE VersionExit
    <2>1. index.ver \in Names /\ cwd = VersionDir(index.ver)
      BY <1>1, TypedIndex DEF VersionExit, InVersion, DirectoryOfNode, CwdOfNode
    <2> QED BY <1>1, <2>1, VersionStep
            DEF VersionExit, VersionFinit, DirectoryOfNode, CwdOfNode, CwdAtEnable, SourcesOfNode,
                BuildReady, InVersion, InProject
  <1>2. CASE VersionCmdRefresh
    <2>1. index.ver \in Names /\ cwd \in Path /\ fs \in SUBSET Path
      BY <1>2, TypedIndex DEF VersionCmdRefresh, InVersion
    <2>2. fs \subseteq fs'
      BY <1>2, <2>1, VersionRefreshResults DEF VersionCmdRefresh
    <2> QED BY <1>2, <2>2, DirInvStays DEF VersionCmdRefresh
  <1>3. CASE VersionBuild
    <2>1. /\ index.ver \in Names /\ cwd \in Path /\ fs \in SUBSET Path
          /\ cwd = VersionDir(index.ver) /\ InVersion
      BY <1>3, TypedIndex DEF VersionBuild, InVersion, DirectoryOfNode, CwdOfNode
    <2>2. PICK r \in SvnCo(index.ver, <<>>, cwd, fs) :
               fs' = r.fs /\ cwd' = Parent(Chdir(r.fs, cwd, <<"build">>))
      BY <1>3 DEF VersionBuild
    <2>3. fs \subseteq r.fs
      BY <2>1, SvnCoResults, ShortPaths
    <2>4. IsDir(r.fs, cwd \o <<"build">>)
      BY <2>1, <2>3, VersionStep DEF DirectoryOfNode, BuildReady, IsDir
    <2>5. cwd' = cwd
      BY <2>1, <2>2, <2>4, VersionStep, ParentOfAppend, ConstantsAssumption DEF Chdir
    <2> QED BY <1>3, <2>2, <2>3, <2>5, DirInvStays DEF VersionBuild
  <1>4. CASE \E p \in MkdirArgs : SystemMkdir(p)
    BY <1>4, DirInvStays DEF SystemMkdir
  <1> QED BY <1>1, <1>2, <1>3, <1>4

LEMMA DirInvGetProject ==
    ASSUME FlatNames, Typed, DirectoryOfNode, NEW p \in Projects, NEW refresh \in BOOLEAN,
           GetProject(p, refresh)
    PROVE  DirectoryOfNode'
  <1>1. /\ node = "VERSION" /\ index.ver \in Names /\ cwd \in Path
        /\ fs \in SUBSET Path /\ InVersion /\ cwd = VersionDir(index.ver)
    BY TypedIndex DEF GetProject, InVersion, DirectoryOfNode, CwdOfNode
  <1>2. arch' = arch
    BY DEF GetProject
  <1>3. \A r \in ProjectSources(index.ver, p, refresh) :
            /\ fs \subseteq r.fs
            /\ \A i \in ProjectInitEnv(p, Chdir(r.fs, cwd, p), r.fs) :
                  fs \subseteq i.fs /\ r.fs \subseteq i.fs
    <2>1. \A r \in ProjectSources(index.ver, p, refresh) :
              fs \subseteq r.fs /\ r.fs \in SUBSET Path /\ Chdir(r.fs, cwd, p) \in Path
      BY <1>1, ProjectSourcesResults
    <2> QED BY <2>1, ProjectInitEnvResults
  <1>4. ASSUME NEW r \in ProjectSources(index.ver, p, refresh), r.ok
        PROVE  IsDir(r.fs, cwd \o p) /\ Chdir(r.fs, cwd, p) = cwd \o p
    <2>1. CASE refresh \/ cwd \o p \notin fs
      <3>1. r \in SvnCo(index.ver, p, cwd, fs)
        BY <2>1, Zenon DEF ProjectSources
      <3>2. /\ p \in Path /\ cwd \o p = Append(cwd, Basename(index.ver, p))
            /\ \A g : IsDir(g, cwd \o p) <=> cwd \o p \in g
        BY <1>1, FlatStep
      <3>3. cwd \o p \in r.fs
        BY <3>1, <3>2, <1>1, <1>4, SvnCoResults
      <3> QED BY <3>2, <3>3 DEF Chdir
    <2>2. CASE ~(refresh \/ cwd \o p \notin fs)
      <3>1. r.fs = fs
        BY <2>2 DEF ProjectSources
      <3> QED BY <3>1, <2>2, <1>1, FlatStep DEF Chdir
    <2> QED BY <2>1, <2>2
  <1>a. CASE ProjectCheckoutFails(index.ver, p, refresh)
    BY <1>a, <1>2, <1>3, DirInvStays DEF ProjectCheckoutFails
  <1>b. CASE ProjectInitFails(index.ver, p, refresh)
    <2>1. cwd' = cwd /\ fs \subseteq fs' /\ UNCHANGED <<node, index, env>>
      BY <1>b, <1>1, <1>3, <1>4, FlatStep DEF ProjectInitFails
    <2> QED BY <2>1, <1>2, DirInvStays
  <1>c. CASE ProjectEnters(index.ver, p, refresh)
    <2>1. PICK r \in ProjectSources(index.ver, p, refresh) :
               /\ r.ok /\ cwd' = Chdir(r.fs, cwd, p)
               /\ \E i \in ProjectInitEnv(p, Chdir(r.fs, cwd, p), r.fs) : fs' = i.fs
      BY <1>c DEF ProjectEnters
    <2>2. /\ cwd' = VersionDir(index.ver) \o p /\ fs \subseteq fs'
          /\ IsDir(fs', VersionDir(index.ver) \o p)
      BY <2>1, <1>1, <1>3, <1>4 DEF IsDir
    <2>3. node' = "PROJECT" /\ index'.ver = index.ver /\ index'.proj = p
      BY <1>c DEF ProjectEnters, ProjectIndex
    <2>4. BuildReady'
      BY <2>2, <2>3, <1>1, <1>2, ReadyStays DEF DirectoryOfNode
    <2> QED BY <2>2, <2>3, <2>4
            DEF DirectoryOfNode, CwdOfNode, CwdAtEnable, SourcesOfNode, InProject
  <1> QED BY <1>a, <1>b, <1>c DEF GetProject

LEMMA DirInvProjectNode ==
    ASSUME FlatNames, Typed, DirectoryOfNode,
           \/ ProjectExit \/ ProjectEnd \/ ProjectCmdRefresh
           \/ ProjectConf \/ KernelConfFile \/ ProConfExit
    PROVE  DirectoryOfNode'
  <1>1. /\ InVersion /\ InProject /\ index.ver \in Names /\ index.ver \in Versions
        /\ index.proj \in Projects /\ index.proj \in Path
        /\ cwd = VersionDir(index.ver) \o index.proj
        /\ VersionDir(index.ver) \in Path /\ fs \in SUBSET Path
    BY TypedIndex, RootIsPath
       DEF ProjectExit, ProjectEnd, ProjectCmdRefresh, ProjectConf, KernelConfFile, ProConfExit,
           InVersion, InProject, DirectoryOfNode, CwdOfNode
  <1>2. Parent(cwd) = VersionDir(index.ver) /\ Parent(Parent(cwd)) = Root
    BY <1>1, FlatStep, VersionStep
  <1>3. CASE ProjectExit
    <2>1. /\ cwd' = VersionDir(index.ver) /\ node' = "VERSION" /\ index'.ver = index.ver
          /\ arch' = arch /\ fs' = fs
      BY <1>2, <1>3 DEF ProjectExit, ProjectFinitDir, VersionIndex
    <2>2. BuildReady'
      BY <1>1, <2>1, ReadyStays DEF DirectoryOfNode
    <2> QED BY <2>1, <2>2 DEF DirectoryOfNode, CwdOfNode, CwdAtEnable, SourcesOfNode, InProject
  <1>4. CASE ProjectEnd
    BY <1>2, <1>4
       DEF ProjectEnd, VersionFinit, ProjectFinitDir, DirectoryOfNode, CwdOfNode, CwdAtEnable,
           SourcesOfNode, BuildReady, InVersion, InProject
  <1>5. CASE ProjectCmdRefresh
    <2>1. PICK r \in SvnCo(index.ver, index.proj, Parent(cwd), fs) :
               fs' = r.fs /\ cwd' = Chdir(r.fs, Parent(cwd), index.proj)
      BY <1>5 DEF ProjectCmdRefresh
    <2>2. fs \subseteq r.fs
      BY <1>1, <1>2, SvnCoResults
    <2>3. IsDir(r.fs, VersionDir(index.ver) \o index.proj)
      BY <1>1, <2>2 DEF DirectoryOfNode, SourcesOfNode, IsDir
    <2>4. cwd' = cwd
      BY <1>1, <1>2, <2>1, <2>3 DEF Chdir
    <2> QED BY <1>5, <2>1, <2>2, <2>4, DirInvStays DEF ProjectCmdRefresh
  <1>6. CASE ProjectConf \/ ProConfExit
    <2>1. InVersion' /\ InProject' /\ UNCHANGED <<index, cwd, arch, fs>> /\ node' # "ENABLE"
          /\ node' # "VERSION"
      BY <1>6 DEF ProjectConf, ProConfExit, InVersion, InProject
    <2>2. BuildReady'
      BY <1>1, <2>1, ReadyStays DEF DirectoryOfNode
    <2> QED BY <1>1, <2>1, <2>2 DEF DirectoryOfNode, CwdOfNode, CwdAtEnable, SourcesOfNode
  <1>7. CASE KernelConfFile
    BY <1>7, DirInvStays DEF KernelConfFile
  <1> QED BY <1>3, <1>4, <1>5, <1>6, <1>7

LEMMA DirInvOutside ==
    ASSUME node' \in {"DOWN", "ENABLE"}, node' = "ENABLE" => cwd' \in {LaunchDir, Home}
    PROVE  DirectoryOfNode'
  BY DEF DirectoryOfNode, CwdOfNode, CwdAtEnable, SourcesOfNode, BuildReady, InVersion, InProject

LEMMA DirInvNext == FlatNames /\ Typed /\ DirectoryOfNode /\ [Next]_vars => DirectoryOfNode'
  <1> SUFFICES ASSUME FlatNames, Typed, DirectoryOfNode, [Next]_vars PROVE DirectoryOfNode'
    OBVIOUS
  <1>1. CASE Start \/ Quit \/ Eof
    BY <1>1, DirInvOutside DEF Start, Quit, Eof, NoProcess
  <1>2. CASE \E v \in Versions, a \in Archs, refresh \in BOOLEAN : GetVersion(v, a, refresh)
    BY <1>2, DirInvGetVersion
  <1>3. CASE VersionExit \/ VersionCmdRefresh \/ VersionBuild \/ \E p \in MkdirArgs : SystemMkdir(p)
    BY <1>3, DirInvVersionNode
  <1>4. CASE \E p \in Projects, refresh \in BOOLEAN : GetProject(p, refresh)
    BY <1>4, DirInvGetProject
  <1>5. CASE \/ ProjectExit \/ ProjectEnd \/ ProjectCmdRefresh
             \/ ProjectConf \/ KernelConfFile \/ ProConfExit
    BY <1>5, DirInvProjectNode
  <1>6. CASE UNCHANGED vars
    BY <1>6, DirInvStays DEF vars
  <1> QED BY <1>1, <1>2, <1>3, <1>4, <1>5, <1>6 DEF Next

LEMMA DirInvInit == Init => DirectoryOfNode
  BY DEF Init, DirectoryOfNode, CwdOfNode, CwdAtEnable, SourcesOfNode, BuildReady, InVersion, InProject

(* When project names are flat the working directory is that of the node,  *)
(* although every way back is a chdir("..") and no chdir into a project is *)
(* checked; a project's sources and the version's build directory are      *)
(* there, which is what makes the unchecked calls succeed.                 *)
THEOREM DirectoryCorrect ==
    FlatNames => (Spec => []DirectoryOfNode)
  <1> SUFFICES ASSUME FlatNames
               PROVE  Spec => []DirectoryOfNode
    OBVIOUS
  <1>1. Init => Typed /\ DirectoryOfNode
    BY TypedInit, DirInvInit
  <1>2. Typed /\ DirectoryOfNode /\ [Next]_vars => (Typed /\ DirectoryOfNode)'
    BY TypedNext, DirInvNext
  <1>3. Typed /\ DirectoryOfNode => CwdOfNode /\ CwdAtEnable /\ SourcesOfNode /\ BuildReady
    BY DEF DirectoryOfNode
  <1> QED BY <1>1, <1>2, <1>3, PTL DEF Spec

(* With flat names the way out of a project is the way into it: what the   *)
(* help of its exit command says, "down to previous mode".                 *)
THEOREM ExitGoesDownHolds ==
    FlatNames => (Spec => ExitGoesDown)
  <1> SUFFICES ASSUME FlatNames
               PROVE  Spec => ExitGoesDown
    OBVIOUS
  <1>1. Init => Typed /\ DirectoryOfNode
    BY TypedInit, DirInvInit
  <1>2. Typed /\ DirectoryOfNode /\ [Next]_vars => (Typed /\ DirectoryOfNode)'
    BY TypedNext, DirInvNext
  <1>3. Typed /\ DirectoryOfNode /\ [Next]_vars
            => [node = "PROJECT" /\ node' = "VERSION" => cwd' = VersionDir(index.ver)]_vars
    <2> SUFFICES ASSUME Typed, DirectoryOfNode, Next, node = "PROJECT", node' = "VERSION"
                 PROVE  cwd' = VersionDir(index.ver)
      OBVIOUS
    <2>1. ProjectExit
      BY DEF Next, Start, Quit, Eof, NoProcess, GetVersion, VersionExit, VersionCmdRefresh,
             VersionBuild, SystemMkdir, GetProject, ProjectEnd, ProjectCmdRefresh, ProjectConf,
             KernelConfFile, ProConfExit
    <2>2. /\ index.ver \in Names /\ index.proj \in Projects
          /\ cwd = VersionDir(index.ver) \o index.proj
      BY TypedIndex DEF InVersion, InProject, DirectoryOfNode, CwdOfNode
    <2>3. Parent(cwd) = VersionDir(index.ver)
      BY <2>2, FlatStep, VersionStep
    <2> QED BY <2>1, <2>3 DEF ProjectExit, ProjectFinitDir
  <1> QED BY <1>1, <1>2, <1>3, PTL DEF Spec, ExitGoesDown

-----------------------------------------------------------------------------
(* The list of versions and the disk: whatever runs in a version or below  *)
(* it makes no directory beside the versions, but for mkdir, whose         *)
(* directories are those of byHand.                                        *)

(* What lies below the directory of a version. *)
Deep == {q \in Path : Len(q) > 4}

LEMMA VersionIsNotDeep ==
    ASSUME NEW v \in Names
    PROVE  /\ VersionDir(v) \in Path
           /\ Len(VersionDir(v)) = 4 /\ Len(VersionDir(v)) >= 4
           /\ VersionDir(v) \notin Deep
           /\ \A w \in Names : VersionDir(w) = VersionDir(v) => w = v
  <1>1. Root \in Seq(Names) /\ Len(Root) = 3
    BY RootIsPath DEF Path, Root
  <1>2. ASSUME NEW w \in Names
        PROVE  /\ VersionDir(w) \in Seq(Names) /\ Len(VersionDir(w)) = 4
               /\ VersionDir(w)[4] = w
    <2>1. /\ Append(Root, w) \in Seq(Names)
          /\ Len(Append(Root, w)) = Len(Root) + 1
          /\ Append(Root, w)[Len(Root) + 1] = w
      BY <1>1, AppendProperties
    <2>2. Len(Root) + 1 = 4
      BY <1>1
    <2>3. VersionDir(w) = Append(Root, w)
      BY Zenon DEF VersionDir
    <2> QED BY <2>1, <2>2, <2>3, Zenon
  <1>3. VersionDir(v) \in Seq(Names) /\ Len(VersionDir(v)) = 4
    BY <1>2
  <1>4. \A w \in Names : VersionDir(w) = VersionDir(v) => w = v
    BY <1>2
  <1>5. VersionDir(v) \notin Deep /\ Len(VersionDir(v)) >= 4
    <2>1. ~(4 > 4)
      OBVIOUS
    <2>2. VersionDir(v) \notin Deep
      BY <1>3, <2>1, Zenon DEF Deep
    <2>3. 4 >= 4
      OBVIOUS
    <2>4. Len(VersionDir(v)) >= 4
      BY <1>3, <2>3, Zenon
    <2> QED BY <2>2, <2>4
  <1> QED BY <1>3, <1>4, <1>5, Zenon DEF Path

LEMMA BelowIsDeep ==
    ASSUME NEW d \in Path, Len(d) >= 4, NEW n \in Names, NEW s \in Path
    PROVE  Append(d, n) \in Deep /\ Append(d, n) \o s \in Deep
  <1>1. Append(d, n) \in Path /\ Len(Append(d, n)) = Len(d) + 1
    BY SMT DEF Path
  <1>2. \A c \in Path : c \o s \in Path /\ Len(c \o s) = Len(c) + Len(s)
    BY ConcatProperties DEF Path
  <1>3. Len(s) \in Nat /\ Len(d) \in Nat
    BY LenProperties DEF Path
  <1> QED BY <1>1, <1>2, <1>3, SMT DEF Deep

LEMMA PathBelow ==
    ASSUME NEW d \in Path, Len(d) >= 4, NEW s \in Path
    PROVE  /\ d \o s \in Path /\ Len(d \o s) >= 4
           /\ s # <<>> => d \o s \in Deep
  <1>1. d \o s \in Path /\ Len(d \o s) = Len(d) + Len(s)
    BY ConcatProperties DEF Path
  <1>2. Len(s) \in Nat /\ Len(d) \in Nat /\ (s # <<>> => Len(s) > 0)
    BY EmptySeq, LenProperties, SMT DEF Path
  <1> QED BY <1>1, <1>2, SMT DEF Deep

LEMMA SvnCoDeep ==
    ASSUME NEW v \in Names, NEW sub \in Path, NEW d \in Path, Len(d) >= 4, NEW f
    PROVE  \A r \in SvnCo(v, sub, d, f) : r.fs \subseteq f \cup Deep
  <1> DEFINE top == Append(d, Basename(v, sub))
             tree == Checkout(v, sub, d)
  <1>1. Basename(v, sub) \in Names
    BY LastIsName DEF Basename
  <1>2. top \in Deep /\ \A s \in Path : top \o s \in Deep
    BY <1>1, BelowIsDeep, ShortPaths
  <1>3. ASSUME NEW r \in Repo[v] PROVE SubSeq(r, Len(sub) + 1, Len(r)) \in Path
    <2>1. r \in Seq(Names) /\ sub \in Seq(Names)
      BY ConstantsAssumption DEF Path
    <2> QED BY <2>1, SubSeqProperties, ElementOfSeq, LenProperties DEF Path
  <1> HIDE DEF top
  <1>4. tree \subseteq Deep
    <2>1. tree = {top} \cup {top \o SubSeq(r, Len(sub) + 1, Len(r)) :
                                 r \in {q \in Repo[v] : IsPrefix(sub, q)}}
      BY DEF Checkout, top
    <2> QED BY <1>2, <1>3, <2>1
  <1> HIDE DEF tree
  <1>5. ASSUME NEW r \in SvnCo(v, sub, d, f) PROVE r.fs \subseteq f \cup Deep
    <2>1. \/ r = [ok |-> FALSE, fs |-> f]
          \/ r = [ok |-> FALSE, fs |-> f \cup {top}]
          \/ r = [ok |-> TRUE, fs |-> f \cup tree]
      BY <1>5 DEF SvnCo, top, tree
    <2> QED BY <1>2, <1>4, <2>1
  <1> QED BY <1>5

LEMMA VersionRefreshDeep ==
    ASSUME NEW v \in Names, NEW d \in Path, Len(d) >= 4, NEW e, NEW f
    PROVE  \A r \in VersionRefresh(v, d, e, f) : r.fs \subseteq f \cup Deep
  <1>1. <<"build">> \in Path /\ <<"os">> \in Path
    BY ConstantsAssumption, ShortPaths
  <1>2. ASSUME NEW g, NEW r \in AttrRefresh(v, d, e, g) PROVE r.fs \subseteq g \cup Deep
    <2>1. PICK s \in SvnCo(v, <<"os">>, d, g) :
               \E ok \in IF s.ok /\ e["INSTALL_ROOT"] # Unset THEN BOOLEAN ELSE {FALSE} :
                   r = [ok |-> ok, fs |-> s.fs]
      BY <1>2 DEF AttrRefresh
    <2>2. s.fs \subseteq g \cup Deep
      BY <1>1, SvnCoDeep
    <2> QED BY <2>1, <2>2
  <1>3. ASSUME NEW r \in VersionRefresh(v, d, e, f) PROVE r.fs \subseteq f \cup Deep
    <2>1. PICK s \in SvnCo(v, <<"build">>, d, f) :
               r \in IF s.ok /\ VersionAttr[v] # "none" THEN AttrRefresh(v, d, e, s.fs) ELSE {s}
      BY <1>3 DEF VersionRefresh
    <2>2. s.fs \subseteq f \cup Deep
      BY <1>1, SvnCoDeep
    <2>3. r \in AttrRefresh(v, d, e, s.fs) \/ r = s
      BY <2>1
    <2> QED BY <1>2, <2>2, <2>3
  <1> QED BY <1>3

LEMMA ProjectInitEnvDeep ==
    ASSUME NEW p, NEW d \in Path, Len(d) >= 4, NEW f
    PROVE  \A r \in ProjectInitEnv(p, d, f) : r.fs \subseteq f \cup Deep
  <1>1. Append(d, ".config") \in Deep
    BY ConstantsAssumption, BelowIsDeep, ShortPaths DEF Files
  <1> DEFINE config == Append(d, ".config")
             left(ok) == IF ok /\ ProjectAttr[p] = "kernel" THEN f \cup {config} ELSE f
  <1>2. ASSUME NEW r \in ProjectInitEnv(p, d, f) PROVE r.fs \subseteq f \cup Deep
    <2>1. PICK ok : r = [ok |-> ok, fs |-> left(ok)]
      BY <1>2, Zenon DEF ProjectInitEnv
    <2>2. r.fs = f \/ r.fs = f \cup {config}
      BY <2>1
    <2> QED BY <1>1, <2>2
  <1> QED BY <1>2

(* The mkdir -p of a version makes this version's directory and no other.  *)
LEMMA MkdirOfVersion ==
    ASSUME NEW v \in Names, NEW w \in Names, VersionDir(w) \in MkdirP(<<>>, VersionDir(v))
    PROVE  w = v
  <1> DEFINE d == VersionDir(v)
  <1>1. d \in Seq(Names) /\ Len(d) = 4 /\ VersionDir(w) \in Seq(Names) /\ Len(VersionDir(w)) = 4
    BY VersionIsNotDeep DEF Path
  <1>2. PICK i \in 1..Len(d) : VersionDir(w) = <<>> \o SubSeq(d, 1, i)
    BY DEF MkdirP
  <1> HIDE DEF d
  <1>3. SubSeq(d, 1, i) \in Seq(Names) /\ Len(SubSeq(d, 1, i)) = i
    BY <1>1, <1>2, SubSeqProperties, ElementOfSeq
  <1>4. VersionDir(w) = SubSeq(d, 1, i)
    BY <1>2, <1>3, ConcatEmptySeq
  <1>5. i = 4
    BY <1>1, <1>3, <1>4
  <1>6. SubSeq(d, 1, i) = d
    BY <1>1, <1>5, SMT
  <1> QED BY <1>4, <1>6, VersionIsNotDeep DEF d

(* Where a session in a version works there is room only for deep paths,   *)
(* and so its commands add no version to the disk.                         *)
LEMMA DeepKeepsCovered ==
    ASSUME RegistryCoversDisk, node # "DOWN", known' = known, fs' \subseteq fs \cup Deep,
           UNCHANGED byHand
    PROVE  RegistryCoversDisk'
  BY VersionIsNotDeep DEF RegistryCoversDisk

LEMMA CoveredStart == Start => RegistryCoversDisk'
  BY DEF Start, Entries, VersionDir, RegistryCoversDisk

LEMMA CoveredGetVersion ==
    ASSUME RegistryCoversDisk, NEW v \in Versions, NEW a \in Archs, NEW refresh \in BOOLEAN,
           GetVersion(v, a, refresh), UNCHANGED byHand
    PROVE  RegistryCoversDisk'
  <1> DEFINE f == fs \cup MkdirP(<<>>, VersionDir(v))
  <1>1. v \in Names /\ node # "DOWN" /\ known' = known \cup {v}
    BY ConstantsAssumption DEF GetVersion, VersionGet
  <1>2. VersionDir(v) \in Path /\ Len(VersionDir(v)) >= 4
    BY <1>1, VersionIsNotDeep
  <1> HIDE DEF f
  <1>3. \A e : \A r \in VersionRefresh(v, VersionDir(v), e, f) : r.fs \subseteq f \cup Deep
    BY <1>1, <1>2, VersionRefreshDeep
  <1>4. fs' \subseteq f \cup Deep
    <2>1. CASE VersionDirFails(v)
      BY <2>1 DEF VersionDirFails, f
    <2>2. CASE VersionArchFails(v, a)
      BY <2>2 DEF VersionArchFails, f
    <2>3. CASE VersionRefreshFails(v, a, refresh)
      BY <2>3, <1>3 DEF VersionRefreshFails, f
    <2>4. CASE VersionEnters(v, a, refresh)
      BY <2>4, <1>3 DEF VersionEnters, f
    <2> QED BY <2>1, <2>2, <2>3, <2>4 DEF GetVersion
  <1>5. ASSUME NEW w \in Names \ Files, VersionDir(w) \in fs'
        PROVE  w \in (known \cup byHand)'
    <2>1. VersionDir(w) \in fs \/ VersionDir(w) \in MkdirP(<<>>, VersionDir(v))
      BY <1>4, <1>5, VersionIsNotDeep DEF f
    <2> QED BY <2>1, <1>1, MkdirOfVersion DEF RegistryCoversDisk
  <1> QED BY <1>5 DEF RegistryCoversDisk

LEMMA CoveredVersionNode ==
    ASSUME Typed, DirectoryOfNode, RegistryCoversDisk,
           VersionExit \/ VersionCmdRefresh \/ VersionBuild, UNCHANGED byHand
    PROVE  RegistryCoversDisk'
  <1>1. /\ InVersion /\ node # "DOWN" /\ known' = known
        /\ index.ver \in Names /\ cwd \in Path /\ index.proj \in Path
        /\ cwd = VersionDir(index.ver) \/ cwd = VersionDir(index.ver) \o index.proj
    BY TypedIndex, ShortPaths
       DEF VersionExit, VersionCmdRefresh, VersionBuild, InVersion, InProject,
           DirectoryOfNode, CwdOfNode, Typed, IndexOfNode
  <1>2. Len(cwd) >= 4
    <2>1. VersionDir(index.ver) \in Path /\ Len(VersionDir(index.ver)) >= 4
      BY <1>1, VersionIsNotDeep
    <2> QED BY <1>1, <2>1, PathBelow
  <1>3. fs' \subseteq fs \cup Deep
    <2>1. CASE VersionExit
      BY <2>1 DEF VersionExit
    <2>2. CASE VersionCmdRefresh
      BY <2>2, <1>1, <1>2, VersionRefreshDeep DEF VersionCmdRefresh
    <2>3. CASE VersionBuild
      BY <2>3, <1>1, <1>2, SvnCoDeep, ShortPaths DEF VersionBuild
    <2> QED BY <2>1, <2>2, <2>3
  <1> QED BY <1>1, <1>3, DeepKeepsCovered

(* What mkdir makes in ROOT_DIR is by hand, or was there before. *)
LEMMA CoveredMkdir ==
    ASSUME Typed, RegistryCoversDisk, NEW w \in MkdirArgs, SystemMkdir(w)
    PROVE  RegistryCoversDisk'
  <1>1. PICK d \in Path, p \in Path :
            /\ fs' = fs \cup MkdirP(d, p)
            /\ byHand' = byHand \cup {v \in Names : VersionDir(v) \in MkdirP(d, p) \ fs}
    BY SystemMkdirMakes
  <1>2. node # "DOWN" /\ known' = known
    BY DEF SystemMkdir
  <1> QED BY <1>1, <1>2 DEF RegistryCoversDisk

LEMMA CoveredGetProject ==
    ASSUME Typed, DirectoryOfNode, RegistryCoversDisk,
           NEW p \in Projects, NEW refresh \in BOOLEAN, GetProject(p, refresh),
           UNCHANGED byHand
    PROVE  RegistryCoversDisk'
  <1> DEFINE v == index.ver
  <1>1. /\ node = "VERSION" /\ known' = known /\ v \in Names /\ p \in Path
        /\ cwd \in Path /\ Len(cwd) >= 4
    <2>1. /\ node = "VERSION" /\ known' = known /\ v \in Names
          /\ cwd \in Path /\ cwd = VersionDir(v)
      BY TypedIndex DEF GetProject, InVersion, DirectoryOfNode, CwdOfNode
    <2>2. p \in Path
      BY ConstantsAssumption
    <2> QED BY <2>1, <2>2, VersionIsNotDeep
  <1> HIDE DEF v
  <1>2. ASSUME NEW r \in ProjectSources(v, p, refresh)
        PROVE  /\ r.fs \subseteq fs \cup Deep
               /\ \A i \in ProjectInitEnv(p, Chdir(r.fs, cwd, p), r.fs) :
                     i.fs \subseteq fs \cup Deep
    <2>1. r \in SvnCo(v, p, cwd, fs) \/ r = [ok |-> TRUE, fs |-> fs]
      BY <1>2, Zenon DEF ProjectSources
    <2>2. r.fs \subseteq fs \cup Deep
      BY <1>1, <2>1, SvnCoDeep
    <2>3. Chdir(r.fs, cwd, p) \in Path /\ Len(Chdir(r.fs, cwd, p)) >= 4
      BY <1>1, PathBelow DEF Chdir
    <2> QED BY <2>2, <2>3, ProjectInitEnvDeep
  <1>3. fs' \subseteq fs \cup Deep
    <2>1. CASE ProjectCheckoutFails(v, p, refresh)
      BY <2>1, <1>2 DEF ProjectCheckoutFails
    <2>2. CASE ProjectInitFails(v, p, refresh)
      BY <2>2, <1>2 DEF ProjectInitFails
    <2>3. CASE ProjectEnters(v, p, refresh)
      BY <2>3, <1>2 DEF ProjectEnters
    <2> QED BY <2>1, <2>2, <2>3 DEF GetProject, v
  <1> QED BY <1>1, <1>3, DeepKeepsCovered

LEMMA CoveredProjectNode ==
    ASSUME FlatNames, Typed, DirectoryOfNode, RegistryCoversDisk,
           \/ ProjectExit \/ ProjectEnd \/ ProjectCmdRefresh
           \/ ProjectConf \/ KernelConfFile \/ ProConfExit,
           UNCHANGED byHand
    PROVE  RegistryCoversDisk'
  <1>1. /\ node # "DOWN" /\ known' = known
        /\ index.ver \in Names /\ index.proj \in Projects /\ index.proj \in Path
        /\ cwd \in Path /\ cwd = VersionDir(index.ver) \o index.proj
    BY TypedIndex
       DEF ProjectExit, ProjectEnd, ProjectCmdRefresh, ProjectConf, KernelConfFile, ProConfExit,
           InVersion, InProject, DirectoryOfNode, CwdOfNode
  <1>2. /\ Parent(cwd) = VersionDir(index.ver)
        /\ Parent(cwd) \in Path /\ Len(Parent(cwd)) >= 4 /\ Len(cwd) >= 4
    <2>1. VersionDir(index.ver) \in Path /\ Len(VersionDir(index.ver)) >= 4
      BY <1>1, VersionIsNotDeep
    <2>2. Parent(cwd) = VersionDir(index.ver)
      BY <1>1, <2>1, FlatStep
    <2>3. Len(cwd) >= 4
      BY <1>1, <2>1, PathBelow
    <2> QED BY <2>1, <2>2, <2>3
  <1>3. fs' \subseteq fs \cup Deep
    <2>1. CASE ProjectExit \/ ProjectEnd \/ ProjectConf \/ ProConfExit
      BY <2>1 DEF ProjectExit, ProjectEnd, ProjectConf, ProConfExit
    <2>2. CASE ProjectCmdRefresh
      BY <2>2, <1>1, <1>2, SvnCoDeep DEF ProjectCmdRefresh
    <2>3. CASE KernelConfFile
      <3>1. Append(cwd, ".config") \in Deep
        BY <1>1, <1>2, ConstantsAssumption, BelowIsDeep, ShortPaths DEF Files
      <3> QED BY <2>3, <3>1 DEF KernelConfFile
    <2> QED BY <2>1, <2>2, <2>3
  <1> QED BY <1>1, <1>3, DeepKeepsCovered

LEMMA CoveredNext ==
    FlatNames /\ Typed /\ DirectoryOfNode /\ RegistryCoversDisk /\ [Next]_vars
        => RegistryCoversDisk'
  <1> SUFFICES ASSUME FlatNames, Typed, DirectoryOfNode, RegistryCoversDisk, [Next]_vars
               PROVE  RegistryCoversDisk'
    OBVIOUS
  <1>1. CASE Start
    BY <1>1, CoveredStart
  <1>2. CASE Quit \/ Eof
    BY <1>2 DEF Quit, Eof, NoProcess, RegistryCoversDisk
  <1>3. CASE /\ \E v \in Versions, a \in Archs, refresh \in BOOLEAN : GetVersion(v, a, refresh)
             /\ UNCHANGED byHand
    BY <1>3, CoveredGetVersion
  <1>4. CASE (VersionExit \/ VersionCmdRefresh \/ VersionBuild) /\ UNCHANGED byHand
    BY <1>4, CoveredVersionNode
  <1>5. CASE \E w \in MkdirArgs : SystemMkdir(w)
    BY <1>5, CoveredMkdir
  <1>6. CASE (\E p \in Projects, refresh \in BOOLEAN : GetProject(p, refresh)) /\ UNCHANGED byHand
    BY <1>6, CoveredGetProject
  <1>7. CASE /\ \/ ProjectExit \/ ProjectEnd \/ ProjectCmdRefresh
                \/ ProjectConf \/ KernelConfFile \/ ProConfExit
             /\ UNCHANGED byHand
    BY <1>7, CoveredProjectNode
  <1>8. CASE UNCHANGED vars
    BY <1>8 DEF vars, RegistryCoversDisk
  <1> QED BY <1>1, <1>2, <1>3, <1>4, <1>5, <1>6, <1>7, <1>8 DEF Next

(* A crash and a restart lose no version: every directory in ROOT_DIR that *)
(* was not made there by a mkdir line is in the list.  What is needed is   *)
(* that no other command of a version or project runs above the version's  *)
(* directory, where it would make a new one.                               *)
THEOREM RegistryCoversDiskHolds ==
    FlatNames => (Spec => []RegistryCoversDisk)
  <1> SUFFICES ASSUME FlatNames
               PROVE  Spec => []RegistryCoversDisk
    OBVIOUS
  <1>1. Init => Typed /\ DirectoryOfNode /\ RegistryCoversDisk
    BY TypedInit, DirInvInit DEF Init, RegistryCoversDisk
  <1>2. Typed /\ DirectoryOfNode /\ RegistryCoversDisk /\ [Next]_vars
            => (Typed /\ DirectoryOfNode /\ RegistryCoversDisk)'
    BY TypedNext, DirInvNext, CoveredNext
  <1> QED BY <1>1, <1>2, PTL DEF Spec

-----------------------------------------------------------------------------
(* The session implements Workspace: with the invariants above the working *)
(* directory and the exports are functions of the place, so that only the  *)
(* place of every action has to be followed.                               *)


(* The refinement mapping of MkSession!W, by its parts. *)
WPlace == [ver  |-> index.ver,
           arch |-> IF index.ver = NoName THEN NoName ELSE arch[index.ver],
           proj |-> index.proj]
WDir == IF index.ver = NoName THEN <<>> ELSE cwd
WExported == {env[x] : x \in EnvVars} \ {Unset, UserSet}
WExportingVersions == {v \in Versions : VersionAttr[v] # "none"}
WExportingProjects == {p \in Projects : ProjectAttr[p] = "fcms"}

(* What the mapping says of the node. *)
LEMMA PlaceOfNode ==
    ASSUME Typed
    PROVE  /\ InVersion <=> WPlace.ver # NoName
           /\ InProject <=> WPlace.proj # <<>>
           /\ ~InVersion => WPlace = W!Nowhere
           /\ InVersion => WPlace = W!Place(index.ver, arch[index.ver], index.proj)
           /\ WPlace = W!Nowhere => ~InVersion
  BY DEF Typed, TypeOK, IndexOfNode, WPlace, W!Nowhere, W!Place, InVersion, InProject

(* The directory is that of the place. *)
LEMMA DirIsDirOf ==
    ASSUME Typed, DirectoryOfNode PROVE WDir = W!DirOf(WPlace)
  <1>1. CASE ~InVersion
    BY <1>1, PlaceOfNode DEF WDir, WPlace, W!DirOf, Typed, IndexOfNode
  <1>2. CASE InVersion
    <2>1. index.ver \in Names /\ index.ver # NoName
      BY <1>2, TypedIndex, ConstantsAssumption
    <2>2. cwd = VersionDir(index.ver) \o index.proj
      <3>1. CASE InProject
        BY <3>1 DEF DirectoryOfNode, CwdOfNode
      <3>2. CASE ~InProject
        BY <1>2, <2>1, <3>2, VersionStep
           DEF DirectoryOfNode, CwdOfNode, InVersion, InProject, Typed, IndexOfNode
      <3> QED BY <3>1, <3>2
    <2> QED BY <2>1, <2>2 DEF WDir, WPlace, W!DirOf, VersionDir
  <1> QED BY <1>1, <1>2

(* The exports are those of the place. *)
LEMMA ExportsIsExportsOf ==
    ASSUME Typed, EnvironmentOfNode PROVE WExported = W!ExportsOf(WPlace)
  <1>1. CASE ~InVersion
    <2>1. \A x \in EnvVars : env[x] \in {Unset, UserSet}
      BY <1>1 DEF EnvironmentOfNode, EnvOfNode, Expected, InVersion, InProject
    <2>2. WPlace.ver = NoName /\ WPlace.proj = <<>>
      BY <1>1, PlaceOfNode DEF InVersion, InProject
    <2>3. NoName \notin Versions /\ <<>> \notin Projects
      BY ConstantsAssumption
    <2> QED BY <2>1, <2>2, <2>3 DEF WExported, W!ExportsOf
  <1>2. CASE InVersion
    <2> DEFINE v == index.ver
               a == arch[index.ver]
               p == index.proj
    <2>1. /\ v \in Versions /\ v \in Names
          /\ WPlace.ver = v /\ WPlace.arch = a /\ WPlace.proj = p
      BY <1>2, TypedIndex, PlaceOfNode DEF WPlace, W!Place
    <2>2. VersionVars(v, a) \subseteq EnvVars /\ ProjectVars(p) \subseteq EnvVars
      <3>1. VersionAttr[v] \in {"none", "3602", "appctl"}
        BY <2>1, ConstantsAssumption
      <3> QED BY <3>1 DEF VersionVars, ProjectVars, EnvVars
    <2>3. VersionVars(v, a) # {} <=> VersionAttr[v] # "none"
      BY <2>1, ConstantsAssumption DEF VersionVars, Vars3602, VarsAppctl
    <2>4. VersionVars(v, a) \cap ProjectVars(p) = {}
      BY <2>1, VariableSets
    <2>5. InProject <=> p \in Projects
      BY TypedIndex, ConstantsAssumption DEF Typed, IndexOfNode
    <2>6. ProjectVars(p) # {} <=> ProjectAttr[p] = "fcms"
      BY DEF ProjectVars, VarsFcms
    <2>7. ASSUME NEW x \in EnvVars
          PROVE  /\ x \in VersionVars(v, a) => env[x] = <<v, a>>
                 /\ x \in ProjectVars(p) /\ p \in Projects => env[x] = <<v, Last(p)>>
                 /\ \/ env[x] \in {Unset, UserSet} \/ x \in VersionVars(v, a)
                    \/ x \in ProjectVars(p) /\ p \in Projects
      <3>1. env[x] = Expected(x) \/ (env[x] = UserSet /\ Expected(x) = Unset)
        BY DEF EnvironmentOfNode, EnvOfNode
      <3>2. <<v, a>> # Unset /\ <<v, Last(p)>> # Unset
        BY DEF Unset
      <3>3. /\ x \in VersionVars(v, a) => Expected(x) = <<v, a>>
            /\ x \in ProjectVars(p) /\ p \in Projects => Expected(x) = <<v, Last(p)>>
            /\ \/ Expected(x) = Unset \/ x \in VersionVars(v, a)
               \/ x \in ProjectVars(p) /\ p \in Projects
        BY <1>2, <2>4, <2>5 DEF Expected
      <3> QED BY <3>1, <3>2, <3>3
    <2>8. <<v, a>> \notin {Unset, UserSet} /\ <<v, Last(p)>> \notin {Unset, UserSet}
      BY DEF Unset, UserSet
    <2>9. \A o : o \in W!ExportsOf(WPlace) <=>
                 \/ v \in WExportingVersions /\ o = <<v, a>>
                 \/ p \in WExportingProjects /\ o = <<v, Last(p)>>
      BY <2>1 DEF W!ExportsOf, WExportingVersions, WExportingProjects, W!Last, Last
    <2> HIDE DEF v, a, p
    <2>10. ASSUME NEW o \in WExported PROVE o \in W!ExportsOf(WPlace)
      <3>1. PICK x \in EnvVars : o = env[x] /\ env[x] \notin {Unset, UserSet}
        BY <2>10 DEF WExported
      <3>2. CASE x \in VersionVars(v, a)
        BY <3>1, <3>2, <2>1, <2>3, <2>7, <2>9 DEF WExportingVersions
      <3>3. CASE x \in ProjectVars(p) /\ p \in Projects
        BY <3>1, <3>3, <2>6, <2>7, <2>9 DEF WExportingProjects
      <3> QED BY <3>1, <3>2, <3>3, <2>7
    <2>11. ASSUME NEW o \in W!ExportsOf(WPlace) PROVE o \in WExported
      <3>1. CASE o = <<v, a>> /\ v \in WExportingVersions
        <4>1. PICK x \in EnvVars : x \in VersionVars(v, a)
          BY <3>1, <2>2, <2>3 DEF WExportingVersions
        <4> QED BY <3>1, <4>1, <2>7, <2>8 DEF WExported
      <3>2. CASE o = <<v, Last(p)>> /\ p \in WExportingProjects
        <4>1. PICK x \in EnvVars : x \in ProjectVars(p)
          BY <3>2, <2>2, <2>6 DEF WExportingProjects
        <4> QED BY <3>2, <4>1, <2>7, <2>8 DEF WExported, WExportingProjects
      <3> QED BY <2>9, <2>11, <3>1, <3>2
    <2> QED BY <2>10, <2>11
  <1> QED BY <1>1, <1>2

(* What an action does to the place: it stays, goes one level down or up,  *)
(* or leaves altogether.                                                   *)
PlaceStep ==
    \/ WPlace' = WPlace
    \/ /\ WPlace = W!Nowhere
       /\ \E v \in Versions, a \in Archs : WPlace' = W!Place(v, a, <<>>)
    \/ /\ WPlace.ver # NoName /\ WPlace.proj = <<>>
       /\ \E p \in Projects : WPlace' = W!Place(WPlace.ver, WPlace.arch, p)
    \/ /\ WPlace.proj # <<>>
       /\ WPlace' = W!Place(WPlace.ver, WPlace.arch, <<>>)
    \/ WPlace # W!Nowhere /\ WPlace' = W!Nowhere

LEMMA PlaceSteps ==
    ASSUME Typed, Typed', EnvironmentOfNode, [Next]_vars PROVE PlaceStep
  <1>1. ASSUME UNCHANGED <<index, arch>> PROVE WPlace' = WPlace
    BY <1>1 DEF WPlace
  <1>2. ASSUME ~InVersion' PROVE WPlace' = W!Nowhere
    <2>1. (Typed /\ ~InVersion => WPlace = W!Nowhere)'
      BY PlaceOfNode, PTL
    <2> QED BY <1>2, <2>1
  <1>3. CASE Start \/ Quit \/ Eof
    <2>1. ~InVersion'
      BY <1>3 DEF Start, Quit, Eof, NoProcess, InVersion
    <2> QED BY <1>2, <2>1 DEF PlaceStep
  <1>4. CASE \E v \in Versions, a \in Archs, refresh \in BOOLEAN : GetVersion(v, a, refresh)
    <2>1. PICK v \in Versions, a \in Archs, refresh \in BOOLEAN : GetVersion(v, a, refresh)
      BY <1>4
    <2>2. ~InVersion /\ WPlace = W!Nowhere
      BY <2>1, PlaceOfNode DEF GetVersion, InVersion
    <2>3. CASE VersionEnters(v, a, refresh)
      <3>1. index' = VersionIndex(v) /\ arch'[v] = a /\ v # NoName
        BY <2>3, ConstantsAssumption DEF VersionEnters, Typed, TypeOK
      <3>2. WPlace' = W!Place(v, a, <<>>)
        BY <3>1, IndexTypes DEF WPlace, W!Place
      <3> QED BY <2>2, <3>2 DEF PlaceStep
    <2>4. CASE ~VersionEnters(v, a, refresh)
      <3>1. ~InVersion'
        BY <2>1, <2>4 DEF GetVersion, VersionDirFails, VersionArchFails, VersionRefreshFails,
                          session, InVersion
      <3> QED BY <1>2, <2>2, <3>1 DEF PlaceStep
    <2> QED BY <2>3, <2>4
  <1>5. CASE VersionExit \/ ProjectEnd
    <2>1. ~InVersion' /\ InVersion
      BY <1>5 DEF VersionExit, ProjectEnd, InVersion
    <2> QED BY <1>2, <2>1, PlaceOfNode DEF PlaceStep
  <1>6. CASE \E p \in Projects, refresh \in BOOLEAN : GetProject(p, refresh)
    <2>1. PICK p \in Projects, refresh \in BOOLEAN : GetProject(p, refresh)
      BY <1>6
    <2>2. /\ InVersion /\ ~InProject /\ arch' = arch /\ index.ver # NoName
          /\ WPlace.ver # NoName /\ WPlace.proj = <<>>
      BY <2>1, PlaceOfNode DEF GetProject, InVersion, InProject, Typed, IndexOfNode
    <2>3. CASE ProjectEnters(index.ver, p, refresh)
      <3>1. WPlace' = W!Place(WPlace.ver, WPlace.arch, p)
        BY <2>2, <2>3 DEF ProjectEnters, ProjectIndex, WPlace, W!Place
      <3> QED BY <2>2, <3>1 DEF PlaceStep
    <2>4. CASE ~ProjectEnters(index.ver, p, refresh)
      BY <1>1, <2>1, <2>2, <2>4
         DEF GetProject, ProjectCheckoutFails, ProjectInitFails, PlaceStep
    <2> QED BY <2>3, <2>4
  <1>7. CASE ProjectExit
    <2>1. /\ InVersion /\ InProject /\ arch' = arch /\ index.ver # NoName
          /\ index' = VersionIndex(index.ver)
      BY <1>7 DEF ProjectExit, InVersion, InProject, Typed, IndexOfNode
    <2>2. WPlace' = W!Place(WPlace.ver, WPlace.arch, <<>>)
      BY <2>1 DEF WPlace, W!Place, VersionIndex
    <2> QED BY <2>1, <2>2, PlaceOfNode DEF PlaceStep
  <1>8. CASE \/ VersionCmdRefresh \/ VersionBuild \/ \E p \in MkdirArgs : SystemMkdir(p)
             \/ ProjectCmdRefresh \/ ProjectConf \/ KernelConfFile \/ ProConfExit
             \/ UNCHANGED vars
    BY <1>1, <1>8 DEF VersionCmdRefresh, VersionBuild, SystemMkdir, ProjectCmdRefresh,
                      ProjectConf, KernelConfFile, ProConfExit, vars, PlaceStep
  <1> QED BY <1>3, <1>4, <1>5, <1>6, <1>7, <1>8 DEF Next

LEMMA RefinesNext ==
    ASSUME Typed, DirectoryOfNode, EnvironmentOfNode, Typed', DirectoryOfNode', EnvironmentOfNode', [Next]_vars
    PROVE  [W!Next]_(W!vars)
  <1>1. WDir = W!DirOf(WPlace) /\ WExported = W!ExportsOf(WPlace)
    BY DirIsDirOf, ExportsIsExportsOf
  <1>2. (Typed /\ DirectoryOfNode /\ EnvironmentOfNode =>
            WDir = W!DirOf(WPlace) /\ WExported = W!ExportsOf(WPlace))'
    BY DirIsDirOf, ExportsIsExportsOf, PTL
  <1>3. W!Arrived
    BY <1>2 DEF W!Arrived, WPlace, WDir, WExported
  <1>4. PlaceStep
    BY PlaceSteps
  <1>5. CASE WPlace' = WPlace
    BY <1>1, <1>2, <1>5 DEF W!vars, WPlace, WDir, WExported, W!DirOf, W!ExportsOf
  <1>6. CASE WPlace = W!Nowhere /\ \E v \in Versions, a \in Archs : WPlace' = W!Place(v, a, <<>>)
    BY <1>3, <1>6, Zenon DEF W!Next, W!EnterVersion, WPlace
  <1>7. CASE /\ WPlace.ver # NoName /\ WPlace.proj = <<>>
             /\ \E p \in Projects : WPlace' = W!Place(WPlace.ver, WPlace.arch, p)
    BY <1>3, <1>7, Zenon DEF W!Next, W!EnterProject, WPlace
  <1>8. CASE /\ WPlace.proj # <<>>
             /\ WPlace' = W!Place(WPlace.ver, WPlace.arch, <<>>)
    BY <1>3, <1>8, Zenon DEF W!Next, W!Leave, WPlace
  <1>9. CASE WPlace # W!Nowhere /\ WPlace' = W!Nowhere
    BY <1>3, <1>9, Zenon DEF W!Next, W!LeaveAll, WPlace
  <1> QED BY <1>4, <1>5, <1>6, <1>7, <1>8, <1>9 DEF PlaceStep

LEMMA RefinesInit == Init => W!Init
  <1> SUFFICES ASSUME Init PROVE W!Init
    OBVIOUS
  <1>1. Typed /\ DirectoryOfNode /\ EnvironmentOfNode /\ ~InVersion
    BY TypedInit, DirInvInit, EnvInvInit DEF Init, InVersion
  <1>2. WPlace = W!Nowhere
    BY <1>1, PlaceOfNode
  <1> QED BY <1>1, <1>2, DirIsDirOf, ExportsIsExportsOf DEF W!Init, WPlace, WDir, WExported

(* A session whose project names are flat implements Workspace: whatever   *)
(* svn, mkdir and the configure scripts answer, a line either does nothing *)
(* to the place, its directory and its exports, or all of one move.        *)
THEOREM SessionImplementsWorkspace == FlatNames => (Spec => ImplementsWorkspace)
  <1> SUFFICES ASSUME FlatNames PROVE Spec => ImplementsWorkspace
    OBVIOUS
  <1> DEFINE Inv == Typed /\ DirectoryOfNode /\ EnvironmentOfNode
  <1>1. Init => Inv /\ W!Init
    BY TypedInit, DirInvInit, EnvInvInit, RefinesInit
  <1>2. Inv /\ [Next]_vars => Inv'
    BY TypedNext, DirInvNext, EnvInvNext
  <1>3. Inv /\ Inv' /\ [Next]_vars => [W!Next]_(W!vars)
    BY RefinesNext
  <1> HIDE DEF Inv
  <1> QED BY <1>1, <1>2, <1>3, PTL DEF Spec, ImplementsWorkspace, W!Spec

=============================================================================
