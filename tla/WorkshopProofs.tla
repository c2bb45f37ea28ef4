--------------------------- MODULE WorkshopProofs ---------------------------
(***************************************************************************)
(* Proofs about VersionRegistry, ProjectMake and their composition, for    *)
(* every set of words, repository and tables.  The registry: no version is *)
(* listed twice but by an odd spelling, and the directories give the list  *)
(* back.  The make lines: the process comes back to its project, and the   *)
(* links stay with their programs.                                         *)
(*                                                                         *)
(* Behind the registry: the directory of an entry is a name without '/',   *)
(* and ends in '+' only where a mkdir line made it, so that name and       *)
(* directory determine each other (Listed), no two entries share a         *)
(* directory, and a directory that shows has its entry or was made by      *)
(* mkdir lines, with all that is in it.                                    *)
(***************************************************************************)
EXTENDS Workshop, ListFacts, FiniteSetTheorems

-----------------------------------------------------------------------------
(* The invariant of the registry *)

Names == Seq(Characters)
Subdirs == Names \cup {LastComponent(SvnPath(n)) : n \in Names}
Entries == [name : Names, dir : Names, attr : {VersionAttr[n] : n \in Names}, projects : SUBSET Subdirs]

AtTypes ==
    /\ at \in [version : Nat, arch : Archs \cup {""}, project : ProjectWords \cup {<<>>}]
    /\ at.version \in 0 .. Len(versions)
    /\ at.version # 0 => at.arch \in Archs
    /\ at.project # <<>> => at.version # 0 /\ at.project \in versions[at.version].projects
DiskTypes ==
    /\ IsFiniteSet(DOMAIN disk) /\ DOMAIN disk \subseteq Names
    /\ disk \in [DOMAIN disk -> SUBSET Subdirs]
RTypes ==
    /\ versions \in Seq(Entries) /\ running \in BOOLEAN
    /\ ~running => versions = <<>>
    /\ AtTypes /\ DiskTypes

(* Only a directory made by hand ends in '+'. *)
Proper(d) == Named(d) /\ (Last(d) = "+" => <<d>> \in byHand)

Entered(e) == Proper(e.dir) /\ e.name = VersionName(e.dir) /\ e.attr = VersionAttr[e.name]
Knows(e, s) == s \in e.projects \cup AlsoMade(e) \/ <<e.dir, s>> \in byHand

Listed == \A i \in DOMAIN versions : Entered(versions[i])
DirsDiffer == \A i, j \in DOMAIN versions : versions[i].dir = versions[j].dir => i = j
DirsProper == \A d \in Visible(DOMAIN disk) : Proper(d)
Covered ==
    running => \A d \in Visible(DOMAIN disk) :
       \/ \E i \in DOMAIN versions : versions[i].dir = d
       \/ <<d>> \in byHand /\ \A s \in disk[d] : <<d, s>> \in byHand
Known ==
    \A i \in DOMAIN versions : versions[i].dir \in Visible(DOMAIN disk) =>
       \A s \in Visible(disk[versions[i].dir]) : Knows(versions[i], s)

RInv == RTypes /\ Listed /\ DirsDiffer /\ DirsProper /\ Covered /\ Known

-----------------------------------------------------------------------------
(* Names and directories *)

LEMMA NameFixed ==
    ASSUME NEW s \in Names, s # <<>>, Last(s) # "/"
    PROVE  FixName(s) = s
  <1> DEFINE T == {i \in DOMAIN s : s[i] # "/"}
  <1>1. Len(s) \in Nat /\ T \in SUBSET (0 .. Len(s)) /\ Len(s) \in T
    BY DEF Names, Last
  <1> HIDE DEF T
  <1>2. Max(T) \in T /\ \A y \in T : y <= Max(T)
    BY <1>1, MaxIsGreatest
  <1>3. Max(T) = Len(s)
    <2>1. Max(T) \in 0 .. Len(s) /\ Len(s) <= Max(T)
      BY <1>1, <1>2
    <2> QED  BY <1>1, <2>1
  <1>4. SubSeq(s, 1, Len(s)) = s
    BY DEF Names
  <1> QED  BY <1>3, <1>4 DEF FixName, T

LEMMA NameFixes ==
    ASSUME NEW s \in Names, \E i \in DOMAIN s : s[i] # "/"
    PROVE  /\ FixName(s) \in Names /\ FixName(s) # <<>> /\ Last(FixName(s)) # "/"
           /\ FixName(FixName(s)) = FixName(s)
  <1> DEFINE T == {i \in DOMAIN s : s[i] # "/"}
             f == SubSeq(s, 1, Max(T))
  <1>1. Len(s) \in Nat /\ T \in SUBSET (0 .. Len(s)) /\ T # {}
    BY DEF Names
  <1>2. Max(T) \in T
    <2> HIDE DEF T
    <2> QED  BY <1>1, MaxIsGreatest
  <1>3. Max(T) \in 1 .. Len(s) /\ s[Max(T)] # "/"
    BY <1>2 DEF Names
  <1> HIDE DEF T
  <1>4. f \in Names /\ Len(f) = Max(T) /\ f[Max(T)] = s[Max(T)]
    BY <1>3 DEF Names
  <1>5. FixName(s) = f
    BY DEF FixName, T
  <1> HIDE DEF f
  <1>6. f # <<>> /\ Last(f) # "/"
    BY <1>3, <1>4 DEF Last, Names
  <1> QED  BY <1>4, <1>5, <1>6, NameFixed

LEMMA ChangedIs ==
    ASSUME NEW s \in Names, NEW from, NEW to \in Characters
    PROVE  /\ Changed(s, from, to) \in Names /\ Len(Changed(s, from, to)) = Len(s)
           /\ DOMAIN Changed(s, from, to) = DOMAIN s
           /\ \A i \in DOMAIN s : Changed(s, from, to)[i] = IF s[i] = from THEN to ELSE s[i]
  <1> DEFINE c == [i \in DOMAIN s |-> IF s[i] = from THEN to ELSE s[i]]
  <1>1. DOMAIN s = 1 .. Len(s) /\ Len(s) \in Nat /\ \A i \in 1 .. Len(s) : s[i] \in Characters
    BY DEF Names
  <1>2. /\ c \in [1 .. Len(s) -> Characters] /\ DOMAIN c = DOMAIN s
        /\ \A i \in DOMAIN s : c[i] = IF s[i] = from THEN to ELSE s[i]
    BY <1>1
  <1>3. Changed(s, from, to) = c
    BY DEF Changed
  <1> HIDE DEF c
  <1>4. c \in Names /\ Len(c) = Len(s)
    BY <1>1, <1>2 DEF Names
  <1> QED  BY <1>2, <1>3, <1>4

LEMMA VersionNameIs ==
    ASSUME NEW s \in Names
    PROVE  /\ VersionName(s) \in Names /\ Len(VersionName(s)) = Len(s)
           /\ DOMAIN VersionName(s) = DOMAIN s
           /\ \A i \in DOMAIN s : VersionName(s)[i] = IF s[i] = "+" THEN "/" ELSE s[i]
  <1>1. "/" \in Characters
    BY RegistryAssumption
  <1>2. /\ Changed(s, "+", "/") \in Names /\ Len(Changed(s, "+", "/")) = Len(s)
        /\ DOMAIN Changed(s, "+", "/") = DOMAIN s
        /\ \A i \in DOMAIN s : Changed(s, "+", "/")[i] = IF s[i] = "+" THEN "/" ELSE s[i]
    BY <1>1, ChangedIs
  <1> QED  BY <1>2 DEF VersionName

LEMMA DirNameIs ==
    ASSUME NEW s \in Names
    PROVE  /\ DirName(s) \in Names /\ Len(DirName(s)) = Len(s)
           /\ DOMAIN DirName(s) = DOMAIN s
           /\ \A i \in DOMAIN s : DirName(s)[i] = IF s[i] = "/" THEN "+" ELSE s[i]
  <1>1. "+" \in Characters
    BY RegistryAssumption
  <1>2. /\ Changed(s, "/", "+") \in Names /\ Len(Changed(s, "/", "+")) = Len(s)
        /\ DOMAIN Changed(s, "/", "+") = DOMAIN s
        /\ \A i \in DOMAIN s : Changed(s, "/", "+")[i] = IF s[i] = "/" THEN "+" ELSE s[i]
    BY <1>1, ChangedIs
  <1> QED  BY <1>2 DEF DirName

LEMMA NotEmpty ==
    ASSUME NEW s \in Names
    PROVE  s # <<>> <=> Len(s) \in DOMAIN s /\ 1 \in DOMAIN s
  BY DEF Names

LEMMA SameName ==
    ASSUME NEW s \in Names, NEW t \in Names, Len(s) = Len(t), \A i \in DOMAIN s : s[i] = t[i]
    PROVE  s = t
  BY DEF Names

(* A directory gives its name, and the name the directory. *)
LEMMA NameOfDir ==
    ASSUME NEW d \in Names, Named(d)
    PROVE  /\ VersionName(d) \in Names /\ DirName(d) = d /\ DirName(VersionName(d)) = d
           /\ Last(d) # "+" => FixName(VersionName(d)) = VersionName(d)
  <1> DEFINE n == VersionName(d)
             a == DirName(d)
             b == DirName(n)
  <1>1. /\ n \in Names /\ Len(n) = Len(d) /\ DOMAIN n = DOMAIN d
        /\ \A i \in DOMAIN d : n[i] = IF d[i] = "+" THEN "/" ELSE d[i]
    BY VersionNameIs
  <1>2. /\ a \in Names /\ Len(a) = Len(d) /\ DOMAIN a = DOMAIN d
        /\ \A i \in DOMAIN d : a[i] = IF d[i] = "/" THEN "+" ELSE d[i]
    BY DirNameIs
  <1> HIDE DEF n
  <1>3. /\ b \in Names /\ Len(b) = Len(n) /\ DOMAIN b = DOMAIN n
        /\ \A i \in DOMAIN n : b[i] = IF n[i] = "/" THEN "+" ELSE n[i]
    BY <1>1, DirNameIs
  <1> HIDE DEF a, b
  <1>4. d # <<>> /\ \A i \in DOMAIN d : d[i] # "/"
    BY DEF Named
  <1>5. a = d
    BY <1>2, <1>4, SameName
  <1>6. b = d
    BY <1>1, <1>3, <1>4, SameName
  <1>7. n # <<>> /\ (Last(d) # "+" => Last(n) # "/")
    BY <1>1, <1>4, NotEmpty DEF Last
  <1> QED  BY <1>1, <1>5, <1>6, <1>7, NameFixed DEF n, a, b

LEMMA DirOfName ==
    ASSUME NEW n \in Names, n # <<>>, Last(n) # "/", "+" \notin ToSet(n)
    PROVE  /\ DirName(n) \in Names /\ Proper(DirName(n))
           /\ VersionName(DirName(n)) = n /\ VersionName(n) = n
  <1> DEFINE d == DirName(n)
             a == VersionName(d)
             b == VersionName(n)
  <1>1. /\ d \in Names /\ Len(d) = Len(n) /\ DOMAIN d = DOMAIN n
        /\ \A i \in DOMAIN n : d[i] = IF n[i] = "/" THEN "+" ELSE n[i]
    BY DirNameIs
  <1>2. /\ b \in Names /\ Len(b) = Len(n) /\ DOMAIN b = DOMAIN n
        /\ \A i \in DOMAIN n : b[i] = IF n[i] = "+" THEN "/" ELSE n[i]
    BY VersionNameIs
  <1> HIDE DEF d
  <1>3. /\ a \in Names /\ Len(a) = Len(d) /\ DOMAIN a = DOMAIN d
        /\ \A i \in DOMAIN d : a[i] = IF d[i] = "+" THEN "/" ELSE d[i]
    BY <1>1, VersionNameIs
  <1> HIDE DEF a, b
  <1>4. \A i \in DOMAIN n : n[i] # "+"
    BY InToSet DEF Names
  <1>5. b = n
    BY <1>2, <1>4, SameName
  <1>6. a = n
    BY <1>1, <1>3, <1>4, SameName
  <1>7. Len(n) \in DOMAIN n /\ 1 \in DOMAIN n /\ d # <<>>
    BY <1>1, NotEmpty
  <1>8. Proper(d)
    BY <1>1, <1>4, <1>7 DEF Proper, Named, Last
  <1> QED  BY <1>1, <1>5, <1>6, <1>8 DEF d, a, b

LEMMA CreateIs ==
    ASSUME NEW s \in Names
    PROVE  /\ VersionCreate(s) \in Entries /\ VersionCreate(s).projects = {}
           /\ VersionCreate(s).name = VersionName(s) /\ VersionCreate(s).dir = DirName(s)
           /\ VersionCreate(s).attr = VersionAttr[VersionName(s)]
  BY VersionNameIs, DirNameIs DEF VersionCreate, Entries

(* An order of readdir has every directory once. *)
LEMMA OrderHasAll ==
    ASSUME NEW V, IsFiniteSet(V), NEW order \in SetToSeqs(V)
    PROVE  /\ order \in Seq(V)
           /\ \A i, j \in DOMAIN order : order[i] = order[j] => i = j
           /\ \A d \in V : \E i \in DOMAIN order : order[i] = d
  <1> DEFINE D == 1 .. Cardinality(V)
  <1>1. Cardinality(V) \in Nat
    BY FS_CardinalityType
  <1>2. order \in [D -> V] /\ \A i, j \in D : i # j => order[i] # order[j]
    BY DEF SetToSeqs
  <1>3. IsFiniteSet(D) /\ Cardinality(D) = Cardinality(V)
    <2>1. /\ IsFiniteSet(1 .. Cardinality(V))
          /\ Cardinality(1 .. Cardinality(V)) = IF 1 > Cardinality(V) THEN 0 ELSE Cardinality(V) - 1 + 1
      BY <1>1, FS_Interval
    <2> QED  BY <1>1, <2>1
  <1>4. order \in Seq(V) /\ DOMAIN order = D
    BY <1>1, <1>2
  <1> HIDE DEF D
  <1>5. order \in Injection(D, V)
    BY <1>2 DEF Injection, IsInjective
  <1>6. order \in Surjection(D, V)
    BY <1>3, <1>5, FS_Injection
  <1>7. \A d \in V : \E i \in D : order[i] = d
    BY <1>6 DEF Surjection
  <1> QED  BY <1>2, <1>4, <1>7

-----------------------------------------------------------------------------
(* The registry's steps *)

LEMMA BuildIs == <<"build">> \in Subdirs
  BY RegistryAssumption DEF Names, Subdirs

LEMMA AtOutside ==
    ASSUME versions \in Seq(Entries), at = Outside
    PROVE  AtTypes
  <1>1. at.version = 0 /\ at.project = <<>>
    BY DEF Outside
  <1>2. at \in [version : Nat, arch : Archs \cup {""}, project : ProjectWords \cup {<<>>}]
    BY DEF Outside
  <1>3. at.version \in 0 .. Len(versions)
    BY <1>1
  <1> QED  BY <1>1, <1>2, <1>3 DEF AtTypes

LEMMA RInit == Init => RInv
  <1> SUFFICES ASSUME Init PROVE RInv
    OBVIOUS
  <1>1. versions = <<>> /\ versions \in Seq(Entries) /\ DOMAIN versions = {} /\ Len(versions) = 0
    BY DEF Init
  <1>2. AtTypes
    BY <1>1, AtOutside DEF Init
  <1>3. /\ IsFiniteSet(DOMAIN disk) /\ DOMAIN disk \subseteq Names
        /\ disk \in [DOMAIN disk -> SUBSET Names]
        /\ \A d \in Visible(DOMAIN disk) : Named(d) /\ Last(d) # "+"
    BY RegistryAssumption DEF Init, Names
  <1>4. DiskTypes /\ DirsProper
    BY <1>3 DEF DiskTypes, DirsProper, Proper, Subdirs
  <1> QED  BY <1>1, <1>2, <1>4 DEF Init, RInv, RTypes, Listed, DirsDiffer, Covered, Known

LEMMA StartStep ==
    ASSUME RInv, Start, UNCHANGED byHand
    PROVE  RInv'
  <1> DEFINE V == Visible(DOMAIN disk)
  <1>0. AtTypes /\ versions = <<>>
    BY DEF RInv, RTypes, Start
  <1>1. /\ IsFiniteSet(DOMAIN disk) /\ DOMAIN disk \subseteq Names
        /\ disk \in [DOMAIN disk -> SUBSET Subdirs] /\ UNCHANGED <<at, disk>> /\ running' = TRUE
        /\ DirsProper /\ DiskTypes
    BY DEF RInv, RTypes, DiskTypes, Start
  <1>2. PICK order \in SetToSeqs(V) :
           versions' = [i \in DOMAIN order |->
                         [VersionCreate(order[i]) EXCEPT !.projects = Visible(disk[order[i]])]]
    BY DEF Start
  <1>3. IsFiniteSet(V) /\ V \subseteq DOMAIN disk
    <2>1. V \in SUBSET DOMAIN disk
      BY DEF Visible
    <2> QED  BY <1>1, <2>1, FS_Subset
  <1>4. \A d \in V : Proper(d) /\ d \in Names
    BY <1>1, <1>3 DEF DirsProper
  <1> HIDE DEF V
  <1>5. /\ order \in Seq(V)
        /\ \A i, j \in DOMAIN order : order[i] = order[j] => i = j
        /\ \A d \in V : \E i \in DOMAIN order : order[i] = d
    BY <1>3, OrderHasAll
  <1>6. \A i \in DOMAIN order : order[i] \in V
    BY <1>5
  <1>7. ASSUME NEW i \in DOMAIN order
        PROVE  /\ versions'[i] \in Entries /\ Entered(versions'[i]) /\ versions'[i].dir = order[i]
               /\ versions'[i].projects = Visible(disk[order[i]])
    <2> DEFINE d == order[i]
               c == VersionCreate(d)
               e == [c EXCEPT !.projects = Visible(disk[d])]
    <2>1. d \in Names /\ Proper(d) /\ Named(d) /\ d \in DOMAIN disk
      BY <1>3, <1>4, <1>6 DEF Proper
    <2>2. Visible(disk[d]) \in SUBSET Subdirs
      BY <1>1, <2>1 DEF Visible
    <2>3. versions'[i] = e
      BY <1>2
    <2> HIDE DEF d
    <2>4. c \in Entries /\ c.name = VersionName(d) /\ c.dir = d /\ c.attr = VersionAttr[VersionName(d)]
      BY <2>1, CreateIs, NameOfDir
    <2> HIDE DEF c
    <2>5. /\ e \in Entries /\ e.name = VersionName(d) /\ e.dir = d
          /\ e.attr = VersionAttr[VersionName(d)] /\ e.projects = Visible(disk[d])
      BY <2>2, <2>4 DEF Entries
    <2> HIDE DEF e
    <2> QED  BY <2>1, <2>3, <2>5 DEF Entered, d
  <1>8. versions' \in Seq(Entries) /\ DOMAIN versions' = DOMAIN order /\ Len(versions') \in Nat
    <2>1. DOMAIN order = 1 .. Len(order) /\ Len(order) \in Nat
      BY <1>5
    <2>2. versions' = [i \in 1 .. Len(order) |-> versions'[i]]
      BY <1>2, <2>1
    <2>3. versions' \in Seq(Entries) /\ DOMAIN versions' = 1 .. Len(order)
      BY <1>7, <2>1, <2>2
    <2> QED  BY <2>1, <2>3
  <1>9. AtTypes'
    <2>0. Len(versions) = 0
      BY <1>0
    <2>1. at.version = 0
      <3>1. at.version \in 0 .. Len(versions)
        BY <1>0 DEF AtTypes
      <3> QED  BY <2>0, <3>1
    <2>2. at.version \in 0 .. Len(versions')
      BY <1>8, <2>1
    <2> QED  BY <1>0, <1>1, <2>1, <2>2 DEF AtTypes
  <1>10. RTypes'
    BY <1>1, <1>8, <1>9 DEF RTypes, DiskTypes
  <1>11. Listed'
    BY <1>7, <1>8 DEF Listed, Entered, Proper
  <1>12. DirsDiffer'
    BY <1>5, <1>7, <1>8 DEF DirsDiffer
  <1>13. DirsProper'
    BY <1>1 DEF DirsProper, Proper
  <1>14. Covered'
    BY <1>1, <1>5, <1>7, <1>8 DEF Covered, V
  <1>15. Known'
    BY <1>1, <1>7, <1>8 DEF Known, Knows
  <1> QED  BY <1>10, <1>11, <1>12, <1>13, <1>14, <1>15 DEF RInv

LEMMA StopStep ==
    ASSUME RInv, Stop, UNCHANGED byHand
    PROVE  RInv'
  <1>1. versions' = <<>> /\ versions' \in Seq(Entries) /\ DOMAIN versions' = {} /\ Len(versions') = 0
    BY DEF Stop
  <1>2. AtTypes'
    <2>1. at' = Outside
      BY DEF Stop
    <2>2. at'.version = 0 /\ at'.project = <<>>
      BY <2>1 DEF Outside
    <2>3. at' \in [version : Nat, arch : Archs \cup {""}, project : ProjectWords \cup {<<>>}]
      BY <2>1 DEF Outside
    <2>4. at'.version \in 0 .. Len(versions')
      BY <1>1, <2>2
    <2> QED  BY <2>2, <2>3, <2>4 DEF AtTypes
  <1>3. RTypes'
    BY <1>1, <1>2 DEF Stop, RTypes, DiskTypes, RInv
  <1>4. DirsProper'
    BY DEF Stop, RInv, DirsProper, Proper
  <1> QED  BY <1>1, <1>3, <1>4 DEF Stop, RInv, Listed, DirsDiffer, Covered, Known

LEMMA ExitStep ==
    ASSUME RInv, Exit, UNCHANGED byHand
    PROVE  RInv'
  <1>0. AtTypes /\ Len(versions) \in Nat
    BY DEF RInv, RTypes
  <1>1. AtTypes'
    <2>0. versions \in Seq(Entries) /\ UNCHANGED versions
      BY DEF RInv, RTypes, Exit
    <2>1. CASE at' = Outside
      <3>1. at'.version = 0 /\ at'.project = <<>>
        BY <2>1 DEF Outside
      <3>2. at' \in [version : Nat, arch : Archs \cup {""}, project : ProjectWords \cup {<<>>}]
        BY <2>1 DEF Outside
      <3>3. at'.version \in 0 .. Len(versions')
        BY <1>0, <2>0, <3>1
      <3> QED  BY <3>1, <3>2, <3>3 DEF AtTypes
    <2>2. CASE at' = [at EXCEPT !.project = <<>>]
      <3>1. at \in [version : Nat, arch : Archs \cup {""}, project : ProjectWords \cup {<<>>}]
        BY <1>0 DEF AtTypes
      <3>2. at'.version = at.version /\ at'.arch = at.arch /\ at'.project = <<>>
        BY <2>2, <3>1
      <3>3. at' \in [version : Nat, arch : Archs \cup {""}, project : ProjectWords \cup {<<>>}]
        BY <2>2, <3>1
      <3> QED  BY <1>0, <2>0, <3>2, <3>3 DEF AtTypes
    <2> QED  BY <2>1, <2>2 DEF Exit
  <1>2. RTypes'
    BY <1>1 DEF Exit, RTypes, DiskTypes, RInv
  <1>3. Listed' /\ DirsProper'
    BY DEF Exit, RInv, Listed, DirsProper, Entered, Proper
  <1> QED  BY <1>2, <1>3 DEF Exit, RInv, DirsDiffer, Covered, Known, Knows

LEMMA MakesDoes ==
    ASSUME DiskTypes, NEW dir \in Names, NEW new \in SUBSET Subdirs, Makes(dir, new)
    PROVE  /\ DiskTypes' /\ DOMAIN disk' = DOMAIN disk \cup {dir}
           /\ disk'[dir] = Inside(dir) \cup new
           /\ \A d \in DOMAIN disk : d # dir => disk'[d] = disk[d]
  <1>1. /\ IsFiniteSet(DOMAIN disk) /\ DOMAIN disk \subseteq Names
        /\ disk \in [DOMAIN disk -> SUBSET Subdirs]
    BY DEF DiskTypes
  <1>2. Inside(dir) \in SUBSET Subdirs
    BY <1>1 DEF Inside
  <1>3. disk' = [d \in DOMAIN disk \cup {dir} |-> IF d = dir THEN Inside(d) \cup new ELSE disk[d]]
    BY DEF Makes
  <1>4. IsFiniteSet(DOMAIN disk \cup {dir}) /\ DOMAIN disk \cup {dir} \subseteq Names
    BY <1>1, FS_AddElement
  <1>5. disk' \in [DOMAIN disk \cup {dir} -> SUBSET Subdirs]
    BY <1>1, <1>2, <1>3
  <1> QED  BY <1>3, <1>4, <1>5 DEF DiskTypes

(* A line that makes directories of one version, listed before or appended *)
(* by it, and otherwise only adds projects to entries.                     *)
LEMMA GrowStep ==
    ASSUME RInv, running, UNCHANGED <<running, byHand>>,
           versions' \in Seq(Entries), Listed', DirsDiffer', AtTypes',
           \A i \in DOMAIN versions :
              /\ i \in DOMAIN versions' /\ versions'[i].dir = versions[i].dir
              /\ versions'[i].name = versions[i].name /\ versions'[i].attr = versions[i].attr
              /\ versions[i].projects \subseteq versions'[i].projects,
           NEW k \in DOMAIN versions', \A i \in DOMAIN versions' : i \in DOMAIN versions \/ i = k,
           NEW new \in SUBSET Subdirs, new \subseteq AlsoMade(versions'[k]),
           disk' = disk \/ Makes(versions'[k].dir, new)
    PROVE  RInv'
  <1> DEFINE dir == versions'[k].dir
  <1>1. DiskTypes /\ Listed /\ DirsProper /\ Covered /\ Known /\ running \in BOOLEAN
    BY DEF RInv, RTypes
  <1>2. dir \in Names /\ Proper(dir)
    <2>1. versions'[k] \in Entries
      OBVIOUS
    <2>2. Proper(dir)
      BY DEF Listed, Entered, Proper
    <2> QED  BY <2>1, <2>2 DEF Entries
  <1> HIDE DEF dir
  <1>3. /\ DiskTypes' /\ DOMAIN disk \subseteq DOMAIN disk' /\ DOMAIN disk' \subseteq DOMAIN disk \cup {dir}
        /\ \A d \in DOMAIN disk : d # dir => disk'[d] = disk[d]
        /\ dir \in DOMAIN disk' => \A s \in disk'[dir] :
              s \in new \/ (dir \in DOMAIN disk /\ s \in disk[dir])
    <2>1. CASE disk' = disk
      BY <1>1, <2>1 DEF DiskTypes
    <2>2. CASE Makes(dir, new)
      <3>1. /\ DiskTypes' /\ DOMAIN disk' = DOMAIN disk \cup {dir}
            /\ disk'[dir] = Inside(dir) \cup new
            /\ \A d \in DOMAIN disk : d # dir => disk'[d] = disk[d]
        BY <1>1, <1>2, <2>2, MakesDoes
      <3>2. \A s \in Inside(dir) : dir \in DOMAIN disk /\ s \in disk[dir]
        BY DEF Inside
      <3> QED  BY <3>1, <3>2
    <2> QED  BY <2>1, <2>2 DEF dir
  <1>4. RTypes'
    BY <1>1, <1>3 DEF RTypes
  <1>5. DirsProper'
    <2> SUFFICES ASSUME NEW d \in Visible(DOMAIN disk') PROVE Proper(d)
      BY DEF DirsProper, Proper
    <2>1. CASE d = dir
      BY <1>2, <2>1
    <2>2. CASE d # dir
      BY <1>1, <1>3, <2>2 DEF DirsProper, Visible
    <2> QED  BY <2>1, <2>2
  <1>6. Covered'
    <2> SUFFICES ASSUME NEW d \in Visible(DOMAIN disk'), d # dir
                 PROVE  \/ \E i \in DOMAIN versions' : versions'[i].dir = d
                        \/ <<d>> \in byHand /\ \A s \in disk'[d] : <<d, s>> \in byHand
      BY DEF Covered, dir
    <2>1. d \in Visible(DOMAIN disk) /\ disk'[d] = disk[d]
      BY <1>3 DEF Visible
    <2>2. CASE \E i \in DOMAIN versions : versions[i].dir = d
      BY <2>2
    <2> QED  BY <1>1, <2>1, <2>2 DEF Covered
  <1>7. Known'
    <2> SUFFICES ASSUME NEW i \in DOMAIN versions', versions'[i].dir \in Visible(DOMAIN disk'),
                        NEW s \in Visible(disk'[versions'[i].dir])
                 PROVE  Knows(versions'[i], s)
      BY DEF Known, Knows
    <2> DEFINE d == versions'[i].dir
    <2>1. CASE i # k \/ s \notin new
      <3>1. d \in Visible(DOMAIN disk) /\ s \in Visible(disk[d])
        <4>1. d # dir => d \in DOMAIN disk /\ s \in disk[d]
          BY <1>3 DEF Visible
        <4>2. d = dir => i = k
          BY DEF DirsDiffer, dir
        <4>3. d = dir => d \in DOMAIN disk /\ s \in disk[d]
          BY <1>3, <2>1, <4>2 DEF Visible
        <4> QED  BY <4>1, <4>3 DEF Visible
      <3>2. CASE i \in DOMAIN versions
        <4>1. Knows(versions[i], s)
          BY <1>1, <3>1, <3>2 DEF Known
        <4> QED  BY <3>2, <4>1 DEF Knows, AlsoMade
      <3>3. CASE i \notin DOMAIN versions
        (* The directory was there without an entry. *)
        <4>1. ~ \E j \in DOMAIN versions : versions[j].dir = d
          BY <3>3 DEF DirsDiffer
        <4>2. <<d, s>> \in byHand
          BY <1>1, <3>1, <4>1 DEF Covered, Visible
        <4> QED  BY <4>2 DEF Knows
      <3> QED  BY <3>2, <3>3
    <2>2. CASE i = k /\ s \in new
      BY <2>2 DEF Knows
    <2> QED  BY <2>1, <2>2
  <1> QED  BY <1>4, <1>5, <1>6, <1>7 DEF RInv

(* What is in the list has no '+' left to change. *)
LEMMA NameStays ==
    ASSUME NEW s \in Names
    PROVE  VersionName(VersionName(s)) = VersionName(s)
  <1> DEFINE n == VersionName(s)
             m == VersionName(n)
  <1>1. n \in Names /\ Len(n) = Len(s) /\ DOMAIN n = DOMAIN s /\ \A i \in DOMAIN s : n[i] # "+"
    BY VersionNameIs
  <1> HIDE DEF n
  <1>2. /\ m \in Names /\ Len(m) = Len(n)
        /\ \A i \in DOMAIN n : m[i] = IF n[i] = "+" THEN "/" ELSE n[i]
    BY <1>1, VersionNameIs
  <1> HIDE DEF m
  <1>3. m = n
    BY <1>1, <1>2, SameName
  <1> QED  BY <1>3 DEF m, n

LEMMA FoundIs ==
    ASSUME RInv, NEW name
    PROVE  VersionFind(name) # 0 <=> \E i \in DOMAIN versions : versions[i].name = name
  <1> DEFINE found == {i \in DOMAIN versions : versions[i].name = name}
  <1>1. found \in SUBSET Nat /\ 0 \notin found
    BY DEF RInv, RTypes
  <1>2. VersionFind(name) = IF found = {} THEN 0 ELSE Min(found)
    BY DEF VersionFind
  <1>3. found # {} => Min(found) \in found
    <2> HIDE DEF found
    <2> QED  BY <1>1, MinIsLeast
  <1>4. VersionFind(name) # 0 <=> found # {}
    <2> HIDE DEF found
    <2> QED  BY <1>1, <1>2, <1>3
  <1> QED  BY <1>4

(* version_get finds the entry, or appends one whose name and directory    *)
(* the list does not have.                                                 *)
LEMMA VersionGetDoes ==
    ASSUME RInv, NEW word \in VersionWords, VersionGet(FixName(word))
    PROVE  LET name == FixName(word)
           IN /\ versions' \in Seq(Entries) /\ VersionName(name) = name
              /\ \/ versions' = versions /\ \E i \in DOMAIN versions : versions[i].name = name
                 \/ /\ versions' = Append(versions, VersionCreate(name))
                    /\ name \in Names /\ name # <<>> /\ Last(name) # "/" /\ "+" \notin ToSet(name)
                    /\ \A i \in DOMAIN versions : versions[i].name # name
  <1> DEFINE name == FixName(word)
  <1>0. versions \in Seq(Entries) /\ Listed
    BY DEF RInv, RTypes
  <1>1. name \in Names /\ name # <<>> /\ Last(name) # "/" /\ (VersionExists(name) => "+" \notin ToSet(name))
    <2>1. word \in Names /\ \E i \in DOMAIN word : word[i] # "/"
      BY RegistryAssumption DEF Names
    <2> QED  BY <2>1, NameFixes, RegistryAssumption
  <1>2. VersionGet(name)
    OBVIOUS
  <1> HIDE DEF name
  <1>3. CASE VersionFind(name) # 0 /\ versions' = versions
    <2>1. PICK i \in DOMAIN versions : versions[i].name = name
      BY <1>3, FoundIs
    <2>2. versions[i].dir \in Names /\ name = VersionName(versions[i].dir)
      <3>1. versions[i] \in Entries
        BY <1>0
      <3> QED  BY <1>0, <2>1, <3>1 DEF Listed, Entered, Entries
    <2>3. VersionName(name) = name
      BY <2>2, NameStays
    <2> QED  BY <1>0, <1>3, <2>1, <2>3 DEF name
  <1>4. CASE /\ VersionFind(name) = 0 /\ VersionExists(name)
             /\ versions' = Append(versions, VersionCreate(name))
    <2>1. VersionCreate(name) \in Entries /\ VersionName(name) = name
      BY <1>1, <1>4, CreateIs, DirOfName
    <2>2. \A i \in DOMAIN versions : versions[i].name # name
      BY <1>4, FoundIs
    <2>3. versions' \in Seq(Entries)
      BY <1>0, <1>4, <2>1
    <2> QED  BY <1>1, <1>4, <2>1, <2>2, <2>3 DEF name
  <1> QED  BY <1>2, <1>3, <1>4 DEF VersionGet

LEMMA EntryIs ==
    ASSUME NEW name, VersionName(name) = name, versions' \in Seq(Entries),
           \E i \in DOMAIN versions' : versions'[i].name = name
    PROVE  Entry(name) \in DOMAIN versions' /\ versions'[Entry(name)].name = name
  <1> DEFINE found == {i \in DOMAIN versions' : versions'[i].name = VersionName(name)}
  <1>1. found \in SUBSET Nat /\ found # {}
    OBVIOUS
  <1>2. Entry(name) = Min(found)
    BY DEF Entry
  <1>3. Min(found) \in found
    <2> HIDE DEF found
    <2> QED  BY <1>1, MinIsLeast
  <1> QED  BY <1>2, <1>3

(* What the checkouts make are directories the program makes. *)
LEMMA RefreshMakes ==
    ASSUME NEW e, NEW arch \in Archs, NEW new \in RefreshStops(e, arch) \cup {{}, Refreshed(e, arch)}
    PROVE  new \in SUBSET Subdirs /\ new \subseteq AlsoMade(e)
  <1>1. <<arch, ".os">> \in Subdirs /\ <<"os.", arch>> \in Subdirs
    BY RegistryAssumption DEF Names, Subdirs
  <1>2. OsDir(e.attr, arch) \in SUBSET Subdirs
    BY <1>1 DEF OsDir
  <1>3. OsDir(e.attr, arch) \subseteq AlsoMade(e) /\ <<"build">> \in AlsoMade(e)
    BY DEF AlsoMade
  <1>4. new \subseteq {<<"build">>} \cup OsDir(e.attr, arch)
    BY DEF RefreshStops, Refreshed
  <1> HIDE DEF RefreshStops
  <1> QED  BY <1>2, <1>3, <1>4, BuildIs

LEMMA VersionStep ==
    ASSUME RInv, NEW word \in VersionWords, NEW arch \in Archs, Version(word, arch), UNCHANGED byHand
    PROVE  RInv'
  <1> DEFINE name == FixName(word)
             k == Entry(name)
             e == versions'[k]
             new == VersionCreate(name)
  <1>0. /\ versions \in Seq(Entries) /\ Len(versions) \in Nat /\ Listed /\ DirsDiffer
        /\ running /\ at = Outside /\ UNCHANGED running /\ VersionInit(k, e, arch)
    BY DEF RInv, RTypes, Version
  <1>1. /\ versions' \in Seq(Entries) /\ VersionName(name) = name
        /\ \/ versions' = versions /\ \E i \in DOMAIN versions : versions[i].name = name
           \/ /\ versions' = Append(versions, new)
              /\ name \in Names /\ name # <<>> /\ Last(name) # "/" /\ "+" \notin ToSet(name)
              /\ \A i \in DOMAIN versions : versions[i].name # name
    <2>1. VersionGet(FixName(word))
      BY DEF Version
    <2> QED  BY <2>1, VersionGetDoes
  <1> HIDE DEF name, k, e, new
  <1>2. /\ k \in DOMAIN versions' /\ Listed' /\ DirsDiffer'
        /\ \A i \in DOMAIN versions : i \in DOMAIN versions' /\ versions'[i] = versions[i]
        /\ \A i \in DOMAIN versions' : i \in DOMAIN versions \/ i = k
    <2>1. CASE versions' = versions
      <3>1. k \in DOMAIN versions'
        BY <1>1, <2>1, EntryIs DEF k
      <3>2. Listed' /\ DirsDiffer'
        BY <1>0, <2>1 DEF Listed, DirsDiffer, Entered, Proper
      <3> QED  BY <1>0, <2>1, <3>1, <3>2
    <2>2. CASE versions' # versions
      <3>1. /\ new \in Entries /\ new.name = name /\ new.dir = DirName(name) /\ new.attr = VersionAttr[name]
            /\ DirName(name) \in Names /\ Proper(DirName(name)) /\ VersionName(DirName(name)) = name
        BY <1>1, <2>2, CreateIs, DirOfName DEF new
      <3>2. /\ Len(versions) + 1 \in DOMAIN versions' /\ versions'[Len(versions) + 1] = new
            /\ \A i \in DOMAIN versions : i \in DOMAIN versions' /\ versions'[i] = versions[i]
            /\ \A i \in DOMAIN versions' : i \in DOMAIN versions \/ i = Len(versions) + 1
        BY <1>0, <1>1, <2>2, <3>1
      <3>3. k \in DOMAIN versions' /\ versions'[k].name = name
        BY <1>1, <3>1, <3>2, EntryIs DEF k
      <3>4. k = Len(versions) + 1
        BY <1>1, <2>2, <3>2, <3>3
      <3>5. Listed'
        BY <1>0, <3>1, <3>2 DEF Listed, Entered, Proper
      <3>6. \A i \in DOMAIN versions : versions[i].dir # new.dir
        BY <1>0, <1>1, <2>2, <3>1 DEF Listed, Entered
      <3>7. DirsDiffer'
        BY <1>0, <3>2, <3>6 DEF DirsDiffer
      <3> QED  BY <3>2, <3>3, <3>4, <3>5, <3>7
    <2> QED  BY <2>1, <2>2
  <1>3. PICK made \in RefreshStops(e, arch) \cup {{}, Refreshed(e, arch)} :
           /\ disk' = disk \/ Makes(e.dir, made)
           /\ at' = at \/ at' = [version |-> k, arch |-> arch, project |-> <<>>]
    BY <1>0, Zenon DEF VersionInit
  <1>4. made \in SUBSET Subdirs /\ made \subseteq AlsoMade(e)
    BY <1>3, RefreshMakes
  <1>5. AtTypes'
    <2>1. Len(versions') \in Nat /\ k \in 0 .. Len(versions') /\ 0 \in 0 .. Len(versions') /\ k \in Nat
      BY <1>1, <1>2
    <2>2. CASE at' = at
      <3>1. at'.version = 0 /\ at'.project = <<>>
        BY <1>0, <2>2 DEF Outside
      <3>2. at' \in [version : Nat, arch : Archs \cup {""}, project : ProjectWords \cup {<<>>}]
        BY <1>0, <2>2 DEF Outside
      <3> QED  BY <2>1, <3>1, <3>2 DEF AtTypes
    <2>3. CASE at' = [version |-> k, arch |-> arch, project |-> <<>>]
      <3>1. at'.version = k /\ at'.arch = arch /\ at'.project = <<>>
        BY <2>3
      <3>2. at' \in [version : Nat, arch : Archs \cup {""}, project : ProjectWords \cup {<<>>}]
        BY <2>1, <2>3
      <3> QED  BY <2>1, <3>1, <3>2 DEF AtTypes
    <2> QED  BY <1>3, <2>2, <2>3
  <1>6. disk' = disk \/ Makes(versions'[k].dir, made)
    BY <1>3 DEF e
  <1>7. made \subseteq AlsoMade(versions'[k])
    BY <1>4 DEF e
  <1>8. \A i \in DOMAIN versions :
              /\ i \in DOMAIN versions' /\ versions'[i].dir = versions[i].dir
              /\ versions'[i].name = versions[i].name /\ versions'[i].attr = versions[i].attr
              /\ versions[i].projects \subseteq versions'[i].projects
    BY <1>2
  <1> QED  BY <1>0, <1>1, <1>2, <1>4, <1>5, <1>6, <1>7, <1>8, GrowStep

(* The lines that change no entry. *)
LEMMA SameEntries ==
    ASSUME RInv, NEW k \in DOMAIN versions, UNCHANGED <<versions, at, running, byHand>>,
           NEW new \in SUBSET Subdirs, new \subseteq AlsoMade(versions[k]),
           Makes(versions[k].dir, new)
    PROVE  RInv'
  <1>1. /\ versions \in Seq(Entries) /\ Listed /\ DirsDiffer /\ AtTypes /\ running
    BY DEF RInv, RTypes
  <1>2. versions' \in Seq(Entries) /\ k \in DOMAIN versions' /\ Listed' /\ DirsDiffer' /\ AtTypes'
    BY <1>1 DEF Listed, DirsDiffer, AtTypes, Entered, Proper
  <1>3. new \subseteq AlsoMade(versions'[k]) /\ Makes(versions'[k].dir, new)
    OBVIOUS
  <1> QED  BY <1>1, <1>2, <1>3, GrowStep

LEMMA CurrentIs ==
    ASSUME RInv, at.version # 0
    PROVE  /\ at.version \in DOMAIN versions /\ Current \in Entries /\ at.arch \in Archs
           /\ running /\ Current.name \in Names /\ Current.dir \in Names
  <1>1. versions \in Seq(Entries) /\ at.version \in 0 .. Len(versions) /\ at.arch \in Archs
    BY DEF RInv, RTypes, AtTypes
  <1>2. at.version \in DOMAIN versions /\ Current \in Entries
    BY <1>1 DEF Current
  <1>3. versions # <<>>
    BY <1>1, <1>2
  <1> QED  BY <1>1, <1>2, <1>3 DEF RInv, RTypes, Entries

LEMMA RefreshStep ==
    ASSUME RInv, VersionRefresh, UNCHANGED byHand
    PROVE  RInv'
  <1>1. PICK new \in RefreshStops(Current, at.arch) : Makes(Current.dir, new)
    BY DEF VersionRefresh
  <1>2. at.version \in DOMAIN versions /\ at.arch \in Archs
    BY CurrentIs DEF VersionRefresh, AtVersion
  <1>3. new \in SUBSET Subdirs /\ new \subseteq AlsoMade(Current)
    BY <1>1, <1>2, RefreshMakes
  <1> QED  BY <1>1, <1>2, <1>3, SameEntries DEF VersionRefresh, Current

LEMMA BuildStep ==
    ASSUME RInv, VersionBuild, UNCHANGED byHand
    PROVE  RInv'
  <1>1. PICK new \in SUBSET ({LastComponent(SvnPath(Current.name))} \cup ByScript) : Makes(Current.dir, new)
    BY DEF VersionBuild
  <1>2. at.version \in DOMAIN versions /\ Current.name \in Names
    BY CurrentIs DEF VersionBuild, AtVersion
  <1>3. new \in SUBSET Subdirs
    BY <1>2, RegistryAssumption DEF Subdirs, Names
  <1>4. new \subseteq AlsoMade(Current)
    BY <1>1 DEF AlsoMade
  <1> QED  BY <1>1, <1>2, <1>3, <1>4, SameEntries DEF VersionBuild, Current

LEMMA ProjectMakes ==
    ASSUME NEW e, NEW p \in e.projects, NEW new \in {{}, {FixName(p)}}
    PROVE  new \subseteq AlsoMade(e)
  <1>1. FixName(p) \in {FixName(q) : q \in e.projects}
    OBVIOUS
  <1>2. {FixName(q) : q \in e.projects} \subseteq AlsoMade(e)
    <2> DEFINE fixed == {FixName(q) : q \in e.projects}
               rest == {<<"build">>, LastComponent(SvnPath(e.name))} \cup ByScript
                         \cup UNION {OsDir(e.attr, a) : a \in Archs}
    <2>1. AlsoMade(e) = rest \cup fixed
      BY DEF AlsoMade
    <2> HIDE DEF fixed, rest
    <2>2. fixed \subseteq AlsoMade(e)
      BY <2>1
    <2> QED  BY <2>2 DEF fixed
  <1>3. new = {} \/ new = {FixName(p)}
    OBVIOUS
  <1> QED  BY <1>1, <1>2, <1>3

LEMMA ProjectFixed ==
    ASSUME NEW word \in ProjectWords
    PROVE  word \in Names /\ word # <<>> /\ FixName(word) \in Names
  <1>1. word \in Names /\ \E i \in DOMAIN word : word[i] # "/"
    BY RegistryAssumption DEF Names
  <1>2. word # <<>>
    BY <1>1
  <1> QED  BY <1>1, <1>2, NameFixes

LEMMA ProjectRefreshStep ==
    ASSUME RInv, ProjectRefresh, UNCHANGED byHand
    PROVE  RInv'
  <1>1. PICK new \in {{}, {FixName(at.project)}} : Makes(Current.dir, new)
    BY DEF ProjectRefresh
  <1>2. at.version \in DOMAIN versions
    BY CurrentIs DEF ProjectRefresh, AtProject
  <1>3. at.project \in ProjectWords /\ at.project \in Current.projects
    BY DEF RInv, RTypes, AtTypes, ProjectRefresh, AtProject, Current
  <1>4. new \in SUBSET Subdirs
    BY <1>3, ProjectFixed DEF Subdirs
  <1>5. new \subseteq AlsoMade(Current)
    BY <1>1, <1>3, ProjectMakes
  <1> QED  BY <1>1, <1>2, <1>4, <1>5, SameEntries DEF ProjectRefresh, Current

LEMMA ProjectStep ==
    ASSUME RInv, NEW word \in ProjectWords, Project(word), UNCHANGED byHand
    PROVE  RInv'
  <1> DEFINE k == at.version
             e == versions[k]
             f == FixName(word)
             n == [e EXCEPT !.projects = @ \cup {word}]
  <1>0. /\ versions \in Seq(Entries) /\ Len(versions) \in Nat /\ AtTypes /\ Listed /\ DirsDiffer
    BY DEF RInv, RTypes
  <1>1. /\ word \in Names /\ word # <<>> /\ f \in Subdirs
    BY ProjectFixed DEF Subdirs
  <1>2. /\ k # 0 /\ UNCHANGED running
        /\ versions' = [versions EXCEPT ![k].projects = @ \cup {word}]
    BY DEF Project, ProjectGet, AtVersion
  <1>3. PICK new \in {{}, {f}} :
           Makes(e.dir, new) /\ (at' = at \/ at' = [at EXCEPT !.project = word])
    BY DEF Project, Current
  <1>4. k \in DOMAIN versions /\ e \in Entries /\ running
    BY <1>2, CurrentIs DEF Current
  <1>5. n \in Entries
    <2>1. e.projects \cup {word} \in SUBSET Subdirs
      BY <1>1, <1>4 DEF Entries, Subdirs
    <2> QED  BY <1>4, <2>1 DEF Entries
  <1>6. /\ n.dir = e.dir /\ n.name = e.name /\ n.attr = e.attr /\ n.projects = e.projects \cup {word}
    BY <1>4 DEF Entries
  <1>7. versions' = [versions EXCEPT ![k] = n]
    BY <1>2
  <1> HIDE DEF k, f, n
  <1>8. /\ versions' \in Seq(Entries) /\ DOMAIN versions' = DOMAIN versions /\ Len(versions') = Len(versions)
        /\ \A i \in DOMAIN versions : i # k => versions'[i] = versions[i]
        /\ versions'[k] = n
    BY <1>0, <1>4, <1>5, <1>7
  <1>9. \A i \in DOMAIN versions : /\ i \in DOMAIN versions' /\ versions'[i].dir = versions[i].dir
                                   /\ versions'[i].name = versions[i].name /\ versions'[i].attr = versions[i].attr
                                   /\ versions[i].projects \subseteq versions'[i].projects
    BY <1>6, <1>8
  <1>10. Listed' /\ DirsDiffer'
    BY <1>0, <1>8, <1>9 DEF Listed, Entered, Proper, DirsDiffer
  <1>11. AtTypes'
    <2>1. /\ at \in [version : Nat, arch : Archs \cup {""}, project : ProjectWords \cup {<<>>}]
          /\ k \in 0 .. Len(versions) /\ at.arch \in Archs /\ at.version = k
          /\ at.project # <<>> => at.project \in versions[k].projects
      BY <1>0, <1>2 DEF AtTypes, k
    <2>2. word \in versions'[k].projects
      BY <1>6, <1>8
    <2>3. CASE at' = at
      <3>1. at.project # <<>> => at.project \in versions'[k].projects
        BY <1>4, <1>9, <2>1
      <3> QED  BY <1>2, <1>8, <2>1, <2>3, <3>1 DEF AtTypes
    <2>4. CASE at' = [at EXCEPT !.project = word]
      <3>1. at'.version = k /\ at'.arch = at.arch /\ at'.project = word
        BY <2>1, <2>4
      <3>2. at' \in [version : Nat, arch : Archs \cup {""}, project : ProjectWords \cup {<<>>}]
        BY <2>1, <2>4
      <3> QED  BY <1>2, <1>8, <2>1, <2>2, <3>1, <3>2 DEF AtTypes
    <2> QED  BY <1>3, <2>3, <2>4
  <1>12. new \in SUBSET Subdirs
    BY <1>1, <1>3
  <1>13. new \subseteq AlsoMade(versions'[k])
    <2>1. word \in versions'[k].projects
      BY <1>6, <1>8
    <2>2. new \in {{}, {FixName(word)}}
      BY <1>3 DEF f
    <2> QED  BY <2>1, <2>2, ProjectMakes
  <1>14. Makes(versions'[k].dir, new)
    BY <1>3, <1>6, <1>8
  <1>15. k \in DOMAIN versions' /\ \A i \in DOMAIN versions' : i \in DOMAIN versions
    BY <1>4, <1>8
  <1> QED  BY <1>2, <1>4, <1>8, <1>9, <1>10, <1>11, <1>12, <1>13, <1>14, <1>15, GrowStep

(* A mkdir line leaves a trace of all it makes. *)
LEMMA MkdirStep ==
    ASSUME RInv, NEW path \in MkdirPaths, Mkdir(path)
    PROVE  RInv'
  <1> DEFINE dir == path[1]
             rest == {path[i] : i \in 2 .. Len(path)}
  <1>0. /\ RTypes /\ DiskTypes /\ Listed /\ DirsDiffer /\ DirsProper /\ Covered /\ Known
    BY DEF RInv, RTypes
  <1>1. path \in Seq(Names) /\ Len(path) \in {1, 2} /\ \A i \in DOMAIN path : Named(path[i])
    BY RegistryAssumption DEF Names
  <1>2. dir \in Names /\ Named(dir) /\ rest \in SUBSET Subdirs
    <2>1. dir \in Names /\ Named(dir) /\ \A i \in 2 .. Len(path) : path[i] \in Names
      BY <1>1
    <2> QED  BY <2>1 DEF Subdirs
  <1>3. PICK new \in {{}, rest} :
           /\ Makes(dir, new)
           /\ byHand' = byHand \cup ({<<dir>>} \ {<<d>> : d \in DOMAIN disk})
                               \cup {<<dir, s>> : s \in new \ Inside(dir)}
    BY DEF Mkdir
  <1> HIDE DEF dir, rest
  <1>4. UNCHANGED <<versions, at, running>>
    BY DEF Mkdir
  <1>5. new \in SUBSET Subdirs
    BY <1>2, <1>3
  <1>6. /\ DiskTypes' /\ DOMAIN disk' = DOMAIN disk \cup {dir}
        /\ disk'[dir] = Inside(dir) \cup new
        /\ \A d \in DOMAIN disk : d # dir => disk'[d] = disk[d]
    BY <1>0, <1>2, <1>3, <1>5, MakesDoes
  <1>7. /\ byHand \subseteq byHand' /\ \A s \in new : s \in Inside(dir) \/ <<dir, s>> \in byHand'
        /\ dir \notin DOMAIN disk => <<dir>> \in byHand'
    BY <1>3
  <1>8. dir \in DOMAIN disk => Inside(dir) = disk[dir]
    BY DEF Inside
  <1>9. dir \notin DOMAIN disk => Inside(dir) = {}
    BY DEF Inside
  <1>10. RTypes'
    BY <1>0, <1>4, <1>6 DEF RTypes, AtTypes
  <1>11. Listed' /\ DirsDiffer'
    BY <1>0, <1>4, <1>7 DEF Listed, DirsDiffer, Entered, Proper
  <1>12. DirsProper'
    <2> SUFFICES ASSUME NEW d \in Visible(DOMAIN disk')
                 PROVE  Named(d) /\ (Last(d) = "+" => <<d>> \in byHand')
      BY DEF DirsProper, Proper
    <2>1. CASE d \in DOMAIN disk
      BY <1>0, <1>7, <2>1 DEF DirsProper, Proper, Visible
    <2>2. CASE d \notin DOMAIN disk
      BY <1>2, <1>6, <1>7, <2>2 DEF Visible
    <2> QED  BY <2>1, <2>2
  <1>13. Covered'
    <2> SUFFICES ASSUME running, NEW d \in Visible(DOMAIN disk'),
                        ~ \E i \in DOMAIN versions : versions[i].dir = d
                 PROVE  <<d>> \in byHand' /\ \A s \in disk'[d] : <<d, s>> \in byHand'
      BY <1>4 DEF Covered
    <2>1. CASE d \in DOMAIN disk
      <3>1. <<d>> \in byHand /\ \A s \in disk[d] : <<d, s>> \in byHand
        BY <1>0, <2>1 DEF Covered, Visible
      <3>2. \A s \in disk'[d] : s \in disk[d] \/ (d = dir /\ s \in new)
        BY <1>6, <1>8, <2>1
      <3> QED  BY <1>7, <1>8, <2>1, <3>1, <3>2
    <2>2. CASE d \notin DOMAIN disk
      <3>1. d = dir /\ disk'[d] = new
        BY <1>6, <1>9, <2>2 DEF Visible
      <3> QED  BY <1>7, <1>9, <2>2, <3>1
    <2> QED  BY <2>1, <2>2
  <1>14. Known'
    <2> SUFFICES ASSUME NEW i \in DOMAIN versions, versions[i].dir \in Visible(DOMAIN disk'),
                        NEW s \in Visible(disk'[versions[i].dir])
                 PROVE  s \in versions[i].projects \cup AlsoMade(versions[i]) \/ <<versions[i].dir, s>> \in byHand'
      BY <1>4 DEF Known, Knows
    <2> DEFINE d == versions[i].dir
    <2>1. CASE d \in DOMAIN disk /\ s \in disk[d]
      <3>1. Knows(versions[i], s)
        BY <1>0, <2>1 DEF Known, Visible
      <3> QED  BY <1>7, <3>1 DEF Knows
    <2>2. CASE ~ (d \in DOMAIN disk /\ s \in disk[d])
      <3>1. d = dir /\ s \in new /\ s \notin Inside(dir)
        BY <1>6, <1>8, <1>9, <2>2 DEF Visible
      <3> QED  BY <1>7, <3>1
    <2> QED  BY <2>1, <2>2
  <1> QED  BY <1>10, <1>11, <1>12, <1>13, <1>14 DEF RInv

LEMMA RNext == RInv /\ [Next]_vars => RInv'
  <1> SUFFICES ASSUME RInv, [Next]_vars PROVE RInv'
    OBVIOUS
  <1>1. CASE UNCHANGED vars
    BY <1>1 DEF vars, RInv, RTypes, AtTypes, DiskTypes, Listed, Entered, Proper, DirsDiffer,
                DirsProper, Covered, Known, Knows
  <1>2. CASE \E p \in MkdirPaths : Mkdir(p)
    BY <1>2, MkdirStep
  <1>3. CASE Next /\ UNCHANGED byHand
    BY <1>2, <1>3, StartStep, StopStep, ExitStep, VersionStep, ProjectStep, RefreshStep, BuildStep,
       ProjectRefreshStep DEF Next
  <1> QED  BY <1>1, <1>2, <1>3 DEF Next

LEMMA RegistryInvariant == Spec => []RInv
  BY RInit, RNext, PTL DEF Spec

(* No version is listed twice but by an odd spelling or a directory made   *)
(* by hand (mk_fix_name, version_get, for_all_dirs).                       *)
THEOREM NoTwinsHolds == Spec => []NoTwins
  <1>1. RInv => NoTwins
    <2> SUFFICES ASSUME RInv, NEW i \in DOMAIN versions, NEW j \in DOMAIN versions, i # j
                 PROVE  LET a == versions[i]
                            b == versions[j]
                        IN /\ a.dir # b.dir
                           /\ Plain(a.name) /\ Plain(b.name) /\ SvnPath(a.name) = SvnPath(b.name)
                                 => <<a.dir>> \in byHand \/ <<b.dir>> \in byHand
      BY DEF NoTwins
    <2>1. \A n \in DOMAIN versions :
             /\ versions[n].dir \in Names /\ Proper(versions[n].dir) /\ Named(versions[n].dir)
             /\ versions[n].name = VersionName(versions[n].dir)
      <3>1. \A n \in DOMAIN versions : versions[n] \in Entries
        BY DEF RInv, RTypes
      <3>2. \A n \in DOMAIN versions : versions[n].dir \in Names
        BY <3>1 DEF Entries
      <3> QED  BY <3>2 DEF RInv, Listed, Entered, Proper
    <2>2. \A n \in DOMAIN versions :
             /\ DirName(versions[n].name) = versions[n].dir
             /\ <<versions[n].dir>> \notin byHand => FixName(versions[n].name) = versions[n].name
      BY <2>1, NameOfDir DEF Proper
    <2>3. versions[i].dir # versions[j].dir
      BY DEF RInv, DirsDiffer
    <2>4. ASSUME Plain(versions[i].name), Plain(versions[j].name),
                 SvnPath(versions[i].name) = SvnPath(versions[j].name)
          PROVE  FixName(versions[i].name) = FixName(versions[j].name)
      BY <2>4 DEF Plain
    <2> QED  BY <2>2, <2>3, <2>4
  <1> QED  BY RegistryInvariant, <1>1, PTL

(* What the next process reads from the disk is what this one knew: name,  *)
(* directory and row, and of projects only what a line of this one or of   *)
(* an earlier one made there (version_change_name, for_all_dirs).          *)
THEOREM RebuiltHolds == Spec => []Rebuilt
  <1>1. RInv => Rebuilt
    <2> SUFFICES ASSUME RInv, NEW i \in DOMAIN versions
                 PROVE  LET e == versions[i]
                        IN /\ VersionCreate(e.dir) = [e EXCEPT !.projects = {}]
                           /\ e.dir \in Visible(DOMAIN disk) =>
                                 \A s \in Visible(disk[e.dir]) :
                                    s \in e.projects \cup AlsoMade(e) \/ <<e.dir, s>> \in byHand
      BY DEF Rebuilt
    <2> DEFINE e == versions[i]
    <2>1. /\ e \in Entries /\ e.dir \in Names /\ Named(e.dir) /\ e.name = VersionName(e.dir)
          /\ e.attr = VersionAttr[e.name]
      <3>1. e \in Entries /\ Entered(e)
        BY DEF RInv, RTypes, Listed
      <3> QED  BY <3>1 DEF Entries, Entered, Proper
    <2>2. DirName(e.dir) = e.dir
      BY <2>1, NameOfDir
    <2>3. VersionCreate(e.dir) = [name |-> e.name, dir |-> e.dir, attr |-> e.attr, projects |-> {}]
      BY <2>1, <2>2 DEF VersionCreate
    <2>4. [e EXCEPT !.projects = {}] = [name |-> e.name, dir |-> e.dir, attr |-> e.attr, projects |-> {}]
      BY <2>1 DEF Entries
    <2>5. e.dir \in Visible(DOMAIN disk) => \A s \in Visible(disk[e.dir]) : Knows(e, s)
      BY DEF RInv, Known
    <2> QED  BY <2>3, <2>4, <2>5 DEF Knows
  <1> QED  BY RegistryInvariant, <1>1, PTL

-----------------------------------------------------------------------------
(* The invariant of the make lines *)

(* An installation remembers the sources; it is in sbin from one chdir to  *)
(* the other, where both programs have been copied before.                 *)
Halfway ==
    /\ project # NoProject
    /\ installing \in [step : {"sbin", "links", "headers"}, linked : 0 .. Len(Links), saved : {Source}]
    /\ cwd = IF installing.step = "links" THEN Sbin ELSE Source
    /\ <<Sbin, ".">> \in files /\ \A f \in Programs : <<Sbin, f>> \in files

InProject == (project = NoProject) = (at.project = <<>>)
PInv == InProject /\ BackInProject /\ (installing = NotInstalling \/ Halfway) /\ LinksNearPrograms

LEMMA FourLinks ==
    /\ Len(Links) = 4
    /\ \A i \in 1 .. 4 : Links[i].name \in {"iptables", "iptables-save", "ip6tables", "ip6tables-save"}
                         /\ Links[i].to \in Programs /\ Links[i] \in ToSet(Links)
  BY DEF Links, Programs, ToSet

LEMMA LinkNames ==
    \A l \in ToSet(Links) : /\ l.name \notin {".", "iptables-multi", "ip6tables-multi"}
                            /\ l.name \notin {"arm", "x86", "null", "package", "modules", "bzImage", "lib"}
                            /\ l.name \notin {"xtables.h", "libiptc"}
                            /\ l.to \in Programs
  <1>1. \A l \in ToSet(Links) : \E i \in 1 .. 4 : l = Links[i]
    BY DEF ToSet, Links
  <1> QED  BY <1>1, FourLinks

LEMMA TwoPrograms ==
    ASSUME NEW new \in SUBSET {<<Sbin, f>> : f \in Programs},
           Cardinality(new) = Cardinality(Programs)
    PROVE  new = {<<Sbin, f>> : f \in Programs}
  <1> DEFINE all == {<<Sbin, f>> : f \in Programs}
  <1>1. IsFiniteSet(Programs) /\ Cardinality(Programs) = 2
    <2>1. IsFiniteSet({"iptables-multi"}) /\ Cardinality({"iptables-multi"}) = 1
      BY FS_Singleton
    <2>2. /\ IsFiniteSet({"iptables-multi"} \cup {"ip6tables-multi"})
          /\ Cardinality({"iptables-multi"} \cup {"ip6tables-multi"}) = 2
      BY <2>1, FS_AddElement
    <2>3. Programs = {"iptables-multi"} \cup {"ip6tables-multi"}
      BY DEF Programs
    <2> QED  BY <2>2, <2>3
  <1>2. IsFiniteSet(all) /\ Cardinality(all) = 2
    <2> DEFINE a == <<Sbin, "iptables-multi">>
               b == <<Sbin, "ip6tables-multi">>
    <2>1. all = {a} \cup {b} /\ b \notin {a}
      BY DEF Programs
    <2> HIDE DEF a, b, all
    <2>2. IsFiniteSet({a}) /\ Cardinality({a}) = 1
      BY FS_Singleton
    <2>3. IsFiniteSet({a} \cup {b}) /\ Cardinality({a} \cup {b}) = 2
      BY <2>1, <2>2, FS_AddElement
    <2> QED  BY <2>1, <2>3
  <1> HIDE DEF all
  <1>3. new \in SUBSET all
    BY DEF all
  <1>4. new = all
    BY <1>1, <1>2, <1>3, FS_Subset
  <1> QED  BY <1>4 DEF all

LEMMA Directories ==
    /\ Source # Sbin /\ Source # <<"root">> /\ Sbin # <<"root">>
    /\ Source # <<"include">> /\ Sbin # <<"include">>
  <1>1. Len(Source) = 2 /\ Source[1] = "src" /\ Len(Sbin) = 2 /\ Sbin[1] = "root"
    BY DEF Source, Sbin
  <1>2. Len(<<"root">>) = 1 /\ Len(<<"include">>) = 1
    OBVIOUS
  <1> QED  BY <1>1, <1>2

LEMMA DownAndUp ==
    ASSUME NEW dir
    PROVE  /\ Append(<<"src">>, dir) = <<"src", dir>>
           /\ Front(<<"src", dir>>) = <<"src">>
  <1> DEFINE S == {"src", dir}
             s == <<"src", dir>>
             f == SubSeq(s, 1, 1)
  <1>1. Append(<<"src">>, dir) = s
    <2> DEFINE a == Append(<<"src">>, dir)
    <2>1. <<"src">> \in Seq(S) /\ Len(<<"src">>) = 1 /\ <<"src">>[1] = "src" /\ dir \in S
      OBVIOUS
    <2>2. a \in Seq(S) /\ Len(a) = 2 /\ a[1] = "src" /\ a[2] = dir
      BY <2>1
    <2> HIDE DEF a
    <2>3. a = <<a[1], a[2]>>
      BY <2>2
    <2> QED  BY <2>2, <2>3 DEF a
  <1>2. s \in Seq(S) /\ Len(s) = 2 /\ s[1] = "src"
    OBVIOUS
  <1> HIDE DEF s
  <1>3. f \in Seq(S) /\ Len(f) = 1 /\ f[1] = "src"
    BY <1>2
  <1>4. f = <<"src">>
    <2> HIDE DEF f
    <2> QED  BY <1>3
  <1>5. Front(s) = f
    BY <1>2 DEF Front
  <1> QED  BY <1>1, <1>4, <1>5 DEF s

(* What a step adds for the links to stay with their programs. *)
NoLinks(new) == \A l \in ToSet(Links) : \A d \in {Source, Sbin} : <<d, l.name>> \notin new

LEMMA AddsNoLinks ==
    ASSUME LinksNearPrograms, UNCHANGED project, NEW new, files' = files \cup new, NoLinks(new)
    PROVE  LinksNearPrograms'
  BY DEF LinksNearPrograms, NoLinks, Source

LEMMA BuiltNoLinks == NoLinks(Built)
  <1> SUFFICES ASSUME NEW l \in ToSet(Links), NEW d \in {Source, Sbin}, <<d, l.name>> \in Built
               PROVE  FALSE
    BY DEF NoLinks
  <1>1. PICK f \in Programs \cup {"arm", "x86", "package"} : <<d, l.name>> = Here(f)
    BY DEF Built
  <1>2. l.name = f
    BY <1>1 DEF Here
  <1> QED  BY <1>2, LinkNames DEF Programs

LEMMA DoneNoLinks ==
    ASSUME NEW steps \in {<<>>, <<[from |-> {}, to |-> InRoot("modules")],
                                  [from |-> {Here(ArchDir)}, to |-> InRoot("bzImage")],
                                  [from |-> {}, to |-> InRoot("lib")]>>,
                          <<[from |-> {Here("package")}, to |-> InRoot("package")]>>},
           Done(steps)
    PROVE  \E new : files' = files \cup new /\ NoLinks(new)
  <1>1. PICK n \in 0 .. Len(steps) : files' = files \cup UNION {steps[i].to : i \in 1 .. n}
    BY DEF Done
  <1> DEFINE new == UNION {steps[i].to : i \in 1 .. n}
  <1>2. Len(steps) \in 0 .. 3
    OBVIOUS
  <1>3. ASSUME NEW i \in 1 .. Len(steps)
        PROVE  \E f : steps[i].to = InRoot(f)
    OBVIOUS
  <1>4. ASSUME NEW x \in new
        PROVE  \E f : x = << <<"root">>, f>>
    <2>1. PICK i \in 1 .. n : x \in steps[i].to
      BY <1>4
    <2>2. i \in 1 .. Len(steps)
      BY <1>2
    <2> QED  BY <1>3, <2>1, <2>2 DEF InRoot
  <1> HIDE DEF new
  <1>5. NoLinks(new)
    BY <1>4, Directories DEF NoLinks
  <1> QED  BY <1>1, <1>5 DEF new

LEMMA HeadersNoLinks ==
    ASSUME NEW h \in Headers
    PROVE  NoLinks(h)
  <1>1. \A x \in h : \E f : x = << <<"include">>, f>>
    BY DEF Headers
  <1> QED  BY <1>1, Directories DEF NoLinks

(* The lines that are one step. *)
LEMMA LineStep ==
    ASSUME PInv, Compile \/ MakeWord \/ MakeIn \/ Clean \/ InstallPlain \/ InstallKernel \/ InstallOne,
           UNCHANGED at
    PROVE  PInv'
  <1>1. UNCHANGED <<project, cwd, installing>> /\ installing = NotInstalling
    BY DEF Compile, MakeWord, MakeIn, Clean, InstallPlain, MakeCmd, InstallKernel, InstallOne, Done, AtPrompt
  <1>2. \E new : files' = files \cup new /\ NoLinks(new)
    <2>1. CASE Compile \/ MakeWord \/ MakeIn \/ Clean \/ InstallPlain
      <3>1. PICK new \in SUBSET Built : files' = files \cup new
        BY <2>1 DEF Compile, MakeWord, MakeIn, Clean, InstallPlain, MakeCmd
      <3>2. NoLinks(new)
        BY <3>1, BuiltNoLinks DEF NoLinks
      <3> QED  BY <3>1, <3>2
    <2>2. CASE InstallKernel \/ InstallOne
      <3>1. PICK steps \in {<<>>, <<[from |-> {}, to |-> InRoot("modules")],
                                    [from |-> {Here(ArchDir)}, to |-> InRoot("bzImage")],
                                    [from |-> {}, to |-> InRoot("lib")]>>,
                            <<[from |-> {Here("package")}, to |-> InRoot("package")]>>} : Done(steps)
        BY <2>2, Zenon DEF InstallKernel, InstallOne
      <3> QED  BY <3>1, DoneNoLinks
    <2> QED  BY <2>1, <2>2
  <1>3. LinksNearPrograms'
    BY <1>1, <1>2, AddsNoLinks DEF PInv
  <1> QED  BY <1>1, <1>3 DEF PInv, InProject, BackInProject, Source

(* make install in iptables: it copies both programs, or it is over. *)
LEMMA CopyStep ==
    ASSUME PInv, InstallIptables, UNCHANGED at
    PROVE  PInv'
  <1>1. UNCHANGED <<project, cwd>> /\ project # NoProject /\ installing = NotInstalling /\ cwd = Source
    BY DEF InstallIptables, AtPrompt, PInv, BackInProject
  <1>2. CASE CopyPrograms
    <2>1. PICK new \in SUBSET {<<Sbin, f>> : f \in Programs}, ok \in BOOLEAN :
             /\ Copied(new, ok) /\ files' = files \cup new
             /\ installing' = IF ok THEN [step |-> "sbin", linked |-> 0, saved |-> cwd] ELSE NotInstalling
      BY <1>2 DEF CopyPrograms
    <2>2. NoLinks(new)
      <3> SUFFICES ASSUME NEW l \in ToSet(Links), NEW d \in {Source, Sbin}, <<d, l.name>> \in new
                   PROVE  FALSE
        BY DEF NoLinks
      <3>1. l.name \in Programs
        OBVIOUS
      <3> QED  BY <3>1, LinkNames DEF Programs
    <2>3. LinksNearPrograms'
      BY <1>1, <2>1, <2>2, AddsNoLinks DEF PInv
    <2>4. CASE ok
      <3>1. installing' = [step |-> "sbin", linked |-> 0, saved |-> Source]
        BY <1>1, <2>1, <2>4
      <3>2. installing' # NotInstalling
        <4>1. installing'.step = "sbin" /\ NotInstalling.step = "none"
          BY <3>1 DEF NotInstalling
        <4> QED  BY <4>1
      <3>3. new = {<<Sbin, f>> : f \in Programs}
        BY <2>1, <2>4, TwoPrograms DEF Copied
      <3>4. <<Sbin, ".">> \in files
        <4>1. <<Sbin, "iptables-multi">> \in new
          BY <3>3 DEF Programs
        <4> QED  BY <2>1, <4>1 DEF Copied
      <3>5. Halfway'
        <4>1. 0 \in 0 .. Len(Links)
          BY FourLinks
        <4>2. /\ installing' \in [step : {"sbin", "links", "headers"}, linked : 0 .. Len(Links), saved : {Source}]
              /\ installing'.step = "sbin"
          BY <3>1, <4>1
        <4> QED  BY <1>1, <2>1, <3>3, <3>4, <4>2 DEF Halfway, Source
      <3> QED  BY <1>1, <2>3, <3>2, <3>5 DEF PInv, InProject, BackInProject
    <2>5. CASE ~ok
      BY <1>1, <2>1, <2>3, <2>5 DEF PInv, InProject, BackInProject, Source
    <2> QED  BY <2>4, <2>5
  <1>3. CASE UNCHANGED <<files, installing>>
    BY <1>1, <1>3 DEF PInv, InProject, BackInProject, LinksNearPrograms, Source
  <1> QED  BY <1>2, <1>3 DEF InstallIptables

(* The steps after it. *)
LEMMA InstallSteps ==
    ASSUME PInv, ChdirSbin \/ LinkOne \/ ReturnBroken \/ ReturnLinked \/ CopyHeaders, UNCHANGED at
    PROVE  PInv'
  <1>0. NotInstalling.step = "none"
    BY DEF NotInstalling
  <1>1. Halfway
    BY <1>0 DEF PInv, ChdirSbin, LinkOne, ReturnBroken, ReturnLinked, CopyHeaders
  <1>2. /\ installing \in [step : {"sbin", "links", "headers"}, linked : 0 .. Len(Links), saved : {Source}]
        /\ project # NoProject /\ installing.saved = Source
    BY <1>1 DEF Halfway
  <1>3. UNCHANGED project /\ UNCHANGED Source
    BY DEF ChdirSbin, LinkOne, ReturnBroken, ReturnLinked, CopyHeaders, Source
  <1>4. CASE ChdirSbin
    <2>1. cwd' = Sbin /\ UNCHANGED files
      BY <1>1, <1>4 DEF ChdirSbin, Halfway
    <2>2. /\ installing' \in [step : {"sbin", "links", "headers"}, linked : 0 .. Len(Links), saved : {Source}]
          /\ installing'.step = "links"
      BY <1>2, <1>4 DEF ChdirSbin, ToStep
    <2>3. installing' # NotInstalling
      BY <1>0, <2>2
    <2>4. Halfway'
      BY <1>1, <1>2, <1>3, <2>1, <2>2 DEF Halfway
    <2>5. LinksNearPrograms'
      BY <1>3, <2>1 DEF PInv, LinksNearPrograms
    <2> QED  BY <1>3, <2>3, <2>4, <2>5 DEF PInv, InProject, BackInProject
  <1>5. CASE LinkOne
    <2> DEFINE i == installing.linked + 1
               link == <<Sbin, Links[i].name>>
    <2>1. cwd = Sbin /\ UNCHANGED cwd /\ files' = files \cup {link} /\ i \in 1 .. 4
      BY <1>1, <1>2, <1>5, FourLinks DEF LinkOne, Halfway
    <2>2. /\ installing' \in [step : {"sbin", "links", "headers"}, linked : 0 .. Len(Links), saved : {Source}]
          /\ installing'.step = "links"
      BY <1>2, <1>5, FourLinks DEF LinkOne
    <2>3. installing' # NotInstalling
      BY <1>0, <2>2
    <2>4. Halfway'
      BY <1>1, <1>2, <1>3, <2>1, <2>2 DEF Halfway
    <2>5. LinksNearPrograms'
      <3> SUFFICES ASSUME NEW l \in ToSet(Links), NEW d \in {Source, Sbin}, <<d, l.name>> \in files'
                   PROVE  d = Sbin /\ <<d, l.to>> \in files'
        BY <1>3 DEF LinksNearPrograms
      <3>1. CASE <<d, l.name>> \in files
        BY <2>1, <3>1 DEF PInv, LinksNearPrograms
      <3>2. CASE <<d, l.name>> = link
        <4>1. d = Sbin
          BY <3>2
        <4>2. <<Sbin, l.to>> \in files
          BY <1>1, LinkNames DEF Halfway
        <4> QED  BY <2>1, <4>1, <4>2
      <3> QED  BY <2>1, <3>1, <3>2
    <2> QED  BY <1>3, <2>3, <2>4, <2>5 DEF PInv, InProject, BackInProject
  <1>6. CASE ReturnBroken
    <2>1. cwd' = Source /\ UNCHANGED files /\ installing' = NotInstalling
      BY <1>2, <1>6 DEF ReturnBroken
    <2>2. LinksNearPrograms'
      BY <1>3, <2>1 DEF PInv, LinksNearPrograms
    <2> QED  BY <1>2, <1>3, <2>1, <2>2 DEF PInv, InProject, BackInProject
  <1>7. CASE ReturnLinked
    <2>1. cwd' = Source /\ UNCHANGED files
      BY <1>2, <1>7 DEF ReturnLinked
    <2>2. /\ installing' \in [step : {"sbin", "links", "headers"}, linked : 0 .. Len(Links), saved : {Source}]
          /\ installing'.step = "headers"
      BY <1>2, <1>7 DEF ReturnLinked, ToStep
    <2>3. installing' # NotInstalling
      BY <1>0, <2>2
    <2>4. Halfway'
      BY <1>1, <1>2, <1>3, <2>1, <2>2 DEF Halfway
    <2>5. LinksNearPrograms'
      BY <1>3, <2>1 DEF PInv, LinksNearPrograms
    <2> QED  BY <1>3, <2>3, <2>4, <2>5 DEF PInv, InProject, BackInProject
  <1>8. CASE CopyHeaders
    <2>1. cwd = Source /\ UNCHANGED cwd /\ installing' = NotInstalling
      BY <1>1, <1>8 DEF CopyHeaders, Halfway
    <2>2. PICK h \in Headers : files' = files \cup h
      BY <1>8 DEF CopyHeaders
    <2>3. LinksNearPrograms'
      BY <1>3, <2>2, HeadersNoLinks, AddsNoLinks DEF PInv
    <2> QED  BY <1>2, <1>3, <2>1, <2>3 DEF PInv, InProject, BackInProject
  <1> QED  BY <1>4, <1>5, <1>6, <1>7, <1>8

(* The place changes in three ways: a project is entered from its version, *)
(* it is left, or nothing of it changes.                                   *)
LEMMA PlaceChanges ==
    ASSUME RInv, Next
    PROVE  \/ at'.project = at.project \/ at'.project = <<>>
           \/ at.project = <<>> /\ at.version # 0
  <1>0. at \in [version : Nat, arch : Archs \cup {""}, project : ProjectWords \cup {<<>>}]
    BY DEF RInv, RTypes, AtTypes
  <1>1. CASE \E p \in MkdirPaths : Mkdir(p)
    BY <1>1 DEF Mkdir
  <1>2. CASE Start \/ VersionRefresh \/ VersionBuild \/ ProjectRefresh
    BY <1>2 DEF Start, VersionRefresh, VersionBuild, ProjectRefresh
  <1>3. CASE Stop
    BY <1>3 DEF Stop, Outside
  <1>4. CASE Exit
    <2>1. at' = Outside \/ at' = [at EXCEPT !.project = <<>>]
      BY <1>4 DEF Exit
    <2>2. CASE at' = Outside
      BY <2>2 DEF Outside
    <2>3. CASE at' = [at EXCEPT !.project = <<>>]
      <3>1. at'.project = <<>>
        BY <1>0, <2>3
      <3> QED  BY <3>1
    <2> QED  BY <2>1, <2>2, <2>3
  <1>5. CASE \E w \in VersionWords, a \in Archs : Version(w, a)
    <2>1. PICK w \in VersionWords, a \in Archs :
             at = Outside /\ VersionInit(Entry(FixName(w)), versions'[Entry(FixName(w))], a)
      BY <1>5 DEF Version
    <2>2. UNCHANGED at \/ at' = [version |-> Entry(FixName(w)), arch |-> a, project |-> <<>>]
      BY <2>1 DEF VersionInit
    <2> QED  BY <2>2
  <1>6. CASE \E w \in ProjectWords : Project(w)
    BY <1>6 DEF Project, AtVersion
  <1> QED  BY <1>1, <1>2, <1>3, <1>4, <1>5, <1>6, Zenon DEF Next

LEMMA FollowDoes ==
    ASSUME RInv, Next, Follow, InProject
    PROVE  \/ UNCHANGED <<project, cwd, files, installing, last>> /\ InProject'
           \/ /\ InProject' /\ project' # NoProject
              /\ \E p : EnterProject(p)
           \/ InProject' /\ LeaveProject
  <1>1. CASE at.project = at'.project
    BY <1>1 DEF Follow, InProject
  <1>2. CASE at.project # at'.project /\ at.project = <<>>
    <2> DEFINE p == [attr |-> ProjectAttr[at'.project], arch |-> at.arch,
                     exported |-> Exports[Current.attr]]
    <2>1. EnterProject(p)
      BY <1>2 DEF Follow
    <2>2. at.version # 0
      BY <1>2, PlaceChanges
    <2>3. at.arch \in Archs
      BY <2>2 DEF RInv, RTypes, AtTypes
    <2>4. p.arch # ""
      BY <2>3, WorkshopAssumption
    <2> HIDE DEF p
    <2>5. project' = p /\ p # NoProject
      <3>1. NoProject.arch = ""
        BY DEF NoProject
      <3> QED  BY <2>1, <2>4, <3>1 DEF EnterProject
    <2> QED  BY <1>2, <2>1, <2>5 DEF InProject
  <1>3. CASE at.project # at'.project /\ at.project # <<>>
    <2>1. LeaveProject
      BY <1>3 DEF Follow
    <2>2. at'.project = <<>>
      BY <1>3, PlaceChanges
    <2> QED  BY <2>1, <2>2 DEF InProject, LeaveProject
  <1> QED  BY <1>1, <1>2, <1>3

(* A tree that has at most an empty sbin has no links. *)
LEMMA FreshNoLinks ==
    ASSUME files' \subseteq {<<Sbin, ".">>}
    PROVE  LinksNearPrograms'
  <1>1. \A l \in ToSet(Links) : \A d : <<d, l.name>> \notin files'
    BY LinkNames
  <1> QED  BY <1>1 DEF LinksNearPrograms

LEMMA LinksStay ==
    ASSUME LinksNearPrograms, UNCHANGED <<project, files>>
    PROVE  LinksNearPrograms'
  BY DEF LinksNearPrograms, Source

LEMMA PNext == RInv /\ RInv' /\ PInv /\ [ShopNext]_shop => PInv'
  <1> SUFFICES ASSUME RInv, RInv', PInv, [ShopNext]_shop PROVE PInv'
    OBVIOUS
  <1>1. CASE Next /\ Follow
    <2>0. installing = NotInstalling
      BY <1>1 DEF Follow
    <2>1. CASE UNCHANGED <<project, cwd, files, installing, last>> /\ InProject'
      BY <2>0, <2>1, LinksStay DEF PInv, BackInProject, Source
    <2>2. CASE InProject' /\ project' # NoProject /\ \E p : EnterProject(p)
      <3>1. PICK p : EnterProject(p)
        BY <2>2
      <3>2. /\ cwd = <<"src">> /\ cwd' = Append(cwd, p.attr) /\ project' = p
            /\ UNCHANGED installing /\ files' \subseteq {<<Sbin, ".">>}
        BY <2>0, <3>1 DEF EnterProject, PInv, BackInProject
      <3>3. cwd' = Source'
        BY <3>2, DownAndUp DEF Source
      <3> QED  BY <2>0, <2>2, <3>2, <3>3, FreshNoLinks DEF PInv, BackInProject
    <2>3. CASE InProject' /\ LeaveProject
      <3>1. /\ cwd = Source /\ cwd' = Front(cwd) /\ project' = NoProject
            /\ UNCHANGED installing /\ files' = {}
        BY <2>0, <2>3 DEF LeaveProject, AtPrompt, PInv, BackInProject
      <3>2. cwd' = <<"src">>
        BY <3>1, DownAndUp DEF Source
      <3> QED  BY <2>0, <2>3, <3>1, <3>2, FreshNoLinks DEF PInv, BackInProject
    <2> QED  BY <1>1, <2>1, <2>2, <2>3, FollowDoes DEF PInv
  <1>2. CASE Next /\ ~running' /\ Killed
    <2>1. at'.project = <<>>
      <3>1. versions' = <<>> /\ AtTypes'
        BY <1>2 DEF RInv, RTypes
      <3>2. Len(versions') = 0 /\ at'.version \in 0 .. Len(versions')
        BY <3>1 DEF AtTypes
      <3>3. at'.version = 0
        BY <3>2
      <3> QED  BY <3>1, <3>3 DEF AtTypes
    <2>2. project' = NoProject /\ cwd' = <<"src">> /\ files' = {} /\ installing' = NotInstalling
      BY <1>2 DEF Killed
    <2> QED  BY <2>1, <2>2, FreshNoLinks DEF PInv, InProject, BackInProject
  <1>3. CASE MakeNext /\ UNCHANGED vars
    <2>1. UNCHANGED at
      BY <1>3 DEF vars
    <2> QED  BY <1>3, <2>1, LineStep, CopyStep, InstallSteps DEF MakeNext
  <1>4. CASE UNCHANGED shop
    <2>1. UNCHANGED <<at, project, cwd, files, installing>>
      BY <1>4 DEF shop
    <2>2. UNCHANGED Source
      BY <2>1 DEF Source
    <2> QED  BY <2>1, <2>2, LinksStay DEF PInv, InProject, BackInProject, Halfway
  <1> QED  BY <1>1, <1>2, <1>3, <1>4 DEF ShopNext

-----------------------------------------------------------------------------
(* The whole *)

(* Every behaviour of the workshop is one of the registry, so what was     *)
(* proved of the registry holds there too.                                 *)
THEOREM ShopHasRegistry == ShopSpec => Spec
  <1>1. ShopInit => Init
    BY DEF ShopInit
  <1>2. [ShopNext]_shop => [Next]_vars
    BY DEF ShopNext, shop, vars
  <1> QED  BY <1>1, <1>2, PTL DEF ShopSpec, Spec

LEMMA ShopInvariant == ShopSpec => [](RInv /\ PInv)
  <1>1. ShopInit => PInv
    <2> SUFFICES ASSUME ShopInit PROVE PInv
      OBVIOUS
    <2>1. project = NoProject /\ cwd = <<"src">> /\ files = {} /\ installing = NotInstalling
      BY DEF ShopInit, MakeInit
    <2>2. at.project = <<>>
      BY DEF ShopInit, Init, Outside
    <2> QED  BY <2>1, <2>2 DEF PInv, InProject, BackInProject, LinksNearPrograms
  <1>2. ShopSpec => []RInv
    BY ShopHasRegistry, RegistryInvariant
  <1> QED  BY <1>1, <1>2, PNext, PTL DEF ShopSpec

(* Between two lines the process is in the sources of its project, or      *)
(* above them without one: an installation that was half way, in sbin, has *)
(* come back, whichever command failed; one that is killed there leaves    *)
(* the next process where it began (project_iptables_install,              *)
(* project_finit).                                                         *)
THEOREM BackInProjectHolds == ShopSpec => []BackInProject
  <1>1. PInv => BackInProject
    BY DEF PInv
  <1> QED  BY ShopInvariant, <1>1, PTL

(* A link of iptables is made only where the program it names was put,     *)
(* whatever cp did and although chdir to sbin is not looked at             *)
(* (project_iptables_install).                                             *)
THEOREM LinksNearProgramsHolds == ShopSpec => []LinksNearPrograms
  <1>1. PInv => LinksNearPrograms
    BY DEF PInv
  <1> QED  BY ShopInvariant, <1>1, PTL

=============================================================================
