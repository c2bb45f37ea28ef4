----------------------------- MODULE Workspace -----------------------------
(***************************************************************************)
(* What the prompt of mksh promises: the user is nowhere, in a version, or *)
(* in a project of a version; being somewhere means to work in its         *)
(* directory with its exports in the environment, and only those.  A line  *)
(* goes one level down, one level up ("Exit current mode and down to       *)
(* previous mode"), or all the way out ("End current mode and change to    *)
(* enable mode"), and a line that fails changes nothing of this.           *)
(*                                                                         *)
(* There is nothing here of how a session gets there: MkSession does it    *)
(* with relative chdir calls, setenv/unsetenv and checkouts that may fail, *)
(* and is shown to implement this specification.                           *)
(***************************************************************************)
EXTENDS Sequences, SequencesExt

CONSTANTS Versions, Projects, Archs,
          Base,              \* the directory all versions live in
          NoName,            \* no version, no architecture
          ExportingVersions, \* the versions that export variables
          ExportingProjects  \* the projects that do

VARIABLES place,    \* the version, its architecture and the project
          dir,      \* the working directory, when somewhere
          exported  \* the owners of the exported values

vars == <<place, dir, exported>>

Place(v, a, p) == [ver |-> v, arch |-> a, proj |-> p]
Nowhere == Place(NoName, NoName, <<>>)

DirOf(w) == IF w.ver = NoName THEN <<>> ELSE Append(Base, w.ver) \o w.proj

ExportsOf(w) ==
    {<<v, w.arch>> : v \in {w.ver} \cap ExportingVersions}
    \cup {<<w.ver, Last(p)>> : p \in {w.proj} \cap ExportingProjects}

(* To be somewhere is to have its directory and its exports. *)
Arrived == dir' = DirOf(place') /\ exported' = ExportsOf(place')

Init == place = Nowhere /\ dir = DirOf(Nowhere) /\ exported = ExportsOf(Nowhere)

EnterVersion(v, a) ==
    /\ place = Nowhere
    /\ place' = Place(v, a, <<>>)
    /\ Arrived

EnterProject(p) ==
    /\ place.ver # NoName /\ place.proj = <<>>
    /\ place' = Place(place.ver, place.arch, p)
    /\ Arrived

(* exit of a project: one level up. *)
Leave ==
    /\ place.proj # <<>>
    /\ place' = Place(place.ver, place.arch, <<>>)
    /\ Arrived

(* exit of a version, end, or the end of the process. *)
LeaveAll ==
    /\ place # Nowhere
    /\ place' = Nowhere
    /\ Arrived

Next ==
    \/ \E v \in Versions, a \in Archs : EnterVersion(v, a)
    \/ \E p \in Projects : EnterProject(p)
    \/ Leave
    \/ LeaveAll

Spec == Init /\ [][Next]_vars
=============================================================================
