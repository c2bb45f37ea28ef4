------------------------------ MODULE Workshop ------------------------------
(***************************************************************************)
(* The registry of versions and the make lines together: the project that  *)
(* is entered has the row of project_attrs that project_create found by    *)
(* its name, and the version's row says what is exported.                  *)
(*                                                                         *)
(* Sources: src/cmd/mk.c, src/cmd/cmd_tool.c.                              *)
(***************************************************************************)
EXTENDS VersionRegistry, ProjectMake

CONSTANTS
    Exports  \* a row of version_attrs -> the variables it exports

ASSUME WorkshopAssumption == "" \notin Archs

shop == <<versions, at, running, disk, byHand, project, cwd, files, installing, last>>

ShopInit == Init /\ MakeInit

(* The lines of the version's prompt, as the make lines see them: a        *)
(* project is entered, or left by exit or end.                             *)
Follow ==
    /\ installing = NotInstalling
    /\ CASE at.project = at'.project -> UNCHANGED <<project, cwd, files, installing, last>>
         [] at.project # at'.project /\ at.project = <<>> ->
              EnterProject([attr |-> ProjectAttr[at'.project], arch |-> at.arch,
                            exported |-> Exports[Current.attr]])
         [] OTHER -> LeaveProject

(* A process ends at its prompt, or is killed in the middle of a line. *)
ShopNext ==
    \/ Next /\ running' /\ Follow
    \/ Next /\ ~running' /\ Killed
    \/ MakeNext /\ UNCHANGED vars

ShopSpec == ShopInit /\ [][ShopNext]_shop
=============================================================================
