---------------------------- MODULE MCMkSession ----------------------------
(***************************************************************************)
(* Instances of MkSession for TLC: two versions, one of each branch that   *)
(* has attributes, and projects of every kind of attribute.                *)
(***************************************************************************)
EXTENDS MkSession

MCNames == {"home", "Bane", "src", "build", "os", "fwbuild", ".config",
            "v1", "v2", "fcms", "themis.kernel", "ntop", "a", "b"}

MCVersions == {"v1", "v2"}
MCArchs == {"soho", "arm_32", "x86_64"}
MCFamily == [a \in MCArchs |-> IF a = "soho" THEN "3602" ELSE "3609"]
MCFwArgs == [v \in MCNames |-> IF v = "v1" THEN {"3602"} ELSE {"3609"}]
MCVersionAttr ==
    [v \in MCNames |-> CASE v = "v1" -> "3602" [] v = "v2" -> "appctl" [] OTHER -> "none"]

BuildTree == {<<"build">>, <<"build", "fwbuild">>}
MCRepo ==
    [v \in MCNames |->
       CASE v = "v1" -> BuildTree
         [] v = "v2" -> BuildTree \cup {<<"os">>, <<"fcms">>, <<"themis.kernel">>}
         [] OTHER    -> {}]

(* What a user checked out by hand before the first session: nothing, or   *)
(* v1 with its projects, which the server has no more, and v2's build.     *)
Base == {<<>>, <<"home">>, <<"home", "Bane">>, <<"home", "Bane", "src">>}
In(v, paths) == {VersionDir(v) \o p : p \in paths}
MCTrees ==
    {Base \ {Root},
     Base \cup In("v1", BuildTree \cup {<<>>, <<"fcms">>, <<"themis.kernel">>})
          \cup In("v2", BuildTree \cup {<<>>})}

FlatProjects == {<<"fcms">>, <<"themis.kernel">>}
FlatAttr == [p \in FlatProjects |-> IF p = <<"fcms">> THEN "fcms" ELSE "kernel"]
(* ../fcms: a directory beside the version's when typed in the version,    *)
(* and the sources of another project when typed in one; and an absolute   *)
(* path, of a directory in ROOT_DIR.                                       *)
MCMkdirArgs == {[up |-> 1, path |-> <<"fcms">>], [up |-> 9, path |-> VersionDir("b")]}
MCUserVars == {"CFLAGS"}

(* The same with a project that is a directory of another one, checked out *)
(* with it.                                                                *)
NestedProjects == {<<"a", "b">>}
NestedAttr == [p \in NestedProjects |-> "none"]
NestedRepo ==
    [v \in MCNames |-> IF v = "v1" THEN BuildTree \cup {<<"a">>, <<"a", "b">>} ELSE {}]
NestedTrees ==
    {Base \cup In("v1", BuildTree \cup {<<>>, <<"a">>, <<"a", "b">>})}

=============================================================================
