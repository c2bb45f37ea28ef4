---------------------------- MODULE MCWorkshop ----------------------------
(***************************************************************************)
(* Workshop with one version of two components, which was checked out      *)
(* before with two of its projects, its name typed with slashes at the end *)
(* or in front, or as its directory; beside it the disk has a hidden       *)
(* directory.  mkdir lines make a directory that looks like the version's  *)
(* with a slash more, and one that looks like a project, and the script of *)
(* build makes one.                                                        *)
(***************************************************************************)
EXTENDS Workshop, TLC

Chars(str) == [i \in 1 .. Len(str) |-> SubSeq(str, i, i)]

(* A project's name is one character here, or with a slash after it. *)
MCProjects == {"iptables", "themis.kernel", "library"}
MCArchs == {"x86_32"}
MCCharacters ==
    {"a", "b", "x", "/", "+", ".", "build", ".os", "os."} \cup MCProjects \cup MCArchs

MCVersionWords == {Chars("a/b//"), Chars("/a/b"), Chars("a+b")}
MCProjectWords == {<<"iptables">>, <<"iptables", "/">>, <<"themis.kernel">>, <<"library">>}
MCRepository   == Chars("a/b") :> {<<"iptables">>}
MCMkdirPaths   == {<<Chars("a+b+")>>, <<Chars("a+b"), <<"iptables">> >>}

MCNames == {Chars("a/b"), Chars("a/b/"), Chars("/a/b"), Chars("/a+b")}
MCVersionAttr == [name \in MCVersionWords \cup MCNames |-> IF name = Chars("a/b") THEN "appctl" ELSE "none"]
ProjectRow(name) == IF Len(name) = 1 THEN name[1] ELSE "none"
MCProjectAttr == [name \in MCProjectWords |-> ProjectRow(name)]
MCByScript == {<<"x">>}
MCDisks == {Chars(".x") :> {} @@ Chars("a+b") :> {<<"build">>, <<"library">>, <<"themis.kernel">>}}

MCExports == [row \in {"none", "appctl"} |->
                 IF row = "appctl" THEN {"INSTALL_ROOT", "COMPILE_INCLUDE_DIR"} ELSE {}]
=============================================================================
