---------------------------- MODULE ProjectMake ----------------------------
(***************************************************************************)
(* The make lines of the project prompt: what make is run with, and how    *)
(* the projects of project_attrs install what they built, in several       *)
(* commands of which each may fail, one of them in another directory.      *)
(*                                                                         *)
(* A directory is <<"src", project>>, where the process stands at the      *)
(* prompt, or one below an install root.  `files' is what one visit to a   *)
(* project makes; whether the install root has an sbin is any choice.      *)
(* make and cp are external and may stop half way.  The installation of    *)
(* iptables is in steps, as it stands in sbin for some of them.            *)
(*                                                                         *)
(* Sources: src/cmd/mk.c, src/cmd/cmd_tool.c.                              *)
(***************************************************************************)
EXTENDS Naturals, Sequences, SequencesExt, FiniteSets

CONSTANTS
    Words  \* the arguments of make a user types

VARIABLES
    project,  \* vty->index: its row of project_attrs, the architecture, the exports
    cwd,      \* the working directory
    files,    \* <<directory, file>>, the directories of the install root too
    installing,  \* project_iptables_install: its next step, links made, saved cwd
    last      \* the last make line: its keyword, and the arguments of make

NoProject == [attr |-> "out", arch |-> "", exported |-> {}]
NotInstalling == [step |-> "none", linked |-> 0, saved |-> <<>>]
NotMade   == [line |-> "", targets |-> <<>>]
Archs3602 == {"soho", "themis", "sag"}

AtPrompt == project # NoProject /\ installing = NotInstalling
Source   == <<"src", project.attr>>
Sbin     == <<"root", "sbin">>
Here(f)  == <<Source, f>>
HasRoot  == "INSTALL_ROOT" \in project.exported

(* iptables' programs, and the links to them in the order they are made.   *)
Programs == {"iptables-multi", "ip6tables-multi"}
Links    == <<[name |-> "iptables", to |-> "iptables-multi"],
              [name |-> "iptables-save", to |-> "iptables-multi"],
              [name |-> "ip6tables", to |-> "ip6tables-multi"],
              [name |-> "ip6tables-save", to |-> "ip6tables-multi"]>>

(* project_themis_arch_dir *)
ArchDir ==
    CASE project.arch \in {"x86_32", "x86_64", "themis", "sag"} -> "x86"
      [] project.arch = "arm_32" -> "arm"
      [] OTHER -> "null"

(* What make builds of a project that is looked at below. *)
Built ==
    CASE project.attr = "iptables" -> {Here(f) : f \in Programs}
      [] project.attr = "themis.kernel" ->
           {Here(IF project.arch \in {"arm", "arm_32"} THEN "arm" ELSE "x86")}
      [] OTHER -> {Here("package")}

-----------------------------------------------------------------------------
MakeInit == project = NoProject /\ cwd = <<"src">> /\ files = {} /\ last = NotMade
            /\ installing = NotInstalling

(* The prompt is entered; sbin comes with the system's tree, or does not.   *)
EnterProject(p) ==
    /\ project = NoProject /\ project' = p
    /\ cwd' = Append(cwd, p.attr)
    /\ files' \in SUBSET {<<Sbin, ".">>}
    /\ last' = NotMade /\ UNCHANGED installing

(* project_finit: chdir(".."). *)
LeaveProject ==
    /\ AtPrompt /\ project' = NoProject
    /\ cwd' = Front(cwd)
    /\ files' = {} /\ last' = NotMade /\ UNCHANGED installing

(* The process ends, at the prompt or in a make line; the next one begins  *)
(* where this one did.                                                     *)
Killed ==
    /\ project' = NoProject /\ cwd' = <<"src">>
    /\ files' = {} /\ last' = NotMade /\ installing' = NotInstalling

(* make_cmd, in the working directory; it may fail. *)
MakeCmd(line, targets) ==
    /\ last' = [line |-> line, targets |-> targets]
    /\ \E new \in SUBSET Built : files' = files \cup new
    /\ UNCHANGED <<project, cwd, installing>>

(* make and make WORD, make -C WORD, make -C WORD WORD.  The simple build  *)
(* has project_has_configure_compile call make like the others.            *)
Compile == AtPrompt /\ MakeCmd("make", <<>>)
MakeWord ==
    /\ AtPrompt
    /\ \E w \in Words : MakeCmd("make", <<w>>)
MakeIn ==
    /\ AtPrompt
    /\ \E w \in Words : \E targets \in {<<>>, <<w>>} : MakeCmd("make", <<"-C", ".">> \o targets)

(* make clean. *)
Clean == AtPrompt /\ MakeCmd("clean", <<>>)

-----------------------------------------------------------------------------
(* make install *)

(* A row without install2. *)
InstallPlain ==
    /\ AtPrompt /\ project.attr \notin {"themis.kernel", "library", "ntop", "iptables", "quagga"}
    /\ MakeCmd("install", <<>>)

(* Commands that have done n of the steps when one fails, or all. *)
Done(steps) ==
    /\ \E n \in 0 .. Len(steps) :
          /\ \A i \in 1 .. n : steps[i].from \subseteq files
          /\ files' = files \cup UNION {steps[i].to : i \in 1 .. n}
    /\ last' = [line |-> "install", targets |-> <<>>]
    /\ UNCHANGED <<project, cwd, installing>>

InRoot(f) == {<< <<"root">>, f>>}

InstallKernel ==
    /\ AtPrompt /\ project.attr = "themis.kernel"
    /\ Done(IF ~HasRoot THEN <<>>
            ELSE <<[from |-> {}, to |-> InRoot("modules")],
                   [from |-> {Here(ArchDir)}, to |-> InRoot("bzImage")],
                   [from |-> {}, to |-> InRoot("lib")]>>)

(* library and quagga want INSTALL_ROOT, ntop's script does not look. *)
InstallOne ==
    /\ AtPrompt /\ project.attr \in {"library", "ntop", "quagga"}
    /\ Done(IF ~HasRoot /\ project.attr # "ntop" THEN <<>>
            ELSE <<[from |-> {Here("package")}, to |-> InRoot("package")]>>)

-----------------------------------------------------------------------------
(* project_iptables_install, step by step *)

(* cp of two files needs a directory to go to, and may stop after one.     *)
Copied(new, ok) ==
    /\ new \subseteq {<<Sbin, f>> : f \in {f \in Programs : Here(f) \in files}}
    /\ <<Sbin, ".">> \notin files => new = {}
    /\ ok => Cardinality(new) = Cardinality(Programs)

ToStep(step) == [installing EXCEPT !.step = step]

(* Both programs go to sbin, after the directory was remembered. *)
(* Slip: the result of cp is not looked at (LinksNearPrograms). *)
CopyAnyway ==
    \E new \in SUBSET {<<Sbin, f>> : f \in Programs}, ok \in BOOLEAN :
       /\ HasRoot /\ Copied(new, ok) /\ files' = files \cup new
       /\ installing' = [step |-> "sbin", linked |-> 0, saved |-> cwd]
CopyPrograms ==
    \E new \in SUBSET {<<Sbin, f>> : f \in Programs}, ok \in BOOLEAN :
       /\ HasRoot /\ Copied(new, ok) /\ files' = files \cup new
       /\ installing' = IF ok THEN [step |-> "sbin", linked |-> 0, saved |-> cwd] ELSE NotInstalling

(* Without INSTALL_ROOT, or when getcwd fails, nothing is done.            *)
InstallIptables ==
    /\ AtPrompt /\ project.attr = "iptables"
    /\ CopyPrograms \/ UNCHANGED <<files, installing>>
    /\ last' = [line |-> "install", targets |-> <<>>]
    /\ UNCHANGED <<project, cwd>>

(* chdir to sbin is not looked at. *)
ChdirSbin ==
    /\ installing.step = "sbin" /\ installing' = ToStep("links")
    /\ cwd' = IF <<Sbin, ".">> \in files THEN Sbin ELSE cwd
    /\ UNCHANGED <<project, files, last>>

(* The chain of ln: each is run when those before it have worked.          *)
LinkOne ==
    /\ installing.step = "links" /\ installing.linked < Len(Links)
    /\ installing' = [installing EXCEPT !.linked = @ + 1]
    /\ files' = files \cup {<<cwd, Links[installing.linked + 1].name>>}
    /\ UNCHANGED <<project, cwd, last>>

(* The two ways back, of a chain that broke and of one that is done.       *)
(* Slip: a broken one does not go back (BackInProject). *)
StayBroken ==
    /\ installing.step = "links" /\ installing.linked < Len(Links)
    /\ installing' = NotInstalling
    /\ UNCHANGED <<project, cwd, files, last>>
ReturnBroken ==
    /\ installing.step = "links" /\ installing.linked < Len(Links)
    /\ cwd' = installing.saved /\ installing' = NotInstalling
    /\ UNCHANGED <<project, files, last>>
ReturnLinked ==
    /\ installing.step = "links" /\ installing.linked = Len(Links)
    /\ cwd' = installing.saved /\ installing' = ToStep("headers")
    /\ UNCHANGED <<project, files, last>>

(* For an architecture of the later list the headers, which may be there   *)
(* or not.                                                                 *)
Headers ==
    IF project.arch \in Archs3602 \/ "COMPILE_INCLUDE_DIR" \notin project.exported THEN {{}}
    ELSE {{}, {<< <<"include">>, "xtables.h">>}, {<< <<"include">>, f>> : f \in {"xtables.h", "libiptc"}}}
CopyHeaders ==
    /\ installing.step = "headers" /\ installing' = NotInstalling
    /\ \E h \in Headers : files' = files \cup h
    /\ UNCHANGED <<project, cwd, last>>

MakeNext ==
    \/ Compile \/ MakeWord \/ MakeIn \/ Clean
    \/ InstallPlain \/ InstallKernel \/ InstallOne \/ InstallIptables
    \/ ChdirSbin \/ LinkOne \/ ReturnBroken \/ ReturnLinked \/ CopyHeaders

-----------------------------------------------------------------------------
(* A link of iptables is made only in a directory that has the program it  *)
(* names: whatever cp did, and although chdir to sbin is not looked at,    *)
(* the sources are not filled with links.                                  *)
LinksNearPrograms ==
    \A l \in ToSet(Links) : \A d \in {Source, Sbin} :
        <<d, l.name>> \in files => d = Sbin /\ <<d, l.to>> \in files

(* Between two lines the process is in the sources of its project, and     *)
(* after exit in those above, since exit is chdir(".."): an installation   *)
(* that went to sbin has come back, whichever of its commands failed.      *)
BackInProject ==
    installing = NotInstalling => cwd = IF project = NoProject THEN <<"src">> ELSE Source

(* "Clean the binary files." (src/cmd/cmd_tool.c:362) *)
CleanCleans == last.line = "clean" => "clean" \in ToSet(last.targets)
============================================================================
