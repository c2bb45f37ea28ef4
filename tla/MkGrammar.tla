----------------------------- MODULE MkGrammar -----------------------------
(***************************************************************************)
(* The commands mksh registers: their patterns, the nodes they belong to   *)
(* and what their handlers return, as the DEFUNs of src/cmd/cmd_tool.c and *)
(* src/cmd/cmd_common.c say and cmd_tool_init and cmd_common_init install. *)
(***************************************************************************)
EXTENDS Naturals, Sequences

K(w)      == [kind |-> "keyword", word |-> w]
Var(w)    == [kind |-> "variable", word |-> w]
Opt(w)    == [kind |-> "option", word |-> w]
Key(w)    == {K(w)}
Choice(S) == {K(w) : w \in S}

ArchWords == {"soho", "themis", "sag", "x86_32", "x86_64", "arm_32"}

(* The prompt of a version and a project share these. *)
CommonPattern(c) ==
    CASE c = "system_pwd"   -> <<Key("pwd")>>
      [] c = "system_env"   -> <<Key("env")>>
      [] c = "system_ls"    -> <<Key("ls")>>
      [] c = "system_ls2"   -> <<Key("ls"), {Var("WORD")}>>
      [] c = "system_ls3"   -> <<Key("ls"), {Var("WORD")}, {Var("WORD")}>>
      [] c = "system_mkdir" -> <<Key("mkdir"), Key("-p"), {Var("WORD")}>>
      [] c = "show_version" -> <<Key("show"), Key("version")>>
      [] c = "show_version_detail" -> <<Key("show"), Key("version"), Key("detail")>>

EnablePattern(c) ==
    CASE c = "config_ping"       -> <<Key("ping"), {Var("WORD")}>>
      [] c = "config_ping_count" -> <<Key("ping"), {Var("WORD")}, {Var("NUM")}>>
      [] c = "config_traceroute" -> <<Key("traceroute"), {Var("WORD")}>>
      [] c = "net_netstat_info"  -> <<Key("show"), Key("netstat")>>
      [] c = "system_password"   -> <<Key("password")>>
      [] c = "config_quit"       -> <<Key("quit")>>
      [] c = "get_version" ->
            <<Key("version"), {Var("WORD")}, Choice(ArchWords), {Opt("[refresh]")}>>

VersionPattern(c) ==
    CASE c = "get_project"         -> <<Key("project"), {Var("WORD")}, {Opt("[refresh]")}>>
      [] c = "version_exit"        -> <<Key("exit")>>
      [] c = "show_project"        -> <<Key("show"), Key("project")>>
      [] c = "version_cmd_refresh" -> <<Key("refresh")>>
      [] c = "version_build"       -> <<Key("build")>>

ProjectPattern(c) ==
    CASE c = "project_exit"   -> <<Key("exit")>>
      [] c = "project_end"    -> <<Key("end")>>
      [] c = "project_conf"   -> <<Key("configure-project")>>
      [] c = "system_patch"   -> <<Key("patch"), {Var("WORD")}>>
      [] c = "project_make"   -> <<Key("make")>>
      [] c = "project_make_install_or_clean" -> <<Key("make"), Choice({"install", "clean"})>>
      [] c = "project_make2"  -> <<Key("make"), {Var("WORD")}>>
      [] c = "project_make_c" -> <<Key("make"), Key("-C"), {Var("WORD")}>>
      [] c = "project_make_c_2" -> <<Key("make"), Key("-C"), {Var("WORD")}, {Var("WORD")}>>
      [] c = "project_cmd_refresh" -> <<Key("refresh")>>

ConfPattern(c) ==
    CASE c = "pro_conf_exit" -> <<Key("exit")>>
      [] c = "pro_conf_kernel_conf_file" -> <<Key("kernel-config-file"), {Var("WORD")}>>

Shell          == {"system_pwd", "system_env", "system_ls", "system_ls2", "system_ls3",
                   "system_mkdir"}
Shows          == {"show_version", "show_version_detail"}
CommonCommands == Shell \cup Shows
EnableOnly     == {"config_ping", "config_ping_count", "config_traceroute",
                   "net_netstat_info", "system_password", "config_quit", "get_version"}
VersionOnly    == {"get_project", "version_exit", "show_project",
                   "version_cmd_refresh", "version_build"}
ProjectOnly    == {"project_exit", "project_end", "project_conf", "system_patch",
                   "project_make", "project_make_install_or_clean", "project_make2",
                   "project_make_c", "project_make_c_2", "project_cmd_refresh"}
ConfOnly       == {"pro_conf_exit", "pro_conf_kernel_conf_file"}

MkCommands == CommonCommands \cup EnableOnly \cup VersionOnly \cup ProjectOnly \cup ConfOnly

MkPattern ==
    [c \in MkCommands |->
       CASE c \in CommonCommands -> CommonPattern(c)
         [] c \in EnableOnly     -> EnablePattern(c)
         [] c \in VersionOnly    -> VersionPattern(c)
         [] c \in ProjectOnly    -> ProjectPattern(c)
         [] c \in ConfOnly       -> ConfPattern(c)]

MkNodes == {"DOWN", "ENABLE", "VERSION", "PROJECT", "PRO_CONF"}

(* cmd_tool_init and cmd_common_init. *)
MkInstalled ==
    [n \in MkNodes |->
       CASE n = "DOWN"     -> {}
         [] n = "ENABLE"   -> EnableOnly \cup Shows \cup {"system_pwd", "system_env"}
         [] n = "VERSION"  -> VersionOnly \cup Shows \cup Shell
         [] n = "PROJECT"  -> ProjectOnly \cup Shell
         [] n = "PRO_CONF" -> ConfOnly]

(* What a handler returns, and the node it leaves the prompt at.  Of the   *)
(* exit statuses of tools those that are CMD_ codes matter: 1 and 2 of ls, *)
(* make and patch, 1 of mkdir and cp, 10 of passwd (PAM refused), and the  *)
(* codes of rsync, the last thing a version's refresh runs.  99 is any     *)
(* other number, the negative ones of mk.c among them.                     *)
Stay(S) == S \X {"SAME"}
MkOutcomes ==
    [c \in MkCommands |->
       CASE c \in {"system_ls", "system_ls2", "system_ls3", "project_make2",
                   "project_make_c", "project_make_c_2", "net_netstat_info"} -> Stay({0, 1, 2})
         [] c \in {"system_mkdir", "system_pwd", "system_env", "pro_conf_kernel_conf_file"}
                                -> Stay({0, 1})
         [] c = "system_patch"  -> Stay({0, 1, 2})
         [] c = "system_password"     -> Stay({0, 1, 2, 3, 4, 10, 99})
         [] c = "version_cmd_refresh" -> Stay({0, 1, 2, 3, 4, 10, 99})
         [] c = "config_quit"   -> {<<0, "DOWN">>}
         [] c = "get_version"   -> {<<0, "SAME">>, <<0, "VERSION">>}
         [] c = "get_project"   -> {<<1, "SAME">>, <<0, "PROJECT">>}
         [] c = "version_exit"  -> {<<0, "ENABLE">>}
         [] c = "project_exit"  -> {<<0, "VERSION">>}
         [] c = "project_end"   -> {<<0, "ENABLE">>}
         [] c = "project_conf"  -> {<<0, "PRO_CONF">>}
         [] c = "pro_conf_exit" -> {<<0, "PROJECT">>}
         [] c = "config_ping_count"   -> Stay({0, 99})
         [] OTHER               -> Stay({0})]
=============================================================================
