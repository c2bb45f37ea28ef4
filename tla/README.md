# A verification of mksh

mksh is an interactive shell for building firmware: one process, one terminal,
a tree of command nodes. The user enters a *version* (a branch checked out of
svn, for one architecture), in it a *project* (a directory of the version), runs
`make`, `refresh`, `patch` there, and leaves again. The code descends from
zebra's vtysh: a registry of commands with a matcher that takes abbreviations,
and handlers that run other programs.

This directory holds TLA+ modules of the parts of it, configurations for TLC
and proofs for TLAPS. All line numbers are those of the files under `src/`.

## The system

| Component | Files | State | Operations | What makes it correct |
|---|---|---|---|---|
| Session: versions and projects | `cmd/cmd_tool.c`, `cmd/mk.c`, `cmd/mk.h` | `vty->node`, `vty->index`; working directory and environment of the process; `versions`, `vi->projects`, `vi->arch`; the checkouts on the disk | `version`, `project`, `exit`, `end`, `refresh`, `build`, `configure-project`, `kernel-config-file`, `mkdir`, `make`, `quit`, end of file, start | prompt, index, directory and environment belong together after every line, whatever svn and the tools answer; the list of versions and the directories name the same things; an installation that fails half way leaves no debris |
| Command line | `command.c`, `vtysh.c`, `vtysh_main.c` | the command vectors of the nodes; the line; the candidates | type, TAB, `?`, Enter; dispatch, result codes | the handler that runs is the one the line stands for; completion, help and execution agree |
| Address and range matchers | `command.c:452-849` | none | `cmd_ipv4_match`, `cmd_ipv6_match`, `cmd_range_match`, ... | accept the notation and its beginnings, nothing else |
| Event loop | `thread.c`, `thread.h` | six lists of threads, two fd sets | add read/write/timer/event, cancel, fetch, call | a thread is in one list; each runs once, in the order of the priorities |
| Vector, linked list | `vector.c`, `linklist.c` | slots; nodes and a count | set, unset, copy; add, delete, sort | no element lost; count is the length |
| Enable password, boot configuration | `vtysh.c:81-193`, `vtysh_config.c` | `host.trytimes`; the configuration's tree (both dormant in the build the Makefile makes) | authenticate; read a file line by line | a counter that limits tries; lines run at the node they belong to |
| Netlink client | `ldsec_nlclient.c` | a socket, a sequence number | request, receive | the reply is the request's |
| Processes and pipes | `command.c:1821-1904`, `utils.c` | children and their descriptors | fork/exec/wait, pipe | exit status reported, children waited for, no end of a pipe left open |
| Memory, vty output, exceptions, drop reasons | `memory.c`, `vty.c`, `exception.c`, `dropreason.h` | none of interest | wrappers and tables | - |

Interaction: `main` reads a line and calls `vtysh_execute`; the matcher finds
the command of the node `vty->node` and calls its handler with the words that
are arguments; the handler changes `vty->node` and `vty->index` and, through the
function pointers of `version_inf` and `project_inf`, the process itself
(`chdir`, `setenv`); it runs svn, rsync, make and others with `fork`/`system`
and waits for them. There is one thread and no concurrency inside a handler.

What is hard here is mostly not interleaving but *sequences*: entering and
leaving must undo each other over any path through the nodes, with steps that
fail half way and results that are not looked at; the tools' exit statuses and
the shell's own codes share one number; copies of a filter loop must
agree; names are written in two ways and read back by another process. There is
real concurrency in two places: the children of a pipe, and the netlink client,
whose socket gets datagrams from the kernel and from anyone else.

## Modules

| Module | What it is |
|---|---|
| `MkSession` | the session: one action per typed line that changes state |
| `Workspace` | what the session promises: a place, and the directory and exports it determines |
| `MkSessionProofs` | types, environment, directory, the list of versions and the refinement of `Workspace`, proved |
| `MCMkSession` | two versions, three projects, small trees for TLC |
| `VersionRegistry` | the list of versions and projects, names and directories, over restarts |
| `ProjectMake` | the make lines and the installations of a project |
| `Workshop` | both composed: the project that is made is the one that was entered |
| `WorkshopProofs` | the registry's and the make lines' invariants, proved for all constants |
| `MCWorkshop` | words to type, a repository and the tables of attributes |
| `MkCommand` | the command line: typing, TAB, help, matching, dispatch |
| `MkGrammar` | the commands the program registers, their nodes and results |
| `MkCommandProofs` | what runs, is refused, completed and described, proved for every grammar, or for those without a trap |
| `MCMkCommand` | a vocabulary for every prompt |
| `Matchers` | the matchers of addresses, prefixes and ranges, and a user who types one |
| `MatchersProofs` | what exact means, what stays refused and who is not refused while typing, proved for every word |
| `MCMatchers` | twenty-one words to type |
| `ThreadMaster` | the event loop and its clients: adding, cancelling, fetching and calling threads |
| `ThreadMasterProofs` | lists, descriptor sets, handles and the order of timers, proved |
| `MCThreadMaster` | two clients that share a descriptor, three threads |
| `NlClient` | the netlink client, its callers, the kernel and other senders |
| `NlRequest` | what a caller relies on: its own request's answer, or a failure |
| `NlClientProofs` | sockets, requests and the refinement of `NlRequest`, proved |
| `MCNlClient` | the answers of a kernel and two callers |
| `Processes` | fork, exec, pipe and wait, descriptor by descriptor |
| `MCProcesses` | all calls, all failures |
| `Vector` | `vector.c`: an array that grows, with `max` |
| `Slots` | what a vector promises: a function from indices to values |
| `LinkList` | `linklist.c`: nodes, pointers and a count |
| `ListSeq` | what a list promises: a sequence, sorted or not |
| `Containers` | instances of a vector (`Vec`) and a list (`List`) side by side, with the assumptions on both |
| `SupportProofs` | both containers: bounds, pointers, and the refinements of `Slots` and `ListSeq`; of the processes: descriptors, the end of a pipe and the meaning of zero; proved |
| `MCContainers` | both containers, one of them used at a time |
| `ListFacts` | lemmas on least numbers, recursions, and the sequences the lists are made of |

### MkSession

`node`, `index` are `vty->node`, `vty->index`; `cwd`, `env`, `crossPath` the
process (a variable holds its *owner*: nobody, the user, or the version,
architecture or project its value was computed from; `crossPath` counts the
`:/opt/crossarm/bin` suffixes of PATH); `arch`, `known`, `projs` the registry;
`fs` the set of paths that exist. One action is one line from dispatch to
return, with every failure a disjunct: `VersionDirFails`, `VersionArchFails`,
`VersionRefreshFails`, `VersionEnters` are the four ways out of `get_version`
in the order of the code. svn, mkdir, rsync and the configure step answer
nondeterministically, svn with nothing, an empty top directory, or the tree.
`chdir` without a check is `Chdir`, which stays when the target is missing. A word
for `mkdir -p` is any number of steps up and then a path (`../v3` is one up, an
absolute path more than there are), so that it may make directories anywhere; `byHand`
is history: the names in `ROOT_DIR` that this process's `mkdir` lines made there, which
its list does not have until the next process reads them.

Assumptions that come from outside the code: `/bin/sh` takes `&>` for a
redirection, as bash does (with a shell that does not, `svn ls ... &>/dev/null`
always succeeds and no name is ever refused, which adds nothing that a
successful `svn ls` does not do); the directories of a version are not removed
by another process while it is used. A version or project svn does not know
leaves the state as it was and is a stuttering step.

### MkCommand

`cands`, `index` are the locals of `cmd_execute_command`; one `MatchWord` is one
round of its loop, `Dispatch` what follows, `HandlerReturns` and `RunAgain` the
switch of `vtysh_execute_func`. A pattern is a sequence of sets of alternatives,
as in `cmd_make_descvec`. Words are strings, because abbreviation and
the longest common beginning are what the component is about. A handler is
the set of its results and the node it leaves behind.

### Matchers

`Ipv4`, `Ipv4Prefix`, `Ipv6`, `Ipv6Prefix` and `InRange` are the five
`cmd_*_match` functions. A loop of C is a recursive function of the position in
the word (`Ipv4Scan`, `PrefixScan`, `Ipv6Scan`), whose values are what the loop
keeps in locals (dots, colons, where the group began); a `return` in the loop is a
verdict that all later positions keep. Characters have their codes (`Code`), so
that comparisons such as `*str < '0'` are what they are in C. Around the operators is
a user who means one of `Goals` and types it character by character, with up to
`MaxSlips` slips: a wrong key, one left out, one too many. This gives the beginnings,
and the words next to valid ones, that TAB, `?` and the dispatch of a half typed
line hand to the matchers.

What the notations are is defined without a scan, by cutting a word at its
separators: `Dotted` (four octets), `Masked` (a number after the last slash),
`Hexed` (groups of four and one double colon), `Whole` (moreover eight groups, or
fewer with a double colon), `InTwosComplement`. `ExactIsRight` relates the verdicts
to them, in both directions where the code allows: IPv4 addresses, prefixes with one
slash and ranges are exact *if and only if* they are the notation; IPv6 addresses
that are exact and have no dot are `Hexed`, and every `Whole` one is exact, with a mask
or without. `GoalsComplete` says that the words users mean are such addresses;
the one with a dotted end is no part of these definitions and is assumed to be exact.

### VersionRegistry, ProjectMake and Workshop

`VersionRegistry` has the list `versions`, the directories under `ROOT_DIR`, and
the two conversions between them: a name typed loses its slashes at the end
(`FixName`), a version's name has `/` where its directory has `+`. Whether a version
exists is asked of svn, which makes a path canonical first (`SvnPath`: one slash between
components, no `.`), while the list is searched for the word as it was typed. `Start` is
`all_versions_init`, in any order that `readdir` may take; `Stop` is `quit`, the
end of file or a crash. How far entering a version or a project gets is a choice here
(nothing, its directory, what refresh checks out, entered), since `MkSession` has the
details. Everything that makes directories in a version is here, since the next process
lists them all: `build` and the system's tree (`os.ARCH` or `ARCH.os`) of a refresh, the
version's own last component and what the script makes on `build` (`VersionBuild`), the
projects, and `mkdir` lines, which may make versions' directories, too (`byHand` is
history).

`ProjectMake` starts where a project has been entered. `last` is the line and the
arguments that reached `make`, and `Done(steps)` is a script of steps of which any
number is done before one fails. The installation of `iptables` is one action per
call, since the process stands in `sbin` for some of them: `CopyPrograms`, `ChdirSbin`
(whose result the code ignores), `LinkOne` for each `ln` of the chain, `ReturnBroken` or
`ReturnLinked` (the two ways back), `CopyHeaders`; `installing` is the next step, the
links made and the directory that `getcwd` gave. Between any two of them the process may
be killed (`Killed`). `Workshop` takes a step of the registry and,
when the project changes, enters or leaves it in `ProjectMake` (`Follow`): the
attribute row is the one found by the name in the list, and what is exported is that
of the version's row.

Assumed (`RegistryAssumption`): svn has no name with a `+`, and a word for a version
names something below its top (so `version .` is not typed); a project's word is
one component, with slashes at the end or not (what deeper ones do is `MkSession`'s
matter); the directories that show in `ROOT_DIR` before the first process are names
the program could have made, which do not end in `+`; the directory of a version is
not removed or a plain file.

### ThreadMaster

`list` holds five of the lists of `struct thread_master` and `unuse` the sixth,
`fds` is `readfd` and `writefd` (`exceptfd` is never set), `thread` the fields
type, function, argument and `u` of each `struct thread`, `running` the copy
`thread_fetch` fills in. One action is one call of the interface; `thread_fetch`
has an action for each of its returns: `FetchEvent`, `FetchTimer`, `FetchReady`,
`Select` (both calls of `thread_process_fd` and the thread that runs first) and
`SelectFails`. A time-out of `select` and `EINTR` change nothing and are
stuttering steps.

The program contains the loop but does not run it yet, so the client comes from
the macros of `thread.h`: `THREAD_READ_ON` and its like add only when the handle
is NULL, `THREAD_OFF` cancels and resets it, and a function resets its own
handle when it is called. A client that kept a handle beyond that would cancel
a thread that is used again by someone else; `HandleOfThread` is what the macros
buy. Between two steps of the loop `SetClock` may move the clock anywhere, since
times are those of `gettimeofday`, which an administrator can set.

### NlClient

One socket (`sock`, `nonblock`, `peer`), its receive queue, and the client's place
in `nl_parse_info`. `Connect` is `nlsock_connect` with all its failures, `Send`
`nl_request` up to `sendto`, `Receive` one datagram walked message by message,
`NothingThere` the `EAGAIN` of a socket that does not block, `Free`
`nlsock_disconnect`. Nothing in the program calls the client, so a caller is a
record: whether it keeps its socket or makes one per request (`request_comm`),
the flags it passes, the answers the kernel has, how many datagrams may get lost
or be cut. The kernel is external: it decides when it gets the request and answers
with datagrams of `ack`, `error`, `data`, `done` or a message of odd length
(`rest`); other processes may send to the socket at any time.

`recvmsg` writes the sender of a datagram into the address that the next `sendto`
uses, and no sequence number is ever compared. `AsksKernel` and
`ImplementsRequest` say why that goes well for these callers: a datagram of another
process is skipped and the loop goes on to one of the kernel, and every datagram
of an answer is read before the next request. The second breaks when datagrams may
be lost or odd and the socket is kept; callers that do that are therefore not
among those of the run, and `request_comm`, which throws its socket away, meets
all of it.

### Processes

`pc` is where each of shell, customer and producer is in
`cmd_execute_system_command` or `cmd_exec_system_cmd_pipe`; `fd` what descriptors
0, 1 and the two of the pipe stand for in each. Every call of `Failing` may fail.
A child whose call fails *returns* from the function instead of exiting
(`"returned"`): it becomes a second shell, until its user quits it. The tools are
external: a producer writes, a customer reads to the end of file, either may be
killed, a customer may exit early. `SIGPIPE` is ignored by the shell and inherited
as ignored, so a writer without a reader gets `EPIPE`.

### Vector and LinkList

`Vector` has `index` (a function on `0 .. alloced - 1`), `max` and `alloced`;
`Slots` is a function on all indices that users see. `LinkList` has `head`, `tail`,
`next`, `prev`, `data` and `count`; `ListSeq` is a sequence. `list->cmp` is set or
not for the life of a list, and users of a sorted one add with `listnode_add` and
`list_add_list` only. `MaxUncounted` bounds how far `count` may fall behind the
length through `listnode_add_after`.

## Runs

| Run | Shows |
|---|---|
| `session` | prompt, index, directory, environment and list agree after every line, and the session implements `Workspace`, with flat project names |
| `session_nested` | violation: of a project `a/b`, whose directories are there, exit leaves the session in `a` |
| `command` | what runs, is refused, completed and described, for every line of up to four words of the vocabulary |
| `command_short` | violation: `make in` is a `make clean` |
| `matchers` | valid addresses are never refused while typed, what was refused is never accepted later, what is accepted is the notation, and every address in full is accepted |
| `workshop` | no version twice in the list but by an odd spelling or a `mkdir`; a directory gives its entry back to a new process; an installation makes no link without its program and comes back from `sbin` |
| `make_clean` | violation: `make clean` compiles |
| `loop` | lists, descriptor sets and handles agree; the earliest timer first; events and, once events and due timers cease, ready threads are not starved |
| `netlink` | sockets are not lost, requests go to the kernel, each caller is told its own answer or a failure, and told unless a datagram was lost |
| `netlink_nonblocking` | violation: a request with `NLM_F_APPEND` succeeds before the kernel answered |
| `processes` | which descriptors tools hold, when the pipe ends, what zero means, and that tools end and the shell comes back |
| `containers` | arrays stay in bounds, lists well formed; both implement slots and sequences |

Where a property holds only under a condition, the condition is in its formula and
its comment: no datagram of the answer was `lost`, no child has `returned` as
another shell, no IPv6 address with a dot.

Bounds. `session`: two versions, one of each attributed branch, suffice for one
version's leftovers to meet the other; the architectures are one of either list and the
one with a cross compiler; projects of the kinds of `init_env`. `mkdir` gets `../fcms`
and an absolute path of a directory in `ROOT_DIR`, the two that reach out of where the
session is. The depth of the node tree is three, and the state graph is finite and
explored completely. `command`: the longest registered pattern has four words; the
vocabulary of a prompt has a keyword in full, a beginning of one and of two keywords, an
argument that begins a keyword and one that does not.

`matchers`: addresses with octets of one to three digits and at each limit, IPv6 with a
double colon at the beginning, in the middle, at the end and without one, masks at 32
and 128; `UlongMax` is 999, so that a number of four digits overflows; the range is
5-17, whose ends differ in length; two slips, from six keys: the separators, a digit, a
sign and a letter that is not hexadecimal. `workshop`: a version `a/b`, typed with
slashes at the end, with one in front (a twin that the program lets in), and as `a+b`,
its directory's spelling, which svn does not know; the projects that install in several
commands (`iptables`), in several after a kernel, in one, and `iptables/`, which has no
row of attributes; `mkdir` of `a+b+`, which reads as `a/b/`, and of `a+b/iptables`; a
disk with a hidden directory and with the version, its `build` and two projects. One
architecture and one version suffice, in three entries: none reads the fields of
another.

`loop`: three threads are the least with which one can be running, one ready
and one waiting, and a freed one is used again while two others are in lists;
two clients with a shared descriptor (1) and one of `b`'s own (2) can meet in
`readfd`; a clock of three values and delays of 0 and 1 give timers that are due
at once, later, equal, and due again after the clock was set back. `Threads` and
`MaxTime` are bounds of the model only; when every thread is in use, nothing can
be added until one is free.

`netlink`: three requests, so that what the first left behind can meet the second
and what that left the third; two datagrams of others (`MaxForeign`) and two faults
per life of a caller. `processes`: a pipe that holds one line of three, so that the
producer blocks; the program runs one command at a time and forgets its children,
so that one command is a whole behaviour. `containers`: indices 0 to 4 with a first
size of one double the array once and twice in a call; two values and NULL; four
nodes with data 1 and 2 have equal elements, both ends and two in the middle.

Deadlock is checked in every run but `netlink`: there a lost reply really stops the
process, as `recvmsg` waits without a timeout.

Fairness. The session, the command line, the matchers, the workshop and the
containers are checked for safety alone: a handler may wait for a tool forever.
`ThreadMaster` assumes weak fairness of what the loop does by itself: a client's
function returns (`Return`), the fetched thread is called (`Call`), and
`thread_fetch`, which does not block while an event, a due timer or a ready
thread is there, returns it. Nothing is assumed of descriptors or of the clock,
and `ReadyRuns` has the condition that events and due timers cease: `thread_fetch`
puts both before ready threads, so that a function that adds itself again as an
event, or as a timer of no delay, starves every descriptor. `NlClient` assumes that
the client reads what is there (`Receive`), goes on when a socket that does not
block has nothing (`NothingThere`), and that the kernel sends what it has to send
(`Deliver`); nobody else has to do anything. `Processes` assumes that a process
that can run does; nobody has to be killed, to quit a shell or to exit early.

## Findings

Four violation runs show where the program and its own words disagree; PROJECT.json
quotes them under `findings`. Met on the way, without a run of their own:

- Session: a version that was never checked out cannot be entered, with `refresh`
  or without: the architecture is looked up in `build/fwbuild` (`mk.c:1278`), which
  only the refresh after it brings. `version v2 arm`, an abbreviated
  architecture, gives a version without its cross compiler (the handler compares
  whole words), and `project_themis_arch_dir` then names no kernel image, so that
  nothing is installed. The kernel's `.config` is copied once and stays when the
  architecture changes. After a restart everything in a version's directory that
  is a directory is listed as a project: `build`, the system's tree, what `build` checks
  out and makes, what `mkdir` made; and every directory in `ROOT_DIR` as a version. A
  version typed with a doubled slash or one in front is entered as a second entry for
  the same sources, with a directory of its own, which is hidden after a restart when it
  begins with a dot; a directory made by hand that ends in `+` reads as such a twin.
  `project iptables/` has no row of attributes, as `project_get`
  does not fix the name. `make install` of a project without `install2` runs `make`
  without a word. `mk_fix_name` of `/` reads before the string.
- Command line: a tool that exits with 2 is reported as "Unknown command", and
  status 10 of `passwd` starts it a second time, as exit statuses and `CMD_` codes
  share a number (`vtysh.c:61-78`). No property is about a handler's own message.
- Matchers: an empty first group of an IPv4 address is accepted (`.1.1.1`), by
  `bad_ip_address` too; `macstr_to_macaddr` takes groups of three digits and `1*:`
  that `is_mac_valid` refuses, and does not know the `-` that `is_mac_valid` takes;
  `cmd_ipv6_match` refuses dotted ends (`::1.2.3.4`), and does not measure a group
  before a dot, so that `12345` is refused and `12345.` not; `1/2.3.4.5/8` is
  a prefix; `-5` is in a range when it is modulo `ULONG_MAX + 1`.
- Event loop: a second reader of a descriptor is accepted when the first is ready
  and has not run (`thread.c:255-257`).
- Processes: the function for two tools returns 0 whatever they return.
- Containers: `listnode_add_after` does not count.
- Enable password: `host.trytimes` (`vtysh.c:100`) cannot be reached, as nothing
  sets `host.enable`.

## Proofs

All theorems are proved for every value of the constants that satisfies the
assumption the module names; a condition that only some of them need is in the
theorem's statement, and the run that shows the property fulfils it (TLC evaluates
the assumptions, `GoalsComplete` and `ListBounds` among them, and `ClearGrammar` and
`AllOrderly` of the MC modules). Every invariant and every action property of a passing
run is the statement of a theorem.

### MkSessionProofs

`TypeCorrect` proves `Typed`, the types and what `vty->index` points to.
`EnvironmentCorrect` proves `EnvironmentOfNode`, an inductive invariant that ties
architecture, environment and PATH to the node: leaving can only undo what the
invariant says is there. For project names of one component (`FlatNames`),
`DirectoryCorrect` proves `DirectoryOfNode`: there the invariant has to say that the
sources and the build directory exist, because `ProjectCmdRefresh` and
`VersionBuild` come back by a `chdir` that must not fail. Two results follow:
`ExitGoesDownHolds` and `RegistryCoversDiskHolds`. The latter rests on one argument:
every command but `version` and `mkdir` makes paths *below* a version's directory
(`Deep`), `version` lists the one it makes in the same step, and one that `mkdir` makes
is `byHand`; without `DirectoryOfNode` another command could run above a version's
directory and make one. With `FlatNames`,
`SessionImplementsWorkspace` maps each line to a move of `Workspace` or a stutter;
`session_nested` shows what happens without it.

### MkCommandProofs

`MatcherCorrect` proves `RightCommandRuns` for every grammar: a lemma about one word
(`WordFilters`: who is left accepts the word, and who is dropped accepts it worse or
not at all), and an invariant over the words read so far: a command that accepts them
is a candidate of equal rank or beaten at the first word where it differs.

A refusal is true only in some grammars, since the matcher never goes back: it drops a
command for one that takes a word more literally and may find later that this one does
not go on. `NoTraps` says that whoever outranks a command takes the rest of the line,
too; `AllApart`, that two commands of a node differ in a word that both need, or in
length. With them `RefusalTrueHolds` proves `RefusalTrue`, by the invariant that the
candidates were told apart by no word so far (`CandidatesTogether`) and that for every
command that accepts the words one is left that takes its rest (`NoneLost`). TAB and `?`
have loops of their own, and share `Left` here, a recursive function; `RecursionExists`
of `ListFacts` says that it is a solution of its equation, whatever `CHOOSE` would do
otherwise. `HelpAgreesHolds` needs `AllApart` and that no keyword is spelled `<cr>`, and
`TabKeepsCommandHolds` that keywords are words (`ProperKeywords`: strings are opaque to
the prover). That the grammar of the program fulfils all of these is evaluated by TLC
for the commands of `MkGrammar`.

### WorkshopProofs

The registry. `NoTwins` is not inductive: whether a word is new depends on the
directory that `version_change_name` makes of it. `RInv` says that every entry's
directory is proper (no `/`, and `+` at the end only when a `mkdir` line made it), that
its name is what that directory reads as (`Listed`), that no two have one directory
(`DirsDiffer`), and for the restart, that a directory that shows has its entry or was
made by `mkdir` lines with all that is in it (`Covered`), and that all in an entry's
directory is a project of it, made by refresh or `build`, or by hand (`Known`). The
lemma below it is that the two conversions undo each other on such names.
`NoTwinsHolds` and `RebuiltHolds` follow, and `ShopHasRegistry` carries them to the
composition.

The make lines, in `ShopSpec`. `BackInProjectHolds` needs that the two components
agree on whether a project is entered (`InProject`): nothing of `ProjectMake` alone
knows of a project that is left. In the middle of an installation `Halfway` says
what brings it back: the directory that was saved is the project's, and between the
`chdir` and the way back the process really is in `sbin`, although nobody looked: `cp`
of two files has worked, so that `sbin` is a directory and has both programs. With that
`LinksNearProgramsHolds` follows too, since each link is made there; the other scripts
of an installation put nothing into `sbin` (`NoLinks`).

### MatchersProofs

Every result is about words of any length, although the library's induction theorems
cannot be used: an induction over the positions of a word goes through the set of
those for which the claim holds (`UpTo` of `ListFacts`, and `From`), and the equations
of the scans come from `RecursionExists`.

`TypingInv` says of the user that `typed` without slips is a beginning of the word
that is meant, and of `refused` that some beginning of `typed` is not matched. The
lemma for `RefusedStays` and `TypedIsThrough` is `NotAcceptedLater`: the
scan of a beginning is the beginning of the scan but for its last step, which sees the
end instead of the next character (`Ipv4Same` and its like), so that what refuses
the shorter word is still there in the longer one. `TypedIsThrough` needs
that the whole word is exact, for which `GoalsAssumption` and the completeness lemmas
below are cited.

`ExactStands` is one lemma for each function. `Ipv4ExactIs` and `PrefixExactIs` say what
a scan's state is in terms of the cuts among the characters read so far: the dots are
counted by them, the group began behind the last, the groups before were octets
(`Shape...`, `Dotted...`). Of an IPv6 scan `SixGood` says the same for colons, double
colons and the lengths of groups. The converse, that an address in full is exact, has an
invariant of its own: `Clear` is what a word's characters must be like, and `Track` says
that a scan in the middle of such a word goes on, with no more colons and numbers than
there are cuts so far. That the limits of eleven numbers, eight numbers and seven
colons are never met then follows from the number of the cuts alone
(`CutsCount`). Ranges are `RangeIs`, modulo `ULONG_MAX + 1`, and MAC addresses
`MacIs`, where the bytes are those of the hexadecimal digits.

### ThreadMasterProofs

One invariant, `IInv`: the fields of a thread fit its type, a list has exactly the
threads of its type (`Places`), the fd sets are those of the lists, the timers are
sorted, and a handle and the thread that is scheduled for it point to each other
(`Owners`). The last has one exception, the thread between `thread_fetch` and
`thread_call`, which is free although its handle is not yet reset: another thread
scheduled for that handle is what must not exist. From it `TypeCorrect`,
`OneListHolds`, `FdsOfListsHolds`, `HandleOfThreadHolds`, and the action property
`EarliestFirstHolds`, for any number of threads and a clock set at will.

### NlClientProofs

`NoSocketLeftHolds` needs types and that a socket is open exactly while a caller holds
it. `AsksKernelHolds` has the condition `Waits`: a caller that keeps its socket does
not pass `NLM_F_APPEND`. `ClientImplementsRequest` has `Orderly`: moreover nothing
that such a caller is sent gets lost, and only the last datagram of an answer ends a
request. Its invariant is about the datagrams on their way: none of the
kernel's when a request is made (`Quiet`), none that reports a success the kernel
has not decided (`Truthful`), and none after the one that decides (`DecidesLast`).
Outside of these conditions the client is wrong: the run `netlink_nonblocking` shows
the first case.

### SupportProofs: processes

`IInv` says where each process can be together with the others (`Control`), what
descriptors it has there (`Holds`: both ends before the close, one after it, one as its
standard stream at the end), and what the shell can know of its child (`Ends`). A
child that has returned after a failed call keeps what it had; for the producer that
includes the write end, which is why `EndAfterAll` counts it. From it
`ToolsHoldTheirEndHolds`, `EndAfterAllHolds` and `ZeroMeansDoneHolds`.

### SupportProofs: containers

`Vector`: `InBounds` is inductive as it stands: the array is a function on what is
allocated, `max` is within it, and nothing lies beyond `max`. The last part is what the
others need: `vector_set` looks for an empty slot up to `max` only, and
`vector_unset` trims without a look beyond. From it `VectorBounds`,
`VectorTrimsToValue`, `VectorSetTakesFirst` and `VectorImplementsSlots`, whose
lemmas say of each function what becomes of the slots.

`LinkList`: `WellFormed` walks the chain, and a walk is no good for induction over
steps. `ListInv` says instead that there is a sequence of the nodes in use, each
once, to whose neighbours all pointers point (`Linked`), and that nodes not in
use point nowhere (`Clean`). That the walk is that sequence is one lemma (`ChainIs`);
linking and unlinking are one lemma each (`LinkStep`, `UnlinkStep`), to which every
function of `linklist.c` is brought down (`AddCases`). `WellFormedHolds`,
`CountFollowsHolds` and `ImplementsSeqHolds` follow. They are about
`List!Spec`, and assume of the constants (`ListBounds` of `Containers`) that there are
finitely many nodes, that data are numbers, and that NULL is neither.

### What stays with TLC

Liveness under fairness: `EventsRun`, `ReadyRuns`, `ComesBack`, `ToolsEnd` and
`ShellComesBack`; the provers have no rule for `ENABLED`. The violation runs'
properties, which are false. That the dotted end of an IPv6 prefix among `Goals` is
exact, which is assumed and evaluated, as the notation is defined without dots. What
`MacGood` and `MacBytes` make of words that `is_mac_valid` refuses, of which nothing is
claimed.

## Not modelled, and the plan

Not modelled, and why:

- Enable password and boot configuration: the Makefile's build (`VTY_SIMPLE_NODE`)
  registers no `enable` and nothing at `CONFIG_NODE`, and nothing sets
  `host.enable`. A model would be of code that cannot run.
- `memory.c`, `vty.c`, `exception.c`, `dropreason.h`: wrappers, output and tables.
- The fourth copy of the filter loop, which matches the lines of a configuration file
  strictly; and whether completion and description keep to one loop: they share `Left`.
- Ranges, addresses and varargs in `MkCommand`'s patterns, since no registered
  command has them: the functions themselves are in `Matchers`. `?` within a word.
- `thread_execute`, `thread_should_yield` and `thread_master_free`, which touch
  none of the lists of a running loop; the resource usage that `thread_call` keeps.
- `patch`, and the checks that only a build without `VETO_IN_SMB` has.
- Reading and writing numbers of `/proc` files in `utils.c`.

Next, in this order:

1. An abstract event loop (what is scheduled, and what runs next) that
   `ThreadMaster` implements.
2. The refinement of a specification of a session's registry by `VersionRegistry`,
   to relate its list to `known` and `projs` of `MkSession`.

PROJECT.json lists every component with its state and, under `hazards`, each
place where this code can go wrong that a test would hardly reach.
