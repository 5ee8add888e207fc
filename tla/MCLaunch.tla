------------------------------ MODULE MCLaunch ------------------------------
(***************************************************************************)
(* Launch for TLC: p1 launches an app whose definition is any of several,  *)
(* p2 one that shares the same host paths.  The definitions are a base and *)
(* the base with one table replaced, so that the tables do not multiply;   *)
(* they are one of two files in the search path, or the user's override.   *)
(***************************************************************************)
EXTENDS Launch

CONSTANTS p1, p2

MCExpand ==
    [field \in {"data", "data/", "conf"} |-> IF field = "conf" THEN "conf" ELSE "data"]
    @@ [field \in {"/"} |-> Root] @@ [field \in {"ro", "rw", "rx", "relative"} |-> Relative]
MCCwd == p1 :> "work" @@ p2 :> Root
NoArgs == {<<>>}
MCImagesSaid == {[entrypoint |-> <<"sh">>, cmd |-> <<"-l">>]}
MCHosts ==
    {[data |-> d, conf |-> c, work |-> "dir", net |-> c] :
        d \in {"none", "dir", "full"}, c \in {"none", "full"}}
MCCapabilities == [bpf |-> {"bpf"}, chroot |-> {"chroot"}]
Linux32 == {"linux32"}

MCDefaults ==
    [network |-> "localnet", mount_cwd |-> FALSE, mount |-> <<>>, entrypoint |-> Unset,
     args |-> <<>>, memory |-> Unset, swap |-> Unset, memory_high |-> Unset, cpu |-> Unset,
     cpu_shares |-> Unset, pids |-> Unset, capabilities |-> {}, seccomp_allow |-> {},
     seccomp_deny |-> {}]
Base == [mount |-> <<>>]

\* Kilo is 4 and I64Max 127: the largest megabyte count is 7, the largest sum 127.
Size(n, unit) == [amount |-> n, unit |-> unit]
Limited ==
    {[memory |-> m] : m \in {Size(7, "m"), Size(8, "m"), Size(0, "k")}}
    \cup {[memory |-> Size(4, "k"), swap |-> s] : s \in {Size(111, "b"), Size(7, "m")}}
    \cup {[swap |-> Size(0, "b")], [memory |-> Size(1, "m"), memory_high |-> Size(4, "k")],
          [memory_high |-> Size(2, "?")], [cpu_shares |-> 1, pids |-> 0]}
    \cup {[cpu |-> c, cpu_shares |-> 2, pids |-> 3] : c \in {1, 2, 510, NaN, Infinity}}
Filter(capabilities, allow, deny) ==
    [capabilities |-> capabilities, seccomp_allow |-> allow, seccomp_deny |-> deny]
Filtered ==
    {Filter({"bpf"}, {"clone"}, {"clone"}), Filter({"bpf"}, {"clone3"}, {"bpf", "socket"}),
     Filter({}, {"bpf", "personality"}, {}), Filter({}, {"no_such_call"}, {})}
Shared ==
    {[mount |-> m] : m \in {
        << <<"data">> >>, << <<"data/">>, <<"conf", "ro">> >>, << <<"conf">>, <<"data", "conf">> >>,
        << <<"data", "conf", "ro">> >>, << <<"data", "relative">> >>, << <<"relative">> >>,
        << <<"data", "/">> >>, << <<"/">> >>, << <<"data", "conf", "rx">> >>,
        << <<"data", "conf", "ro", "ro">> >>}}
Networked ==
    {[network |-> n, mount_cwd |-> w, mount |-> << <<"data", "rw">> >>] :
        n \in {"none", "full"}, w \in BOOLEAN}
Commands == {[entrypoint |-> <<>>], [entrypoint |-> <<"app">>], [args |-> <<"arg">>]}

At(first, second, over) == [dirs |-> <<first, second>>, over |-> over]
Definitions ==
    {At(NoFile, Base, c) : c \in Limited \cup Filtered \cup Commands}
    \cup {At(merge(Base, c), Broken, NoFile) : c \in Shared \cup Networked}
    \cup {At(NoFile, NoFile, NoFile), At(Broken, Base, NoFile), At(Base, Base, Broken)}
MCFiles == p1 :> Definitions
    @@ p2 :> {At([mount |-> << <<"data/">> >>], NoFile, NoFile)}
=============================================================================
