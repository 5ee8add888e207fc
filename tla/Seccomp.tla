------------------------------ MODULE Seccomp -------------------------------
(***************************************************************************)
(* src/src/seccomp.rs: the policy an app's system calls are filtered by,   *)
(* made from the built-in profile, the app's capabilities, and its         *)
(* seccomp-allow and seccomp-deny.  seacomb, which turns the policy into a *)
(* filter, is external: it is modelled by the verdict on each call.        *)
(***************************************************************************)
CONSTANTS
    ALLOWED,            \* the calls every app may make, ARCH_ALLOWED included
    Syscalls,           \* the names Syscall::lookup() knows
    CAPABILITY_SYSCALLS,\* the calls each capability adds
    PERSONALITIES       \* the execution domains an app may switch to

Capabilities == DOMAIN CAPABILITY_SYSCALLS
Of(capabilities) == UNION {CAPABILITY_SYSCALLS[c] : c \in capabilities}

\* What the partial rules look at in the arguments of a call: a new user
\* namespace, a virtual machine socket, an execution domain
Arguments == {"plain", "NEWUSER", "VSOCK", "other_domain"} \cup PERSONALITIES
Calls == [name : Syscalls, arguments : Arguments]

Rule(name, action, arguments) == [name |-> name, action |-> action, arguments |-> arguments]

\* The calls allowed only in part; clone has one rule per architecture, all alike.
partial_rules ==
    {Rule("clone", "allow", Arguments \ {"NEWUSER"}),
     Rule("unshare", "allow", Arguments \ {"NEWUSER"}),
     Rule("clone3", "ENOSYS", Arguments),
     Rule("socket", "allow", Arguments \ {"VSOCK"})}
    \cup {Rule("personality", "allow", {domain}) : domain \in PERSONALITIES}
Covered == {"clone", "unshare", "clone3", "socket", "personality"}

\* "the few that the rules further down handle on their own" are not in the list,
\* nor are the calls that belong to a capability.
ASSUME SeccompAssumption ==
    /\ ALLOWED \subseteq Syscalls /\ Covered \subseteq Syscalls
    /\ \A c \in Capabilities : CAPABILITY_SYSCALLS[c] \subseteq Syscalls
    /\ ALLOWED \cap Covered = {}
    /\ Of(Capabilities) \cap (ALLOWED \cup Covered) = {}
-----------------------------------------------------------------------------
\* AppConfig::load() has this checked for every name a definition lists.
check_syscall_names(app) == app.seccomp_allow \cup app.seccomp_deny \subseteq Syscalls

\* Mutant: seccomp-allow is looked at last.
profile_allow_last(app) ==
    [allowed |->
        ((ALLOWED \cup Of(app.capabilities)) \ app.seccomp_deny) \cup app.seccomp_allow,
     partial |->
        {rule \in partial_rules : rule.name \notin app.seccomp_allow \cup app.seccomp_deny}]

\* Names are allowed, then denied, and a name in either list drops its partial rules.
profile(app) ==
    [allowed |->
        (ALLOWED \cup Of(app.capabilities) \cup app.seccomp_allow) \ app.seccomp_deny,
     partial |->
        {rule \in partial_rules : rule.name \notin app.seccomp_allow \cup app.seccomp_deny}]

\* What the filter answers to a call of an architecture it covers
verdict(policy, call) ==
    LET applying == {rule \in policy.partial :
                       rule.name = call.name /\ call.arguments \in rule.arguments}
    IN  IF call.name \in policy.allowed THEN {"allow"}
        ELSE IF applying = {} THEN {"EPERM"}
        ELSE {rule.action : rule \in applying}
-----------------------------------------------------------------------------
\* "the app's own decision is the only one left": a call it denies is refused
\* and one it allows passes, whatever its arguments.  Where the app says
\* nothing, no call makes a user namespace, and a call that belongs to
\* capabilities passes with one of them and no other way.
OwnDecision(app, policy) ==
    \A call \in Calls :
        /\ call.name \in app.seccomp_deny => verdict(policy, call) = {"EPERM"}
        /\ call.name \in app.seccomp_allow \ app.seccomp_deny =>
             verdict(policy, call) = {"allow"}
        /\ call.name \notin app.seccomp_allow =>
             /\ call.name \in {"clone", "clone3", "unshare"} /\ call.arguments = "NEWUSER" =>
                  "allow" \notin verdict(policy, call)
             /\ call.name \in Of(Capabilities) \ Of(app.capabilities) =>
                  verdict(policy, call) = {"EPERM"}
        /\ call.name \in Of(app.capabilities) \ app.seccomp_deny =>
             verdict(policy, call) = {"allow"}

\* No call has both a rule of its own and a partial one, which could disagree.
Unambiguous(policy) ==
    /\ \A rule \in policy.partial : rule.name \notin policy.allowed
    /\ \A call \in Calls : \A a, b \in verdict(policy, call) : a = b
=============================================================================
