---------------------------- MODULE LaunchProofs ----------------------------
(***************************************************************************)
(* Theorems about Launch: a run is held to the limits of its definition,   *)
(* its own decisions about system calls prevail, and `climate check` tells *)
(* the runs whose definition is wrong, for any definitions, any number of  *)
(* launches next to each other and anything users do meanwhile.            *)
(***************************************************************************)
EXTENDS Launch, TLAPS

(* Limits *)

\* The bytes of a size in one of the units
LEMMA BytesNat ==
    ASSUME NEW size \in Sizes, size.amount # Invalid, size.unit \in Units, size.amount >= 0
    PROVE  Bytes(size) \in Nat
<1>1. size.amount \in Int
  BY DEF Sizes
<1>2. Multiplier[size.unit] \in Nat
  <2>1. Kilo \in Nat /\ Kilo * Kilo \in Nat
    BY LimitsAssumption
  <2>2. Kilo * Kilo * Kilo \in Nat
    BY <2>1
  <2>3. Kilo * Kilo * Kilo * Kilo \in Nat
    BY <2>1, <2>2
  <2> QED BY <2>1, <2>2, <2>3 DEF Units, Multiplier
<1>3. ASSUME NEW a \in Nat, NEW b \in Nat PROVE a * b \in Nat
  BY <1>3
<1> QED BY <1>1, <1>2, <1>3 DEF Bytes

\* A size is an error, or the very bytes it says.
LEMMA ParseMemory ==
    ASSUME NEW size \in Sizes
    PROVE  \/ parse_memory(size) = Invalid
           \/ parse_memory(size) = Bytes(size) /\ parse_memory(size) \in 0..I64Max
<1>1. CASE size.amount = Invalid \/ size.unit \notin Units \/ size.amount < 0
  BY <1>1 DEF parse_memory
<1>2. CASE size.amount # Invalid /\ size.unit \in Units /\ ~(size.amount < 0)
  <2>1. size.amount \in Int
    BY <1>2 DEF Sizes
  <2>2. Bytes(size) \in Nat
    BY <1>2, <2>1, BytesNat
  <2> QED BY <1>2, <2>2, LimitsAssumption DEF parse_memory, checked
<1> QED BY <1>1, <1>2

LEMMA ParseSize ==
    ASSUME NEW size \in Sizes
    PROVE  \/ parse_size(size) = Invalid
           \/ parse_size(size) = Bytes(size) /\ parse_size(size) \in 1..I64Max
BY ParseMemory, LimitsAssumption DEF parse_size

\* Limits that resources() accepts hold an app to what its definition says.
LEMMA AcceptedHold ==
    ASSUME NEW config \in LimitsConfig,
           \A key \in DOMAIN Parsed(config) : Parsed(config)[key] # Invalid
    PROVE  HoldsTo(config, Parsed(config))
<1> DEFINE set == Parsed(config)
<1>1. /\ set.memory = memory(config) /\ set.swap = swap(config)
      /\ set.high = memory_high(config) /\ set.quota = quota(config)
      /\ set.shares = cpu_shares(config) /\ set.pids = pids(config)
      /\ set.memory # Invalid /\ set.swap # Invalid /\ set.high # Invalid
      /\ set.quota # Invalid /\ set.shares # Invalid /\ set.pids # Invalid
  BY DEF Parsed
<1>2. /\ config.memory \in Sizes \cup {Unset} /\ config.swap \in Sizes \cup {Unset}
      /\ config.memory_high \in Sizes \cup {Unset}
      /\ config.cpu \in Int \cup {NaN, Infinity, Unset}
      /\ config.cpu_shares \in Int \cup {Unset} /\ config.pids \in Int \cup {Unset}
  BY DEF LimitsConfig
<1>3. I64Max \in Nat /\ {NaN, Infinity, Unset, Invalid} \cap Int = {}
  BY LimitsAssumption
<1> HIDE DEF set
<1>4. \/ set.memory = Unset /\ config.memory = Unset
      \/ /\ config.memory # Unset
         /\ set.memory = Bytes(config.memory) /\ set.memory \in 1..I64Max
  BY <1>1, <1>2, <1>3, ParseSize DEF memory
<1>5. \/ set.swap = Unset /\ config.swap = Unset
      \/ /\ config.swap # Unset /\ set.memory # Unset
         /\ set.swap - set.memory = Bytes(config.swap) /\ set.swap \in set.memory..I64Max
  <2>1. CASE config.swap = Unset
    BY <1>1, <2>1 DEF swap
  <2>2. CASE config.swap # Unset
    <3>1. /\ set.memory # Unset
          /\ parse_memory(config.swap) # Invalid
          /\ set.swap = checked(set.memory + parse_memory(config.swap))
      BY <1>1, <2>2 DEF swap
    <3>2. /\ parse_memory(config.swap) = Bytes(config.swap)
          /\ parse_memory(config.swap) \in 0..I64Max
      BY <1>2, <2>2, <3>1, ParseMemory
    <3>3. set.memory \in 1..I64Max
      BY <1>4, <3>1
    <3>4. set.swap = set.memory + parse_memory(config.swap) /\ set.swap <= I64Max
      BY <1>1, <3>1 DEF checked
    <3>5. ASSUME NEW a \in 1..I64Max, NEW b \in 0..I64Max, NEW sum, sum = a + b, sum <= I64Max
          PROVE  sum - a = b /\ sum \in a..I64Max
      BY <1>3, <3>5
    <3>6. /\ set.swap - set.memory = parse_memory(config.swap)
          /\ set.swap \in set.memory..I64Max
      BY <3>2, <3>3, <3>4, <3>5
    <3> QED BY <2>2, <3>1, <3>2, <3>6
  <2> QED BY <2>1, <2>2
<1>6. \/ set.high = Unset /\ config.memory_high = Unset
      \/ /\ config.memory_high # Unset
         /\ set.high = Bytes(config.memory_high) /\ set.high > 0
         /\ set.memory # Unset => set.high < set.memory
  <2>1. CASE config.memory_high = Unset
    BY <1>1, <2>1 DEF memory_high
  <2>2. CASE config.memory_high # Unset
    <3>1. /\ set.high = parse_size(config.memory_high)
          /\ set.memory # Unset => ~(set.high >= set.memory)
      BY <1>1, <2>2 DEF memory_high
    <3>2. set.high = Bytes(config.memory_high) /\ set.high \in 1..I64Max
      BY <1>1, <1>2, <2>2, <3>1, ParseSize
    <3> QED BY <1>3, <1>4, <2>2, <3>1, <3>2
  <2> QED BY <2>1, <2>2
<1>7. \/ set.quota = Unset /\ config.cpu = Unset
      \/ /\ config.cpu # Unset /\ set.quota \in 0..I64Max
         /\ config.cpu = Infinity \/ config.cpu >= 2 => set.quota > 0
         /\ set.quota = I64Max \/ 4 * set.quota - config.cpu \in -1..2
  <2>1. CASE config.cpu \in {NaN, Unset}
    BY <1>1, <2>1 DEF quota
  <2>2. CASE config.cpu = Infinity
    BY <1>1, <1>3, <2>2, LimitsAssumption DEF quota
  <2>3. CASE config.cpu \in Int
    <3>1. /\ config.cpu > 0 /\ config.cpu # Unset
          /\ set.quota = IF (config.cpu + 2) \div 4 > I64Max THEN I64Max
                         ELSE (config.cpu + 2) \div 4
      BY <1>1, <1>3, <2>3 DEF quota
    <3>2. config.cpu # Infinity
      BY <1>3, <2>3
    <3> QED BY <1>3, <2>3, <3>1, <3>2, LimitsAssumption
  <2> QED BY <1>2, <2>1, <2>2, <2>3
<1>8. \/ set.pids = Unset /\ config.pids = Unset
      \/ config.pids # Unset /\ set.pids = config.pids /\ set.pids > 0
  BY <1>1, <1>2 DEF pids
<1>9. \/ set.shares = Unset /\ config.cpu_shares = Unset
      \/ config.cpu_shares # Unset /\ set.shares = config.cpu_shares /\ set.shares > 0
  BY <1>1, <1>2, LimitsAssumption DEF cpu_shares
<1>10. (set.memory = Unset) = (config.memory = Unset)
  BY <1>3, <1>4
<1>11. (set.swap = Unset) = (config.swap = Unset)
  <2>1. set.memory # Unset => set.memory \in Int
    BY <1>3, <1>4
  <2> QED BY <1>3, <1>5, <2>1
<1>12. (set.high = Unset) = (config.memory_high = Unset)
  BY <1>1, <1>2, <1>3, <1>6, ParseSize DEF memory_high
<1>13. (set.quota = Unset) = (config.cpu = Unset)
  BY <1>3, <1>7
<1>14. (set.pids = Unset) = (config.pids = Unset)
  BY <1>8
<1>15. (set.shares = Unset) = (config.cpu_shares = Unset)
  BY <1>9
<1>16. \A key \in {"memory", "swap", "pids"} : (set[key] = Unset) = (config[key] = Unset)
  BY <1>10, <1>11, <1>14
<1> QED BY <1>4, <1>5, <1>6, <1>7, <1>8, <1>9, <1>12, <1>13, <1>15, <1>16, Zenon
        DEF HoldsTo, set
-----------------------------------------------------------------------------
(* System calls *)

\* What an app of known capabilities says of a call is what the policy decides.
LEMMA OwnPolicy ==
    ASSUME NEW app, app.capabilities \subseteq Capabilities
    PROVE  OwnDecision(app, profile(app)) /\ Unambiguous(profile(app))
<1> DEFINE policy == profile(app)
           applying(call) == {rule \in policy.partial :
                                rule.name = call.name /\ call.arguments \in rule.arguments}
           lists == app.seccomp_allow \cup app.seccomp_deny
<1>1. /\ policy.allowed =
           (ALLOWED \cup Of(app.capabilities) \cup app.seccomp_allow) \ app.seccomp_deny
      /\ policy.partial = {rule \in partial_rules : rule.name \notin lists}
  BY DEF profile
<1>2. \A rule \in partial_rules : rule.name \in Covered
  BY DEF partial_rules, Rule, Covered
<1>3. Of(app.capabilities) \subseteq Of(Capabilities)
  BY DEF Of
<1>4. /\ Covered \cap ALLOWED = {} /\ Covered \cap Of(Capabilities) = {}
      /\ Of(Capabilities) \cap ALLOWED = {}
  BY SeccompAssumption
<1>5. \A rule \in policy.partial :
        rule \in partial_rules /\ rule.name \in Covered \ policy.allowed
  BY <1>1, <1>2, <1>3, <1>4
<1>6. \A a, b \in partial_rules : a.name = b.name => a.action = b.action
  BY DEF partial_rules, Rule
<1> HIDE DEF policy
<1>7. ASSUME NEW call
      PROVE  verdict(policy, call) =
               IF call.name \in policy.allowed THEN {"allow"}
               ELSE IF applying(call) = {} THEN {"EPERM"}
               ELSE {rule.action : rule \in applying(call)}
  BY DEF verdict
<1> HIDE DEF applying
<1>8. ASSUME NEW call
      PROVE  /\ call.name \in lists \/ call.name \notin Covered => applying(call) = {}
             /\ \A rule \in applying(call) :
                  /\ rule \in partial_rules /\ rule.name = call.name
                  /\ call.arguments \in rule.arguments
  BY <1>1, <1>2 DEF applying
<1>9. ASSUME NEW call \in Calls
      PROVE  /\ call.name \in app.seccomp_deny => verdict(policy, call) = {"EPERM"}
             /\ call.name \in app.seccomp_allow \ app.seccomp_deny =>
                  verdict(policy, call) = {"allow"}
             /\ call.name \in Of(app.capabilities) \ app.seccomp_deny =>
                  verdict(policy, call) = {"allow"}
  BY <1>1, <1>7, <1>8
<1>10. ASSUME NEW call \in Calls, call.name \notin app.seccomp_allow,
              call.name \in {"clone", "clone3", "unshare"}, call.arguments = "NEWUSER"
       PROVE  "allow" \notin verdict(policy, call)
  <2>1. call.name \in Covered
    BY <1>10 DEF Covered
  <2>2. call.name \notin policy.allowed
    BY <1>1, <1>3, <1>4, <1>10, <2>1
  <2>3. \A rule \in partial_rules :
          rule.name \in {"clone", "clone3", "unshare"} /\ "NEWUSER" \in rule.arguments =>
            rule.action = "ENOSYS"
    BY DEF partial_rules, Rule
  <2>4. \A rule \in applying(call) : rule.action = "ENOSYS"
    BY <1>8, <1>10, <2>3
  <2> QED BY <1>7, <2>2, <2>4
<1>11. ASSUME NEW call \in Calls, call.name \notin app.seccomp_allow,
              call.name \in Of(Capabilities) \ Of(app.capabilities)
       PROVE  verdict(policy, call) = {"EPERM"}
  <2>1. call.name \notin policy.allowed
    BY <1>1, <1>4, <1>11
  <2>2. applying(call) = {}
    BY <1>4, <1>8, <1>11
  <2> QED BY <1>7, <2>1, <2>2
<1>12. Unambiguous(policy)
  <2>1. ASSUME NEW call \in Calls, NEW a \in verdict(policy, call), NEW b \in verdict(policy, call)
        PROVE  a = b
    BY <1>6, <1>7, <1>8
  <2> QED BY <1>5, <2>1 DEF Unambiguous
<1>13. OwnDecision(app, policy)
  BY <1>9, <1>10, <1>11, Zenon DEF OwnDecision
<1> QED BY <1>12, <1>13 DEF policy
-----------------------------------------------------------------------------
(* The inductive invariant *)

Known(config) ==
    /\ limits(config) \in LimitsConfig
    /\ config.mount \in Seq(Seq(DOMAIN Expand))
    /\ config.capabilities \subseteq Capabilities

Anywhere == Paths \cup {Root, Relative}
Share == [source : Anywhere, destination : Anywhere, readonly : BOOLEAN]

\* A mount entry that check() accepts
EntryOK(e) == SourceOK(parse_mount(e)) /\ Expand[parse_mount(e).destination] # Relative

\* How far a launch has come with its definition: the entries it has gone through are
\* in order, and what it starts is made from the definition.
LaunchOK(p) ==
    /\ cfg[p] = Invalid \/ Known(cfg[p])
    /\ pc[p] \notin {"idle", "failed"} => cfg[p] # Invalid
    /\ why[p] = "definition" => pc[p] = "failed" /\ (cfg[p] = Invalid \/ ~check(cfg[p]))
    /\ pc[p] \notin {"idle", "failed"} =>
         /\ Len(shares[p]) <= Len(cfg[p].mount)
         /\ \A i \in 1..Len(shares[p]) : EntryOK(cfg[p].mount[i])
    /\ pc[p] = "idle" => shares[p] = <<>>
    /\ pc[p] = "create" =>
         Len(shares[p]) < Len(cfg[p].mount) /\ SourceOK(entry(p))
    /\ pc[p] \in {"finish", "start"} => Len(shares[p]) = Len(cfg[p].mount)
    /\ pc[p] = "start" =>
         /\ resources(limits(cfg[p])) # Invalid
         /\ spec[p].resources = resources(limits(cfg[p]))
         /\ spec[p].seccomp = profile(cfg[p])

PInv ==
    /\ pc = [p \in Procs |-> pc[p]]
    /\ cfg = [p \in Procs |-> cfg[p]]
    /\ why = [p \in Procs |-> why[p]]
    /\ spec = [p \in Procs |-> spec[p]]
    /\ shares \in [Procs -> Seq(Share)]
    /\ \A p \in Procs : LaunchOK(p)

Unmoved(q) ==
    /\ pc'[q] = pc[q] /\ cfg'[q] = cfg[q] /\ why'[q] = why[q]
    /\ spec'[q] = spec[q] /\ shares'[q] = shares[q]

Functions ==
    /\ pc = [p \in Procs |-> pc[p]]
    /\ cfg = [p \in Procs |-> cfg[p]]
    /\ why = [p \in Procs |-> why[p]]
    /\ spec = [p \in Procs |-> spec[p]]

\* A step of one launch leaves the others where they are.
LEMMA OneLaunch ==
    ASSUME PInv, NEW p \in Procs, Functions', shares' \in [Procs -> Seq(Share)],
           \A q \in Procs \ {p} : Unmoved(q), LaunchOK(p)'
    PROVE  PInv'
<1>1. ASSUME NEW q \in Procs PROVE LaunchOK(q)'
  <2>1. CASE q = p
    BY <2>1
  <2>2. CASE q # p
    <3>1. Unmoved(q) /\ LaunchOK(q)
      BY <2>2 DEF PInv
    <3> QED BY <3>1 DEF Unmoved, LaunchOK, entry
  <2> QED BY <2>1, <2>2
<1> QED BY <1>1 DEF PInv, Functions

\* The fields of an entry that is not a mistake
LEMMA ParseMount ==
    ASSUME NEW e \in Seq(DOMAIN Expand), parse_mount(e) # Invalid
    PROVE  /\ parse_mount(e).source \in DOMAIN Expand
           /\ parse_mount(e).destination \in DOMAIN Expand
           /\ parse_mount(e).readonly \in BOOLEAN
<1>1. Len(e) \in 1..3
  BY DEF parse_mount
<1>2. \A i \in 1..Len(e) : e[i] \in DOMAIN Expand
  OBVIOUS
<1> DEFINE access == IF Len(e) \in {2, 3} THEN e[Len(e)] ELSE "rw"
           flagged == Len(e) = 3 \/ (Len(e) = 2 /\ access \in {"ro", "rw"})
<1>3. parse_mount(e) =
        [source |-> e[1],
         destination |-> IF Len(e) = 3 \/ (Len(e) = 2 /\ ~flagged) THEN e[2] ELSE e[1],
         readonly |-> flagged /\ access = "ro"]
  BY DEF parse_mount
<1> QED BY <1>1, <1>2, <1>3

LEMMA PInit == Init => PInv
BY DEF Init, PInv, LaunchOK, Functions

\* A definition just read is of the types it is read into.
LEMMA LoadKnown ==
    ASSUME NEW p \in Procs, NEW files \in Files[p], load(files) # Invalid
    PROVE  Known(load(files))
BY TypedAssumption DEF Known

\* An entry that extra_mounts() is done with is one that check() accepts.
LEMMA Pushed ==
    ASSUME PInv, NEW p \in Procs, Push(p), pc[p] \in {"look", "create"},
           cfg' = cfg, spec' = spec,
           Len(shares[p]) < Len(cfg[p].mount), SourceOK(entry(p))
    PROVE  PInv'
<1>1. /\ LaunchOK(p) /\ Known(cfg[p]) /\ shares[p] \in Seq(Share) /\ shares \in [Procs -> Seq(Share)]
      /\ Functions
  BY DEF PInv, LaunchOK, Functions
<1> DEFINE n == Len(shares[p])
           e == cfg[p].mount[n + 1]
<1>2. n \in Nat /\ n + 1 \in 1..Len(cfg[p].mount) /\ e \in Seq(DOMAIN Expand)
  BY <1>1 DEF Known
<1>3. entry(p) = parse_mount(e)
  BY DEF entry
<1>4. CASE Expand[entry(p).destination] = Relative
  <2>1. ~check(cfg[p])
    <3>1. n + 1 \in DOMAIN cfg[p].mount
      BY <1>1, <1>2 DEF Known
    <3> QED BY <1>3, <1>4, <3>1 DEF check
  <2>2. /\ why' = [why EXCEPT ![p] = "definition"] /\ pc' = [pc EXCEPT ![p] = "failed"]
        /\ shares' = shares
    BY <1>4 DEF Push, Fail, Goto
  <2>3. Functions' /\ (\A q \in Procs \ {p} : Unmoved(q))
        /\ pc'[p] = "failed" /\ why'[p] = "definition"
    BY <1>1, <2>2 DEF Functions, Unmoved
  <2>4. LaunchOK(p)'
    BY <1>1, <2>1, <2>3 DEF LaunchOK, Known, check
  <2> QED BY <1>1, <2>2, <2>3, <2>4, OneLaunch
<1>5. CASE Expand[entry(p).destination] # Relative
  <2> DEFINE share == [source |-> source(p), destination |-> Expand[entry(p).destination],
                       readonly |-> entry(p).readonly]
  <2>1. /\ shares' = [shares EXCEPT ![p] = Append(@, share)]
        /\ pc' = [pc EXCEPT ![p] = "look"] /\ why' = why
    BY <1>5 DEF Push, GoOn, Goto
  <2>2. share \in Share
    <3>1. entry(p) # Invalid
      BY DEF SourceOK
    <3>2. /\ entry(p).source \in DOMAIN Expand /\ entry(p).destination \in DOMAIN Expand
          /\ entry(p).readonly \in BOOLEAN
      BY <1>2, <1>3, <3>1, ParseMount
    <3>3. \A field \in DOMAIN Expand : Expand[field] \in Anywhere
      BY LaunchAssumption DEF Anywhere
    <3> QED BY <3>2, <3>3 DEF Share, source
  <2>3. /\ Append(shares[p], share) \in Seq(Share)
        /\ Len(Append(shares[p], share)) = n + 1
    BY <1>1, <2>2
  <2>4. shares' \in [Procs -> Seq(Share)] /\ Len(shares'[p]) = n + 1
    BY <1>1, <2>1, <2>3
  <2>5. Functions' /\ (\A q \in Procs \ {p} : Unmoved(q)) /\ pc'[p] = "look"
    BY <1>1, <2>1 DEF Functions, Unmoved
  <2>6. EntryOK(e)
    BY <1>3, <1>5 DEF EntryOK
  <2>7. \A i \in 1..n : EntryOK(cfg[p].mount[i])
    BY <1>1 DEF LaunchOK
  <2>8. \A i \in 1..(n + 1) : EntryOK(cfg'[p].mount[i])
    BY <1>2, <2>6, <2>7
  <2>9. why'[p] # "definition"
    BY <1>1, <2>1 DEF LaunchOK
  <2>10. LaunchOK(p)'
    BY <1>1, <1>2, <2>4, <2>5, <2>8, <2>9 DEF LaunchOK, Known
  <2> QED BY <2>4, <2>5, <2>10, OneLaunch
<1> QED BY <1>4, <1>5

\* A launch that fails for no fault of its definition
LEMMA Failed ==
    ASSUME PInv, NEW p \in Procs, NEW reason \in {"host", "image"}, Fail(p, reason),
           cfg' = cfg, shares' = shares, spec' = spec
    PROVE  PInv'
<1>1. /\ Functions' /\ (\A q \in Procs \ {p} : Unmoved(q))
      /\ pc'[p] = "failed" /\ why'[p] = reason
  BY DEF Fail, Goto, PInv, Functions, Unmoved
<1>2. LaunchOK(p)'
  BY <1>1 DEF PInv, LaunchOK, Known, check
<1> QED BY <1>1, <1>2, OneLaunch DEF PInv

\* A launch that goes on to where nothing new is known of it
LEMMA WentOn ==
    ASSUME PInv, NEW p \in Procs, pc[p] \notin {"idle", "failed"},
           NEW label \in PcLabels \ {"idle", "create", "finish", "start"}, GoOn(p, label),
           cfg' = cfg, shares' = shares, spec' = spec
    PROVE  PInv'
<1>1. Functions' /\ (\A q \in Procs \ {p} : Unmoved(q)) /\ pc'[p] = label
  BY DEF GoOn, Goto, PInv, Functions, Unmoved
<1>2. why'[p] # "definition"
  BY DEF GoOn, PInv, LaunchOK
<1>3. LaunchOK(p)'
  BY <1>1, <1>2 DEF PInv, LaunchOK, Known, EntryOK
<1> QED BY <1>1, <1>3, OneLaunch DEF PInv

LEMMA PNext == PInv /\ [Next]_vars => PInv'
<1> SUFFICES ASSUME PInv, [Next]_vars PROVE PInv'
  OBVIOUS
<1>1. ASSUME UNCHANGED <<pc, cfg, why, spec, shares>> PROVE PInv'
  BY <1>1 DEF PInv, LaunchOK, Known, check, entry
<1>2. CASE UNCHANGED vars
  BY <1>1, <1>2 DEF vars, localVars
<1>3. ASSUME NEW path \in Paths, user_changes(path) PROVE PInv'
  BY <1>1, <1>3 DEF user_changes, localVars
<1>4. ASSUME NEW p \in Procs, NEW files \in Files[p], begin(p, files) PROVE PInv'
  <2>1. /\ pc[p] = "idle" /\ spec' = spec /\ shares' = shares /\ shares[p] = <<>>
        /\ cfg' = [cfg EXCEPT ![p] = load(files)]
    BY <1>4 DEF begin, PInv, LaunchOK
  <2>2. CASE load(files) = Invalid
    <3>1. /\ why' = [why EXCEPT ![p] = "definition"] /\ pc' = [pc EXCEPT ![p] = "failed"]
      BY <1>4, <2>2 DEF begin, Fail, Goto
    <3>2. Functions' /\ (\A q \in Procs \ {p} : Unmoved(q)) /\ shares' \in [Procs -> Seq(Share)]
      BY <2>1, <3>1 DEF PInv, Functions, Unmoved
    <3>3. /\ cfg'[p] = Invalid /\ pc'[p] = "failed"
      BY <2>1, <2>2, <3>1 DEF PInv
    <3>4. LaunchOK(p)'
      BY <3>3 DEF LaunchOK
    <3> QED BY <3>2, <3>4, OneLaunch
  <2>3. CASE load(files) # Invalid
    <3>1. why' = why /\ pc' = [pc EXCEPT ![p] = "check_host_dir"]
      BY <1>4, <2>3 DEF begin, GoOn, Goto
    <3>2. Functions' /\ (\A q \in Procs \ {p} : Unmoved(q)) /\ shares' \in [Procs -> Seq(Share)]
      BY <2>1, <3>1 DEF PInv, Functions, Unmoved
    <3>3. /\ cfg'[p] = load(files) /\ pc'[p] = "check_host_dir" /\ why'[p] # "definition"
      BY <2>1, <3>1 DEF PInv, LaunchOK
    <3>4. Known(cfg'[p])
      BY <2>3, <3>3, LoadKnown
    <3>5. Len(shares'[p]) = 0 /\ Len(cfg'[p].mount) \in Nat
      BY <2>1, <3>4 DEF Known
    <3>6. LaunchOK(p)'
      BY <2>3, <3>3, <3>4, <3>5 DEF LaunchOK, Known
    <3> QED BY <3>2, <3>6, OneLaunch
  <2> QED BY <2>2, <2>3
<1>5. ASSUME NEW p \in Procs, check_host_dir(p) PROVE PInv'
  <2>1. /\ pc[p] = "check_host_dir" /\ UNCHANGED <<cfg, shares, spec>>
        /\ Fail(p, "host") \/ GoOn(p, "resolve")
    BY <1>5 DEF check_host_dir
  <2> QED BY <2>1, Failed, WentOn DEF PcLabels
<1>6. ASSUME NEW p \in Procs, resolve(p) PROVE PInv'
  <2>1. /\ pc[p] = "resolve" /\ UNCHANGED <<cfg, shares, spec>>
        /\ Fail(p, "image") \/ Fail(p, "host") \/ GoOn(p, "look")
    BY <1>6 DEF resolve
  <2> QED BY <2>1, Failed, WentOn DEF PcLabels
<1>7. ASSUME NEW p \in Procs, look(p) PROVE PInv'
  <2>1. /\ pc[p] = "look" /\ UNCHANGED <<cfg, spec>> /\ LaunchOK(p) /\ Known(cfg[p])
        /\ shares[p] \in Seq(Share)
    BY <1>7 DEF look, PInv, LaunchOK
  <2>2. CASE Len(shares[p]) = Len(cfg[p].mount)
    <3>1. shares' = shares /\ (GoOn(p, "finish") \/ GoOn(p, "mountpoints"))
      BY <1>7, <2>2 DEF look
    <3>2. CASE GoOn(p, "mountpoints")
      BY <2>1, <3>1, <3>2, WentOn DEF PcLabels
    <3>3. CASE GoOn(p, "finish")
      <4>1. /\ Functions' /\ (\A q \in Procs \ {p} : Unmoved(q)) /\ pc'[p] = "finish"
            /\ why' = why /\ shares' \in [Procs -> Seq(Share)]
        BY <2>1, <3>1, <3>3 DEF GoOn, Goto, PInv, Functions, Unmoved
      <4>2. LaunchOK(p)'
        BY <2>1, <2>2, <3>1, <4>1 DEF LaunchOK, Known, EntryOK
      <4> QED BY <4>1, <4>2, OneLaunch
    <3> QED BY <3>1, <3>2, <3>3
  <2>3. CASE Len(shares[p]) # Len(cfg[p].mount)
    <3>1. Len(shares[p]) < Len(cfg[p].mount)
      BY <2>1, <2>3 DEF LaunchOK, Known
    <3>2. CASE ~SourceOK(entry(p))
      <4>1. shares' = shares /\ Fail(p, "definition")
        BY <1>7, <2>3, <3>2 DEF look
      <4>2. /\ Functions' /\ (\A q \in Procs \ {p} : Unmoved(q)) /\ pc'[p] = "failed"
            /\ shares' \in [Procs -> Seq(Share)]
        BY <2>1, <4>1 DEF Fail, Goto, PInv, Functions, Unmoved
      <4>3. Len(shares[p]) + 1 \in DOMAIN cfg[p].mount
        BY <2>1, <3>1 DEF Known
      <4>4. ~check(cfg[p])
        BY <3>2, <4>3 DEF check, entry
      <4>5. LaunchOK(p)'
        BY <2>1, <4>2, <4>4 DEF LaunchOK, Known, check
      <4> QED BY <4>2, <4>5, OneLaunch
    <3>3. CASE SourceOK(entry(p)) /\ Push(p)
      BY <2>1, <3>1, <3>3, Pushed
    <3>4. CASE SourceOK(entry(p)) /\ shares' = shares /\ Fail(p, "host")
      BY <2>1, <3>4, Failed
    <3>5. CASE SourceOK(entry(p)) /\ shares' = shares /\ GoOn(p, "create")
      <4>1. /\ Functions' /\ (\A q \in Procs \ {p} : Unmoved(q)) /\ pc'[p] = "create"
            /\ why' = why /\ shares' \in [Procs -> Seq(Share)]
        BY <2>1, <3>5 DEF GoOn, Goto, PInv, Functions, Unmoved
      <4>2. LaunchOK(p)'
        BY <2>1, <3>1, <3>5, <4>1 DEF LaunchOK, Known, EntryOK, entry
      <4> QED BY <4>1, <4>2, OneLaunch
    <3> QED BY <1>7, <2>3, <3>2, <3>3, <3>4, <3>5 DEF look
  <2> QED BY <2>2, <2>3
<1>8. ASSUME NEW p \in Procs, create_source(p) PROVE PInv'
  <2>1. /\ pc[p] = "create" /\ UNCHANGED <<cfg, spec>>
        /\ Push(p) \/ (Fail(p, "host") /\ shares' = shares)
    BY <1>8 DEF create_source
  <2>2. Len(shares[p]) < Len(cfg[p].mount) /\ SourceOK(entry(p))
    BY <2>1 DEF PInv, LaunchOK
  <2>3. CASE Push(p)
    BY <2>1, <2>2, <2>3, Pushed
  <2>4. CASE Fail(p, "host") /\ shares' = shares
    BY <2>1, <2>4, Failed
  <2> QED BY <2>1, <2>3, <2>4
<1>9. ASSUME NEW p \in Procs, mountpoints(p) PROVE PInv'
  <2>1. /\ pc[p] = "mountpoints" /\ UNCHANGED <<cfg, shares, spec>>
        /\ Fail(p, "image") \/ Fail(p, "host") \/ GoOn(p, "build")
    BY <1>9 DEF mountpoints
  <2> QED BY <2>1, Failed, WentOn DEF PcLabels
<1>10. ASSUME NEW p \in Procs, build(p) PROVE PInv'
  <2>1. /\ pc[p] = "build" /\ cfg' = cfg /\ shares' = [shares EXCEPT ![p] = <<>>]
        /\ spec' = spec \/ \E argv : spec' = [spec EXCEPT ![p] = [argv |-> argv]]
        /\ Fail(p, "host") \/ Fail(p, "image") \/ GoOn(p, "look")
    BY <1>10 DEF build
  <2>2. Functions' /\ (\A q \in Procs \ {p} : Unmoved(q))
    <3>1. \A q \in Procs \ {p} : pc'[q] = pc[q] /\ why'[q] = why[q]
      BY <2>1 DEF Fail, GoOn, Goto, PInv
    <3>2. \A q \in Procs \ {p} : spec'[q] = spec[q] /\ shares'[q] = shares[q]
      BY <2>1 DEF PInv
    <3>3. Functions'
      BY <2>1 DEF Fail, GoOn, Goto, PInv, Functions
    <3> QED BY <2>1, <3>1, <3>2, <3>3 DEF Unmoved
  <2>3. shares'[p] = <<>> /\ shares' \in [Procs -> Seq(Share)]
    BY <2>1 DEF PInv
  <2>4. pc'[p] \in {"failed", "look"} /\ why'[p] # "definition"
    BY <2>1 DEF Fail, GoOn, Goto, PInv, LaunchOK
  <2>5. LaunchOK(p)'
    BY <2>1, <2>3, <2>4 DEF PInv, LaunchOK, Known
  <2> QED BY <2>2, <2>3, <2>5, OneLaunch
<1>11. ASSUME NEW p \in Procs, finish(p) PROVE PInv'
  <2>1. /\ pc[p] = "finish" /\ UNCHANGED <<cfg, shares>> /\ LaunchOK(p) /\ Functions
        /\ shares' \in [Procs -> Seq(Share)]
    BY <1>11 DEF finish, PInv, Functions
  <2>2. CASE resources(limits(cfg[p])) = Invalid
    <3>1. spec' = spec /\ Fail(p, "definition")
      BY <1>11, <2>2 DEF finish
    <3>2. /\ Functions' /\ (\A q \in Procs \ {p} : Unmoved(q)) /\ pc'[p] = "failed"
      BY <2>1, <3>1 DEF Fail, Goto, Functions, Unmoved
    <3>3. ~check(cfg[p])
      BY <2>2 DEF check
    <3>4. LaunchOK(p)'
      BY <2>1, <3>2, <3>3 DEF LaunchOK, Known, check
    <3> QED BY <2>1, <3>2, <3>4, OneLaunch
  <2>3. CASE resources(limits(cfg[p])) # Invalid
    <3>1. PICK new : /\ spec' = [spec EXCEPT ![p] = new]
                     /\ new.resources = resources(limits(cfg[p]))
                     /\ new.seccomp = profile(cfg[p])
      <4> DEFINE whole ==
                 [argv |-> spec[p].argv,
                  mounts |-> {Bind(dir, dir, FALSE) : dir \in host_dir(p)} \cup Listed(p)
                             \cup {Bind(file, file, TRUE) : file \in host_net_files(p)},
                  network_namespace |-> cfg[p].network # "full",
                  capabilities |-> cfg[p].capabilities,
                  resources |-> resources(limits(cfg[p])),
                  seccomp |-> profile(cfg[p])]
      <4>1. spec' = [spec EXCEPT ![p] = whole]
        BY <1>11, <2>3, Zenon DEF finish
      <4>2. whole.resources = resources(limits(cfg[p])) /\ whole.seccomp = profile(cfg[p])
        BY Zenon
      <4> QED BY <4>1, <4>2, Zenon
    <3>2. why' = why /\ pc' = [pc EXCEPT ![p] = "start"]
      BY <1>11, <2>3 DEF finish, GoOn, Goto
    <3>3. /\ Functions' /\ (\A q \in Procs \ {p} : Unmoved(q)) /\ pc'[p] = "start"
          /\ spec'[p] = new
      BY <2>1, <3>1, <3>2 DEF Functions, Unmoved
    <3>4. LaunchOK(p)'
      BY <2>1, <2>3, <3>1, <3>2, <3>3 DEF LaunchOK, Known, EntryOK
    <3> QED BY <2>1, <3>3, <3>4, OneLaunch
  <2> QED BY <2>2, <2>3
<1>12. ASSUME NEW p \in Procs, start(p) PROVE PInv'
  <2>1. /\ pc[p] = "start" /\ UNCHANGED <<cfg, shares, spec>>
        /\ Fail(p, "host") \/ GoOn(p, "running")
    BY <1>12 DEF start
  <2> QED BY <2>1, Failed, WentOn DEF PcLabels
<1> QED BY <1>2, <1>3, <1>4, <1>5, <1>6, <1>7, <1>8, <1>9, <1>10, <1>11, <1>12 DEF Next, Step
-----------------------------------------------------------------------------
\* spec.rs:93-154: whatever a run is started with keeps it to the limits its definition
\* states: no size has wrapped, swap is on top of memory, a quota is that of the cores.
THEOREM HeldToLimits == Spec => []LimitsHold
<1>1. PInv => LimitsHold
  <2> SUFFICES ASSUME PInv, NEW p \in Procs, pc[p] = "start"
               PROVE  \/ spec[p].resources = Unset
                         /\ \A key \in DOMAIN limits(cfg[p]) : cfg[p][key] = Unset
                      \/ HoldsTo(limits(cfg[p]), spec[p].resources)
    BY DEF LimitsHold
  <2> DEFINE config == limits(cfg[p])
  <2>1. /\ config \in LimitsConfig /\ resources(config) # Invalid
        /\ spec[p].resources = resources(config)
    BY DEF PInv, LaunchOK, Known
  <2>2. CASE \A key \in DOMAIN config : config[key] = Unset
    <3>1. \A key \in DOMAIN config : cfg[p][key] = config[key]
      BY DEF limits
    <3>2. resources(config) = Unset
      BY <2>2 DEF resources
    <3> QED BY <2>1, <2>2, <3>1, <3>2
  <2>3. CASE ~\A key \in DOMAIN config : config[key] = Unset
    <3>1. resources(config) = Parsed(config)
          /\ \A key \in DOMAIN Parsed(config) : Parsed(config)[key] # Invalid
      BY <2>1, <2>3 DEF resources
    <3> QED BY <2>1, <3>1, AcceptedHold
  <2> QED BY <2>2, <2>3
<1> QED BY PInit, PNext, <1>1, PTL DEF Spec

\* seccomp.rs:187-189: what a definition says of a system call is what its run gets, for
\* any table of capabilities and any list of allowed calls.
THEOREM OwnDecisionsPrevail == Spec => []OwnDecisions
<1>1. PInv => OwnDecisions
  <2> SUFFICES ASSUME PInv, NEW p \in Procs, pc[p] = "start"
               PROVE  OwnDecision(cfg[p], spec[p].seccomp) /\ Unambiguous(spec[p].seccomp)
    BY DEF OwnDecisions
  <2>1. cfg[p].capabilities \subseteq Capabilities /\ spec[p].seccomp = profile(cfg[p])
    BY DEF PInv, LaunchOK, Known
  <2> QED BY <2>1, OwnPolicy
<1> QED BY PInit, PNext, <1>1, PTL DEF Spec

\* spec.rs:328: `climate check` tells the definitions that stop their runs from those that
\* do not, for any definition and whatever happens to the host.
THEOREM CheckTells == Spec => []CheckPredicts
<1>1. PInv => CheckPredicts
  <2> SUFFICES ASSUME PInv, NEW p \in Procs
               PROVE  /\ why[p] = "definition" => cfg[p] = Invalid \/ ~check(cfg[p])
                      /\ pc[p] = "start" => check(cfg[p])
    BY DEF CheckPredicts
  <2>1. LaunchOK(p) /\ shares[p] \in Seq(Share)
    BY DEF PInv
  <2>2. ASSUME pc[p] = "start" PROVE check(cfg[p])
    <3>1. /\ Known(cfg[p]) /\ Len(shares[p]) = Len(cfg[p].mount)
          /\ \A i \in 1..Len(shares[p]) : EntryOK(cfg[p].mount[i])
          /\ resources(limits(cfg[p])) # Invalid
      BY <2>1, <2>2 DEF LaunchOK
    <3>2. DOMAIN cfg[p].mount = 1..Len(shares[p])
      BY <3>1 DEF Known
    <3> QED BY <3>1, <3>2 DEF check, EntryOK
  <2> QED BY <2>1, <2>2 DEF LaunchOK
<1> QED BY PInit, PNext, <1>1, PTL DEF Spec
=============================================================================
