------------------------------- MODULE Limits -------------------------------
(***************************************************************************)
(* resources() of src/src/spec.rs: what the [limits] of an app definition  *)
(* become in the runtime spec.  Sizes are i64 and computed with checked    *)
(* arithmetic; a cpu limit is an f64, counted here in quarters of a        *)
(* microsecond per CPU_PERIOD, so that rounding shows.                     *)
(***************************************************************************)
EXTENDS Integers

CONSTANTS
    I64Max,     \* 2^63 - 1
    Kilo,       \* 1024, the step between two units
    Shares,     \* CPU_SHARES_RANGE
    NaN,
    Infinity,
    Unset,      \* a key left out
    Invalid     \* an error

ASSUME LimitsAssumption ==
    /\ I64Max \in Nat \ {0}
    /\ Kilo \in Nat \ {0}
    /\ Shares \subseteq 1..I64Max
    /\ {NaN, Infinity, Unset, Invalid} \cap Int = {}
    /\ NaN # Infinity /\ Unset # Invalid
    /\ {NaN, Infinity} \cap {Unset, Invalid} = {}

Multiplier ==
    [b |-> 1, k |-> Kilo, m |-> Kilo * Kilo, g |-> Kilo * Kilo * Kilo,
     t |-> Kilo * Kilo * Kilo * Kilo]
Units == {"b", "k", "m", "g", "t"}

\* A size as written: digits that fit an i64, or none, and a unit, known or not
Sizes == [amount : (-I64Max)..I64Max \cup {Invalid}, unit : Units \cup {"?"}]
\* The exact number of bytes it stands for
Bytes(size) == size.amount * Multiplier[size.unit]

LimitsConfig ==
    [memory : Sizes \cup {Unset}, swap : Sizes \cup {Unset},
     memory_high : Sizes \cup {Unset}, cpu : Int \cup {NaN, Infinity, Unset},
     cpu_shares : Int \cup {Unset}, pids : Int \cup {Unset}]
-----------------------------------------------------------------------------
\* checked_mul and checked_add, of numbers that are not negative
checked(n) == IF n <= I64Max THEN n ELSE Invalid

parse_memory(size) ==
    IF size.amount = Invalid \/ size.unit \notin Units THEN Invalid
    ELSE IF size.amount < 0 THEN Invalid
    ELSE checked(Bytes(size))

parse_size(size) ==
    IF parse_memory(size) = 0 THEN Invalid ELSE parse_memory(size)

memory(limits) ==
    IF limits.memory = Unset THEN Unset ELSE parse_size(limits.memory)

\* Mutant: the swap limit is handed on as the definition states it.
swap_alone(limits) ==
    IF limits.swap = Unset THEN Unset
    ELSE IF memory(limits) \in {Unset, Invalid} THEN Invalid
    ELSE parse_memory(limits.swap)

\* The runtime spec's swap is memory and swap together, so it needs a memory limit.
swap(limits) ==
    IF limits.swap = Unset THEN Unset
    ELSE IF memory(limits) \in {Unset, Invalid} \/ parse_memory(limits.swap) = Invalid
    THEN Invalid
    ELSE checked(memory(limits) + parse_memory(limits.swap))

memory_high(limits) ==
    LET high == parse_size(limits.memory_high)
    IN  IF limits.memory_high = Unset THEN Unset
        ELSE IF high = Invalid \/ memory(limits) = Unset THEN high
        ELSE IF memory(limits) = Invalid THEN Invalid
        ELSE IF high >= memory(limits) THEN Invalid
        ELSE high

\* round() and the saturating cast to i64
quota(limits) ==
    IF limits.cpu = Unset THEN Unset
    ELSE IF limits.cpu = NaN THEN Invalid
    ELSE IF limits.cpu = Infinity THEN I64Max
    ELSE IF limits.cpu <= 0 THEN Invalid
    ELSE IF (limits.cpu + 2) \div 4 > I64Max THEN I64Max
    ELSE (limits.cpu + 2) \div 4

cpu_shares(limits) ==
    IF limits.cpu_shares \in Shares \cup {Unset} THEN limits.cpu_shares ELSE Invalid

pids(limits) ==
    IF limits.pids = Unset THEN Unset
    ELSE IF limits.pids <= 0 THEN Invalid
    ELSE limits.pids

\* What the definition asks for, an Invalid where it makes no sense
Parsed(limits) ==
    [memory |-> memory(limits), swap |-> swap(limits), high |-> memory_high(limits),
     quota |-> quota(limits), shares |-> cpu_shares(limits), pids |-> pids(limits)]

\* None, an error, or the limits to set
resources(limits) ==
    LET parsed == Parsed(limits)
    IN  IF \A key \in DOMAIN limits : limits[key] = Unset THEN Unset
        ELSE IF \E key \in DOMAIN parsed : parsed[key] = Invalid THEN Invalid
        ELSE parsed
-----------------------------------------------------------------------------
\* Limits that hold the app to what its definition says: no size has wrapped,
\* memory and swap are in proportion, and a quota is that of the cores asked
\* for to the nearest microsecond, and no less than one from half of one up.
HoldsTo(limits, set) ==
    /\ set.memory # Unset => set.memory = Bytes(limits.memory) /\ set.memory \in 1..I64Max
    /\ set.swap # Unset =>
         /\ set.memory # Unset
         /\ set.swap - set.memory = Bytes(limits.swap)
         /\ set.swap \in set.memory..I64Max
    /\ set.high # Unset =>
         /\ set.high = Bytes(limits.memory_high) /\ set.high > 0
         /\ set.memory # Unset => set.high < set.memory
    /\ set.quota # Unset =>
         /\ set.quota \in 0..I64Max
         /\ limits.cpu = Infinity \/ limits.cpu >= 2 => set.quota > 0
         /\ \/ set.quota = I64Max
            \/ 4 * set.quota - limits.cpu \in -1..2
    /\ set.pids # Unset => set.pids = limits.pids /\ set.pids > 0
    /\ set.shares # Unset => set.shares = limits.cpu_shares /\ set.shares > 0
    /\ \A key \in {"memory", "swap", "pids"} : (set[key] = Unset) = (limits[key] = Unset)
    /\ (set.high = Unset) = (limits.memory_high = Unset)
    /\ (set.quota = Unset) = (limits.cpu = Unset)
    /\ (set.shares = Unset) = (limits.cpu_shares = Unset)
=============================================================================
