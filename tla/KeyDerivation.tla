---------------------------- MODULE KeyDerivation ----------------------------
(***************************************************************************)
(* Argon2id for a key: which costs a caller may ask for (Argon2Params::new *)
(* of src/encrypt.rs), which ones are run (derive_argon2id of src/kdf.rs), *)
(* and the memory and the lane threads the host must give for that.  The   *)
(* costs are screened twice, by two functions in two files: a tuple the    *)
(* first lets pass and the second does not is a package that cannot be     *)
(* made, and a tuple it refuses alone is one that could have been.         *)
(*                                                                         *)
(* A block is a unit of memory, as it is a KiB of costs.  The filling of   *)
(* the lanes is argon2's and rayon's, and external: one thread computes    *)
(* what many do.                                                           *)
(***************************************************************************)
EXTENDS Integers

CONSTANTS
  MaxCost,        \* i32::MAX, ARGON2_MAX_T_COST_WRITE and _M_COST_KIB_WRITE
  MaxLanes,       \* argon2::Params::MAX_P_COST
  PerLane,        \* blocks argon2 needs for a lane: 8
  SaltLengths     \* argon2::MIN_SALT_LEN ..= MAX_SALT_LEN

\* argon2 has four blocks of its own to a lane, and PerLane times MAX_P_COST is
\* an i32.
ASSUME CostAssumption ==
  /\ {MaxCost, MaxLanes, PerLane} \subseteq Nat \ {0}
  /\ PerLane * MaxLanes <= MaxCost

VARIABLES
  kdf,            \* what derive_argon2id does next, "ok" or its KdfError
  threads         \* the threads of its pool

derivation == <<kdf, threads>>

I32   == (-MaxCost - 1)..MaxCost
Costs == [t : I32, m : I32, p : I32]

-----------------------------------------------------------------------------
\* Slip: the least memory argon2 can run with is refused.
NewRefusalOfLeast(c) ==
  IF c.t \notin 1..MaxCost THEN "OutOfRangeT"
  ELSE IF c.m \notin 1..MaxCost THEN "OutOfRangeM"
  ELSE IF c.p \notin 1..MaxLanes THEN "CipherRejectsP"
  ELSE IF c.m <= PerLane * c.p THEN "CipherRejectsM"
  ELSE "none"

\* Argon2Params::new: the ParamsReason, by the axis it names.
NewRefusal(c) ==
  IF c.t \notin 1..MaxCost THEN "OutOfRangeT"
  ELSE IF c.m \notin 1..MaxCost THEN "OutOfRangeM"
  ELSE IF c.p \notin 1..MaxLanes THEN "CipherRejectsP"
  ELSE IF c.m < PerLane * c.p THEN "CipherRejectsM"
  ELSE "none"

\* The limits derive_write_key asks for: DecryptLimits::PERMISSIVE.
Permissive == [t |-> MaxCost, m |-> MaxCost, p |-> MaxCost]

\* derive_argon2id: signs first, then ranges, then what argon2 needs.  Of two
\* ceilings on the lanes, the tighter one is named.
ScreenRefusal(c, salt, limits) ==
  LET most == IF limits.p < MaxLanes THEN limits.p ELSE MaxLanes IN
  IF c.t < 0 THEN "OutOfRangeT"
  ELSE IF c.m < 0 THEN "OutOfRangeM"
  ELSE IF c.p < 0 THEN "OutOfRangeP"
  ELSE IF c.t \notin 1..limits.t THEN "OutOfRangeT"
  ELSE IF c.m \notin 1..limits.m THEN "OutOfRangeM"
  ELSE IF c.p \notin 1..most
       THEN IF c.p > MaxLanes /\ MaxLanes <= limits.p THEN "CipherRejectsP" ELSE "OutOfRangeP"
  ELSE IF c.m < PerLane * c.p THEN "CipherRejectsM"
  ELSE IF salt \notin SaltLengths THEN "CipherRejectsSalt"
  ELSE "none"

\* What argon2 itself requires (Params::new), whoever asks.
Runs(c, salt) ==
  c.t >= 1 /\ c.p \in 1..MaxLanes /\ c.m >= PerLane * c.p /\ salt \in SaltLengths

\* Params::block_count: a whole number of quarters of a lane.
BlockCount(c) == (c.m \div (4 * c.p)) * 4 * c.p

-----------------------------------------------------------------------------
\* host is the machine: blocks of memory it has, cores it reports, and threads it
\* will start.
DerivationInit == kdf = "screen" /\ threads = 0

ScreenCosts(c, salt, limits) ==
  /\ kdf = "screen"
  /\ kdf' = IF ScreenRefusal(c, salt, limits) # "none" THEN "Params"
            ELSE IF ~Runs(c, salt) THEN "Internal" ELSE "reserve"
  /\ UNCHANGED threads

ReserveBlocks(c, host) ==
  /\ kdf = "reserve"
  /\ kdf' = IF BlockCount(c) <= host.memory THEN "spawn" ELSE "HostCannotAllocate"
  /\ UNCHANGED threads

\* Slip: a pool of one is not tried.
PoolOfWanted(c, host) ==
  LET wanted == IF c.p < host.cores THEN c.p ELSE host.cores
  IN IF wanted <= host.threads THEN wanted ELSE 0

\* on_lane_threads: a thread for each lane or core, or else one.
Pool(c, host) ==
  LET wanted == IF c.p < host.cores THEN c.p ELSE host.cores
  IN IF wanted <= host.threads THEN wanted
     ELSE IF 1 <= host.threads THEN 1 ELSE 0

SpawnLanes(c, host) ==
  /\ kdf = "spawn"
  /\ threads' = Pool(c, host)
  /\ kdf' = IF threads' = 0 THEN "HostCannotSpawn" ELSE "hash"

\* The pool goes with the call.
HashLanes == kdf = "hash" /\ kdf' = "ok" /\ threads' = 0

Derives(c, salt, limits, host) ==
  ScreenCosts(c, salt, limits) \/ ReserveBlocks(c, host) \/ SpawnLanes(c, host) \/ HashLanes

KdfErrors == {"Params", "Internal", "HostCannotAllocate", "HostCannotSpawn"}
=============================================================================
