---------------------------- MODULE EncryptProofs ----------------------------
(***************************************************************************)
(* What a call of encrypt promises, for every chunk and stored block, every*)
(* width of the costs and limit of argon2, every tuple a caller may ask    *)
(* for, every host, and an input that changes as often as it likes.        *)
(*                                                                         *)
(* The two screens of the costs are functions, and lemmas say how they     *)
(* agree.  The invariant has four parts: the first screen's verdict,       *)
(* carried to wherever the second one or a reader stands; the bytes, which *)
(* the deflater neither loses nor makes; the three lengths, measured,      *)
(* counted and put out; and who is to blame for what has gone wrong.       *)
(***************************************************************************)
EXTENDS Encrypt, DeflateProofs

Limits == [t : Nat, m : Nat, p : Nat]
Policy == {"OutOfRangeT", "OutOfRangeM", "OutOfRangeP"}

\* Argon2Params::new refuses no tuple that derive_argon2id would run, whatever
\* the limits and the salt.
LEMMA RefusedNeverRuns ==
  ASSUME NEW c \in Costs, NEW salt, NEW l \in Limits, NewRefusal(c) # "none"
  PROVE  ScreenRefusal(c, salt, l) # "none"
<1> USE CostAssumption DEF Costs, I32, Limits
<1>1. CASE c.t \notin 1..MaxCost
  <2>1. c.t <= 0
    BY <1>1
  <2> QED BY <2>1 DEF ScreenRefusal
<1>2. CASE c.m \notin 1..MaxCost
  <2>1. c.m <= 0
    BY <1>2
  <2> QED BY <2>1 DEF ScreenRefusal
<1>3. CASE c.p \notin 1..MaxLanes
  <2>1. c.p <= 0 \/ c.p > MaxLanes
    BY <1>3
  <2> QED BY <2>1 DEF ScreenRefusal
<1>4. CASE c.m < PerLane * c.p
  BY <1>4 DEF ScreenRefusal
<1> QED BY <1>1, <1>2, <1>3, <1>4 DEF NewRefusal

\* What it lets pass, a reader refuses only by limits of its own.
LEMMA AcceptedOrPolicy ==
  ASSUME NEW c \in Costs, NEW salt \in SaltLengths, NEW l \in Limits, NewRefusal(c) = "none"
  PROVE  ScreenRefusal(c, salt, l) \in Policy \cup {"none"}
<1>1. /\ c.t \in 1..MaxCost /\ c.m \in 1..MaxCost /\ c.p \in 1..MaxLanes
      /\ ~(c.m < PerLane * c.p)
  BY DEF NewRefusal
<1> QED BY <1>1, CostAssumption DEF ScreenRefusal, Costs, I32, Limits, Policy

\* And encrypt's own limits refuse none of it, nor does argon2.
LEMMA AcceptedRuns ==
  ASSUME NEW c \in Costs, NEW salt \in SaltLengths, NewRefusal(c) = "none"
  PROVE  ScreenRefusal(c, salt, Permissive) = "none" /\ Runs(c, salt)
<1> USE CostAssumption DEF Costs, I32
<1>1. /\ c.t \in 1..MaxCost /\ c.m \in 1..MaxCost /\ c.p \in 1..MaxLanes
      /\ c.m >= PerLane * c.p
  BY DEF NewRefusal
<1>2. MaxLanes <= MaxCost
  <2>1. MaxLanes <= PerLane * MaxLanes
    BY SMT
  <2> QED BY <2>1
<1>3. c.t \in 1..Permissive.t /\ c.m \in 1..Permissive.m /\ c.p \in 1..Permissive.p
  BY <1>1, <1>2 DEF Permissive
<1>4. Runs(c, salt)
  BY <1>1 DEF Runs
<1> QED BY <1>1, <1>3, <1>4 DEF ScreenRefusal

LEMMA QuotientTimesDivisor ==
  ASSUME NEW n \in Nat, NEW d \in Nat \ {0}
  PROVE  d * (n \div d) <= n /\ n \div d \in Int
<1>1. d * (n \div d) + (n % d) = n
  OBVIOUS
<1>2. n % d \in 0..(d - 1) /\ n \div d \in Int
  OBVIOUS
<1> QED BY <1>1, <1>2

\* A buffer argon2 asks for is never larger than the memory cost.
LEMMA BlocksWithinCost ==
  ASSUME NEW c \in Costs, c.m > 0, c.p > 0
  PROVE  BlockCount(c) <= c.m
<1>1. c.m \in Nat /\ c.p \in Nat /\ 4 * c.p \in Nat \ {0}
  BY CostAssumption DEF Costs, I32
<1> DEFINE q == c.m \div (4 * c.p)
<1>2. (4 * c.p) * q <= c.m /\ q \in Int
  BY <1>1, QuotientTimesDivisor
<1>3. BlockCount(c) = (q * 4) * c.p
  BY DEF BlockCount
<1> HIDE DEF q
<1> QED BY <1>1, <1>2, <1>3

-----------------------------------------------------------------------------
Begun   == {"screen", "measure", "derive", "pump", "finish"}
Pumping == {"pump", "finish"}
Ending  == {"returning", "returned"}
PackageMembers == {"mimetype", "encrypted-package", "META-INF/manifest.xml"}

\* The first screen's verdict, kept: a call that has begun has costs that passed,
\* and so has one that returned a package.
Screened ==
  /\ asked \in Asked
  /\ stage \in Begun \cup Ending \cup {"costs"}
  /\ stage \notin Ending => result = "none"
  /\ stage \in Begun \/ result = "ok" => NewRefusal(asked.costs) = "none"
  /\ result = "Params" => NewRefusal(asked.costs) # "none"
  /\ verdict # "none" => stage = "returned" /\ verdict \in {"Io", result}
  /\ kdf \notin {"Params", "Internal"}

\* The deflater loses no byte between write's count and its output.
Conserved ==
  /\ {consumed, rest, held, taken} \subseteq Nat
  /\ taken + held + rest = consumed
  /\ stage \notin Ending => stage \in Pumping \/ (phase = "open" /\ rest = 0 /\ consumed = 0)
  /\ stage = "pump" => phase = "open"
  /\ stage = "finish" => phase \in {"finishing", "ended"} /\ rest = 0
  /\ stage = "finish" /\ phase = "ended" => emitted = consumed /\ held = 0

\* The count, the measurement and the input agree until the input changes.
Measured ==
  /\ fileLength \in Nat /\ readAt \in Nat
  /\ stage \notin Ending => readAt = consumed
  /\ changes \in Nat
  /\ stage \in {"derive", "pump"} /\ changes = 0 => size = fileLength /\ readAt <= size
  /\ stage = "finish" => consumed = size
  /\ stage \in Pumping => Len(package) = 2 /\ package \in Seq(PackageMembers)
  /\ SizeIsTrue

\* What run returned is blamed on who caused it.
Blamed ==
  /\ result = "Io" => latch \/ failed = "writer"
  /\ result = "Random" => failed = "random"
  /\ result = "HostCannotAllocate" \/ kdf \in {"HostCannotAllocate", "HostCannotSpawn"} =>
       \/ failed = "host" \/ asked.host.threads = 0 \/ asked.host.memory < asked.costs.m
  /\ result = "Internal" => changes > 0
  /\ stage = "returned" => verdict = IF latch THEN "Io" ELSE result

Inv == Screened /\ Conserved /\ Measured /\ Blamed

LEMMA Initially == Init => Inv
BY AskedAssumption
   DEF Init, DerivationInit, DeflateInit, Inv, Screened, Conserved, Measured, Blamed, Begun,
       Pumping, Ending, SizeIsTrue

\* The derivation's own step, for costs that Argon2Params::new let pass.
LEMMA DerivationStep ==
  ASSUME NEW c \in Costs, NewRefusal(c) = "none", NEW salt \in SaltLengths,
         NEW host \in [memory : Nat, cores : Nat \ {0}, threads : Nat],
         Derives(c, salt, Permissive, host)
  PROVE  \/ kdf' \in {"reserve", "spawn", "hash", "ok"}
         \/ kdf' = "HostCannotAllocate" /\ host.memory < c.m
         \/ kdf' = "HostCannotSpawn" /\ host.threads = 0
<1>1. c.m \in Int /\ c.m > 0 /\ c.p \in Int /\ c.p > 0
  BY CostAssumption DEF NewRefusal, Costs, I32
<1>2. CASE ScreenCosts(c, salt, Permissive)
  BY <1>2, AcceptedRuns DEF ScreenCosts
<1>3. CASE ReserveBlocks(c, host)
  <2>1. BlockCount(c) <= c.m
    BY <1>1, BlocksWithinCost
  <2>2. BlockCount(c) \in Int
    <3>1. 4 * c.p \in Nat \ {0} /\ c.m \in Nat
      BY <1>1
    <3>2. c.m \div (4 * c.p) \in Int
      BY <3>1, QuotientTimesDivisor
    <3> QED BY <3>2, <1>1 DEF BlockCount
  <2> QED BY <1>1, <1>3, <2>1, <2>2 DEF ReserveBlocks
<1>4. CASE SpawnLanes(c, host)
  BY <1>1, <1>4 DEF SpawnLanes, Pool
<1>5. CASE HashLanes
  BY <1>5 DEF HashLanes
<1> QED BY <1>2, <1>3, <1>4, <1>5 DEF Derives

\* The derivation inside a call that has reached it.
LEMMA DeriveStep ==
  ASSUME Screened, Derive
  PROVE  \/ kdf' \in {"reserve", "spawn", "hash", "ok"}
         \/ kdf' = "HostCannotAllocate" /\ asked.host.memory < asked.costs.m
         \/ kdf' = "HostCannotSpawn" /\ asked.host.threads = 0
<1>1. NewRefusal(asked.costs) = "none" /\ asked \in Asked
  BY DEF Screened, Derive, Begun
<1>2. /\ asked.costs \in Costs /\ WholesomeSalt \in SaltLengths
      /\ asked.host \in [memory : Nat, cores : Nat \ {0}, threads : Nat]
  BY <1>1, AskedAssumption
<1> QED BY <1>1, <1>2, DerivationStep DEF Derive

LEMMA ScreenedStep == Inv /\ [Next]_vars => Screened'
<1> SUFFICES ASSUME Inv, [Next]_vars PROVE Screened'
  OBVIOUS
<1> USE DEF Inv, Screened, Begun, Ending, Keep, Ends, Goes, derivation
<1>1. CASE MakeCosts
  BY <1>1 DEF MakeCosts
<1>2. CASE Screen
  BY <1>2 DEF Screen, Refusal
<1>3. CASE Measure
  BY <1>3 DEF Measure
<1>4. CASE Derive
  BY <1>4, DeriveStep DEF Derive
<1>5. CASE NoKey
  BY <1>5 DEF NoKey, WriteError
<1>6. CASE Begin
  BY <1>6 DEF Begin
<1>7. CASE ReadInput
  BY <1>7 DEF ReadInput
<1>8. CASE EndOfInput
  BY <1>8 DEF EndOfInput
<1>9. CASE Deflate
  BY <1>9 DEF Deflate
<1>10. CASE Seal
  BY <1>10 DEF Seal
<1>11. CASE Return
  BY <1>11 DEF Return
<1>12. CASE ReaderFails
  BY <1>12 DEF ReaderFails
<1>13. CASE WriterFails
  BY <1>13 DEF WriterFails
<1>14. CASE RandomFails
  BY <1>14 DEF RandomFails
<1>15. CASE HostFails
  BY <1>15 DEF HostFails
<1>16. CASE InputChanges
  BY <1>16 DEF InputChanges
<1>17. CASE UNCHANGED vars
  BY <1>17 DEF vars
<1> QED BY <1>1, <1>2, <1>3, <1>4, <1>5, <1>6, <1>7, <1>8, <1>9, <1>10, <1>11,
           <1>12, <1>13, <1>14, <1>15, <1>16, <1>17 DEF Next, Run, Returned

LEMMA ConservedStep == Inv /\ [Next]_vars => Conserved'
<1> SUFFICES ASSUME Inv, [Next]_vars PROVE Conserved'
  OBVIOUS
<1> USE ChunkAndBlock DEF Inv, Screened, Conserved, Begun, Pumping, Ending, Keep, Ends, Goes,
        deflater
<1>1. CASE MakeCosts \/ Screen \/ Measure \/ Derive \/ NoKey \/ Begin \/ Seal \/ Return
  BY <1>1 DEF MakeCosts, Screen, Measure, Derive, NoKey, Begin, Seal, Return
<1>2. CASE ReaderFails \/ WriterFails \/ RandomFails \/ HostFails \/ InputChanges
  BY <1>2 DEF ReaderFails, WriterFails, RandomFails, HostFails, InputChanges
<1>3. CASE ReadInput
  BY <1>3 DEF ReadInput, Accept
<1>4. CASE EndOfInput
  BY <1>4 DEF EndOfInput, Placed, FinishDeflate
<1>5. CASE Deflate
  <2>1. CASE Gather
    BY <1>5, <2>1 DEF Deflate, Gather
  <2>2. CASE ReleaseCompressed
    BY <1>5, <2>2 DEF Deflate, ReleaseCompressed, Due, Emit
  <2>3. CASE ReleaseStored
    BY <1>5, <2>3, SMTT(30) DEF Deflate, ReleaseStored, Due
  <2>4. CASE EndDeflate
    BY <1>5, <2>4 DEF Deflate, EndDeflate, Emit
  <2> QED BY <1>5, <2>1, <2>2, <2>3, <2>4 DEF Deflate, Deflating, Release
<1>6. CASE UNCHANGED vars
  BY <1>6 DEF vars
<1> QED BY <1>1, <1>2, <1>3, <1>4, <1>5, <1>6 DEF Next, Run, Returned

LEMMA OneLonger ==
  ASSUME NEW S, NEW s \in Seq(S), NEW e \in S
  PROVE  Len(Append(s, e)) = Len(s) + 1
OBVIOUS

LEMMA MeasuredStep == Inv /\ [Next]_vars => Measured'
<1> SUFFICES ASSUME Inv, [Next]_vars PROVE Measured'
  OBVIOUS
<1>0. Screened /\ Conserved /\ Measured
  BY DEF Inv
<1> USE DEF Conserved, Measured, Begun, Pumping, Ending, SizeIsTrue, Keep, Ends, Goes,
        progress, outside
<1>1. CASE MakeCosts \/ Screen \/ NoKey
  BY <1>0, <1>1 DEF deflater, MakeCosts, Screen, Refusal, NoKey, WriteError
<1>2. CASE Measure
  <2>1. /\ size' = fileLength /\ fileLength \in Nat /\ stage' \in {"derive", "returning"}
        /\ result' # "ok" \/ stage' = "derive"
        /\ UNCHANGED <<fileLength, readAt, consumed, changes, package>>
    BY <1>0, <1>2 DEF Measure, deflater
  <2>2. consumed = 0 /\ readAt = 0 /\ result # "ok"
    BY <1>0, <1>2 DEF Measure, Screened
  <2>3. result' # "ok"
    BY <1>2, <2>1, <2>2 DEF Measure
  <2> QED BY <1>0, <2>1, <2>2, <2>3
<1>3. CASE Derive
  BY <1>0, <1>3 DEF deflater, Derive
<1>4. CASE Begin
  <2>1. /\ stage = "derive" /\ stage' = "pump" /\ result' = result /\ result # "ok"
        /\ package' = <<"mimetype", "encrypted-package">>
        /\ UNCHANGED <<fileLength, readAt, size, consumed, changes>>
    BY <1>0, <1>4 DEF Begin, deflater, Screened
  <2>2. Len(package') = 2 /\ package' \in Seq(PackageMembers)
    BY <2>1 DEF PackageMembers
  <2> HIDE DEF SizeIsTrue
  <2>3. SizeIsTrue'
    BY <2>1 DEF SizeIsTrue
  <2> QED BY <1>0, <2>1, <2>2, <2>3
<1>5. CASE ReadInput
  BY <1>0, <1>5 DEF deflater, ReadInput, Accept
<1>6. CASE EndOfInput
  BY <1>0, <1>6 DEF deflater, EndOfInput, FinishDeflate
<1>7. CASE Deflate
  <2>1. UNCHANGED consumed
    BY <1>7 DEF Deflate, Deflating, Gather, Release, ReleaseCompressed, ReleaseStored, EndDeflate
  <2>2. stage \in Pumping /\ result # "ok" /\ UNCHANGED <<stage, result, progress, changes>>
    BY <1>0, <1>7 DEF Deflate, Screened
  <2> QED BY <1>0, <2>1, <2>2
<1>8. CASE Seal
  <2>1. /\ stage = "finish" /\ stage' = "returning" /\ emitted' = size
        /\ package' = Append(package, "META-INF/manifest.xml")
        /\ UNCHANGED <<fileLength, readAt, size, consumed, changes>>
    BY <1>0, <1>8 DEF Seal, deflater
  <2>2. Len(package) = 2 /\ package \in Seq(PackageMembers)
    BY <1>0, <2>1
  <2>3. Len(package') = 3
    <3>1. "META-INF/manifest.xml" \in PackageMembers
      BY DEF PackageMembers
    <3>2. Len(Append(package, "META-INF/manifest.xml")) = Len(package) + 1
      BY <2>2, <3>1, OneLonger, Zenon
    <3>3. Len(package') = Len(package) + 1
      BY <2>1, <3>2, Zenon
    <3> QED BY <2>2, <3>3
  <2> QED BY <1>0, <2>1, <2>3
<1>9. CASE Return
  BY <1>0, <1>9 DEF deflater, Return
<1>10. CASE ReaderFails \/ WriterFails \/ RandomFails \/ HostFails
  BY <1>0, <1>10 DEF deflater, ReaderFails, WriterFails, RandomFails, HostFails
<1>11. CASE InputChanges
  BY <1>0, <1>11 DEF deflater, InputChanges
<1>12. CASE UNCHANGED vars
  BY <1>0, <1>12 DEF deflater, vars
<1> QED BY <1>1, <1>2, <1>3, <1>4, <1>5, <1>6, <1>7, <1>8, <1>9, <1>10, <1>11, <1>12
        DEF Next, Run, Returned

LEMMA BlamedStep == Inv /\ [Next]_vars => Blamed'
<1> SUFFICES ASSUME Inv, [Next]_vars PROVE Blamed'
  OBVIOUS
<1> USE AskedAssumption
    DEF Inv, Screened, Blamed, Begun, Ending, Keep, Ends, Goes, outside, derivation
<1>1. CASE MakeCosts \/ Screen \/ Measure \/ Begin \/ Seal \/ Return
  BY <1>1 DEF MakeCosts, Screen, Refusal, Measure, Begin, Seal, Return
<1>2. CASE Derive
  BY <1>2, DeriveStep DEF Derive
<1>3. CASE NoKey
  BY <1>3 DEF NoKey, WriteError, KdfErrors
<1>4. CASE ReadInput \/ Deflate
  BY <1>4 DEF ReadInput, Deflate
<1>5. CASE EndOfInput
  BY <1>5, ChunkAndBlock DEF EndOfInput, Measured, Conserved, Pumping
<1>6. CASE ReaderFails \/ WriterFails \/ RandomFails \/ HostFails
  BY <1>6 DEF ReaderFails, WriterFails, RandomFails, HostFails
<1>7. CASE InputChanges
  BY <1>7 DEF InputChanges, Measured
<1>8. CASE UNCHANGED vars
  BY <1>8 DEF vars
<1> QED BY <1>1, <1>2, <1>3, <1>4, <1>5, <1>6, <1>7, <1>8 DEF Next, Run, Returned

LEMMA Step == Inv /\ [Next]_vars => Inv'
BY ScreenedStep, ConservedStep, MeasuredStep, BlamedStep DEF Inv

LEMMA Always == Spec => []Inv
BY Initially, Step, PTL DEF Spec

-----------------------------------------------------------------------------
\* Whatever i32 costs a caller asks for: those Argon2Params::new refuses no reader
\* would have run, and those of a package encrypt has made any reader runs whose
\* own limits allow it.
THEOREM ScreensAgree == Spec => []CostsAgree
<1>1. Inv => CostsAgree
  <2> SUFFICES ASSUME Inv PROVE CostsAgree
    OBVIOUS
  <2>1. asked.costs \in Costs /\ WholesomeSalt \in SaltLengths
    BY AskedAssumption DEF Inv, Screened
  <2>2. ReadLimits \subseteq Limits
    BY AskedAssumption DEF Limits
  <2>3. ASSUME verdict = "Params", NEW l \in ReadLimits
        PROVE  ScreenRefusal(asked.costs, WholesomeSalt, l) # "none"
    <3>1. NewRefusal(asked.costs) # "none"
      BY <2>3 DEF Inv, Screened
    <3> QED BY <2>1, <2>2, <3>1, RefusedNeverRuns
  <2>4. ASSUME verdict = "ok"
        PROVE  /\ ScreenRefusal(asked.costs, WholesomeSalt, Permissive) = "none"
               /\ \A l \in ReadLimits :
                    ScreenRefusal(asked.costs, WholesomeSalt, l) \in Policy \cup {"none"}
    <3>1. NewRefusal(asked.costs) = "none"
      BY <2>4 DEF Inv, Screened
    <3> QED BY <2>1, <2>2, <3>1, AcceptedRuns, AcceptedOrPolicy
  <2> QED BY <2>3, <2>4 DEF CostsAgree, Policy
<1> QED BY <1>1, Always, PTL

\* derive_write_key calls a refusal of the costs an internal error: for no tuple,
\* limit of argon2 or host does derive_argon2id make one there.
THEOREM NoSecondRefusal == Spec => [](kdf \notin {"Params", "Internal"})
<1>1. Inv => kdf \notin {"Params", "Internal"}
  BY DEF Inv, Screened
<1> QED BY <1>1, Always, PTL

\* The manifest of a package that is made states the size of what its payload
\* inflates to, however the input changed between the measurement and the read.
THEOREM SizeAlwaysTrue == Spec => []SizeIsTrue
<1>1. Inv => SizeIsTrue
  BY DEF Inv, Measured
<1> QED BY <1>1, Always, PTL

\* No failure is blamed on another: a reader's, a writer's, the generator's, the
\* host's, an input that changed.
THEOREM BlameAlwaysTrue == Spec => []BlameIsTrue
<1>1. Inv => BlameIsTrue
  BY DEF Inv, Screened, Blamed, BlameIsTrue
<1> QED BY <1>1, Always, PTL

\* To the deflater, encrypt is one of its callers.
LEMMA DeflaterDriven == Spec => DeflateSpec
<1>1. Init => DeflateInit
  BY DEF Init
<1>2. Inv /\ [Next]_vars => [DeflateNext]_deflater
  <2> SUFFICES ASSUME Inv, [Next]_vars PROVE [DeflateNext]_deflater
    OBVIOUS
  <2>1. CASE ReadInput
    <3>1. PICK n \in 1..Chunk : Accept(n)
      BY <2>1 DEF ReadInput
    <3>2. consumed \in Nat /\ consumed + n <= MaxInput
      BY <3>1 DEF Inv, Conserved, Accept
    <3>3. n \in 1..MaxInput
      BY <3>2, ChunkAndBlock
    <3> QED BY <3>1, <3>3 DEF DeflateNext
  <2>2. CASE EndOfInput
    BY <2>2 DEF EndOfInput, DeflateNext
  <2>3. CASE Deflate
    BY <2>3 DEF Deflate, DeflateNext
  <2>4. CASE \/ MakeCosts \/ Screen \/ Measure \/ Derive \/ NoKey \/ Begin \/ Seal \/ Return
             \/ ReaderFails \/ WriterFails \/ RandomFails \/ HostFails \/ InputChanges
    BY <2>4 DEF MakeCosts, Screen, Measure, Derive, NoKey, Begin, Seal, Return, ReaderFails,
                WriterFails, RandomFails, HostFails, InputChanges
  <2>5. CASE UNCHANGED vars
    BY <2>5 DEF vars
  <2> QED BY <2>1, <2>2, <2>3, <2>4, <2>5 DEF Next, Run, Returned
<1> QED BY <1>1, <1>2, Always, PTL DEF Spec, DeflateSpec

\* The payload of every package inflates to what was read.
THEOREM PayloadDecodes == Spec => []Decodes
BY DeflaterDriven, DeflateDecodes, PTL

\* With no match that reaches over what was stored.
THEOREM PayloadReach == Spec => []NoReachBack
BY DeflaterDriven, DeflateReach, PTL

-----------------------------------------------------------------------------
\* Once finish is called, what was counted is what was measured.
Counted == phase # "open" => consumed = size

LEMMA CountedStep == Inv /\ Counted /\ [Next]_vars => Counted'
<1> SUFFICES ASSUME Inv, Counted, [Next]_vars PROVE Counted'
  OBVIOUS
<1>0. Screened /\ Conserved
  BY DEF Inv
<1>1. CASE Measure
  <2>1. stage = "measure" /\ UNCHANGED phase
    BY <1>1 DEF Measure, deflater
  <2>2. phase = "open"
    BY <1>0, <2>1 DEF Conserved, Pumping, Ending
  <2> QED BY <2>1, <2>2 DEF Counted
<1>2. CASE ReadInput
  BY <1>2 DEF ReadInput, Accept, Counted
<1>3. CASE EndOfInput
  BY <1>3 DEF EndOfInput, FinishDeflate, Counted, deflater, progress
<1>4. CASE Deflate
  <2>1. UNCHANGED <<consumed, size>> /\ (phase' = phase \/ phase = "finishing")
    BY <1>4 DEF Deflate, Deflating, Gather, Release, ReleaseCompressed, ReleaseStored,
                EndDeflate, progress
  <2> QED BY <2>1 DEF Counted
<1>5. CASE MakeCosts \/ Screen \/ Derive \/ NoKey \/ Begin \/ Seal \/ Return
  BY <1>5 DEF MakeCosts, Screen, Derive, NoKey, Begin, Seal, Return, Counted, deflater, progress
<1>6. CASE ReaderFails \/ WriterFails \/ RandomFails \/ HostFails \/ InputChanges
  BY <1>6 DEF ReaderFails, WriterFails, RandomFails, HostFails, InputChanges, Counted,
              deflater, progress
<1>7. CASE UNCHANGED vars
  BY <1>7 DEF vars, Counted, deflater, progress
<1> QED BY <1>1, <1>2, <1>3, <1>4, <1>5, <1>6, <1>7 DEF Next, Run, Returned

\* The header of a payload always has room for its length, whichever chunks are
\* stored, when a chunk is no less than a stored block (CHUNK is one byte more
\* than STORED_BLOCK_MAX).  With many smaller chunks to a block it has not: each
\* may cost a block of its own.
THEOREM HeaderAlwaysHasRoom ==
  ASSUME BlockMax <= Chunk
  PROVE  Spec => []HeaderHasRoom
<1> DEFINE Cheap == /\ overhead \in Nat
                    /\ phase = "ended" => overhead <= 10 * (consumed \div BlockMax) + 17
<1>1. Spec => []Cheap
  BY DeflaterDriven, DeflateThrift, PTL
<1>2. Spec => []Sound
  BY DeflaterDriven, AlwaysSound, PTL
<1>3. Init => Counted
  BY DEF Init, DeflateInit, Counted
<1>4. Inv /\ Counted /\ Sound /\ Cheap => HeaderHasRoom
  <2> SUFFICES ASSUME Inv, Counted, Sound, Cheap, phase = "ended" PROVE PayloadLength <= Worst
    BY DEF HeaderHasRoom
  <2>1. consumed \in Nat /\ consumed = size /\ emitted = consumed
    BY DEF Counted, Sound, Counts
  <2>2. overhead \in Nat /\ overhead <= 10 * (consumed \div BlockMax) + 17
    OBVIOUS
  <2>3. PICK whole : whole = consumed \div BlockMax
    OBVIOUS
  <2>4. whole \in Nat
    BY <2>1, <2>3, WholeBlocks, ChunkAndBlock
  <2> QED BY <2>1, <2>2, <2>3, <2>4 DEF PayloadLength, Worst, DeflateBound, IvAndTag
<1> QED BY <1>1, <1>2, <1>3, <1>4, Always, CountedStep, PTL DEF Spec
=============================================================================
