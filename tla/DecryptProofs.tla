---------------------------- MODULE DecryptProofs ----------------------------
(***************************************************************************)
(* Theorems about Decrypt, for any packages, passwords and limits, however *)
(* the input changes under the call and whatever fails.                    *)
(*                                                                         *)
(* None of the properties is inductive: each speaks of what was written or *)
(* reported, and rests on what the passes before it have read.  Inv says   *)
(* which rows the plans and the superseded rows are (Fits) and which row   *)
(* run works on (At), what a pass has made of the blocks behind it (Reads, *)
(* Blames), why a candidate was given up (Rejects), which rows and members *)
(* have been opened by now (Opened, EachRow, EachMember), and what of the  *)
(* output is still to be refused (Authentic).  Rekey takes the same steps: *)
(* "mimetype" and "seal" are stages of its own.                            *)
(***************************************************************************)
EXTENDS Decrypt, FiniteSetTheorems, WellFoundedInduction, TLAPS

Early   == {"classified", "mimetype", "rows"}
Reading == {"derive", "verify", "release", "drain"}
Ending  == {"returning", "returned"}
AllStages == Early \cup Reading \cup Ending \cup {"members", "seal"}

HasMember(r) == Bearing(Rows[r].path) # {}
Last(r)      == Len(Blocks(MemberOf(r)))

\* What may be held against row r if its password is refused.
Refusable(r) ==
  \/ ~Opens(r)
  \/ Rows[r].cipher = "cbc" /\ Blocks(MemberOf(r))[Last(r)].damage # "none"

Given ==
  /\ call \in Calls
  /\ stage \in AllStages
  /\ index \in Nat /\ block \in Nat /\ candidate \in Candidates

\* Only sound blocks of the input change, and none changes back.
Changes ==
  \A d \in changed : d.damage \in {"window", "past"} /\ Blocks(d.member)[d.block].damage = "none"

Fits ==
  /\ DOMAIN plans = DOMAIN Members
  /\ \A i \in DOMAIN Members : plans[i] # 0 =>
       plans[i] \in Screened /\ HasMember(plans[i]) /\ MemberOf(plans[i]) = i
  /\ superseded \in Seq(Screened)
  /\ \A k \in DOMAIN superseded : HasMember(superseded[k])
  /\ Wholesome => superseded = <<>>

\* Nothing is planned before the rows are screened, and of a wholesome package
\* one row is.
Unplanned ==
  stage \in {"classified", "mimetype"} \/ (stage = "rows" /\ Wholesome) =>
    superseded = <<>> /\ \A i \in DOMAIN Members : plans[i] = 0

\* Where run is: the row it works on, and why.
At ==
  /\ stage \in {"classified", "mimetype"} => index = 0
  /\ stage = "rows" => row \in Screened /\ index = 0
  /\ stage \in Reading =>
       /\ row \in Screened /\ HasMember(row)
       /\ superseded # <<>> => row = Head(superseded) /\ stage \in {"derive", "verify"} /\ index = 0
       /\ superseded = <<>> => plans[Current] = row /\ index = Current
  /\ stage \in {"members", "seal"} => superseded = <<>>
  /\ stage = "members" => index # 0 /\ ~Wholesome
  /\ stage = "seal" => IF Wholesome THEN row \in Screened ELSE index > Len(Members)

\* What a pass has made of the blocks behind it.
Reads ==
  /\ stage = "derive" => dirty = {}
  /\ stage = "verify" => Rows[row].kdf /\ block \in 1..LastBlock
  /\ stage \in {"verify", "release", "drain"} /\ Wholesome => Cipher = "gcm"
  /\ stage = "verify" /\ Cipher = "gcm" =>
       \A b \in 1..(block - 1) : b \in dirty \/ Blocks(Current)[b].damage = "none"
  /\ stage = "verify" /\ Cipher # "gcm" => dirty = {} /\ block = 1
  /\ stage = "release" => block \in 1..LastBlock
  /\ stage = "drain" => block \in 1..(LastBlock + 1)

\* A block is found damaged because it was, or because the input has changed.
Blames ==
  stage \in Reading =>
    \A b \in dirty : b \in 1..LastBlock /\ (changed # {} \/ Blocks(Current)[b].damage # "none")

\* The right key was passed by only if there was something to hold against it.
Rejects ==
  stage \in Reading /\ changed = {} =>
    (Rows[row].key # None /\ Rows[row].key < candidate => Refusable(row))

Opened == stage \in {"release", "drain"} \/ (stage = "seal" /\ Wholesome) => Opens(row)

\* A screened row has a plan, is superseded, or has been opened.
Kept(r) ==
  /\ HasMember(r) /\ plans[MemberOf(r)] # 0
  /\ \/ plans[MemberOf(r)] = r
     \/ \E k \in DOMAIN superseded : superseded[k] = r
     \/ Opens(r)
AllScreened == stage \in Reading \cup {"members", "seal"} \/ result = "ok"
EachRow ==
  \A r \in Screened : AllScreened \/ (stage = "rows" /\ r < row) => Kept(r)

\* The members the rebuild is done with have been opened.
EachMember ==
  \A i \in DOMAIN Members :
    /\ Planned(i) /\ ~Wholesome /\ AllScreened /\ i < index => Opens(plans[i])
    /\ Planned(i) /\ result = "ok" => Opens(plans[i])

NoneLeft == result = "ok" => superseded = <<>>

Wrote ==
  \A p \in out : p.member \in DOMAIN Members /\ (Planned(p.member) => Opens(plans[p.member]))

Authentic ==
  \A p \in out : Planned(p.member) /\ RowOf(plans[p.member]).cipher = "gcm" /\ ~p.sound =>
    \/ stage \in {"release", "drain"} /\ Cipher = "gcm" /\ dirty # {}
    \/ result \notin {"none", "ok"}

Untouched == stage \in Early => derived = 0 /\ out = {}

Results ==
  /\ result = "none" <=> stage \notin Ending
  /\ result \in NeedsNoKey => derived = 0 /\ out = {}
  /\ result = "Io" => failed = "writer" \/ changed # {}
  /\ result = "Inflate" => Opens(row)
  /\ result = "WrongPassword" /\ changed = {} => Refusable(row)
  /\ result = "HostCannotAllocate" => failed = "host"

Answer == verdict = IF stage # "returned" THEN "none" ELSE IF latch THEN "Io" ELSE result

Inv ==
  /\ Given /\ Changes /\ Fits /\ Unplanned /\ At /\ Reads /\ Blames /\ Rejects /\ Opened
  /\ EachRow /\ EachMember /\ NoneLeft /\ Wrote /\ Authentic /\ Untouched /\ Results /\ Answer

-----------------------------------------------------------------------------
\* What is counted, and what it comes to: the units of the plaintext written.
InHand == IF stage \in {"release", "drain"} THEN inflated ELSE 0
Of(i)  == {p \in out : p.member = i}

\* A block is written once: what is written of a member lies behind.
Fresh ==
  /\ IsFiniteSet(out) /\ \A p \in out : p.block \in Nat /\ p.units \in Nat
  /\ inflated \in Nat /\ produced \in Nat
  /\ stage \notin Ending => \A p \in out :
       \/ p.member < index
       \/ stage \in {"release", "drain"} /\ p.member = index /\ p.block < block
  /\ stage = "drain" => inflated = Expected

Sums ==
  /\ stage \notin Ending => Units(Plaintext) <= produced + InHand /\ produced + InHand <= call.limit
  /\ Wholesome \/ result = "ok" => Units(Plaintext) <= call.limit

\* The members the rebuild is done with are written whole.
Whole(i) == Of(i) # {} /\ (Planned(i) => Units(Of(i)) = RowOf(plans[i]).size)
Sizes ==
  ~Wholesome =>
    /\ stage \in Reading \cup {"members", "seal"} \/ result = "ok" =>
         \A i \in DOMAIN Members : i < index \/ result = "ok" => Whole(i)
    /\ stage \in {"release", "drain"} => Units(Of(index)) = inflated
    /\ stage = "drain" => Of(index) # {}

Tally == Fresh /\ Sums /\ Sizes

-----------------------------------------------------------------------------
\* Induction on the natural numbers, by way of a least counterexample.
LEMMA Least ==
  ASSUME NEW T, T \subseteq Nat, T # {}
  PROVE  \E n \in T : \A m \in T : n <= m
<1> DEFINE R == OpToRel(<, Nat)
<1>1. IsWellFoundedOn(R, Nat)
  BY NatLessThanWellFounded
<1>2. \A x, y \in Nat : x < y => <<x, y>> \in R
  BY DEF OpToRel
<1> HIDE DEF R
<1>3. PICK n \in T : \A y \in T : ~(<<y, n>> \in R)
  BY <1>1, WFMin, Zenon
<1>4. ASSUME NEW m \in T PROVE n <= m
  <2>1. n \in Nat /\ m \in Nat
    BY T \subseteq Nat
  <2>2. ~(m < n)
    BY <1>2, <1>3, <2>1
  <2> QED BY <2>1, <2>2
<1> QED BY <1>4

\* The units of the pieces one by one.
Bulk(pieces) == UNION {{p} \X (1..p.units) : p \in pieces}

LEMMA BulkFinite ==
  ASSUME NEW S, IsFiniteSet(S), \A p \in S : p.units \in Nat
  PROVE  IsFiniteSet(Bulk(S))
<1> DEFINE f == [p \in S |-> {p} \X (1..p.units)]
           parts == {{p} \X (1..p.units) : p \in S}
<1>1. f \in Surjection(S, parts)
  BY DEF Surjection
<1>2. IsFiniteSet(parts)
  BY <1>1, FS_Surjection
<1>3. ASSUME NEW p \in S PROVE IsFiniteSet({p} \X (1..p.units))
  <2>1. 1 \in Int /\ p.units \in Int
    OBVIOUS
  <2>2. IsFiniteSet(1..p.units)
    BY <2>1, FS_Interval, Zenon
  <2>3. IsFiniteSet({p})
    BY FS_Singleton, Zenon
  <2> QED BY <2>2, <2>3, FS_Product, Zenon
<1> HIDE DEF parts
<1>4. \A T \in parts : IsFiniteSet(T)
  BY <1>3 DEF parts
<1>5. IsFiniteSet(UNION parts)
  BY <1>2, <1>4, FS_UNION
<1> QED BY <1>5 DEF Bulk, parts

LEMMA BulkMore ==
  ASSUME NEW S, IsFiniteSet(S), \A p \in S : p.units \in Nat, NEW x \in S
  PROVE  Cardinality(Bulk(S)) = x.units + Cardinality(Bulk(S \ {x}))
<1> DEFINE own == {x} \X (1..x.units)
<1>1. Bulk(S) = own \cup Bulk(S \ {x})
  BY DEF Bulk
<1>2. own \cap Bulk(S \ {x}) = {}
  BY DEF Bulk
<1>3. IsFiniteSet(S \ {x})
  BY FS_RemoveElement
<1>4. IsFiniteSet(Bulk(S \ {x}))
  BY <1>3, BulkFinite
<1>5. IsFiniteSet(1..x.units) /\ Cardinality(1..x.units) = x.units
  <2>1. 1 \in Int /\ x.units \in Int /\ x.units \in Nat
    OBVIOUS
  <2>2. /\ IsFiniteSet(1..x.units)
        /\ Cardinality(1..x.units) = IF 1 > x.units THEN 0 ELSE x.units - 1 + 1
    BY <2>1, FS_Interval, Zenon
  <2> QED BY <2>1, <2>2
<1>6. IsFiniteSet(own) /\ Cardinality(own) = x.units
  <2>1. IsFiniteSet({x}) /\ Cardinality({x}) = 1
    BY FS_Singleton, Zenon
  <2>2. IsFiniteSet(own) /\ Cardinality(own) = Cardinality({x}) * Cardinality(1..x.units)
    BY <1>5, <2>1, FS_Product, Zenon
  <2> QED BY <1>5, <2>1, <2>2
<1> HIDE DEF own
<1>7. Cardinality(Bulk(S)) = Cardinality(own) + Cardinality(Bulk(S \ {x})) - Cardinality({})
  <2>1. Cardinality(own \cup Bulk(S \ {x}))
          = Cardinality(own) + Cardinality(Bulk(S \ {x})) - Cardinality(own \cap Bulk(S \ {x}))
    BY <1>4, <1>6, FS_Union, Zenon
  <2> QED BY <1>1, <1>2, <2>1, Zenon
<1>8. Cardinality({}) = 0 /\ Cardinality(Bulk(S \ {x})) \in Nat
  BY <1>4, FS_EmptySet, FS_CardinalityType
<1> QED BY <1>6, <1>7, <1>8

\* Units adds up the units, in whatever order the fold takes the pieces.
LEMMA UnitsBulk ==
  ASSUME NEW S, IsFiniteSet(S), \A p \in S : p.units \in Nat
  PROVE  Units(S) = Cardinality(Bulk(S))
<1> DEFINE Any(s) == CHOOSE x \in s : TRUE
           Adds(g) == [s \in SUBSET S |-> IF s = {} THEN 0 ELSE Any(s).units + g[s \ {Any(s)}]]
           iter == CHOOSE g : g = Adds(g)
           F == [s \in SUBSET S |-> Cardinality(Bulk(s))]
<1>1. Units(S) = iter[S]
  BY DEF Units, MapThenSumSet, MapThenFoldSet
<1>2. \A s \in SUBSET S : IsFiniteSet(s) /\ Cardinality(s) \in Nat
  BY FS_Subset, FS_CardinalityType
<1>3. ASSUME NEW s \in SUBSET S, s # {}
      PROVE  /\ Any(s) \in s /\ s \ {Any(s)} \in SUBSET S
             /\ Cardinality(Bulk(s)) = Any(s).units + Cardinality(Bulk(s \ {Any(s)}))
             /\ Cardinality(s \ {Any(s)}) = Cardinality(s) - 1
  <2>1. Any(s) \in s
    BY <1>3
  <2> HIDE DEF Any
  <2>2. IsFiniteSet(s) /\ \A p \in s : p.units \in Nat
    BY <1>2
  <2> QED BY <2>1, <2>2, BulkMore, FS_RemoveElement
<1>4. Bulk({}) = {}
  BY DEF Bulk
<1> HIDE DEF Any
<1>5. F = Adds(F)
  <2>1. ASSUME NEW s \in SUBSET S
        PROVE  F[s] = IF s = {} THEN 0 ELSE Any(s).units + F[s \ {Any(s)}]
    <3>1. CASE s = {}
      BY <1>4, <3>1, FS_EmptySet
    <3>2. CASE s # {}
      BY <1>3, <3>2
    <3> QED BY <3>1, <3>2
  <2> QED BY <2>1
<1>6. iter = Adds(iter)
  <2> HIDE DEF F, Adds
  <2> QED BY <1>5
<1>7. ASSUME NEW s \in SUBSET S, iter[s] # F[s] PROVE FALSE
  <2> DEFINE T == {Cardinality(t) : t \in {u \in SUBSET S : iter[u] # F[u]}}
  <2> HIDE DEF iter
  <2>1. T \subseteq Nat /\ T # {}
    BY <1>2, <1>7
  <2>2. PICK n \in T : \A m \in T : n <= m
    BY <2>1, Least, Zenon
  <2>3. PICK t \in SUBSET S : iter[t] # F[t] /\ n = Cardinality(t)
    BY <2>2
  <2>4. iter[t] = IF t = {} THEN 0 ELSE Any(t).units + iter[t \ {Any(t)}]
    BY <1>6
  <2>5. t # {}
    BY <1>4, <2>3, <2>4, FS_EmptySet
  <2>6. iter[t \ {Any(t)}] # F[t \ {Any(t)}]
    BY <1>3, <2>3, <2>4, <2>5
  <2>7. Cardinality(t \ {Any(t)}) \in T
    BY <1>3, <2>5, <2>6
  <2>8. Cardinality(t \ {Any(t)}) = n - 1 /\ n \in Nat
    BY <1>2, <1>3, <2>3, <2>5
  <2>9. n <= Cardinality(t \ {Any(t)})
    BY <2>2, <2>7, Zenon
  <2> QED BY <2>8, <2>9
<1> QED BY <1>1, <1>7

LEMMA UnitsAdd ==
  ASSUME NEW S, IsFiniteSet(S), \A p \in S : p.units \in Nat
  PROVE  /\ Units(S) \in Nat /\ Units({}) = 0
         /\ \A x : x \notin S /\ x.units \in Nat => Units(S \cup {x}) = Units(S) + x.units
<1>1. Units(S) \in Nat
  BY UnitsBulk, BulkFinite, FS_CardinalityType
<1>2. Units({}) = 0
  <2>1. Bulk({}) = {}
    BY DEF Bulk
  <2> QED BY <2>1, UnitsBulk, FS_EmptySet
<1>3. ASSUME NEW x, x \notin S, x.units \in Nat
      PROVE  Units(S \cup {x}) = Units(S) + x.units
  <2>1. IsFiniteSet(S \cup {x}) /\ \A p \in S \cup {x} : p.units \in Nat
    BY <1>3, FS_AddElement
  <2>2. (S \cup {x}) \ {x} = S
    BY <1>3
  <2>3. Cardinality(Bulk(S \cup {x})) = x.units + Cardinality(Bulk(S))
    BY <2>1, <2>2, BulkMore
  <2> QED BY <1>1, <1>3, <2>1, <2>3, UnitsBulk
<1> QED BY <1>1, <1>2, <1>3

LEMMA RowFacts ==
  ASSUME call \in Calls
  PROVE  /\ Len(Rows) \in Nat /\ DOMAIN Rows = 1..Len(Rows)
         /\ \A r \in DOMAIN Rows : /\ Rows[r].key \in Candidates \cup {None}
                                   /\ Rows[r].key \in {1, 2, 3} => Rows[r].sha1
<1>1. Rows \in Seq(Row)
  BY CallsAssumption DEF Rows
<1>2. \A r \in DOMAIN Rows : Rows[r] \in Row
  BY <1>1
<1>3. \A x \in Row : x.key \in Candidates \cup {None}
  BY DEF Row
<1>4. \A r \in DOMAIN Rows : Rows[r].key \in {1, 2, 3} => Rows[r].sha1
  BY CallsAssumption DEF Rows
<1>5. \A r \in DOMAIN Rows : Rows[r].key \in Candidates \cup {None}
  BY <1>2, <1>3, Zenon
<1> QED BY <1>1, <1>4, <1>5

LEMMA MemberFacts ==
  ASSUME call \in Calls
  PROVE  /\ Len(Members) \in Nat /\ DOMAIN Members = 1..Len(Members)
         /\ \A i \in DOMAIN Members : /\ Len(Blocks(i)) \in Nat \ {0}
                                      /\ DOMAIN Blocks(i) = 1..Len(Blocks(i))
                                      /\ \A b \in DOMAIN Blocks(i) : Blocks(i)[b].units \in Nat
         /\ \A r : HasMember(r) => MemberOf(r) \in DOMAIN Members
<1> DEFINE Content == [units : Nat, mark : BOOLEAN, damage : {"none", "window", "past"}]
<1>1. Members \in Seq(Member)
  BY CallsAssumption DEF Members
<1>2. \A i \in DOMAIN Members : Members[i] \in Member
  BY <1>1
<1>3. \A x \in Member : x.blocks \in Seq(Content) \ {<<>>}
  BY DEF Member
<1>4. \A i \in DOMAIN Members : Blocks(i) \in Seq(Content) \ {<<>>}
  BY <1>2, <1>3, Zenon DEF Blocks
<1> HIDE DEF Content
<1>5. \A s \in Seq(Content) \ {<<>>} : Len(s) \in Nat \ {0} /\ DOMAIN s = 1..Len(s)
  OBVIOUS
<1>6. \A r : HasMember(r) => MemberOf(r) \in DOMAIN Members
  BY DEF HasMember, MemberOf, Bearing
<1>7. \A x \in Content : x.units \in Nat
  BY DEF Content
<1>8. \A s \in Seq(Content) \ {<<>>} : \A b \in DOMAIN s : s[b].units \in Nat
  BY <1>7
<1> QED BY <1>1, <1>4, <1>5, <1>6, <1>8

\* The rows decrypt_to works on are rows, and there is a last one.
LEMMA ScreenedFacts ==
  ASSUME call \in Calls
  PROVE  /\ Screened \subseteq DOMAIN Rows
         /\ Wholesome => Screened = {WholesomeRow}
         /\ ~Wholesome => Screened = 1..Len(Rows)
         /\ Screened # {} => Max(Screened) \in Screened /\ \A r \in Screened : r <= Max(Screened)
<1>1. Len(Rows) \in Nat /\ DOMAIN Rows = 1..Len(Rows)
  BY RowFacts
<1>2. CASE Wholesome
  <2> DEFINE T == {r \in DOMAIN Rows : Rows[r].path = "package"}
  <2>1. T # {} /\ T \subseteq Nat
    BY <1>1, <1>2, CallsAssumption DEF Rows, Wholesome
  <2>2. PICK n \in T : \A m \in T : n <= m
    BY <2>1, Least, Zenon
  <2>3. \A s \in 1..(n - 1) : Rows[s].path # "package"
    BY <1>1, <2>2
  <2>4. WholesomeRow \in DOMAIN Rows
    BY <2>2, <2>3 DEF WholesomeRow
  <2>5. Screened = {WholesomeRow}
    BY <1>2 DEF Screened
  <2>6. Max(Screened) = WholesomeRow
    BY <1>1, <2>4, <2>5 DEF Max
  <2> QED BY <1>1, <1>2, <2>4, <2>5, <2>6
<1>3. CASE ~Wholesome
  <2>1. Screened = 1..Len(Rows)
    BY <1>1, <1>3 DEF Screened
  <2>2. ASSUME Len(Rows) # 0 PROVE Max(Screened) = Len(Rows)
    <3>1. Len(Rows) \in Screened /\ \A y \in Screened : Len(Rows) >= y
      BY <1>1, <2>1, <2>2
    <3>2. Max(Screened) \in Screened /\ \A y \in Screened : Max(Screened) >= y
      BY <3>1 DEF Max
    <3> QED BY <1>1, <2>1, <3>1, <3>2
  <2> QED BY <1>1, <1>3, <2>1, <2>2
<1> QED BY <1>2, <1>3

\* What is said of the call alone does not change with a step.
LEMMA Static ==
  ASSUME call' = call
  PROVE  /\ Rows' = Rows /\ Members' = Members /\ Screened' = Screened
         /\ Wholesome' = Wholesome /\ WholesomeRow' = WholesomeRow
         /\ \A r : /\ MemberOf(r)' = MemberOf(r) /\ HasMember(r)' = HasMember(r)
                   /\ RowOf(r)' = RowOf(r) /\ Opens(r)' = Opens(r)
                   /\ Refusable(r)' = Refusable(r)
         /\ \A i : Blocks(i)' = Blocks(i) /\ IsManifest(i)' = IsManifest(i)
<1> USE DEF Rows, Members, Bearing, Blocks
<1>1. /\ Rows' = Rows /\ Members' = Members /\ Screened' = Screened
      /\ Wholesome' = Wholesome /\ WholesomeRow' = WholesomeRow
  BY DEF Screened, Wholesome, WholesomeRow
<1>2. \A r : MemberOf(r)' = MemberOf(r) /\ HasMember(r)' = HasMember(r)
  BY DEF MemberOf, HasMember
<1>3. \A r : RowOf(r)' = RowOf(r) /\ Opens(r)' = Opens(r)
  BY <1>2 DEF RowOf, Opens
<1>4. \A i : Blocks(i)' = Blocks(i) /\ IsManifest(i)' = IsManifest(i)
  BY DEF IsManifest
<1>5. \A r : Refusable(r)' = Refusable(r)
  BY <1>2, <1>3 DEF Refusable, Last
<1> QED BY <1>1, <1>2, <1>3, <1>4, <1>5

\* A block read sound was sound to begin with; one found damaged was damaged, or
\* the input has changed.
LEMMA Found ==
  ASSUME Changes, NEW i, NEW b
  PROVE  /\ Sound(i, b) => Blocks(i)[b].damage = "none"
         /\ Damage(i, b) # "window" => Blocks(i)[b].damage # "window"
         /\ changed = {} => Damage(i, b) = Blocks(i)[b].damage
<1> DEFINE D == {d \in changed : d.member = i /\ d.block = b}
<1>1. CASE D = {}
  <2>1. Damage(i, b) = Blocks(i)[b].damage
    BY <1>1 DEF Damage
  <2> QED BY <2>1 DEF Sound
<1>2. CASE D # {}
  <2>1. PICK d \in changed : d.member = i /\ d.block = b
    BY <1>2
  <2>2. Blocks(i)[b].damage = "none"
    BY <2>1 DEF Changes
  <2>3. Damage(i, b) \in {"window", "past"}
    <3> DEFINE e == CHOOSE d2 \in changed : d2.member = i /\ d2.block = b
    <3>1. e \in changed
      BY <2>1
    <3>2. Damage(i, b) = e.damage
      BY <2>1 DEF Damage
    <3> HIDE DEF e
    <3> QED BY <3>1, <3>2 DEF Changes
  <2> QED BY <2>1, <2>2, <2>3 DEF Sound
<1> QED BY <1>1, <1>2

-----------------------------------------------------------------------------
\* run gives up with e, for a reason that stands.
LEMMA FailStep ==
  ASSUME Inv, NEW e, Ends(e), e \notin {"none", "ok"}, stage \notin Ending,
         UNCHANGED <<call, plans, superseded, row, index, candidate, verdict, changed>>,
         block' \in Nat, Wrote',
         e \in NeedsNoKey => derived' = 0 /\ out' = {},
         e = "Io" => failed' = "writer" \/ changed # {},
         e = "Inflate" => Opens(row),
         e = "WrongPassword" /\ changed = {} => Refusable(row),
         e = "HostCannotAllocate" => failed' = "host"
  PROVE  Inv'
<1>1. stage' = "returning" /\ result' = e
  BY DEF Ends
<1>2. Given' /\ Changes' /\ Fits' /\ Unplanned'
  BY <1>1, Static DEF Inv, Given, Changes, Fits, Unplanned, AllStages, Ending
<1>3. At' /\ Reads' /\ Blames' /\ Rejects' /\ Opened'
  BY <1>1 DEF At, Reads, Blames, Rejects, Opened, Reading
<1>4. EachRow' /\ EachMember' /\ NoneLeft' /\ Untouched'
  BY <1>1 DEF EachRow, EachMember, NoneLeft, AllScreened, Untouched, Early, Reading
<1>5. Authentic'
  BY <1>1 DEF Authentic
<1>6. Results'
  BY <1>1, Static DEF Results, Ending
<1>7. Answer'
  BY <1>1 DEF Inv, Answer, Ending
<1> QED BY <1>2, <1>3, <1>4, <1>5, <1>6, <1>7 DEF Inv

\* run succeeds, with every row checked and every member written.
LEMMA DoneStep ==
  ASSUME Inv, Ends("ok"), stage \notin Ending, AllScreened, superseded = <<>>,
         UNCHANGED <<call, plans, superseded, row, index, candidate, block, out, verdict, changed>>,
         \A i \in DOMAIN Members : Planned(i) => Opens(plans[i]),
         \A p \in out : Planned(p.member) /\ RowOf(plans[p.member]).cipher = "gcm" => p.sound
  PROVE  Inv'
<1>1. stage' = "returning" /\ result' = "ok"
  BY DEF Ends
<1>2. Given' /\ Changes' /\ Fits' /\ Unplanned'
  BY <1>1, Static DEF Inv, Given, Changes, Fits, Unplanned, AllStages, Ending
<1>3. At' /\ Reads' /\ Blames' /\ Rejects' /\ Opened'
  BY <1>1 DEF At, Reads, Blames, Rejects, Opened, Reading
<1>4. Members' = Members /\ \A i : Planned(i)' = Planned(i)
  BY Static DEF Planned
<1>5. EachRow' /\ NoneLeft' /\ Untouched'
  BY <1>1, Static DEF Inv, EachRow, Kept, NoneLeft, Untouched, Early
<1>6. EachMember'
  BY <1>4, Static DEF EachMember
<1>7. Wrote' /\ Authentic'
  BY <1>1, <1>4, Static DEF Inv, Wrote, Authentic
<1>8. Results'
  BY <1>1 DEF Results, Ending, NeedsNoKey
<1>9. Answer'
  BY <1>1 DEF Inv, Answer, Ending
<1> QED BY <1>2, <1>3, <1>5, <1>6, <1>7, <1>8, <1>9 DEF Inv

\* run moves along, once every row has been screened.
LEMMA MoveStep ==
  ASSUME Inv, stage \in Reading \cup {"members"}, stage' \in Reading \cup {"members", "seal"},
         UNCHANGED <<call, plans, superseded, result, verdict, changed>>,
         index' \in Nat, block' \in Nat, candidate' \in Candidates,
         \A i \in DOMAIN Members :
           Planned(i) /\ ~Wholesome /\ i < index' => i < index \/ Opens(plans[i]),
         At', Reads', Blames', Rejects', Opened', Wrote', Authentic'
  PROVE  Inv'
<1>1. Given' /\ Changes' /\ Fits' /\ Unplanned'
  BY Static DEF Inv, Given, Changes, Fits, Unplanned, AllStages, Reading
<1>2. result' = "none"
  BY DEF Inv, Results, Reading, Ending
<1>3. Members' = Members /\ \A i : Planned(i)' = Planned(i)
  BY Static DEF Planned
<1>4. AllScreened
  BY DEF AllScreened
<1>5. EachRow' /\ NoneLeft' /\ Untouched'
  BY <1>2, <1>4, Static DEF Inv, EachRow, Kept, NoneLeft, Untouched, Early, Reading
<1>6. EachMember'
  BY <1>2, <1>3, <1>4, Static DEF Inv, EachMember
<1>7. Results' /\ Answer'
  BY <1>2 DEF Inv, Results, Answer, Ending, Reading, NeedsNoKey
<1> QED BY <1>1, <1>5, <1>6, <1>7 DEF Inv

\* A pass over the member of row r begins with the row's first candidate.
LEMMA Trying ==
  ASSUME NEW r \in Screened, Try(r), call \in Calls, call' = call
  PROVE  /\ stage' = "derive" /\ row' = r /\ block' \in Nat /\ candidate' \in Candidates
         /\ Reads' /\ Blames' /\ Rejects' /\ Opened'
<1>1. /\ stage' = "derive" /\ row' = r /\ block' \in Nat /\ candidate' = 0 /\ dirty' = {}
  BY DEF Try
<1>2. Reads' /\ Blames' /\ Opened'
  BY <1>1 DEF Reads, Blames, Opened
<1>3. r \in DOMAIN Rows
  BY ScreenedFacts
<1>4. Rows[r].key # None => ~(Rows[r].key < candidate')
  BY <1>1, <1>3, RowFacts DEF Candidates
<1>5. Rejects'
  BY <1>1, <1>4, Static DEF Rejects
<1> QED BY <1>1, <1>2, <1>5 DEF Candidates

\* The row run is working on, and what its member is.
LEMMA Working ==
  ASSUME Inv, stage \in Reading
  PROVE  /\ row \in DOMAIN Rows /\ Current \in DOMAIN Members
         /\ LastBlock \in Nat \ {0} /\ DOMAIN Blocks(Current) = 1..LastBlock
         /\ Wholesome => row = WholesomeRow /\ superseded = <<>>
         /\ superseded = <<>> => plans[Current] = row /\ index = Current
<1>1. call \in Calls /\ row \in Screened /\ HasMember(row)
  BY DEF Inv, Given, At
<1>2. row \in DOMAIN Rows /\ Current \in DOMAIN Members
  BY <1>1, ScreenedFacts, MemberFacts DEF Current
<1>3. LastBlock \in Nat \ {0} /\ DOMAIN Blocks(Current) = 1..LastBlock
  BY <1>1, <1>2, MemberFacts DEF LastBlock
<1>4. Wholesome => row = WholesomeRow
  BY <1>1, ScreenedFacts
<1> QED BY <1>2, <1>3, <1>4 DEF Inv, At, Fits

-----------------------------------------------------------------------------
\* Up to the screening of the rows nothing has been done, and then the first row
\* is up.
LEMMA EarlyStep ==
  ASSUME Inv, stage \in {"classified", "mimetype"}, stage' \in {"mimetype", "rows"},
         UNCHANGED <<call, plans, superseded, index, candidate, block, dirty, derived, out, result,
                     verdict, changed, latch, failed>>,
         stage' = "rows" => call.mode # "plain" /\ row' = IF Wholesome THEN WholesomeRow ELSE 1
  PROVE  Inv'
<1>1. derived = 0 /\ out = {} /\ result = "none" /\ index = 0 /\ call \in Calls
  BY DEF Inv, Untouched, Early, Results, Ending, At, Given
<1>2. stage' = "rows" => row' \in Screened
  <2> SUFFICES ASSUME stage' = "rows" PROVE row' \in Screened
    OBVIOUS
  <2>1. CASE Wholesome
    BY <1>1, <2>1, ScreenedFacts
  <2>2. CASE ~Wholesome
    <3>1. call.mode = "per-entry"
      BY <1>1, <2>2, CallsAssumption DEF Wholesome
    <3>2. Rows # <<>> /\ Rows \in Seq(Row)
      BY <1>1, <3>1, CallsAssumption DEF Rows
    <3>3. 1 \in 1..Len(Rows)
      BY <3>2
    <3> QED BY <1>1, <2>2, <3>3, ScreenedFacts
  <2> QED BY <2>1, <2>2
<1>3. Given' /\ Changes' /\ Fits' /\ Unplanned'
  BY Static DEF Inv, Given, Changes, Fits, Unplanned, AllStages, Early
<1>4. At' /\ Reads' /\ Blames' /\ Rejects' /\ Opened'
  BY <1>1, <1>2, Static DEF At, Reads, Blames, Rejects, Opened, Reading
<1>5. ~AllScreened'
  BY <1>1 DEF AllScreened, Reading
<1>6. EachRow'
  <2> SUFFICES ASSUME NEW r \in Screened, stage' = "rows", r < row' PROVE FALSE
    BY <1>5, Static DEF EachRow
  <2>1. r \in 1..Len(Rows) /\ Len(Rows) \in Nat
    BY <1>1, ScreenedFacts, RowFacts
  <2> QED BY <1>1, <2>1, ScreenedFacts
<1>7. EachMember' /\ NoneLeft' /\ Untouched'
  BY <1>1, <1>5 DEF EachMember, NoneLeft, Untouched
<1>8. Wrote' /\ Authentic' /\ Results' /\ Answer'
  BY <1>1 DEF Inv, Wrote, Authentic, Results, Answer, Ending, NeedsNoKey
<1> QED BY <1>3, <1>4, <1>6, <1>7, <1>8 DEF Inv

\* screen_class.
LEMMA ScreenClassStep == ASSUME Inv, ScreenClass PROVE Inv'
<1>1. /\ stage = "classified" /\ UNCHANGED <<call, plans, superseded, index, candidate, block,
              dirty, derived, out, verdict, changed, latch, failed>>
  BY DEF ScreenClass, Keep, planned, pass, written, outside
<1>2. derived = 0 /\ out = {} /\ result = "none"
  BY <1>1 DEF Inv, Untouched, Early, Results, Ending
<1>3. CASE ClassVerdict # "ok"
  <2>1. Ends(ClassVerdict) /\ row' = row
    BY <1>3 DEF ScreenClass
  <2>2. ClassVerdict \in {"EmptyPassword", "NotEncrypted", "Odf12Fatal", "UnsupportedPgp",
                          "TooManyRows", "OutputLimit"}
    BY <1>3 DEF ClassVerdict
  <2>3. block' \in Nat /\ Wrote'
    BY <1>1, <1>2 DEF Inv, Given, Wrote
  <2> QED BY <1>1, <1>2, <2>1, <2>2, <2>3, FailStep DEF Ending
<1>4. CASE ClassVerdict = "ok"
  <2>1. stage' = "rows" /\ result' = result /\ row' = (IF Wholesome THEN WholesomeRow ELSE 1)
    BY <1>4 DEF ScreenClass
  <2>2. call.mode # "plain"
    BY <1>4 DEF ClassVerdict
  <2> QED BY <1>1, <2>1, <2>2, EarlyStep
<1> QED BY <1>3, <1>4

\* One row of the screening loop.
LEMMA ScreenRowStep == ASSUME Inv, ScreenRow PROVE Inv'
<1> DEFINE v == RowVerdict(row)
           m == MemberOf(row)
<1>1. /\ stage = "rows" /\ UNCHANGED <<call, derived, out, verdict, changed, latch, failed>>
  BY DEF ScreenRow, Screening, Keep, written, outside
<1>2. derived = 0 /\ out = {} /\ result = "none" /\ index = 0 /\ row \in Screened /\ call \in Calls
  BY <1>1 DEF Inv, Untouched, Early, Results, Ending, At, Given
<1>3. v \in {"Size", "NoMember", "Shape", "ok"}
  BY DEF RowVerdict
<1>4. CASE v # "ok"
  <2>1. Ends(v) /\ UNCHANGED <<plans, superseded, row, candidate, block>>
    BY <1>4 DEF ScreenRow, Screening, planned, pass
  <2>2. index' = index
    BY <1>4, <2>1 DEF ScreenRow, Screening, Ends
  <2>3. block' \in Nat /\ Wrote'
    BY <1>1, <1>2, <2>1 DEF Inv, Given, Wrote
  <2> QED BY <1>1, <1>2, <1>3, <1>4, <2>1, <2>2, <2>3, FailStep DEF Ending
<1>5. CASE v = "ok"
  <2>1. /\ plans' = [plans EXCEPT ![m] = row] /\ superseded' = Aside(m) /\ result' = result
        /\ \/ row # Max(Screened) /\ row' = row + 1 /\ UNCHANGED <<stage, candidate, block, dirty>>
           \/ row = Max(Screened) /\ Wholesome /\ Try(row)
           \/ row = Max(Screened) /\ ~Wholesome /\ Aside(m) # <<>> /\ Try(Head(Aside(m)))
           \/ row = Max(Screened) /\ ~Wholesome /\ Aside(m) = <<>> /\ stage' = "members"
              /\ UNCHANGED <<row, candidate, block, dirty>>
    BY <1>5 DEF ScreenRow, Screening, pass
  <2>2. index' = IF stage' = "members" THEN 1 ELSE IF Wholesome THEN m ELSE index
    BY <1>5 DEF ScreenRow, Screening
  <2>3. HasMember(row) /\ m \in DOMAIN Members
    BY <1>2, <1>5, MemberFacts DEF RowVerdict, HasMember
  <2>4. /\ DOMAIN plans = DOMAIN Members
        /\ \A i \in DOMAIN Members : plans[i] # 0 =>
             plans[i] \in Screened /\ HasMember(plans[i]) /\ MemberOf(plans[i]) = i
        /\ superseded \in Seq(Screened) /\ \A k \in DOMAIN superseded : HasMember(superseded[k])
    BY DEF Inv, Fits
  <2>5. \A i \in DOMAIN Members : plans'[i] = IF i = m THEN row ELSE plans[i]
    BY <2>1, <2>3, <2>4
  \* The rows put aside stay, and the one a later row replaces joins them.
  <2>6. /\ Aside(m) \in Seq(Screened) /\ \A k \in DOMAIN Aside(m) : HasMember(Aside(m)[k])
        /\ \A k \in DOMAIN superseded : k \in DOMAIN Aside(m) /\ Aside(m)[k] = superseded[k]
        /\ plans[m] # 0 => Len(Aside(m)) \in DOMAIN Aside(m) /\ Aside(m)[Len(Aside(m))] = plans[m]
    <3>1. CASE plans[m] = 0
      BY <2>4, <3>1 DEF Aside
    <3>2. CASE plans[m] # 0
      <4>1. plans[m] \in Screened /\ HasMember(plans[m])
        BY <2>3, <2>4, <3>2
      <4>2. Aside(m) = Append(superseded, plans[m])
        BY <3>2 DEF Aside
      <4>3. Aside(m) \in Seq(Screened) /\ Len(Aside(m)) = Len(superseded) + 1
        BY <2>4, <4>1, <4>2
      <4>4. \A k \in DOMAIN superseded : k \in DOMAIN Aside(m) /\ Aside(m)[k] = superseded[k]
        BY <2>4, <4>1, <4>2
      <4>5. Len(Aside(m)) \in DOMAIN Aside(m) /\ Aside(m)[Len(Aside(m))] = plans[m]
        BY <2>4, <4>1, <4>2
      <4>6. \A k \in DOMAIN Aside(m) : k \in DOMAIN superseded \/ k = Len(Aside(m))
        BY <2>4, <4>1, <4>2
      <4> QED BY <2>4, <4>1, <4>3, <4>4, <4>5, <4>6
    <3> QED BY <3>1, <3>2
  <2>7. Wholesome => superseded' = <<>>
    BY <1>1, <2>1, <2>3 DEF Inv, Unplanned, Aside
  <2>8. Fits'
    <3>1. DOMAIN plans' = DOMAIN Members
      BY <2>1, <2>4
    <3>2. \A i \in DOMAIN Members : plans'[i] # 0 =>
             plans'[i] \in Screened /\ HasMember(plans'[i]) /\ MemberOf(plans'[i]) = i
      BY <1>2, <2>3, <2>4, <2>5
    <3> QED BY <1>1, <2>1, <2>6, <2>7, <3>1, <3>2, Static DEF Fits
  <2>9. row # 0 /\ row \in Nat /\ m # 0 /\ m \in Nat
    BY <1>2, <2>3, ScreenedFacts, RowFacts, MemberFacts
  \* Each row screened so far, this one among them, is kept.
  <2>10. \A r \in Screened : r < row \/ r = row => Kept(r)'
    <3> SUFFICES ASSUME NEW r \in Screened, r < row \/ r = row
                 PROVE  /\ HasMember(r) /\ plans'[MemberOf(r)] # 0
                        /\ \/ plans'[MemberOf(r)] = r
                           \/ \E k \in DOMAIN superseded' : superseded'[k] = r
                           \/ Opens(r)
      BY <1>1, Static DEF Kept
    <3>1. CASE r = row
      BY <2>3, <2>5, <2>9, <3>1
    <3>2. CASE r < row /\ r # row
      <4>1. Kept(r)
        BY <1>1, <3>2 DEF Inv, EachRow
      <4>2. HasMember(r) /\ plans[MemberOf(r)] # 0 /\ MemberOf(r) \in DOMAIN Members
        BY <1>2, <4>1, MemberFacts DEF Kept
      <4>3. plans'[MemberOf(r)] # 0
        BY <2>5, <2>9, <4>2
      <4>4. \/ plans[MemberOf(r)] = r
            \/ \E k \in DOMAIN superseded : superseded[k] = r
            \/ Opens(r)
        BY <4>1 DEF Kept
      <4>5. CASE plans[MemberOf(r)] = r
        <5>1. CASE MemberOf(r) = m
          BY <2>1, <2>6, <4>2, <4>3, <4>5, <5>1
        <5>2. CASE MemberOf(r) # m
          BY <2>5, <4>2, <4>3, <4>5, <5>2
        <5> QED BY <5>1, <5>2
      <4>6. CASE \E k \in DOMAIN superseded : superseded[k] = r
        BY <2>1, <2>6, <4>2, <4>3, <4>6
      <4> QED BY <4>2, <4>3, <4>4, <4>5, <4>6
    <3> QED BY <3>1, <3>2
  <2>11. stage' # "returning" /\ stage' # "returned" /\ stage' \in {"rows", "derive", "members"}
    BY <1>1, <2>1 DEF Try
  <2>12. EachRow'
    <3>1. ASSUME NEW r \in Screened PROVE AllScreened' \/ (stage' = "rows" /\ r < row') => r < row \/ r = row
      <4>1. r \in Nat /\ r <= Max(Screened) /\ row \in Nat
        BY <1>2, <2>9, ScreenedFacts, RowFacts
      <4>2. CASE row = Max(Screened)
        BY <4>1, <4>2
      <4>3. CASE row # Max(Screened)
        <5>1. stage' = "rows" /\ row' = row + 1
          BY <1>1, <2>1, <4>3
        <5>2. ~AllScreened'
          BY <1>2, <2>1, <5>1 DEF AllScreened, Reading
        <5> QED BY <4>1, <5>1, <5>2
      <4> QED BY <4>2, <4>3
    <3> QED BY <1>1, <2>10, <3>1, Static DEF EachRow
  <2>13. ~Wholesome => index' \in {0, 1}
    BY <1>2, <2>2
  <2>14. EachMember' /\ NoneLeft' /\ Untouched'
    <3>1. EachMember'
      BY <1>1, <1>2, <2>1, <2>13, MemberFacts, Static DEF EachMember
    <3> QED BY <1>1, <1>2, <2>1, <3>1 DEF NoneLeft, Untouched
  <2>15. Wrote' /\ Authentic' /\ Results' /\ Answer' /\ Changes'
    BY <1>1, <1>2, <2>1, <2>11, Static
       DEF Inv, Wrote, Authentic, Results, Answer, Ending, NeedsNoKey, Changes
  <2>16. CASE row # Max(Screened) /\ row' = row + 1 /\ UNCHANGED <<stage, candidate, block, dirty>>
    <3>1. ~Wholesome
      BY <1>2, <2>16, ScreenedFacts
    <3>2. row + 1 \in Screened
      BY <1>2, <2>16, <3>1, ScreenedFacts, RowFacts
    <3>3. At' /\ Reads' /\ Blames' /\ Rejects' /\ Opened' /\ Unplanned'
      BY <1>1, <1>2, <2>2, <2>16, <3>1, <3>2, Static
         DEF At, Reads, Blames, Rejects, Opened, Reading, Unplanned
    <3>4. Given'
      BY <1>1, <1>2, <2>2, <2>16, <3>1 DEF Inv, Given
    <3> QED BY <2>8, <2>12, <2>14, <2>15, <3>3, <3>4 DEF Inv
  <2>17. CASE Wholesome /\ Try(row)
    <3>1. /\ stage' = "derive" /\ row' = row /\ block' \in Nat /\ candidate' \in Candidates
          /\ Reads' /\ Blames' /\ Rejects' /\ Opened'
      BY <1>1, <1>2, <2>17, Trying
    <3>2. plans'[m] = row /\ index' = m
      BY <2>2, <2>3, <2>5, <2>17, <3>1
    <3>3. At' /\ Unplanned'
      BY <1>1, <1>2, <2>3, <2>7, <2>17, <3>1, <3>2, Static DEF At, Unplanned, Reading, Current
    <3>4. Given'
      BY <1>1, <1>2, <2>9, <3>1, <3>2 DEF Given, AllStages, Reading
    <3> QED BY <2>8, <2>12, <2>14, <2>15, <3>1, <3>3, <3>4 DEF Inv
  <2>18. CASE ~Wholesome /\ Aside(m) # <<>> /\ Try(Head(Aside(m)))
    <3>1. Head(Aside(m)) = Aside(m)[1] /\ 1 \in DOMAIN Aside(m) /\ Aside(m)[1] \in Screened
      BY <2>6, <2>18
    <3>2. /\ stage' = "derive" /\ row' = Head(Aside(m)) /\ block' \in Nat /\ candidate' \in Candidates
          /\ Reads' /\ Blames' /\ Rejects' /\ Opened'
      BY <1>1, <1>2, <2>18, <3>1, Trying
    <3>3. row' \in Screened /\ HasMember(row') /\ superseded' # <<>> /\ row' = Head(superseded')
      BY <2>1, <2>6, <2>18, <3>1, <3>2
    <3>4. index' = 0
      BY <1>2, <2>2, <2>18, <3>2
    <3>5. At' /\ Unplanned'
      BY <1>1, <3>2, <3>3, <3>4, Static DEF At, Unplanned, Reading
    <3>6. Given'
      BY <1>1, <1>2, <3>2, <3>4 DEF Given, AllStages, Reading
    <3> QED BY <2>8, <2>12, <2>14, <2>15, <3>2, <3>5, <3>6 DEF Inv
  <2>19. CASE ~Wholesome /\ Aside(m) = <<>> /\ stage' = "members"
              /\ UNCHANGED <<row, candidate, block, dirty>>
    <3>1. index' = 1
      BY <2>2, <2>19
    <3>2. At' /\ Reads' /\ Blames' /\ Rejects' /\ Opened' /\ Unplanned'
      BY <1>1, <2>1, <2>19, <3>1, Static DEF At, Reads, Blames, Rejects, Opened, Reading, Unplanned
    <3>3. Given'
      BY <1>1, <2>19, <3>1 DEF Inv, Given, AllStages
    <3> QED BY <2>8, <2>12, <2>14, <2>15, <3>2, <3>3 DEF Inv
  <2> QED BY <2>1, <2>16, <2>17, <2>18, <2>19
<1> QED BY <1>4, <1>5

-----------------------------------------------------------------------------
\* Steps that stay with the row keep what is known of it.
LEMMA SameRow ==
  ASSUME Inv, stage \in Reading, stage' \in Reading,
         UNCHANGED <<call, row, plans, superseded, index>>,
         superseded # <<>> => stage' \in {"derive", "verify"}
  PROVE  At' /\ Current' = Current /\ LastBlock' = LastBlock /\ Cipher' = Cipher
<1>1. Current' = Current /\ LastBlock' = LastBlock /\ Cipher' = Cipher
  BY Static DEF Current, LastBlock, Cipher
<1> QED BY <1>1, Static DEF Inv, At, Reading

LEMMA SameCipher ==
  ASSUME Inv, stage \in {"verify", "release", "drain"}, call' = call, Cipher' = Cipher
  PROVE  Wholesome' => Cipher' = "gcm"
BY Static DEF Inv, Reads

LEMMA SameOut ==
  ASSUME Inv, UNCHANGED <<call, plans>>
  PROVE  /\ \A i : Planned(i)' = Planned(i)
         /\ out' = out => Wrote'
<1>1. \A i : Planned(i)' = Planned(i)
  BY Static DEF Planned
<1> QED BY <1>1, Static DEF Inv, Wrote

\* Outside a release pass nothing written is in doubt.
LEMMA Untainted ==
  ASSUME Inv, stage \notin {"release", "drain"} \cup Ending
  PROVE  \A p \in out : Planned(p.member) /\ RowOf(plans[p.member]).cipher = "gcm" => p.sound
BY DEF Inv, Authentic, Results

LEMMA SameAuthentic ==
  ASSUME Inv, stage \notin {"release", "drain"} \cup Ending, UNCHANGED <<call, plans, out>>
  PROVE  Authentic'
<1>1. \A i : Planned(i)' = Planned(i)
  BY SameOut
<1> QED BY <1>1, Untainted, Static DEF Authentic

\* What a read makes of the block it finds, in any pass.
LEMMA DirtyBlames ==
  ASSUME Inv, stage \in Reading, block \in 1..LastBlock
  PROVE  \A b \in DirtyNow : b \in 1..LastBlock /\ (changed # {} \/ Blocks(Current)[b].damage # "none")
<1>1. changed = {} => Damage(Current, block) = Blocks(Current)[block].damage
  BY Found DEF Inv
<1> QED BY <1>1 DEF Inv, Blames, DirtyNow, Sound

\* The check of the verify pass holds, so the row opens.
LEMMA HeldOpens ==
  ASSUME Inv, stage = "verify", Cipher = "gcm" => block = LastBlock, KeyIsRight, Held
  PROVE  Opens(row)
<1>1. Rows[row].kdf
  BY DEF Inv, Reads
<1>2. Rows[row].key # None
  BY CallsAssumption DEF Inv, Given, KeyIsRight
<1>3. DOMAIN Blocks(Current) = 1..LastBlock /\ LastBlock \in Nat \ {0}
  BY Working DEF Reading
<1>4. CASE Cipher = "gcm"
  <2>1. DirtyNow = {}
    BY <1>4 DEF Held
  <2>2. dirty = {} /\ Sound(Current, block)
    BY <2>1 DEF DirtyNow
  <2>3. Blocks(Current)[block].damage = "none"
    BY <2>2, Found DEF Inv
  <2>4. \A b \in 1..(block - 1) : Blocks(Current)[b].damage = "none"
    BY <1>4, <2>2 DEF Inv, Reads
  <2>5. \A b \in 1..LastBlock : b = block \/ b \in 1..(block - 1)
    BY <1>3, <1>4
  <2>6. \A b \in DOMAIN Blocks(Current) : Blocks(Current)[b].damage = "none"
    BY <1>3, <2>3, <2>4, <2>5
  <2> QED BY <1>1, <1>2, <1>4, <2>6 DEF Opens, Current, Cipher
<1>5. CASE Cipher # "gcm"
  <2>1. Damage(Current, 1) # "window"
    BY <1>5 DEF Held
  <2>2. Blocks(Current)[1].damage # "window"
    BY <2>1, Found DEF Inv
  <2> QED BY <1>1, <1>2, <1>5, <2>2 DEF Opens, Current, Cipher
<1> QED BY <1>4, <1>5

\* A check that fails of an input that has not changed is the row's own.
LEMMA Refused ==
  ASSUME Inv, stage = "verify", changed = {}, Cipher = "gcm" => block = LastBlock,
         ~Held \/ (Cipher = "cbc" /\ LastBlock = 1 /\ DirtyNow # {})
  PROVE  Refusable(row)
<1>1. /\ DOMAIN Blocks(Current) = 1..LastBlock /\ LastBlock \in Nat \ {0}
      /\ block \in 1..LastBlock
  BY Working DEF Inv, Reads, Reading
<1>2. \A b \in DirtyNow : b \in 1..LastBlock /\ Blocks(Current)[b].damage # "none"
  BY <1>1, DirtyBlames DEF Reading
<1>3. CASE Cipher = "cbc" /\ LastBlock = 1 /\ DirtyNow # {}
  <2>1. Blocks(Current)[LastBlock].damage # "none"
    BY <1>2, <1>3
  <2> QED BY <1>3, <2>1 DEF Refusable, Last, Current, LastBlock, Cipher
<1>4. CASE ~Held /\ Cipher = "gcm"
  <2>1. PICK b \in DirtyNow : TRUE
    BY <1>4 DEF Held
  <2>2. b \in DOMAIN Blocks(Current) /\ Blocks(Current)[b].damage # "none"
    BY <1>1, <1>2
  <2>3. ~Opens(row)
    BY <1>4, <2>2 DEF Opens, Current, Cipher
  <2> QED BY <2>3 DEF Refusable
<1>5. CASE ~Held /\ Cipher # "gcm"
  <2>1. Damage(Current, 1) = "window"
    BY <1>5 DEF Held
  <2>2. Blocks(Current)[1].damage = "window"
    BY <2>1, Found DEF Inv
  <2>3. ~Opens(row)
    BY <1>5, <2>2 DEF Opens, Current, Cipher
  <2> QED BY <2>3 DEF Refusable
<1> QED BY <1>3, <1>4, <1>5

\* derive_key.
LEMMA DeriveStep == ASSUME Inv, Derive PROVE Inv'
<1>1. /\ stage = "derive" /\ stage \in Reading
      /\ UNCHANGED <<call, row, plans, superseded, index, candidate, dirty, out, verdict, changed>>
  BY DEF Derive, Keep, planned, written, outside, Reading
<1>2. result = "none" /\ dirty = {} /\ block \in Nat /\ candidate \in Candidates /\ index \in Nat
  BY <1>1 DEF Inv, Results, Ending, Reads, Given
<1>3. Wrote' /\ \A i : Planned(i)' = Planned(i)
  BY <1>1, SameOut
<1>4. ASSUME NEW e \in {"Kdf", "Internal"}, Ends(e), block' = block PROVE Inv'
  BY <1>1, <1>2, <1>3, <1>4, FailStep DEF Ending, NeedsNoKey
<1>5. CASE /\ Rows[row].kdf /\ stage' = "verify" /\ block' = 1 /\ result' = result
           /\ Wholesome => Cipher = "gcm"
  <2>1. At' /\ Current' = Current /\ LastBlock' = LastBlock /\ Cipher' = Cipher
    BY <1>1, <1>5, SameRow DEF Reading
  <2>2. LastBlock \in Nat \ {0}
    BY <1>1, Working
  <2>3. Reads'
    BY <1>1, <1>2, <1>5, <2>1, <2>2, Static DEF Reads
  <2>4. Blames' /\ Rejects' /\ Opened'
    BY <1>1, <1>2, <1>5, Static DEF Inv, Blames, Rejects, Opened, Reading
  <2>5. Authentic'
    BY <1>1, SameAuthentic DEF Ending
  <2> QED BY <1>1, <1>2, <1>3, <1>5, <2>1, <2>3, <2>4, <2>5, MoveStep DEF Reading
<1> QED BY <1>4, <1>5 DEF Derive, Cipher

\* gcm_verify reads one more block.
LEMMA VerifyBlockStep == ASSUME Inv, VerifyBlock PROVE Inv'
<1>1. /\ stage = "verify" /\ stage \in Reading /\ stage' = "verify" /\ Cipher = "gcm"
      /\ block < LastBlock /\ block' = block + 1 /\ dirty' = DirtyNow
      /\ UNCHANGED <<call, row, plans, superseded, index, candidate, out, result, verdict, changed>>
  BY DEF VerifyBlock, Keep, planned, written, outside, Reading
<1>2. /\ LastBlock \in Nat \ {0} /\ block \in 1..LastBlock /\ Rows[row].kdf
      /\ candidate \in Candidates /\ index \in Nat
  BY <1>1, Working DEF Inv, Reads, Given
<1>3. Wrote' /\ \A i : Planned(i)' = Planned(i)
  BY <1>1, SameOut
<1>4. At' /\ Current' = Current /\ LastBlock' = LastBlock /\ Cipher' = Cipher
  BY <1>1, SameRow DEF Reading
<1>5. Reads'
  <2>1. block \in DirtyNow \/ Blocks(Current)[block].damage = "none"
    BY Found DEF DirtyNow, Inv
  <2>2. \A b \in 1..(block - 1) : b \in DirtyNow \/ Blocks(Current)[b].damage = "none"
    BY <1>1 DEF Inv, Reads, DirtyNow
  <2>3. \A b \in 1..(block' - 1) : b = block \/ b \in 1..(block - 1)
    BY <1>1, <1>2
  <2> QED BY <1>1, <1>2, <1>4, <2>1, <2>2, <2>3, Static DEF Reads
<1>6. Blames'
  BY <1>1, <1>2, <1>4, DirtyBlames, Static DEF Blames
<1>7. Rejects' /\ Opened'
  BY <1>1, Static DEF Inv, Rejects, Opened, Reading
<1>8. Authentic'
  BY <1>1, SameAuthentic DEF Ending
<1>9. block' \in Nat
  BY <1>1, <1>2
<1> QED BY <1>1, <1>2, <1>3, <1>4, <1>5, <1>6, <1>7, <1>8, <1>9, MoveStep DEF Reading

\* find_key after a refusal: the next candidate, or the end of the ladder.
LEMMA RejectedStep ==
  ASSUME Inv, stage = "verify", Rejected,
         UNCHANGED <<call, plans, derived, out, verdict, changed, latch, failed>>,
         index' = IF stage' = "members" THEN 1 ELSE index,
         Cipher = "gcm" => block = LastBlock,
         KeyIsRight => ~Held \/ (Cipher = "cbc" /\ LastBlock = 1 /\ DirtyNow # {})
  PROVE  Inv'
<1>1. /\ row \in DOMAIN Rows /\ stage \in Reading /\ candidate \in Candidates /\ index \in Nat
      /\ block \in Nat
  BY Working DEF Reading, Inv, Given
<1>2. /\ Rows[row].key \in Candidates \cup {None} /\ None \notin Candidates
      /\ Rows[row].key \in {1, 2, 3} => Rows[row].sha1
  BY <1>1, RowFacts, CallsAssumption DEF Inv, Given
<1>3. Wrote' /\ \A i : Planned(i)' = Planned(i)
  BY SameOut
\* Whatever was the right key has been held against by now.
<1>4. changed = {} /\ Rows[row].key # None /\ (Rows[row].key < candidate \/ Rows[row].key = candidate)
        => Refusable(row)
  <2>1. changed = {} /\ KeyIsRight => Refusable(row)
    BY Refused
  <2>2. changed = {} /\ Rows[row].key # None /\ Rows[row].key < candidate => Refusable(row)
    BY <1>1 DEF Inv, Rejects
  <2> QED BY <2>1, <2>2 DEF KeyIsRight
<1>5. CASE Rows[row].sha1 /\ candidate < 3
  <2>1. /\ stage' = "derive" /\ candidate' = candidate + 1 /\ block' = 0 /\ dirty' = {}
        /\ UNCHANGED <<row, superseded, result>>
    BY <1>5 DEF Rejected
  <2>2. candidate' \in Candidates /\ index' = index
    BY <1>1, <1>5, <2>1 DEF Candidates
  <2>3. At' /\ Current' = Current /\ LastBlock' = LastBlock /\ Cipher' = Cipher
    BY <1>1, <2>1, <2>2, SameRow DEF Reading
  <2>4. Reads' /\ Blames' /\ Opened'
    BY <2>1 DEF Reads, Blames, Opened
  <2>5. Rejects'
    <3>1. Rows[row].key # None /\ Rows[row].key < candidate' =>
            Rows[row].key < candidate \/ Rows[row].key = candidate
      BY <1>1, <1>2, <2>1 DEF Candidates
    <3> QED BY <1>4, <2>1, <3>1, Static DEF Rejects
  <2>6. Authentic'
    BY <1>1, SameAuthentic DEF Ending
  <2> QED BY <1>1, <1>3, <2>1, <2>2, <2>3, <2>4, <2>5, <2>6, MoveStep DEF Reading
<1>6. CASE ~(Rows[row].sha1 /\ candidate < 3)
  <2>1. Ends("WrongPassword") /\ UNCHANGED <<row, superseded, candidate, block>>
    BY <1>6 DEF Rejected, pass
  <2>2. index' = index
    BY <2>1 DEF Ends
  <2>3. changed = {} => Refusable(row)
    <3>1. CASE Rows[row].key = None
      BY <3>1 DEF Refusable, Opens
    <3>2. CASE Rows[row].key # None
      <4>1. Rows[row].key < candidate \/ Rows[row].key = candidate \/ candidate < Rows[row].key
        BY <1>1, <1>2, <3>2 DEF Candidates
      <4>2. ASSUME candidate < Rows[row].key PROVE FALSE
        <5>1. Rows[row].key \in {1, 2, 3} /\ candidate < 3
          BY <1>1, <1>2, <3>2, <4>2 DEF Candidates
        <5> QED BY <1>2, <1>6, <5>1
      <4> QED BY <1>4, <3>2, <4>1, <4>2
    <3> QED BY <3>1, <3>2
  <2> QED BY <1>1, <1>3, <2>1, <2>2, <2>3, FailStep DEF Ending, NeedsNoKey
<1> QED BY <1>5, <1>6

\* The key opens the row, which is released or, superseded, done with.
LEMMA AcceptedStep ==
  ASSUME Inv, stage = "verify", Accepted, Opens(row),
         UNCHANGED <<call, plans, derived, out, verdict, changed, latch, failed>>,
         index' = IF stage' = "members" THEN 1 ELSE index
  PROVE  Inv'
<1>1. /\ row \in DOMAIN Rows /\ stage \in Reading /\ candidate \in Candidates /\ index \in Nat
      /\ LastBlock \in Nat \ {0} /\ block \in Nat /\ call \in Calls
      /\ Wholesome => superseded = <<>>
  BY Working DEF Reading, Inv, Given
<1>2. result' = result /\ result = "none"
  BY DEF Accepted, Inv, Results, Ending
<1>3. Wrote' /\ \A i : Planned(i)' = Planned(i)
  BY SameOut
<1>4. Authentic'
  BY <1>1, SameAuthentic DEF Ending
<1>5. CASE superseded = <<>>
  <2>1. /\ stage' = "release" /\ block' = 1 /\ dirty' = {} /\ UNCHANGED <<row, candidate, superseded>>
    BY <1>5 DEF Accepted
  <2>2. index' = index
    BY <2>1
  <2>3. At' /\ Current' = Current /\ LastBlock' = LastBlock /\ Cipher' = Cipher
    BY <1>1, <1>5, <2>1, <2>2, SameRow DEF Reading
  <2>4. Reads' /\ Blames' /\ Opened'
    BY <1>1, <2>1, <2>3, SameCipher, Static DEF Reads, Blames, Opened
  <2>5. Rejects'
    BY <1>1, <2>1, Static DEF Inv, Rejects
  <2> QED BY <1>1, <1>2, <1>3, <1>4, <2>1, <2>2, <2>3, <2>4, <2>5, MoveStep DEF Reading
<1>6. CASE superseded # <<>>
  <2>1. superseded' = Tail(superseded) /\ row = Head(superseded) /\ index = 0 /\ ~Wholesome
    BY <1>1, <1>6 DEF Accepted, Inv, At
  <2>2. superseded \in Seq(Screened) /\ \A k \in DOMAIN superseded : HasMember(superseded[k])
    BY DEF Inv, Fits
  <2>3. /\ superseded' \in Seq(Screened)
        /\ Len(superseded') = Len(superseded) - 1
        /\ \A k \in DOMAIN superseded' : k + 1 \in DOMAIN superseded /\ superseded'[k] = superseded[k + 1]
    BY <1>6, <2>1, <2>2
  <2>4. \A k \in DOMAIN superseded :
          superseded[k] = row \/ \E l \in DOMAIN superseded' : superseded'[l] = superseded[k]
    <3>1. superseded[1] = row
      BY <1>6, <2>1, <2>2
    <3>2. ASSUME NEW k \in DOMAIN superseded, k # 1
          PROVE  k - 1 \in DOMAIN superseded' /\ superseded'[k - 1] = superseded[k]
      BY <1>6, <2>1, <2>2, <3>2
    <3> QED BY <3>1, <3>2
  <2>5. Fits'
    <3>1. \A k \in DOMAIN superseded' : HasMember(superseded'[k])
      BY <2>2, <2>3
    <3> QED BY <2>1, <2>3, <3>1, Static DEF Inv, Fits
  <2>6. AllScreened
    BY <1>1 DEF AllScreened
  <2>7. \A r \in Screened : Kept(r)'
    <3> SUFFICES ASSUME NEW r \in Screened PROVE Kept(r)'
      OBVIOUS
    <3>1. Kept(r)
      BY <2>6 DEF Inv, EachRow
    <3> QED BY <2>4, <3>1, Static DEF Kept
  <2>8. EachRow'
    BY <2>7, Static DEF EachRow
  <2>9. index' \in {0, 1}
    BY <2>1
  <2>10. EachMember' /\ NoneLeft'
    BY <1>1, <1>2, <2>9, MemberFacts, Static DEF EachMember, NoneLeft
  <2>11. CASE Len(superseded) > 1 /\ Try(superseded[2])
    <3>1. /\ superseded' # <<>> /\ superseded[2] = Head(superseded') /\ superseded[2] \in Screened
          /\ HasMember(superseded[2])
      <4>1. 2 \in DOMAIN superseded /\ superseded'[1] = superseded[2] /\ Len(superseded') >= 1
        BY <2>1, <2>2, <2>11
      <4>2. superseded' # <<>> /\ Head(superseded') = superseded'[1]
        BY <2>3, <4>1
      <4>3. superseded[2] \in Screened
        BY <2>2, <4>1
      <4> QED BY <2>2, <4>1, <4>2, <4>3
    <3>2. /\ stage' = "derive" /\ row' = superseded[2] /\ block' \in Nat /\ candidate' \in Candidates
          /\ Reads' /\ Blames' /\ Rejects' /\ Opened'
      BY <1>1, <2>11, <3>1, Trying
    <3>3. At' /\ Unplanned' /\ Untouched'
      BY <2>1, <3>1, <3>2, Static DEF At, Unplanned, Untouched, Reading, Early
    <3>4. Given' /\ Changes' /\ Results' /\ Answer'
      BY <1>1, <1>2, <2>9, <3>2, Static
         DEF Inv, Given, Changes, Results, Answer, AllStages, Reading, Ending, NeedsNoKey
    <3> QED BY <1>3, <1>4, <2>5, <2>8, <2>10, <3>2, <3>3, <3>4 DEF Inv
  <2>12. CASE ~(Len(superseded) > 1) /\ stage' = "members" /\ UNCHANGED <<row, pass>>
    <3>1. superseded' = <<>> /\ index' = 1
      BY <1>6, <2>1, <2>2, <2>3, <2>12
    <3>2. UNCHANGED <<row, candidate, block, dirty>>
      BY <2>12 DEF pass
    <3>3. At' /\ Reads' /\ Blames' /\ Rejects' /\ Opened' /\ Unplanned' /\ Untouched'
      BY <2>1, <2>12, <3>1, Static
         DEF At, Reads, Blames, Rejects, Opened, Unplanned, Untouched, Reading, Early
    <3>4. Given' /\ Changes' /\ Results' /\ Answer'
      BY <1>1, <1>2, <2>12, <3>1, <3>2, Static
         DEF Inv, Given, Changes, Results, Answer, AllStages, Reading, Ending, NeedsNoKey
    <3> QED BY <1>3, <1>4, <2>5, <2>8, <2>10, <3>3, <3>4 DEF Inv
  <2> QED BY <1>6, <2>11, <2>12 DEF Accepted
<1> QED BY <1>5, <1>6

\* The end of the verify pass.
LEMMA DecideStep == ASSUME Inv, Decide PROVE Inv'
<1>1. /\ stage = "verify" /\ stage \in Reading
      /\ Cipher = "gcm" => block = LastBlock
      /\ index' = IF stage' = "members" THEN 1 ELSE index
      /\ UNCHANGED <<call, plans, derived, out, verdict, changed, latch, failed>>
  BY DEF Decide, Keep, outside, Reading
<1>2. \/ Ends("Zip") /\ UNCHANGED <<row, superseded, pass>>
      \/ KeyIsRight /\ Held /\ Accepted
      \/ ~(KeyIsRight /\ Held) /\ Rejected
      \/ LastBlock = 1 /\ Cipher = "cbc" /\ DirtyNow # {} /\ Rejected
  <2>1. CASE Cipher = "gcm"
    BY <2>1, Zenon DEF Decide
  <2>2. CASE Cipher # "gcm"
    BY <2>2, Zenon DEF Decide
  <2> QED BY <2>1, <2>2
<1>3. CASE Ends("Zip") /\ UNCHANGED <<row, superseded, pass>>
  <2>1. UNCHANGED <<row, superseded, candidate, block>> /\ index' = index
    BY <1>1, <1>3 DEF pass, Ends
  <2>2. Wrote' /\ block' \in Nat
    BY <1>1, <2>1, SameOut DEF Inv, Given
  <2> QED BY <1>1, <1>3, <2>1, <2>2, FailStep DEF Ending, NeedsNoKey, Reading
<1>4. CASE KeyIsRight /\ Held /\ Accepted
  <2>1. Opens(row)
    BY <1>1, <1>4, HeldOpens, Zenon
  <2> QED BY <1>1, <1>4, <2>1, AcceptedStep, Zenon
<1>5. CASE ~(KeyIsRight /\ Held) /\ Rejected
  BY <1>1, <1>5, RejectedStep, Zenon
<1>6. CASE LastBlock = 1 /\ Cipher = "cbc" /\ DirtyNow # {} /\ Rejected
  BY <1>1, <1>6, RejectedStep, Zenon
<1> QED BY <1>2, <1>3, <1>4, <1>5, <1>6, Zenon

-----------------------------------------------------------------------------
\* What is known of a row whose member is being released: it opens, so whatever
\* AES-GCM finds damaged has changed, and so has a window found damaged.
LEMMA Releasing ==
  ASSUME Inv, stage \in {"release", "drain"}
  PROVE  /\ stage \in Reading /\ row \in DOMAIN Rows /\ Current \in DOMAIN Members
         /\ LastBlock \in Nat \ {0} /\ superseded = <<>> /\ plans[Current] = row
         /\ index = Current /\ Opens(row) /\ result = "none" /\ call \in Calls
         /\ Cipher = "gcm" => \A b \in 1..LastBlock : Blocks(Current)[b].damage = "none"
         /\ Cipher # "gcm" => Blocks(Current)[1].damage # "window"
<1>1. stage \in Reading /\ Opens(row) /\ superseded = <<>> /\ call \in Calls
  BY DEF Inv, Opened, At, Reading, Given
<1>2. result = "none"
  BY DEF Inv, Results, Ending
<1>3. DOMAIN Blocks(Current) = 1..LastBlock
  BY <1>1, Working
<1>4. /\ Cipher = "gcm" => \A b \in 1..LastBlock : Blocks(Current)[b].damage = "none"
      /\ Cipher # "gcm" => Blocks(Current)[1].damage # "window"
  BY <1>1, <1>3 DEF Opens, Current, Cipher
<1> QED BY <1>1, <1>2, <1>4, Working

\* What reading to the end may answer stands, for the blocks bad read so far.
LEMMA EndBlames ==
  ASSUME Inv, stage \in {"release", "drain"}, NEW off, NEW bad,
         \A b \in bad : b \in 1..LastBlock /\ (changed # {} \/ Blocks(Current)[b].damage # "none"),
         NEW e \in AtEnd(bad, off)
  PROVE  /\ e \in {"ok", "Io", "Zip", "WrongPassword"}
         /\ e = "Io" => changed # {}
         /\ e = "WrongPassword" /\ changed = {} => Refusable(row)
         /\ e = "ok" /\ Cipher = "gcm" => bad = {}
<1>1. e \in {"ok", "Io", "Zip", "WrongPassword"}
  BY DEF AtEnd
<1>2. ASSUME e = "Io" PROVE changed # {}
  <2>1. Cipher = "gcm" /\ bad # {}
    BY <1>2 DEF AtEnd
  <2> QED BY <2>1, Releasing
<1>3. ASSUME e = "WrongPassword", changed = {} PROVE Refusable(row)
  <2>1. Cipher = "cbc" /\ LastBlock \in bad
    BY <1>3 DEF AtEnd
  <2>2. Blocks(Current)[LastBlock].damage # "none"
    BY <1>3, <2>1
  <2> QED BY <2>1, <2>2 DEF Refusable, Last, Current, LastBlock, Cipher
<1>4. ASSUME e = "ok", Cipher = "gcm" PROVE bad = {}
  BY <1>4 DEF AtEnd
<1> QED BY <1>1, <1>2, <1>3, <1>4

\* The next block of the release pass.
LEMMA ReleaseBlockStep == ASSUME Inv, ReleaseBlock PROVE Inv'
<1> DEFINE sum  == inflated + Blocks(Current)[block].units
           gate == Cipher # "gcm" /\ block = 1 /\ Damage(Current, 1) = "window"
<1>1. /\ stage = "release" /\ dirty' = DirtyNow
      /\ UNCHANGED <<call, row, plans, superseded, index, candidate, derived, verdict, changed,
                     latch, failed>>
  BY DEF ReleaseBlock, Keep, planned, outside
<1>2. /\ stage \in Reading /\ row \in DOMAIN Rows /\ Current \in DOMAIN Members
      /\ LastBlock \in Nat \ {0} /\ plans[Current] = row /\ superseded = <<>> /\ Opens(row)
      /\ result = "none" /\ block \in 1..LastBlock /\ block \in Nat
      /\ candidate \in Candidates /\ index \in Nat
  BY <1>1, Releasing DEF Inv, Reads, Given
<1>3. \A b \in DirtyNow : b \in 1..LastBlock /\ (changed # {} \/ Blocks(Current)[b].damage # "none")
  BY <1>2, DirtyBlames
<1>4. \A i : Planned(i)' = Planned(i)
  BY <1>1, SameOut
<1>5. ASSUME out' = out \/ out' = out \cup {Piece(Current, block)}
      PROVE  Wrote'
  <2>1. Piece(Current, block).member = Current
    BY DEF Piece
  <2>2. \A p \in out' : p \in out \/ p = Piece(Current, block)
    BY <1>5
  <2>3. \A p \in out' : p.member \in DOMAIN Members /\ (Planned(p.member) => Opens(plans[p.member]))
    BY <1>2, <2>1, <2>2 DEF Inv, Wrote
  <2> QED BY <1>1, <1>4, <2>3, Static DEF Wrote
<1>6. CASE gate
  <2>1. (Ends("WrongPassword") \/ Ends("Zip")) /\ UNCHANGED <<block, out>>
    BY <1>6 DEF ReleaseBlock
  <2>2. Blocks(Current)[1].damage # "window"
    BY <1>1, <1>6, Releasing
  <2>3. changed # {}
    BY <1>6, <2>2, Found DEF Inv
  <2> QED BY <1>1, <1>2, <1>5, <2>1, <2>3, FailStep DEF Ending, NeedsNoKey
<1>7. CASE ~gate
  <2>1. PICK e \in {"ok"} \cup (IF block = LastBlock THEN AtEnd(DirtyNow, StaleNow) ELSE {}) :
          IF e # "ok" THEN Ends(e) /\ UNCHANGED <<block, inflated, out>>
          ELSE \E v \in Inflates(sum) \cup (IF Sound(Current, block) THEN {} ELSE {"Inflate"}) :
                 /\ out' = IF v = "ok" \/ ~Wholesome THEN out \cup {Piece(Current, block)} ELSE out
                 /\ IF v # "ok" THEN Ends(v) /\ UNCHANGED block
                    ELSE /\ block' = block + 1 /\ UNCHANGED result
                         /\ stage' = IF Blocks(Current)[block].mark THEN "drain" ELSE "release"
    BY <1>7, Zenon DEF ReleaseBlock
  <2>2. CASE e # "ok"
    <3>1. e \in AtEnd(DirtyNow, StaleNow)
      BY <2>1, <2>2
    <3>2. /\ e \in {"ok", "Io", "Zip", "WrongPassword"}
          /\ e = "Io" => changed # {}
          /\ e = "WrongPassword" /\ changed = {} => Refusable(row)
      BY <1>1, <1>3, <3>1, EndBlames
    <3>3. Ends(e) /\ UNCHANGED <<block, out>>
      BY <2>1, <2>2
    <3> QED BY <1>1, <1>2, <1>5, <2>2, <3>2, <3>3, FailStep DEF Ending, NeedsNoKey
  <2>3. CASE e = "ok"
    <3>1. PICK v \in Inflates(sum) \cup (IF Sound(Current, block) THEN {} ELSE {"Inflate"}) :
            /\ out' = IF v = "ok" \/ ~Wholesome THEN out \cup {Piece(Current, block)} ELSE out
            /\ IF v # "ok" THEN Ends(v) /\ UNCHANGED block
               ELSE /\ block' = block + 1 /\ UNCHANGED result
                    /\ stage' = IF Blocks(Current)[block].mark THEN "drain" ELSE "release"
      BY <2>1, <2>3
    <3>2. v \in {"ok", "OutputLimit", "Inflate"}
      BY DEF Inflates
    <3>3. Wrote'
      BY <1>5, <3>1
    <3>4. CASE v # "ok"
      BY <1>1, <1>2, <3>1, <3>2, <3>3, <3>4, FailStep DEF Ending, NeedsNoKey
    <3>5. CASE v = "ok"
      <4>1. /\ block' = block + 1 /\ result' = result /\ out' = out \cup {Piece(Current, block)}
            /\ stage' = IF Blocks(Current)[block].mark THEN "drain" ELSE "release"
        BY <3>1, <3>5
      <4>2. stage' = "release" => block # LastBlock
        BY <3>5, <4>1 DEF Inflates
      <4>3. At' /\ Current' = Current /\ LastBlock' = LastBlock /\ Cipher' = Cipher
        BY <1>1, <1>2, <4>1, SameRow DEF Reading
      <4>4. Reads'
        BY <1>1, <1>2, <4>1, <4>2, <4>3, SameCipher DEF Reads
      <4>5. Blames'
        BY <1>1, <1>3, <4>3, Static DEF Blames
      <4>6. Rejects' /\ Opened'
        BY <1>1, <1>2, <4>1, Static DEF Inv, Rejects, Opened, Reading
      <4>7. Authentic'
        <5> SUFFICES ASSUME NEW p \in out', Planned(p.member),
                            RowOf(plans[p.member]).cipher = "gcm", ~p.sound
                     PROVE  Cipher = "gcm" /\ DirtyNow # {}
          BY <1>1, <1>4, <4>1, <4>3, Static DEF Authentic
        <5>1. CASE p \in out
          <6>1. Cipher = "gcm" /\ dirty # {}
            BY <1>1, <1>2, <5>1 DEF Inv, Authentic
          <6> QED BY <6>1 DEF DirtyNow
        <5>2. CASE p = Piece(Current, block)
          <6>1. p.member = Current /\ p.sound = Sound(Current, block)
            BY <5>2 DEF Piece
          <6>2. RowOf(row).cipher = "gcm" /\ ~Sound(Current, block)
            BY <1>2, <6>1
          <6> QED BY <6>2 DEF RowOf, Cipher, DirtyNow
        <5> QED BY <4>1, <5>1, <5>2
      <4>8. block' \in Nat
        BY <1>2, <4>1
      <4> QED BY <1>1, <1>2, <3>3, <4>1, <4>3, <4>4, <4>5, <4>6, <4>7, <4>8, MoveStep DEF Reading
    <3> QED BY <3>4, <3>5
  <2> QED BY <2>2, <2>3
<1> QED BY <1>6, <1>7

\* Past the end marker the member is read on.
LEMMA DrainBlockStep == ASSUME Inv, DrainBlock PROVE Inv'
<1>1. /\ stage = "drain" /\ stage \in Reading /\ stage' = "drain" /\ block <= LastBlock
      /\ block' = block + 1 /\ dirty' = DirtyNow
      /\ UNCHANGED <<call, row, plans, superseded, index, candidate, out, result, verdict, changed>>
  BY DEF DrainBlock, Keep, planned, written, outside, Reading
<1>2. /\ LastBlock \in Nat \ {0} /\ block \in 1..LastBlock /\ superseded = <<>> /\ Opens(row)
      /\ candidate \in Candidates /\ index \in Nat
  BY <1>1, Releasing DEF Inv, Reads, Given
<1>3. Wrote' /\ \A i : Planned(i)' = Planned(i)
  BY <1>1, SameOut
<1>4. At' /\ Current' = Current /\ LastBlock' = LastBlock /\ Cipher' = Cipher
  BY <1>1, <1>2, SameRow
<1>5. Reads'
  BY <1>1, <1>2, <1>4, SameCipher DEF Reads
<1>6. Blames'
  BY <1>1, <1>2, <1>4, DirtyBlames, Static DEF Blames
<1>7. Rejects' /\ Opened'
  BY <1>1, <1>2, Static DEF Inv, Rejects, Opened
<1>8. Authentic'
  <2>1. dirty # {} => DirtyNow # {}
    BY DEF DirtyNow
  <2> QED BY <1>1, <1>3, <1>4, <2>1, Static DEF Inv, Authentic
<1>9. block' \in Nat
  BY <1>1, <1>2
<1> QED BY <1>1, <1>2, <1>3, <1>4, <1>5, <1>6, <1>7, <1>8, <1>9, MoveStep

\* The member is finished; the wholesome package with it.
LEMMA FinishMemberStep == ASSUME Inv, FinishMember PROVE Inv'
<1>1. /\ stage = "drain" /\ stage \in Reading
      /\ UNCHANGED <<call, row, plans, superseded, candidate, block, dirty, derived, out, verdict,
                     changed, latch, failed>>
  BY DEF FinishMember, Keep, planned, pass, outside, Reading
<1>2. PICK v \in AtEnd(dirty, stale) :
        IF v # "ok" THEN Ends(v) /\ index' = index
        ELSE IF Wholesome THEN Ends("ok") /\ index' = index
             ELSE stage' = "members" /\ index' = index + 1 /\ result' = result
  BY DEF FinishMember
<1>3. /\ superseded = <<>> /\ plans[Current] = row /\ Opens(row) /\ result = "none"
      /\ Current \in DOMAIN Members /\ index = Current /\ index \in Nat /\ block \in Nat
      /\ candidate \in Candidates /\ call \in Calls /\ (Wholesome => row = WholesomeRow)
  BY <1>1, Releasing, Working DEF Inv, Given
<1>4. /\ v \in {"ok", "Io", "Zip", "WrongPassword"}
      /\ v = "Io" => changed # {}
      /\ v = "WrongPassword" /\ changed = {} => Refusable(row)
      /\ v = "ok" /\ Cipher = "gcm" => dirty = {}
  BY <1>1, EndBlames DEF Inv, Blames
<1>5. Wrote' /\ \A i : Planned(i)' = Planned(i)
  BY <1>1, SameOut
<1>6. CASE v # "ok"
  BY <1>1, <1>2, <1>3, <1>4, <1>5, <1>6, FailStep DEF Ending, NeedsNoKey, Reading
<1>7. ASSUME v = "ok"
      PROVE  \A p \in out : Planned(p.member) /\ RowOf(plans[p.member]).cipher = "gcm" => p.sound
  BY <1>1, <1>3, <1>4, <1>7 DEF Inv, Authentic
<1>8. CASE v = "ok" /\ Wholesome
  <2>1. \A i \in DOMAIN Members : Planned(i) => Opens(plans[i])
    <3>1. \A i \in DOMAIN Members : Planned(i) => plans[i] \in Screened
      BY DEF Inv, Fits, Planned
    <3> QED BY <1>3, <1>8, <3>1, ScreenedFacts
  <2>2. Ends("ok") /\ index' = index /\ AllScreened
    BY <1>1, <1>2, <1>8 DEF AllScreened
  <2> QED BY <1>1, <1>3, <1>7, <1>8, <2>1, <2>2, DoneStep DEF Ending
<1>9. CASE v = "ok" /\ ~Wholesome
  <2>1. stage' = "members" /\ index' = index + 1 /\ result' = result
    BY <1>2, <1>9
  <2>2. index' \in Nat /\ index' # 0 /\ \A i \in DOMAIN Members : i < index' => i < index \/ i = index
    BY <1>3, <2>1, MemberFacts
  <2>3. At' /\ Reads' /\ Blames' /\ Rejects' /\ Opened'
    BY <1>1, <1>3, <1>9, <2>1, <2>2, Static DEF At, Reads, Blames, Rejects, Opened, Reading
  <2>4. Authentic'
    BY <1>1, <1>5, <1>7, <1>9, Static DEF Authentic
  <2>5. \A i \in DOMAIN Members :
          Planned(i) /\ ~Wholesome /\ i < index' => i < index \/ Opens(plans[i])
    BY <1>3, <2>2
  <2> QED BY <1>1, <1>3, <1>5, <2>1, <2>2, <2>3, <2>4, <2>5, MoveStep
<1> QED BY <1>6, <1>8, <1>9

-----------------------------------------------------------------------------
\* What a write of one member's pieces leaves to show.
LEMMA WroteMore ==
  ASSUME Inv, UNCHANGED <<call, plans>>, NEW i \in DOMAIN Members, ~Planned(i),
         \A p \in out' : p \in out \/ p.member = i
  PROVE  /\ Wrote'
         /\ stage \notin {"release", "drain"} \cup Ending => Authentic'
<1>1. \A j : Planned(j)' = Planned(j)
  BY SameOut
<1>2. Wrote'
  BY <1>1, Static DEF Inv, Wrote
<1>3. ASSUME stage \notin {"release", "drain"} \cup Ending PROVE Authentic'
  BY <1>1, <1>3, Untainted, Static DEF Authentic
<1> QED BY <1>2, <1>3

\* The member the rebuild has reached is behind it, and nothing encrypts it.
LEMMA PassOver ==
  ASSUME Inv, stage = "members", stage' = "members", index \in DOMAIN Members, ~Planned(index),
         index' = index + 1, \A p \in out' : p \in out \/ p.member = index,
         UNCHANGED <<call, row, plans, superseded, candidate, block, result, verdict, changed>>
  PROVE  Inv'
<1>1. index \in Nat /\ block \in Nat /\ candidate \in Candidates
  BY DEF Inv, Given
<1>2. index' \in Nat /\ index' # 0 /\ \A i \in DOMAIN Members : i < index' => i < index \/ i = index
  BY <1>1, MemberFacts DEF Inv, Given
<1>3. \A i \in DOMAIN Members : Planned(i) /\ ~Wholesome /\ i < index' => i < index \/ Opens(plans[i])
  BY <1>2
<1>4. At' /\ Reads' /\ Blames' /\ Rejects' /\ Opened'
  BY <1>2, Static DEF Inv, At, Reads, Blames, Rejects, Opened, Reading
<1>5. Wrote' /\ Authentic'
  BY WroteMore DEF Ending
<1> QED BY <1>1, <1>2, <1>3, <1>4, <1>5, MoveStep DEF Reading

LEMMA ManifestFailsStep == ASSUME Inv, ManifestFails PROVE Inv'
<1>1. /\ stage = "members" /\ Ends("Zip")
      /\ UNCHANGED <<call, row, plans, superseded, index, candidate, block, out, verdict, changed>>
  BY DEF ManifestFails, Keep, planned, pass, written, outside
<1>2. Wrote' /\ block' \in Nat
  BY <1>1, SameOut DEF Inv, Given
<1> QED BY <1>1, <1>2, FailStep DEF Ending, NeedsNoKey

LEMMA WriteManifestStep == ASSUME Inv, WriteManifest PROVE Inv'
<1>1. /\ stage = "members" /\ index \in DOMAIN Members /\ ~Planned(index) /\ index' = index + 1
      /\ out' = out \cup {Piece(index, 1)}
      /\ UNCHANGED <<call, stage, row, plans, superseded, candidate, block, result, verdict, changed>>
  BY DEF WriteManifest, Planned, Keep, planned, pass, outside
<1>2. \A p \in out' : p \in out \/ p.member = index
  BY <1>1 DEF Piece
<1> QED BY <1>1, <1>2, PassOver

LEMMA CopyMemberStep == ASSUME Inv, CopyMember PROVE Inv'
<1>1. /\ stage = "members" /\ index \in DOMAIN Members /\ ~Planned(index)
      /\ \/ out' = out \/ out' = out \cup {Piece(index, b) : b \in DOMAIN Members[index].blocks}
      /\ \/ Ends("Zip") /\ index' = index
         \/ index' = index + 1 /\ UNCHANGED <<stage, result>>
      /\ UNCHANGED <<call, row, plans, superseded, candidate, block, verdict, changed>>
  BY DEF CopyMember, Keep, planned, pass, outside
<1>2. \A p \in out' : p \in out \/ p.member = index
  BY <1>1 DEF Piece
<1>3. CASE Ends("Zip") /\ index' = index
  <2>1. Wrote' /\ block' \in Nat
    BY <1>1, <1>2, WroteMore DEF Inv, Given
  <2> QED BY <1>1, <1>3, <2>1, FailStep DEF Ending, NeedsNoKey
<1>4. CASE index' = index + 1 /\ UNCHANGED <<stage, result>>
  BY <1>1, <1>2, <1>4, PassOver
<1> QED BY <1>1, <1>3, <1>4

LEMMA StartMemberStep == ASSUME Inv, StartMember PROVE Inv'
<1>1. /\ stage = "members" /\ Planned(index) /\ Try(plans[index])
      /\ UNCHANGED <<call, plans, superseded, index, out, result, verdict, changed>>
  BY DEF StartMember, Keep, planned, written, outside
<1>2. /\ plans[index] \in Screened /\ HasMember(plans[index]) /\ MemberOf(plans[index]) = index
      /\ superseded = <<>> /\ index \in Nat /\ call \in Calls
  BY <1>1 DEF Inv, Fits, Planned, At, Given
<1>3. /\ stage' = "derive" /\ row' = plans[index] /\ block' \in Nat /\ candidate' \in Candidates
      /\ Reads' /\ Blames' /\ Rejects' /\ Opened'
  BY <1>1, <1>2, Trying
<1>4. At'
  BY <1>1, <1>2, <1>3, Static DEF At, Reading, Current
<1>5. Wrote' /\ Authentic'
  BY <1>1, SameOut, SameAuthentic DEF Ending
<1> QED BY <1>1, <1>2, <1>3, <1>4, <1>5, MoveStep DEF Reading

LEMMA FinishZipStep == ASSUME Inv, FinishZip PROVE Inv'
<1>1. /\ stage = "members" /\ index > Len(Members) /\ Ends("ok")
      /\ UNCHANGED <<call, row, plans, superseded, index, candidate, block, out, verdict, changed>>
  BY DEF FinishZip, Keep, planned, pass, written, outside
<1>2. superseded = <<>> /\ ~Wholesome /\ index \in Nat /\ AllScreened
  BY <1>1 DEF Inv, At, Given, AllScreened
<1>3. \A i \in DOMAIN Members : i < index
  BY <1>1, <1>2, MemberFacts DEF Inv, Given
<1>4. \A i \in DOMAIN Members : Planned(i) => Opens(plans[i])
  BY <1>2, <1>3 DEF Inv, EachMember
<1>5. \A p \in out : Planned(p.member) /\ RowOf(plans[p.member]).cipher = "gcm" => p.sound
  BY <1>1, Untainted DEF Ending
<1> QED BY <1>1, <1>2, <1>4, <1>5, DoneStep DEF Ending

-----------------------------------------------------------------------------
\* Nothing run knows changes but the latch, a failure, or what it returns with.
LEMMA RestStep ==
  ASSUME Inv, UNCHANGED <<call, row, plans, superseded, index, candidate, derived, block, dirty, out,
                          result, changed, failed>>,
         \/ stage' = stage
         \/ stage = "returning" /\ stage' = "returned",
         Answer'
  PROVE  Inv'
<1>1. Given' /\ Changes' /\ Fits' /\ Unplanned'
  BY Static DEF Inv, Given, Changes, Fits, Unplanned, AllStages, Ending
<1>2. \A i : Planned(i)' = Planned(i)
  BY SameOut
<1>3. Current' = Current /\ LastBlock' = LastBlock /\ Cipher' = Cipher
  BY Static DEF Current, LastBlock, Cipher
<1>4. At' /\ Reads' /\ Blames' /\ Rejects' /\ Opened'
  <2>1. CASE stage' = "returned"
    BY <2>1 DEF At, Reads, Blames, Rejects, Opened, Reading
  <2>2. CASE stage' = stage
    BY <1>3, <2>2, Static DEF Inv, At, Reads, Blames, Rejects, Opened
  <2> QED BY <2>1, <2>2
<1>5. EachRow' /\ NoneLeft' /\ Untouched'
  <2>1. \A r \in Screened : Kept(r)' = Kept(r)
    BY Static DEF Kept
  <2>2. AllScreened' => AllScreened
    BY DEF AllScreened, Reading
  <2>3. EachRow'
    BY <2>1, <2>2, Static DEF Inv, EachRow
  <2> QED BY <2>3 DEF Inv, NoneLeft, Untouched, Early
<1>6. EachMember'
  <2>1. AllScreened' => AllScreened
    BY DEF AllScreened, Reading
  <2> QED BY <1>2, <2>1, Static DEF Inv, EachMember
<1>7. Wrote' /\ Authentic'
  BY <1>2, <1>3, SameOut, Static DEF Inv, Authentic, Results, Ending
<1>8. Results'
  BY Static DEF Inv, Results, Ending
<1> QED BY <1>1, <1>4, <1>5, <1>6, <1>7, <1>8 DEF Inv

LEMMA ReturnStep == ASSUME Inv, Return PROVE Inv'
<1>1. /\ stage = "returning" /\ stage' = "returned" /\ verdict' = (IF latch THEN "Io" ELSE result)
      /\ UNCHANGED <<call, row, plans, superseded, index, candidate, derived, block, dirty, out,
                     result, changed, latch, failed>>
  BY DEF Return, planned, pass, written, outside
<1>2. Answer'
  BY <1>1 DEF Answer
<1> QED BY <1>1, <1>2, RestStep

\* The caller's reader fails a read, and the zip layer makes Zip of it or reads on.
LEMMA ReaderFailsStep == ASSUME Inv, ReaderFails PROVE Inv'
<1>1. /\ stage \notin Ending
      /\ Ends("Zip") \/ UNCHANGED <<stage, result>>
      /\ UNCHANGED <<call, row, plans, superseded, index, candidate, derived, block, dirty, out,
                     verdict, changed, failed>>
  BY DEF ReaderFails, Running, Still, planned, pass, written, Ending
<1>2. CASE Ends("Zip")
  <2>1. Wrote' /\ block' \in Nat
    BY <1>1, SameOut DEF Inv, Given
  <2> QED BY <1>1, <1>2, <2>1, FailStep DEF NeedsNoKey
<1>3. CASE UNCHANGED <<stage, result>>
  <2>1. Answer'
    BY <1>1, <1>3 DEF Inv, Answer, Ending
  <2>2. /\ UNCHANGED <<call, row, plans, superseded, index, candidate, derived, block, dirty, out,
                       result, changed, failed>>
        /\ stage' = stage
    BY <1>1, <1>3
  <2> QED BY <2>1, <2>2, RestStep
<1> QED BY <1>1, <1>2, <1>3

\* The caller's writer or the host fails: run gives up, and says so.
LEMMA OutsideFails ==
  ASSUME Inv, stage \notin Ending, NEW e, Ends(e), Still, changed' = changed,
         \/ e = "Io" /\ failed' = "writer"
         \/ e = "HostCannotAllocate" /\ failed' = "host"
         \/ e \in {"Zip", "Random"}
  PROVE  Inv'
<1>1. UNCHANGED <<call, row, plans, superseded, index, candidate, derived, block, out, verdict>>
  BY DEF Still, planned, pass, written
<1>2. Wrote' /\ block' \in Nat
  BY <1>1, SameOut DEF Inv, Given
<1> QED BY <1>1, <1>2, FailStep DEF NeedsNoKey

LEMMA WriterFailsStep == ASSUME Inv, WriterFails PROVE Inv'
BY OutsideFails DEF WriterFails, Ending

LEMMA HostFailsStep == ASSUME Inv, HostFails PROVE Inv'
<1>1. stage \notin Ending /\ Still /\ changed' = changed /\ failed' = "host"
  BY DEF HostFails, Ending
<1>2. Ends("Zip") \/ Ends("HostCannotAllocate")
  BY DEF HostFails
<1> QED BY <1>1, <1>2, OutsideFails

\* A sound block of the input changes.
LEMMA InputChangesStep == ASSUME Inv, InputChanges PROVE Inv'
<1>1. /\ stage \notin Ending
      /\ UNCHANGED <<call, stage, row, plans, superseded, index, candidate, derived, block, dirty, out,
                     result, verdict, latch, failed>>
  BY DEF InputChanges, Running, Still, planned, pass, written, Ending
<1>2. PICK i \in DOMAIN Members :
        \E b \in DOMAIN Blocks(i) :
          /\ Sound(i, b)
          /\ \E d \in {"window", "past"} :
               changed' = changed \cup {[member |-> i, block |-> b, damage |-> d]}
  BY DEF InputChanges
<1>3. PICK b \in DOMAIN Blocks(i) :
        /\ Sound(i, b)
        /\ \E d \in {"window", "past"} :
             changed' = changed \cup {[member |-> i, block |-> b, damage |-> d]}
  BY <1>2
<1>4. Changes' /\ changed' # {} /\ changed \subseteq changed'
  <2>1. Changes /\ Sound(i, b)
    BY <1>3, Zenon DEF Inv
  <2>2. Blocks(i)[b].damage = "none"
    BY <2>1, Found, Zenon
  <2>3. PICK d \in {"window", "past"} :
          changed' = changed \cup {[member |-> i, block |-> b, damage |-> d]}
    BY <1>3
  <2>4. \A x : Blocks(x)' = Blocks(x)
    BY <1>1, Static
  <2>5. \A e \in changed' : e \in changed \/ e = [member |-> i, block |-> b, damage |-> d]
    BY <2>3
  <2>6. \A e \in changed' : e.damage \in {"window", "past"} /\ Blocks(e.member)[e.block].damage = "none"
    BY <2>1, <2>2, <2>5 DEF Changes
  <2>7. Changes'
    BY <2>4, <2>6 DEF Changes
  <2> QED BY <2>3, <2>7
<1>5. \A j : Planned(j)' = Planned(j)
  BY <1>1, SameOut
<1>6. Current' = Current /\ LastBlock' = LastBlock /\ Cipher' = Cipher
  BY <1>1, Static DEF Current, LastBlock, Cipher
<1>7. Given' /\ Fits' /\ Unplanned'
  BY <1>1, Static DEF Inv, Given, Fits, Unplanned
<1>8. At' /\ Reads' /\ Blames' /\ Rejects' /\ Opened'
  BY <1>1, <1>4, <1>6, Static DEF Inv, At, Reads, Blames, Rejects, Opened
<1>9. EachRow' /\ EachMember' /\ NoneLeft' /\ Untouched'
  <2>1. \A r \in Screened : Kept(r)' = Kept(r)
    BY <1>1, Static DEF Kept
  <2>2. AllScreened' = AllScreened
    BY <1>1 DEF AllScreened
  <2> QED BY <1>1, <1>5, <2>1, <2>2, Static DEF Inv, EachRow, EachMember, NoneLeft, Untouched
<1>10. Wrote' /\ Authentic'
  BY <1>1, <1>5, <1>6, SameOut, Static DEF Inv, Authentic
<1>11. Results' /\ Answer'
  BY <1>1, <1>4, Static DEF Inv, Results, Answer
<1> QED BY <1>4, <1>7, <1>8, <1>9, <1>10, <1>11 DEF Inv

-----------------------------------------------------------------------------
\* Steps that write nothing: what is counted does not change.
LEMMA QuietTally ==
  ASSUME Inv, Inv', Tally, call' = call, UNCHANGED <<out, produced>>, inflated' \in Nat,
         out = {} \/ plans' = plans,
         stage \in Ending => stage' \in Ending /\ result' = result,
         stage' \notin Ending => InHand' = InHand /\ index <= index',
         stage' \notin Ending /\ stage \in {"release", "drain"} =>
           stage' \in {"release", "drain"} /\ index' = index /\ block <= block',
         stage' = "drain" => stage = "drain" /\ row' = row,
         ~Wholesome /\ (stage' \in Reading \cup {"members", "seal"} \/ result' = "ok") =>
           \A i \in DOMAIN Members : i < index' \/ result' = "ok" => Whole(i)
  PROVE  Tally'
<1>1. /\ index \in Nat /\ index' \in Nat /\ block \in Nat /\ block' \in Nat /\ call \in Calls
      /\ produced \in Nat /\ inflated \in Nat /\ IsFiniteSet(out)
      /\ \A p \in out : p.block \in Nat /\ p.units \in Nat
  BY DEF Inv, Given, Tally, Fresh
<1>2. \A p \in out : p.member \in DOMAIN Members /\ p.member \in Nat
  BY <1>1, MemberFacts DEF Inv, Wrote
<1>3. \A p \in out : stage \notin Ending =>
        \/ p.member < index
        \/ stage \in {"release", "drain"} /\ p.member = index /\ p.block < block
  BY DEF Tally, Fresh
<1>4. Plaintext' = Plaintext
  <2>1. CASE out = {}
    BY <2>1 DEF Plaintext
  <2>2. CASE plans' = plans
    <3>1. \A i : Planned(i)' = Planned(i)
      BY <2>2, SameOut
    <3> QED BY <3>1 DEF Plaintext
  <2> QED BY <2>1, <2>2
<1>5. stage' = "drain" => inflated' = Expected'
  BY Static DEF Tally, Fresh, InHand, Ending, Expected
<1>6. Sums'
  <2>1. stage' \notin Ending => Units(Plaintext) <= produced + InHand' /\ produced + InHand' <= call.limit
    BY DEF Tally, Sums
  <2>2. Wholesome' \/ result' = "ok" => Units(Plaintext) <= call.limit
    <3>1. CASE stage \in Ending
      BY <3>1, Static DEF Tally, Sums
    <3>2. CASE stage \notin Ending
      <4>1. Units(Plaintext) \in Nat
        <5>1. Plaintext \in SUBSET out
          BY DEF Plaintext
        <5> QED BY <1>1, <5>1, FS_Subset, UnitsAdd
      <4>2. call.limit \in Nat /\ InHand \in Nat
        BY <1>1, CallsAssumption DEF InHand
      <4> QED BY <1>1, <3>2, <4>1, <4>2 DEF Tally, Sums
    <3> QED BY <3>1, <3>2
  <2> QED BY <1>4, <2>1, <2>2 DEF Sums
<1>7. \A p \in out : stage' \notin Ending =>
        \/ p.member < index'
        \/ stage' \in {"release", "drain"} /\ p.member = index' /\ p.block < block'
  <2> SUFFICES ASSUME NEW p \in out, stage' \notin Ending, stage \notin Ending
               PROVE  \/ p.member < index'
                      \/ stage' \in {"release", "drain"} /\ p.member = index' /\ p.block < block'
    OBVIOUS
  <2>1. CASE p.member < index
    BY <1>1, <1>2, <2>1
  <2>2. CASE stage \in {"release", "drain"} /\ p.member = index /\ p.block < block
    BY <1>1, <2>2
  <2> QED BY <1>3, <2>1, <2>2
<1>8. Fresh'
  BY <1>1, <1>5, <1>7 DEF Fresh
<1>9. \A i : Of(i)' = Of(i)
  BY DEF Of
<1>10. \A i : Whole(i) => Whole(i)'
  <2>1. CASE out = {}
    BY <2>1 DEF Whole, Of
  <2>2. CASE plans' = plans
    <3>1. \A i : Planned(i)' = Planned(i)
      BY <2>2, SameOut
    <3> QED BY <1>9, <2>2, <3>1, Static DEF Whole
  <2> QED BY <2>1, <2>2
<1>11. ASSUME ~Wholesome, stage' \in {"release", "drain"}
       PROVE  Units(Of(index')) = inflated'
  <2>1. CASE stage \in {"release", "drain"}
    <3>1. inflated' = inflated /\ index' = index
      BY <1>11, <2>1 DEF InHand, Ending
    <3> QED BY <1>11, <2>1, <3>1 DEF Tally, Sizes
  <2>2. CASE stage \notin {"release", "drain"}
    <3>1. inflated' = 0 /\ stage \notin Ending /\ index <= index'
      BY <1>11, <2>2 DEF InHand, Ending
    <3>2. Of(index') = {}
      BY <1>1, <1>2, <1>3, <2>2, <3>1 DEF Of
    <3> QED BY <3>1, <3>2, <1>1, UnitsAdd
  <2> QED BY <2>1, <2>2
<1>12. ASSUME ~Wholesome, stage' = "drain" PROVE Of(index') # {}
  BY <1>12 DEF Tally, Sizes, Ending
<1>13. Sizes'
  <2>1. Members' = Members /\ Wholesome' = Wholesome
    BY Static
  <2> QED BY <1>9, <1>10, <1>11, <1>12, <2>1 DEF Sizes
<1> QED BY <1>6, <1>8, <1>13 DEF Tally

\* run gives up: what is written stays as it is.
LEMMA QuietFails ==
  ASSUME Inv, Inv', Tally, stage \notin Ending, NEW e, Ends(e), e # "ok",
         UNCHANGED <<call, plans, out, produced>>, inflated' \in Nat
  PROVE  Tally'
BY QuietTally DEF Ends, Ending, Reading

\* run moves within the screened rows and the members.
LEMMA QuietMoves ==
  ASSUME Inv, Inv', Tally, stage \in Reading \cup {"members"}, stage' \in Reading \cup {"members", "seal"},
         UNCHANGED <<call, plans, index, out, produced, result>>, inflated' \in Nat,
         InHand' = InHand,
         stage \in {"release", "drain"} => stage' \in {"release", "drain"} /\ block <= block',
         stage' = "drain" => stage = "drain" /\ row' = row
  PROVE  Tally'
<1>1. index <= index' /\ result # "ok" /\ result' # "ok" /\ stage \notin Ending
  BY DEF Inv, Given, Results, Reading, Ending
<1>2. ~Wholesome => \A i \in DOMAIN Members : i < index' => Whole(i)
  BY DEF Tally, Sizes
<1> QED BY <1>1, <1>2, QuietTally

LEMMA ScreenClassTally == ASSUME Inv, Inv', Tally, ScreenClass PROVE Tally'
<1>1. /\ stage = "classified" /\ stage' \in {"returning", "rows"}
      /\ UNCHANGED <<call, plans, index, out, produced, inflated>> /\ inflated \in Nat
  BY DEF ScreenClass, Keep, planned, written, Ends, Tally, Fresh
<1>2. result' # "ok"
  BY <1>1 DEF ScreenClass, Ends, Inv, Results, Ending
<1>3. InHand' = InHand /\ index <= index'
  BY <1>1 DEF InHand, Inv, Given
<1> QED BY <1>1, <1>2, <1>3, QuietTally DEF Ending, Reading

LEMMA ScreenRowTally == ASSUME Inv, Inv', Tally, ScreenRow PROVE Tally'
<1>1. /\ stage = "rows" /\ stage' \in {"returning", "rows", "derive", "members"}
      /\ UNCHANGED <<call, out, produced, inflated>> /\ inflated \in Nat
  BY DEF ScreenRow, Screening, Keep, written, Ends, Try, Tally, Fresh
<1>2. out = {} /\ index = 0 /\ result' # "ok"
  BY <1>1 DEF Inv, Untouched, Early, At, ScreenRow, Screening, Ends, RowVerdict, Results, Ending
<1>3. InHand' = InHand /\ index <= index'
  BY <1>1, <1>2 DEF InHand, Inv, Given
<1>4. ~Wholesome => index' \in {0, 1}
  BY <1>2 DEF ScreenRow, Screening
<1>5. \A i \in DOMAIN Members : ~(i < 0) /\ ~(i < 1)
  BY MemberFacts DEF Inv, Given
<1> QED BY <1>1, <1>2, <1>3, <1>4, <1>5, QuietTally DEF Ending, Reading

LEMMA DeriveTally == ASSUME Inv, Inv', Tally, Derive PROVE Tally'
<1>1. /\ stage = "derive" /\ UNCHANGED <<call, plans, index, out, produced, inflated>>
      /\ inflated \in Nat
  BY DEF Derive, Keep, planned, written, Tally, Fresh
<1>2. \/ Ends("Kdf") \/ Ends("Internal")
      \/ stage' = "verify" /\ result' = result
  BY DEF Derive
<1>3. CASE Ends("Kdf") \/ Ends("Internal")
  BY <1>1, <1>3, QuietFails DEF Ending
<1>4. CASE stage' = "verify" /\ result' = result
  BY <1>1, <1>4, QuietMoves DEF Reading, InHand
<1> QED BY <1>2, <1>3, <1>4

LEMMA VerifyBlockTally == ASSUME Inv, Inv', Tally, VerifyBlock PROVE Tally'
<1>1. /\ stage = "verify" /\ stage' = "verify" /\ inflated \in Nat
      /\ UNCHANGED <<call, plans, index, out, produced, inflated, result>>
  BY DEF VerifyBlock, Keep, planned, written, Tally, Fresh
<1> QED BY <1>1, QuietMoves DEF Reading, InHand

LEMMA DecideTally == ASSUME Inv, Inv', Tally, Decide PROVE Tally'
<1>1. /\ stage = "verify" /\ UNCHANGED <<call, plans, out, produced>>
      /\ index' = IF stage' = "members" THEN 1 ELSE index
      /\ inflated' = IF stage' = "release" THEN 0 ELSE inflated
      /\ index \in Nat /\ inflated \in Nat
  BY DEF Decide, Keep, Inv, Given, Tally, Fresh
<1>2. inflated' \in Nat
  BY <1>1
<1>3. \/ Ends("Zip") \/ Ends("WrongPassword")
      \/ stage' \in {"derive", "release"} /\ result' = result
      \/ stage' = "members" /\ superseded # <<>> /\ result' = result
  <2>1. Rejected => (stage' = "derive" /\ result' = result) \/ Ends("WrongPassword")
    BY DEF Rejected
  <2>2. Accepted => /\ result' = result
                    /\ \/ stage' \in {"derive", "release"}
                       \/ stage' = "members" /\ superseded # <<>>
    BY DEF Accepted, Try
  <2> QED BY <2>1, <2>2 DEF Decide
<1>4. CASE Ends("Zip") \/ Ends("WrongPassword")
  BY <1>1, <1>2, <1>4, QuietFails DEF Ending
<1>5. CASE stage' \in {"derive", "release"} /\ result' = result
  BY <1>1, <1>2, <1>5, QuietMoves DEF Reading, InHand
<1>6. CASE stage' = "members" /\ superseded # <<>> /\ result' = result
  <2>1. index = 0 /\ index' = 1 /\ result # "ok"
    BY <1>1, <1>6 DEF Inv, At, Reading, Results, Ending
  <2>2. \A i \in DOMAIN Members : ~(i < 1)
    BY MemberFacts DEF Inv, Given
  <2>3. InHand' = InHand /\ index <= index'
    BY <1>1, <1>6, <2>1 DEF InHand
  <2> QED BY <1>1, <1>2, <1>6, <2>1, <2>2, <2>3, QuietTally DEF Ending, Reading
<1> QED BY <1>3, <1>4, <1>5, <1>6

LEMMA DrainBlockTally == ASSUME Inv, Inv', Tally, DrainBlock PROVE Tally'
<1>1. /\ stage = "drain" /\ stage' = "drain" /\ block' = block + 1 /\ block \in Nat /\ inflated \in Nat
      /\ UNCHANGED <<call, row, plans, index, out, produced, inflated, result>>
  BY DEF DrainBlock, Keep, planned, written, Inv, Given, Tally, Fresh
<1> QED BY <1>1, QuietMoves DEF Reading, InHand

LEMMA StartMemberTally == ASSUME Inv, Inv', Tally, StartMember PROVE Tally'
<1>1. /\ stage = "members" /\ stage' = "derive" /\ inflated \in Nat
      /\ UNCHANGED <<call, plans, index, out, produced, inflated, result>>
  BY DEF StartMember, Try, Keep, planned, written, Tally, Fresh
<1> QED BY <1>1, QuietMoves DEF Reading, InHand

\* Every member is behind the rebuild.
LEMMA AllWhole ==
  ASSUME Inv, Tally, stage \in {"members", "seal"}, ~Wholesome, index > Len(Members)
  PROVE  \A i \in DOMAIN Members : Whole(i)
<1>1. \A i \in DOMAIN Members : i < index
  BY MemberFacts DEF Inv, Given
<1> QED BY <1>1 DEF Tally, Sizes

LEMMA FinishZipTally == ASSUME Inv, Inv', Tally, FinishZip PROVE Tally'
<1>1. /\ stage = "members" /\ index > Len(Members) /\ Ends("ok") /\ inflated \in Nat
      /\ UNCHANGED <<call, plans, index, out, produced, inflated>>
  BY DEF FinishZip, Keep, planned, written, Tally, Fresh
<1> QED BY <1>1, AllWhole, QuietTally DEF Ends, Ending

\* Steps of the outside, and the return.
LEMMA RestTally ==
  ASSUME Inv, Inv', Tally, UNCHANGED <<call, row, plans, index, block, inflated, produced, out, result>>,
         \/ stage' = stage
         \/ stage = "returning" /\ stage' = "returned"
  PROVE  Tally'
<1>1. inflated \in Nat /\ index \in Nat /\ block \in Nat
  BY DEF Inv, Given, Tally, Fresh
<1>2. ~Wholesome /\ (stage' \in Reading \cup {"members", "seal"} \/ result' = "ok") =>
        \A i \in DOMAIN Members : i < index' \/ result' = "ok" => Whole(i)
  BY DEF Tally, Sizes, Reading
<1>3. stage' \notin Ending => InHand' = InHand /\ index <= index'
  BY <1>1 DEF InHand, Ending
<1> QED BY <1>1, <1>2, <1>3, QuietTally DEF Ending

LEMMA OutsideTally ==
  ASSUME Inv, Inv', Tally,
         \/ ManifestFails \/ Return \/ ReaderFails \/ WriterFails \/ HostFails
         \/ InputChanges \/ UNCHANGED vars
  PROVE  Tally'
<1>1. inflated \in Nat /\ UNCHANGED <<call, row, plans, index, block, inflated, produced, out>>
  BY DEF ManifestFails, Return, ReaderFails, WriterFails, HostFails, InputChanges, Keep, Still,
         vars, planned, pass, written, Tally, Fresh
<1>2. \/ stage \notin Ending /\ (Ends("Zip") \/ Ends("Io") \/ Ends("HostCannotAllocate"))
      \/ stage' = stage /\ result' = result
      \/ stage = "returning" /\ stage' = "returned" /\ result' = result
  BY DEF ManifestFails, Return, ReaderFails, Running, WriterFails, HostFails, InputChanges, vars,
         Ending
<1>3. CASE stage \notin Ending /\ (Ends("Zip") \/ Ends("Io") \/ Ends("HostCannotAllocate"))
  BY <1>1, <1>3, QuietFails
<1>4. CASE stage' = stage /\ result' = result
  BY <1>1, <1>4, RestTally
<1>5. CASE stage = "returning" /\ stage' = "returned" /\ result' = result
  BY <1>1, <1>5, RestTally
<1> QED BY <1>2, <1>3, <1>4, <1>5

-----------------------------------------------------------------------------
\* Steps that write.  One piece more of the member being released.
LEMMA OnePiece ==
  ASSUME Inv, Tally, stage = "release"
  PROVE  /\ Piece(Current, block) \notin out /\ Piece(Current, block).units \in Nat
         /\ Piece(Current, block).member = index /\ Piece(Current, block).block = block
         /\ Piece(Current, block).units = Blocks(Current)[block].units
<1>1. index = Current /\ index \in Nat /\ block \in Nat /\ call \in Calls
  BY Releasing DEF Inv, Given
<1>2. /\ Piece(Current, block).member = Current /\ Piece(Current, block).block = block
      /\ Piece(Current, block).units = Blocks(Current)[block].units
  BY DEF Piece
<1>3. \A p \in out : ~(p.member = index /\ p.block = block)
  BY <1>1 DEF Tally, Fresh, Ending
<1>4. Blocks(Current)[block].units \in Nat
  <2>1. Current \in DOMAIN Members /\ block \in DOMAIN Blocks(Current)
    BY Releasing, Working DEF Inv, Reads, Reading
  <2> QED BY <1>1, <2>1, MemberFacts
<1> QED BY <1>1, <1>2, <1>3, <1>4

LEMMA ReleaseBlockTally == ASSUME Inv, Inv', Tally, ReleaseBlock PROVE Tally'
<1> DEFINE sum   == inflated + Blocks(Current)[block].units
           piece == Piece(Current, block)
           next  == out \cup {piece}
<1>1. /\ stage = "release" /\ index \in Nat /\ block \in Nat /\ inflated \in Nat /\ produced \in Nat
      /\ IsFiniteSet(out) /\ \A p \in out : p.block \in Nat /\ p.units \in Nat
      /\ UNCHANGED <<call, row, plans, index, produced>>
  BY DEF ReleaseBlock, Keep, planned, Inv, Given, Tally, Fresh
<1>2. /\ piece \notin out /\ piece.units \in Nat /\ piece.member = index /\ piece.block = block
      /\ piece.units = Blocks(Current)[block].units /\ sum = inflated + piece.units
  BY <1>1, OnePiece
<1>3. /\ index = Current /\ call.limit \in Nat /\ stage \notin Ending
      /\ LastBlock \in Nat \ {0} /\ result = "none"
  BY <1>1, Releasing, CallsAssumption DEF Ending
<1>4. \/ /\ out' = out /\ inflated' \in {inflated, sum}
         /\ \E e \in {"WrongPassword", "Io", "Zip", "OutputLimit", "Inflate"} : Ends(e)
      \/ /\ out' = next /\ inflated' = sum /\ ~Wholesome
         /\ \E e \in {"OutputLimit", "Inflate"} : Ends(e)
      \/ /\ out' = next /\ inflated' = sum /\ block' = block + 1 /\ result' = result
         /\ "ok" \in Inflates(sum) /\ stage' = IF Blocks(Current)[block].mark THEN "drain" ELSE "release"
  <2>1. CASE Cipher # "gcm" /\ block = 1 /\ Damage(Current, 1) = "window"
    BY <2>1 DEF ReleaseBlock
  <2>2. CASE ~(Cipher # "gcm" /\ block = 1 /\ Damage(Current, 1) = "window")
    <3>1. PICK e \in {"ok"} \cup (IF block = LastBlock THEN AtEnd(DirtyNow, StaleNow) ELSE {}) :
            IF e # "ok" THEN Ends(e) /\ UNCHANGED <<block, inflated, out>>
            ELSE \E v \in Inflates(sum) \cup (IF Sound(Current, block) THEN {} ELSE {"Inflate"}) :
                   /\ out' = IF v = "ok" \/ ~Wholesome THEN next ELSE out
                   /\ inflated' = sum
                   /\ IF v # "ok" THEN Ends(v) /\ UNCHANGED block
                      ELSE /\ block' = block + 1 /\ UNCHANGED result
                           /\ stage' = IF Blocks(Current)[block].mark THEN "drain" ELSE "release"
      BY <2>2, Zenon DEF ReleaseBlock
    <3>2. CASE e # "ok"
      <4>1. e \in {"WrongPassword", "Io", "Zip"}
        BY <3>1, <3>2 DEF AtEnd
      <4> QED BY <3>1, <3>2, <4>1
    <3>3. CASE e = "ok"
      <4>1. PICK v \in Inflates(sum) \cup (IF Sound(Current, block) THEN {} ELSE {"Inflate"}) :
                   /\ out' = IF v = "ok" \/ ~Wholesome THEN next ELSE out
                   /\ inflated' = sum
                   /\ IF v # "ok" THEN Ends(v) /\ UNCHANGED block
                      ELSE /\ block' = block + 1 /\ UNCHANGED result
                           /\ stage' = IF Blocks(Current)[block].mark THEN "drain" ELSE "release"
        BY <3>1, <3>3
      <4>2. v \in {"ok", "OutputLimit", "Inflate"} /\ (v = "ok" => "ok" \in Inflates(sum))
        BY <4>1 DEF Inflates
      <4>3. CASE v = "ok"
        BY <4>1, <4>2, <4>3
      <4>4. CASE v # "ok"
        BY <4>1, <4>2, <4>4
      <4> QED BY <4>3, <4>4
    <3> QED BY <3>2, <3>3
  <2> QED BY <2>1, <2>2
<1>5. CASE /\ out' = out /\ inflated' \in {inflated, sum}
           /\ \E e \in {"WrongPassword", "Io", "Zip", "OutputLimit", "Inflate"} : Ends(e)
  <2>1. inflated' \in Nat
    BY <1>1, <1>2, <1>5
  <2>2. PICK e \in {"WrongPassword", "Io", "Zip", "OutputLimit", "Inflate"} : Ends(e)
    BY <1>5
  <2> QED BY <1>1, <1>3, <1>5, <2>1, <2>2, QuietFails
<1>6. IsFiniteSet(next) /\ \A p \in next : p.block \in Nat /\ p.units \in Nat
  BY <1>1, <1>2, FS_AddElement
<1> HIDE DEF piece, sum
<1>7. sum \in Nat
  BY <1>1, <1>2
<1>8. CASE /\ out' = next /\ inflated' = sum /\ ~Wholesome
           /\ \E e \in {"OutputLimit", "Inflate"} : Ends(e)
  <2>1. stage' = "returning" /\ result' # "ok" /\ result' # "none"
    BY <1>8 DEF Ends
  <2>2. Fresh'
    BY <1>1, <1>6, <1>7, <1>8, <2>1 DEF Fresh, Ending
  <2>3. Sums' /\ Sizes'
    BY <1>1, <1>8, <2>1, Static DEF Sums, Sizes, Ending, Reading
  <2> QED BY <2>2, <2>3 DEF Tally
<1>9. CASE /\ out' = next /\ inflated' = sum /\ block' = block + 1 /\ result' = result
           /\ "ok" \in Inflates(sum) /\ stage' = IF Blocks(Current)[block].mark THEN "drain" ELSE "release"
  <2>1. stage' \in {"release", "drain"} /\ result' = "none"
    BY <1>3, <1>9
  <2>2. ~(sum > Budget) /\ (stage' = "drain" => sum = Expected)
    BY <1>9 DEF Inflates
  <2>3. \A i : Planned(i)' = Planned(i)
    BY <1>1, SameOut
  <2>4. Fresh'
    <3>1. \A p \in out : p.member < index \/ (p.member = index /\ p.block < block + 1)
      <4>1. \A p \in out : p.member < index \/ (p.member = index /\ p.block < block)
        BY <1>3 DEF Tally, Fresh
      <4> QED BY <1>1, <4>1
    <3>2. Expected' = Expected
      BY <1>1, Static DEF Expected
    <3>3. piece.member = index /\ piece.block < block + 1
      BY <1>1, <1>2
    <3> QED BY <1>1, <1>6, <1>7, <1>9, <2>1, <2>2, <3>1, <3>2, <3>3 DEF Fresh
  <2>5. Units(Plaintext) <= produced + inflated /\ produced + inflated <= call.limit
    BY <1>1, <1>3 DEF Tally, Sums, InHand
  <2>6. Plaintext \in SUBSET out /\ (Plaintext' = Plaintext \/ Plaintext' = Plaintext \cup {piece})
    <3>1. Plaintext' = {p \in next : Planned(p.member)}
      BY <1>9, <2>3 DEF Plaintext
    <3> QED BY <3>1 DEF Plaintext
  <2>7. /\ IsFiniteSet(Plaintext) /\ Units(Plaintext) \in Nat
        /\ Units(Plaintext \cup {piece}) = Units(Plaintext) + piece.units
    <3>1. piece \notin Plaintext /\ \A p \in Plaintext : p.units \in Nat
      BY <1>1, <1>2, <2>6
    <3>2. IsFiniteSet(Plaintext)
      BY <1>1, <2>6, FS_Subset, Zenon
    <3> QED BY <1>2, <3>1, <3>2, UnitsAdd
  <2>8. Sums'
    <3>1. Units(Plaintext') <= produced + sum /\ produced + sum <= call.limit
      <4>1. produced + sum <= call.limit
        BY <1>1, <1>3, <1>7, <2>2 DEF Budget
      <4>2. \/ Units(Plaintext') = Units(Plaintext)
            \/ Units(Plaintext') = Units(Plaintext) + piece.units
        BY <2>6, <2>7
      <4>3. /\ sum = inflated + piece.units /\ piece.units \in Nat /\ Units(Plaintext) \in Nat
            /\ Units(Plaintext) <= produced + inflated
        BY <1>2, <2>5, <2>7
      <4> QED BY <1>1, <4>1, <4>2, <4>3
    <3>2. Units(Plaintext')  = Units(Plaintext)'
      OBVIOUS
    <3>3. Units(Plaintext)' \in Nat
      BY <1>2, <2>6, <2>7
    <3>4. Units(Plaintext)' <= call.limit
      BY <1>1, <1>3, <1>7, <3>1, <3>2, <3>3
    <3> QED BY <1>1, <1>9, <2>1, <3>1, <3>2, <3>4 DEF Sums, InHand
  <2>9. Sizes'
    <3>1. \A i \in DOMAIN Members : i # index => Of(i)' = Of(i)
      BY <1>2, <1>9 DEF Of
    <3>2. Of(index)' = Of(index) \cup {piece}
      BY <1>1, <1>2, <1>9 DEF Of
    <3>3. ASSUME ~Wholesome PROVE Units(Of(index) \cup {piece}) = sum
      <4>1. Units(Of(index)) = inflated
        BY <1>1, <3>3 DEF Tally, Sizes
      <4>2. Of(index) \in SUBSET out /\ piece \notin Of(index)
        BY <1>2 DEF Of
      <4>3. IsFiniteSet(Of(index)) /\ \A p \in Of(index) : p.units \in Nat
        BY <1>1, <4>2, FS_Subset
      <4> QED BY <1>2, <4>1, <4>2, <4>3, UnitsAdd
    <3>4. \A i \in DOMAIN Members : i < index => i # index
      BY <1>1, MemberFacts DEF Inv, Given
    <3>5. ~Wholesome => \A i \in DOMAIN Members : i < index => Whole(i)'
      BY <1>1, <2>3, <3>1, <3>4, Static DEF Tally, Sizes, Whole, Reading
    <3>6. index' = index /\ Of(index)' # {}
      BY <1>1, <3>2
    <3> QED BY <1>9, <2>1, <3>2, <3>3, <3>5, <3>6, <1>1, Static DEF Sizes
  <2> QED BY <2>4, <2>8, <2>9 DEF Tally
<1> QED BY <1>4, <1>5, <1>8, <1>9

LEMMA FinishMemberTally == ASSUME Inv, Inv', Tally, FinishMember PROVE Tally'
<1>1. /\ stage = "drain" /\ index \in Nat /\ block \in Nat /\ inflated \in Nat /\ produced \in Nat
      /\ IsFiniteSet(out) /\ \A p \in out : p.block \in Nat /\ p.units \in Nat
      /\ UNCHANGED <<call, row, plans, inflated, out>>
      /\ inflated = Expected
  BY DEF FinishMember, Keep, planned, pass, Inv, Given, Tally, Fresh
<1>2. PICK v \in AtEnd(dirty, stale) :
        IF v # "ok" THEN Ends(v) /\ UNCHANGED <<index, produced>>
        ELSE /\ produced' = produced + Expected
             /\ IF Wholesome THEN Ends("ok") /\ index' = index
                ELSE stage' = "members" /\ index' = index + 1 /\ result' = result
  BY DEF FinishMember
<1>3. /\ index = Current /\ plans[Current] = row /\ call.limit \in Nat /\ stage \notin Ending
      /\ result = "none" /\ Current \in DOMAIN Members
  BY <1>1, Releasing, CallsAssumption DEF Ending
<1>4. \A i : Planned(i)' = Planned(i)
  BY <1>1, SameOut
<1>5. Plaintext' = Plaintext /\ \A i : Of(i)' = Of(i)
  BY <1>1, <1>4 DEF Plaintext, Of
<1>6. Units(Plaintext) <= produced + inflated /\ produced + inflated <= call.limit
  BY <1>1, <1>3 DEF Tally, Sums, InHand
<1>7. Units(Plaintext) \in Nat
  <2>1. Plaintext \in SUBSET out
    BY DEF Plaintext
  <2> QED BY <1>1, <2>1, FS_Subset, UnitsAdd
<1>8. CASE v # "ok"
  BY <1>1, <1>2, <1>3, <1>8, QuietFails
<1>9. CASE v = "ok"
  <2>1. produced' = produced + inflated /\ produced' \in Nat
    BY <1>1, <1>2, <1>9
  <2>2. CASE Wholesome
    <3>1. stage' = "returning"
      BY <1>2, <1>9, <2>2 DEF Ends
    <3>2. Fresh'
      BY <1>1, <2>1, <3>1 DEF Fresh, Ending
    <3>3. Units(Plaintext) <= call.limit
      BY <1>1, <1>3, <1>6, <1>7
    <3>4. Sums' /\ Sizes'
      BY <1>1, <1>5, <2>2, <3>1, <3>3, Static DEF Sums, Sizes, Ending
    <3> QED BY <3>2, <3>4 DEF Tally
  <2>3. CASE ~Wholesome
    <3>1. stage' = "members" /\ index' = index + 1 /\ result' = "none"
      BY <1>2, <1>3, <1>9, <2>3
    <3>2. Fresh'
      <4>1. \A p \in out : p.member < index + 1
        <5>1. \A p \in out : p.member < index \/ p.member = index
          BY <1>1, <1>3 DEF Tally, Fresh
        <5>2. \A p \in out : p.member \in Nat
          BY MemberFacts DEF Inv, Wrote, Given
        <5> QED BY <1>1, <5>1, <5>2
      <4> QED BY <1>1, <2>1, <3>1, <4>1 DEF Fresh
    <3>3. InHand' = 0 /\ produced' + 0 = produced + inflated
      BY <1>1, <2>1, <3>1 DEF InHand
    <3>4. Sums'
      BY <1>1, <1>5, <1>6, <2>3, <3>1, <3>3, Static DEF Sums, Ending
    <3>5. Whole(index)
      BY <1>1, <1>3, <2>3 DEF Tally, Sizes, Whole, Expected, RowOf
    <3>6. \A i \in DOMAIN Members : i < index' => Whole(i)
      <4>1. \A i \in DOMAIN Members : i < index' => i < index \/ i = index
        BY <1>1, <3>1, MemberFacts DEF Inv, Given
      <4> QED BY <1>1, <2>3, <3>5, <4>1 DEF Tally, Sizes, Reading
    <3>7. \A i : Whole(i)' = Whole(i)
      BY <1>1, <1>4, <1>5, Static DEF Whole
    <3>8. Sizes'
      BY <1>1, <3>1, <3>6, <3>7, Static DEF Sizes
    <3> QED BY <3>2, <3>4, <3>8 DEF Tally
  <2> QED BY <2>2, <2>3
<1> QED BY <1>8, <1>9

\* A member nothing encrypts is written, or part of it.
LEMMA PassOverTally ==
  ASSUME Inv, Inv', Tally, stage = "members", index \in DOMAIN Members, ~Planned(index),
         UNCHANGED <<call, plans, inflated, produced>>, IsFiniteSet(out'), out \subseteq out',
         \A p \in out' : p \in out \/ (p.member = index /\ p.block \in Nat /\ p.units \in Nat),
         \/ Ends("Zip") /\ index' = index
         \/ /\ stage' = "members" /\ index' = index + 1 /\ result' = result
            /\ \E p \in out' : p.member = index
  PROVE  Tally'
<1>1. /\ index \in Nat /\ inflated \in Nat /\ produced \in Nat /\ ~Wholesome /\ result = "none"
      /\ \A p \in out : p.block \in Nat /\ p.units \in Nat
  BY DEF Inv, Given, At, Results, Ending, Tally, Fresh
<1>2. \A i : Planned(i)' = Planned(i)
  BY SameOut
<1>3. Plaintext' = Plaintext
  BY <1>2 DEF Plaintext
<1>4. IsFiniteSet(out') /\ \A p \in out' : p.block \in Nat /\ p.units \in Nat
  BY <1>1
<1>5. CASE Ends("Zip") /\ index' = index
  <2>1. stage' = "returning" /\ result' # "ok"
    BY <1>5 DEF Ends
  <2>2. Fresh'
    BY <1>1, <1>4, <2>1 DEF Fresh, Ending
  <2>3. Sums' /\ Sizes'
    BY <1>1, <2>1, Static DEF Sums, Sizes, Ending, Reading
  <2> QED BY <2>2, <2>3 DEF Tally
<1>6. CASE /\ stage' = "members" /\ index' = index + 1 /\ result' = result
           /\ \E p \in out' : p.member = index
  <2>1. Fresh'
    <3>1. \A p \in out : p.member < index /\ p.member \in Nat
      BY MemberFacts DEF Inv, Given, Wrote, Tally, Fresh, Ending
    <3>2. \A p \in out' : p.member < index + 1
      BY <1>1, <3>1
    <3> QED BY <1>1, <1>4, <1>6, <3>2 DEF Fresh
  <2>2. Sums'
    <3>1. InHand' = InHand
      BY <1>6 DEF InHand
    <3> QED BY <1>1, <1>3, <1>6, <3>1, Static DEF Tally, Sums, Ending
  <2>3. \A i \in DOMAIN Members : i < index => Whole(i)'
    <3> SUFFICES ASSUME NEW i \in DOMAIN Members, i < index PROVE Whole(i)'
      OBVIOUS
    <3>1. Whole(i)
      BY <1>1 DEF Tally, Sizes
    <3>2. i # index
      BY <1>1
    <3>3. Of(i)' = Of(i)
      BY <3>2 DEF Of
    <3> QED BY <1>2, <3>1, <3>3, Static DEF Whole
  <2>4. \A i : i = index => Whole(i)'
    BY <1>2, <1>6 DEF Whole, Of
  <2>5. \A i \in DOMAIN Members : i < index' => i < index \/ i = index
    BY <1>1, <1>6, MemberFacts DEF Inv, Given
  <2>6. Sizes'
    BY <1>1, <1>6, <2>3, <2>4, <2>5, Static DEF Sizes
  <2> QED BY <2>1, <2>2, <2>6 DEF Tally
<1> QED BY <1>5, <1>6

LEMMA WriteManifestTally == ASSUME Inv, Inv', Tally, WriteManifest PROVE Tally'
<1>1. /\ stage = "members" /\ stage' = stage /\ index \in DOMAIN Members /\ ~Planned(index)
      /\ index' = index + 1 /\ out' = out \cup {Piece(index, 1)}
      /\ UNCHANGED <<call, plans, inflated, produced, result>>
      /\ IsFiniteSet(out) /\ call \in Calls
  BY DEF WriteManifest, Planned, Keep, planned, Tally, Fresh, Inv, Given
<1>2. /\ Piece(index, 1).member = index /\ Piece(index, 1).block = 1
      /\ Piece(index, 1).units = Blocks(index)[1].units
  BY DEF Piece
<1>3. Blocks(index)[1].units \in Nat
  BY <1>1, MemberFacts
<1>4. IsFiniteSet(out')
  BY <1>1, FS_AddElement
<1>5. \A p \in out' : p \in out \/ (p.member = index /\ p.block \in Nat /\ p.units \in Nat)
  BY <1>1, <1>2, <1>3
<1>6. out \subseteq out' /\ \E p \in out' : p.member = index
  BY <1>1, <1>2
<1> QED BY <1>1, <1>4, <1>5, <1>6, PassOverTally

LEMMA CopyMemberTally == ASSUME Inv, Inv', Tally, CopyMember PROVE Tally'
<1> DEFINE more == {Piece(index, b) : b \in DOMAIN Blocks(index)}
<1>1. /\ stage = "members" /\ index \in DOMAIN Members /\ ~Planned(index)
      /\ UNCHANGED <<call, plans, inflated, produced>>
      /\ IsFiniteSet(out) /\ call \in Calls
  BY DEF CopyMember, Keep, planned, Tally, Fresh, Inv, Given
<1>2. \/ out' \in {out, out \cup more} /\ Ends("Zip") /\ index' = index
      \/ out' = out \cup more /\ stage' = stage /\ index' = index + 1 /\ result' = result
  BY DEF CopyMember, Blocks
<1>3. /\ Len(Blocks(index)) \in Nat \ {0} /\ DOMAIN Blocks(index) = 1..Len(Blocks(index))
      /\ \A b \in DOMAIN Blocks(index) : Blocks(index)[b].units \in Nat
  BY <1>1, MemberFacts
<1>4. \A p \in more : p.member = index /\ p.block \in Nat /\ p.units \in Nat
  BY <1>3 DEF Piece
<1>5. IsFiniteSet(more) /\ more # {}
  <2>1. IsFiniteSet(DOMAIN Blocks(index))
    <3>1. 1 \in Int /\ Len(Blocks(index)) \in Int
      BY <1>3
    <3> QED BY <1>3, <3>1, FS_Interval, Zenon
  <2> DEFINE f == [b \in DOMAIN Blocks(index) |-> Piece(index, b)]
  <2>2. f \in Surjection(DOMAIN Blocks(index), more)
    BY DEF Surjection
  <2>3. 1 \in DOMAIN Blocks(index)
    BY <1>3
  <2>4. IsFiniteSet(more)
    BY <2>1, <2>2, FS_Surjection
  <2> QED BY <2>3, <2>4
<1> HIDE DEF more
<1>6. IsFiniteSet(out \cup more)
  BY <1>1, <1>5, FS_Union
<1>7. /\ IsFiniteSet(out') /\ out \subseteq out'
      /\ \A p \in out' : p \in out \/ (p.member = index /\ p.block \in Nat /\ p.units \in Nat)
  BY <1>1, <1>2, <1>4, <1>6
<1>8. CASE Ends("Zip") /\ index' = index
  BY <1>1, <1>7, <1>8, PassOverTally
<1>9. CASE out' = out \cup more /\ stage' = stage /\ index' = index + 1 /\ result' = result
  <2>1. \E p \in out' : p.member = index
    BY <1>4, <1>5, <1>9
  <2> QED BY <1>1, <1>7, <1>9, <2>1, PassOverTally
<1> QED BY <1>2, <1>8, <1>9

-----------------------------------------------------------------------------
LEMMA InitInv == Init => Inv
<1> SUFFICES ASSUME Init PROVE Inv
  OBVIOUS
<1>1. /\ call \in Calls /\ stage = "classified" /\ superseded = <<>> /\ index = 0 /\ candidate = 0
      /\ derived = 0 /\ block = 0 /\ dirty = {} /\ out = {} /\ result = "none" /\ verdict = "none"
      /\ changed = {} /\ plans = [i \in DOMAIN Members |-> 0]
  BY DEF Init, Members
<1>2. Given /\ Changes /\ Unplanned
  BY <1>1 DEF Given, AllStages, Early, Candidates, Changes, Unplanned
<1>3. Fits
  BY <1>1 DEF Fits
<1>4. At /\ Reads /\ Blames /\ Rejects /\ Opened
  BY <1>1 DEF At, Reads, Blames, Rejects, Opened, Reading
<1>5. EachRow /\ EachMember /\ NoneLeft /\ Wrote /\ Authentic /\ Untouched
  BY <1>1 DEF EachRow, AllScreened, Reading, EachMember, NoneLeft, Wrote, Authentic, Untouched
<1>6. Results /\ Answer
  BY <1>1 DEF Results, Answer, Ending, NeedsNoKey
<1> QED BY <1>2, <1>3, <1>4, <1>5, <1>6 DEF Inv

\* Nothing changes.
LEMMA Stutters ==
  ASSUME Inv, UNCHANGED vars
  PROVE  Inv'
<1>1. UNCHANGED <<call, row, plans, superseded, index, candidate, derived, block, dirty, out,
                  result, changed, failed>> /\ stage' = stage
  BY DEF vars
<1>2. Answer'
  BY DEF Inv, Answer, vars
<1> QED BY <1>1, <1>2, RestStep

LEMMA Step == Inv /\ [Next]_vars => Inv'
<1> SUFFICES ASSUME Inv, [Next]_vars PROVE Inv'
  OBVIOUS
<1>1. CASE ScreenClass
  BY <1>1, ScreenClassStep, Zenon
<1>2. CASE ScreenRow
  BY <1>2, ScreenRowStep, Zenon
<1>3. CASE Derive
  BY <1>3, DeriveStep, Zenon
<1>4. CASE VerifyBlock
  BY <1>4, VerifyBlockStep, Zenon
<1>5. CASE Decide
  BY <1>5, DecideStep, Zenon
<1>6. CASE ReleaseBlock
  BY <1>6, ReleaseBlockStep, Zenon
<1>7. CASE DrainBlock
  BY <1>7, DrainBlockStep, Zenon
<1>8. CASE FinishMember
  BY <1>8, FinishMemberStep, Zenon
<1>9. CASE ManifestFails \/ WriteManifest
  BY <1>9, ManifestFailsStep, WriteManifestStep, Zenon
<1>10. CASE StartMember
  BY <1>10, StartMemberStep, Zenon
<1>11. CASE CopyMember
  BY <1>11, CopyMemberStep, Zenon
<1>12. CASE FinishZip
  BY <1>12, FinishZipStep, Zenon
<1>13. CASE Return
  BY <1>13, ReturnStep, Zenon
<1>14. CASE ReaderFails
  BY <1>14, ReaderFailsStep, Zenon
<1>15. CASE WriterFails
  BY <1>15, WriterFailsStep, Zenon
<1>16. CASE HostFails
  BY <1>16, HostFailsStep, Zenon
<1>17. CASE InputChanges
  BY <1>17, InputChangesStep, Zenon
<1>18. CASE UNCHANGED vars
  BY <1>18, Stutters, Zenon
<1> QED BY <1>1, <1>2, <1>3, <1>4, <1>5, <1>6, <1>7, <1>8, <1>9, <1>10, <1>11, <1>12, <1>13, <1>14,
           <1>15, <1>16, <1>17, <1>18, Zenon DEF Next, Run, Returned

LEMMA InitTally == Init => Tally
<1> SUFFICES ASSUME Init PROVE Tally
  OBVIOUS
<1>1. /\ call \in Calls /\ stage = "classified" /\ out = {} /\ inflated = 0 /\ produced = 0
      /\ result = "none"
  BY DEF Init
<1>2. IsFiniteSet({}) /\ Units({}) = 0 /\ Plaintext = {} /\ InHand = 0
  BY <1>1, FS_EmptySet, UnitsAdd DEF Plaintext, InHand
<1>3. Fresh
  BY <1>1, <1>2 DEF Fresh
<1>4. Sums
  BY <1>1, <1>2, CallsAssumption DEF Sums
<1>5. Sizes
  BY <1>1 DEF Sizes, Reading
<1> QED BY <1>3, <1>4, <1>5 DEF Tally

LEMMA TallyStep == Inv /\ Inv' /\ Tally /\ [Next]_vars => Tally'
<1> SUFFICES ASSUME Inv, Inv', Tally, [Next]_vars PROVE Tally'
  OBVIOUS
<1>1. CASE ScreenClass
  BY <1>1, ScreenClassTally, Zenon
<1>2. CASE ScreenRow
  BY <1>2, ScreenRowTally, Zenon
<1>3. CASE Derive
  BY <1>3, DeriveTally, Zenon
<1>4. CASE VerifyBlock
  BY <1>4, VerifyBlockTally, Zenon
<1>5. CASE Decide
  BY <1>5, DecideTally, Zenon
<1>6. CASE ReleaseBlock
  BY <1>6, ReleaseBlockTally, Zenon
<1>7. CASE DrainBlock
  BY <1>7, DrainBlockTally, Zenon
<1>8. CASE FinishMember
  BY <1>8, FinishMemberTally, Zenon
<1>9. CASE WriteManifest
  BY <1>9, WriteManifestTally, Zenon
<1>10. CASE StartMember
  BY <1>10, StartMemberTally, Zenon
<1>11. CASE CopyMember
  BY <1>11, CopyMemberTally, Zenon
<1>12. CASE FinishZip
  BY <1>12, FinishZipTally, Zenon
<1>13. CASE \/ ManifestFails \/ Return \/ ReaderFails \/ WriterFails \/ HostFails
             \/ InputChanges \/ UNCHANGED vars
  BY <1>13, OutsideTally, Zenon
<1> QED BY <1>1, <1>2, <1>3, <1>4, <1>5, <1>6, <1>7, <1>8, <1>9, <1>10, <1>11, <1>12, <1>13, Zenon
        DEF Next, Run, Returned

THEOREM Invariance == Spec => [](Inv /\ Tally)
BY InitInv, InitTally, Step, TallyStep, PTL DEF Spec

-----------------------------------------------------------------------------
\* What Inv says of the answer, also under the steps of Rekey.
LEMMA SaysSealed == Inv => SealedStaysSealed
BY DEF Inv, Wrote, SealedStaysSealed, Plaintext

LEMMA SaysAuthentic == Inv => AuthenticOrError
<1> SUFFICES ASSUME Inv, verdict = "ok", NEW p \in Plaintext,
                    RowOf(plans[p.member]).cipher = "gcm"
             PROVE  p.sound
  BY DEF AuthenticOrError
<1>1. stage = "returned" /\ result = "ok"
  BY DEF Inv, Answer
<1> QED BY <1>1 DEF Inv, Authentic, Plaintext

LEMMA SaysChecked == Inv => EveryRowChecked
<1> SUFFICES ASSUME Inv, verdict = "ok", NEW r \in Screened, ~IsManifest(MemberOf(r))
             PROVE  Opens(r)
  BY DEF EveryRowChecked
<1>1. result = "ok" /\ superseded = <<>> /\ call \in Calls
  BY DEF Inv, Answer, NoneLeft, Given
<1>2. Kept(r)
  BY <1>1 DEF Inv, EachRow, AllScreened
<1>3. CASE Opens(r)
  BY <1>3
<1>4. CASE plans[MemberOf(r)] = r
  <2>1. Planned(MemberOf(r)) /\ MemberOf(r) \in DOMAIN Members
    BY <1>1, <1>2, MemberFacts DEF Kept, Planned
  <2>2. Opens(plans[MemberOf(r)])
    BY <1>1, <2>1 DEF Inv, EachMember
  <2> QED BY <1>4, <2>2
<1> QED BY <1>1, <1>2, <1>3, <1>4 DEF Kept

LEMMA SaysLimit == Inv /\ Tally => WithinLimit
<1> SUFFICES ASSUME Inv, Tally PROVE WithinLimit
  OBVIOUS
<1>1. verdict = "ok" => result = "ok"
  BY DEF Inv, Answer
<1> QED BY <1>1 DEF Tally, Sums, WithinLimit

LEMMA SaysBlame == Inv => BlameIsTrue
<1> SUFFICES ASSUME Inv PROVE BlameIsTrue
  OBVIOUS
<1>1. verdict = "Io" => latch \/ failed = "writer" \/ changed # {}
  BY DEF Inv, Answer, Results
<1>2. latch /\ stage = "returned" => verdict = "Io"
  BY DEF Inv, Answer
<1>3. verdict = "Inflate" => Opens(row)
  BY DEF Inv, Answer, Results
<1>4. verdict = "WrongPassword" /\ changed = {} => Refusable(row)
  BY DEF Inv, Answer, Results
<1>5. verdict = "HostCannotAllocate" => failed = "host"
  BY DEF Inv, Answer, Results
<1> QED BY <1>1, <1>2, <1>3, <1>4, <1>5 DEF BlameIsTrue, Refusable, Last, Cipher, Current, LastBlock

\* "no byte of a member reaches `writer` before LibreOffice would have accepted
\* the member": whatever the package and however the input changes, what is
\* written of an encrypted member is of a member whose check the input as given
\* passes (Wrote: a release pass is entered by an accepted key alone).
THEOREM Sealed == Spec => []SealedStaysSealed
BY Invariance, SaysSealed, PTL

\* With Ok, each block written of an AES-GCM member was sound when it was read
\* for writing, for the release pass compares the tag once more: a block it found
\* damaged either is still to be refused or has been.
THEOREM AuthenticOutput == Spec => []AuthenticOrError
BY Invariance, SaysAuthentic, PTL

\* max_output_bytes: with Ok the plaintext of all encrypted members together is
\* within the limit, and of a wholesome package what is written is whatever the
\* verdict; so long as run goes on, what is written is what was counted
\* (Sums), and no block is written twice (Fresh).
THEOREM InsideLimit == Spec => []WithinLimit
BY Invariance, SaysLimit, PTL

\* per_entry refuses what needs no key for every row before it derives a key or
\* writes a byte.
THEOREM ScreenedFirst == Spec => []ScreensFirst
<1>1. Inv => ScreensFirst
  BY DEF Inv, Results, ScreensFirst
<1> QED BY <1>1, Invariance, PTL

\* With Ok the password opens every row, of however many rows for one member: a
\* row has its member's plan, and then the rebuild has verified it, or waited
\* among the superseded rows until it was verified there.
THEOREM AllRowsChecked == Spec => []EveryRowChecked
BY Invariance, SaysChecked, PTL

\* The error decrypt_to returns blames the caller's reader or writer, the host,
\* the member or the password only where it has failed.
THEOREM TrueBlame == Spec => []BlameIsTrue
BY Invariance, SaysBlame, PTL
=============================================================================
