--------------------------- MODULE CliOutputProofs ---------------------------
(***************************************************************************)
(* Theorems about CliOutput, for any number of runs, targets, files and    *)
(* blocks, any run of which may be killed or interrupted at any step.      *)
(*                                                                         *)
(* TargetsWhole is false of runs that write beside one target at once, for *)
(* they share one temporary name (the run CliShared shows it).  It is      *)
(* proved of runs that take turns on a target.  It is not inductive: a     *)
(* rename publishes whatever the temporary name stands for by then, so Inv *)
(* says that the name still stands for the file the run wrote (Holds), or  *)
(* for none; that no other name and no other descriptor leads to that file *)
(* (Apart); and how much of it is written at each stage (Counted).         *)
(*                                                                         *)
(* The other promises each need one more invariant on top of Inv (Printed, *)
(* Guarded, Permitted, Tidy, Told) and one more fact: a step of a run      *)
(* reaches only its own names and a file nobody else leads to (Reach).     *)
(* ForceOnly and NeverMoreReadable are proved of runs that take turns too, *)
(* with other programs creating targets at any moment and a stat of the    *)
(* target failing at any time; NoLeftover and the refinement of            *)
(* OutputPromise for runs with a target each (Apiece).                     *)
(***************************************************************************)
EXTENDS CliOutput, TLAPS

\* Of two runs with one target, one waits for the other.
TakeTurns ==
  \A p, q \in Procs : p # q /\ TargetOf[p] = TargetOf[q] => p \in Before[q] \/ q \in Before[p]

\* The stages in which a run may hold its temporary open, and those in which
\* it does.
Opened  == {"register", "chmod", "read", "write", "flush", "sync", "copy", "fail", "drop"}
Writing == {"register", "chmod", "read", "write", "flush", "sync", "copy"}

Partial(p) == [k \in Block |-> IF k <= pos[p] THEN p ELSE Blank]

Typed ==
  /\ kind \in [Procs -> {"file", "scratch", "direct"}]
  /\ pc \in [Procs -> Stages \cup Ended]
  /\ file \in [Procs -> Inodes \cup {NoInode}]
  /\ pos \in [Procs -> 0..Chunks]
  /\ tgt \in [Targets -> Inodes \cup {NoInode}]
  /\ tmp \in [Names -> Inodes \cup {NoInode}]
  /\ data \in [Inodes -> [Block -> Owners \cup {Blank}]]

Turn == \A p \in Procs : pc[p] # "check" => Started(p)

\* No file has two names.
Named ==
  /\ \A t, u \in Targets : tgt[t] = tgt[u] /\ t # u => tgt[t] = NoInode
  /\ \A m, n \in Names : tmp[m] = tmp[n] /\ m # n => tmp[m] = NoInode
  /\ \A t \in Targets, n \in Names : tgt[t] = tmp[n] => tgt[t] = NoInode

Apart ==
  \A p \in Procs : file[p] # NoInode =>
    /\ pc[p] \in Opened
    /\ \A t \in Targets : tgt[t] # file[p]
    /\ \A n \in Names : n # TempName(p) => tmp[n] # file[p]
    /\ \A q \in Procs : q # p => file[q] # file[p]

Holds ==
  \A p \in Procs : pc[p] \in Writing /\ kind[p] # "direct" =>
    /\ file[p] # NoInode
    /\ tmp[TempName(p)] \in {file[p], NoInode}
    /\ data[file[p]] = Partial(p)

Counted ==
  \A p \in Procs :
    /\ pc[p] \in {"check", "install", "open", "register", "chmod"} => pos[p] = 0
    /\ pc[p] \in {"read", "write"} => pos[p] < Chunks
    /\ pc[p] \in {"flush", "sync", "copy"} => pos[p] = Chunks

Kinded ==
  \A p \in Procs :
    /\ pc[p] \in {"sync", "rename", "forget"} => kind[p] = "file"
    /\ pc[p] = "copy" => kind[p] = "scratch"
    /\ pc[p] \in {"open", "register", "chmod"} => kind[p] # "direct"
    /\ kind[p] = "direct" => file[p] = NoInode

\* What a rename is about to publish is finished.
Ready ==
  \A p \in Procs : pc[p] = "rename" =>
    tmp[TempName(p)] = NoInode \/ data[tmp[TempName(p)]] = By(p)

Inv == Typed /\ Turn /\ Named /\ Apart /\ Holds /\ Counted /\ Kinded /\ Ready /\ TargetsWhole

-----------------------------------------------------------------------------
LEMMA TempNames == ASSUME NEW p \in Procs PROVE TempName(p) \in Names
  BY CliAssumption DEF TempName, Names

\* Two runs under way never share a temporary name.
LEMMA Exclusive ==
  ASSUME TakeTurns, Turn, NEW p \in Procs, NEW q \in Procs, p # q, Live(p), Live(q),
         pc[p] # "check", pc[q] # "check"
  PROVE  TempName(p) # TempName(q)
<1> SUFFICES ASSUME TempName(p) = TempName(q) PROVE FALSE
  OBVIOUS
<1>1. TargetOf[p] \in Targets /\ TargetOf[q] \in Targets /\ Procs \cap Targets = {}
  BY CliAssumption
<1>2. TargetOf[p] = TargetOf[q]
  BY <1>1 DEF TempName
<1>3. p \in Before[q] \/ q \in Before[p]
  BY <1>2 DEF TakeTurns
<1> QED BY <1>3 DEF Turn, Started

\* A step of run p that writes nothing: it moves on to a stage its counters and
\* descriptors fit, and may close its descriptor or unlink names.
LEMMA QuietStep ==
  ASSUME Inv, NEW p \in Procs, NEW to \in (Stages \cup Ended) \ {"check"},
         Live(p), Started(p),
         pc' = [pc EXCEPT ![p] = to], UNCHANGED <<kind, pos, tgt, data>>,
         file' = file \/ file' = [file EXCEPT ![p] = NoInode],
         tmp' = tmp \/ \E n \in Names : tmp' = [tmp EXCEPT ![n] = NoInode],
         file'[p] # NoInode => to \in Opened,
         to \in Writing /\ kind[p] # "direct" => pc[p] \in Writing /\ file' = file,
         to \in {"install", "open", "register", "chmod"} => pos[p] = 0,
         to \in {"read", "write"} => pos[p] < Chunks,
         to \in {"flush", "sync", "copy"} => pos[p] = Chunks,
         to \in {"sync", "rename", "forget"} => kind[p] = "file",
         to = "copy" => kind[p] = "scratch",
         to \in {"open", "register", "chmod"} => kind[p] # "direct",
         to = "rename" => tmp[TempName(p)] = NoInode \/ data[tmp[TempName(p)]] = By(p)
  PROVE  Inv'
<1> USE DEF Inv
<1>1. Typed'
  BY DEF Typed
<1>2. \A q \in Procs : pc'[q] = IF q = p THEN to ELSE pc[q]
  BY DEF Typed
<1>3. \A q \in Procs : file'[q] = file[q] \/ (q = p /\ file'[q] = NoInode)
  BY DEF Typed
<1>4. \A n \in Names : tmp'[n] \in {tmp[n], NoInode}
  BY DEF Typed
<1>5. \A q \in Procs : TempName(q)' = TempName(q) /\ TempName(q) \in Names
  BY TempNames DEF TempName
<1>6. Turn'
  <2> SUFFICES ASSUME NEW q \in Procs, pc'[q] # "check", NEW r \in Before[q]
               PROVE  ~Live(r)'
    BY DEF Turn, Started
  <2>1. r \in Procs
    BY CliAssumption
  <2>2. Started(q)
    BY <1>2 DEF Turn
  <2> QED BY <1>2, <2>1, <2>2 DEF Started, Live
<1>7. Named'
  BY <1>4 DEF Named
<1>8. Apart'
  BY <1>2, <1>3, <1>4, <1>5 DEF Apart
<1>9. Holds'
  <2>1. \A q \in Procs : Partial(q)' = Partial(q)
    BY DEF Partial
  <2> QED BY <1>2, <1>3, <1>4, <1>5, <2>1 DEF Holds
<1>10. Counted'
  BY <1>2 DEF Counted
<1>11. Kinded'
  BY <1>2, <1>3 DEF Kinded
<1>12. Ready'
  <2> SUFFICES ASSUME NEW q \in Procs, pc'[q] = "rename"
               PROVE  tmp'[TempName(q)] = NoInode \/ data[tmp'[TempName(q)]] = By(q)
    BY <1>5 DEF Ready
  <2>1. tmp[TempName(q)] = NoInode \/ data[tmp[TempName(q)]] = By(q)
    BY <1>2 DEF Ready
  <2> QED BY <1>4, <1>5, <2>1
<1>13. TargetsWhole'
  BY DEF TargetsWhole, Exists, By
<1> QED BY <1>1, <1>6, <1>7, <1>8, <1>9, <1>10, <1>11, <1>12, <1>13

\* TempOutput::at: the temporary is a fresh file, or what a killed run left under
\* the name; no descriptor and no other name leads to it.
LEMMA OpenStep == ASSUME TakeTurns, Inv, NEW p \in Procs, Open(p) PROVE Inv'
<1> USE DEF Inv
<1> DEFINE n == TempName(p)
<1>1. /\ pc[p] = "open" /\ pc' = [pc EXCEPT ![p] = "register"]
      /\ UNCHANGED <<kind, pos, tgt>>
  BY DEF Open, Go, given
<1>2. PICK i \in Inodes :
        /\ IF tmp[n] = NoInode THEN i \notin InUse ELSE i = tmp[n]
        /\ tmp' = [tmp EXCEPT ![n] = i]
        /\ file' = [file EXCEPT ![p] = i]
        /\ data' = [data EXCEPT ![i] = Nothing]
  BY DEF Open
<1>3. n \in Names /\ \A q \in Procs : TempName(q)' = TempName(q) /\ TempName(q) \in Names
  BY <1>1, TempNames DEF TempName
<1>4. i # NoInode
  BY CliAssumption
<1>5. \A q \in Procs : pc'[q] = IF q = p THEN "register" ELSE pc[q]
  BY <1>1 DEF Typed
<1>6. \A q \in Procs : file'[q] = IF q = p THEN i ELSE file[q]
  BY <1>2 DEF Typed
<1>7. \A m \in Names : tmp'[m] = IF m = n THEN i ELSE tmp[m]
  BY <1>2 DEF Typed
<1>8. \A j \in Inodes : data'[j] = IF j = i THEN Nothing ELSE data[j]
  BY <1>2 DEF Typed
<1>9. /\ \A t \in Targets : tgt[t] # i
      /\ \A m \in Names : m # n => tmp[m] # i
  BY <1>2, <1>3, <1>4 DEF InUse, Named
\* Nobody else under way has this temporary.
<1>10. \A q \in Procs : q # p /\ Live(q) /\ pc[q] # "check" => TempName(q) # n
  <2>1. Live(p) /\ pc[p] # "check"
    BY <1>1 DEF Live, Stages
  <2> QED BY <2>1, Exclusive
<1>11. \A q \in Procs : q # p => file[q] # i
  <2> SUFFICES ASSUME NEW q \in Procs, q # p, file[q] = i PROVE FALSE
    OBVIOUS
  <2>1. pc[q] \in Opened /\ \A m \in Names : m # TempName(q) => tmp[m] # file[q]
    BY <1>4 DEF Apart
  <2>2. TempName(q) # n
    BY <1>10, <2>1 DEF Live, Stages, Opened
  <2>3. tmp[n] # i
    BY <1>3, <2>1, <2>2
  <2> QED BY <1>2, <2>3 DEF InUse
<1>12. Nothing \in [Block -> Owners \cup {Blank}]
  BY DEF Nothing
<1>13. Typed'
  BY <1>1, <1>2, <1>3, <1>12 DEF Typed, Stages
<1>14. Turn'
  <2> SUFFICES ASSUME NEW q \in Procs, pc'[q] # "check", NEW r \in Before[q]
               PROVE  ~Live(r)'
    BY DEF Turn, Started
  <2>1. r \in Procs /\ ~Live(r)
    BY <1>1, <1>5, CliAssumption DEF Turn, Started
  <2>2. r # p
    BY <1>1, <2>1 DEF Live, Stages
  <2> QED BY <1>5, <2>1, <2>2 DEF Live
<1>15. Named'
  BY <1>1, <1>7, <1>9 DEF Named
<1>16. Apart'
  <2> SUFFICES ASSUME NEW q \in Procs, file'[q] # NoInode
               PROVE  /\ pc'[q] \in Opened
                      /\ \A t \in Targets : tgt[t] # file'[q]
                      /\ \A m \in Names : m # TempName(q) => tmp'[m] # file'[q]
                      /\ \A r \in Procs : r # q => file'[r] # file'[q]
    BY <1>1, <1>3 DEF Apart
  <2>1. CASE q = p
    BY <1>5, <1>6, <1>7, <1>9, <1>11, <2>1 DEF Opened
  <2>2. CASE q # p
    BY <1>5, <1>6, <1>7, <1>11, <2>2 DEF Apart
  <2> QED BY <2>1, <2>2
<1>17. Holds'
  <2> SUFFICES ASSUME NEW q \in Procs, pc'[q] \in Writing, kind[q] # "direct"
               PROVE  /\ file'[q] # NoInode
                      /\ tmp'[TempName(q)] \in {file'[q], NoInode}
                      /\ data'[file'[q]] = Partial(q)'
    BY <1>1, <1>3 DEF Holds
  <2>1. CASE q = p
    <3>1. pos[p] = 0
      BY <1>1 DEF Counted
    <3>2. Partial(p)' = Nothing
      BY <1>1, <3>1 DEF Partial, Nothing, Block
    <3>3. file'[p] = i /\ tmp'[n] = i /\ data'[i] = Nothing
      BY <1>3, <1>6, <1>7, <1>8
    <3>4. Partial(q)' = Nothing
      BY <2>1, <3>2
    <3> QED BY <1>4, <2>1, <3>3, <3>4
  <2>2. CASE q # p
    <3>1. /\ pc[q] \in Writing /\ file[q] # NoInode /\ file[q] \in Inodes
          /\ tmp[TempName(q)] \in {file[q], NoInode} /\ data[file[q]] = Partial(q)
      BY <1>5, <2>2 DEF Holds, Typed
    <3>2. TempName(q) # n
      BY <1>10, <2>2, <3>1 DEF Live, Stages, Writing
    <3>3. Partial(q)' = Partial(q)
      BY <1>1 DEF Partial
    <3> QED BY <1>3, <1>6, <1>7, <1>8, <1>11, <2>2, <3>1, <3>2, <3>3
  <2> QED BY <2>1, <2>2
<1>18. Counted'
  BY <1>1, <1>5 DEF Counted
<1>19. Kinded'
  BY <1>1, <1>5, <1>6 DEF Kinded
<1>20. Ready'
  <2> SUFFICES ASSUME NEW q \in Procs, pc'[q] = "rename"
               PROVE  tmp'[TempName(q)] = NoInode \/ data'[tmp'[TempName(q)]] = By(q)
    BY <1>3 DEF Ready
  <2>1. q # p /\ pc[q] = "rename"
    BY <1>5
  <2>2. TempName(q) # n
    BY <1>10, <2>1 DEF Live, Stages
  <2>3. tmp'[TempName(q)] = tmp[TempName(q)] /\ tmp[TempName(q)] # i
    BY <1>3, <1>7, <1>9, <2>2
  <2> QED BY <1>3, <1>8, <2>1, <2>3 DEF Ready, Typed
<1>21. TargetsWhole'
  <2> SUFFICES ASSUME NEW t \in Targets, tgt[t] # NoInode
               PROVE  \E w \in Owners : data'[tgt[t]] = By(w)
    BY <1>1 DEF TargetsWhole, Exists
  <2> QED BY <1>8, <1>9 DEF TargetsWhole, Exists, Typed
<1> QED BY <1>13, <1>14, <1>15, <1>16, <1>17, <1>18, <1>19, <1>20, <1>21

\* A block written to the open temporary reaches nobody else's file.
LEMMA WriteStep == ASSUME TakeTurns, Inv, NEW p \in Procs, Write(p) PROVE Inv'
<1> USE DEF Inv
<1> DEFINE k  == pos[p] + 1
           to == IF k = Chunks THEN "flush" ELSE "read"
<1>1. /\ pc[p] = "write" /\ pc' = [pc EXCEPT ![p] = to]
      /\ pos' = [pos EXCEPT ![p] = k]
      /\ UNCHANGED <<kind, file, tgt, tmp>>
  BY DEF Write, Go, given
<1>2. pos[p] \in 0..Chunks /\ pos[p] < Chunks /\ Chunks \in Nat
  BY <1>1, CliAssumption DEF Counted, Typed
<1>3. k \in 0..Chunks /\ k \in Block /\ to \in {"flush", "read"}
  BY <1>2 DEF Block
<1>4. \A q \in Procs : pc'[q] = IF q = p THEN to ELSE pc[q]
  BY <1>1 DEF Typed
<1>5. \A q \in Procs : pos'[q] = IF q = p THEN k ELSE pos[q]
  BY <1>1 DEF Typed
<1>6. \A q \in Procs : TempName(q)' = TempName(q) /\ TempName(q) \in Names
  BY <1>1, TempNames DEF TempName
<1>7. p \in Owners
  BY DEF Owners
\* Only the file this run holds open changes.
<1>8. /\ data' \in [Inodes -> [Block -> Owners \cup {Blank}]]
      /\ \A j \in Inodes : j # file[p] => data'[j] = data[j]
      /\ kind[p] # "direct" => data'[file[p]] = [data[file[p]] EXCEPT ![k] = p]
  <2>1. CASE kind[p] = "direct"
    BY <2>1 DEF Write, Typed
  <2>2. CASE kind[p] # "direct"
    <3>1. file[p] \in Inodes
      BY <1>1, <2>2 DEF Holds, Typed, Writing
    <3>2. data' = [data EXCEPT ![file[p]][k] = p]
      BY <2>2 DEF Write
    <3>3. data[file[p]] \in [Block -> Owners \cup {Blank}]
      BY <3>1 DEF Typed
    <3>4. data' = [data EXCEPT ![file[p]] = [data[file[p]] EXCEPT ![k] = p]]
      BY <3>2
    <3>5. [data[file[p]] EXCEPT ![k] = p] \in [Block -> Owners \cup {Blank}]
      BY <1>7, <3>3
    <3> QED BY <3>1, <3>4, <3>5 DEF Typed
  <2> QED BY <2>1, <2>2
<1>9. Typed'
  BY <1>1, <1>3, <1>8 DEF Typed, Stages
<1>10. Turn'
  <2> SUFFICES ASSUME NEW q \in Procs, pc'[q] # "check", NEW r \in Before[q]
               PROVE  ~Live(r)'
    BY DEF Turn, Started
  <2>1. r \in Procs /\ ~Live(r)
    BY <1>1, <1>4, CliAssumption DEF Turn, Started
  <2>2. r # p
    BY <1>1, <2>1 DEF Live, Stages
  <2> QED BY <1>4, <2>1, <2>2 DEF Live
<1>11. Named'
  BY <1>1 DEF Named
<1>12. Apart'
  BY <1>1, <1>3, <1>4, <1>6 DEF Apart, Opened
<1>13. Holds'
  <2> SUFFICES ASSUME NEW q \in Procs, pc'[q] \in Writing, kind[q] # "direct"
               PROVE  /\ file[q] # NoInode
                      /\ tmp[TempName(q)] \in {file[q], NoInode}
                      /\ data'[file[q]] = Partial(q)'
    BY <1>1, <1>6 DEF Holds
  <2>1. /\ file[q] # NoInode /\ file[q] \in Inodes
        /\ tmp[TempName(q)] \in {file[q], NoInode} /\ data[file[q]] = Partial(q)
    BY <1>1, <1>4 DEF Holds, Typed, Writing
  <2>2. CASE q = p
    <3>1. data'[file[p]] = [data[file[p]] EXCEPT ![k] = p]
      BY <1>8, <2>2
    <3>2. data[file[p]] = Partial(p)
      BY <2>1, <2>2
    <3>3. Partial(p)' = [b \in Block |-> IF b <= k THEN p ELSE Blank]
      BY <1>5 DEF Partial
    <3>4. [Partial(p) EXCEPT ![k] = p] = [b \in Block |-> IF b <= k THEN p ELSE Blank]
      <4>1. \A b \in Block : b <= k <=> b <= pos[p] \/ b = k
        BY <1>2 DEF Block
      <4> QED BY <4>1 DEF Partial
    <3> QED BY <2>1, <2>2, <3>1, <3>2, <3>3, <3>4
  <2>3. CASE q # p
    <3>1. file[q] # file[p]
      BY <2>1, <2>3 DEF Apart
    <3>2. Partial(q)' = Partial(q)
      BY <1>5, <2>3 DEF Partial
    <3> QED BY <1>8, <2>1, <3>1, <3>2
  <2> QED BY <2>2, <2>3
<1>14. Counted'
  BY <1>2, <1>3, <1>4, <1>5 DEF Counted
<1>15. Kinded'
  BY <1>1, <1>3, <1>4 DEF Kinded
<1>16. Ready'
  <2> SUFFICES ASSUME NEW q \in Procs, pc'[q] = "rename", tmp[TempName(q)] # NoInode
               PROVE  data'[tmp[TempName(q)]] = By(q)
    BY <1>1, <1>6 DEF Ready
  <2>1. pc[q] = "rename" /\ q # p
    BY <1>3, <1>4
  <2>2. TempName(q) # TempName(p)
    BY <1>1, <2>1, Exclusive DEF Live, Stages
  <2>3. tmp[TempName(q)] # file[p]
    BY <1>6, <2>2 DEF Apart
  <2>4. tmp[TempName(q)] \in Inodes /\ data[tmp[TempName(q)]] = By(q)
    BY <1>6, <2>1 DEF Ready, Typed
  <2> QED BY <1>8, <2>3, <2>4
<1>17. TargetsWhole'
  <2> SUFFICES ASSUME NEW t \in Targets, tgt[t] # NoInode
               PROVE  \E w \in Owners : data'[tgt[t]] = By(w)
    BY <1>1 DEF TargetsWhole, Exists
  <2>1. tgt[t] \in Inodes /\ tgt[t] # file[p]
    BY DEF Apart, Typed
  <2> QED BY <1>8, <2>1 DEF TargetsWhole, Exists
<1> QED BY <1>9, <1>10, <1>11, <1>12, <1>13, <1>14, <1>15, <1>16, <1>17

\* TempOutput::commit: the name moved over the target stands for a finished file.
LEMMA RenameStep == ASSUME TakeTurns, Inv, NEW p \in Procs, Rename(p) PROVE Inv'
<1> USE DEF Inv
<1> DEFINE n == TempName(p)
           i == tmp[n]
<1>1. /\ pc[p] = "rename" /\ pc' = [pc EXCEPT ![p] = "forget"] /\ i # NoInode
      /\ tgt' = [tgt EXCEPT ![n] = i] /\ tmp' = [tmp EXCEPT ![n] = NoInode]
      /\ UNCHANGED <<kind, file, pos, data>>
  BY DEF Rename, Go, given
<1>2. kind[p] = "file" /\ n \in Targets /\ n \in Names
  BY <1>1, CliAssumption DEF Kinded, TempName, Names
<1>3. i \in Inodes /\ data[i] = By(p)
  BY <1>1, <1>2 DEF Ready, Typed
<1>4. \A q \in Procs : pc'[q] = IF q = p THEN "forget" ELSE pc[q]
  BY <1>1 DEF Typed
<1>5. \A t \in Targets : tgt'[t] = IF t = n THEN i ELSE tgt[t]
  BY <1>1 DEF Typed
<1>6. \A m \in Names : tmp'[m] = IF m = n THEN NoInode ELSE tmp[m]
  BY <1>1 DEF Typed
<1>7. \A q \in Procs : TempName(q)' = TempName(q) /\ TempName(q) \in Names
  BY <1>1, TempNames DEF TempName
\* Nobody has the file open that becomes the target.
<1>8. \A q \in Procs : file[q] # i
  <2> SUFFICES ASSUME NEW q \in Procs, file[q] = i PROVE FALSE
    OBVIOUS
  <2>1. pc[q] \in Opened /\ \A m \in Names : m # TempName(q) => tmp[m] # file[q]
    BY <1>1 DEF Apart
  <2>2. TempName(q) = n
    BY <1>2, <2>1
  <2>3. q # p
    BY <1>1, <2>1 DEF Opened
  <2> QED BY <1>1, <2>1, <2>2, <2>3, Exclusive DEF Live, Stages, Opened
<1>9. Typed'
  BY <1>1, <1>2, <1>3 DEF Typed, Stages
<1>10. Turn'
  <2> SUFFICES ASSUME NEW q \in Procs, pc'[q] # "check", NEW r \in Before[q]
               PROVE  ~Live(r)'
    BY DEF Turn, Started
  <2>1. r \in Procs /\ ~Live(r)
    BY <1>1, <1>4, CliAssumption DEF Turn, Started
  <2>2. r # p
    BY <1>1, <2>1 DEF Live, Stages
  <2> QED BY <1>4, <2>1, <2>2 DEF Live
<1>11. Named'
  <2>1. \A t \in Targets : t # n => tgt[t] # i
    BY <1>1, <1>2 DEF Named
  <2>2. \A m \in Names : m # n => tmp[m] # i
    BY <1>1, <1>2 DEF Named
  <2>3. \A t, u \in Targets : tgt'[t] = tgt'[u] /\ t # u => tgt'[t] = NoInode
    BY <1>5, <2>1 DEF Named
  <2>4. \A m, l \in Names : tmp'[m] = tmp'[l] /\ m # l => tmp'[m] = NoInode
    BY <1>6 DEF Named
  <2>5. \A t \in Targets, m \in Names : tgt'[t] = tmp'[m] => tgt'[t] = NoInode
    BY <1>1, <1>5, <1>6, <2>2 DEF Named
  <2> QED BY <2>3, <2>4, <2>5 DEF Named
<1>12. Apart'
  <2> SUFFICES ASSUME NEW q \in Procs, file[q] # NoInode
               PROVE  /\ pc'[q] \in Opened
                      /\ \A t \in Targets : tgt'[t] # file[q]
                      /\ \A m \in Names : m # TempName(q) => tmp'[m] # file[q]
                      /\ \A r \in Procs : r # q => file[r] # file[q]
    BY <1>1, <1>7 DEF Apart
  <2>1. pc[q] \in Opened /\ q # p
    BY <1>1 DEF Apart, Opened
  <2> QED BY <1>4, <1>5, <1>6, <1>8, <2>1 DEF Apart
<1>13. Holds'
  <2> SUFFICES ASSUME NEW q \in Procs, pc'[q] \in Writing, kind[q] # "direct"
               PROVE  /\ file[q] # NoInode
                      /\ tmp'[TempName(q)] \in {file[q], NoInode}
                      /\ data[file[q]] = Partial(q)'
    BY <1>1, <1>7 DEF Holds
  <2>1. pc[q] \in Writing
    BY <1>4 DEF Writing
  <2>2. Partial(q)' = Partial(q)
    BY <1>1 DEF Partial
  <2> QED BY <1>6, <1>7, <2>1, <2>2 DEF Holds
<1>14. Counted'
  BY <1>1, <1>4 DEF Counted
<1>15. Kinded'
  BY <1>1, <1>2, <1>4 DEF Kinded
<1>16. Ready'
  <2> SUFFICES ASSUME NEW q \in Procs, pc'[q] = "rename", tmp'[TempName(q)] # NoInode
               PROVE  data[tmp'[TempName(q)]] = By(q)
    BY <1>1, <1>7 DEF Ready
  <2>1. pc[q] = "rename" /\ tmp'[TempName(q)] = tmp[TempName(q)]
    BY <1>4, <1>6, <1>7
  <2> QED BY <2>1 DEF Ready
<1>17. TargetsWhole'
  <2> SUFFICES ASSUME NEW t \in Targets, tgt'[t] # NoInode
               PROVE  \E w \in Owners : data[tgt'[t]] = By(w)
    BY <1>1 DEF TargetsWhole, Exists
  <2>1. CASE t = n
    BY <1>3, <1>5, <2>1 DEF Owners
  <2>2. CASE t # n
    BY <1>5, <2>2 DEF TargetsWhole, Exists
  <2> QED BY <2>1, <2>2
<1> QED BY <1>9, <1>10, <1>11, <1>12, <1>13, <1>14, <1>15, <1>16, <1>17

\* Another program's new target is a file of its own, and complete.
LEMMA IntrudeStep == ASSUME Inv, NEW t \in Targets, Intrude(t) PROVE Inv'
<1> USE DEF Inv
<1>1. tgt[t] = NoInode /\ UNCHANGED <<kind, pc, file, pos, tmp>>
  BY DEF Intrude, given, Exists
<1>2. PICK i \in Inodes \ InUse :
        /\ tgt' = [tgt EXCEPT ![t] = i]
        /\ data' = [data EXCEPT ![i] = By(Other)]
  BY DEF Intrude
<1>3. /\ \A u \in Targets : tgt[u] # i
      /\ \A n \in Names : tmp[n] # i
      /\ \A p \in Procs : file[p] # i
  BY <1>2 DEF InUse
<1>4. \A u \in Targets : tgt'[u] = IF u = t THEN i ELSE tgt[u]
  BY <1>2 DEF Typed
<1>5. \A j \in Inodes : data'[j] = IF j = i THEN By(Other) ELSE data[j]
  BY <1>2 DEF Typed
<1>6. \A p \in Procs : TempName(p)' = TempName(p) /\ TempName(p) \in Names
  BY <1>1, TempNames DEF TempName
<1>7. Typed'
  <2>1. By(Other) \in [Block -> Owners \cup {Blank}]
    BY DEF By, Owners
  <2> QED BY <1>1, <1>2, <2>1 DEF Typed
<1>8. Turn' /\ Counted' /\ Kinded'
  BY <1>1 DEF Turn, Started, Live, Counted, Kinded
<1>9. Named'
  BY <1>1, <1>3, <1>4 DEF Named
<1>10. Apart'
  BY <1>1, <1>3, <1>4, <1>6 DEF Apart
<1>11. Holds'
  <2> SUFFICES ASSUME NEW p \in Procs, pc[p] \in Writing, kind[p] # "direct"
               PROVE  /\ file[p] # NoInode
                      /\ tmp[TempName(p)] \in {file[p], NoInode}
                      /\ data'[file[p]] = Partial(p)'
    BY <1>1, <1>6 DEF Holds
  <2>1. Partial(p)' = Partial(p)
    BY <1>1 DEF Partial
  <2> QED BY <1>3, <1>5, <2>1 DEF Holds, Typed
<1>12. Ready'
  <2> SUFFICES ASSUME NEW p \in Procs, pc[p] = "rename", tmp[TempName(p)] # NoInode
               PROVE  data'[tmp[TempName(p)]] = By(p)
    BY <1>1, <1>6 DEF Ready
  <2> QED BY <1>3, <1>5, <1>6 DEF Ready, Typed
<1>13. TargetsWhole'
  <2> SUFFICES ASSUME NEW u \in Targets, tgt'[u] # NoInode
               PROVE  \E w \in Owners : data'[tgt'[u]] = By(w)
    BY DEF TargetsWhole, Exists
  <2>1. CASE u = t
    BY <1>2, <1>4, <1>5, <2>1 DEF Owners
  <2>2. CASE u # t
    BY <1>3, <1>4, <1>5, <2>2 DEF TargetsWhole, Exists, Typed
  <2> QED BY <2>1, <2>2
<1> QED BY <1>7, <1>8, <1>9, <1>10, <1>11, <1>12, <1>13

LEMMA Initially == Init => Inv
<1> SUFFICES ASSUME Init PROVE Inv
  OBVIOUS
<1>1. \A w \in Owners \cup {Blank} : By(w) \in [Block -> Owners \cup {Blank}]
  BY DEF By
<1>2. Nothing \in [Block -> Owners \cup {Blank}] /\ Old \in Owners
  BY DEF Nothing, Owners
<1>3. data \in [Inodes -> [Block -> Owners \cup {Blank}]]
  BY <1>1, <1>2 DEF Init
<1>4. Typed
  <2>1. kind \in [Procs -> {"file", "scratch", "direct"}]
    BY CliAssumption DEF Init
  <2>2. 0 \in 0..Chunks /\ "check" \in Stages
    BY CliAssumption DEF Stages
  <2>3. /\ pc \in [Procs -> Stages \cup Ended] /\ file \in [Procs -> Inodes \cup {NoInode}]
        /\ pos \in [Procs -> 0..Chunks]
    BY <2>2 DEF Init
  <2>4. /\ tgt \in [Targets -> Inodes \cup {NoInode}]
        /\ tmp \in [Names -> Inodes \cup {NoInode}]
    BY DEF Init
  <2> QED BY <1>3, <2>1, <2>3, <2>4 DEF Typed
<1>5. /\ \A p \in Procs : pc[p] = "check" /\ file[p] = NoInode /\ pos[p] = 0
      /\ \A n \in Names : tmp[n] = NoInode
  BY DEF Init
<1>6. Turn /\ Apart
  BY <1>5 DEF Turn, Apart
<1>7. Holds /\ Counted /\ Kinded /\ Ready
  BY <1>5 DEF Holds, Counted, Kinded, Ready, Writing
<1>8. Named
  BY <1>5 DEF Init, Named, Exists
<1>9. TargetsWhole
  <2> SUFFICES ASSUME NEW t \in Targets, tgt[t] # NoInode
               PROVE  \E w \in Owners : data[tgt[t]] = By(w)
    BY DEF TargetsWhole, Exists
  <2>1. tgt[t] \in Inodes
    BY <1>4 DEF Typed
  <2>2. data[tgt[t]] = By(Old)
    BY <2>1 DEF Init
  <2> QED BY <1>2, <2>2
<1> QED BY <1>4, <1>6, <1>7, <1>8, <1>9 DEF Inv

\* Started(p) of a run that is live and past its start.
LEMMA HasStarted ==
  ASSUME Inv, NEW p \in Procs, pc[p] # "check" PROVE Started(p)
  BY DEF Inv, Turn

LEMMA Step == TakeTurns /\ Inv /\ [Next]_vars => Inv'
<1> SUFFICES ASSUME TakeTurns, Inv, [Next]_vars PROVE Inv'
  OBVIOUS
<1>1. CASE UNCHANGED vars
  <2>1. UNCHANGED <<kind, pc, file, pos, tgt, tmp, data>>
    BY <1>1 DEF vars
  <2> QED BY <2>1 DEF Inv, Typed, Turn, Started, Live, Named, Apart, Holds, Counted, Kinded,
                  Ready, TargetsWhole, Exists, TempName, Partial
<1>2. ASSUME NEW p \in Procs, Main(p) PROVE Inv'
  <2>1. CASE Check(p)
    <3>1. PICK to \in {"exit", "install"} : pc' = [pc EXCEPT ![p] = to]
      BY <2>1 DEF Check
    <3>2. /\ pc[p] = "check" /\ Started(p)
          /\ UNCHANGED <<kind, file, pos, tgt, tmp, data>>
      BY <2>1 DEF Check, given, fs
    <3>3. file[p] = NoInode /\ pos[p] = 0
      BY <3>2 DEF Inv, Apart, Opened, Counted
    <3> QED BY <3>1, <3>2, <3>3, QuietStep DEF Live, Stages, Writing
  <2>2. CASE Install(p)
    <3>1. PICK to \in {"read", "open"} :
            /\ pc' = [pc EXCEPT ![p] = to]
            /\ to = (IF kind[p] = "direct" THEN "read" ELSE "open")
      BY <2>2 DEF Install, Go
    <3>2. pc[p] = "install" /\ UNCHANGED <<kind, file, pos, tgt, tmp, data>>
      BY <2>2 DEF Install, Go, given, fs
    <3>3. file[p] = NoInode /\ pos[p] = 0 /\ pos[p] < Chunks
      BY <3>2, CliAssumption DEF Inv, Apart, Opened, Counted
    <3> QED BY <3>1, <3>2, <3>3, HasStarted, QuietStep DEF Live, Stages, Writing
  <2>3. CASE Open(p)
    BY <2>3, OpenStep
  <2>4. CASE OpenFails(p)
    <3>1. /\ pc[p] = "open" /\ pc' = [pc EXCEPT ![p] = "exit"]
          /\ UNCHANGED <<kind, file, pos, tgt, tmp, data>>
      BY <2>4 DEF OpenFails, Go, given, fs
    <3>2. file[p] = NoInode
      BY <3>1 DEF Inv, Apart, Opened
    <3> QED BY <3>1, <3>2, HasStarted, QuietStep DEF Live, Stages, Writing
  <2>5. CASE Register(p)
    <3>1. /\ pc[p] = "register" /\ pc' = [pc EXCEPT ![p] = "chmod"]
          /\ UNCHANGED <<kind, file, pos, tgt, tmp, data>>
      BY <2>5 DEF Register, Go, given, fs
    <3>2. kind[p] # "direct" /\ pos[p] = 0
      BY <3>1 DEF Inv, Kinded, Counted
    <3> QED BY <3>1, <3>2, HasStarted, QuietStep DEF Live, Stages, Writing, Opened
  <2>6. CASE Chmod(p)
    <3>1. /\ pc[p] = "chmod" /\ pc' = [pc EXCEPT ![p] = "read"]
          /\ UNCHANGED <<kind, file, pos, tgt, tmp, data>>
      BY <2>6 DEF Chmod, Go, given
    <3>2. pos[p] < Chunks
      BY <3>1, CliAssumption DEF Inv, Counted
    <3> QED BY <3>1, <3>2, HasStarted, QuietStep DEF Live, Stages, Writing, Opened
  <2>7. CASE ChmodFails(p)
    <3>1. /\ pc[p] = "chmod" /\ pc' = [pc EXCEPT ![p] = "drop"]
          /\ UNCHANGED <<kind, file, pos, tgt, tmp, data>>
      BY <2>7 DEF ChmodFails, Go, given, fs
    <3> QED BY <3>1, HasStarted, QuietStep DEF Live, Stages, Writing, Opened
  <2>8. CASE Read(p)
    <3>1. /\ pc[p] = "read" /\ pc' = [pc EXCEPT ![p] = "write"]
          /\ UNCHANGED <<kind, file, pos, tgt, tmp, data>>
      BY <2>8 DEF Read, Go, given, fs
    <3>2. pos[p] < Chunks
      BY <3>1 DEF Inv, Counted
    <3> QED BY <3>1, <3>2, HasStarted, QuietStep DEF Live, Stages, Writing, Opened
  <2>9. CASE Write(p)
    BY <2>9, WriteStep
  <2>10. CASE Flush(p)
    <3>1. kind[p] \in {"file", "scratch", "direct"}
      BY DEF Inv, Typed
    <3>2. PICK to \in {"sync", "copy", "finish"} :
            /\ pc' = [pc EXCEPT ![p] = to]
            /\ to = (CASE kind[p] = "file"    -> "sync"
                       [] kind[p] = "scratch" -> "copy"
                       [] kind[p] = "direct"  -> "finish")
      BY <2>10, <3>1 DEF Flush, Go
    <3>3. to = "sync" => kind[p] = "file"
      BY <3>1, <3>2
    <3>4. to = "copy" => kind[p] = "scratch"
      BY <3>1, <3>2
    <3>5. to = "finish" => kind[p] = "direct"
      BY <3>1, <3>2
    <3>6. pc[p] = "flush" /\ UNCHANGED <<kind, file, pos, tgt, tmp, data>>
      BY <2>10 DEF Flush, Go, given, fs
    <3>7. pos[p] = Chunks /\ (kind[p] = "direct" => file[p] = NoInode)
      BY <3>6 DEF Inv, Counted, Kinded
    <3> QED BY <3>2, <3>3, <3>4, <3>5, <3>6, <3>7, HasStarted, QuietStep
            DEF Live, Stages, Writing, Opened
  <2>11. ASSUME NEW r \in {"io", "failed"}, RunFails(p, r) PROVE Inv'
    <3>1. /\ pc[p] \in {"read", "write", "flush"} /\ pc' = [pc EXCEPT ![p] = "fail"]
          /\ UNCHANGED <<kind, file, pos, tgt, tmp, data>>
      BY <2>11 DEF RunFails, given, fs
    <3> QED BY <3>1, HasStarted, QuietStep DEF Live, Stages, Writing, Opened
  <2>12. CASE Sync(p)
    <3>1. /\ pc[p] = "sync" /\ pc' = [pc EXCEPT ![p] = "rename"]
          /\ file' = [file EXCEPT ![p] = NoInode]
          /\ UNCHANGED <<kind, pos, tgt, tmp, data>>
      BY <2>12 DEF Sync, Go, given, fs
    <3>2. kind[p] = "file" /\ pos[p] = Chunks /\ file'[p] = NoInode
      BY <3>1 DEF Inv, Kinded, Counted, Typed
    <3>3. tmp[TempName(p)] \in {file[p], NoInode} /\ data[file[p]] = Partial(p)
      BY <3>1, <3>2 DEF Inv, Holds, Writing
    <3>4. Partial(p) = By(p)
      BY <3>2, CliAssumption DEF Partial, By, Block
    <3> QED BY <3>1, <3>2, <3>3, <3>4, HasStarted, QuietStep DEF Live, Stages, Writing
  <2>13. CASE Rename(p)
    BY <2>13, RenameStep
  <2>14. CASE Forget(p)
    <3>1. /\ pc[p] = "forget" /\ pc' = [pc EXCEPT ![p] = "finish"]
          /\ UNCHANGED <<kind, file, pos, tgt, tmp, data>>
      BY <2>14 DEF Forget, Go, given, fs
    <3>2. file[p] = NoInode
      BY <3>1 DEF Inv, Apart, Opened
    <3> QED BY <3>1, <3>2, HasStarted, QuietStep DEF Live, Stages, Writing
  <2>15. CASE Copy(p)
    <3>1. /\ pc[p] = "copy" /\ pc' = [pc EXCEPT ![p] = "drop"]
          /\ UNCHANGED <<kind, file, pos, tgt, tmp, data>>
      BY <2>15 DEF Copy, Go, given, fs
    <3> QED BY <3>1, HasStarted, QuietStep DEF Live, Stages, Writing, Opened
  <2>16. ASSUME NEW k \in 0..Chunks, CopyFails(p, k) PROVE Inv'
    <3>1. /\ pc[p] = "copy" /\ pc' = [pc EXCEPT ![p] = "drop"]
          /\ UNCHANGED <<kind, file, pos, tgt, tmp, data>>
      BY <2>16 DEF CopyFails, Go, given, fs
    <3> QED BY <3>1, HasStarted, QuietStep DEF Live, Stages, Writing, Opened
  <2>17. CASE CommitFails(p)
    <3>1. /\ pc[p] \in {"sync", "rename"} /\ pc' = [pc EXCEPT ![p] = "drop"]
          /\ UNCHANGED <<kind, file, pos, tgt, tmp, data>>
      BY <2>17 DEF CommitFails, given, fs
    <3> QED BY <3>1, HasStarted, QuietStep DEF Live, Stages, Writing, Opened
  <2>18. CASE Fail(p)
    <3>1. PICK to \in {"exit", "drop"} :
            /\ pc' = [pc EXCEPT ![p] = to]
            /\ to = (IF kind[p] = "direct" THEN "exit" ELSE "drop")
      BY <2>18 DEF Fail, Go
    <3>2. pc[p] = "fail" /\ UNCHANGED <<kind, file, pos, tgt, tmp, data>>
      BY <2>18 DEF Fail, Go, given, fs
    <3>3. kind[p] = "direct" => file[p] = NoInode
      BY DEF Inv, Kinded
    <3> QED BY <3>1, <3>2, <3>3, HasStarted, QuietStep DEF Live, Stages, Writing, Opened
  <2>19. CASE Drop(p)
    <3>1. /\ pc[p] = "drop" /\ pc' = [pc EXCEPT ![p] = "dropped"]
          /\ file' = [file EXCEPT ![p] = NoInode]
          /\ tmp' = [tmp EXCEPT ![TempName(p)] = NoInode]
          /\ UNCHANGED <<kind, pos, tgt, data>>
      BY <2>19 DEF Drop, Go, given
    <3>2. file'[p] = NoInode
      BY <3>1 DEF Inv, Typed
    <3> QED BY <3>1, <3>2, HasStarted, TempNames, QuietStep DEF Live, Stages, Writing
  <2>20. CASE Dropped(p)
    <3>1. PICK to \in {"finish", "exit"} : pc' = [pc EXCEPT ![p] = to]
      BY <2>20 DEF Dropped, Go
    <3>2. pc[p] = "dropped" /\ UNCHANGED <<kind, file, pos, tgt, tmp, data>>
      BY <2>20 DEF Dropped, Go, given, fs
    <3>3. file[p] = NoInode
      BY <3>2 DEF Inv, Apart, Opened
    <3> QED BY <3>1, <3>2, <3>3, HasStarted, QuietStep DEF Live, Stages, Writing
  <2>21. CASE Finish(p) \/ Return(p)
    <3>1. PICK to \in {"exit", "returned"} : pc' = [pc EXCEPT ![p] = to]
      BY <2>21 DEF Finish, Return, Go
    <3>2. /\ pc[p] \in {"finish", "exit"}
          /\ UNCHANGED <<kind, file, pos, tgt, tmp, data>>
      BY <2>21 DEF Finish, Return, Go, given, fs
    <3>3. file[p] = NoInode
      BY <3>2 DEF Inv, Apart, Opened
    <3> QED BY <3>1, <3>2, <3>3, HasStarted, QuietStep DEF Live, Stages, Ended, Writing
  <2> QED BY <1>2, <2>1, <2>2, <2>3, <2>4, <2>5, <2>6, <2>7, <2>8, <2>9, <2>10, <2>11, <2>12,
             <2>13, <2>14, <2>15, <2>16, <2>17, <2>18, <2>19, <2>20, <2>21 DEF Main
<1>3. ASSUME NEW p \in Procs, Signal(p) \/ Kill(p) PROVE Inv'
  \* The process is gone, and with it its descriptors.
  <2>1. ASSUME SignalUnhandled(p) \/ HandlerExit(p) \/ Kill(p) PROVE Inv'
    <3>1. PICK to \in {"killed", "exited"} : pc' = [pc EXCEPT ![p] = to]
      BY <2>1 DEF SignalUnhandled, HandlerExit, Kill
    <3>2. Live(p) /\ Started(p)
      BY <2>1, HasStarted DEF SignalUnhandled, HandlerExit, Kill, Installed
    <3>3. /\ UNCHANGED <<kind, pos, tgt, tmp, data>>
          /\ file' = [file EXCEPT ![p] = NoInode]
      BY <2>1 DEF SignalUnhandled, HandlerExit, Kill, given, fs
    <3>4. file'[p] = NoInode
      BY <3>3 DEF Inv, Typed
    <3> QED BY <3>1, <3>2, <3>3, <3>4, QuietStep DEF Ended, Stages, Writing
  <2>2. CASE FirstSignal(p)
    <3>1. UNCHANGED <<kind, pc, file, pos, tgt, tmp, data>>
      BY <2>2 DEF FirstSignal, given, fs
    <3> QED BY <3>1 DEF Inv, Typed, Turn, Started, Live, Named, Apart, Holds, Counted, Kinded,
                    Ready, TargetsWhole, Exists, TempName, Partial
  <2>3. CASE SecondSignal(p)
    <3>1. /\ Live(p) /\ pc[p] \notin {"check", "install"}
          /\ UNCHANGED <<kind, pc, file, pos, tgt, data>>
      BY <2>3 DEF SecondSignal, Installed, given
    <3>2. pc' = [pc EXCEPT ![p] = pc[p]]
      BY <3>1 DEF Inv, Typed
    <3>3. tmp' = tmp \/ tmp' = [tmp EXCEPT ![TempName(p)] = NoInode]
      BY <2>3 DEF SecondSignal
    <3>4. file[p] # NoInode => pc[p] \in Opened
      BY DEF Inv, Apart
    <3>5. pc[p] = "rename" => tmp[TempName(p)] = NoInode \/ data[tmp[TempName(p)]] = By(p)
      BY DEF Inv, Ready
    <3>6. pc[p] \in (Stages \cup Ended) \ {"check"}
      BY <3>1 DEF Inv, Typed
    <3>7. /\ pc[p] \in {"install", "open", "register", "chmod"} => pos[p] = 0
          /\ pc[p] \in {"read", "write"} => pos[p] < Chunks
          /\ pc[p] \in {"flush", "sync", "copy"} => pos[p] = Chunks
      BY DEF Inv, Counted
    <3>8. /\ pc[p] \in {"sync", "rename", "forget"} => kind[p] = "file"
          /\ pc[p] = "copy" => kind[p] = "scratch"
          /\ pc[p] \in {"open", "register", "chmod"} => kind[p] # "direct"
      BY DEF Inv, Kinded
    <3>9. Started(p)
      BY <3>1, HasStarted
    <3> HIDE DEF Inv
    <3> QED BY <3>1, <3>2, <3>3, <3>4, <3>5, <3>6, <3>7, <3>8, <3>9, TempNames, QuietStep
  <2> QED BY <1>3, <2>1, <2>2, <2>3 DEF Signal
<1>4. ASSUME NEW t \in Targets, Intrude(t) PROVE Inv'
  BY <1>4, IntrudeStep
<1> QED BY <1>1, <1>2, <1>3, <1>4 DEF Next, AllEnded

\* Whatever kills or interrupts the runs, a target name only ever leads to a
\* complete document of one writer, if runs on one target take turns
\* (TempOutput::commit renames a finished temporary).
THEOREM TargetsStayWhole == TakeTurns => (Spec => []TargetsWhole)
<1> SUFFICES ASSUME TakeTurns PROVE Spec => []TargetsWhole
  OBVIOUS
<1>1. Inv /\ [Next]_vars => Inv'
  BY Step
<1>2. Inv => TargetsWhole
  BY DEF Inv
<1> QED BY Initially, <1>1, <1>2, PTL DEF Spec

-----------------------------------------------------------------------------
\* The rest of the state, which TargetsWhole does not depend on.
MoreTyped ==
  /\ force \in [Procs -> BOOLEAN] /\ cancelled \in [Procs -> BOOLEAN]
  /\ leaving \in [Procs -> BOOLEAN] /\ slot \in [Procs -> BOOLEAN]
  /\ asked \in [Procs -> Looks] /\ liked \in [Procs -> Looks]
  /\ result \in [Procs -> {"none", "ok", "io", "failed"}]
  /\ code \in [Procs -> Codes]
  /\ stdout \in [Procs -> [Block -> Owners \cup {Blank}]]
  /\ perm \in [Inodes -> {"default", "private"}]

Steps(p) == Main(p) \/ Signal(p) \/ Kill(p)

\* Neither the kind of a run nor its --force changes.
LEMMA OwnGiven ==
  ASSUME NEW p \in Procs, Steps(p)
  PROVE  UNCHANGED given
BY DEF Steps, Main, Signal, Check, Install, Open, OpenFails, Register, Chmod, ChmodFails, Read,
       Write, Flush, RunFails, Sync, Rename, Forget, Copy, CommitFails, CopyFails, Fail, Drop,
       Dropped, Finish, Return, SignalUnhandled, FirstSignal, SecondSignal, HandlerExit, Kill

\* A step of p leaves what belongs to another run alone.
LEMMA Own ==
  ASSUME Typed, MoreTyped, NEW p \in Procs, Steps(p), NEW q \in Procs, q # p
  PROVE  /\ pc'[q] = pc[q] /\ pos'[q] = pos[q] /\ file'[q] = file[q] /\ slot'[q] = slot[q]
         /\ cancelled'[q] = cancelled[q] /\ leaving'[q] = leaving[q]
         /\ result'[q] = result[q] /\ code'[q] = code[q] /\ stdout'[q] = stdout[q]
         /\ asked'[q] = asked[q] /\ liked'[q] = liked[q]
<1> USE DEF given, looks, handler, fs, Go
<1>1. CASE Check(p) \/ Install(p) \/ OpenFails(p) \/ Register(p)
  BY <1>1 DEF Typed, MoreTyped, Check, Install, OpenFails, Register
<1>2. CASE Open(p) \/ Chmod(p) \/ ChmodFails(p) \/ Read(p) \/ Flush(p)
  BY <1>2 DEF Typed, MoreTyped, Open, Chmod, ChmodFails, Read, Flush
<1>3. CASE Write(p) \/ Copy(p) \/ \E k \in 0..Chunks : CopyFails(p, k)
  BY <1>3 DEF Typed, MoreTyped, Write, Copy, CopyFails
<1>4. CASE CommitFails(p) \/ \E r \in {"io", "failed"} : RunFails(p, r)
  BY <1>4 DEF Typed, MoreTyped, RunFails, CommitFails
<1>5. CASE Sync(p) \/ Rename(p) \/ Forget(p) \/ Fail(p) \/ Drop(p)
  BY <1>5 DEF Typed, MoreTyped, Sync, Rename, Forget, Fail, Drop
<1>6. CASE Dropped(p) \/ Finish(p) \/ Return(p)
  BY <1>6 DEF Typed, MoreTyped, Dropped, Finish, Return
<1>7. CASE Signal(p) \/ Kill(p)
  BY <1>7 DEF Typed, MoreTyped, Signal, SignalUnhandled, FirstSignal, SecondSignal, HandlerExit, Kill
<1> QED BY <1>1, <1>2, <1>3, <1>4, <1>5, <1>6, <1>7 DEF Steps, Main

\* Every step keeps the rest of the state typed.
LEMMA MoreTypedStep ==
  ASSUME Inv, MoreTyped, [Next]_vars
  PROVE  MoreTyped'
<1> USE DEF given, looks, handler, fs, Go, Codes, MoreTyped
<1>1. ASSUME NEW p \in Procs, Steps(p) PROVE MoreTyped'
  <2>0. Stat(p) \subseteq Looks
    BY DEF Stat, Looks
  <2>1. CASE Check(p) \/ Install(p) \/ OpenFails(p) \/ Register(p)
    BY <2>0, <2>1 DEF Check, Install, OpenFails, Register
  <2>2. CASE Open(p) \/ ChmodFails(p) \/ Read(p) \/ Flush(p)
    BY <2>2 DEF Open, ChmodFails, Read, Flush
  <2>3. CASE Chmod(p)
    <3>1. UNCHANGED <<force, asked, cancelled, leaving, slot, result, code, stdout>>
      BY <2>3 DEF Chmod
    <3>2. "found" \in Stat(p) => tgt[TargetOf[p]] \in Inodes
      BY CliAssumption DEF Stat, Inv, Typed, Exists
    <3>3. perm' \in [Inodes -> {"default", "private"}]
      <4>1. PICK s \in Stat(p) :
              perm' = IF s = "found" THEN [perm EXCEPT ![tmp[TempName(p)]] = perm[tgt[TargetOf[p]]]]
                                     ELSE perm
        BY <2>3 DEF Chmod
      <4> QED BY <3>2, <4>1
    <3>4. liked' \in [Procs -> Looks]
      BY <2>0, <2>3 DEF Chmod
    <3> QED BY <3>1, <3>3, <3>4
  <2>4. CASE Write(p)
    <3>1. UNCHANGED <<force, asked, liked, cancelled, leaving, slot, result, code, perm>>
      BY <2>4 DEF Write
    <3>2. stdout' = stdout \/ stdout' = [stdout EXCEPT ![p][pos[p] + 1] = p]
      BY <2>4 DEF Write
    <3>3. [stdout[p] EXCEPT ![pos[p] + 1] = p] \in [Block -> Owners \cup {Blank}]
      BY DEF Owners
    <3>4. stdout' \in [Procs -> [Block -> Owners \cup {Blank}]]
      BY <3>2, <3>3
    <3> QED BY <3>1, <3>4
  <2>5. CASE Copy(p) \/ \E k \in 0..Chunks : CopyFails(p, k)
    <3>1. UNCHANGED <<force, asked, liked, cancelled, leaving, slot, code, perm>>
      BY <2>5 DEF Copy, CopyFails
    <3>2. result' \in [Procs -> {"none", "ok", "io", "failed"}]
      BY <2>5 DEF Copy, CopyFails
    <3>3. pc[p] = "copy"
      BY <2>5 DEF Copy, CopyFails
    <3>4. data[file[p]] \in [Block -> Owners \cup {Blank}]
      BY <3>3 DEF Inv, Typed, Holds, Kinded, Writing
    <3>5. stdout' \in [Procs -> [Block -> Owners \cup {Blank}]]
      BY <2>5, <3>4 DEF Copy, CopyFails
    <3> QED BY <3>1, <3>2, <3>5
  <2>6. CASE CommitFails(p) \/ \E r \in {"io", "failed"} : RunFails(p, r)
    <3>1. UNCHANGED <<force, asked, liked, cancelled, leaving, slot, code, stdout, perm>>
      BY <2>6 DEF RunFails, CommitFails
    <3>2. PICK r \in {"io", "failed"} : result' = [result EXCEPT ![p] = r]
      BY <2>6 DEF RunFails, CommitFails
    <3> QED BY <3>1, <3>2
  <2>7. CASE Sync(p) \/ Rename(p) \/ Forget(p) \/ Drop(p)
    BY <2>7 DEF Sync, Rename, Forget, Drop
  <2>8. CASE Fail(p) \/ Dropped(p) \/ Finish(p) \/ Return(p)
    <3>1. FinishCode(p) \in Codes
      BY DEF FinishCode
    <3> QED BY <2>8, <3>1 DEF Fail, Dropped, Finish, Return
  <2>9. CASE Signal(p) \/ Kill(p)
    BY <2>9 DEF Signal, SignalUnhandled, FirstSignal, SecondSignal, HandlerExit, Kill
  <2> QED BY <1>1, <2>1, <2>2, <2>3, <2>4, <2>5, <2>6, <2>7, <2>8, <2>9 DEF Steps, Main
<1>2. ASSUME NEW t \in Targets, Intrude(t) PROVE MoreTyped'
  BY <1>2 DEF Intrude
<1>3. CASE UNCHANGED vars
  BY <1>3 DEF vars
<1> QED BY <1>1, <1>2, <1>3 DEF Next, Steps, AllEnded

\* A target, another name or another run leads to file i.
Elsewhere(p, i) ==
  \/ \E t \in Targets : tgt[t] = i
  \/ \E n \in Names : n # TempName(p) /\ tmp[n] = i
  \/ \E q \in Procs : q # p /\ file[q] = i

\* What a step of p reaches in the directory: its own names, and a file that
\* no target, no other name and no other run leads to.
\* It is what makes runs that take turns independent of each other.
LEMMA Reach ==
  ASSUME TakeTurns, Inv, MoreTyped, NEW p \in Procs, Steps(p)
  PROVE  /\ tgt' = tgt \/ (Rename(p) /\ \A t \in Targets : t # TargetOf[p] => tgt'[t] = tgt[t])
         /\ \A n \in Names : n # TempName(p) => tmp'[n] = tmp[n]
         /\ \A i \in Inodes : Elsewhere(p, i) => data'[i] = data[i] /\ perm'[i] = perm[i]
<1> USE DEF given, handler, fs, Go, Elsewhere
<1>1. TempName(p) \in Names /\ NoInode \notin Inodes
  BY TempNames, CliAssumption
<1>2. CASE Rename(p)
  <2>1. TempName(p) = TargetOf[p]
    BY <1>2 DEF Rename, Inv, Kinded, TempName
  <2>2. tgt' = [tgt EXCEPT ![TempName(p)] = tmp[TempName(p)]] /\ tmp' = [tmp EXCEPT ![TempName(p)] = NoInode]
        /\ UNCHANGED <<data, perm>>
    BY <1>2 DEF Rename
  <2>3. \A t \in Targets : t # TargetOf[p] => tgt'[t] = tgt[t]
    BY <2>1, <2>2 DEF Inv, Typed
  <2> QED BY <1>2, <2>2, <2>3 DEF Inv, Typed
<1>3. CASE Write(p)
  <2>1. UNCHANGED <<tgt, tmp, perm>> /\ pc[p] = "write"
    BY <1>3 DEF Write
  <2>2. data' = data \/ (kind[p] # "direct" /\ data' = [data EXCEPT ![file[p]][pos[p] + 1] = p])
    BY <1>3 DEF Write
  <2>3. ASSUME NEW i \in Inodes, Elsewhere(p, i), kind[p] # "direct" PROVE i # file[p]
    <3>1. /\ file[p] # NoInode /\ \A t \in Targets : tgt[t] # file[p]
          /\ \A n \in Names : n # TempName(p) => tmp[n] # file[p]
          /\ \A q \in Procs : q # p => file[q] # file[p]
      BY <2>1, <2>3 DEF Inv, Apart, Holds, Writing
    <3> QED BY <2>3, <3>1
  <2>4. \A i \in Inodes : Elsewhere(p, i) => data'[i] = data[i]
    BY <2>2, <2>3 DEF Inv, Typed
  <2> QED BY <2>1, <2>4
<1>4. CASE Open(p) \/ Chmod(p)
  <2>1. /\ pc[p] \in {"open", "chmod"} /\ tgt' = tgt
        /\ \A n \in Names : n # TempName(p) => tmp'[n] = tmp[n]
    BY <1>4 DEF Open, Chmod, Inv, Typed
  <2>2. ASSUME NEW i \in Inodes, Elsewhere(p, i) PROVE tmp[TempName(p)] # i /\ i \in InUse
    <3>1. i \in InUse
      BY <2>2 DEF InUse
    <3>2. ASSUME tmp[TempName(p)] = i PROVE FALSE
      <4>1. PICK q \in Procs : q # p /\ file[q] = i
        BY <1>1, <2>2, <3>2 DEF Inv, Named
      <4>2. pc[q] \in Opened /\ \A n \in Names : n # TempName(q) => tmp[n] # file[q]
        BY <1>1, <4>1 DEF Inv, Apart
      <4>3. TempName(q) = TempName(p)
        BY <1>1, <3>2, <4>1, <4>2
      <4> QED BY <2>1, <4>1, <4>2, <4>3, Exclusive DEF Inv, Live, Stages, Opened
    <3> QED BY <3>1, <3>2
  <2>3. \A i \in Inodes : tmp[TempName(p)] # i /\ i \in InUse => data'[i] = data[i] /\ perm'[i] = perm[i]
    BY <1>4 DEF Open, Chmod, Inv, Typed, MoreTyped
  <2> QED BY <2>1, <2>2, <2>3
<1>5. CASE Drop(p) \/ SecondSignal(p)
  BY <1>5 DEF Drop, SecondSignal, Inv, Typed
<1>6. CASE Check(p) \/ Install(p) \/ OpenFails(p) \/ Register(p) \/ ChmodFails(p) \/ Read(p) \/ Flush(p)
  BY <1>6 DEF Check, Install, OpenFails, Register, ChmodFails, Read, Flush
<1>7. CASE Sync(p) \/ Forget(p) \/ Fail(p) \/ Dropped(p) \/ Finish(p) \/ Return(p)
  BY <1>7 DEF Sync, Forget, Fail, Dropped, Finish, Return
<1>8. CASE \/ CommitFails(p) \/ (\E r \in {"io", "failed"} : RunFails(p, r))
           \/ Copy(p) \/ \E k \in 0..Chunks : CopyFails(p, k)
  BY <1>8 DEF RunFails, CommitFails, Copy, CopyFails
<1>9. CASE SignalUnhandled(p) \/ FirstSignal(p) \/ HandlerExit(p) \/ Kill(p)
  BY <1>9 DEF SignalUnhandled, FirstSignal, HandlerExit, Kill
<1> QED BY <1>2, <1>3, <1>4, <1>5, <1>6, <1>7, <1>8, <1>9 DEF Steps, Main, Signal

-----------------------------------------------------------------------------
\* Strengthens ScratchOnlyWhenDone: nothing is printed before the copy, which
\* only a run that reported success reaches.
Printed ==
  \A p \in Procs :
    /\ pc[p] = "copy" => result[p] = "ok"
    /\ kind[p] = "scratch" /\ stdout[p] # Nothing =>
         /\ pc[p] \in {"drop", "dropped", "finish", "exit"} \cup Ended
         /\ pos[p] = Chunks /\ result[p] # "failed"
         /\ \A k \in Block : stdout[p][k] \in {p, Blank}

\* What is under p's target name, if anything is, some other program made.
Late(p) == Exists(TargetOf[p]) => data[tgt[TargetOf[p]]] = By(Other)

\* Strengthens ForceOnly: what a run without --force found, from the check on, up
\* to the rename.
Underway == {"install", "open", "register", "chmod", "read", "write", "flush", "sync", "rename"}
Guarded ==
  \A p \in Procs : kind[p] = "file" /\ ~force[p] /\ pc[p] \in Underway =>
    asked[p] = "unseen" \/ (asked[p] = "absent" /\ Late(p))

\* Strengthens NeverMoreReadable: the permissions are the target's from the first
\* read on, before any block is written, and stay so in what a kill leaves.
Copied(p, i) ==
  \/ liked[p] = "unseen"
  \/ liked[p] = "absent" /\ Late(p)
  \/ liked[p] = "found" /\ Exists(TargetOf[p]) /\ perm[i] = perm[tgt[TargetOf[p]]]
Permitted ==
  \A p \in Procs : kind[p] = "file" =>
    /\ pos[p] = 0 => \A i \in Inodes : ~Written(p, i)
    /\ file[p] # NoInode /\ pc[p] \in {"read", "write", "flush", "sync"} => Copied(p, file[p])
    /\ \A i \in Held(p) : Written(p, i) => Copied(p, i)

\* Every step preserves Printed.
LEMMA PrintedStep ==
  ASSUME Inv, MoreTyped, Printed, [Next]_vars
  PROVE  Printed'
<1> USE DEF given, handler, fs, Go
<1> DEFINE P(p) ==
      /\ pc[p] = "copy" => result[p] = "ok"
      /\ kind[p] = "scratch" /\ stdout[p] # Nothing =>
           /\ pc[p] \in {"drop", "dropped", "finish", "exit"} \cup Ended
           /\ pos[p] = Chunks /\ result[p] # "failed"
           /\ \A k \in Block : stdout[p][k] \in {p, Blank}
<1>1. ASSUME NEW p \in Procs, Steps(p) PROVE P(p)'
  <2> USE DEF Printed, Ended, Inv, Typed, MoreTyped
  <2>1. CASE Check(p) \/ Install(p) \/ OpenFails(p) \/ Register(p)
    <3>1. /\ UNCHANGED <<kind, pos, result, stdout>> /\ pc'[p] # "copy"
          /\ pc[p] \in {"check", "install", "open", "register"}
      BY <2>1 DEF Check, Install, OpenFails, Register
    <3> QED BY <3>1
  <2>2. CASE Open(p) \/ ChmodFails(p) \/ Read(p) \/ Chmod(p)
    <3>1. /\ UNCHANGED <<kind, pos, result, stdout>> /\ pc'[p] # "copy"
          /\ pc[p] \in {"open", "chmod", "read"}
      BY <2>2 DEF Open, ChmodFails, Read, Chmod
    <3> QED BY <3>1
  <2>3. CASE Flush(p)
    BY <2>3 DEF Flush
  <2>4. CASE Write(p)
    BY <2>4 DEF Write
  <2>5. CASE Copy(p) \/ \E k \in 0..Chunks : CopyFails(p, k)
    <3>1. pc[p] = "copy"
      BY <2>5 DEF Copy, CopyFails
    <3>2. /\ pos[p] = Chunks /\ result[p] = "ok" /\ data[file[p]] = Partial(p) /\ kind[p] = "scratch"
      BY <3>1 DEF Holds, Kinded, Writing, Counted
    <3>3. \A k \in Block : data[file[p]][k] \in {p, Blank}
      BY <3>2 DEF Partial
    <3>4. /\ pc'[p] = "drop" /\ pos'[p] = pos[p] /\ result'[p] \in {"ok", "io"}
          /\ \A k \in Block : stdout'[p][k] \in {data[file[p]][k], Blank}
      <4>1. pc'[p] = "drop" /\ pos'[p] = pos[p] /\ result'[p] \in {"ok", "io"}
        BY <2>5, <3>2 DEF Copy, CopyFails
      <4>2. CASE Copy(p)
        BY <4>2 DEF Copy
      <4>3. ASSUME NEW k \in 0..Chunks, CopyFails(p, k)
            PROVE  \A b \in Block : stdout'[p][b] \in {data[file[p]][b], Blank}
        BY <4>3 DEF CopyFails
      <4> QED BY <2>5, <4>1, <4>2, <4>3
    <3> QED BY <3>2, <3>3, <3>4
  <2>6. CASE CommitFails(p) \/ \E r \in {"io", "failed"} : RunFails(p, r)
    BY <2>6 DEF RunFails, CommitFails
  <2>7. CASE Sync(p) \/ Rename(p) \/ Forget(p) \/ Drop(p)
    BY <2>7 DEF Sync, Rename, Forget, Drop
  <2>8. CASE Fail(p) \/ Dropped(p) \/ Finish(p) \/ Return(p)
    BY <2>8 DEF Fail, Dropped, Finish, Return
  <2>9. CASE Signal(p) \/ Kill(p)
    BY <2>9 DEF Signal, SignalUnhandled, FirstSignal, SecondSignal, HandlerExit, Kill
  <2> QED BY <1>1, <2>1, <2>2, <2>3, <2>4, <2>5, <2>6, <2>7, <2>8, <2>9 DEF Steps, Main
<1>2. ASSUME NEW p \in Procs, Steps(p), NEW q \in Procs, q # p PROVE P(q)'
  BY <1>2, Own, OwnGiven DEF Printed, Inv
<1>3. CASE \E p \in Procs : Steps(p)
  BY <1>1, <1>2, <1>3 DEF Printed
<1>4. CASE UNCHANGED vars \/ \E t \in Targets : Intrude(t)
  BY <1>4 DEF vars, Intrude, Printed
<1> QED BY <1>3, <1>4 DEF Next, Steps, AllEnded

\* A step of p leaves a target alone, and the document there, except where p
\* renames its temporary over it.
LEMMA TargetKept ==
  ASSUME TakeTurns, Inv, MoreTyped, NEW p \in Procs, Steps(p), NEW t \in Targets,
         ~Rename(p) \/ t # TargetOf[p]
  PROVE  /\ tgt'[t] = tgt[t]
         /\ Exists(t) => data'[tgt[t]] = data[tgt[t]] /\ perm'[tgt[t]] = perm[tgt[t]]
<1>1. tgt'[t] = tgt[t]
  BY Reach
<1>2. Exists(t) => tgt[t] \in Inodes /\ Elsewhere(p, tgt[t])
  BY DEF Exists, Elsewhere, Inv, Typed
<1> QED BY <1>1, <1>2, Reach

\* So does another program, which only adds targets.
LEMMA IntrudeKept ==
  ASSUME Inv, MoreTyped, NEW u \in Targets, Intrude(u), NEW t \in Targets
  PROVE  /\ Exists(t) => /\ tgt'[t] = tgt[t] /\ data'[tgt[t]] = data[tgt[t]]
                         /\ perm'[tgt[t]] = perm[tgt[t]]
         /\ ~Exists(t) => tgt'[t] = NoInode \/ data'[tgt'[t]] = By(Other)
<1>1. PICK i \in Inodes \ InUse :
        /\ tgt' = [tgt EXCEPT ![u] = i] /\ data' = [data EXCEPT ![i] = By(Other)]
        /\ perm' = [perm EXCEPT ![i] = "private"]
  BY DEF Intrude
<1>2. tgt[u] = NoInode /\ tgt[t] # i
  BY <1>1 DEF Intrude, Exists, InUse
<1> QED BY <1>1, <1>2 DEF Exists, Inv, Typed, MoreTyped

\* What only some other program has made under p's target name stays so.
LEMMA LateKept ==
  ASSUME TakeTurns, Inv, MoreTyped, NEW p \in Procs, Steps(p), NEW q \in Procs,
         ~Rename(p) \/ TargetOf[q] # TargetOf[p], Late(q)
  PROVE  Late(q)'
<1>1. TargetOf[q] \in Targets
  BY CliAssumption
<1> QED BY <1>1, TargetKept DEF Late, Exists, By

LEMMA LateIntrude ==
  ASSUME Inv, MoreTyped, NEW u \in Targets, Intrude(u), NEW q \in Procs, Late(q)
  PROVE  Late(q)'
<1>1. TargetOf[q] \in Targets
  BY CliAssumption
<1> QED BY <1>1, IntrudeKept DEF Late, Exists, By

\* Two runs under way have no target in common.
LEMMA OtherTarget ==
  ASSUME TakeTurns, Inv, NEW p \in Procs, NEW q \in Procs, q # p, Rename(p),
         kind[q] = "file", pc[q] \in Underway \cup Opened
  PROVE  TargetOf[q] # TargetOf[p]
<1>1. pc[p] = "rename" /\ kind[p] = "file"
  BY DEF Rename, Go, Inv, Kinded
<1> QED BY <1>1, Exclusive DEF TempName, Live, Stages, Underway, Opened, Inv

\* Every step preserves Guarded: only a rename onto the target could break it.
LEMMA GuardedStep ==
  ASSUME TakeTurns, Inv, MoreTyped, Guarded, [Next]_vars
  PROVE  Guarded'
<1> USE DEF given, looks, handler, fs, Go
<1> DEFINE G(p) == kind[p] = "file" /\ ~force[p] /\ pc[p] \in Underway =>
                     asked[p] = "unseen" \/ (asked[p] = "absent" /\ Late(p))
<1>1. ASSUME NEW p \in Procs, Steps(p) PROVE G(p)'
  <2> SUFFICES ASSUME kind'[p] = "file", ~force'[p], pc'[p] \in Underway
               PROVE  asked'[p] = "unseen" \/ (asked'[p] = "absent" /\ Late(p)')
    OBVIOUS
  <2>1. UNCHANGED given /\ kind[p] = "file" /\ ~force[p]
    BY <1>1, OwnGiven
  <2>2. CASE Check(p)
    <3>1. tgt' = tgt /\ pc'[p] # "exit"
      BY <2>2 DEF Check, Underway
    <3>2. PICK s \in Stat(p) : /\ asked' = [asked EXCEPT ![p] = s]
                               /\ s = "found" /\ ~force[p] => pc' = [pc EXCEPT ![p] = "exit"]
      BY <2>2 DEF Check
    <3>3. asked'[p] = s /\ s # "found"
      BY <2>1, <3>1, <3>2 DEF Inv, Typed, MoreTyped
    <3>4. s = "unseen" \/ (s = "absent" /\ ~Exists(TargetOf[p]))
      BY <2>1, <3>2, <3>3 DEF Stat
    <3> QED BY <3>1, <3>3, <3>4 DEF Late, Exists
  <2>3. CASE ~Check(p)
    <3>1. asked' = asked /\ pc[p] \in Underway /\ ~Rename(p)
      <4> USE <2>1 DEF Inv, Typed, MoreTyped, Underway
      <4>1. CASE Install(p) \/ OpenFails(p) \/ Register(p) \/ Open(p) \/ ChmodFails(p) \/ Read(p)
        BY <4>1 DEF Install, OpenFails, Register, Open, ChmodFails, Read, Rename
      <4>2. CASE Flush(p) \/ Chmod(p) \/ Write(p) \/ Copy(p) \/ \E k \in 0..Chunks : CopyFails(p, k)
        BY <4>2 DEF Flush, Chmod, Write, Copy, CopyFails, Rename
      <4>3. CASE CommitFails(p) \/ \E r \in {"io", "failed"} : RunFails(p, r)
        BY <4>3 DEF RunFails, CommitFails, Rename
      <4>4. CASE Sync(p) \/ Rename(p) \/ Forget(p) \/ Drop(p)
        BY <4>4 DEF Sync, Rename, Forget, Drop
      <4>5. CASE Fail(p) \/ Dropped(p) \/ Finish(p) \/ Return(p)
        BY <4>5 DEF Fail, Dropped, Finish, Return, Rename
      <4>6. CASE SignalUnhandled(p) \/ HandlerExit(p) \/ Kill(p)
        BY <4>6 DEF SignalUnhandled, HandlerExit, Kill, Rename
      <4>7. CASE FirstSignal(p) \/ SecondSignal(p)
        BY <4>7 DEF FirstSignal, SecondSignal, Rename
      <4> QED BY <1>1, <2>3, <4>1, <4>2, <4>3, <4>4, <4>5, <4>6, <4>7 DEF Steps, Main, Signal
    <3> QED BY <1>1, <2>1, <3>1, LateKept DEF Guarded
  <2> QED BY <2>2, <2>3
<1>2. ASSUME NEW p \in Procs, Steps(p), NEW q \in Procs, q # p PROVE G(q)'
  <2> SUFFICES ASSUME kind'[q] = "file", ~force'[q], pc'[q] \in Underway
               PROVE  asked'[q] = "unseen" \/ (asked'[q] = "absent" /\ Late(q)')
    OBVIOUS
  <2>1. /\ kind[q] = "file" /\ ~force[q] /\ pc[q] \in Underway /\ asked'[q] = asked[q]
    BY <1>2, Own, OwnGiven DEF Inv
  <2>2. Late(q) => Late(q)'
    BY <1>2, <2>1, OtherTarget, LateKept
  <2> QED BY <2>1, <2>2 DEF Guarded
<1>3. CASE \E p \in Procs : Steps(p)
  BY <1>1, <1>2, <1>3 DEF Guarded
<1>4. ASSUME NEW t \in Targets, Intrude(t) PROVE Guarded'
  <2>1. UNCHANGED <<kind, force, pc, asked>>
    BY <1>4 DEF Intrude
  <2> QED BY <1>4, <2>1, LateIntrude DEF Guarded
<1>5. CASE UNCHANGED vars
  BY <1>5 DEF vars, Guarded, Late, Exists, By
<1> QED BY <1>3, <1>4, <1>5 DEF Next, Steps, AllEnded

\* A step of p writes no block of another run.
LEMMA NotOthers ==
  ASSUME Inv, NEW p \in Procs, Steps(p), NEW q \in Procs, q # p, NEW i \in Inodes, Written(q, i)'
  PROVE  Written(q, i)
<1> USE DEF given, handler, fs, Go
<1>1. CASE data' = data
  BY <1>1 DEF Written
<1>2. CASE Open(p)
  <2>1. PICK j \in Inodes : data' = [data EXCEPT ![j] = Nothing]
    BY <1>2 DEF Open
  <2>2. \A k \in Block : Nothing[k] # q
    BY CliAssumption DEF Nothing
  <2> QED BY <2>1, <2>2 DEF Written, Inv, Typed
<1>3. CASE Write(p)
  <2>1. data' = data \/ data' = [data EXCEPT ![file[p]][pos[p] + 1] = p]
    BY <1>3 DEF Write
  <2> QED BY <2>1 DEF Written, Inv, Typed
<1>4. data' = data \/ Open(p) \/ Write(p)
  <2>1. CASE Check(p) \/ Install(p) \/ OpenFails(p) \/ Register(p) \/ Chmod(p) \/ ChmodFails(p)
    BY <2>1 DEF Check, Install, OpenFails, Register, Chmod, ChmodFails
  <2>2. CASE \/ Read(p) \/ Flush(p) \/ Sync(p) \/ Rename(p) \/ Forget(p) \/ Fail(p)
             \/ Drop(p) \/ Dropped(p) \/ Finish(p) \/ Return(p)
    BY <2>2 DEF Read, Flush, Sync, Rename, Forget, Fail, Drop, Dropped, Finish, Return
  <2>3. CASE \/ CommitFails(p) \/ (\E r \in {"io", "failed"} : RunFails(p, r))
             \/ Copy(p) \/ \E k \in 0..Chunks : CopyFails(p, k)
    BY <2>3 DEF RunFails, CommitFails, Copy, CopyFails
  <2>4. CASE Signal(p) \/ Kill(p)
    BY <2>4 DEF Signal, SignalUnhandled, FirstSignal, SecondSignal, HandlerExit, Kill
  <2> QED BY <2>1, <2>2, <2>3, <2>4 DEF Steps, Main
<1> QED BY <1>1, <1>2, <1>3, <1>4

\* A run that takes over a temporary name leaves nothing of another's under it, or
\* has not touched what is there.
LEMMA TakenOver ==
  ASSUME Inv, Inv', NEW p \in Procs, Steps(p), NEW q \in Procs, q # p, kind[q] = "file",
         TempName(q) = TempName(p), NEW i \in Inodes, tmp'[TempName(q)] = i, i # NoInode,
         Written(q, i)'
  PROVE  /\ ~Rename(p) /\ tmp[TempName(q)] = i
         /\ data' = data /\ perm' = perm
<1> USE DEF given, handler, fs, Go
<1>1. /\ UNCHANGED given /\ TempName(p)' = TempName(p) /\ TempName(p) \in Names
      /\ kind[p] = "file"
  BY OwnGiven, TempNames, CliAssumption DEF TempName
<1>2. pc'[p] \notin Writing
  <2> SUFFICES ASSUME pc'[p] \in Writing PROVE FALSE
    OBVIOUS
  <2>1. /\ tmp'[TempName(p)] \in {file'[p], NoInode} /\ data'[file'[p]] = Partial(p)'
    BY <1>1 DEF Inv, Holds
  <2>2. \A k \in Block : Partial(p)'[k] # q
    BY CliAssumption DEF Partial
  <2>3. data'[i] = Partial(p)'
    BY <1>1, <2>1
  <2> QED BY <2>2, <2>3 DEF Written
<1> USE DEF Inv, Typed, Writing
<1>3. CASE Check(p) \/ Install(p) \/ OpenFails(p) \/ Return(p) \/ ChmodFails(p)
  BY <1>3 DEF Check, Install, OpenFails, Return, ChmodFails, Rename
<1>4. CASE Open(p) \/ Register(p) \/ Chmod(p) \/ Read(p) \/ Write(p)
  BY <1>2, <1>4 DEF Open, Register, Chmod, Read, Write
<1>5. CASE Flush(p) \/ Sync(p) \/ Forget(p) \/ Fail(p) \/ Dropped(p) \/ Finish(p)
  BY <1>5 DEF Flush, Sync, Forget, Fail, Dropped, Finish, Rename
<1>6. CASE Rename(p) \/ Drop(p)
  BY <1>1, <1>6 DEF Rename, Drop
<1>7. CASE \/ CommitFails(p) \/ (\E r \in {"io", "failed"} : RunFails(p, r))
           \/ Copy(p) \/ \E k \in 0..Chunks : CopyFails(p, k)
  BY <1>7 DEF RunFails, CommitFails, Copy, CopyFails, Rename
<1>8. CASE SignalUnhandled(p) \/ HandlerExit(p) \/ Kill(p)
  BY <1>8 DEF SignalUnhandled, HandlerExit, Kill, Rename
<1>9. CASE FirstSignal(p) \/ SecondSignal(p)
  BY <1>1, <1>9 DEF FirstSignal, SecondSignal, Rename
<1> QED BY <1>3, <1>4, <1>5, <1>6, <1>7, <1>8, <1>9 DEF Steps, Main, Signal

\* Every step preserves Permitted: neither file changes its permissions later.
LEMMA PermittedStep ==
  ASSUME TakeTurns, Inv, MoreTyped, Permitted, [Next]_vars
  PROVE  Permitted'
<1> USE DEF given, looks, handler, fs, Go
<1> DEFINE Due(p) ==
      /\ pos[p] = 0 => \A i \in Inodes : ~Written(p, i)
      /\ file[p] # NoInode /\ pc[p] \in {"read", "write", "flush", "sync"} => Copied(p, file[p])
      /\ \A i \in Held(p) : Written(p, i) => Copied(p, i)
<1>0. \A p \in Procs : kind[p] = "file" => Due(p)
  BY DEF Permitted
<1>1. Inv'
  BY Step
\* The step of the run itself.
<1>2. ASSUME NEW p \in Procs, Steps(p), kind[p] = "file" PROVE Due(p)'
  <2>1. /\ UNCHANGED given /\ TempName(p)' = TempName(p) /\ TempName(p) \in Names
        /\ TempName(p) = TargetOf[p] /\ TargetOf[p] \in Targets /\ Due(p)
    BY <1>0, <1>2, OwnGiven, TempNames, CliAssumption DEF TempName
  <2>2. CASE Rename(p)
    <3>1. file[p] = NoInode /\ file' = file /\ tmp'[TempName(p)] = NoInode
      BY <2>1, <2>2 DEF Rename, Inv, Typed, Apart, Opened
    <3>2. UNCHANGED <<pos, data>>
      BY <2>2 DEF Rename
    <3> QED BY <2>1, <3>1, <3>2 DEF Held, Written
  <2>3. CASE Open(p)
    <3>1. pos[p] = 0 /\ pos' = pos /\ pc'[p] = "register"
      BY <2>3 DEF Open, Inv, Typed, Counted
    <3>2. PICK j \in Inodes : data' = [data EXCEPT ![j] = Nothing]
      BY <2>3 DEF Open
    <3>3. \A k \in Block : Nothing[k] # p
      BY CliAssumption DEF Nothing
    <3>4. \A i \in Inodes : ~Written(p, i)'
      BY <2>1, <3>1, <3>2, <3>3 DEF Written, Inv, Typed
    <3>5. \A i \in Held(p)' : i \in Inodes
      BY <1>1, <2>1 DEF Held, Inv, Typed
    <3> QED BY <3>1, <3>4, <3>5
  <2>4. CASE Chmod(p)
    <3>1. /\ pos[p] = 0 /\ pc[p] = "chmod" /\ UNCHANGED <<pos, file, tgt, tmp, data>>
      BY <2>4 DEF Chmod, Inv, Counted
    <3>2. PICK s \in Stat(p) :
            /\ liked' = [liked EXCEPT ![p] = s]
            /\ s = "found" => tmp[TempName(p)] # NoInode
            /\ perm' = IF s = "found" THEN [perm EXCEPT ![tmp[TempName(p)]] = perm[tgt[TargetOf[p]]]]
                                      ELSE perm
      BY <2>4 DEF Chmod
    <3>3. liked'[p] = s
      BY <3>2 DEF MoreTyped
    <3>4. file[p] \in Inodes /\ tmp[TempName(p)] \in {file[p], NoInode} /\ tgt[TargetOf[p]] # file[p]
      BY <1>2, <2>1, <3>1 DEF Inv, Holds, Apart, Typed, Writing
    <3>5. s = "unseen" \/ (s = "absent" /\ ~Exists(TargetOf[p])) \/ (s = "found" /\ Exists(TargetOf[p]))
      BY <1>2, <3>2 DEF Stat
    <3>6. s = "found" => perm'[file[p]] = perm'[tgt[TargetOf[p]]]
      BY <3>2, <3>4 DEF MoreTyped
    <3>7. Copied(p, file[p])'
      BY <3>1, <3>3, <3>5, <3>6 DEF Copied, Late, Exists
    <3>8. \A i \in Inodes : ~Written(p, i)'
      BY <2>1, <3>1 DEF Written
    <3>9. \A i \in Held(p)' : i \in Inodes
      BY <1>1, <2>1 DEF Held, Inv, Typed
    <3> QED BY <3>7, <3>8, <3>9
  <2>5. CASE Write(p)
    <3>1. /\ pc[p] = "write" /\ UNCHANGED <<file, tgt, tmp, perm, liked>>
          /\ pos' = [pos EXCEPT ![p] = pos[p] + 1] /\ data' = [data EXCEPT ![file[p]][pos[p] + 1] = p]
      BY <1>2, <2>5 DEF Write
    <3>2. /\ file[p] \in Inodes /\ file[p] # NoInode /\ tmp[TempName(p)] \in {file[p], NoInode}
          /\ tgt[TargetOf[p]] # file[p]
      BY <1>2, <2>1, <3>1 DEF Inv, Holds, Apart, Typed, Writing
    <3>3. Copied(p, file[p])
      BY <2>1, <3>1, <3>2
    <3>4. Exists(TargetOf[p]) => data'[tgt[TargetOf[p]]] = data[tgt[TargetOf[p]]]
      BY <2>1, <3>1, <3>2 DEF Exists, Inv, Typed
    <3>5. Copied(p, file[p])'
      BY <3>1, <3>3, <3>4 DEF Copied, Late, Exists, By
    <3>6. pos'[p] # 0
      BY <3>1 DEF Inv, Typed
    <3>7. \A i \in Held(p)' : i = file[p]
      BY <2>1, <3>1, <3>2 DEF Held
    <3> QED BY <3>1, <3>5, <3>6, <3>7
  <2>6. CASE ~(Rename(p) \/ Open(p) \/ Chmod(p) \/ Write(p))
    <3>1. /\ UNCHANGED <<pos, data, perm, tgt, liked>>
          /\ file'[p] \in {file[p], NoInode} /\ tmp'[TempName(p)] \in {tmp[TempName(p)], NoInode}
          /\ file'[p] # NoInode /\ pc'[p] \in {"read", "write", "flush", "sync"}
               => pc[p] \in {"read", "write", "flush", "sync"}
      <4> USE <1>2, <2>1 DEF Inv, Typed
      <4>1. CASE Check(p) \/ Install(p) \/ OpenFails(p) \/ Register(p) \/ ChmodFails(p) \/ Read(p)
        BY <4>1 DEF Check, Install, OpenFails, Register, ChmodFails, Read
      <4>2. CASE Flush(p) \/ Copy(p) \/ \E k \in 0..Chunks : CopyFails(p, k)
        BY <4>2 DEF Flush, Copy, CopyFails
      <4>3. CASE CommitFails(p) \/ \E r \in {"io", "failed"} : RunFails(p, r)
        BY <4>3 DEF RunFails, CommitFails
      <4>4. CASE Sync(p) \/ Forget(p) \/ Drop(p)
        BY <4>4 DEF Sync, Forget, Drop
      <4>5. CASE Fail(p) \/ Dropped(p) \/ Finish(p) \/ Return(p)
        BY <4>5 DEF Fail, Dropped, Finish, Return
      <4>6. CASE SignalUnhandled(p) \/ HandlerExit(p) \/ Kill(p)
        BY <4>6 DEF SignalUnhandled, HandlerExit, Kill
      <4>7. CASE FirstSignal(p) \/ SecondSignal(p)
        BY <4>7 DEF FirstSignal, SecondSignal
      <4> QED BY <2>6, <4>1, <4>2, <4>3, <4>4, <4>5, <4>6, <4>7 DEF Steps, Main, Signal
    <3>2. \A i : Copied(p, i)' <=> Copied(p, i)
      BY <3>1 DEF Copied, Late, Exists, By
    <3>3. \A i : Written(p, i)' <=> Written(p, i)
      BY <3>1 DEF Written
    <3>4. \A i \in Held(p)' : i \in Held(p)
      BY <2>1, <3>1 DEF Held
    <3> QED BY <2>1, <3>1, <3>2, <3>3, <3>4
  <2> QED BY <2>2, <2>3, <2>4, <2>5, <2>6
\* The step of another run.
<1>3. ASSUME NEW p \in Procs, Steps(p), NEW q \in Procs, q # p, kind[q] = "file" PROVE Due(q)'
  <2>1. /\ UNCHANGED given /\ pc'[q] = pc[q] /\ pos'[q] = pos[q] /\ file'[q] = file[q]
        /\ liked'[q] = liked[q] /\ TargetOf[q] \in Targets
        /\ TempName(q)' = TempName(q) /\ TempName(q) \in Names /\ Due(q)
    BY <1>0, <1>3, Own, OwnGiven, TempNames, CliAssumption DEF Inv, TempName
  \* Nothing moves what was copied, while the target is not renamed over.
  <2>2. ASSUME NEW i \in Inodes, Copied(q, i), perm'[i] = perm[i],
               ~Rename(p) \/ TargetOf[q] # TargetOf[p]
        PROVE  Copied(q, i)'
    <3>1. Late(q) => Late(q)'
      BY <1>3, <2>2, LateKept
    <3>2. /\ tgt'[TargetOf[q]] = tgt[TargetOf[q]]
          /\ Exists(TargetOf[q]) => perm'[tgt[TargetOf[q]]] = perm[tgt[TargetOf[q]]]
      BY <1>3, <2>1, <2>2, TargetKept
    <3> QED BY <2>1, <2>2, <3>1, <3>2 DEF Copied, Exists
  <2>3. file[q] # NoInode => /\ file[q] \in Inodes /\ perm'[file[q]] = perm[file[q]]
                             /\ ~Rename(p) \/ TargetOf[q] # TargetOf[p]
    <3> SUFFICES ASSUME file[q] # NoInode
                 PROVE  /\ file[q] \in Inodes /\ perm'[file[q]] = perm[file[q]]
                        /\ ~Rename(p) \/ TargetOf[q] # TargetOf[p]
      OBVIOUS
    <3>1. file[q] \in Inodes /\ Elsewhere(p, file[q]) /\ pc[q] \in Opened
      BY <1>3 DEF Inv, Typed, Apart, Elsewhere
    <3> QED BY <1>3, <3>1, Reach, OtherTarget
  <2>4. pos'[q] = 0 => \A i \in Inodes : ~Written(q, i)'
    BY <1>3, <2>1, NotOthers
  <2>5. file'[q] # NoInode /\ pc'[q] \in {"read", "write", "flush", "sync"} => Copied(q, file[q])'
    BY <2>1, <2>2, <2>3
  <2>6. ASSUME NEW i \in Held(q)', Written(q, i)' PROVE Copied(q, i)'
    <3>1. i \in Inodes /\ i # NoInode /\ i \in {file[q], tmp'[TempName(q)]}
      BY <1>1, <2>1 DEF Held, Inv, Typed
    <3>2. Written(q, i)
      BY <1>3, <2>6, <3>1, NotOthers
    <3>3. CASE i = file[q]
      <4>1. Copied(q, i)
        BY <2>1, <3>1, <3>2, <3>3 DEF Held
      <4> QED BY <2>2, <2>3, <3>1, <3>3, <4>1
    <3>4. CASE i = tmp'[TempName(q)] /\ TempName(q) # TempName(p)
      <4>1. i = tmp[TempName(q)] /\ Elsewhere(p, i)
        BY <1>3, <2>1, <3>4, Reach DEF Elsewhere
      <4>2. Copied(q, i)
        BY <2>1, <3>1, <3>2, <4>1 DEF Held
      <4>3. ~Rename(p) \/ TargetOf[q] # TargetOf[p]
        BY <1>3, <3>4 DEF TempName, Rename, Inv, Kinded
      <4> QED BY <1>3, <2>2, <3>1, <4>1, <4>2, <4>3, Reach
    <3>5. CASE i = tmp'[TempName(q)] /\ TempName(q) = TempName(p)
      <4>1. ~Rename(p) /\ i = tmp[TempName(q)] /\ perm' = perm
        BY <1>1, <1>3, <2>6, <3>1, <3>5, TakenOver
      <4>2. Copied(q, i)
        BY <2>1, <3>1, <3>2, <4>1 DEF Held
      <4> QED BY <2>2, <3>1, <4>1, <4>2
    <3> QED BY <3>1, <3>3, <3>4, <3>5
  <2> QED BY <2>4, <2>5, <2>6
<1>4. ASSUME NEW p \in Procs, Steps(p) PROVE Permitted'
  <2>1. kind' = kind
    BY <1>4, OwnGiven
  <2> QED BY <1>2, <1>3, <1>4, <2>1 DEF Permitted
\* The step of another program.
<1>5. ASSUME NEW t \in Targets, Intrude(t) PROVE Permitted'
  <2>1. UNCHANGED <<kind, pc, pos, file, tmp, liked>>
    BY <1>5 DEF Intrude
  <2>2. PICK j \in Inodes \ InUse :
          data' = [data EXCEPT ![j] = By(Other)] /\ perm' = [perm EXCEPT ![j] = "private"]
    BY <1>5 DEF Intrude
  <2> SUFFICES ASSUME NEW q \in Procs, kind[q] = "file" PROVE Due(q)'
    BY <2>1 DEF Permitted
  <2>3. Due(q) /\ TargetOf[q] \in Targets /\ Held(q)' = Held(q)
    BY <1>0, <2>1, CliAssumption DEF Held, TempName
  <2>4. \A i \in Held(q) : i \in Inodes /\ i # j
    BY <2>2, TempNames DEF Held, InUse, Inv, Typed
  <2>5. \A i \in Inodes : Written(q, i)' => Written(q, i)
    <3>1. \A k \in Block : By(Other)[k] # q
      BY CliAssumption DEF By
    <3> QED BY <2>2, <3>1 DEF Written, Inv, Typed
  <2>6. ASSUME NEW i \in Held(q), Copied(q, i) PROVE Copied(q, i)'
    <3>1. Late(q) => Late(q)'
      BY <1>5, LateIntrude
    <3>2. Exists(TargetOf[q]) => /\ tgt'[TargetOf[q]] = tgt[TargetOf[q]]
                                 /\ perm'[tgt[TargetOf[q]]] = perm[tgt[TargetOf[q]]]
      BY <1>5, <2>3, IntrudeKept
    <3>3. perm'[i] = perm[i]
      BY <2>2, <2>4 DEF MoreTyped
    <3> QED BY <2>1, <2>6, <3>1, <3>2, <3>3 DEF Copied, Exists
  <2>7. file[q] # NoInode => file[q] \in Held(q)
    BY DEF Held
  <2> QED BY <2>1, <2>3, <2>4, <2>5, <2>6, <2>7
<1>6. CASE UNCHANGED vars
  <2>1. UNCHANGED <<kind, pc, pos, file, tmp, liked, tgt, data, perm>>
    BY <1>6 DEF vars
  <2> QED BY <2>1 DEF Permitted, Held, Written, Copied, Late, Exists, TempName, By
<1> QED BY <1>4, <1>5, <1>6 DEF Next, Steps, AllEnded

-----------------------------------------------------------------------------
\* Of no two runs one target.
Apiece == \A p, q \in Procs : p # q => TargetOf[p] # TargetOf[q]

\* Strengthens NoLeftover: where main may stop there is no temporary, and where
\* there is one the handler knows its name (slot).  Between creating the file and
\* registering it the handler does not, but then nothing is written yet.
Tidy ==
  \A p \in Procs :
    LET i == tmp[TempName(p)] IN
    /\ \/ kind[p] = "direct"
       \/ pc[p] \in {"check", "install", "open", "forget", "dropped", "finish", "exit", "returned"}
       => i = NoInode
    /\ pc[p] \in {"chmod", "read", "write", "flush", "sync", "rename", "copy", "fail", "drop"}
         => slot[p] \/ kind[p] = "direct"
    /\ leaving[p] => cancelled[p]
    /\ pc[p] = "exited" => leaving[p]
    /\ leaving[p] /\ i # NoInode =>
         /\ data[i] = Nothing
         /\ pc[p] \in {"register", "chmod", "read", "fail", "drop", "exited", "killed"}

\* Runs with a target each have a temporary name each, and take turns trivially.
LEMMA OwnNames ==
  ASSUME Apiece
  PROVE  TakeTurns /\ \A p, q \in Procs : p # q => TempName(p) # TempName(q)
BY CliAssumption DEF Apiece, TakeTurns, TempName

\* Every step preserves Tidy.
LEMMA TidyStep ==
  ASSUME Apiece, Inv, MoreTyped, Tidy, [Next]_vars
  PROVE  Tidy'
<1> USE DEF given, handler, fs, Go
<1> DEFINE T(p, i) ==
      /\ \/ kind[p] = "direct"
         \/ pc[p] \in {"check", "install", "open", "forget", "dropped", "finish", "exit", "returned"}
         => i = NoInode
      /\ pc[p] \in {"chmod", "read", "write", "flush", "sync", "rename", "copy", "fail", "drop"}
           => slot[p] \/ kind[p] = "direct"
      /\ leaving[p] => cancelled[p]
      /\ pc[p] = "exited" => leaving[p]
      /\ leaving[p] /\ i # NoInode =>
           /\ data[i] = Nothing
           /\ pc[p] \in {"register", "chmod", "read", "fail", "drop", "exited", "killed"}
<1>1. \A p \in Procs : T(p, tmp[TempName(p)]) /\ TempName(p) \in Names
  BY TempNames DEF Tidy
<1>2. ASSUME NEW p \in Procs, Steps(p) PROVE T(p, tmp[TempName(p)])'
  <2> USE <1>1 DEF Inv, Typed, MoreTyped, Kinded, Counted
  <2> DEFINE n == TempName(p)
  <2>0. TempName(p)' = TempName(p)
    BY <1>2, OwnGiven DEF TempName
  <2>1. CASE Check(p) \/ Install(p) \/ OpenFails(p) \/ Register(p)
    BY <2>0, <2>1 DEF Check, Install, OpenFails, Register
  <2>2. CASE Open(p)
    BY <2>0, <2>2 DEF Open
  <2>3. CASE ChmodFails(p) \/ Read(p) \/ Flush(p) \/ Chmod(p)
    <3>1. UNCHANGED <<kind, slot, cancelled, leaving, tmp, data>>
      BY <2>3 DEF ChmodFails, Read, Flush, Chmod
    <3>2. \/ pc[p] = "chmod" /\ pc'[p] \in {"read", "drop"}
          \/ pc[p] = "read" /\ pc'[p] = "write" /\ ~leaving[p]
          \/ pc[p] = "flush" /\ kind[p] # "direct" /\ pc'[p] \in {"sync", "copy"}
          \/ kind[p] = "direct" /\ pc'[p] \notin {"exited"}
      BY <2>3 DEF ChmodFails, Read, Flush, Chmod
    <3> QED BY <2>0, <3>1, <3>2
  <2>4. CASE Write(p)
    BY <2>0, <2>4 DEF Write
  <2>5. CASE Copy(p) \/ \E k \in 0..Chunks : CopyFails(p, k)
    BY <2>0, <2>5 DEF Copy, CopyFails
  <2>6. CASE CommitFails(p) \/ \E r \in {"io", "failed"} : RunFails(p, r)
    BY <2>0, <2>6 DEF RunFails, CommitFails
  <2>7. CASE Sync(p) \/ Rename(p) \/ Forget(p) \/ Drop(p)
    <3>1. CASE Sync(p)
      <4>1. pc[p] = "sync" /\ pc'[p] = "rename" /\ UNCHANGED <<kind, cancelled, leaving, slot, tmp, data>>
        BY <3>1 DEF Sync
      <4> QED BY <2>0, <4>1
    <3>4. CASE Forget(p)
      <4>1. pc[p] = "forget" /\ pc'[p] = "finish" /\ UNCHANGED <<kind, cancelled, leaving, tmp, data>>
        BY <3>4 DEF Forget
      <4> QED BY <2>0, <4>1
    <3>2. CASE Rename(p) \/ Drop(p)
      <4>1. tmp' = [tmp EXCEPT ![n] = NoInode]
        BY <3>2 DEF Rename, Drop
      <4>2. /\ UNCHANGED <<cancelled, leaving>> /\ pc'[p] \in {"forget", "dropped"}
        BY <3>2 DEF Rename, Drop
      <4> QED BY <2>0, <4>1, <4>2
    <3> QED BY <2>7, <3>1, <3>2, <3>4
  <2>8. CASE Fail(p) \/ Dropped(p) \/ Finish(p) \/ Return(p)
    BY <2>0, <2>8 DEF Fail, Dropped, Finish, Return
  <2>9. CASE SecondSignal(p)
    <3>1. pc[p] \in Stages \ {"check", "install"} /\ cancelled[p] /\ UNCHANGED <<kind, pc, slot, data>>
          /\ leaving'[p] /\ cancelled' = cancelled
          /\ tmp' = IF slot[p] THEN [tmp EXCEPT ![TempName(p)] = NoInode] ELSE tmp
      BY <2>9 DEF SecondSignal, Installed, Live
    <3>2. tmp'[n] # NoInode => pc[p] = "register" /\ tmp'[n] = tmp[n]
      BY <3>1 DEF Stages
    <3>3. pc[p] = "register" /\ tmp[n] # NoInode => data[tmp[n]] = Nothing
      <4>1. pc[p] = "register" => data[file[p]] = Partial(p) /\ pos[p] = 0 /\ tmp[n] \in {file[p], NoInode}
        BY DEF Holds, Writing
      <4>2. pos[p] = 0 => Partial(p) = Nothing
        BY DEF Partial, Nothing, Block
      <4> QED BY <4>1, <4>2
    <3> QED BY <2>0, <3>1, <3>2, <3>3 DEF Stages
  <2>10. CASE SignalUnhandled(p) \/ FirstSignal(p) \/ HandlerExit(p) \/ Kill(p)
    BY <2>0, <2>10 DEF SignalUnhandled, FirstSignal, HandlerExit, Kill
  <2> QED BY <1>2, <2>1, <2>2, <2>3, <2>4, <2>5, <2>6, <2>7, <2>8, <2>9, <2>10 DEF Steps, Main, Signal
<1>3. ASSUME NEW p \in Procs, Steps(p), NEW q \in Procs, q # p PROVE T(q, tmp[TempName(q)])'
  <2>1. /\ UNCHANGED given /\ pc'[q] = pc[q] /\ slot'[q] = slot[q]
        /\ cancelled'[q] = cancelled[q] /\ leaving'[q] = leaving[q]
    BY <1>3, Own, OwnGiven DEF Inv
  <2>2. TempName(q)' = TempName(q) /\ TempName(q) # TempName(p) /\ TempName(q) \in Names
    BY <1>3, <2>1, OwnNames, TempNames DEF TempName
  <2>3. tmp'[TempName(q)] = tmp[TempName(q)]
    BY <1>3, <2>2, OwnNames, Reach
  <2>4. tmp[TempName(q)] # NoInode => data'[tmp[TempName(q)]] = data[tmp[TempName(q)]]
    BY <1>3, <2>2, OwnNames, Reach DEF Elsewhere, Inv, Typed
  <2> QED BY <1>1, <2>1, <2>2, <2>3, <2>4
<1>4. CASE \E p \in Procs : Steps(p)
  BY <1>2, <1>3, <1>4 DEF Tidy
<1>5. CASE \E t \in Targets : Intrude(t)
  <2>1. UNCHANGED <<kind, pc, slot, cancelled, leaving, tmp>>
    BY <1>5 DEF Intrude
  <2>2. PICK i \in Inodes \ InUse : data' = [data EXCEPT ![i] = By(Other)]
    BY <1>5 DEF Intrude
  <2>3. \A p \in Procs : TempName(p)' = TempName(p) /\ tmp[TempName(p)] # i
    BY <2>1, <2>2, <1>1 DEF TempName, InUse
  <2>4. \A p \in Procs : tmp[TempName(p)] # NoInode => data'[tmp[TempName(p)]] = data[tmp[TempName(p)]]
    BY <2>2, <2>3, <1>1 DEF Inv, Typed
  <2> QED BY <1>1, <2>1, <2>3, <2>4 DEF Tidy
<1>6. CASE UNCHANGED vars
  BY <1>6 DEF vars, Tidy, TempName
<1> QED BY <1>4, <1>5, <1>6 DEF Next, Steps, AllEnded

-----------------------------------------------------------------------------
\* The strengthened invariants hold of every initial state.
LEMMA Beginning ==
  ASSUME Init
  PROVE  MoreTyped /\ Printed /\ Guarded /\ Permitted /\ Tidy
<1> USE DEF Init
<1>1. MoreTyped
  <2>1. Nothing \in [Block -> Owners \cup {Blank}]
    BY DEF Nothing
  <2> QED BY <2>1 DEF MoreTyped, Codes, Looks
<1>2. \A p \in Procs : pc[p] = "check" /\ file[p] = NoInode /\ stdout[p] = Nothing
                       /\ ~leaving[p] /\ tmp[TempName(p)] = NoInode
  BY TempNames
<1>3. Printed
  BY <1>2 DEF Printed
<1>4. Guarded /\ Permitted
  <2>1. Guarded
    BY <1>2 DEF Guarded, Underway
  <2>2. \A p \in Procs : Held(p) = {}
    BY <1>2 DEF Held
  <2>3. \A p \in Procs, i \in Inodes : ~Written(p, i)
    BY CliAssumption DEF Written, By, Nothing
  <2> QED BY <1>2, <2>1, <2>2, <2>3 DEF Permitted
<1>5. Tidy
  BY <1>2 DEF Tidy
<1> QED BY <1>1, <1>3, <1>4, <1>5

\* An encrypt or rekey that ends badly has printed nothing, whatever stopped it
\* (cmd_crypt copies the scratch file out only after the library returned).
THEOREM PrintedWhole == TakeTurns => (Spec => []ScratchOnlyWhenDone)
<1> SUFFICES ASSUME TakeTurns PROVE Spec => []ScratchOnlyWhenDone
  OBVIOUS
<1>1. Init => Inv /\ MoreTyped /\ Printed
  BY Initially, Beginning
<1>2. Inv /\ MoreTyped /\ Printed /\ [Next]_vars => (Inv /\ MoreTyped /\ Printed)'
  BY Step, MoreTypedStep, PrintedStep
<1>3. Printed => ScratchOnlyWhenDone
  BY DEF Printed, ScratchOnlyWhenDone
<1> QED BY <1>1, <1>2, <1>3, PTL DEF Spec

\* A temporary with output in it, or what a kill left of one, is more readable than
\* the target only if metadata(target) failed, or found none and another program
\* made one since (TempOutput::at sets permissions before anything is written and
\* keeps those of a file it finds under the name).
THEOREM KeptPrivate == TakeTurns => (Spec => []NeverMoreReadable)
<1> SUFFICES ASSUME TakeTurns PROVE Spec => []NeverMoreReadable
  OBVIOUS
<1>1. Init => Inv /\ MoreTyped /\ Permitted
  BY Initially, Beginning
<1>2. Inv /\ MoreTyped /\ Permitted /\ [Next]_vars => (Inv /\ MoreTyped /\ Permitted)'
  BY Step, MoreTypedStep, PermittedStep
<1>3. Permitted => NeverMoreReadable
  <2> SUFFICES ASSUME Permitted, NEW p \in Procs, NEW i \in Held(p), kind[p] = "file",
                      Written(p, i), Exists(TargetOf[p]),
                      perm[tgt[TargetOf[p]]] = "private", perm[i] = "default"
               PROVE  \/ liked[p] = "unseen"
                      \/ liked[p] = "absent" /\ data[tgt[TargetOf[p]]] = By(Other)
    BY DEF NeverMoreReadable
  <2>1. Copied(p, i)
    BY DEF Permitted
  <2> QED BY <2>1 DEF Copied, Late
<1> QED BY <1>1, <1>2, <1>3, PTL DEF Spec

\* A run without --force replaces a target only if exists() could not see it, or if
\* another program made it after exists() had found none: never one that was there
\* to be seen, and never the output of another run (target.exists() in cmd_crypt
\* looks once, TempOutput::commit renames much later).
THEOREM AskedFirst == TakeTurns => (Spec => ForceOnly)
<1> SUFFICES ASSUME TakeTurns PROVE Spec => ForceOnly
  OBVIOUS
<1> DEFINE Asked(t) == \E p \in Procs :
             /\ TargetOf[p] = t /\ pc[p] = "rename" /\ pc'[p] = "forget"
             /\ \/ force[p]
                \/ asked[p] = "unseen"
                \/ asked[p] = "absent" /\ data[tgt[t]] = By(Other)
           Judged == \A t \in Targets : Exists(t) /\ tgt'[t] # tgt[t] => Asked(t)
<1>1. Init => Inv /\ MoreTyped /\ Guarded
  BY Initially, Beginning
<1>2. Inv /\ MoreTyped /\ Guarded /\ [Next]_vars => (Inv /\ MoreTyped /\ Guarded)'
  BY Step, MoreTypedStep, GuardedStep
<1>3. Inv /\ MoreTyped /\ Guarded /\ [Next]_vars => [Judged]_vars
  <2> SUFFICES ASSUME Inv, MoreTyped, Guarded, Next PROVE Judged \/ UNCHANGED vars
    OBVIOUS
  <2>1. ASSUME NEW p \in Procs, Steps(p), NEW t \in Targets, Exists(t), tgt'[t] # tgt[t]
        PROVE  Asked(t)
    <3>1. Rename(p) /\ t = TargetOf[p]
      BY <2>1, Reach
    <3>2. pc[p] = "rename" /\ pc'[p] = "forget" /\ kind[p] = "file"
      BY <3>1 DEF Rename, Go, Inv, Typed, Kinded
    <3>3. force[p] \/ asked[p] = "unseen" \/ (asked[p] = "absent" /\ Late(p))
      BY <3>2 DEF Guarded, Underway
    <3>4. Late(p) => data[tgt[t]] = By(Other)
      BY <2>1, <3>1 DEF Late
    <3> QED BY <3>1, <3>2, <3>3, <3>4
  <2>2. ASSUME NEW u \in Targets, Intrude(u), NEW t \in Targets, Exists(t), tgt'[t] # tgt[t]
        PROVE  Asked(t)
    BY <2>2, IntrudeKept
  <2> QED BY <2>1, <2>2 DEF Next, Steps, AllEnded
<1> QED BY <1>1, <1>2, <1>3, PTL DEF Spec, ForceOnly

\* However main returns the temporary is gone, and a second Ctrl-C leaves at worst
\* an empty one (Drop for TempOutput, TEMP_PATH and the handler).
THEOREM TidiedUp == Apiece => (Spec => []NoLeftover)
<1> SUFFICES ASSUME Apiece PROVE Spec => []NoLeftover
  OBVIOUS
<1>1. Init => Inv /\ MoreTyped /\ Tidy
  BY Initially, Beginning
<1>2. Inv /\ MoreTyped /\ Tidy /\ [Next]_vars => (Inv /\ MoreTyped /\ Tidy)'
  BY Step, MoreTypedStep, TidyStep, OwnNames
<1>3. Tidy => NoLeftover
  BY DEF Tidy, NoLeftover
<1> QED BY <1>1, <1>2, <1>3, PTL DEF Spec

-----------------------------------------------------------------------------
\* What the exit code of a run says of its target, from the moment it is decided:
\* a success is told only after the rename, an error only before it.  "cancelled"
\* says nothing, for a cancel may come after the rename.
Told ==
  \A p \in Procs : kind[p] = "file" =>
    /\ pc[p] \notin {"forget", "finish", "exit"} \cup Ended => SeenTarget(p) = "as it was"
    /\ pc[p] \in {"sync", "rename", "forget"} => result[p] = "ok"
    /\ pc[p] = "forget" => SeenTarget(p) = "new"
    /\ pc[p] = "fail" => result[p] \in {"io", "failed"}
    /\ pc[p] \in {"drop", "dropped"} =>
         \/ code[p] \in {"io", "failed", "cancelled"}
         \/ code[p] = "none" /\ result[p] \in {"io", "failed"}
    /\ pc[p] = "finish" =>
         IF result[p] = "ok" THEN SeenTarget(p) = "new" ELSE SeenTarget(p) = "as it was"
    /\ pc[p] = "exit" =>
         /\ code[p] = "ok" => SeenTarget(p) = "new"
         /\ code[p] \notin {"ok", "cancelled"} => SeenTarget(p) = "as it was"
    /\ pc[p] \notin {"drop", "dropped", "exit"} \cup Ended => code[p] = "none"

\* Only a rename changes what is seen of a target.
LEMMA SeenKept ==
  ASSUME Apiece, Inv, MoreTyped, NEW p \in Procs, Steps(p), NEW q \in Procs,
         q # p \/ ~Rename(p)
  PROVE  SeenTarget(q)' = SeenTarget(q)
<1>1. UNCHANGED given /\ TargetOf[q] \in Targets
  BY OwnGiven, CliAssumption
<1>2. tgt'[TargetOf[q]] = tgt[TargetOf[q]]
  BY <1>1, Reach, OwnNames DEF Apiece
<1>3. tgt[TargetOf[q]] # NoInode => data'[tgt[TargetOf[q]]] = data[tgt[TargetOf[q]]]
  BY <1>1, Reach, OwnNames DEF Elsewhere, Inv, Typed
<1> QED BY <1>1, <1>2, <1>3 DEF SeenTarget, given, By

\* A rename publishes the whole document of the run that makes it.
LEMMA SeenRename ==
  ASSUME Inv, NEW p \in Procs, Rename(p)
  PROVE  SeenTarget(p)' = "new"
<1>1. kind[p] = "file" /\ TempName(p) = TargetOf[p] /\ kind' = kind /\ data' = data
  BY DEF Rename, Go, Inv, Kinded, TempName, given
<1>2. tgt'[TargetOf[p]] = tmp[TempName(p)] /\ tmp[TempName(p)] # NoInode
  BY <1>1, CliAssumption DEF Rename, Inv, Typed
<1>3. data[tmp[TempName(p)]] = By(p)
  BY <1>2 DEF Rename, Go, Inv, Ready
<1>4. 1 \in Block /\ By(p)[1] = p /\ p \notin {Old, Other}
  BY CliAssumption DEF Block, By
<1>5. ~ \A k \in Block : data'[tgt'[TargetOf[p]]][k] \in {Old, Other}
  BY <1>1, <1>2, <1>3, <1>4
<1>6. data'[tgt'[TargetOf[p]]] = By(p)'
  BY <1>1, <1>2, <1>3 DEF By
<1> QED BY <1>1, <1>2, <1>5, <1>6 DEF SeenTarget

\* A target another program creates is not the work of a run.
LEMMA SeenIntrude ==
  ASSUME Inv, NEW t \in Targets, Intrude(t), NEW q \in Procs
  PROVE  SeenTarget(q)' = SeenTarget(q)
<1>1. PICK i \in Inodes \ InUse :
        tgt' = [tgt EXCEPT ![t] = i] /\ data' = [data EXCEPT ![i] = By(Other)]
  BY DEF Intrude
<1>2. kind' = kind /\ tgt[t] = NoInode /\ TargetOf[q] \in Targets
  BY CliAssumption DEF Intrude, Exists, given
<1>3. CASE TargetOf[q] = t
  <2>1. tgt'[TargetOf[q]] = i /\ data'[i] = By(Other)
    BY <1>1, <1>2, <1>3 DEF Inv, Typed
  <2>2. \A k \in Block : data'[tgt'[TargetOf[q]]][k] \in {Old, Other}
    BY <2>1 DEF By
  <2> QED BY <1>2, <1>3, <2>2 DEF SeenTarget
<1>4. CASE TargetOf[q] # t
  <2>1. tgt'[TargetOf[q]] = tgt[TargetOf[q]] /\ tgt[TargetOf[q]] # i
    BY <1>1, <1>2, <1>4 DEF Inv, Typed, InUse
  <2>2. tgt[TargetOf[q]] # NoInode => data'[tgt[TargetOf[q]]] = data[tgt[TargetOf[q]]]
    BY <1>1, <1>2, <2>1 DEF Inv, Typed
  <2> QED BY <1>2, <2>1, <2>2 DEF SeenTarget, By
<1> QED BY <1>3, <1>4

\* At first nothing is told.
LEMMA ToldFirst == ASSUME Init PROVE Told
<1> SUFFICES ASSUME NEW p \in Procs PROVE pc[p] = "check" /\ code[p] = "none" /\ SeenTarget(p) = "as it was"
  BY DEF Told, Ended
<1>1. pc[p] = "check" /\ code[p] = "none"
  BY DEF Init
<1>2. tgt[TargetOf[p]] # NoInode => \A k \in Block : data[tgt[TargetOf[p]]][k] = Old
  BY CliAssumption DEF Init, By
<1> QED BY <1>1, <1>2 DEF SeenTarget

\* Every step preserves Told.
LEMMA ToldStep ==
  ASSUME Apiece, Inv, MoreTyped, Told, [Next]_vars
  PROVE  Told'
<1> USE DEF given, handler, fs, Go
<1> DEFINE D(p, seen) == kind[p] = "file" =>
      /\ pc[p] \notin {"forget", "finish", "exit"} \cup Ended => seen = "as it was"
      /\ pc[p] \in {"sync", "rename", "forget"} => result[p] = "ok"
      /\ pc[p] = "forget" => seen = "new"
      /\ pc[p] = "fail" => result[p] \in {"io", "failed"}
      /\ pc[p] \in {"drop", "dropped"} =>
           \/ code[p] \in {"io", "failed", "cancelled"}
           \/ code[p] = "none" /\ result[p] \in {"io", "failed"}
      /\ pc[p] = "finish" => IF result[p] = "ok" THEN seen = "new" ELSE seen = "as it was"
      /\ pc[p] = "exit" =>
           /\ code[p] = "ok" => seen = "new"
           /\ code[p] \notin {"ok", "cancelled"} => seen = "as it was"
      /\ pc[p] \notin {"drop", "dropped", "exit"} \cup Ended => code[p] = "none"
<1>1. \A p \in Procs : D(p, SeenTarget(p))
  BY DEF Told
<1>2. ASSUME NEW p \in Procs, Steps(p) PROVE D(p, SeenTarget(p))'
  <2> DEFINE seen == SeenTarget(p)
             then == SeenTarget(p)'
  <2>0. ~Rename(p) => then = seen
    BY <1>2, SeenKept
  <2>1. D(p, seen) /\ pc[p] \in Stages \cup Ended
    BY <1>1 DEF Inv, Typed
  <2> HIDE DEF seen, then
  <2> SUFFICES kind'[p] = "file" =>
        /\ pc'[p] \notin {"forget", "finish", "exit"} \cup Ended => then = "as it was"
        /\ pc'[p] \in {"sync", "rename", "forget"} => result'[p] = "ok"
        /\ pc'[p] = "forget" => then = "new"
        /\ pc'[p] = "fail" => result'[p] \in {"io", "failed"}
        /\ pc'[p] \in {"drop", "dropped"} =>
             \/ code'[p] \in {"io", "failed", "cancelled"}
             \/ code'[p] = "none" /\ result'[p] \in {"io", "failed"}
        /\ pc'[p] = "finish" => IF result'[p] = "ok" THEN then = "new" ELSE then = "as it was"
        /\ pc'[p] = "exit" =>
             /\ code'[p] = "ok" => then = "new"
             /\ code'[p] \notin {"ok", "cancelled"} => then = "as it was"
        /\ pc'[p] \notin {"drop", "dropped", "exit"} \cup Ended => code'[p] = "none"
    BY DEF then, Ended
  <2> USE DEF Inv, Typed, MoreTyped, Kinded, Ended
  <2>2. CASE Rename(p)
    <3>1. then = "new"
      BY <2>2, SeenRename DEF then
    <3>2. pc[p] = "rename" /\ pc'[p] = "forget" /\ result' = result /\ code' = code /\ kind' = kind
      BY <2>2 DEF Rename
    <3> QED BY <2>1, <3>1, <3>2
  <2>3. CASE Check(p) \/ Install(p) \/ OpenFails(p) \/ Register(p)
    <3>1. then = seen
      BY <2>0, <2>3 DEF Check, Install, OpenFails, Register, Rename
    <3>2. /\ UNCHANGED <<kind, result>> /\ pc[p] \in {"check", "install", "open", "register"}
          /\ \/ pc'[p] = "exit" /\ code'[p] \in {"usage", "io"}
             \/ pc'[p] \in {"install", "read", "open", "chmod"} /\ code' = code
      BY <2>3 DEF Check, Install, OpenFails, Register
    <3> QED BY <2>1, <3>1, <3>2
  <2>4. CASE Open(p) \/ Chmod(p) \/ ChmodFails(p) \/ Read(p)
    <3>1. then = seen
      BY <2>0, <2>4 DEF Open, Chmod, ChmodFails, Read, Rename
    <3>2. /\ UNCHANGED <<kind, result>> /\ pc[p] \in {"open", "chmod", "read"}
          /\ \/ pc'[p] = "drop" /\ code'[p] = "io"
             \/ pc'[p] \in {"register", "read", "write"} /\ code' = code
      BY <2>4 DEF Open, Chmod, ChmodFails, Read
    <3> QED BY <2>1, <3>1, <3>2
  <2>5. CASE Write(p) \/ Flush(p)
    <3>1. then = seen
      BY <2>0, <2>5 DEF Write, Flush, Rename
    <3>2. /\ UNCHANGED <<kind, code>> /\ pc[p] \in {"write", "flush"}
          /\ kind[p] = "file" => \/ pc'[p] \in {"read", "flush"} /\ result' = result
                                 \/ pc'[p] = "sync" /\ result'[p] = "ok"
      <4>1. CASE Write(p)
        BY <4>1 DEF Write
      <4>2. CASE Flush(p)
        BY <4>2 DEF Flush
      <4> QED BY <2>5, <4>1, <4>2
    <3> QED BY <2>1, <3>1, <3>2
  <2>6. CASE Copy(p) \/ \E k \in 0..Chunks : CopyFails(p, k)
    <3>1. pc[p] = "copy" /\ kind' = kind
      BY <2>6 DEF Copy, CopyFails
    <3> QED BY <3>1
  <2>7. CASE CommitFails(p) \/ \E r \in {"io", "failed"} : RunFails(p, r)
    <3>1. then = seen
      <4>1. CASE ~Rename(p)
        BY <2>0, <4>1
      <4> QED BY <2>7, <4>1 DEF RunFails, CommitFails, Rename
    <3>2. /\ UNCHANGED <<kind, code>> /\ pc'[p] \in {"drop", "fail"}
          /\ result'[p] \in {"io", "failed"}
          /\ pc[p] \in {"sync", "rename", "read", "write", "flush"}
      BY <2>7 DEF RunFails, CommitFails
    <3> QED BY <2>1, <3>1, <3>2
  <2>8. CASE Sync(p) \/ Forget(p) \/ Drop(p)
    <3>1. then = seen
      BY <2>0, <2>8 DEF Sync, Forget, Drop, Rename
    <3>2. /\ UNCHANGED <<kind, code, result>>
          /\ \/ pc[p] = "sync" /\ pc'[p] = "rename"
             \/ pc[p] = "forget" /\ pc'[p] = "finish"
             \/ pc[p] = "drop" /\ pc'[p] = "dropped"
      BY <2>8 DEF Sync, Forget, Drop
    <3> QED BY <2>1, <3>1, <3>2
  <2>9. CASE Fail(p) \/ Dropped(p) \/ Finish(p) \/ Return(p)
    <3>1. then = seen
      BY <2>0, <2>9 DEF Fail, Dropped, Finish, Return, Rename
    <3>2. CASE Fail(p)
      <4>1. /\ pc[p] = "fail" /\ UNCHANGED <<kind, result>>
            /\ kind[p] = "file" => pc'[p] = "drop"
            /\ code'[p] \in {"cancelled", result[p]}
        BY <3>2 DEF Fail, FinishCode
      <4> QED BY <2>1, <3>1, <4>1
    <3>3. CASE Dropped(p)
      BY <2>1, <3>1, <3>3 DEF Dropped
    <3>4. CASE Finish(p)
      <4>1. /\ pc[p] = "finish" /\ pc'[p] = "exit" /\ UNCHANGED <<kind, result>>
            /\ code'[p] \in {"cancelled", result[p]}
        BY <3>4 DEF Finish, FinishCode
      <4> QED BY <2>1, <3>1, <4>1
    <3>5. CASE Return(p)
      BY <2>1, <3>1, <3>5 DEF Return
    <3> QED BY <2>9, <3>2, <3>3, <3>4, <3>5
  <2>10. CASE Signal(p) \/ Kill(p)
    <3>1. CASE SignalUnhandled(p) \/ HandlerExit(p) \/ Kill(p)
      <4>1. pc'[p] \in {"killed", "exited"}
        BY <3>1 DEF SignalUnhandled, HandlerExit, Kill
      <4> QED BY <4>1
    <3>2. CASE FirstSignal(p) \/ SecondSignal(p)
      <4>1. UNCHANGED <<kind, pc, result, code>>
        BY <3>2 DEF FirstSignal, SecondSignal
      <4>2. then = seen
        BY <2>0, <2>2, <3>2, <4>1 DEF Rename, Stages
      <4> QED BY <2>1, <4>1, <4>2
    <3> QED BY <2>10, <3>1, <3>2 DEF Signal
  <2> QED BY <1>2, <2>2, <2>3, <2>4, <2>5, <2>6, <2>7, <2>8, <2>9, <2>10 DEF Steps, Main
<1>3. ASSUME NEW p \in Procs, Steps(p), NEW q \in Procs, q # p PROVE D(q, SeenTarget(q))'
  <2>1. /\ UNCHANGED given /\ pc'[q] = pc[q] /\ result'[q] = result[q] /\ code'[q] = code[q]
    BY <1>3, Own, OwnGiven DEF Inv
  <2>2. SeenTarget(q)' = SeenTarget(q)
    BY <1>3, SeenKept
  <2>3. D(q, SeenTarget(q))
    BY <1>1
  <2> QED BY <2>1, <2>2, <2>3 DEF Ended
<1>4. CASE \E p \in Procs : Steps(p)
  BY <1>2, <1>3, <1>4 DEF Told
<1>5. ASSUME NEW t \in Targets, Intrude(t) PROVE Told'
  <2>1. UNCHANGED <<kind, pc, result, code>>
    BY <1>5 DEF Intrude
  <2>2. \A q \in Procs : SeenTarget(q)' = SeenTarget(q)
    BY <1>5, SeenIntrude
  <2> QED BY <2>1, <2>2, <1>1 DEF Told, Ended
<1>6. CASE UNCHANGED vars
  <2>1. \A q \in Procs : SeenTarget(q)' = SeenTarget(q)
    BY <1>6 DEF vars, SeenTarget, By
  <2> QED BY <1>6, <2>1, <1>1 DEF vars, Told, Ended
<1> QED BY <1>4, <1>5, <1>6 DEF Next, Steps, AllEnded

-----------------------------------------------------------------------------
\* What the directory shows of the other runs stays as it is.
LEMMA SeenOthers ==
  ASSUME Apiece, Inv, MoreTyped, NEW p \in Procs, Steps(p), NEW q \in Procs, q # p
  PROVE  /\ SeenTarget(q)' = SeenTarget(q) /\ SeenTemp(q)' = SeenTemp(q)
         /\ SeenVerdict(q)' = SeenVerdict(q)
<1>1. UNCHANGED given /\ pc'[q] = pc[q] /\ code'[q] = code[q]
  BY Own, OwnGiven DEF Inv
<1>2. /\ TempName(q)' = TempName(q) /\ TempName(q) # TempName(p) /\ TempName(q) \in Names
  BY <1>1, OwnNames, TempNames DEF TempName, given
<1>3. tmp'[TempName(q)] = tmp[TempName(q)]
  BY <1>2, OwnNames, Reach
<1>4. SeenTarget(q)' = SeenTarget(q)
  BY SeenKept
<1>5. SeenTemp(q)' = SeenTemp(q)
  BY <1>1, <1>2, <1>3 DEF SeenTemp, given
<1>6. SeenVerdict(q)' = SeenVerdict(q)
  BY <1>1 DEF SeenVerdict, Live, given
<1> QED BY <1>4, <1>5, <1>6

\* What a step of p does to what is seen of p: nothing, or one of the steps of
\* OutputPromise, in their order there.
Shown(p) ==
  \/ /\ SeenTarget(p)' = SeenTarget(p) /\ SeenTemp(p)' = SeenTemp(p)
     /\ SeenVerdict(p)' = SeenVerdict(p)
  \/ /\ SeenVerdict(p) = "running" /\ SeenTemp(p) = "none" /\ SeenTarget(p) = "as it was"
     /\ SeenTemp(p)' = "staged"
     /\ SeenTarget(p)' = SeenTarget(p) /\ SeenVerdict(p)' = SeenVerdict(p)
  \/ /\ SeenVerdict(p) = "running" /\ SeenTemp(p) = "staged"
     /\ SeenTarget(p)' = "new" /\ SeenTemp(p)' = "none" /\ SeenVerdict(p)' = SeenVerdict(p)
  \/ /\ SeenVerdict(p) = "running" /\ SeenTemp(p) = "staged" /\ SeenTemp(p)' = "none"
     /\ SeenTarget(p)' = SeenTarget(p) /\ SeenVerdict(p)' = SeenVerdict(p)
  \/ /\ SeenVerdict(p) = "running" /\ SeenTemp(p) = "none"
     /\ SeenVerdict(p)' \in {"ok", "error", "cancelled"}
     /\ SeenVerdict(p)' = "ok" => SeenTarget(p) = "new"
     /\ SeenVerdict(p)' = "error" => SeenTarget(p) = "as it was"
     /\ SeenTarget(p)' = SeenTarget(p) /\ SeenTemp(p)' = SeenTemp(p)
  \/ /\ SeenVerdict(p) = "running" /\ SeenVerdict(p)' = "stopped"
     /\ SeenTarget(p)' = SeenTarget(p) /\ SeenTemp(p)' = SeenTemp(p)

\* Every step of main, of the handler and of a kill shows as one of those.
LEMMA SeenOwn ==
  ASSUME Apiece, Inv, MoreTyped, Tidy, Told, NEW p \in Procs, Steps(p)
  PROVE  Shown(p)
<1> USE DEF given, handler, fs, Go
<1> DEFINE n == TempName(p)
<1>1. UNCHANGED given /\ TempName(p)' = TempName(p) /\ n \in Names
  BY OwnGiven, TempNames DEF TempName
<1>2. ~Rename(p) => SeenTarget(p)' = SeenTarget(p)
  BY SeenKept
<1>3. Live(p) => SeenVerdict(p) = "running"
  BY DEF SeenVerdict, Live, Stages
<1>4. SeenTemp(p) = IF kind[p] = "file" /\ tmp[n] # NoInode THEN "staged" ELSE "none"
  BY DEF SeenTemp
<1>5. SeenTemp(p)' = IF kind[p] = "file" /\ tmp'[n] # NoInode THEN "staged" ELSE "none"
  BY <1>1 DEF SeenTemp
<1>6. pc[p] \in Stages /\ pc'[p] \in Stages => SeenVerdict(p)' = SeenVerdict(p)
  BY DEF SeenVerdict, Live, Stages
<1> USE DEF Inv, Typed, MoreTyped
\* Main and the handler go on, and the names stay.
<1>7. ASSUME ~Rename(p), tmp' = tmp, pc[p] \in Stages, pc'[p] \in Stages PROVE Shown(p)
  BY <1>2, <1>4, <1>5, <1>6, <1>7 DEF Shown
<1>8. CASE Check(p) \/ Install(p) \/ OpenFails(p) \/ Register(p)
  BY <1>7, <1>8 DEF Check, Install, OpenFails, Register, Rename, Stages
<1>9. CASE Chmod(p) \/ ChmodFails(p) \/ Read(p)
  BY <1>7, <1>9 DEF Chmod, ChmodFails, Read, Rename, Stages
<1>10. CASE Write(p) \/ Flush(p)
  BY <1>7, <1>10 DEF Write, Flush, Rename, Stages
<1>11. CASE Copy(p) \/ \E k \in 0..Chunks : CopyFails(p, k)
  BY <1>7, <1>11 DEF Copy, CopyFails, Rename, Stages
<1>12. CASE CommitFails(p) \/ \E r \in {"io", "failed"} : RunFails(p, r)
  BY <1>7, <1>12 DEF RunFails, CommitFails, Rename, Stages
<1>13. CASE Sync(p) \/ Forget(p) \/ Fail(p) \/ Dropped(p) \/ Finish(p)
  BY <1>7, <1>13 DEF Sync, Forget, Fail, Dropped, Finish, Rename, Stages
<1>14. CASE FirstSignal(p)
  <2>1. UNCHANGED <<pc, tmp, tgt, code>> /\ pc[p] \in Stages
    BY <1>14 DEF FirstSignal, Installed, Live
  <2>2. ~Rename(p)
    BY <2>1 DEF Rename
  <2> QED BY <1>7, <2>1, <2>2
<1>15. CASE Open(p)
  <2>1. pc[p] = "open" /\ pc'[p] = "register" /\ tmp'[n] # NoInode /\ ~Rename(p)
    BY <1>1, <1>15, CliAssumption DEF Open, Rename
  <2>2. tmp[n] = NoInode /\ (kind[p] = "file" => SeenTarget(p) = "as it was")
    BY <2>1 DEF Tidy, Told, Ended
  <2> QED BY <1>2, <1>3, <1>4, <1>5, <1>6, <2>1, <2>2 DEF Shown, Stages, Live
<1>16. CASE Rename(p)
  <2>1. pc[p] = "rename" /\ pc'[p] = "forget" /\ tmp'[n] = NoInode /\ tmp[n] # NoInode
    BY <1>1, <1>16 DEF Rename
  <2>2. kind[p] = "file" /\ SeenTarget(p)' = "new"
    BY <1>16, <2>1, SeenRename DEF Kinded
  <2> QED BY <1>3, <1>4, <1>5, <1>6, <2>1, <2>2 DEF Shown, Stages, Live
<1>17. CASE Drop(p) \/ SecondSignal(p)
  <2>1. pc[p] \in Stages /\ pc'[p] \in Stages /\ tmp'[n] \in {tmp[n], NoInode} /\ ~Rename(p)
    BY <1>1, <1>17 DEF Drop, SecondSignal, Installed, Live, Stages, Rename
  <2> QED BY <1>2, <1>3, <1>4, <1>5, <1>6, <2>1 DEF Shown, Live
<1>18. CASE Return(p)
  <2>1. pc[p] = "exit" /\ pc'[p] = "returned" /\ tmp' = tmp /\ code' = code /\ ~Rename(p)
    BY <1>18 DEF Return, Rename
  <2>2. tmp[n] = NoInode /\ SeenVerdict(p) = "running"
    BY <2>1, <1>3 DEF Tidy, Live, Stages
  <2>3. SeenVerdict(p)' = IF kind[p] = "file" THEN IF code[p] \in {"ok", "cancelled"} THEN code[p] ELSE "error"
                          ELSE "stopped"
    BY <1>1, <2>1 DEF SeenVerdict, Live, Stages
  <2>4. kind[p] = "file" =>
          /\ code[p] = "ok" => SeenTarget(p) = "new"
          /\ code[p] \notin {"ok", "cancelled"} => SeenTarget(p) = "as it was"
    BY <2>1 DEF Told
  <2> QED BY <1>2, <1>4, <1>5, <2>1, <2>2, <2>3, <2>4 DEF Shown
<1>19. CASE SignalUnhandled(p) \/ HandlerExit(p) \/ Kill(p)
  <2>1. pc[p] \in Stages /\ pc'[p] \in {"killed", "exited"} /\ tmp' = tmp /\ tgt' = tgt
    BY <1>19 DEF SignalUnhandled, HandlerExit, Kill, Installed, Live
  <2>2. ~Rename(p)
    BY <2>1 DEF Rename
  <2>3. SeenVerdict(p)' = "stopped"
    BY <2>1 DEF SeenVerdict, Live, Stages
  <2> QED BY <1>2, <1>3, <1>4, <1>5, <2>1, <2>2, <2>3 DEF Shown, Live
<1> QED BY <1>8, <1>9, <1>10, <1>11, <1>12, <1>13, <1>14, <1>15, <1>16, <1>17, <1>18, <1>19
        DEF Steps, Main, Signal

\* CliOutput implements OutputPromise: the target goes from what it was to a
\* complete document in one step, success is reported only after it, an error
\* only without it, and a run that returns leaves no temporary (cmd_crypt,
\* TempOutput, finish), for runs with a target each.
THEOREM KeepsThePromise == Apiece => (Spec => KeepsPromise)
<1> SUFFICES ASSUME Apiece PROVE Spec => KeepsPromise
  OBVIOUS
<1>1. Init => Inv /\ MoreTyped /\ Tidy /\ Told
  BY Initially, Beginning, ToldFirst
<1>2. Inv /\ MoreTyped /\ Tidy /\ Told /\ [Next]_vars => (Inv /\ MoreTyped /\ Tidy /\ Told)'
  BY Step, MoreTypedStep, TidyStep, ToldStep, OwnNames
<1>3. Init => Promise!Init
  <2> SUFFICES ASSUME Init, NEW p \in Procs
               PROVE  SeenTarget(p) = "as it was" /\ SeenTemp(p) = "none" /\ SeenVerdict(p) = "running"
    BY DEF Promise!Init
  <2>1. pc[p] = "check" /\ SeenTarget(p) = "as it was"
    <3>1. tgt[TargetOf[p]] # NoInode => \A k \in Block : data[tgt[TargetOf[p]]][k] = Old
      BY CliAssumption DEF Init, By
    <3> QED BY <3>1 DEF SeenTarget, Init
  <2>2. SeenTemp(p) = "none"
    BY TempNames DEF Init, SeenTemp
  <2>3. SeenVerdict(p) = "running"
    BY <2>1 DEF SeenVerdict, Live, Stages
  <2> QED BY <2>1, <2>2, <2>3
<1>4. Inv /\ MoreTyped /\ Tidy /\ Told /\ [Next]_vars => [Promise!Next]_(Promise!vars)
  <2> SUFFICES ASSUME Inv, MoreTyped, Tidy, Told, [Next]_vars
               PROVE  Promise!Next \/ UNCHANGED Promise!vars
    OBVIOUS
  <2>1. ASSUME NEW p \in Procs, Steps(p) PROVE Promise!Next \/ UNCHANGED Promise!vars
    <3>1. Shown(p)
      BY <2>1, SeenOwn
    <3>2. \A q \in Procs : q # p =>
            /\ SeenTarget(q)' = SeenTarget(q) /\ SeenTemp(q)' = SeenTemp(q)
            /\ SeenVerdict(q)' = SeenVerdict(q)
      BY <2>1, SeenOthers
    <3> DEFINE T == [q \in Procs |-> SeenTarget(q)]
               U == [q \in Procs |-> SeenTemp(q)]
               V == [q \in Procs |-> SeenVerdict(q)]
    <3>3. /\ T' = [T EXCEPT ![p] = SeenTarget(p)'] /\ U' = [U EXCEPT ![p] = SeenTemp(p)']
          /\ V' = [V EXCEPT ![p] = SeenVerdict(p)']
      BY <3>2
    <3>4. T[p] = SeenTarget(p) /\ U[p] = SeenTemp(p) /\ V[p] = SeenVerdict(p)
      OBVIOUS
    <3>5. /\ SeenTarget(p)' = SeenTarget(p) => T' = T
          /\ SeenTemp(p)' = SeenTemp(p) => U' = U
          /\ SeenVerdict(p)' = SeenVerdict(p) => V' = V
      BY <3>2
    <3> HIDE DEF T, U, V
    <3>6. \/ T' = T /\ U' = U /\ V' = V
          \/ /\ V[p] = "running" /\ U[p] = "none" /\ T[p] = "as it was"
             /\ U' = [U EXCEPT ![p] = "staged"] /\ T' = T /\ V' = V
          \/ /\ V[p] = "running" /\ U[p] = "staged"
             /\ T' = [T EXCEPT ![p] = "new"] /\ U' = [U EXCEPT ![p] = "none"] /\ V' = V
          \/ /\ V[p] = "running" /\ U[p] = "staged"
             /\ U' = [U EXCEPT ![p] = "none"] /\ T' = T /\ V' = V
          \/ /\ V[p] = "running" /\ U[p] = "none" /\ T' = T /\ U' = U
             /\ \E v \in {"ok", "error", "cancelled"} :
                  /\ v = "ok" => T[p] = "new"
                  /\ v = "error" => T[p] = "as it was"
                  /\ V' = [V EXCEPT ![p] = v]
          \/ V[p] = "running" /\ V' = [V EXCEPT ![p] = "stopped"] /\ T' = T /\ U' = U
      BY <3>1, <3>3, <3>4, <3>5 DEF Shown
    <3>7. \/ Promise!Stage(p) \/ Promise!Publish(p) \/ Promise!Discard(p) \/ Promise!Report(p)
          \/ Promise!Stop(p) \/ UNCHANGED Promise!vars
      BY <3>6 DEF T, U, V, Promise!Stage, Promise!Publish, Promise!Discard, Promise!Report,
                  Promise!Stop, Promise!Running, Promise!vars
    <3> QED BY <3>7 DEF Promise!Next
  <2>2. ASSUME NEW t \in Targets, Intrude(t) PROVE UNCHANGED Promise!vars
    <3>1. UNCHANGED <<kind, pc, code, tmp>>
      BY <2>2 DEF Intrude, given
    <3>2. \A q \in Procs : SeenTarget(q)' = SeenTarget(q)
      BY <2>2, SeenIntrude
    <3>3. \A q \in Procs : SeenTemp(q)' = SeenTemp(q) /\ SeenVerdict(q)' = SeenVerdict(q)
      BY <3>1 DEF SeenTemp, SeenVerdict, TempName, Live
    <3> QED BY <3>2, <3>3 DEF Promise!vars
  <2>3. CASE UNCHANGED vars
    <3>1. \A q \in Procs : /\ SeenTarget(q)' = SeenTarget(q) /\ SeenTemp(q)' = SeenTemp(q)
                           /\ SeenVerdict(q)' = SeenVerdict(q)
      BY <2>3 DEF vars, SeenTarget, SeenTemp, SeenVerdict, TempName, Live, By
    <3> QED BY <3>1 DEF Promise!vars
  <2> QED BY <2>1, <2>2, <2>3 DEF Next, Steps, AllEnded
<1> QED BY <1>1, <1>2, <1>3, <1>4, PTL DEF Spec, KeepsPromise, Promise!Spec
=============================================================================
