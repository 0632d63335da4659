------------------------------ MODULE CliOutput ------------------------------
(***************************************************************************)
(* How the odf-crypto command line puts its output on disk                 *)
(* (src/bin/odf-crypto.rs: cmd_crypt, TempOutput, Cancellable, the Ctrl-C  *)
(* handler and finish).  A run writes beside its target into a temporary   *)
(* file of a fixed name and renames it over the target; the handler runs   *)
(* on a thread of its own, so it interleaves with every step of main.      *)
(*                                                                         *)
(* Abstractions.  An output is Chunks blocks, and a block is the run that  *)
(* wrote it.  Every file-system call is one atomic step.  Each block is    *)
(* one read of the input (which is where a cancel is seen) and one write.  *)
(* What the library computes in between is left out: it may fail at any    *)
(* step of the loop.                                                       *)
(***************************************************************************)
EXTENDS Naturals, FiniteSets

CONSTANTS
  Procs,        \* the runs, one process each
  Targets,      \* output names in one directory
  TargetOf,     \* the target each run was given
  Inodes,       \* files the file system can hold
  Chunks,       \* bound: blocks of one output
  NoInode,      \* a name with no file, a descriptor that is closed
  Old,          \* whoever wrote the documents already there
  Other,        \* whoever else creates files in the directory
  Blank,        \* a block nobody has written yet
  Before,       \* the runs a run waits for before it starts
  Kinds,        \* bound: the kinds of output an instance explores
  Intruded,     \* targets some other program may create meanwhile
  Killable      \* runs that may be killed hard

ASSUME CliAssumption ==
  /\ TargetOf \in [Procs -> Targets]
  /\ Before \in [Procs -> SUBSET Procs]
  /\ Kinds \subseteq {"file", "scratch", "direct"}
  /\ Chunks \in Nat \ {0}
  /\ Procs \cap Targets = {}
  /\ NoInode \notin Inodes
  /\ Old \notin Procs /\ Other \notin Procs /\ Blank \notin Procs
  /\ Blank \notin {Old, Other}

VARIABLES
  kind,         \* "file", "scratch" (to stdout, must seek) or "direct"
  force,        \* --force was given
  asked,        \* history: how target.exists() found the target
  liked,        \* history: how metadata(target) did, when permissions were copied
  pc,           \* where main is
  cancelled,    \* CANCELLED
  leaving,      \* the handler is past the deletion, about to exit
  slot,         \* TEMP_PATH holds this run's temporary
  file,         \* the temporary's open descriptor
  pos,          \* blocks written so far
  result,       \* what the run, the commit or the copy reported
  code,         \* exit code, once decided
  stdout,       \* blocks that reached standard output
  tgt,          \* directory: target name -> inode
  tmp,          \* directory: temporary and scratch names -> inode
  data,         \* inode -> blocks
  perm          \* inode -> permissions

given   == <<kind, force>>
looks   == <<asked, liked>>
handler == <<cancelled, leaving>>
fs      == <<tgt, tmp, data, perm>>
vars == <<kind, force, asked, liked, pc, cancelled, leaving, slot, file, pos, result, code,
          stdout, tgt, tmp, data, perm>>

-----------------------------------------------------------------------------
\* The exit codes a run that gets as far as cmd_crypt can end with.  "failed"
\* stands for every code of the *_exit tables.
Codes  == {"none", "ok", "usage", "io", "failed", "cancelled", "signal"}
Stages == {"check", "install", "open", "register", "chmod", "read", "write",
           "flush", "sync", "rename", "forget", "copy", "fail", "drop",
           "dropped", "finish", "exit"}
Ended  == {"returned", "exited", "killed"}

Names   == Targets \cup Procs
Owners  == Procs \cup {Old, Other}
Block   == 1..Chunks
Nothing == [k \in Block |-> Blank]
By(w)   == [k \in Block |-> w]

\* Two outputs beside one target share one temporary name: it is made of the
\* target's name alone.  The scratch file carries the process id.
TempName(p) == IF kind[p] = "file" THEN TargetOf[p] ELSE p

Live(p)    == pc[p] \in Stages
Started(p) == \A q \in Before[p] : ~Live(q)
InUse    == {tgt[t] : t \in Targets} \cup {tmp[n] : n \in Names}
              \cup {file[p] : p \in Procs}
Exists(t) == tgt[t] # NoInode

\* What a stat of the target can answer.  One that fails looks like no file at
\* all to the code: the name of a dangling link, a directory behind a link that
\* may not be searched, an I/O error.
Looks   == {"not yet", "absent", "found", "unseen"}
Stat(p) == IF kind[p] = "file" /\ Exists(TargetOf[p]) THEN {"found", "unseen"}
                                                      ELSE {"absent"}

Go(p, from, to) == pc[p] = from /\ pc' = [pc EXCEPT ![p] = to]

-----------------------------------------------------------------------------
Init ==
  /\ kind \in [Procs -> Kinds]
  /\ force \in [Procs -> BOOLEAN]
  /\ asked = [p \in Procs |-> "not yet"]
  /\ liked = [p \in Procs |-> "not yet"]
  /\ pc = [p \in Procs |-> "check"]
  /\ cancelled = [p \in Procs |-> FALSE]
  /\ leaving = [p \in Procs |-> FALSE]
  /\ slot = [p \in Procs |-> FALSE]
  /\ file = [p \in Procs |-> NoInode]
  /\ pos = [p \in Procs |-> 0]
  /\ result = [p \in Procs |-> "none"]
  /\ code = [p \in Procs |-> "none"]
  /\ stdout = [p \in Procs |-> Nothing]
  /\ tmp = [n \in Names |-> NoInode]
  \* Each target is missing or is a document of its own.  The documents of others
  \* are private: to one anybody may read, nothing is more readable.
  /\ tgt \in [Targets -> Inodes \cup {NoInode}]
  /\ \A t, u \in Targets : t # u => tgt[t] # tgt[u] \/ ~Exists(t)
  /\ data = [i \in Inodes |-> IF \E t \in Targets : tgt[t] = i
                              THEN By(Old) ELSE Nothing]
  /\ perm = [i \in Inodes |-> IF \E t \in Targets : tgt[t] = i
                              THEN "private" ELSE "default"]

\* Slips of this module are named as such: each is the operator after it with a
\* plausible mistake, and some property fails of it.
\* Slip: --force and what the target is do not matter.
CheckNothing(p) ==
  /\ Started(p) /\ Go(p, "check", "install")
  /\ \E s \in Stat(p) : asked' = [asked EXCEPT ![p] = s]
  /\ UNCHANGED <<given, liked, handler, slot, file, pos, result, code, stdout, fs>>

\* target.exists() without --force is a usage error; exists() is false also of a
\* target whose stat fails.
Check(p) ==
  /\ pc[p] = "check" /\ Started(p)
  /\ \E s \in Stat(p) :
       /\ asked' = [asked EXCEPT ![p] = s]
       /\ IF s = "found" /\ ~force[p]
          THEN /\ pc' = [pc EXCEPT ![p] = "exit"]
               /\ code' = [code EXCEPT ![p] = "usage"]
          ELSE pc' = [pc EXCEPT ![p] = "install"] /\ UNCHANGED code
  /\ UNCHANGED <<given, liked, handler, slot, file, pos, result, stdout, fs>>

\* install_ctrl_c; decrypt to stdout needs no temporary file.
Install(p) ==
  /\ Go(p, "install", IF kind[p] = "direct" THEN "read" ELSE "open")
  /\ UNCHANGED <<given, looks, handler, slot, file, pos, result, code, stdout, fs>>

\* OpenOptions::create + truncate: a file already under the name is reused,
\* with the permissions it has.
Open(p) ==
  LET n == TempName(p) IN
  /\ Go(p, "open", "register")
  /\ \E i \in Inodes :
       /\ IF tmp[n] = NoInode
          THEN i \notin InUse /\ perm' = [perm EXCEPT ![i] = "default"]
          ELSE i = tmp[n] /\ UNCHANGED perm
       /\ tmp' = [tmp EXCEPT ![n] = i]
       /\ file' = [file EXCEPT ![p] = i]
       /\ data' = [data EXCEPT ![i] = Nothing]
  /\ UNCHANGED <<given, looks, handler, slot, pos, result, code, stdout, tgt>>

\* Without a temporary the run reports EX_IO and returns, past finish.
OpenFails(p) ==
  /\ Go(p, "open", "exit")
  /\ code' = [code EXCEPT ![p] = "io"]
  /\ UNCHANGED <<given, looks, handler, slot, file, pos, result, stdout, fs>>

\* TEMP_PATH learns the name only after the file exists.
Register(p) ==
  /\ Go(p, "register", "chmod")
  /\ slot' = [slot EXCEPT ![p] = TRUE]
  /\ UNCHANGED <<given, looks, handler, file, pos, result, code, stdout, fs>>

\* Slip: the permissions stay those of a new file.
ChmodNothing(p) ==
  /\ Go(p, "chmod", "read")
  /\ \E s \in Stat(p) : liked' = [liked EXCEPT ![p] = s]
  /\ UNCHANGED <<given, asked, handler, slot, file, pos, result, code, stdout, fs>>

\* metadata(target).ok(): without an answer the permissions stay as they are.
\* set_permissions works on the path: it finds whatever is there now.
Chmod(p) ==
  LET i == tmp[TempName(p)] IN
  /\ Go(p, "chmod", "read")
  /\ \E s \in Stat(p) :
       /\ liked' = [liked EXCEPT ![p] = s]
       /\ s = "found" => i # NoInode
       /\ perm' = IF s = "found" THEN [perm EXCEPT ![i] = perm[tgt[TargetOf[p]]]]
                                 ELSE perm
  /\ UNCHANGED <<given, asked, handler, slot, file, pos, result, code, stdout,
                 tgt, tmp, data>>

\* The `?` on set_permissions drops the guard and reports EX_IO, past finish.
ChmodFails(p) ==
  /\ kind[p] = "file" /\ Exists(TargetOf[p])
  /\ Go(p, "chmod", "drop")
  /\ code' = [code EXCEPT ![p] = "io"]
  /\ UNCHANGED <<given, looks, handler, slot, file, pos, result, stdout, fs>>

\* Slip: the reader is not wrapped in Cancellable.
ReadAnyway(p) ==
  /\ Go(p, "read", "write")
  /\ UNCHANGED <<given, looks, handler, slot, file, pos, result, code, stdout, fs>>

\* Cancellable::read lets a read through only while nobody has cancelled.
Read(p) ==
  /\ ~cancelled[p]
  /\ Go(p, "read", "write")
  /\ UNCHANGED <<given, looks, handler, slot, file, pos, result, code, stdout, fs>>

Write(p) ==
  LET k == pos[p] + 1 IN
  /\ Go(p, "write", IF k = Chunks THEN "flush" ELSE "read")
  /\ pos' = [pos EXCEPT ![p] = k]
  /\ IF kind[p] = "direct"
     THEN stdout' = [stdout EXCEPT ![p][k] = p] /\ UNCHANGED data
     ELSE data' = [data EXCEPT ![file[p]][k] = p] /\ UNCHANGED stdout
  /\ UNCHANGED <<given, looks, handler, slot, file, result, code, tgt, tmp, perm>>

\* Slip: a cancelled read counts as interrupted, and is tried again.
RunRetries(p, r) ==
  /\ pc[p] \in {"read", "write", "flush"}
  /\ IF pc[p] = "read" /\ cancelled[p] THEN UNCHANGED <<pc, result>>
     ELSE pc' = [pc EXCEPT ![p] = "fail"] /\ result' = [result EXCEPT ![p] = r]
  /\ UNCHANGED <<given, looks, handler, slot, file, pos, code, stdout, fs>>

\* Slip: what there is is committed or copied out whatever the run reported.
RunFailsOnward(p, r) ==
  /\ pc[p] \in {"read", "write", "flush"}
  /\ pc' = [pc EXCEPT ![p] = CASE kind[p] = "file"    -> "sync"
                               [] kind[p] = "scratch" -> "copy"
                               [] kind[p] = "direct"  -> "fail"]
  /\ result' = [result EXCEPT ![p] = r]
  /\ UNCHANGED <<given, looks, handler, slot, file, pos, code, stdout, fs>>

\* The library refuses, the disk fills or the cancelled reader fails: at any
\* read or write, or after the last block (a tag or a size found wrong).
RunFails(p, r) ==
  /\ pc[p] \in {"read", "write", "flush"}
  /\ r \in (IF pc[p] = "read" /\ cancelled[p] THEN {"io"} ELSE {"io", "failed"})
  /\ pc' = [pc EXCEPT ![p] = "fail"]
  /\ result' = [result EXCEPT ![p] = r]
  /\ UNCHANGED <<given, looks, handler, slot, file, pos, code, stdout, fs>>

Flush(p) ==
  /\ Go(p, "flush", CASE kind[p] = "file"    -> "sync"
                      [] kind[p] = "scratch" -> "copy"
                      [] kind[p] = "direct"  -> "finish")
  /\ result' = [result EXCEPT ![p] = "ok"]
  /\ UNCHANGED <<given, looks, handler, slot, file, pos, code, stdout, fs>>

\* TempOutput::commit: the descriptor is synced and closed, ...
Sync(p) ==
  /\ Go(p, "sync", "rename")
  /\ file' = [file EXCEPT ![p] = NoInode]
  /\ UNCHANGED <<given, looks, handler, slot, pos, result, code, stdout, fs>>

\* ... the name moved over the target, whatever file it names by then, ...
Rename(p) ==
  LET n == TempName(p) IN
  /\ tmp[n] # NoInode
  /\ Go(p, "rename", "forget")
  /\ tgt' = [tgt EXCEPT ![n] = tmp[n]]
  /\ tmp' = [tmp EXCEPT ![n] = NoInode]
  /\ UNCHANGED <<given, looks, handler, slot, file, pos, result, code, stdout,
                 data, perm>>

\* ... and TEMP_PATH emptied.
Forget(p) ==
  /\ Go(p, "forget", "finish")
  /\ slot' = [slot EXCEPT ![p] = FALSE]
  /\ UNCHANGED <<given, looks, handler, file, pos, result, code, stdout, fs>>

\* TempOutput::copy_to reads its own descriptor back, then drops.
Copy(p) ==
  /\ Go(p, "copy", "drop")
  /\ stdout' = [stdout EXCEPT ![p] = data[file[p]]]
  /\ UNCHANGED <<given, looks, handler, slot, file, pos, result, code, fs>>

\* io::copy may have printed a part by the time it fails.
CopyFails(p, k) ==
  /\ Go(p, "copy", "drop")
  /\ stdout' = [stdout EXCEPT ![p] = [b \in Block |-> IF b <= k THEN data[file[p]][b]
                                                              ELSE Blank]]
  /\ result' = [result EXCEPT ![p] = "io"]
  /\ UNCHANGED <<given, looks, handler, slot, file, pos, code, fs>>

\* sync_all or rename fails: the guard drops inside commit.
CommitFails(p) ==
  /\ pc[p] \in {"sync", "rename"}
  /\ pc' = [pc EXCEPT ![p] = "drop"]
  /\ result' = [result EXCEPT ![p] = "io"]
  /\ UNCHANGED <<given, looks, handler, slot, file, pos, code, stdout, fs>>

\* finish: a cancel wins over whatever the run reported.
FinishCode(p) == IF cancelled[p] THEN "cancelled" ELSE result[p]

\* A failed run: finish is evaluated before the guard goes out of scope.
Fail(p) ==
  /\ Go(p, "fail", IF kind[p] = "direct" THEN "exit" ELSE "drop")
  /\ code' = [code EXCEPT ![p] = FinishCode(p)]
  /\ UNCHANGED <<given, looks, handler, slot, file, pos, result, stdout, fs>>

\* Slip: the guard closes the file and leaves the name.
DropOpen(p) ==
  /\ Go(p, "drop", "dropped")
  /\ file' = [file EXCEPT ![p] = NoInode]
  /\ UNCHANGED <<given, looks, handler, slot, pos, result, code, stdout, fs>>

\* Drop for TempOutput: unlink the path, whatever file it names by then, ...
Drop(p) ==
  /\ Go(p, "drop", "dropped")
  /\ file' = [file EXCEPT ![p] = NoInode]
  /\ tmp' = [tmp EXCEPT ![TempName(p)] = NoInode]
  /\ UNCHANGED <<given, looks, handler, slot, pos, result, code, stdout,
                 tgt, data, perm>>

\* ... and empty TEMP_PATH.
Dropped(p) ==
  /\ Go(p, "dropped", IF code[p] = "none" THEN "finish" ELSE "exit")
  /\ slot' = [slot EXCEPT ![p] = FALSE]
  /\ UNCHANGED <<given, looks, handler, file, pos, result, code, stdout, fs>>

Finish(p) ==
  /\ Go(p, "finish", "exit")
  /\ code' = [code EXCEPT ![p] = FinishCode(p)]
  /\ UNCHANGED <<given, looks, handler, slot, file, pos, result, stdout, fs>>

Return(p) ==
  /\ Go(p, "exit", "returned")
  /\ UNCHANGED <<given, looks, handler, slot, file, pos, result, code, stdout, fs>>

Main(p) ==
  \/ Check(p) \/ Install(p) \/ Open(p) \/ OpenFails(p) \/ Register(p)
  \/ Chmod(p) \/ ChmodFails(p) \/ Read(p) \/ Write(p) \/ Flush(p)
  \/ \E r \in {"io", "failed"} : RunFails(p, r)
  \/ Sync(p) \/ Rename(p) \/ Forget(p) \/ Copy(p) \/ CommitFails(p)
  \/ \E k \in 0..Chunks : CopyFails(p, k)
  \/ Fail(p) \/ Drop(p) \/ Dropped(p) \/ Finish(p) \/ Return(p)

-----------------------------------------------------------------------------
\* Before the handler is installed the first Ctrl-C ends the process.
Installed(p) == Live(p) /\ pc[p] \notin {"check", "install"}
                        /\ code[p] # "usage"

SignalUnhandled(p) ==
  /\ Live(p) /\ Started(p) /\ ~Installed(p)
  /\ pc' = [pc EXCEPT ![p] = "killed"]
  /\ code' = [code EXCEPT ![p] = "signal"]
  /\ file' = [file EXCEPT ![p] = NoInode]
  /\ UNCHANGED <<given, looks, handler, slot, pos, result, stdout, fs>>

\* The first Ctrl-C only raises the flag.
FirstSignal(p) ==
  /\ Installed(p) /\ ~cancelled[p]
  /\ cancelled' = [cancelled EXCEPT ![p] = TRUE]
  /\ UNCHANGED <<given, looks, leaving, pc, slot, file, pos, result, code, stdout, fs>>

\* The second one deletes the registered temporary, under the lock, ...
SecondSignal(p) ==
  /\ Installed(p) /\ cancelled[p] /\ ~leaving[p]
  /\ leaving' = [leaving EXCEPT ![p] = TRUE]
  /\ tmp' = IF slot[p] THEN [tmp EXCEPT ![TempName(p)] = NoInode] ELSE tmp
  /\ UNCHANGED <<given, looks, cancelled, pc, slot, file, pos, result, code, stdout,
                 tgt, data, perm>>

\* ... and exits; until then main keeps running.
HandlerExit(p) ==
  /\ Installed(p) /\ leaving[p]
  /\ pc' = [pc EXCEPT ![p] = "exited"]
  /\ code' = [code EXCEPT ![p] = "cancelled"]
  /\ file' = [file EXCEPT ![p] = NoInode]
  /\ UNCHANGED <<given, looks, handler, slot, pos, result, stdout, fs>>

Signal(p) ==
  SignalUnhandled(p) \/ FirstSignal(p) \/ SecondSignal(p) \/ HandlerExit(p)

\* kill -9 or a power cut.
Kill(p) ==
  /\ p \in Killable /\ Live(p) /\ Started(p)
  /\ pc' = [pc EXCEPT ![p] = "killed"]
  /\ code' = [code EXCEPT ![p] = "signal"]
  /\ file' = [file EXCEPT ![p] = NoInode]
  /\ UNCHANGED <<given, looks, handler, slot, pos, result, stdout, fs>>

\* Some other program creates a target that was not there, at any moment.
Intrude(t) ==
  /\ t \in Intruded /\ ~Exists(t)
  /\ \E i \in Inodes \ InUse :
       /\ tgt' = [tgt EXCEPT ![t] = i]
       /\ data' = [data EXCEPT ![i] = By(Other)]
       /\ perm' = [perm EXCEPT ![i] = "private"]
  /\ UNCHANGED <<given, looks, handler, pc, slot, file, pos, result, code,
                 stdout, tmp>>

AllEnded == (\A p \in Procs : ~Live(p)) /\ UNCHANGED vars

Next ==
  \/ \E p \in Procs : Main(p) \/ Signal(p) \/ Kill(p)
  \/ \E t \in Targets : Intrude(t)
  \/ AllEnded

\* The operating system keeps scheduling main; signals need never come.
Fairness == \A p \in Procs : WF_vars(Main(p)) /\ WF_vars(HandlerExit(p))

Spec == Init /\ [][Next]_vars /\ Fairness

-----------------------------------------------------------------------------
\* Every document under a target name is complete and the work of one writer,
\* after any kill or Ctrl-C: the rename publishes a finished file or nothing.
TargetsWhole ==
  \A t \in Targets : Exists(t) => \E w \in Owners : data[tgt[t]] = By(w)

\* README: "An existing file is never overwritten without --force".  Judged at the
\* rename, of the run that makes it: without its own --force it replaces only what
\* cmd_crypt could not know of.  Either the stat failed, or there was no target
\* then and what is lost is a file some other program made since; never a document
\* that was there and could be seen, never the output of another run.
ForceOnly ==
  [][\A t \in Targets : Exists(t) /\ tgt'[t] # tgt[t] =>
       \E p \in Procs :
         /\ TargetOf[p] = t /\ pc[p] = "rename" /\ pc'[p] = "forget"
         /\ \/ force[p]
            \/ asked[p] = "unseen"
            \/ asked[p] = "absent" /\ data[tgt[t]] = By(Other)]_vars

\* However main ends -- success, any error, a first Ctrl-C -- the temporary is
\* gone; a second Ctrl-C leaves at worst an empty one, never a byte of plaintext.
NoLeftover ==
  \A p \in Procs :
    LET i == tmp[TempName(p)] IN
    /\ pc[p] = "returned" => i = NoInode
    /\ pc[p] = "exited" /\ i # NoInode => data[i] = Nothing

\* Output to stdout that must seek first is copied out only when complete: an
\* encrypt or rekey the library refused has printed nothing.
ScratchOnlyWhenDone ==
  \A p \in Procs :
    kind[p] = "scratch" /\ stdout[p] # Nothing
      => /\ pos[p] = Chunks /\ result[p] # "failed"
         /\ \A k \in Block : stdout[p][k] \in {p, Blank}

Held(p)       == {file[p], tmp[TempName(p)]} \ {NoInode}
Written(p, i) == \E k \in Block : data[i][k] = p

\* "a decrypted file is never briefly more readable than the file it replaces":
\* a file that holds a block of p's output, as p's temporary or as what a kill
\* left of it, is more readable than the target only if metadata(target) failed,
\* or if there was no target then and some other program has made one since.
NeverMoreReadable ==
  \A p \in Procs : \A i \in Held(p) :
    LET t == TargetOf[p] IN
    /\ kind[p] = "file" /\ Written(p, i)
    /\ Exists(t) /\ perm[tgt[t]] = "private" /\ perm[i] = "default"
    => \/ liked[p] = "unseen"
       \/ liked[p] = "absent" /\ data[tgt[t]] = By(Other)

\* A Ctrl-C that comes while input is still to be read stops the run: it ends,
\* without touching the target, without a temporary and without a success,
\* unless it is killed.
CancelStops ==
  \A p \in Procs :
    (cancelled[p] /\ ~leaving[p] /\ pc[p] = "read")
      ~> \/ pc[p] = "killed"
         \/ /\ pc[p] \in {"returned", "exited"} /\ code[p] = "cancelled"
            /\ kind[p] # "direct" => tmp[TempName(p)] = NoInode
            /\ kind[p] = "file" /\ Exists(TargetOf[p])
                 => data[tgt[TargetOf[p]]] # By(p)

\* Every run ends, whatever fails and whatever is pressed.
Terminates == \A p \in Procs : <>(pc[p] \in Ended)

\* The exit-code comment on EX_CANCELLED and the README ("Ctrl-C cancels the run
\* the same way") read 130 as a run that did not deliver.
CancelledMeansNotWritten ==
  \A p \in Procs :
    pc[p] = "returned" /\ code[p] = "cancelled" /\ kind[p] = "file"
      /\ Exists(TargetOf[p]) => data[tgt[TargetOf[p]]] # By(p)

\* What a reader of the directory sees of a run that writes a file.  Output to
\* stdout makes no promise about a target: it maps to a run that stops.
SeenTarget(p) ==
  LET i == tgt[TargetOf[p]] IN
  IF kind[p] # "file" \/ i = NoInode \/ (\A k \in Block : data[i][k] \in {Old, Other})
  THEN "as it was"
  ELSE IF data[i] = By(p) THEN "new" ELSE "torn"

SeenTemp(p) ==
  IF kind[p] = "file" /\ tmp[TempName(p)] # NoInode THEN "staged" ELSE "none"

SeenVerdict(p) ==
  CASE Live(p) -> "running"
    [] pc[p] = "returned" /\ kind[p] = "file" ->
         IF code[p] \in {"ok", "cancelled"} THEN code[p] ELSE "error"
    [] OTHER -> "stopped"

Promise == INSTANCE OutputPromise WITH
  Runs    <- Procs,
  target  <- [p \in Procs |-> SeenTarget(p)],
  temp    <- [p \in Procs |-> SeenTemp(p)],
  verdict <- [p \in Procs |-> SeenVerdict(p)]

\* Seen from the directory, the steps of main, of the handler and of a kill are
\* steps of the promise (README, "Output files").
KeepsPromise == Promise!Spec
=============================================================================
