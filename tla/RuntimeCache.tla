---------------------------- MODULE RuntimeCache ----------------------------
(***************************************************************************)
(* The content-addressed cache of the native runtime library               *)
(* (main/build.rs).  Every `mimi build` on the machine shares one cache    *)
(* directory.  A call takes the advisory lock, hashes the runtime's        *)
(* sources into a key, sweeps stale temporaries, and returns the archive   *)
(* under that key or compiles one into a temporary and renames it.  The    *)
(* linker then reads the archive without the lock.                         *)
(*                                                                         *)
(* Nothing stops the sources from changing meanwhile: both the key and the *)
(* compiler read them one file at a time.  A call may be killed at any     *)
(* step; its rustc may survive it and go on writing, holding no lock (Rust *)
(* opens the lock file close-on-exec).  A restarted build is another       *)
(* process, with its own process id in the name of its temporary.          *)
(***************************************************************************)
EXTENDS Integers

CONSTANTS
  Proc,       \* builds started on this machine
  NoProc,     \* the lock is free
  File,       \* source files of the runtime library
  MaxVersion, \* bound on the edits of one file
  NoArchive,  \* nothing is stored under a key
  Truncated   \* an archive rustc did not finish writing

MaxRetries == 1   \* RUNTIME_CACHE_MAX_IDENTITY_RETRIES

\* The contents of one file, numbered in the order they were written, and
\* the sources as a whole, which the key identifies.
Version == 0 .. MaxVersion
Key == [File -> Version]

ASSUME CacheAssumption ==
  /\ NoProc \notin Proc
  /\ MaxVersion \in Nat
  /\ NoArchive \notin Key /\ Truncated \notin Key /\ NoArchive # Truncated

VARIABLES
  source,     \* the file contents on disk
  reverted,   \* history: files that were set back to earlier contents
  lock,       \* the holder of build.lock
  archive,    \* libmimi_runtime_<key>.a: the sources it was compiled from
  temp,       \* the call's temporary archive: "absent", "partial" or "whole"
  pc,         \* where the call is
  hit,        \* the archive was found, not compiled
  attempt,    \* identity retries so far
  key,        \* the contents the key was computed from
  read,       \* files read so far by the pass that is running
  same,       \* the second pass found every file as the first one did
  rustc,      \* the compiler: "none", "reading", "writing", "ok", "bad"
  compiled,   \* files rustc has read so far
  built       \* their contents as rustc read them

callVars == <<pc, hit, attempt, key, read, same>>
rustcVars == <<rustc, compiled, built>>
vars == <<source, reverted, lock, archive, temp, callVars, rustcVars>>

Ended == {"returned", "failed", "dead"}

\* Sources of which no file was read yet.
Unread == [f \in File |-> 0]

Init ==
  /\ source = Unread
  /\ reverted = {}
  /\ lock = NoProc
  /\ archive = [k \in Key |-> NoArchive]
  /\ temp = [p \in Proc |-> "absent"]
  /\ pc = [p \in Proc |-> "start"]
  /\ hit = [p \in Proc |-> FALSE]
  /\ attempt = [p \in Proc |-> 0]
  /\ key = [p \in Proc |-> Unread]
  /\ read = [p \in Proc |-> {}]
  /\ same = [p \in Proc |-> TRUE]
  /\ rustc = [p \in Proc |-> "none"]
  /\ compiled = [p \in Proc |-> {}]
  /\ built = [p \in Proc |-> Unread]

----------------------------------------------------------------------------
(* The call: cached_native_runtime *)

\* Mutant: flock is not waited for.
AcquireUnlocked(p) ==
  /\ pc[p] = "start"
  /\ lock' = p
  /\ pc' = [pc EXCEPT ![p] = "key"]
  /\ UNCHANGED <<source, reverted, archive, temp, hit, attempt, key, read, same, rustcVars>>

\* acquire_runtime_cache_lock: flock blocks until the lock is free.
Acquire(p) ==
  /\ pc[p] = "start"
  /\ lock = NoProc
  /\ lock' = p
  /\ pc' = [pc EXCEPT ![p] = "key"]
  /\ UNCHANGED <<source, reverted, archive, temp, hit, attempt, key, read, same, rustcVars>>

\* runtime_cache_key reads the next source file.
HashFile(p, f) ==
  /\ pc[p] = "key"
  /\ f \notin read[p]
  /\ read' = [read EXCEPT ![p] = @ \cup {f}]
  /\ key' = [key EXCEPT ![p][f] = source[f]]
  /\ UNCHANGED <<source, reverted, lock, archive, temp, pc, hit, attempt, same, rustcVars>>

\* Every temporary in the directory goes, whoever wrote it.
SweptTemps == [q \in Proc |-> "absent"]

\* cleanup_runtime_cache_stale_temps and runtime_cache_hit.  The header check
\* reads eight bytes, which a truncated archive has too.
LookUp(p) ==
  /\ pc[p] = "key" /\ read[p] = File
  /\ temp' = SweptTemps
  /\ read' = [read EXCEPT ![p] = {}]
  /\ same' = [same EXCEPT ![p] = TRUE]
  /\ IF archive[key[p]] # NoArchive
       THEN /\ hit' = [hit EXCEPT ![p] = TRUE]
            /\ pc' = [pc EXCEPT ![p] = "recheck"]
            /\ UNCHANGED rustcVars
       ELSE /\ hit' = [hit EXCEPT ![p] = FALSE]
            /\ pc' = [pc EXCEPT ![p] = "compile"]
            /\ rustc' = [rustc EXCEPT ![p] = "reading"]
            /\ compiled' = [compiled EXCEPT ![p] = {}]
            /\ built' = [built EXCEPT ![p] = Unread]
  /\ UNCHANGED <<source, reverted, lock, archive, attempt, key>>

\* Mutant: a compiled archive is published without looking at the sources again.
CompileDoneUnchecked(p) ==
  /\ pc[p] = "compile" /\ rustc[p] = "ok"
  /\ pc' = [pc EXCEPT ![p] = "publish"]
  /\ UNCHANGED <<source, reverted, lock, archive, temp, hit, attempt, key, read, same, rustcVars>>

\* rustc succeeded: ensure_runtime_cache_key_stable starts.
CompileDone(p) ==
  /\ pc[p] = "compile" /\ rustc[p] = "ok"
  /\ pc' = [pc EXCEPT ![p] = "recheck"]
  /\ UNCHANGED <<source, reverted, lock, archive, temp, hit, attempt, key, read, same, rustcVars>>

\* The call is over and its locals are gone, but for the path it returned.
\* Closing the lock file, or the death of its process, frees the lock.
Ends(p, how) ==
  /\ pc' = [pc EXCEPT ![p] = how]
  /\ lock' = IF lock = p THEN NoProc ELSE lock
  /\ hit' = [hit EXCEPT ![p] = FALSE]
  /\ attempt' = [attempt EXCEPT ![p] = 0]
  /\ key' = IF how = "returned" THEN key ELSE [key EXCEPT ![p] = Unread]
  /\ read' = [read EXCEPT ![p] = {}]
  /\ same' = [same EXCEPT ![p] = TRUE]

\* An error return: TempFileGuard removes the temporary.
Fails(p) == Ends(p, "failed") /\ temp' = [temp EXCEPT ![p] = "absent"]

\* rustc failed.
CompileFails(p) ==
  /\ pc[p] = "compile" /\ rustc[p] = "bad"
  /\ Fails(p)
  /\ UNCHANGED <<source, reverted, archive, rustcVars>>

\* The second pass reads the next file.
RehashFile(p, f) ==
  /\ pc[p] = "recheck"
  /\ f \notin read[p]
  /\ read' = [read EXCEPT ![p] = @ \cup {f}]
  /\ same' = [same EXCEPT ![p] = @ /\ source[f] = key[p][f]]
  /\ UNCHANGED <<source, reverted, lock, archive, temp, pc, hit, attempt, key, rustcVars>>

\* The key is what it was: return the archive, or go on to publish it.
KeyStable(p) ==
  /\ pc[p] = "recheck" /\ read[p] = File /\ same[p]
  /\ IF hit[p]
       THEN Ends(p, "returned")
       ELSE /\ pc' = [pc EXCEPT ![p] = "publish"]
            /\ UNCHANGED <<lock, hit, attempt, key, read, same>>
  /\ UNCHANGED <<source, reverted, archive, temp, rustcVars>>

\* The loop starts over; TempFileGuard has removed the temporary.
Retries(p) ==
  /\ read' = [read EXCEPT ![p] = {}]
  /\ key' = [key EXCEPT ![p] = Unread]
  /\ temp' = [temp EXCEPT ![p] = "absent"]
  /\ pc' = [pc EXCEPT ![p] = "key"]
  /\ UNCHANGED <<lock, hit, same>>

\* Mutant: the identity retries are not counted.
KeyChangedForever(p) ==
  /\ pc[p] = "recheck" /\ read[p] = File /\ ~same[p]
  /\ Retries(p)
  /\ UNCHANGED <<source, reverted, archive, attempt, rustcVars>>

\* The key changed: once more from the start, or an error.
KeyChanged(p) ==
  /\ pc[p] = "recheck" /\ read[p] = File /\ ~same[p]
  /\ IF attempt[p] < MaxRetries
       THEN Retries(p) /\ attempt' = [attempt EXCEPT ![p] = @ + 1]
       ELSE Fails(p)
  /\ UNCHANGED <<source, reverted, archive, rustcVars>>

\* What the name of p's temporary leads to.
TempArchive(p) == IF temp[p] = "whole" THEN built[p] ELSE Truncated

\* publish_runtime_cache: the temporary is opened, then renamed over the
\* archive's name in one step.  Without a temporary the call fails.
Publish(p) ==
  /\ pc[p] = "publish"
  /\ IF temp[p] = "absent"
       THEN Fails(p) /\ UNCHANGED archive
       ELSE /\ archive' = [archive EXCEPT ![key[p]] = TempArchive(p)]
            /\ temp' = [temp EXCEPT ![p] = "absent"]
            /\ Ends(p, "returned")
  /\ UNCHANGED <<source, reverted, rustcVars>>

CallStep(p) ==
  \/ Acquire(p) \/ LookUp(p) \/ CompileDone(p) \/ CompileFails(p)
  \/ KeyStable(p) \/ KeyChanged(p) \/ Publish(p)
  \/ \E f \in File : HashFile(p, f) \/ RehashFile(p, f)

----------------------------------------------------------------------------
(* rustc, its caller's death, and the editor *)

\* rustc reads the next file.
RustcReads(p, f) ==
  /\ rustc[p] = "reading"
  /\ f \notin compiled[p]
  /\ compiled' = [compiled EXCEPT ![p] = @ \cup {f}]
  /\ built' = [built EXCEPT ![p][f] = source[f]]
  /\ UNCHANGED <<source, reverted, lock, archive, temp, callVars, rustc>>

\* It starts to write its output, which appears under the temporary's name.
RustcWrites(p) ==
  /\ rustc[p] = "reading" /\ compiled[p] = File
  /\ rustc' = [rustc EXCEPT ![p] = "writing"]
  /\ temp' = [temp EXCEPT ![p] = "partial"]
  /\ UNCHANGED <<source, reverted, lock, archive, callVars, compiled, built>>

\* It has written everything; if the name was swept meanwhile, to a file
\* that has no name any more.
RustcDone(p) ==
  /\ rustc[p] = "writing"
  /\ rustc' = [rustc EXCEPT ![p] = "ok"]
  /\ temp' = [temp EXCEPT ![p] = IF @ = "partial" THEN "whole" ELSE @]
  /\ UNCHANGED <<source, reverted, lock, archive, callVars, compiled, built>>

\* It gives up, leaving what it wrote so far.
RustcFails(p) ==
  /\ rustc[p] \in {"reading", "writing"}
  /\ rustc' = [rustc EXCEPT ![p] = "bad"]
  /\ UNCHANGED <<source, reverted, lock, archive, temp, callVars, compiled, built>>

RustcStep(p) ==
  \/ RustcWrites(p) \/ RustcDone(p) \/ RustcFails(p)
  \/ \E f \in File : RustcReads(p, f)

\* The build is killed: the kernel drops its lock, its guards do not run, and
\* rustc dies with it (signal to the group) or lives on.
Crash(p) ==
  /\ pc[p] \notin Ended \cup {"start"}
  /\ Ends(p, "dead")
  /\ \/ UNCHANGED rustc
     \/ /\ rustc[p] \in {"reading", "writing"}
        /\ rustc' = [rustc EXCEPT ![p] = "bad"]
  /\ UNCHANGED <<source, reverted, archive, temp, compiled, built>>

\* Somebody saves a source file with contents it never had.
Edit(f) ==
  /\ f \notin reverted
  /\ source[f] < MaxVersion
  /\ source' = [source EXCEPT ![f] = @ + 1]
  /\ UNCHANGED <<reverted, lock, archive, temp, callVars, rustcVars>>

\* Somebody undoes an edit, and may redo it.
Revert(f) ==
  /\ \E v \in Version \ {source[f]} :
       /\ f \in reverted \/ v < source[f]
       /\ source' = [source EXCEPT ![f] = v]
  /\ reverted' = reverted \cup {f}
  /\ UNCHANGED <<lock, archive, temp, callVars, rustcVars>>

Next ==
  \/ \E p \in Proc : CallStep(p) \/ RustcStep(p) \/ Crash(p)
  \/ \E f \in File : Edit(f) \/ Revert(f)

\* A running call and a running rustc go on; flock hands the lock to a waiter
\* once its holder ended or died.  Nobody has to edit.
Fairness == \A p \in Proc : WF_vars(CallStep(p)) /\ WF_vars(RustcStep(p))

Spec == Init /\ [][Next]_vars
FairSpec == Spec /\ Fairness

----------------------------------------------------------------------------
(* Properties *)

\* Every variable has its type.
TypeOK ==
  /\ source \in Key
  /\ reverted \in SUBSET File
  /\ lock \in Proc \cup {NoProc}
  /\ archive \in [Key -> Key \cup {NoArchive, Truncated}]
  /\ temp \in [Proc -> {"absent", "partial", "whole"}]
  /\ pc \in [Proc -> {"start", "key", "compile", "recheck", "publish"} \cup Ended]
  /\ hit \in [Proc -> BOOLEAN]
  /\ attempt \in [Proc -> 0 .. MaxRetries]
  /\ key \in [Proc -> Key]
  /\ read \in [Proc -> SUBSET File]
  /\ same \in [Proc -> BOOLEAN]
  /\ rustc \in [Proc -> {"none", "reading", "writing", "ok", "bad"}]
  /\ compiled \in [Proc -> SUBSET File]
  /\ built \in [Proc -> Key]

\* The archive under a key was compiled, to its end, from the very contents
\* the key stands for, although key and compiler read the files one by one
\* while they are edited, and although builds die half-way.  Only contents
\* that came back after a change can deceive the second look at the key.
ArchiveMatchesKey ==
  \A k \in Key : archive[k] # NoArchive =>
    /\ archive[k] # Truncated
    /\ \A f \in File \ reverted : archive[k][f] = k[f]

\* A published archive is neither replaced nor removed: linkers read it after
\* their build gave the lock back.
ArchiveImmutable ==
  [][\A k \in Key : archive[k] # NoArchive => archive'[k] = archive[k]]_vars

\* Between rustc's success and the rename nobody else's sweep takes the
\* temporary: it is there, and whole, when it is published.
TempSurvives ==
  \A p \in Proc :
    \/ pc[p] = "publish"
    \/ pc[p] \in {"compile", "recheck"} /\ ~hit[p] /\ rustc[p] = "ok"
    => temp[p] = "whole"

\* The path that a build hands to the linker leads to a whole archive of the
\* contents its key stands for, and goes on doing so after the build gave the
\* lock back, whatever the builds after it sweep, publish or leave behind.
LinkerFindsArchive ==
  \A p \in Proc : pc[p] = "returned" =>
    /\ archive[key[p]] \notin {NoArchive, Truncated}
    /\ \A f \in File \ reverted : archive[key[p]][f] = key[p][f]

\* The call, or the compiler it waits for, has a step to take.
CanGoOn(p) ==
  \/ pc[p] = "start" /\ lock = NoProc
  \/ pc[p] \in {"key", "recheck", "publish"}
  \/ pc[p] = "compile" /\ rustc[p] # "none"

\* A call that cannot go on waits for the lock of one that can: neither a
\* build that ended nor one that was killed leaves build.lock taken.
LockIsGivenBack ==
  \A p \in Proc : pc[p] \in Ended \/ CanGoOn(p) \/ (lock \in Proc /\ CanGoOn(lock))

\* Every call ends, whatever is edited, retried or killed.
EveryCallEnds == \A p \in Proc : <>(pc[p] \in Ended)
=============================================================================
