------------------------- MODULE RuntimeCacheProofs -------------------------
(***************************************************************************)
(* Proofs, for every number of builds, source files and edits, that the    *)
(* runtime cache stores what its keys say and never takes an archive back. *)
(***************************************************************************)
EXTENDS RuntimeCache, TLAPS

USE CacheAssumption

----------------------------------------------------------------------------
(* Types *)

\* The sources a call starts from are sources.
LEMMA UnreadTyped == Unread \in Key
BY DEF Unread, Key, Version

\* Ending a call leaves its variables in their types.
LEMMA EndsTyped ==
  ASSUME TypeOK, NEW p \in Proc, NEW how \in Ended, Ends(p, how)
  PROVE  /\ lock' \in Proc \cup {NoProc}
         /\ pc' \in [Proc -> {"start", "key", "compile", "recheck", "publish"} \cup Ended]
         /\ hit' \in [Proc -> BOOLEAN]
         /\ attempt' \in [Proc -> 0 .. MaxRetries]
         /\ key' \in [Proc -> Key]
         /\ read' \in [Proc -> SUBSET File]
         /\ same' \in [Proc -> BOOLEAN]
BY UnreadTyped DEF TypeOK, Ends, MaxRetries

\* Every step of a call keeps every variable in its type.
LEMMA CallTyped ==
  ASSUME TypeOK, NEW p \in Proc, CallStep(p)
  PROVE  TypeOK'
<1>1. CASE Acquire(p)
  BY <1>1 DEF TypeOK, Acquire, rustcVars
<1>2. ASSUME NEW f \in File, HashFile(p, f) PROVE TypeOK'
  <2>1. key' \in [Proc -> Key]
    BY <1>2 DEF TypeOK, HashFile, Key
  <2> QED BY <1>2, <2>1 DEF TypeOK, HashFile, rustcVars
<1>3. CASE LookUp(p)
  <2>1. temp' \in [Proc -> {"absent", "partial", "whole"}]
    BY <1>3 DEF LookUp, SweptTemps
  <2>2. /\ hit' \in [Proc -> BOOLEAN] /\ same' \in [Proc -> BOOLEAN]
        /\ read' \in [Proc -> SUBSET File]
    BY <1>3 DEF TypeOK, LookUp
  <2>3. /\ pc' \in [Proc -> {"start", "key", "compile", "recheck", "publish"} \cup Ended]
        /\ rustc' \in [Proc -> {"none", "reading", "writing", "ok", "bad"}]
        /\ compiled' \in [Proc -> SUBSET File]
        /\ built' \in [Proc -> Key]
    BY <1>3, UnreadTyped DEF TypeOK, LookUp, rustcVars
  <2>4. UNCHANGED <<source, reverted, lock, archive, attempt, key>>
    BY <1>3 DEF LookUp
  <2> QED BY <2>1, <2>2, <2>3, <2>4 DEF TypeOK
<1>4. CASE CompileDone(p)
  BY <1>4 DEF TypeOK, CompileDone, rustcVars
<1>5. CASE CompileFails(p)
  <2>1. Ends(p, "failed")
    BY <1>5 DEF CompileFails, Fails
  <2>2. temp' \in [Proc -> {"absent", "partial", "whole"}]
    BY <1>5 DEF TypeOK, CompileFails, Fails
  <2>3. UNCHANGED <<source, reverted, archive, rustcVars>>
    BY <1>5 DEF CompileFails
  <2> QED BY <2>1, <2>2, <2>3, EndsTyped DEF TypeOK, Ended, rustcVars
<1>6. ASSUME NEW f \in File, RehashFile(p, f) PROVE TypeOK'
  BY <1>6 DEF TypeOK, RehashFile, rustcVars
<1>7. CASE KeyStable(p)
  <2>1. CASE hit[p]
    <3>1. Ends(p, "returned") /\ UNCHANGED <<source, reverted, archive, temp, rustcVars>>
      BY <1>7, <2>1 DEF KeyStable
    <3> QED BY <3>1, EndsTyped DEF TypeOK, Ended, rustcVars
  <2>2. CASE ~hit[p]
    BY <1>7, <2>2 DEF TypeOK, KeyStable, rustcVars
  <2> QED BY <2>1, <2>2
<1>8. CASE KeyChanged(p)
  <2>1. CASE attempt[p] < MaxRetries
    <3>1. attempt' \in [Proc -> 0 .. MaxRetries]
      BY <1>8, <2>1 DEF TypeOK, KeyChanged, MaxRetries
    <3> QED BY <1>8, <2>1, <3>1, UnreadTyped DEF TypeOK, KeyChanged, Retries, rustcVars
  <2>2. CASE ~(attempt[p] < MaxRetries)
    <3>1. Ends(p, "failed")
      BY <1>8, <2>2 DEF KeyChanged, Fails
    <3>2. temp' \in [Proc -> {"absent", "partial", "whole"}]
      BY <1>8, <2>2 DEF TypeOK, KeyChanged, Fails
    <3>3. UNCHANGED <<source, reverted, archive, rustcVars>>
      BY <1>8 DEF KeyChanged
    <3> QED BY <3>1, <3>2, <3>3, EndsTyped DEF TypeOK, Ended, rustcVars
  <2> QED BY <2>1, <2>2
<1>9. CASE Publish(p)
  <2>1. Ends(p, "failed") \/ Ends(p, "returned")
    BY <1>9 DEF Publish, Fails
  <2>2. temp' \in [Proc -> {"absent", "partial", "whole"}]
    BY <1>9 DEF TypeOK, Publish, Fails
  <2>3. TempArchive(p) \in Key \cup {NoArchive, Truncated}
    BY DEF TypeOK, TempArchive
  <2>4. archive' \in [Key -> Key \cup {NoArchive, Truncated}]
    BY <1>9, <2>3 DEF TypeOK, Publish
  <2>5. UNCHANGED <<source, reverted, rustcVars>>
    BY <1>9 DEF Publish
  <2> QED BY <2>1, <2>2, <2>4, <2>5, EndsTyped DEF TypeOK, Ended, rustcVars
<1> QED BY <1>1, <1>2, <1>3, <1>4, <1>5, <1>6, <1>7, <1>8, <1>9 DEF CallStep

\* So does every step of rustc, of the editor, and a crash.
LEMMA TypeStep == TypeOK /\ [Next]_vars => TypeOK'
<1> SUFFICES ASSUME TypeOK, [Next]_vars PROVE TypeOK'
  OBVIOUS
<1>1. ASSUME NEW p \in Proc, RustcStep(p) PROVE TypeOK'
  <2>1. ASSUME NEW f \in File, RustcReads(p, f) PROVE TypeOK'
    <3>1. built' \in [Proc -> Key]
      BY <2>1 DEF TypeOK, RustcReads, Key
    <3> QED BY <2>1, <3>1 DEF TypeOK, RustcReads, callVars
  <2>2. CASE RustcWrites(p)
    BY <2>2 DEF TypeOK, RustcWrites, callVars
  <2>3. CASE RustcDone(p)
    BY <2>3 DEF TypeOK, RustcDone, callVars
  <2>4. CASE RustcFails(p)
    BY <2>4 DEF TypeOK, RustcFails, callVars
  <2> QED BY <1>1, <2>1, <2>2, <2>3, <2>4 DEF RustcStep
<1>2. ASSUME NEW p \in Proc, Crash(p) PROVE TypeOK'
  <2>1. Ends(p, "dead") /\ UNCHANGED <<source, reverted, archive, temp, compiled, built>>
    BY <1>2 DEF Crash
  <2>2. rustc' \in [Proc -> {"none", "reading", "writing", "ok", "bad"}]
    BY <1>2 DEF TypeOK, Crash
  <2> QED BY <2>1, <2>2, EndsTyped DEF TypeOK, Ended
<1>3. ASSUME NEW f \in File, Edit(f) \/ Revert(f) PROVE TypeOK'
  <2>1. source' \in Key
    BY <1>3 DEF TypeOK, Edit, Revert, Key, Version
  <2>2. reverted' \in SUBSET File
    BY <1>3 DEF TypeOK, Edit, Revert
  <2> QED BY <1>3, <2>1, <2>2 DEF TypeOK, Edit, Revert, callVars, rustcVars
<1>4. CASE UNCHANGED vars
  BY <1>4 DEF TypeOK, vars, callVars, rustcVars
<1> QED BY <1>1, <1>2, <1>3, <1>4, CallTyped DEF Next

\* The empty cache has its type.
LEMMA TypeInit == Init => TypeOK
BY UnreadTyped DEF Init, TypeOK, MaxRetries, Ended

----------------------------------------------------------------------------
(* The inductive invariant *)

Inside == {"key", "compile", "recheck", "publish"}

\* The call is making an archive.
Building(p) == pc[p] \in {"compile", "publish"} \/ (pc[p] = "recheck" /\ ~hit[p])

\* One call at a time is past the lock.
Exclusive == \A p \in Proc : pc[p] \in Inside => lock = p

\* How far rustc is, and what it left under the temporary's name.
Stage(p) ==
  /\ pc[p] \in {"start", "compile"} => read[p] = {}
  /\ pc[p] = "publish" => rustc[p] = "ok"
  /\ pc[p] = "recheck" /\ ~hit[p] => rustc[p] = "ok"
  /\ pc[p] = "compile" => ~hit[p]
  /\ Building(p) => archive[key[p]] = NoArchive
  /\ Building(p) /\ rustc[p] \in {"writing", "ok"} => compiled[p] = File
  /\ Building(p) /\ rustc[p] = "ok" => temp[p] = "whole"
  /\ Building(p) /\ rustc[p] = "writing" => temp[p] = "partial"

\* While a file only moves forward, the first pass, rustc and the second pass
\* read its contents in this order.
Reading(p, f) ==
  /\ pc[p] = "key" /\ f \in read[p] => key[p][f] <= source[f]
  /\ Building(p) => key[p][f] <= source[f]
  /\ Building(p) /\ f \in compiled[p] =>
       key[p][f] <= built[p][f] /\ built[p][f] <= source[f]
  /\ pc[p] = "recheck" /\ ~hit[p] /\ same[p] /\ f \in read[p] =>
       built[p][f] = key[p][f]
  /\ pc[p] = "publish" => built[p][f] = key[p][f]

Readings(p) == \A f \in File \ reverted : Reading(p, f)

IInv ==
  /\ TypeOK
  /\ Exclusive
  /\ \A p \in Proc : Stage(p) /\ Readings(p)
  /\ ArchiveMatchesKey

\* Process q has no part in the step.
Aside(q) ==
  /\ pc'[q] = pc[q] /\ hit'[q] = hit[q] /\ key'[q] = key[q]
  /\ read'[q] = read[q] /\ same'[q] = same[q]
  /\ rustc'[q] = rustc[q] /\ compiled'[q] = compiled[q] /\ built'[q] = built[q]

\* Files that were never reverted only moved forward.
Forward ==
  /\ reverted \subseteq reverted'
  /\ \A f \in File \ reverted' : source[f] <= source'[f]

\* A step of others leaves q's part of the invariant alone, if it takes
\* neither its temporary nor its place in the cache.
LEMMA AsideKeeps ==
  ASSUME TypeOK, TypeOK', NEW q \in Proc, Stage(q), Readings(q), Aside(q), Forward,
         Building(q) => temp'[q] = temp[q] /\ archive' = archive
  PROVE  Stage(q)' /\ Readings(q)'
<1>1. Building(q)' <=> Building(q)
  BY DEF Aside, Building
<1>2. Stage(q)'
  BY <1>1 DEF Stage, Aside, Building
<1>3. ASSUME NEW f \in File \ reverted' PROVE Reading(q, f)'
  <2>1. f \in File \ reverted /\ source[f] <= source'[f]
    BY DEF Forward
  <2>2. /\ source[f] \in Int /\ source'[f] \in Int
        /\ key[q][f] \in Int /\ built[q][f] \in Int
    BY DEF TypeOK, Key, Version
  <2>3. Reading(q, f)
    BY <2>1 DEF Readings
  <2> QED BY <1>1, <2>1, <2>2, <2>3 DEF Reading, Aside
<1> QED BY <1>2, <1>3 DEF Readings

\* A process that is past the lock is the only one.
LEMMA OthersOut ==
  ASSUME Exclusive, NEW p \in Proc, pc[p] \in Inside, NEW q \in Proc, q # p
  PROVE  pc[q] \notin Inside /\ ~Building(q)
BY DEF Exclusive, Inside, Building

\* A process that has ended has no part in the invariant.
LEMMA OutsideKeeps ==
  ASSUME NEW p \in Proc, pc'[p] \in Ended
  PROVE  Stage(p)' /\ Readings(p)'
BY DEF Stage, Readings, Reading, Building, Ended

\* Ending a call keeps the lock exclusive.
LEMMA EndsKeeps ==
  ASSUME IInv, TypeOK', NEW p \in Proc, NEW how \in Ended, Ends(p, how),
         pc[p] \in Inside, UNCHANGED <<source, reverted>>,
         \A q \in Proc : q # p =>
           rustc'[q] = rustc[q] /\ compiled'[q] = compiled[q] /\ built'[q] = built[q]
  PROVE  Exclusive' /\ \A q \in Proc : Stage(q)' /\ Readings(q)'
<1>0. TypeOK /\ Exclusive /\ \A q \in Proc : Stage(q) /\ Readings(q)
  BY DEF IInv
<1>1. lock = p /\ \A q \in Proc : q # p => pc[q] \notin Inside /\ ~Building(q)
  BY <1>0, OthersOut DEF Exclusive
<1>2. /\ pc' = [pc EXCEPT ![p] = how] /\ pc'[p] = how
      /\ \A q \in Proc : q # p => Aside(q)
  BY <1>0 DEF Ends, Aside, TypeOK
<1>3. Exclusive'
  BY <1>0, <1>1, <1>2 DEF TypeOK, Ended, Inside, Exclusive
<1>4. Forward
  BY <1>0 DEF Forward, TypeOK, Key, Version
<1>5. \A q \in Proc : q # p => Stage(q)' /\ Readings(q)'
  BY <1>0, <1>1, <1>2, <1>4, AsideKeeps
<1>6. Stage(p)' /\ Readings(p)'
  BY <1>2, OutsideKeeps
<1> QED BY <1>3, <1>5, <1>6

----------------------------------------------------------------------------
(* Every step keeps the invariant *)

\* What a step must leave behind.
Kept ==
  /\ Exclusive'
  /\ \A q \in Proc : Stage(q)' /\ Readings(q)'
  /\ ArchiveMatchesKey'
  /\ \A k \in Key : archive[k] # NoArchive => archive'[k] = archive[k]

\* Unchanged archives and reverts that only grow keep what is stored right.
LEMMA ArchiveKept ==
  ASSUME ArchiveMatchesKey, archive' = archive, reverted \subseteq reverted'
  PROVE  /\ ArchiveMatchesKey'
         /\ \A k \in Key : archive[k] # NoArchive => archive'[k] = archive[k]
BY DEF ArchiveMatchesKey

\* A step of p alone, inside the lock or on its way in, that moves no source.
LEMMA OwnStep ==
  ASSUME IInv, TypeOK', NEW p \in Proc, UNCHANGED <<source, reverted, archive>>,
         \A q \in Proc : q # p => Aside(q) /\ (Building(q) => temp'[q] = temp[q]),
         Exclusive', Stage(p)', Readings(p)'
  PROVE  Kept
<1>1. TypeOK /\ ArchiveMatchesKey /\ \A q \in Proc : Stage(q) /\ Readings(q)
  BY DEF IInv
<1>2. Forward
  BY <1>1 DEF Forward, TypeOK, Key, Version
<1>3. ASSUME NEW q \in Proc PROVE Stage(q)' /\ Readings(q)'
  <2>1. CASE q = p
    BY <2>1
  <2>2. CASE q # p
    BY <1>1, <1>2, <2>2, AsideKeeps
  <2> QED BY <2>1, <2>2
<1> QED BY <1>1, <1>3, ArchiveKept DEF Kept

\* Taking the lock and reading the sources for the key.
LEMMA KeyPassKeeps ==
  ASSUME IInv, TypeOK', NEW p \in Proc,
         Acquire(p) \/ \E f \in File : HashFile(p, f)
  PROVE  Kept
<1>0. TypeOK /\ Exclusive /\ Stage(p) /\ Readings(p)
  BY DEF IInv
<1>1. CASE Acquire(p)
  <2>1. /\ pc' = [pc EXCEPT ![p] = "key"] /\ lock = NoProc /\ lock' = p /\ pc[p] = "start"
        /\ UNCHANGED <<source, reverted, archive, temp, hit, attempt, key, read, same>>
        /\ UNCHANGED <<rustc, compiled, built>>
    BY <1>1 DEF Acquire, rustcVars
  <2>2. \A q \in Proc : pc[q] \notin Inside
    BY <1>0, <2>1 DEF Exclusive
  <2>3. Exclusive' /\ \A q \in Proc : q # p => Aside(q)
    BY <1>0, <2>1, <2>2 DEF Exclusive, Aside, TypeOK
  <2>4. Stage(p)' /\ Readings(p)'
    BY <1>0, <2>1 DEF Stage, Readings, Reading, Building, TypeOK
  <2> QED BY <2>1, <2>3, <2>4, OwnStep
<1>2. ASSUME NEW f \in File, HashFile(p, f) PROVE Kept
  <2>1. /\ pc[p] = "key" /\ read' = [read EXCEPT ![p] = @ \cup {f}]
        /\ key' = [key EXCEPT ![p] = [key[p] EXCEPT ![f] = source[f]]]
        /\ UNCHANGED <<source, reverted, lock, archive, temp, pc, hit, attempt, same>>
        /\ UNCHANGED <<rustc, compiled, built>>
    BY <1>2 DEF HashFile, rustcVars
  <2>2. Exclusive' /\ \A q \in Proc : q # p => Aside(q)
    BY <1>0, <2>1 DEF Exclusive, Aside, TypeOK
  <2>3. Stage(p)'
    BY <2>1 DEF Stage, Building
  <2>4. ASSUME NEW g \in File \ reverted, g \in read'[p] PROVE key'[p][g] <= source[g]
    <3>1. source[g] \in Int /\ key'[p] = [key[p] EXCEPT ![f] = source[f]] /\ key[p] \in Key
      BY <1>0, <2>1 DEF TypeOK, Key, Version
    <3>2. CASE g = f
      BY <3>1, <3>2 DEF Key
    <3>3. CASE g # f
      BY <1>0, <2>1, <2>4, <3>1, <3>3 DEF Readings, Reading, Key, TypeOK
    <3> QED BY <3>2, <3>3
  <2>5. Readings(p)'
    BY <2>1, <2>4 DEF Readings, Reading, Building
  <2> QED BY <2>1, <2>2, <2>3, <2>5, OwnStep
<1> QED BY <1>1, <1>2

\* Sweeping and looking the key up: the other temporaries have no live owner.
LEMMA LookUpKeeps ==
  ASSUME IInv, TypeOK', NEW p \in Proc, LookUp(p)
  PROVE  Kept
<1>0. TypeOK /\ Exclusive /\ Stage(p) /\ Readings(p)
  BY DEF IInv
<1>1. /\ pc[p] = "key" /\ read[p] = File /\ read' = [read EXCEPT ![p] = {}]
      /\ same' = [same EXCEPT ![p] = TRUE]
      /\ UNCHANGED <<source, reverted, lock, archive, attempt, key>>
  BY DEF LookUp
<1>2. \A q \in Proc : q # p => ~Building(q)
  BY <1>0, <1>1, OthersOut DEF Inside
<1>3. CASE archive[key[p]] # NoArchive
  <2>1. /\ hit' = [hit EXCEPT ![p] = TRUE] /\ pc' = [pc EXCEPT ![p] = "recheck"]
        /\ UNCHANGED <<rustc, compiled, built>>
    BY <1>3 DEF LookUp, rustcVars
  <2>2. Exclusive' /\ \A q \in Proc : q # p => Aside(q)
    BY <1>0, <1>1, <2>1 DEF Exclusive, Aside, TypeOK, Inside
  <2>3. Stage(p)' /\ Readings(p)'
    BY <1>0, <2>1 DEF Stage, Readings, Reading, Building, TypeOK
  <2> QED BY <1>1, <1>2, <2>2, <2>3, OwnStep
<1>4. CASE archive[key[p]] = NoArchive
  <2>1. /\ hit' = [hit EXCEPT ![p] = FALSE] /\ pc' = [pc EXCEPT ![p] = "compile"]
        /\ rustc' = [rustc EXCEPT ![p] = "reading"]
        /\ compiled' = [compiled EXCEPT ![p] = {}]
        /\ built' = [built EXCEPT ![p] = Unread]
    BY <1>4 DEF LookUp
  <2>2. Exclusive' /\ \A q \in Proc : q # p => Aside(q)
    BY <1>0, <1>1, <2>1 DEF Exclusive, Aside, TypeOK, Inside
  <2>3. Stage(p)'
    BY <1>0, <1>1, <1>4, <2>1 DEF Stage, Building, TypeOK
  <2>4. Readings(p)'
    BY <1>0, <1>1, <2>1 DEF Readings, Reading, Building, TypeOK
  <2> QED BY <1>1, <1>2, <2>2, <2>3, <2>4, OwnStep
<1> QED BY <1>3, <1>4

\* The second pass.  A file that still has its first contents had them when
\* rustc read it in between.
LEMMA RecheckKeeps ==
  ASSUME IInv, TypeOK', NEW p \in Proc,
         CompileDone(p) \/ (\E f \in File : RehashFile(p, f)) \/ (KeyStable(p) /\ ~hit[p])
  PROVE  Kept
<1>0. TypeOK /\ Exclusive /\ Stage(p) /\ Readings(p)
  BY DEF IInv
<1>1. CASE CompileDone(p)
  <2>1. /\ pc[p] = "compile" /\ rustc[p] = "ok" /\ pc' = [pc EXCEPT ![p] = "recheck"]
        /\ UNCHANGED <<source, reverted, lock, archive, temp, hit, attempt, key, read, same>>
        /\ UNCHANGED <<rustc, compiled, built>>
    BY <1>1 DEF CompileDone, rustcVars
  <2>2. Exclusive' /\ \A q \in Proc : q # p => Aside(q)
    BY <1>0, <2>1 DEF Exclusive, Aside, TypeOK, Inside
  <2>3. Stage(p)'
    BY <1>0, <2>1 DEF Stage, Building, TypeOK
  <2>4. Readings(p)'
    BY <1>0, <2>1 DEF Stage, Readings, Reading, Building, TypeOK
  <2> QED BY <2>1, <2>2, <2>3, <2>4, OwnStep
<1>2. ASSUME NEW f \in File, RehashFile(p, f) PROVE Kept
  <2>1. /\ pc[p] = "recheck" /\ read' = [read EXCEPT ![p] = @ \cup {f}]
        /\ same' = [same EXCEPT ![p] = @ /\ source[f] = key[p][f]]
        /\ UNCHANGED <<source, reverted, lock, archive, temp, pc, hit, attempt, key>>
        /\ UNCHANGED <<rustc, compiled, built>>
    BY <1>2 DEF RehashFile, rustcVars
  <2>2. Exclusive' /\ \A q \in Proc : q # p => Aside(q)
    BY <1>0, <2>1 DEF Exclusive, Aside, TypeOK
  <2>3. Stage(p)'
    BY <1>0, <2>1 DEF Stage, Building
  <2>4. ASSUME NEW g \in File \ reverted, ~hit[p], same'[p], g \in read'[p]
        PROVE  built[p][g] = key[p][g]
    <3>1. same[p] /\ source[f] = key[p][f] /\ (g \in read[p] \/ g = f)
      BY <1>0, <2>1, <2>4 DEF TypeOK
    <3>2. Reading(p, g) /\ compiled[p] = File
      BY <1>0, <2>1, <2>4 DEF Readings, Stage, Building
    <3>3. key[p][g] \in Int /\ built[p][g] \in Int /\ source[g] \in Int
      BY <1>0 DEF TypeOK, Key, Version
    <3> QED BY <2>1, <2>4, <3>1, <3>2, <3>3 DEF Reading, Building
  <2>5. Readings(p)'
    BY <1>0, <2>1, <2>4 DEF Readings, Reading, Building
  <2> QED BY <2>1, <2>2, <2>3, <2>5, OwnStep
<1>3. CASE KeyStable(p) /\ ~hit[p]
  <2>1. /\ pc[p] = "recheck" /\ read[p] = File /\ same[p] /\ ~hit[p]
        /\ pc' = [pc EXCEPT ![p] = "publish"]
        /\ UNCHANGED <<source, reverted, lock, archive, temp, hit, attempt, key, read, same>>
        /\ UNCHANGED <<rustc, compiled, built>>
    BY <1>3 DEF KeyStable, rustcVars
  <2>2. Exclusive' /\ \A q \in Proc : q # p => Aside(q)
    BY <1>0, <2>1 DEF Exclusive, Aside, TypeOK, Inside
  <2>3. Stage(p)'
    BY <1>0, <2>1 DEF Stage, Building, TypeOK
  <2>4. Readings(p)'
    BY <1>0, <2>1 DEF Readings, Reading, Building, TypeOK
  <2> QED BY <2>1, <2>2, <2>3, <2>4, OwnStep
<1> QED BY <1>1, <1>2, <1>3

\* The ways out: an error, a hit, a crash.
LEMMA WayOutKeeps ==
  ASSUME IInv, TypeOK', NEW p \in Proc,
         CompileFails(p) \/ (KeyStable(p) /\ hit[p])
           \/ (KeyChanged(p) /\ ~(attempt[p] < MaxRetries)) \/ Crash(p)
  PROVE  Kept
<1>1. PICK how \in Ended : Ends(p, how)
  BY DEF CompileFails, KeyStable, KeyChanged, Crash, Fails, Ended
<1>2. UNCHANGED <<source, reverted, archive, compiled, built>>
  BY DEF CompileFails, KeyStable, KeyChanged, Crash, rustcVars
<1>3. \A q \in Proc : q # p =>
        rustc'[q] = rustc[q] /\ compiled'[q] = compiled[q] /\ built'[q] = built[q]
  BY <1>2 DEF CompileFails, KeyStable, KeyChanged, Crash, rustcVars, IInv, TypeOK
<1>4. pc[p] \in Inside
  BY DEF CompileFails, KeyStable, KeyChanged, Crash, Inside, IInv, TypeOK
<1>5. Exclusive' /\ \A q \in Proc : Stage(q)' /\ Readings(q)'
  BY <1>1, <1>2, <1>3, <1>4, EndsKeeps
<1> QED BY <1>2, <1>5, ArchiveKept DEF Kept, IInv

\* Starting over after the sources changed.
LEMMA RetryKeeps ==
  ASSUME IInv, TypeOK', NEW p \in Proc, KeyChanged(p), attempt[p] < MaxRetries
  PROVE  Kept
<1>0. TypeOK /\ Exclusive /\ Stage(p) /\ Readings(p)
  BY DEF IInv
<1>1. /\ pc[p] = "recheck" /\ read' = [read EXCEPT ![p] = {}]
      /\ key' = [key EXCEPT ![p] = Unread] /\ temp' = [temp EXCEPT ![p] = "absent"]
      /\ pc' = [pc EXCEPT ![p] = "key"]
      /\ UNCHANGED <<source, reverted, archive, lock, hit, same, rustc, compiled, built>>
  BY DEF KeyChanged, Retries, rustcVars
<1>2. /\ Exclusive'
      /\ \A q \in Proc : q # p => Aside(q) /\ temp'[q] = temp[q]
  BY <1>0, <1>1 DEF Exclusive, Aside, TypeOK, Inside
<1>3. Stage(p)' /\ Readings(p)'
  BY <1>0, <1>1 DEF Stage, Readings, Reading, Building, TypeOK
<1> QED BY <1>1, <1>2, <1>3, OwnStep

\* The rename: a whole archive, of the key's own sources, under a free name.
LEMMA PublishKeeps ==
  ASSUME IInv, TypeOK', NEW p \in Proc, Publish(p)
  PROVE  Kept
<1>0. TypeOK /\ Exclusive /\ Stage(p) /\ Readings(p) /\ ArchiveMatchesKey
  BY DEF IInv
<1>1. pc[p] = "publish" /\ Building(p)
  BY DEF Publish, Building
<1>2. temp[p] = "whole" /\ archive[key[p]] = NoArchive
  BY <1>0, <1>1 DEF Stage
<1>3. \A f \in File \ reverted : built[p][f] = key[p][f]
  BY <1>0, <1>1 DEF Readings, Reading
<1>4. /\ archive' = [archive EXCEPT ![key[p]] = built[p]] /\ Ends(p, "returned")
      /\ UNCHANGED <<source, reverted, rustc, compiled, built>>
  BY <1>2 DEF Publish, TempArchive, rustcVars
<1>5. key[p] \in Key /\ built[p] \in Key
  BY <1>0 DEF TypeOK
<1>6. \A k \in Key : archive'[k] = IF k = key[p] THEN built[p] ELSE archive[k]
  BY <1>0, <1>4 DEF TypeOK
<1>7. ArchiveMatchesKey'
  BY <1>0, <1>3, <1>4, <1>5, <1>6 DEF ArchiveMatchesKey
<1>8. Exclusive' /\ \A q \in Proc : Stage(q)' /\ Readings(q)'
  BY <1>1, <1>4, EndsKeeps DEF Inside, Ended
<1> QED BY <1>2, <1>6, <1>7, <1>8 DEF Kept

\* rustc's steps, also those of an orphan.
LEMMA RustcKeeps ==
  ASSUME IInv, TypeOK', NEW p \in Proc, RustcStep(p)
  PROVE  Kept
<1>0. TypeOK /\ Exclusive /\ Stage(p) /\ Readings(p)
  BY DEF IInv
<1>1. UNCHANGED <<source, reverted, lock, archive, pc, hit, attempt, key, read, same>>
  BY DEF RustcStep, RustcReads, RustcWrites, RustcDone, RustcFails, callVars
<1>2. rustc[p] \in {"reading", "writing"}
  BY DEF RustcStep, RustcReads, RustcWrites, RustcDone, RustcFails
<1>3. Building(p) => pc[p] = "compile"
  BY <1>0, <1>2 DEF Stage, Building
<1>4. \A q \in Proc : q # p => Aside(q) /\ temp'[q] = temp[q]
  BY <1>0, <1>1 DEF RustcStep, RustcReads, RustcWrites, RustcDone, RustcFails,
                    callVars, Aside, TypeOK
<1>5. Exclusive'
  BY <1>0, <1>1 DEF Exclusive
<1>6. CASE pc[p] # "compile"
  <2>1. Stage(p)' /\ Readings(p)'
    BY <1>0, <1>1, <1>2, <1>3, <1>6 DEF Stage, Readings, Reading, Building
  <2> QED BY <1>1, <1>4, <1>5, <2>1, OwnStep
<1>7. CASE pc[p] = "compile"
  <2>1. Building(p) /\ Building(p)'
    BY <1>1, <1>7 DEF Building
  <2>2. ASSUME NEW f \in File, RustcReads(p, f) PROVE Stage(p)' /\ Readings(p)'
    <3>1. /\ compiled' = [compiled EXCEPT ![p] = @ \cup {f}] /\ rustc[p] = "reading"
          /\ built' = [built EXCEPT ![p] = [built[p] EXCEPT ![f] = source[f]]]
          /\ UNCHANGED <<temp, rustc>>
      BY <2>2 DEF RustcReads
    <3>2. Stage(p)'
      BY <1>0, <1>1, <1>7, <3>1 DEF Stage, Building
    <3>3. ASSUME NEW g \in File \ reverted, g \in compiled'[p]
          PROVE  key[p][g] <= built'[p][g] /\ built'[p][g] <= source[g]
      <4>1. /\ built'[p] = [built[p] EXCEPT ![f] = source[f]] /\ built[p] \in Key
            /\ source[g] \in Int /\ key[p][g] \in Int
            /\ g \in compiled[p] \/ g = f
        BY <1>0, <3>1, <3>3 DEF TypeOK, Key, Version
      <4>2. key[p][g] <= source[g]
        BY <1>0, <2>1 DEF Readings, Reading
      <4>3. CASE g = f
        BY <4>1, <4>2, <4>3 DEF Key
      <4>4. CASE g # f
        BY <1>0, <2>1, <4>1, <4>4 DEF Readings, Reading, Key
      <4> QED BY <4>3, <4>4
    <3>4. Readings(p)'
      BY <1>0, <1>1, <1>7, <2>1, <3>3 DEF Readings, Reading
    <3> QED BY <3>2, <3>4
  <2>3. ASSUME RustcWrites(p) \/ RustcDone(p) \/ RustcFails(p) PROVE Stage(p)' /\ Readings(p)'
    <3>1. UNCHANGED <<compiled, built>>
      BY <2>3 DEF RustcWrites, RustcDone, RustcFails
    <3>2. Readings(p)'
      BY <1>0, <1>1, <1>7, <2>1, <3>1 DEF Readings, Reading
    <3>3. Stage(p)'
      BY <1>0, <1>1, <1>7, <2>1, <2>3, <3>1
         DEF Stage, TypeOK, RustcWrites, RustcDone, RustcFails
    <3> QED BY <3>2, <3>3
  <2>4. Stage(p)' /\ Readings(p)'
    BY <2>2, <2>3 DEF RustcStep
  <2> QED BY <1>1, <1>4, <1>5, <2>4, OwnStep
<1> QED BY <1>6, <1>7

\* Editing or reverting a source file.
LEMMA EditorKeeps ==
  ASSUME IInv, TypeOK', NEW f \in File, Edit(f) \/ Revert(f)
  PROVE  Kept
<1>0. TypeOK /\ Exclusive /\ ArchiveMatchesKey /\ \A q \in Proc : Stage(q) /\ Readings(q)
  BY DEF IInv
<1>1. /\ UNCHANGED <<lock, archive, temp, pc, hit, attempt, key, read, same>>
      /\ UNCHANGED <<rustc, compiled, built>>
  BY DEF Edit, Revert, callVars, rustcVars
<1>2. \A q \in Proc : Aside(q)
  BY <1>1 DEF Aside
<1>3. reverted \subseteq reverted'
  BY DEF Edit, Revert
<1>4. ASSUME NEW g \in File \ reverted' PROVE source[g] <= source'[g]
  <2>1. source \in [File -> Version] /\ source[g] \in Int /\ source[f] \in Int
    BY <1>0 DEF TypeOK, Key, Version
  <2>2. CASE Edit(f)
    BY <2>1, <2>2 DEF Edit
  <2>3. CASE Revert(f)
    BY <2>1, <2>3 DEF Revert
  <2> QED BY <2>2, <2>3
<1>5. Forward
  BY <1>3, <1>4 DEF Forward
<1>6. \A q \in Proc : Stage(q)' /\ Readings(q)'
  BY <1>0, <1>1, <1>2, <1>5, AsideKeeps
<1> QED BY <1>0, <1>1, <1>3, <1>6, ArchiveKept DEF Kept, Exclusive

\* Every step.
LEMMA StepKeeps ==
  ASSUME IInv, [Next]_vars
  PROVE  IInv' /\ Kept
<1>0. TypeOK'
  BY TypeStep DEF IInv
<1>1. ASSUME NEW p \in Proc, CallStep(p) PROVE Kept
  BY <1>0, <1>1, KeyPassKeeps, LookUpKeeps, RecheckKeeps, WayOutKeeps, RetryKeeps, PublishKeeps
     DEF CallStep
<1>2. ASSUME UNCHANGED vars PROVE Kept
  <2>1. /\ UNCHANGED <<source, reverted, lock, archive, temp, pc, hit, attempt, key, read>>
        /\ UNCHANGED <<same, rustc, compiled, built>>
    BY <1>2 DEF vars, callVars, rustcVars
  <2>2. Forward /\ \A q \in Proc : Aside(q)
    BY <2>1 DEF Forward, Aside, IInv, TypeOK, Key, Version
  <2>3. \A q \in Proc : Stage(q)' /\ Readings(q)'
    BY <1>0, <2>1, <2>2, AsideKeeps DEF IInv
  <2>4. Exclusive'
    BY <2>1 DEF IInv, Exclusive
  <2>5. /\ ArchiveMatchesKey'
        /\ \A k \in Key : archive[k] # NoArchive => archive'[k] = archive[k]
    BY <2>1, <2>2, ArchiveKept DEF IInv, Forward
  <2> QED BY <2>3, <2>4, <2>5 DEF Kept
<1>3. Kept
  BY <1>0, <1>1, <1>2, WayOutKeeps, RustcKeeps, EditorKeeps DEF Next
<1> QED BY <1>0, <1>3 DEF Kept, IInv

\* The empty cache.
LEMMA InvInit == Init => IInv
<1> SUFFICES ASSUME Init PROVE IInv
  OBVIOUS
<1>1. TypeOK
  BY TypeInit
<1>2. Exclusive /\ \A p \in Proc : Stage(p) /\ Readings(p)
  BY DEF Init, Exclusive, Inside, Stage, Readings, Reading, Building
<1>3. ArchiveMatchesKey
  BY DEF Init, ArchiveMatchesKey
<1> QED BY <1>1, <1>2, <1>3 DEF IInv

\* The inductive invariant holds in every reachable state, for all constants.
THEOREM Invariance == Spec => []IInv
<1>1. IInv /\ [Next]_vars => IInv'
  BY StepKeeps
<1> QED BY <1>1, InvInit, PTL DEF Spec

\* Whatever is edited meanwhile and whoever dies, the archive under a key is
\* whole and was compiled from that key's contents of every file that was
\* never set back.
THEOREM ContentAddressed == Spec => []ArchiveMatchesKey
BY Invariance, PTL DEF IInv

\* No step replaces or removes a published archive.
THEOREM Immutable == Spec => ArchiveImmutable
<1>1. IInv /\ [Next]_vars =>
        [\A k \in Key : archive[k] # NoArchive => archive'[k] = archive[k]]_vars
  BY StepKeeps DEF Kept
<1> QED BY <1>1, Invariance, PTL DEF Spec, ArchiveImmutable

\* A finished temporary stays until its own call renames it.
THEOREM TempSafety == Spec => []TempSurvives
<1>1. IInv => TempSurvives
  BY DEF IInv, Stage, Building, TempSurvives
<1> QED BY <1>1, Invariance, PTL

----------------------------------------------------------------------------
(* Part II: what is handed on, an archive to the linker and the lock to the  *)
(* next build.                                                               *)

\* The call has seen an archive under its key.
Saw(p) == pc[p] = "returned" \/ (pc[p] = "recheck" /\ hit[p])

\* What a call saw is there, and a call that compiles has a compiler.
Found(p) ==
  /\ Saw(p) => archive[key[p]] # NoArchive
  /\ pc[p] = "compile" => rustc[p] # "none"

\* Whoever has the lock is on its way through the critical section.
Held == lock \in Proc => pc[lock] \in Inside

HandInv == Held /\ \A p \in Proc : Found(p)

\* A step that leaves a call where it is keeps what that call found: archives
\* stay, and no compiler is taken back.
LEMMA FoundStays ==
  ASSUME IInv, [Next]_vars, NEW q \in Proc, Found(q),
         pc'[q] = pc[q], hit'[q] = hit[q], key'[q] = key[q],
         rustc[q] # "none" => rustc'[q] # "none"
  PROVE  Found(q)'
<1>1. key[q] \in Key
  BY DEF IInv, TypeOK
<1>2. archive[key[q]] # NoArchive => archive'[key[q]] = archive[key[q]]
  BY <1>1, StepKeeps DEF Kept
<1> QED BY <1>2 DEF Found, Saw

\* A call that starts, hashes, looks up, compiles, publishes or ends.
LEMMA HandCall ==
  ASSUME IInv, HandInv, NEW p \in Proc, CallStep(p)
  PROVE  HandInv'
<1>0. TypeOK /\ TypeOK' /\ [Next]_vars
  BY CallTyped DEF IInv, Next
<1>1. \A q \in Proc \ {p} :
        pc'[q] = pc[q] /\ hit'[q] = hit[q] /\ key'[q] = key[q] /\ rustc'[q] = rustc[q]
  BY <1>0 DEF CallStep, Acquire, HashFile, LookUp, CompileDone, CompileFails, RehashFile,
     KeyStable, KeyChanged, Publish, Retries, Fails, Ends, TypeOK, rustcVars
<1>2. \A q \in Proc \ {p} : Found(q)'
  BY <1>0, <1>1, FoundStays DEF HandInv
<1>3. Found(p)'
  <2>1. CASE LookUp(p)
    BY <2>1, <1>0 DEF LookUp, Found, Saw, TypeOK, rustcVars
  <2>2. CASE KeyStable(p)
    BY <2>2, <1>0 DEF KeyStable, Ends, Found, Saw, HandInv, TypeOK, rustcVars
  <2>3. CASE Publish(p)
    <3>1. CASE temp[p] = "absent"
      BY <2>3, <3>1, <1>0 DEF Publish, Fails, Ends, Found, Saw, TypeOK, rustcVars
    <3>2. CASE temp[p] # "absent"
      <4>1. key[p] \in Key /\ built[p] \in Key /\ TempArchive(p) # NoArchive
        BY <1>0 DEF TypeOK, TempArchive
      <4>2. archive'[key[p]] = TempArchive(p)
        BY <2>3, <3>2, <4>1, <1>0 DEF Publish, TypeOK
      <4>3. key' = key /\ pc'[p] = "returned"
        BY <2>3, <3>2, <1>0 DEF Publish, Ends, TypeOK
      <4> QED BY <4>1, <4>2, <4>3 DEF Found, Saw
    <3> QED BY <3>1, <3>2
  <2>4. CASE CompileDone(p)
    BY <2>4, <1>0 DEF CompileDone, IInv, Stage, Found, Saw, TypeOK, rustcVars
  <2>5. CASE Acquire(p) \/ CompileFails(p) \/ KeyChanged(p)
    BY <2>5, <1>0 DEF Acquire, CompileFails, KeyChanged, Retries, Fails, Ends, Found, Saw,
       TypeOK, rustcVars
  <2>6. ASSUME NEW f \in File, HashFile(p, f) PROVE Found(p)'
    BY <2>6, <1>0 DEF HashFile, Found, Saw, TypeOK, rustcVars
  <2>7. ASSUME NEW f \in File, RehashFile(p, f) PROVE Found(p)'
    BY <2>7, <1>0 DEF RehashFile, HandInv, Found, Saw, TypeOK, rustcVars
  <2> QED BY <2>1, <2>2, <2>3, <2>4, <2>5, <2>6, <2>7 DEF CallStep
<1>4. Held'
  <2>1. CASE Acquire(p)
    BY <2>1, <1>0 DEF Acquire, Held, Inside, TypeOK
  <2>2. CASE ~Acquire(p)
    <3>1. pc[p] \in Inside /\ lock = p
      BY <2>2 DEF CallStep, HashFile, LookUp, CompileDone, CompileFails, RehashFile,
         KeyStable, KeyChanged, Publish, Inside, IInv, Exclusive
    <3>2. (lock' = lock /\ pc'[p] \in Inside) \/ lock' = NoProc
      BY <2>2, <3>1, <1>0 DEF CallStep, HashFile, LookUp, CompileDone, CompileFails, RehashFile,
         KeyStable, KeyChanged, Publish, Retries, Fails, Ends, Inside, TypeOK
    <3> QED BY <3>1, <3>2 DEF Held
  <2> QED BY <2>1, <2>2
<1> QED BY <1>2, <1>3, <1>4 DEF HandInv

\* Compilers, deaths and edits.
LEMMA HandOther ==
  ASSUME IInv, HandInv, [Next]_vars,
         \/ \E p \in Proc : RustcStep(p) \/ Crash(p)
         \/ \E f \in File : Edit(f) \/ Revert(f)
         \/ UNCHANGED vars
  PROVE  HandInv'
<1>0. TypeOK
  BY DEF IInv
<1>1. ASSUME NEW p \in Proc, Crash(p) PROVE HandInv'
  <2>1. \A q \in Proc \ {p} :
          pc'[q] = pc[q] /\ hit'[q] = hit[q] /\ key'[q] = key[q] /\ rustc'[q] = rustc[q]
    BY <1>0, <1>1 DEF Crash, Ends, TypeOK
  <2>2. pc'[p] = "dead" /\ Found(p)'
    BY <1>0, <1>1 DEF Crash, Ends, TypeOK, Found, Saw
  <2>3. Held'
    BY <1>0, <1>1, <2>1 DEF Crash, Ends, Held, HandInv
  <2> QED BY <2>1, <2>2, <2>3, FoundStays DEF HandInv
<1>2. ASSUME NEW p \in Proc, RustcStep(p) PROVE HandInv'
  <2>1. UNCHANGED <<lock, pc, hit, key>>
    BY <1>2 DEF RustcStep, RustcReads, RustcWrites, RustcDone, RustcFails, callVars
  <2>2. \A q \in Proc : rustc[q] # "none" => rustc'[q] # "none"
    BY <1>0, <1>2 DEF RustcStep, RustcReads, RustcWrites, RustcDone, RustcFails, TypeOK
  <2> QED BY <2>1, <2>2, FoundStays DEF HandInv, Held
<1>3. ASSUME UNCHANGED <<lock, pc, hit, key, rustc>> PROVE HandInv'
  BY <1>3, FoundStays DEF HandInv, Held
<1>4. ASSUME \/ \E f \in File : Edit(f) \/ Revert(f)
             \/ UNCHANGED vars
      PROVE  UNCHANGED <<lock, pc, hit, key, rustc>>
  BY <1>4 DEF Edit, Revert, vars, callVars, rustcVars
<1> QED BY <1>1, <1>2, <1>3, <1>4

\* The invariant of what is handed on holds in every reachable state.
LEMMA HandInvariance == Spec => []HandInv
<1>1. Init => HandInv
  BY DEF Init, HandInv, Held, Found, Saw
<1>2. IInv /\ HandInv /\ [Next]_vars => HandInv'
  BY HandCall, HandOther DEF Next
<1> QED BY <1>1, <1>2, Invariance, PTL DEF Spec

\* A path that was returned leads to a whole archive of its key's contents.
THEOREM LinkerSafety == Spec => []LinkerFindsArchive
<1>1. IInv /\ HandInv => LinkerFindsArchive
  <2> SUFFICES ASSUME IInv, HandInv, NEW p \in Proc, pc[p] = "returned"
               PROVE  /\ archive[key[p]] \notin {NoArchive, Truncated}
                      /\ \A f \in File \ reverted : archive[key[p]][f] = key[p][f]
    BY DEF LinkerFindsArchive
  <2>1. key[p] \in Key /\ archive[key[p]] # NoArchive
    BY DEF IInv, TypeOK, HandInv, Found, Saw
  <2> QED BY <2>1 DEF IInv, ArchiveMatchesKey
<1> QED BY <1>1, Invariance, HandInvariance, PTL

\* No ended or killed build keeps the others waiting.
THEOREM LockSafety == Spec => []LockIsGivenBack
<1>1. IInv /\ HandInv => LockIsGivenBack
  <2> SUFFICES ASSUME IInv, HandInv, NEW p \in Proc, pc[p] \notin Ended, ~CanGoOn(p)
               PROVE  lock \in Proc /\ CanGoOn(lock)
    BY DEF LockIsGivenBack
  <2>1. \A q \in Proc : pc[q] \in Inside => CanGoOn(q)
    BY DEF HandInv, Found, Inside, CanGoOn
  <2>2. pc[p] = "start"
    BY <2>1 DEF IInv, TypeOK, Inside, Ended
  <2>3. lock \in Proc
    BY <2>2 DEF CanGoOn, IInv, TypeOK
  <2> QED BY <2>1, <2>3 DEF HandInv, Held
<1> QED BY <1>1, Invariance, HandInvariance, PTL
=============================================================================
