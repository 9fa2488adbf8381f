------------------------------ MODULE NvFlush ------------------------------
(***************************************************************************)
(* The persist files of network variables: FlusherThread, StopFlusher and  *)
(* CreateArray of dcicommon/nv.c.                                          *)
(*                                                                         *)
(* The contents of an array are a version number, a new one for each       *)
(* change.  The flusher goes through the arrays: it copies one under its   *)
(* lock and clears NV_FLUSH, then writes the copy to a temporary file and  *)
(* renames it.  The process may end at any point and start again.          *)
(***************************************************************************)
EXTENDS Integers, FiniteSets

CONSTANTS
    Arrays,       \* the arrays with NV_PERSIST
    MaxVersions,  \* bound on the changes
    MaxFails,     \* bound on the writes and renames that fail
    MaxCrashes    \* bound on the ends of the process

Versions == 0..MaxVersions
Partial  == -1    \* what a write that failed leaves in the temporary file

ASSUME FlushAssumption ==
    MaxVersions \in Nat /\ MaxFails \in Nat /\ MaxCrashes \in Nat

VARIABLES
    version,      \* of the array in memory
    nversion,     \* the last version made
    flush,        \* NV_FLUSH is set
    file,         \* version in the persist file
    pc, todo,     \* the flusher; the arrays it has not looked at in this pass
    cur, ds,      \* the array it writes, and the copy
    tmp,          \* version in the temporary file
    stop,         \* StopFlusher: "no", "set" or "joined"
    waited,       \* it found the flusher at its wait
    lostWrite,    \* the last write of the array failed
    nfail, ncrash

arrayVars   == <<version, nversion, flush>>
flusherVars == <<pc, todo, cur, ds, tmp>>
faultVars   == <<lostWrite, nfail, ncrash>>
vars == <<arrayVars, file, flusherVars, stop, waited, faultVars>>

TypeOK ==
    /\ version \in [Arrays -> Versions] /\ nversion \in Versions
    /\ flush \in [Arrays -> BOOLEAN] /\ file \in [Arrays -> Versions]
    /\ pc \in {"top", "wait", "pass", "write", "rename", "exit"}
    /\ todo \in SUBSET Arrays /\ cur \in Arrays
    /\ ds \in Versions /\ tmp \in Versions \cup {Partial}
    /\ stop \in {"no", "set", "joined"} /\ waited \in BOOLEAN
    /\ lostWrite \in [Arrays -> BOOLEAN]
    /\ nfail \in 0..MaxFails /\ ncrash \in 0..MaxCrashes

\* CreateArray loads the file and clears NV_FLUSH.
Loaded(v) ==
    /\ version' = v /\ flush' = [a \in Arrays |-> FALSE]
    /\ lostWrite' = [a \in Arrays |-> FALSE]
    /\ pc' = "top" /\ todo' = {} /\ stop' = "no" /\ waited' = FALSE

Init ==
    /\ version = [a \in Arrays |-> 0] /\ nversion = 0
    /\ flush = [a \in Arrays |-> FALSE] /\ file = [a \in Arrays |-> 0]
    /\ pc = "top" /\ todo = {} /\ cur \in Arrays /\ ds = 0 /\ tmp = Partial
    /\ stop = "no" /\ waited = FALSE
    /\ lostWrite = [a \in Arrays |-> FALSE] /\ nfail = 0 /\ ncrash = 0

\* SetVar, UnsetVar or FlushArray.  The threads that run nv commands have
\* ended when the server calls StopFlusher.
Change(a) ==
    /\ stop = "no" /\ nversion < MaxVersions
    /\ nversion' = nversion + 1
    /\ version' = [version EXCEPT ![a] = nversion']
    /\ flush' = [flush EXCEPT ![a] = TRUE]
    /\ UNCHANGED <<file, flusherVars, stop, waited, faultVars>>

-----------------------------------------------------------------------------
(* FlusherThread.                                                          *)

\* The first time around the loop: wait, unless shutdown is pending.
Top ==
    /\ pc = "top"
    /\ \/ stop = "no" /\ pc' = "wait" /\ UNCHANGED todo
       \/ stop # "no" /\ pc' = "pass" /\ todo' = Arrays
    /\ UNCHANGED <<arrayVars, file, cur, ds, tmp, stop, waited, faultVars>>

\* Mutant: a flusher that is stopped in its wait ends at once.
AfterWakeEnds == IF stop = "no" THEN "pass" ELSE "exit"

\* After the wait comes a pass, stopped or not.
AfterWake == "pass"

\* The wait is over: after flush.sleep seconds, or signalled.
Wake ==
    /\ pc = "wait"
    /\ pc' = AfterWake /\ todo' = Arrays
    /\ UNCHANGED <<arrayVars, file, cur, ds, tmp, stop, waited, faultVars>>

Skip(a) ==
    /\ pc = "pass" /\ a \in todo /\ ~flush[a]
    /\ todo' = todo \ {a}
    /\ UNCHANGED <<arrayVars, file, pc, cur, ds, tmp, stop, waited, faultVars>>

Copy(a) ==
    /\ pc = "pass" /\ a \in todo /\ flush[a]
    /\ todo' = todo \ {a}
    /\ cur' = a /\ ds' = version[a]
    /\ flush' = [flush EXCEPT ![a] = FALSE]
    /\ pc' = "write"
    /\ UNCHANGED <<version, nversion, file, tmp, stop, waited, faultVars>>

WriteOk ==
    /\ pc = "write"
    /\ tmp' = ds /\ pc' = "rename"
    /\ UNCHANGED <<arrayVars, file, todo, cur, ds, stop, waited, faultVars>>

\* Mutant: the file is renamed although the write failed.
AfterFailRename == "rename"

\* After a failed write or sync the file is not renamed.
AfterFail == "pass"

\* The temporary file cannot be made, or not all of it is written.
WriteFail ==
    /\ pc = "write" /\ nfail < MaxFails
    /\ nfail' = nfail + 1
    /\ tmp' = Partial /\ pc' = AfterFail
    /\ lostWrite' = [lostWrite EXCEPT ![cur] = TRUE]
    /\ UNCHANGED <<arrayVars, file, todo, cur, ds, stop, waited, ncrash>>

\* Mutant: NV_FLUSH is cleared once the file is there, not with the copy.
ClearedLate == [flush EXCEPT ![cur] = FALSE]

\* What a write does to the flags.
FlushAfter == flush

Rename ==
    /\ pc = "rename" /\ pc' = "pass"
    /\ file' = [file EXCEPT ![cur] = tmp]
    /\ flush' = FlushAfter
    /\ lostWrite' = [lostWrite EXCEPT ![cur] = FALSE]
    /\ UNCHANGED <<version, nversion, todo, cur, ds, tmp, stop, waited, nfail,
                   ncrash>>

RenameFail ==
    /\ pc = "rename" /\ nfail < MaxFails
    /\ nfail' = nfail + 1 /\ pc' = "pass"
    /\ lostWrite' = [lostWrite EXCEPT ![cur] = TRUE]
    /\ UNCHANGED <<arrayVars, file, todo, cur, ds, tmp, stop, waited, ncrash>>

\* while (!flush.stop), and back to the wait without giving up flush.lock.
PassEnd ==
    /\ pc = "pass" /\ todo = {}
    /\ pc' = IF stop = "no" THEN "wait" ELSE "exit"
    /\ UNCHANGED <<arrayVars, file, todo, cur, ds, tmp, stop, waited, faultVars>>

-----------------------------------------------------------------------------
\* StopFlusher sets the flag, signals the flusher and joins it.
StopSet ==
    /\ stop = "no" /\ stop' = "set"
    /\ waited' = (pc \in {"top", "wait"})
    /\ UNCHANGED <<arrayVars, file, flusherVars, faultVars>>

StopJoin ==
    /\ stop = "set" /\ pc = "exit"
    /\ stop' = "joined"
    /\ UNCHANGED <<arrayVars, file, flusherVars, waited, faultVars>>

\* The process ends, in order or not, and a new one loads the files.
Restart ==
    /\ ncrash < MaxCrashes /\ ncrash' = ncrash + 1
    /\ Loaded(file)
    /\ UNCHANGED <<nversion, file, cur, ds, tmp, nfail>>

FlusherStep ==
    \/ Top \/ Wake \/ WriteOk \/ WriteFail \/ Rename \/ RenameFail \/ PassEnd
    \/ \E a \in Arrays : Skip(a) \/ Copy(a)

Next ==
    \/ \E a \in Arrays : Change(a)
    \/ FlusherStep \/ StopSet \/ StopJoin \/ Restart

Spec == Init /\ [][Next]_vars

\* The flusher runs, and its wait has a deadline.
FairSpec == Spec /\ WF_vars(FlusherStep) /\ WF_vars(StopJoin)

-----------------------------------------------------------------------------
(* Properties.                                                             *)

\* A change is not forgotten: an array that differs from its file has NV_FLUSH
\* set, or its present contents are on the way to the file, or the last write
\* has failed.  Changes may come at any point of a pass.
OnItsWay(a) == cur = a /\ ds = version[a]
                 /\ (pc = "write" \/ (pc = "rename" /\ tmp = ds))
NotForgotten ==
    \A a \in Arrays : file[a] # version[a] =>
        flush[a] \/ OnItsWay(a) \/ lostWrite[a]

\* The file is replaced as a whole and never by an older version, also when
\* writes fail and the process ends between the steps.
FileAdvances == [][\A a \in Arrays : file'[a] # Partial /\ file'[a] >= file[a]]_vars

\* A stop that finds the flusher at its wait makes it write everything.
StopSaves ==
    stop = "joined" /\ waited =>
        \A a \in Arrays : file[a] = version[a] \/ lostWrite[a]

\* While the server runs, every change reaches the file unless its write
\* fails.
Reaches == []<>(\A a \in Arrays : \/ file[a] = version[a] \/ lostWrite[a]
                                  \/ stop # "no")

=============================================================================
