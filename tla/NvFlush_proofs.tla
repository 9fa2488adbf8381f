--------------------------- MODULE NvFlush_proofs ---------------------------
(***************************************************************************)
(* Proofs about the persist files of network variables, for any number of  *)
(* arrays, changes, failures and restarts.                                 *)
(***************************************************************************)
EXTENDS NvFlush, TLAPS

\* The versions of an array get no older from its file to the copy that is
\* being written and to the array.
Ordered ==
    /\ \A a \in Arrays : file[a] <= version[a] /\ version[a] <= nversion
    /\ pc \in {"write", "rename"} => file[cur] <= ds /\ ds <= version[cur]
    /\ pc = "rename" => tmp = ds

\* An array that has changed since it was copied has NV_FLUSH set.
Reflagged == pc \in {"write", "rename"} /\ ds # version[cur] => flush[cur]

FlushInv == TypeOK /\ Ordered /\ Reflagged /\ NotForgotten

\* When a stop has found the flusher at its wait, an array that is not saved
\* is still to be copied in the last pass, or is being written; and what is
\* being written is what the array holds.
ToCopy(a) ==
    flush[a] /\ (pc \in {"top", "wait"}
                 \/ (pc \in {"pass", "write", "rename"} /\ a \in todo))
LastPass ==
    stop # "no" /\ waited =>
        \A a \in Arrays : \/ file[a] = version[a] \/ lostWrite[a]
                          \/ OnItsWay(a) \/ ToCopy(a)
LastCopy ==
    stop # "no" /\ waited /\ pc \in {"write", "rename"} => ds = version[cur]
StopInv == LastPass /\ LastCopy /\ (stop = "joined" => pc = "exit")

-----------------------------------------------------------------------------
LEMMA InitFlushInv == Init => FlushInv /\ StopInv
<1> SUFFICES ASSUME Init PROVE FlushInv /\ StopInv
  OBVIOUS
<1> USE DEF Init
<1>1. 0 \in Versions /\ 0 \in 0..MaxFails /\ 0 \in 0..MaxCrashes
  BY FlushAssumption DEF Versions
<1>2. TypeOK
  BY <1>1 DEF TypeOK
<1>3. Ordered /\ Reflagged
  BY DEF Ordered, Reflagged
<1>4. NotForgotten /\ StopInv
  BY DEF NotForgotten, StopInv, LastPass, LastCopy
<1> QED BY <1>2, <1>3, <1>4 DEF FlushInv

LEMMA StutterFlushInv ==
    ASSUME FlushInv, UNCHANGED vars
    PROVE  FlushInv'
  BY DEF FlushInv, TypeOK, Ordered, Reflagged, NotForgotten, OnItsWay, vars,
         arrayVars, flusherVars, faultVars

\* The steps of the threads that change an array.
LEMMA ChangeFlushInv ==
    ASSUME FlushInv, NEW a \in Arrays, Change(a)
    PROVE  FlushInv'
<1> USE FlushAssumption DEF FlushInv, Change, flusherVars, faultVars
<1>1. TypeOK'
  BY DEF TypeOK, Versions
<1>2. Ordered'
  BY DEF TypeOK, Ordered, Versions
<1>3. Reflagged'
  BY DEF TypeOK, Reflagged
<1>4. NotForgotten'
  BY DEF TypeOK, NotForgotten, OnItsWay
<1> QED BY <1>1, <1>2, <1>3, <1>4

\* The steps of the flusher that write nothing, and the stop.
LEMMA LoopFlushInv ==
    ASSUME FlushInv, \/ Top \/ Wake \/ PassEnd \/ StopSet \/ StopJoin
                     \/ \E a \in Arrays : Skip(a)
    PROVE  FlushInv'
<1>1. pc \notin {"write", "rename"} \/ UNCHANGED pc
  BY DEF Top, Wake, PassEnd, StopSet, StopJoin, Skip, flusherVars
<1>2. pc' \notin {"write", "rename"} \/ UNCHANGED pc
  BY DEF Top, Wake, AfterWake, PassEnd, StopSet, StopJoin, Skip, flusherVars
<1>3. UNCHANGED <<version, nversion, flush, file, cur, ds, tmp, lostWrite, nfail,
                  ncrash>>
  BY DEF Top, Wake, PassEnd, StopSet, StopJoin, Skip, arrayVars, flusherVars,
         faultVars
<1>4. TypeOK'
  <2>1. pc' \in {"top", "wait", "pass", "write", "rename", "exit"}
    BY DEF FlushInv, TypeOK, Top, Wake, AfterWake, PassEnd, StopSet, StopJoin, Skip,
           flusherVars
  <2>2. todo' \in SUBSET Arrays
    BY DEF FlushInv, TypeOK, Top, Wake, PassEnd, StopSet, StopJoin, Skip, flusherVars
  <2>3. stop' \in {"no", "set", "joined"}
    BY DEF FlushInv, TypeOK, Top, Wake, PassEnd, StopSet, StopJoin, Skip
  <2>4. waited' \in BOOLEAN
    <3>1. CASE StopSet
      <4>1. waited' = (pc \in {"top", "wait"})
        BY <3>1 DEF StopSet
      <4>2. CASE pc \in {"top", "wait"}
        BY <4>1, <4>2
      <4>3. CASE pc \notin {"top", "wait"}
        BY <4>1, <4>3
      <4> QED BY <4>2, <4>3
    <3>2. CASE \/ Top \/ Wake \/ PassEnd \/ StopJoin \/ \E a \in Arrays : Skip(a)
      <4>1. waited' = waited
        BY <3>2 DEF Top, Wake, PassEnd, StopJoin, Skip
      <4>2. waited \in BOOLEAN
        BY Zenon DEF FlushInv, TypeOK
      <4> QED BY <4>1, <4>2, Zenon
    <3> QED BY <3>1, <3>2
  <2> QED BY <1>3, <2>1, <2>2, <2>3, <2>4 DEF FlushInv, TypeOK
<1>5. Ordered' /\ Reflagged' /\ NotForgotten'
  BY <1>1, <1>2, <1>3 DEF FlushInv, Ordered, Reflagged, NotForgotten, OnItsWay
<1> QED BY <1>4, <1>5 DEF FlushInv

LEMMA CopyFlushInv ==
    ASSUME FlushInv, NEW a \in Arrays, Copy(a)
    PROVE  FlushInv'
<1> USE DEF FlushInv, Copy, faultVars
<1>1. TypeOK'
  BY DEF TypeOK
<1>2. Ordered'
  BY DEF TypeOK, Ordered, Versions
<1>3. Reflagged'
  BY DEF Reflagged
<1>4. NotForgotten'
  BY DEF TypeOK, NotForgotten, OnItsWay
<1> QED BY <1>1, <1>2, <1>3, <1>4

LEMMA WriteFlushInv ==
    ASSUME FlushInv, WriteOk \/ WriteFail \/ RenameFail
    PROVE  FlushInv'
<1> USE FlushAssumption DEF FlushInv, WriteOk, WriteFail, AfterFail, RenameFail,
        arrayVars, faultVars
<1>1. TypeOK'
  <2>1. UNCHANGED <<version, nversion, flush, file, todo, cur, ds, stop, waited,
                    ncrash>>
    OBVIOUS
  <2>2. tmp' \in Versions \cup {Partial}
    BY DEF TypeOK
  <2>3. nfail' \in 0..MaxFails
    BY DEF TypeOK
  <2>4. lostWrite' \in [Arrays -> BOOLEAN]
    BY DEF TypeOK
  <2>5. pc' \in {"pass", "rename"}
    OBVIOUS
  <2> HIDE DEF WriteOk, WriteFail, RenameFail, FlushInv
  <2>6. TypeOK
    BY DEF FlushInv
  <2> QED BY <2>1, <2>2, <2>3, <2>4, <2>5, <2>6 DEF TypeOK
<1>2. Ordered'
  BY DEF Ordered
<1>3. Reflagged'
  BY DEF Reflagged
<1>4. NotForgotten'
  BY DEF TypeOK, NotForgotten, OnItsWay
<1> QED BY <1>1, <1>2, <1>3, <1>4

LEMMA RenameFlushInv ==
    ASSUME FlushInv, Rename
    PROVE  FlushInv'
<1> USE DEF FlushInv, Rename, FlushAfter
<1>1. TypeOK'
  BY DEF TypeOK, Ordered
<1>2. Ordered'
  BY DEF TypeOK, Ordered
<1>3. Reflagged'
  BY DEF Reflagged
<1>4. NotForgotten'
  BY DEF TypeOK, Ordered, Reflagged, NotForgotten, OnItsWay
<1> QED BY <1>1, <1>2, <1>3, <1>4

LEMMA RestartFlushInv ==
    ASSUME FlushInv, Restart
    PROVE  FlushInv'
<1> USE FlushAssumption DEF FlushInv, Restart, Loaded
<1>1. TypeOK'
  <2>1. UNCHANGED <<nversion, file, cur, ds, tmp, nfail>>
    OBVIOUS
  <2>2. ncrash' \in 0..MaxCrashes
    BY DEF TypeOK
  <2>3. version' \in [Arrays -> Versions]
    BY DEF TypeOK
  <2>4. flush' \in [Arrays -> BOOLEAN] /\ lostWrite' \in [Arrays -> BOOLEAN]
    OBVIOUS
  <2>5. pc' = "top" /\ todo' = {} /\ stop' = "no" /\ waited' = FALSE
    OBVIOUS
  <2> HIDE DEF Restart, Loaded, FlushInv
  <2>6. TypeOK
    BY DEF FlushInv
  <2> QED BY <2>1, <2>2, <2>3, <2>4, <2>5, <2>6 DEF TypeOK
<1>2. Ordered'
  BY DEF TypeOK, Ordered, Versions
<1>3. Reflagged'
  BY DEF Reflagged
<1>4. NotForgotten'
  BY DEF NotForgotten
<1> QED BY <1>1, <1>2, <1>3, <1>4

LEMMA NextFlushInv == FlushInv /\ [Next]_vars => FlushInv'
<1> SUFFICES ASSUME FlushInv, [Next]_vars PROVE FlushInv'
  OBVIOUS
<1>1. CASE UNCHANGED vars
  BY <1>1, StutterFlushInv
<1>2. CASE \E a \in Arrays : Change(a)
  BY <1>2, ChangeFlushInv
<1>3. CASE \E a \in Arrays : Copy(a)
  BY <1>3, CopyFlushInv
<1>4. CASE \/ Top \/ Wake \/ PassEnd \/ StopSet \/ StopJoin
           \/ \E a \in Arrays : Skip(a)
  BY <1>4, LoopFlushInv
<1>5. CASE WriteOk \/ WriteFail \/ RenameFail
  BY <1>5, WriteFlushInv
<1>6. CASE Rename
  BY <1>6, RenameFlushInv
<1>7. CASE Restart
  BY <1>7, RestartFlushInv
<1> QED BY <1>1, <1>2, <1>3, <1>4, <1>5, <1>6, <1>7 DEF Next, FlusherStep

LEMMA FlushInvAlways == Spec => []FlushInv
  BY InitFlushInv, NextFlushInv, PTL DEF Spec

-----------------------------------------------------------------------------
\* Every variable of the flusher and the files keeps its type: no file is ever
\* one that was written in part.
THEOREM FlushTypeCorrect == Spec => []TypeOK
  BY FlushInvAlways, PTL DEF FlushInv

\* An array that differs from its file has NV_FLUSH set, is on its way to the
\* file, or its last write has failed, whenever it is changed.
THEOREM NeverForgotten == Spec => []NotForgotten
  BY FlushInvAlways, PTL DEF FlushInv

\* No step replaces a file by an older version or by part of one.
LEMMA StepAdvances ==
    FlushInv /\ [Next]_vars =>
        [\A a \in Arrays : file'[a] # Partial /\ file'[a] >= file[a]]_vars
<1> SUFFICES ASSUME FlushInv, Next, NEW a \in Arrays
             PROVE  file'[a] # Partial /\ file'[a] >= file[a]
  BY DEF Partial
<1>1. file[a] \in Nat
  BY FlushAssumption DEF FlushInv, TypeOK, Versions
<1>2. CASE Rename
  BY <1>1, <1>2, FlushAssumption DEF Rename, FlushInv, TypeOK, Ordered, Versions,
     Partial
<1>3. CASE UNCHANGED file
  BY <1>1, <1>3 DEF Partial
<1> QED
  BY <1>2, <1>3 DEF Next, FlusherStep, Change, Top, Wake, Skip, Copy, WriteOk,
     WriteFail, RenameFail, PassEnd, StopSet, StopJoin, Restart

\* The file is replaced as a whole and never by an older version, with writes
\* that fail and crashes between any two steps of FlusherThread.
THEOREM FileOnlyAdvances == Spec => FileAdvances
  BY FlushInvAlways, StepAdvances, PTL DEF Spec, FileAdvances

-----------------------------------------------------------------------------
LEMMA NextStopInv == FlushInv /\ StopInv /\ [Next]_vars => StopInv'
<1> SUFFICES ASSUME FlushInv, StopInv, [Next]_vars PROVE StopInv'
  OBVIOUS
<1> USE DEF StopInv, LastPass, LastCopy, ToCopy, OnItsWay
<1>1. CASE UNCHANGED vars
  BY <1>1 DEF vars, arrayVars, flusherVars, faultVars
<1>2. CASE \E a \in Arrays : Change(a)
  BY <1>2 DEF Change, flusherVars, faultVars
<1>3. CASE \E a \in Arrays : Copy(a)
  BY <1>3 DEF Copy, faultVars, FlushInv, TypeOK
<1>4. CASE \E a \in Arrays : Skip(a)
  BY <1>4 DEF Skip, arrayVars, faultVars
<1>5. CASE Top \/ Wake
  BY <1>5 DEF Top, Wake, AfterWake, arrayVars, faultVars
<1>6. CASE PassEnd
  BY <1>6 DEF PassEnd, arrayVars, faultVars
<1>7. CASE StopSet
  BY <1>7 DEF StopSet, arrayVars, flusherVars, faultVars, FlushInv, NotForgotten
<1>8. CASE StopJoin
  BY <1>8 DEF StopJoin, arrayVars, flusherVars, faultVars
<1>9. CASE WriteOk \/ WriteFail \/ RenameFail
  BY <1>9 DEF WriteOk, WriteFail, AfterFail, RenameFail, arrayVars, faultVars,
     FlushInv, TypeOK
<1>10. CASE Rename
  <2>1. /\ pc = "rename" /\ pc' = "pass"
        /\ file' = [file EXCEPT ![cur] = tmp]
        /\ lostWrite' = [lostWrite EXCEPT ![cur] = FALSE]
        /\ UNCHANGED <<version, flush, todo, cur, ds, tmp, stop, waited>>
    BY <1>10 DEF Rename, FlushAfter
  <2>2. /\ file \in [Arrays -> Versions] /\ lostWrite \in [Arrays -> BOOLEAN]
        /\ cur \in Arrays /\ tmp = ds
    BY <2>1 DEF FlushInv, TypeOK, Ordered
  <2>3. LastPass'
    <3> SUFFICES ASSUME stop # "no", waited, NEW a \in Arrays
                 PROVE  \/ file'[a] = version[a] \/ lostWrite'[a]
                        \/ ToCopy(a)'
      BY <2>1
    <3>1. CASE a = cur
      BY <2>1, <2>2, <3>1
    <3>2. CASE a # cur
      BY <2>1, <2>2, <3>2
    <3> QED BY <3>1, <3>2
  <2> QED BY <2>1, <2>3
<1>11. CASE Restart
  BY <1>11 DEF Restart, Loaded
<1> QED BY <1>1, <1>2, <1>3, <1>4, <1>5, <1>6, <1>7, <1>8, <1>9, <1>10, <1>11
        DEF Next, FlusherStep

\* When StopFlusher has found the flusher at its wait and has joined it, every
\* array is in its file or its last write has failed.
THEOREM StopAlwaysSaves == Spec => []StopSaves
<1>1. StopInv => StopSaves
  BY DEF StopInv, LastPass, StopSaves, OnItsWay, ToCopy
<1> QED BY <1>1, FlushInvAlways, InitFlushInv, NextStopInv, PTL DEF Spec
=============================================================================
