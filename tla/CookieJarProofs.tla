-------------------------- MODULE CookieJarProofs --------------------------
(***************************************************************************)
(* Proofs about CookieJar, for every number of processes and goroutines,   *)
(* of sessions and of crashes.                                             *)
(***************************************************************************)
EXTENDS CookieJar, TLAPS

Saving == {"create", "write", "rename"}

(* Everything that is held anywhere was handed out.                         *)
HandedOut ==
  /\ \A p \in Procs : memory[p] <= sessions /\ saved[p] <= sessions
  /\ \A g \in Callers : buf[g] <= sessions /\ tmp[g].session <= sessions
  /\ file.session <= sessions
  /\ wiped \subseteq 1 .. sessions

(* A process that is down has no goroutine at work and has saved nothing.   *)
DownIsIdle ==
  \A p \in Procs : ~running[p] =>
    saved[p] = 0 /\ \A g \in Goroutines(p) : pc[g] = "idle"

(* The lock of saveJar, and what its holder carries.                        *)
Locked ==
  /\ \A g, h \in Callers :
       pc[g] \in Saving /\ pc[h] \in Saving /\ g[1] = h[1] => g = h
  /\ \A g \in Callers : pc[g] \in {"write", "rename"} => tmp[g].session = buf[g]
  /\ \A g \in Callers : pc[g] = "rename" => tmp[g].whole

(* No wiped session is left where a save or a restart could take it up.     *)
Gone ==
  /\ file.session \notin wiped
  /\ \A p \in Procs : memory[p] \notin wiped
  /\ \A g \in Callers : pc[g] \in Saving => buf[g] \notin wiped
  /\ \A g \in Callers : pc[g] = "remove" /\ buf[g] # 0 => memory[g[1]] # buf[g]

(* What a process saves next is not older than what it saved last.          *)
Forward ==
  /\ \A p \in Procs : memory[p] = 0 \/ memory[p] >= saved[p]
  /\ \A g \in Callers : pc[g] \in Saving =>
       /\ buf[g] = 0 \/ buf[g] >= saved[g[1]]
       /\ memory[g[1]] = 0 \/ memory[g[1]] >= buf[g]

(* A goroutine that will bring the file up to the memory of its process.    *)
CatchesUp(g) ==
  \/ pc[g] \in {"save", "remove"}
  \/ pc[g] \in Saving /\ buf[g] = memory[g[1]]

Follows ==
  /\ \A p \in writer :
       running[p] /\ ~missed[p] /\ file.exists =>
         file.session = memory[p] \/ \E g \in Goroutines(p) : CatchesUp(g)
  /\ \A g \in Callers :
       pc[g] \in Saving /\ ~missed[g[1]] =>
         buf[g] = memory[g[1]] \/ \E h \in Goroutines(g[1]) : pc[h] \in {"save", "remove"}

IInv ==
  /\ TypeOK
  /\ JarFileIsWhole
  /\ HandedOut
  /\ DownIsIdle
  /\ Locked
  /\ Gone
  /\ Forward
  /\ Follows

-----------------------------------------------------------------------------

(* What RemoveJar adds to wiped is a session it has read.                   *)
LEMMA WipedBound ==
  ASSUME NEW n \in Nat, NEW W, NEW V, NEW b \in 0 .. n, V \subseteq 1 .. n,
         \A x \in W : x \in V \/ (x = b /\ x # 0)
  PROVE  W \subseteq 1 .. n
<1> SUFFICES ASSUME NEW x \in W PROVE x \in 1 .. n
  OBVIOUS
<1>1. CASE x \in V
  BY <1>1
<1>2. CASE x = b /\ x # 0
  BY <1>2
<1>3. QED
  BY <1>1, <1>2

(* Every step of every process keeps the invariant.                         *)
LEMMA InvStep == IInv /\ [Next]_vars => IInv'
<1> SUFFICES ASSUME IInv, [Next]_vars PROVE IInv'
  OBVIOUS
<1> USE CookieJarAssumption DEF IInv, TypeOK, Goroutines, goroutine, history, Files,
      Absent, Snapshot
<1>1. ASSUME NEW p \in Procs, NewClient(p)
      PROVE  IInv'
  <2>1. TypeOK'
    BY <1>1 DEF NewClient
  <2>2. JarFileIsWhole'
    BY <1>1 DEF NewClient, JarFileIsWhole
  <2>3. HandedOut'
    BY <1>1 DEF NewClient, HandedOut
  <2>4. DownIsIdle'
    BY <1>1 DEF NewClient, DownIsIdle, Goroutines
  <2>5. Locked'
    BY <1>1 DEF NewClient, Locked, Saving
  <2>6. Gone'
    BY <1>1 DEF NewClient, Gone, Saving, DownIsIdle, HandedOut
  <2>7. Forward'
    BY <1>1 DEF NewClient, Forward, Saving, DownIsIdle
  <2>8. Follows'
    <3>1. \A h \in Goroutines(p) : pc[h] = "idle"
      BY <1>1 DEF NewClient, DownIsIdle
    <3>2. memory'[p] = file.session
      BY <1>1 DEF NewClient, JarFileIsWhole
    <3>3. QED
      BY <1>1, <3>1, <3>2 DEF NewClient, Follows, Saving, CatchesUp, Goroutines
  <2>9. QED
    BY <2>1, <2>2, <2>3, <2>4, <2>5, <2>6, <2>7, <2>8 DEF IInv
<1>2. ASSUME NEW p \in Procs, Crash(p)
      PROVE  IInv'
  <2>1. TypeOK'
    BY <1>2 DEF Crash, Return
  <2>2. JarFileIsWhole'
    BY <1>2 DEF Crash, Return, JarFileIsWhole
  <2>3. HandedOut'
    BY <1>2 DEF Crash, Return, HandedOut
  <2>4. DownIsIdle'
    BY <1>2 DEF Crash, Return, DownIsIdle, Goroutines
  <2>5. Locked'
    BY <1>2 DEF Crash, Return, Locked, Saving
  <2>6. Gone'
    BY <1>2 DEF Crash, Return, Gone, Saving
  <2>7. Forward'
    BY <1>2 DEF Crash, Return, Forward, Saving
  <2>8. Follows'
    <3>1. \A q \in writer' : running'[q] /\ ~missed'[q] /\ file'.exists =>
            file'.session = memory'[q] \/ \E h \in Goroutines(q) : CatchesUp(h)'
      BY <1>2 DEF Crash, Return, Follows, Saving, CatchesUp, Goroutines
    <3>2. \A h \in Callers : pc'[h] \in Saving /\ ~missed'[h[1]] =>
            \/ buf'[h] = memory'[h[1]]
            \/ \E k \in Goroutines(h[1]) : pc'[k] \in {"save", "remove"}
      BY <1>2 DEF Crash, Return, Follows, Saving, CatchesUp, Goroutines
    <3>3. QED
      BY <3>1, <3>2 DEF Follows, CatchesUp, Saving
  <2>9. QED
    BY <2>1, <2>2, <2>3, <2>4, <2>5, <2>6, <2>7, <2>8 DEF IInv
<1>3. ASSUME NEW g \in Callers, NEW r \in {"get", "login", "logout"}, Send(g, r)
      PROVE  IInv'
  <2>1. TypeOK'
    BY <1>3 DEF Send
  <2>2. JarFileIsWhole'
    BY <1>3 DEF Send, JarFileIsWhole
  <2>3. HandedOut'
    BY <1>3 DEF Send, HandedOut
  <2>4. DownIsIdle'
    BY <1>3 DEF Send, DownIsIdle, Goroutines
  <2>5. Locked'
    BY <1>3 DEF Send, Locked, Saving
  <2>6. Gone'
    BY <1>3 DEF Send, Gone, Saving
  <2>7. Forward'
    BY <1>3 DEF Send, Forward, Saving
  <2>8. Follows'
    BY <1>3, SMTT(20) DEF Send, Follows, Saving, CatchesUp, Goroutines
  <2>9. QED
    BY <2>1, <2>2, <2>3, <2>4, <2>5, <2>6, <2>7, <2>8 DEF IInv
<1>4. ASSUME NEW g \in Callers, Answer(g)
      PROVE  IInv'
  <2>1. TypeOK'
    BY <1>4 DEF Answer, NewSession, GoTo
  <2>2. JarFileIsWhole'
    BY <1>4 DEF Answer, NewSession, GoTo, JarFileIsWhole
  <2>3. HandedOut'
    <3>1. CASE request[g] = "login"
      BY <1>4, <3>1 DEF Answer, NewSession, GoTo, HandedOut
    <3>2. CASE request[g] # "login"
      BY <1>4, <3>2 DEF Answer, NewSession, GoTo, HandedOut
    <3>3. QED
      BY <3>1, <3>2
  <2>4. DownIsIdle'
    BY <1>4 DEF Answer, NewSession, GoTo, DownIsIdle, Goroutines
  <2>5. Locked'
    BY <1>4 DEF Answer, NewSession, GoTo, Locked, Saving
  <2>6. Gone'
    <3>1. CASE request[g] = "login"
      <4>1. /\ memory' = [memory EXCEPT ![g[1]] = sessions + 1]
            /\ wiped' = wiped
            /\ \A h \in Callers : pc'[h] \in Saving \cup {"remove"} =>
                 h # g /\ pc'[h] = pc[h] /\ buf'[h] = buf[h]
        BY <1>4, <3>1 DEF Answer, NewSession, GoTo, Saving
      <4>2. /\ sessions + 1 \notin wiped
            /\ \A h \in Callers : buf[h] < sessions + 1 /\ g[1] \in Procs
        BY DEF HandedOut
      <4>3. QED
        BY <1>4, <4>1, <4>2 DEF Answer, Gone, Saving
    <3>2. CASE request[g] # "login"
      BY <1>4, <3>2 DEF Answer, NewSession, GoTo, Gone, Saving, HandedOut
    <3>3. QED
      BY <3>1, <3>2
  <2>7. Forward'
    <3>1. CASE request[g] = "login"
      <4>1. /\ memory' = [memory EXCEPT ![g[1]] = sessions + 1]
            /\ saved' = saved
            /\ \A h \in Callers : pc'[h] \in Saving \cup {"remove"} =>
                 h # g /\ pc'[h] = pc[h] /\ buf'[h] = buf[h]
        BY <1>4, <3>1 DEF Answer, NewSession, GoTo, Saving
      <4>2. /\ \A q \in Procs : sessions + 1 >= saved[q]
            /\ \A h \in Callers : buf[h] < sessions + 1 /\ g[1] \in Procs
        BY DEF HandedOut
      <4>3. QED
        BY <1>4, <4>1, <4>2 DEF Answer, Forward, Saving
    <3>2. CASE request[g] # "login"
      BY <1>4, <3>2 DEF Answer, NewSession, GoTo, Forward, Saving, HandedOut
    <3>3. QED
      BY <3>1, <3>2
  <2>8. Follows'
    BY <1>4 DEF Answer, NewSession, GoTo, Follows, Saving, CatchesUp, Goroutines
  <2>9. QED
    BY <2>1, <2>2, <2>3, <2>4, <2>5, <2>6, <2>7, <2>8 DEF IInv
<1>5. ASSUME NEW g \in Callers, BodyLost(g)
      PROVE  IInv'
  <2>1. TypeOK'
    BY <1>5 DEF BodyLost, NewSession, Return, Missed
  <2>2. JarFileIsWhole'
    BY <1>5 DEF BodyLost, NewSession, Return, Missed, JarFileIsWhole
  <2>3. HandedOut'
    <3>1. CASE request[g] = "login"
      BY <1>5, <3>1 DEF BodyLost, NewSession, Return, Missed, HandedOut
    <3>2. CASE request[g] # "login"
      BY <1>5, <3>2 DEF BodyLost, NewSession, Return, Missed, HandedOut
    <3>3. QED
      BY <3>1, <3>2
  <2>4. DownIsIdle'
    BY <1>5 DEF BodyLost, NewSession, Return, Missed, DownIsIdle, Goroutines
  <2>5. Locked'
    BY <1>5 DEF BodyLost, NewSession, Return, Missed, Locked, Saving
  <2>6. Gone'
    <3>1. CASE request[g] = "login"
      BY <1>5, <3>1 DEF BodyLost, NewSession, Return, Missed, Gone, Saving, HandedOut
    <3>2. CASE request[g] # "login"
      BY <1>5, <3>2 DEF BodyLost, NewSession, Return, Missed, Gone, Saving, HandedOut
    <3>3. QED
      BY <3>1, <3>2
  <2>7. Forward'
    <3>1. CASE request[g] = "login"
      <4>1. /\ memory' = [memory EXCEPT ![g[1]] = sessions + 1]
            /\ saved' = saved
            /\ \A h \in Callers : pc'[h] \in Saving \cup {"remove"} =>
                 h # g /\ pc'[h] = pc[h] /\ buf'[h] = buf[h]
        BY <1>5, <3>1 DEF BodyLost, NewSession, Return, Missed, Saving
      <4>2. /\ \A q \in Procs : sessions + 1 >= saved[q]
            /\ \A h \in Callers : buf[h] < sessions + 1 /\ g[1] \in Procs
        BY DEF HandedOut
      <4>3. QED
        BY <1>5, <4>1, <4>2 DEF BodyLost, Forward, Saving
    <3>2. CASE request[g] # "login"
      BY <1>5, <3>2 DEF BodyLost, NewSession, Return, Missed, Forward, Saving, HandedOut
    <3>3. QED
      BY <3>1, <3>2
  <2>8. Follows'
    <3>1. \A q \in Procs : ~missed'[q] => ~missed[q] /\ memory'[q] = memory[q]
      <4>1. CASE request[g] = "login"
        BY <1>5, <4>1 DEF BodyLost, NewSession, Missed
      <4>2. CASE request[g] # "login"
        BY <1>5, <4>2 DEF BodyLost, NewSession, Missed
      <4>3. QED
        BY <4>1, <4>2
    <3>2. /\ pc[g] = "sent"
          /\ \A h \in Callers \ {g} : pc'[h] = pc[h] /\ buf'[h] = buf[h]
          /\ pc'[g] = "idle"
          /\ running' = running /\ file' = file /\ writer' = writer
      BY <1>5 DEF BodyLost, Return
    <3>3. ASSUME NEW q \in writer', running'[q], ~missed'[q], file'.exists,
                 file'.session # memory'[q]
          PROVE  \E h \in Goroutines(q) : CatchesUp(h)'
      <4>1. q \in Procs /\ ~missed[q] /\ memory'[q] = memory[q]
        BY <3>1, <3>2, <3>3
      <4>2. PICK h \in Goroutines(q) : CatchesUp(h)
        BY <3>2, <3>3, <4>1 DEF Follows
      <4>3. QED
        BY <3>2, <4>1, <4>2 DEF CatchesUp, Saving
    <3>4. ASSUME NEW h \in Callers, pc'[h] \in Saving, ~missed'[h[1]], buf'[h] # memory'[h[1]]
          PROVE  \E k \in Goroutines(h[1]) : pc'[k] \in {"save", "remove"}
      <4>1. h # g /\ ~missed[h[1]] /\ memory'[h[1]] = memory[h[1]]
        BY <3>1, <3>2, <3>4 DEF Saving
      <4>2. QED
        BY <3>2, <3>4, <4>1 DEF Follows
    <3>5. QED
      BY <3>3, <3>4 DEF Follows, CatchesUp, Saving
  <2>9. QED
    BY <2>1, <2>2, <2>3, <2>4, <2>5, <2>6, <2>7, <2>8 DEF IInv
<1>6. ASSUME NEW g \in Callers, NetworkError(g)
      PROVE  IInv'
  <2>1. TypeOK'
    BY <1>6 DEF NetworkError, Return
  <2>2. JarFileIsWhole'
    BY <1>6 DEF NetworkError, Return, JarFileIsWhole
  <2>3. HandedOut'
    BY <1>6 DEF NetworkError, Return, HandedOut
  <2>4. DownIsIdle'
    BY <1>6 DEF NetworkError, Return, DownIsIdle, Goroutines
  <2>5. Locked'
    BY <1>6 DEF NetworkError, Return, Locked, Saving
  <2>6. Gone'
    BY <1>6 DEF NetworkError, Return, Gone, Saving
  <2>7. Forward'
    BY <1>6 DEF NetworkError, Return, Forward, Saving
  <2>8. Follows'
    <3>1. \A q \in writer' : running'[q] /\ ~missed'[q] /\ file'.exists =>
            file'.session = memory'[q] \/ \E h \in Goroutines(q) : CatchesUp(h)'
      BY <1>6, SMTT(20) DEF NetworkError, Return, Follows, Saving, CatchesUp, Goroutines
    <3>2. \A h \in Callers : pc'[h] \in Saving /\ ~missed'[h[1]] =>
            \/ buf'[h] = memory'[h[1]]
            \/ \E k \in Goroutines(h[1]) : pc'[k] \in {"save", "remove"}
      BY <1>6 DEF NetworkError, Return, Follows, Saving, CatchesUp, Goroutines
    <3>3. QED
      BY <3>1, <3>2 DEF Follows, CatchesUp, Saving
  <2>9. QED
    BY <2>1, <2>2, <2>3, <2>4, <2>5, <2>6, <2>7, <2>8 DEF IInv
<1>7. ASSUME NEW g \in Callers, LockJar(g)
      PROVE  IInv'
  <2>1. TypeOK'
    BY <1>7 DEF LockJar, Unlocked, Read
  <2>2. JarFileIsWhole'
    BY <1>7 DEF LockJar, Unlocked, Read, JarFileIsWhole
  <2>3. HandedOut'
    BY <1>7 DEF LockJar, Unlocked, Read, HandedOut
  <2>4. DownIsIdle'
    BY <1>7 DEF LockJar, Unlocked, Read, DownIsIdle, Goroutines
  <2>5. Locked'
    BY <1>7 DEF LockJar, Unlocked, Read, Locked, Saving
  <2>6. Gone'
    BY <1>7 DEF LockJar, Unlocked, Read, Gone, Saving
  <2>7. Forward'
    BY <1>7 DEF LockJar, Unlocked, Read, Forward, Saving
  <2>8. Follows'
    BY <1>7, SMTT(20) DEF LockJar, Unlocked, Read, Follows, Saving, CatchesUp, Goroutines
  <2>9. QED
    BY <2>1, <2>2, <2>3, <2>4, <2>5, <2>6, <2>7, <2>8 DEF IInv
<1>8. ASSUME NEW g \in Callers, CreateTemp(g)
      PROVE  IInv'
  <2>1. TypeOK'
    BY <1>8 DEF CreateTemp, TempName, GoTo
  <2>2. JarFileIsWhole'
    BY <1>8 DEF CreateTemp, TempName, GoTo, JarFileIsWhole
  <2>3. HandedOut'
    BY <1>8 DEF CreateTemp, TempName, GoTo, HandedOut
  <2>4. DownIsIdle'
    BY <1>8 DEF CreateTemp, TempName, GoTo, DownIsIdle, Goroutines
  <2>5. Locked'
    BY <1>8 DEF CreateTemp, TempName, GoTo, Locked, Saving
  <2>6. Gone'
    BY <1>8 DEF CreateTemp, TempName, GoTo, Gone, Saving
  <2>7. Forward'
    BY <1>8 DEF CreateTemp, TempName, GoTo, Forward, Saving
  <2>8. Follows'
    BY <1>8, SMTT(20) DEF CreateTemp, TempName, GoTo, Follows, Saving, CatchesUp, Goroutines
  <2>9. QED
    BY <2>1, <2>2, <2>3, <2>4, <2>5, <2>6, <2>7, <2>8 DEF IInv
<1>9. ASSUME NEW g \in Callers, WriteTemp(g)
      PROVE  IInv'
  <2>1. TypeOK'
    BY <1>9 DEF WriteTemp, TempName, GoTo
  <2>2. JarFileIsWhole'
    BY <1>9 DEF WriteTemp, TempName, GoTo, JarFileIsWhole
  <2>3. HandedOut'
    BY <1>9 DEF WriteTemp, TempName, GoTo, HandedOut
  <2>4. DownIsIdle'
    BY <1>9 DEF WriteTemp, TempName, GoTo, DownIsIdle, Goroutines
  <2>5. Locked'
    BY <1>9 DEF WriteTemp, TempName, GoTo, Locked, Saving
  <2>6. Gone'
    BY <1>9 DEF WriteTemp, TempName, GoTo, Gone, Saving
  <2>7. Forward'
    BY <1>9 DEF WriteTemp, TempName, GoTo, Forward, Saving
  <2>8. Follows'
    BY <1>9 DEF WriteTemp, TempName, GoTo, Follows, Saving, CatchesUp, Goroutines
  <2>9. QED
    BY <2>1, <2>2, <2>3, <2>4, <2>5, <2>6, <2>7, <2>8 DEF IInv
<1>10. ASSUME NEW g \in Callers, RenameTemp(g)
      PROVE  IInv'
  <2>1. TypeOK'
    BY <1>10 DEF RenameTemp, TempName, Missed, AfterSave, GoTo, Return
  <2>2. JarFileIsWhole'
    BY <1>10 DEF RenameTemp, TempName, Missed, AfterSave, GoTo, Return, JarFileIsWhole,
      Locked
  <2>3. HandedOut'
    <3>1. CASE request[g] = "logout"
      BY <1>10, <3>1 DEF RenameTemp, TempName, Missed, AfterSave, GoTo, Return, HandedOut
    <3>2. CASE request[g] # "logout"
      BY <1>10, <3>2 DEF RenameTemp, TempName, Missed, AfterSave, GoTo, Return, HandedOut
    <3>3. QED
      BY <3>1, <3>2
  <2>4. DownIsIdle'
    BY <1>10 DEF RenameTemp, TempName, Missed, AfterSave, GoTo, Return, DownIsIdle,
      Goroutines
  <2>5. Locked'
    <3>1. CASE request[g] = "logout"
      BY <1>10, <3>1 DEF RenameTemp, TempName, Missed, AfterSave, GoTo, Return, Locked,
        Saving
    <3>2. CASE request[g] # "logout"
      BY <1>10, <3>2 DEF RenameTemp, TempName, Missed, AfterSave, GoTo, Return, Locked,
        Saving
    <3>3. QED
      BY <3>1, <3>2
  <2>6. Gone'
    <3>1. CASE request[g] = "logout"
      BY <1>10, <3>1 DEF RenameTemp, TempName, Missed, AfterSave, GoTo, Return, Gone,
        Saving, Locked
    <3>2. CASE request[g] # "logout"
      BY <1>10, <3>2 DEF RenameTemp, TempName, Missed, AfterSave, GoTo, Return, Gone,
        Saving, Locked
    <3>3. QED
      BY <3>1, <3>2
  <2>7. Forward'
    <3>1. CASE request[g] = "logout"
      BY <1>10, <3>1 DEF RenameTemp, TempName, Missed, AfterSave, GoTo, Return, Forward,
        Saving, Locked, HandedOut
    <3>2. CASE request[g] # "logout"
      BY <1>10, <3>2 DEF RenameTemp, TempName, Missed, AfterSave, GoTo, Return, Forward,
        Saving, Locked, HandedOut
    <3>3. QED
      BY <3>1, <3>2
  <2>8. Follows'
    <3>1. \A q \in writer' : running'[q] /\ ~missed'[q] /\ file'.exists =>
            file'.session = memory'[q] \/ \E h \in Goroutines(q) : CatchesUp(h)'
      BY <1>10, SMTT(20) DEF RenameTemp, TempName, Missed, AfterSave, GoTo, Return, Follows,
        Saving, CatchesUp, Goroutines, Locked
    <3>2. ASSUME NEW h \in Callers, pc'[h] \in Saving, ~missed'[h[1]]
          PROVE  \/ buf'[h] = memory'[h[1]]
                 \/ \E k \in Goroutines(h[1]) : pc'[k] \in {"save", "remove"}
      <4>1. h # g /\ pc[h] \in Saving
        BY <1>10, <3>2 DEF RenameTemp, AfterSave, GoTo, Return, Saving
      <4>2. h[1] # g[1]
        BY <1>10, <4>1 DEF RenameTemp, Locked, Saving
      <4>3. ~missed[h[1]]
        BY <1>10, <3>2, <4>2 DEF RenameTemp, Missed
      <4>4. \A k \in Goroutines(h[1]) : pc'[k] = pc[k] /\ buf'[k] = buf[k]
        BY <1>10, <4>2 DEF RenameTemp, AfterSave, GoTo, Return
      <4>5. QED
        BY <1>10, <4>1, <4>3, <4>4 DEF RenameTemp, Follows
    <3>3. QED
      BY <3>1, <3>2 DEF Follows, CatchesUp, Saving
  <2>9. QED
    BY <2>1, <2>2, <2>3, <2>4, <2>5, <2>6, <2>7, <2>8 DEF IInv
<1>11. ASSUME NEW g \in Callers, SaveFails(g)
      PROVE  IInv'
  <2>1. TypeOK'
    BY <1>11 DEF SaveFails, TempName, Missed, AfterSave, GoTo, Return
  <2>2. JarFileIsWhole'
    BY <1>11 DEF SaveFails, TempName, Missed, AfterSave, GoTo, Return, JarFileIsWhole
  <2>3. HandedOut'
    BY <1>11 DEF SaveFails, TempName, Missed, AfterSave, GoTo, Return, HandedOut
  <2>4. DownIsIdle'
    BY <1>11 DEF SaveFails, TempName, Missed, AfterSave, GoTo, Return, DownIsIdle,
      Goroutines
  <2>5. Locked'
    BY <1>11 DEF SaveFails, TempName, Missed, AfterSave, GoTo, Return, Locked, Saving
  <2>6. Gone'
    BY <1>11 DEF SaveFails, TempName, Missed, AfterSave, GoTo, Return, Gone, Saving
  <2>7. Forward'
    BY <1>11 DEF SaveFails, TempName, Missed, AfterSave, GoTo, Return, Forward, Saving
  <2>8. Follows'
    <3>1. \A q \in writer' : running'[q] /\ ~missed'[q] /\ file'.exists =>
            file'.session = memory'[q] \/ \E h \in Goroutines(q) : CatchesUp(h)'
      BY <1>11 DEF SaveFails, TempName, Missed, AfterSave, GoTo, Return, Follows,
        Saving, CatchesUp, Goroutines
    <3>2. \A h \in Callers : pc'[h] \in Saving /\ ~missed'[h[1]] =>
            \/ buf'[h] = memory'[h[1]]
            \/ \E k \in Goroutines(h[1]) : pc'[k] \in {"save", "remove"}
      BY <1>11 DEF SaveFails, TempName, Missed, AfterSave, GoTo, Return, Follows,
        Saving, CatchesUp, Goroutines
    <3>3. QED
      BY <3>1, <3>2 DEF Follows, CatchesUp, Saving
  <2>9. QED
    BY <2>1, <2>2, <2>3, <2>4, <2>5, <2>6, <2>7, <2>8 DEF IInv
<1>12. ASSUME NEW g \in Callers, ReadCookies(g)
      PROVE  IInv'
  <2>1. TypeOK'
    BY <1>12 DEF ReadCookies, Read
  <2>2. JarFileIsWhole'
    BY <1>12 DEF ReadCookies, Read, JarFileIsWhole
  <2>3. HandedOut'
    BY <1>12 DEF ReadCookies, Read, HandedOut
  <2>4. DownIsIdle'
    BY <1>12 DEF ReadCookies, Read, DownIsIdle, Goroutines
  <2>5. Locked'
    BY <1>12 DEF ReadCookies, Read, Locked, Saving
  <2>6. Gone'
    BY <1>12 DEF ReadCookies, Read, Gone, Saving
  <2>7. Forward'
    BY <1>12 DEF ReadCookies, Read, Forward, Saving
  <2>8. Follows'
    BY <1>12, SMTT(20) DEF ReadCookies, Read, Follows, Saving, CatchesUp, Goroutines
  <2>9. QED
    BY <2>1, <2>2, <2>3, <2>4, <2>5, <2>6, <2>7, <2>8 DEF IInv
<1>13. ASSUME NEW g \in Callers, ExpireCookies(g)
      PROVE  IInv'
  <2>1. TypeOK'
    BY <1>13 DEF ExpireCookies, Forgotten, GoTo
  <2>2. JarFileIsWhole'
    BY <1>13 DEF ExpireCookies, Forgotten, GoTo, JarFileIsWhole
  <2>3. HandedOut'
    BY <1>13 DEF ExpireCookies, Forgotten, GoTo, HandedOut
  <2>4. DownIsIdle'
    BY <1>13 DEF ExpireCookies, Forgotten, GoTo, DownIsIdle, Goroutines
  <2>5. Locked'
    BY <1>13 DEF ExpireCookies, Forgotten, GoTo, Locked, Saving
  <2>6. Gone'
    BY <1>13 DEF ExpireCookies, Forgotten, GoTo, Gone, Saving
  <2>7. Forward'
    BY <1>13 DEF ExpireCookies, Forgotten, GoTo, Forward, Saving
  <2>8. Follows'
    <3>1. /\ g[1] \in Procs
          /\ pc'[g] = "remove"
          /\ pc[g] = "forget"
          /\ \A h \in Callers \ {g} : pc'[h] = pc[h]
          /\ \A q \in Procs \ {g[1]} : memory'[q] = memory[q]
          /\ UNCHANGED <<running, file, buf, writer, missed>>
      BY <1>13 DEF ExpireCookies, GoTo
    <3>2. ASSUME NEW q \in writer', running'[q], ~missed'[q], file'.exists,
                 file'.session # memory'[q]
          PROVE  \E h \in Goroutines(q) : CatchesUp(h)'
      <4>1. CASE q = g[1]
        BY <3>1, <4>1 DEF CatchesUp
      <4>2. CASE q # g[1]
        <5>1. PICK h \in Goroutines(q) : CatchesUp(h)
          BY <3>1, <3>2, <4>2 DEF Follows
        <5>2. QED
          BY <3>1, <4>2, <5>1 DEF CatchesUp
      <4>3. QED
        BY <4>1, <4>2
    <3>3. ASSUME NEW h \in Callers, pc'[h] \in Saving, ~missed'[h[1]], buf'[h] # memory'[h[1]]
          PROVE  \E k \in Goroutines(h[1]) : pc'[k] \in {"save", "remove"}
      <4>1. CASE h[1] = g[1]
        BY <3>1, <4>1
      <4>2. CASE h[1] # g[1]
        BY <3>1, <3>3, <4>2 DEF Follows, Saving
      <4>3. QED
        BY <4>1, <4>2
    <3>4. QED
      BY <3>2, <3>3 DEF Follows, CatchesUp, Saving
  <2>9. QED
    BY <2>1, <2>2, <2>3, <2>4, <2>5, <2>6, <2>7, <2>8 DEF IInv
<1>14. ASSUME NEW g \in Callers, RemoveJar(g)
      PROVE  IInv'
  <2>1. TypeOK'
    <3>1. \A x \in wiped' : x \in wiped \/ (x = buf[g] /\ x # 0)
      BY <1>14 DEF RemoveJar
    <3>2. /\ MaxSessions \in Nat
          /\ buf[g] \in 0 .. MaxSessions
          /\ wiped \subseteq 1 .. MaxSessions
      OBVIOUS
    <3>3. wiped' \subseteq 1 .. MaxSessions
      BY ONLY <3>1, <3>2, WipedBound, ZenonT(40)
    <3>4. file' \in Files /\ writer' \subseteq Procs
      BY <1>14 DEF RemoveJar
    <3>5. QED
      BY <1>14, <3>3, <3>4 DEF RemoveJar, Return
  <2>2. JarFileIsWhole'
    BY <1>14 DEF RemoveJar, Unlocked, HeldElsewhere, Return, JarFileIsWhole
  <2>3. HandedOut'
    <3>1. \A x \in wiped' : x \in wiped \/ (x = buf[g] /\ x # 0)
      BY <1>14 DEF RemoveJar
    <3>2. /\ sessions \in Nat
          /\ buf[g] \in 0 .. sessions
          /\ wiped \subseteq 1 .. sessions
      BY DEF HandedOut
    <3>3. wiped' \subseteq 1 .. sessions
      BY ONLY <3>1, <3>2, WipedBound, ZenonT(40)
    <3>4. QED
      BY <1>14, <3>3 DEF RemoveJar, Return, HandedOut
  <2>4. DownIsIdle'
    BY <1>14 DEF RemoveJar, Unlocked, HeldElsewhere, Return, DownIsIdle, Goroutines
  <2>5. Locked'
    BY <1>14 DEF RemoveJar, Unlocked, HeldElsewhere, Return, Locked, Saving
  <2>6. Gone'
    BY <1>14 DEF RemoveJar, Unlocked, HeldElsewhere, Return, Gone, Saving
  <2>7. Forward'
    BY <1>14 DEF RemoveJar, Unlocked, HeldElsewhere, Return, Forward, Saving
  <2>8. Follows'
    <3>1. \A q \in writer' : running'[q] /\ ~missed'[q] /\ file'.exists =>
            file'.session = memory'[q] \/ \E h \in Goroutines(q) : CatchesUp(h)'
      BY <1>14 DEF RemoveJar, Unlocked, HeldElsewhere, Return, Follows, Saving,
        CatchesUp, Goroutines
    <3>2. \A h \in Callers : pc'[h] \in Saving /\ ~missed'[h[1]] =>
            \/ buf'[h] = memory'[h[1]]
            \/ \E k \in Goroutines(h[1]) : pc'[k] \in {"save", "remove"}
      BY <1>14 DEF RemoveJar, Unlocked, HeldElsewhere, Return, Follows, Saving,
        CatchesUp, Goroutines
    <3>3. QED
      BY <3>1, <3>2 DEF Follows, CatchesUp, Saving
  <2>9. QED
    BY <2>1, <2>2, <2>3, <2>4, <2>5, <2>6, <2>7, <2>8 DEF IInv
<1>15. ASSUME NEW g \in Callers, RemoveFails(g)
      PROVE  IInv'
  <2>1. TypeOK'
    BY <1>15 DEF RemoveFails, Unlocked, Missed, Return
  <2>2. JarFileIsWhole'
    BY <1>15 DEF RemoveFails, Unlocked, Missed, Return, JarFileIsWhole
  <2>3. HandedOut'
    BY <1>15 DEF RemoveFails, Unlocked, Missed, Return, HandedOut
  <2>4. DownIsIdle'
    BY <1>15 DEF RemoveFails, Unlocked, Missed, Return, DownIsIdle, Goroutines
  <2>5. Locked'
    BY <1>15 DEF RemoveFails, Unlocked, Missed, Return, Locked, Saving
  <2>6. Gone'
    BY <1>15 DEF RemoveFails, Unlocked, Missed, Return, Gone, Saving
  <2>7. Forward'
    BY <1>15 DEF RemoveFails, Unlocked, Missed, Return, Forward, Saving
  <2>8. Follows'
    <3>1. \A q \in writer' : running'[q] /\ ~missed'[q] /\ file'.exists =>
            file'.session = memory'[q] \/ \E h \in Goroutines(q) : CatchesUp(h)'
      BY <1>15 DEF RemoveFails, Unlocked, Missed, Return, Follows, Saving, CatchesUp,
        Goroutines
    <3>2. \A h \in Callers : pc'[h] \in Saving /\ ~missed'[h[1]] =>
            \/ buf'[h] = memory'[h[1]]
            \/ \E k \in Goroutines(h[1]) : pc'[k] \in {"save", "remove"}
      BY <1>15 DEF RemoveFails, Unlocked, Missed, Return, Follows, Saving, CatchesUp,
        Goroutines
    <3>3. QED
      BY <3>1, <3>2 DEF Follows, CatchesUp, Saving
  <2>9. QED
    BY <2>1, <2>2, <2>3, <2>4, <2>5, <2>6, <2>7, <2>8 DEF IInv
<1>16. CASE UNCHANGED vars
  BY <1>16 DEF vars, JarFileIsWhole, HandedOut, DownIsIdle, Locked, Gone, Forward,
    Follows, Saving, CatchesUp, Goroutines
<1>17. QED
  BY <1>1, <1>2, <1>3, <1>4, <1>5, <1>6, <1>7, <1>8, <1>9, <1>10, <1>11, <1>12, <1>13,
    <1>14, <1>15, <1>16 DEF Next

-----------------------------------------------------------------------------

(* The invariant of the jar: types, whole files, the lock, the places where *)
(* a wiped session is not, and the order of the sessions that are saved.    *)
THEOREM JarInvariant == Spec => []IInv
<1>1. Init => IInv
  <2> SUFFICES ASSUME Init PROVE IInv
    OBVIOUS
  <2> USE CookieJarAssumption DEF Init, Absent
  <2>1. TypeOK
    BY DEF TypeOK, Files
  <2>2. JarFileIsWhole /\ HandedOut
    BY DEF JarFileIsWhole, HandedOut
  <2>3. DownIsIdle /\ Locked /\ Gone /\ Forward /\ Follows
    BY DEF DownIsIdle, Goroutines, Locked, Saving, Gone, Forward, Follows
  <2>4. QED
    BY <2>1, <2>2, <2>3 DEF IInv
<1>2. QED
  BY <1>1, InvStep, PTL DEF Spec

(* Whoever reads the jar file finds a whole snapshot, whatever processes    *)
(* save, wipe and die.                                                      *)
THEOREM JarFileStaysWhole == Spec => []JarFileIsWhole
<1>1. IInv => JarFileIsWhole
  BY DEF IInv
<1>2. QED
  BY <1>1, JarInvariant, PTL

(* A session that Logout has wiped, and no other process held, is not in    *)
(* the file again.                                                          *)
THEOREM WipedSessionsStayGone == Spec => []WipedStaysWiped
<1>1. IInv => WipedStaysWiped
  BY DEF IInv, Gone, WipedStaysWiped
<1>2. QED
  BY <1>1, JarInvariant, PTL

(* A process at rest that changed the file last has in it what it has in    *)
(* memory, unless a save, a removal or a body failed.                       *)
THEOREM FileFollowsMemory == Spec => []FileKeepsUp
<1>1. IInv => FileKeepsUp
  <2> SUFFICES ASSUME IInv, NEW p \in writer, running[p], ~missed[p], file.exists,
                      \A g \in Goroutines(p) : pc[g] \in {"idle", "sent"}
               PROVE  file.session = memory[p]
    BY DEF FileKeepsUp
  <2>1. ~ \E g \in Goroutines(p) : CatchesUp(g)
    BY DEF CatchesUp, Saving
  <2>2. QED
    BY <2>1 DEF IInv, Follows
<1>2. QED
  BY <1>1, JarInvariant, PTL

(* A process never saves a session older than the one it saved last.        *)
THEOREM SavesOnlyMoveForward == Spec => SavesMoveForward
<1> DEFINE Onward == \A p \in Procs : running'[p] => saved'[p] >= saved[p]
<1>1. IInv /\ [Next]_vars => [Onward]_saved
  <2> SUFFICES ASSUME IInv, Next, saved' # saved PROVE Onward
    BY DEF vars, history
  <2>1. ASSUME NEW g \in Callers, RenameTemp(g) PROVE Onward
    <3>1. pc[g] = "rename" /\ g[1] \in Procs
      BY <2>1, CookieJarAssumption DEF RenameTemp
    <3>2. buf[g] = 0 \/ buf[g] >= saved[g[1]]
      BY <3>1 DEF IInv, Forward, Saving
    <3>3. saved \in [Procs -> Int]
      BY CookieJarAssumption DEF IInv, TypeOK
    <3>4. QED
      BY <2>1, <3>1, <3>2, <3>3 DEF RenameTemp
  <2>2. ASSUME NEW q \in Procs, Crash(q) PROVE Onward
    <3>1. saved \in [Procs -> Int]
      BY CookieJarAssumption DEF IInv, TypeOK
    <3>2. ~running'[q]
      BY <2>2 DEF Crash, IInv, TypeOK
    <3>3. QED
      BY <2>2, <3>1, <3>2 DEF Crash
  <2>3. QED
    BY <2>1, <2>2 DEF Next, history, NewClient, Send, Answer, NewSession, BodyLost,
      NetworkError, LockJar, CreateTemp, WriteTemp, SaveFails, ReadCookies, ExpireCookies,
      RemoveJar, RemoveFails
<1>2. QED
  BY <1>1, JarInvariant, PTL DEF Spec, SavesMoveForward

=============================================================================
