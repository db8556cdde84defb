----------------------------- MODULE CookieJar -----------------------------
(***************************************************************************)
(* The session cookie of pkg/brainapi: in the memory of each Client, and   *)
(* in the jar file its processes share (tlsHTTP.do, loadJar, saveJar,      *)
(* clearJar, and the Login and Logout around them).  A jar is written to a *)
(* temporary file and renamed into place; a process may die at any step.   *)
(*                                                                         *)
(* Cookies are abstracted to the session they stand for: 0 is no cookie,   *)
(* and sessions are numbered in the order BRAIN hands them out.  The jar   *)
(* in memory belongs to tls-client: it sets a cookie as an answer's header *)
(* arrives, and forgets one that is set again with a date in the past.     *)
(***************************************************************************)
EXTENDS Integers

CONSTANTS
  Procs,        \* processes with one Client each, on the same CookieJarPath
  Callers,      \* their goroutines: pairs of a process and a name
  MaxSessions,  \* bound: sessions BRAIN hands out
  MaxCrashes    \* bound: processes that die

ASSUME CookieJarAssumption ==
  /\ \A g \in Callers : g[1] \in Procs
  /\ MaxSessions \in Nat
  /\ MaxCrashes \in Nat

VARIABLES
  running,   \* the process has a Client
  memory,    \* the session of its jar in memory
  file,      \* the jar file: absent, or a snapshot and whether it is whole
  tmp,       \* the temporary files that exist
  pc,        \* where each goroutine is
  request,   \* what it asks BRAIN: "get", "login" or "logout"
  buf,       \* the cookies it has read from the jar in memory
  sessions,  \* history: sessions handed out
  wiped,     \* history: sessions a Logout has wiped, file and all
  writer,    \* history: the processes that changed the file last (one, or none)
  saved,     \* history: the session each running process has saved last
  missed,    \* history: its memory has a session the file has missed
  crashes    \* history: processes that died

goroutine == <<pc, request, buf>>
history == <<sessions, wiped, writer, saved, missed, crashes>>
vars == <<running, memory, file, tmp, goroutine, history>>

Absent == [session |-> 0, whole |-> TRUE, exists |-> FALSE]
Snapshot(s, w) == [session |-> s, whole |-> w, exists |-> TRUE]

Goroutines(p) == {g \in Callers : g[1] = p}

-----------------------------------------------------------------------------

TempName_Fixed(g) == CHOOSE d \in Callers : TRUE

(* CreateTemp's pattern makes the name unique.                              *)
TempName(g) == g

Init ==
  /\ running = [p \in Procs |-> FALSE]
  /\ memory = [p \in Procs |-> 0]
  /\ file = Absent
  /\ tmp = [d \in Callers |-> Absent]
  /\ pc = [d \in Callers |-> "idle"]
  /\ request = [d \in Callers |-> "get"]
  /\ buf = [d \in Callers |-> 0]
  /\ sessions = 0
  /\ wiped = {}
  /\ writer = {}
  /\ saved = [p \in Procs |-> 0]
  /\ missed = [p \in Procs |-> FALSE]
  /\ crashes = 0

GoTo(g, label) ==
  /\ pc' = [pc EXCEPT ![g] = label]
  /\ UNCHANGED <<request, buf>>

Read(g, label) ==
  /\ pc' = [pc EXCEPT ![g] = label]
  /\ buf' = [buf EXCEPT ![g] = memory[g[1]]]
  /\ UNCHANGED request

(* The method returns.                                                      *)
Return(gs) ==
  /\ pc' = [d \in Callers |-> IF d \in gs THEN "idle" ELSE pc[d]]
  /\ request' = [d \in Callers |-> IF d \in gs THEN "get" ELSE request[d]]
  /\ buf' = [d \in Callers |-> IF d \in gs THEN 0 ELSE buf[d]]

Missed(g, b) == missed' = [missed EXCEPT ![g[1]] = b]

(* NewClient: loadJar takes a file that decodes.                            *)
NewClient(p) ==
  /\ ~running[p]
  /\ running' = [running EXCEPT ![p] = TRUE]
  /\ memory' = [memory EXCEPT ![p] = IF file.whole THEN file.session ELSE 0]
  /\ UNCHANGED <<file, tmp, goroutine, history>>

(* A request is "login" or "logout" if it succeeds: an answer that is an    *)
(* error does to the jar what any answer does, and counts as "get".         *)
Send(g, r) ==
  /\ running[g[1]]
  /\ pc[g] = "idle"
  /\ pc' = [pc EXCEPT ![g] = "sent"]
  /\ request' = [request EXCEPT ![g] = r]
  /\ UNCHANGED <<running, memory, file, tmp, buf, history>>

(* client.Do: the answer to a login carries a new session.                  *)
NewSession(g) ==
  IF request[g] = "login"
  THEN /\ sessions < MaxSessions
       /\ sessions' = sessions + 1
       /\ memory' = [memory EXCEPT ![g[1]] = sessions']
  ELSE UNCHANGED <<sessions, memory>>

Answer(g) ==
  /\ pc[g] = "sent"
  /\ NewSession(g)
  /\ GoTo(g, "save")
  /\ UNCHANGED <<running, file, tmp, wiped, writer, saved, missed, crashes>>

(* The answer's headers came, its body did not: nothing is saved.           *)
BodyLost(g) ==
  /\ pc[g] = "sent"
  /\ NewSession(g)
  /\ Missed(g, missed[g[1]] \/ request[g] = "login")
  /\ Return({g})
  /\ UNCHANGED <<running, file, tmp, wiped, writer, saved, crashes>>

NetworkError(g) ==
  /\ pc[g] = "sent"
  /\ Return({g})
  /\ UNCHANGED <<running, memory, file, tmp, history>>

-----------------------------------------------------------------------------
(* saveJar                                                                  *)

Unlocked_Always(p) == TRUE

(* saveMu of the process is free.                                           *)
Unlocked(p) == \A g \in Goroutines(p) : pc[g] \notin {"create", "write", "rename"}

(* saveMu.Lock, then jar.Cookies.                                           *)
LockJar(g) ==
  /\ pc[g] = "save"
  /\ Unlocked(g[1])
  /\ Read(g, "create")
  /\ UNCHANGED <<running, memory, file, tmp, history>>

CreateTemp(g) ==
  /\ pc[g] = "create"
  /\ tmp' = [tmp EXCEPT ![TempName(g)] = Snapshot(buf[g], FALSE)]
  /\ GoTo(g, "write")
  /\ UNCHANGED <<running, memory, file, history>>

WriteTemp(g) ==
  /\ pc[g] = "write"
  /\ tmp' = [tmp EXCEPT ![TempName(g)] = Snapshot(buf[g], TRUE)]
  /\ GoTo(g, "rename")
  /\ UNCHANGED <<running, memory, file, history>>

(* What follows the request: Logout wipes the session.                      *)
AfterSave(g) == IF request[g] = "logout" THEN GoTo(g, "expire") ELSE Return({g})

RenameTemp(g) ==
  /\ pc[g] = "rename"
  /\ tmp[TempName(g)].exists
  /\ file' = tmp[TempName(g)]
  /\ tmp' = [tmp EXCEPT ![TempName(g)] = Absent]
  /\ writer' = {g[1]}
  /\ saved' = [saved EXCEPT ![g[1]] = IF buf[g] = 0 THEN @ ELSE buf[g]]
  /\ Missed(g, missed[g[1]] /\ buf[g] # memory[g[1]])
  /\ AfterSave(g)
  /\ UNCHANGED <<running, memory, sessions, wiped, crashes>>

(* An error of the file system at any step: the temporary file is removed,  *)
(* and the request goes on without a saved jar.                             *)
SaveFails(g) ==
  /\ pc[g] \in {"create", "write", "rename"}
  /\ tmp' = [tmp EXCEPT ![TempName(g)] = Absent]
  /\ Missed(g, TRUE)
  /\ AfterSave(g)
  /\ UNCHANGED <<running, memory, file, sessions, wiped, writer, saved, crashes>>

-----------------------------------------------------------------------------
(* clearJar                                                                 *)

(* jar.Cookies: what is to be expired.                                      *)
ReadCookies(g) ==
  /\ pc[g] = "expire"
  /\ Read(g, IF memory[g[1]] = 0 THEN "remove" ELSE "forget")
  /\ UNCHANGED <<running, memory, file, tmp, history>>

Forgotten_Kept(p) == memory[p]

(* The jar forgets the cookie by its name, whatever its value is by now.    *)
Forgotten(p) == 0

ExpireCookies(g) ==
  /\ pc[g] = "forget"
  /\ memory' = [memory EXCEPT ![g[1]] = Forgotten(g[1])]
  /\ GoTo(g, "remove")
  /\ UNCHANGED <<running, file, tmp, history>>

(* What the other processes on the file hold of a session.                  *)
HeldElsewhere(p) ==
  {memory[q] : q \in Procs \ {p}} \cup {buf[g] : g \in Callers \ Goroutines(p)}

(* os.Remove of the jar file, under saveMu.                                 *)
RemoveJar(g) ==
  /\ pc[g] = "remove"
  /\ Unlocked(g[1])
  /\ file' = Absent
  /\ wiped' = wiped \cup ({buf[g]} \ ({0} \cup HeldElsewhere(g[1])))
  /\ writer' = {g[1]}
  /\ Return({g})
  /\ UNCHANGED <<running, memory, tmp, sessions, saved, missed, crashes>>

(* os.Remove fails: a warning.                                              *)
RemoveFails(g) ==
  /\ pc[g] = "remove"
  /\ Unlocked(g[1])
  /\ Missed(g, TRUE)
  /\ Return({g})
  /\ UNCHANGED <<running, memory, file, tmp, sessions, wiped, writer, saved, crashes>>

(* The process dies; its temporary files stay.                              *)
Crash(p) ==
  /\ running[p]
  /\ crashes < MaxCrashes
  /\ crashes' = crashes + 1
  /\ running' = [running EXCEPT ![p] = FALSE]
  /\ memory' = [memory EXCEPT ![p] = 0]
  /\ saved' = [saved EXCEPT ![p] = 0]
  /\ missed' = [missed EXCEPT ![p] = FALSE]
  /\ Return(Goroutines(p))
  /\ UNCHANGED <<file, tmp, sessions, wiped, writer>>

Next ==
  \/ \E p \in Procs : NewClient(p) \/ Crash(p)
  \/ \E g \in Callers :
       \/ \E r \in {"get", "login", "logout"} : Send(g, r)
       \/ Answer(g)
       \/ BodyLost(g)
       \/ NetworkError(g)
       \/ LockJar(g)
       \/ CreateTemp(g)
       \/ WriteTemp(g)
       \/ RenameTemp(g)
       \/ SaveFails(g)
       \/ ReadCookies(g)
       \/ ExpireCookies(g)
       \/ RemoveJar(g)
       \/ RemoveFails(g)

Spec == Init /\ [][Next]_vars

-----------------------------------------------------------------------------
(* Properties                                                               *)

Files == [session : 0 .. MaxSessions, whole : BOOLEAN, exists : BOOLEAN]

TypeOK ==
  /\ running \in [Procs -> BOOLEAN]
  /\ memory \in [Procs -> 0 .. MaxSessions]
  /\ file \in Files
  /\ tmp \in [Callers -> Files]
  /\ pc \in [Callers -> {"idle", "sent", "save", "create", "write", "rename",
                         "expire", "forget", "remove"}]
  /\ request \in [Callers -> {"get", "login", "logout"}]
  /\ buf \in [Callers -> 0 .. MaxSessions]
  /\ sessions \in 0 .. MaxSessions
  /\ wiped \subseteq 1 .. MaxSessions
  /\ writer \subseteq Procs
  /\ saved \in [Procs -> 0 .. MaxSessions]
  /\ missed \in [Procs -> BOOLEAN]
  /\ crashes \in 0 .. MaxCrashes

(* Whoever reads the jar file, at whatever moment, finds a whole snapshot:  *)
(* neither another process in the middle of a save nor a crash shows.       *)
JarFileIsWhole == file.whole

(* Once Logout has removed the file, a session that no other process held   *)
(* is gone for good: no save that was under way puts it back into the       *)
(* file, and no restart loads it again.                                     *)
WipedStaysWiped == file.session \notin wiped

(* What one process saves moves forward: it never replaces the session it   *)
(* saved last by an older one, however its goroutines' answers and saves    *)
(* interleave.  (Another process may: it has an older session in memory.)   *)
SavesMoveForward == [][\A p \in Procs : running'[p] => saved'[p] >= saved[p]]_saved

(* When no save or wipe of the process that changed the file last is under  *)
(* way, the file, if there is one, holds what its memory holds, but for a   *)
(* save, a removal or a body that failed: no order of answers, saves and    *)
(* wipes of concurrent goroutines leaves the two apart.  (A Logout may      *)
(* remove the file a concurrent Login has saved; the new session then lives *)
(* in memory until the next save.)                                          *)
FileKeepsUp ==
  \A p \in writer :
    /\ running[p] /\ ~missed[p] /\ file.exists
    /\ \A g \in Goroutines(p) : pc[g] \in {"idle", "sent"}
    => file.session = memory[p]

=============================================================================
