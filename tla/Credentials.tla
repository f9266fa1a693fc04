----------------------------- MODULE Credentials -----------------------------
(* AuthStorage (core/auth-storage.ts) and its FileAuthStorageBackend: pi    *)
(* processes share auth.json.  An expired OAuth token is exchanged for a    *)
(* new one at its provider, which takes a refresh token only once, while    *)
(* the file is locked; the other changes lock, read and write the file      *)
(* in one synchronous stretch, and fail when the lock is taken.             *)
(*                                                                          *)
(* A credential is a number, 0 for none.  The clock is the set of expired   *)
(* credentials: an API key is one that never expires.                       *)
EXTENDS Naturals

CONSTANTS
    Procs, Providers,
    CallsPerProc,   \* calls of getApiKey a process may have under way
    Nil, Dead,      \* no call; a call whose process has died
    Broken,         \* auth.json when it is no JSON
    Faults,         \* what may happen besides, once: subset of FaultKinds
    MaxTries,       \* attempts to get the lock: 11 in the code
    MaxTokens       \* bound: credentials ever issued

FaultKinds == {"takeover", "crash", "answerLost", "clash"}

ASSUME FaultsAssumption == Faults \subseteq FaultKinds
(* A call: its process and a number.                                        *)
Calls == Procs \X (1 .. CallsPerProc)
ProcOf(c) == c[1]

ASSUME NamesAssumption == Nil \notin Calls /\ Dead \notin Calls /\ Nil # Dead
ASSUME BoundsAssumption == CallsPerProc \in Nat /\ MaxTries \in Nat \ {0} /\ MaxTokens \in Nat
ASSUME BrokenAssumption == Broken \notin [Providers -> Nat]

VARIABLES
    file,           \* auth.json
    lock,           \* the call that holds the file's lock, Dead or Nil
    alive,          \* alive[p]: the process runs
    data,           \* data[p]: AuthStorage.data
    loadError,      \* loadError[p]: the last reload failed
    call,           \* call[c]: where the call is, and its locals: the provider it
                    \* is about, failed attempts to get the lock, currentData as
                    \* read under the lock, the provider's new credential,
                    \* lockCompromised
    issued,         \* number of credentials issued
    expired,        \* credentials whose time is over
    spent,          \* credentials exchanged at the provider
    happened        \* what the properties make exceptions for

vars == <<file, lock, alive, data, loadError, call, issued, expired, spent, happened>>

tokenVars == <<issued, expired, spent>>

Tokens == 0 .. MaxTokens
NoData == [q \in Providers |-> 0]
Idle == [at |-> "idle", prov |-> Nil, tries |-> 0, seen |-> NoData, reply |-> 0, compromised |-> FALSE]
CallStates == [at : {"idle", "locking", "asking", "answered"}, prov : Providers \cup {Nil},
               tries : 0 .. MaxTries - 1, seen : [Providers -> Tokens], reply : Tokens, compromised : BOOLEAN]

TypeOK ==
    /\ file \in [Providers -> Tokens] \cup {Broken}
    /\ lock \in Calls \cup {Nil, Dead}
    /\ alive \in [Procs -> BOOLEAN]
    /\ data \in [Procs -> [Providers -> Tokens]]
    /\ loadError \in [Procs -> BOOLEAN]
    /\ call \in [Calls -> CallStates]
    /\ \A c \in Calls : call[c].at # "idle" => call[c].prov \in Providers
    /\ issued \in Tokens
    /\ expired \subseteq Tokens
    /\ spent \subseteq Tokens
    /\ happened \subseteq FaultKinds

Init ==
    /\ file = NoData
    /\ lock = Nil
    /\ alive = [p \in Procs |-> TRUE]
    /\ data = [p \in Procs |-> NoData]
    /\ loadError = [p \in Procs |-> FALSE]
    /\ call = [c \in Calls |-> Idle]
    /\ issued = 0 /\ expired = {} /\ spent = {}
    /\ happened = {}

-----------------------------------------------------------------------------
MayHappen(fault) == fault \in Faults /\ happened = {}

(* The lock can be taken: nobody has it, or its holder, long without an     *)
(* update of the lock, looks dead to proper-lockfile.                       *)
LockIsFree == lock = Nil \/ (lock \in Calls /\ MayHappen("takeover"))
TakingOver == IF lock \in Calls THEN happened \cup {"takeover"} ELSE happened

(* withLock(fn) of process p: a synchronous stretch.  It fails when the     *)
(* lock is taken, by a call or by another process's synchronous stretch.    *)
Synchronous == LockIsFree /\ lock' = Nil /\ happened' = TakingOver
SynchronousFails == (lock # Nil \/ MayHappen("clash")) /\ UNCHANGED lock
                    /\ happened' = IF lock = Nil THEN happened \cup {"clash"} ELSE happened

(* reload(): what is in memory stays when the file cannot be had.           *)
Reloads(p, memory) ==
    \/ /\ Synchronous
       /\ data' = [data EXCEPT ![p] = IF file = Broken THEN memory ELSE file]
       /\ loadError' = [loadError EXCEPT ![p] = (file = Broken)]
    \/ /\ SynchronousFails
       /\ data' = [data EXCEPT ![p] = memory]
       /\ loadError' = [loadError EXCEPT ![p] = TRUE]

Start(p) ==
    /\ ~alive[p]
    /\ alive' = [alive EXCEPT ![p] = TRUE]
    /\ Reloads(p, NoData)
    /\ UNCHANGED <<file, call, tokenVars>>

Reload(p) == alive[p] /\ Reloads(p, data[p]) /\ UNCHANGED <<file, alive, call, tokenVars>>

(* set and remove: the memory at once, and persistProviderChange, which     *)
(* does nothing after a failed load and drops the change, but for an        *)
(* error in a list, when it cannot have the file.                           *)
Change(p, q, token) ==
    /\ alive[p]
    /\ data' = [data EXCEPT ![p][q] = token]
    /\ \/ /\ ~loadError[p] /\ Synchronous
          /\ file' = IF file = Broken THEN Broken ELSE [file EXCEPT ![q] = token]
       \/ ~loadError[p] /\ SynchronousFails /\ UNCHANGED file
       \/ loadError[p] /\ UNCHANGED <<file, lock, happened>>
    /\ UNCHANGED <<alive, loadError, call, expired, spent>>

Login(p, q) == issued < MaxTokens /\ issued' = issued + 1 /\ Change(p, q, issued + 1)
Logout(p, q) == data[p][q] # 0 /\ Change(p, q, 0) /\ UNCHANGED issued

-----------------------------------------------------------------------------
(* getApiKey, when the credential in memory has expired; otherwise it is    *)
(* returned and nothing changes.                                            *)
GetApiKey(c, q) ==
    /\ alive[ProcOf(c)] /\ call[c].at = "idle"
    /\ data[ProcOf(c)][q] \in expired
    /\ call' = [call EXCEPT ![c] = [Idle EXCEPT !.at = "locking", !.prov = q]]
    /\ UNCHANGED <<file, lock, alive, data, loadError, tokenVars, happened>>

(* Mutant: the refresh is decided on what the process has in memory.        *)
CurrentDataInMemory(c) == data[ProcOf(c)]

CurrentData(c) == file

(* Under the lock: is the credential in the file one to refresh?            *)
NeedsRefresh(c) == CurrentData(c)[call[c].prov] \in expired

(* withLockAsync gets the lock and reads the file, and its function finds   *)
(* that nothing is to be refreshed, or asks the provider.                   *)
Acquire(c) ==
    /\ call[c].at = "locking" /\ LockIsFree /\ file # Broken
    /\ data' = [data EXCEPT ![ProcOf(c)] = file]
    /\ loadError' = [loadError EXCEPT ![ProcOf(c)] = FALSE]
    /\ happened' = TakingOver
    /\ IF NeedsRefresh(c)
       THEN lock' = c /\ call' = [call EXCEPT ![c].at = "asking", ![c].seen = CurrentData(c)]
       ELSE lock' = Nil /\ call' = [call EXCEPT ![c] = Idle]
    /\ UNCHANGED <<file, alive, tokenVars>>

(* The function, or the lock, fails: what is left of the call is its catch  *)
(* clause, which reloads.                                                   *)
GivesUp(c, memory) == call' = [call EXCEPT ![c] = Idle] /\ Reloads(ProcOf(c), memory)

(* An attempt that finds the lock taken; or the lock is had, but the file   *)
(* does not parse.                                                          *)
Fail(c) ==
    /\ call[c].at = "locking"
    /\ \/ /\ call[c].tries + 1 < MaxTries
          /\ call' = [call EXCEPT ![c].tries = call[c].tries + 1]
          /\ UNCHANGED <<lock, data, loadError, happened>>
       \/ /\ call[c].tries + 1 >= MaxTries \/ (LockIsFree /\ file = Broken)
          /\ GivesUp(c, data[ProcOf(c)])
    /\ UNCHANGED <<file, alive, tokenVars>>

(* The credential whose refresh token the call sends.                       *)
Refreshed(c) == call[c].seen[call[c].prov]

(* The provider takes the refresh token and sends a new credential.         *)
Exchange(c) ==
    /\ call[c].at = "asking" /\ issued < MaxTokens
    /\ issued' = issued + 1
    /\ spent' = spent \cup {Refreshed(c)}
    /\ call' = [call EXCEPT ![c].at = "answered", ![c].reply = issued + 1]
    /\ UNCHANGED <<file, lock, alive, data, loadError, expired, happened>>

(* Giving the lock up: release() removes it, whoever holds it by then,      *)
(* unless this call knows that it has lost it.                              *)
Released(c) == IF call[c].compromised THEN lock ELSE Nil

(* The request fails, at the provider or on the way back.                   *)
RefreshFails(c) ==
    /\ call[c].at = "asking" \/ (call[c].at = "answered" /\ MayHappen("answerLost"))
    /\ call' = [call EXCEPT ![c] = Idle]
    /\ \/ /\ data' = [data EXCEPT ![ProcOf(c)] = IF file = Broken THEN @ ELSE file]
          /\ loadError' = [loadError EXCEPT ![ProcOf(c)] = file = Broken]
       \/ loadError' = [loadError EXCEPT ![ProcOf(c)] = TRUE] /\ UNCHANGED data
    /\ lock' = Released(c)
    /\ happened' = IF call[c].at = "answered" THEN happened \cup {"answerLost"} ELSE happened
    /\ UNCHANGED <<file, alive, tokenVars>>

(* Mutant: merged is built from what the process has in memory.             *)
MergedInMemory(c) == [data[ProcOf(c)] EXCEPT ![call[c].prov] = call[c].reply]

Merged(c) == [call[c].seen EXCEPT ![call[c].prov] = call[c].reply]

(* The rest of the refresh: memory, file, release.                          *)
Write(c) ==
    /\ call[c].at = "answered" /\ ~call[c].compromised
    /\ data' = [data EXCEPT ![ProcOf(c)] = Merged(c)]
    /\ loadError' = [loadError EXCEPT ![ProcOf(c)] = FALSE]
    /\ file' = Merged(c)
    /\ lock' = Released(c)
    /\ call' = [call EXCEPT ![c] = Idle]
    /\ UNCHANGED <<alive, tokenVars, happened>>

(* The lock was lost: the new credential, in memory already, is not         *)
(* written, and forgotten when the file can be read.                        *)
WriteRefused(c) ==
    /\ call[c].at = "answered" /\ call[c].compromised
    /\ GivesUp(c, Merged(c))
    /\ UNCHANGED <<file, alive, tokenVars>>

-----------------------------------------------------------------------------
(* proper-lockfile finds, when it is time to update the lock, that it has   *)
(* gone to somebody else, or that it is late itself, for one because the    *)
(* machine slept: then the lock is left to expire.                          *)
OnCompromised(c) ==
    /\ call[c].at \in {"asking", "answered"}
    /\ call' = [call EXCEPT ![c].compromised = TRUE]
    /\ \/ lock # c /\ UNCHANGED <<lock, happened>>
       \/ lock = c /\ MayHappen("takeover") /\ lock' = Dead /\ happened' = happened \cup {"takeover"}
    /\ UNCHANGED <<file, alive, data, loadError, tokenVars>>

LockExpires ==
    /\ lock = Dead /\ lock' = Nil
    /\ UNCHANGED <<file, alive, data, loadError, call, tokenVars, happened>>

(* A process dies, perhaps in the middle of writing the file.               *)
Crash(p) ==
    LET mine == {c \in Calls : ProcOf(c) = p} IN
    /\ MayHappen("crash") /\ alive[p]
    /\ alive' = [alive EXCEPT ![p] = FALSE]
    /\ call' = [c \in Calls |-> IF c \in mine THEN Idle ELSE call[c]]
    /\ data' = [data EXCEPT ![p] = NoData]
    /\ loadError' = [loadError EXCEPT ![p] = FALSE]
    /\ \/ lock' = (IF lock \in mine THEN Dead ELSE lock) /\ UNCHANGED file
       \/ lock \in mine \cup {Nil} /\ lock' = Dead /\ file' = Broken
    /\ happened' = happened \cup {"crash"}
    /\ UNCHANGED tokenVars

(* Time passes: a credential that somebody still has expires.               *)
Expire(token) ==
    /\ token \in 1 .. issued /\ token \notin expired
    /\ \E q \in Providers : (file # Broken /\ file[q] = token) \/ \E p \in Procs : data[p][q] = token
    /\ expired' = expired \cup {token}
    /\ UNCHANGED <<file, lock, alive, data, loadError, call, issued, spent, happened>>

Work(c) == Acquire(c) \/ Fail(c) \/ Write(c) \/ WriteRefused(c)

Next ==
    \/ \E p \in Procs : Start(p) \/ Reload(p) \/ Crash(p)
    \/ \E p \in Procs, q \in Providers : Login(p, q) \/ Logout(p, q)
    \/ \E c \in Calls, q \in Providers : GetApiKey(c, q)
    \/ \E c \in Calls : Work(c) \/ Exchange(c) \/ RefreshFails(c) \/ OnCompromised(c)
    \/ LockExpires
    \/ \E token \in Tokens : Expire(token)

Spec == Init /\ [][Next]_vars

-----------------------------------------------------------------------------
(* However many processes find the same credential expired, its refresh     *)
(* token goes to the provider once.  Exceptions: a lock lost by a holder    *)
(* that lives, a process that dies between the provider's answer     *)
(* and the write, an answer that never arrives.                             *)
RefreshOnce ==
    happened \subseteq {"clash"} => \A c \in Calls : call[c].at = "asking" => Refreshed(c) \notin spent

(* The write after a refresh replaces, in the file as it is by then, the    *)
(* credential that was exchanged and nothing else: a login or logout that   *)
(* was saved while the provider was asked is not undone.  Exception: the    *)
(* lock was taken over, or the file broken by a crash.                      *)
RefreshKeepsOthers ==
    [][\A c \in Calls : Write(c) /\ happened \subseteq {"clash"} =>
        /\ file[call[c].prov] = Refreshed(c)
        /\ \A q \in Providers \ {call[c].prov} : file'[q] = file[q]]_vars
=============================================================================
