-------------------------- MODULE CredentialsProofs --------------------------
(* What Credentials promises, for any number of processes, providers, calls *)
(* and credentials: the types of its variables, that a refresh token goes   *)
(* to its provider once, and that the write after a refresh undoes nobody's *)
(* change.                                                                  *)
EXTENDS Credentials, TLAPS

(* The lock's holder, from taking it to the write.                          *)
Holding(c) == call[c].at \in {"asking", "answered"}

(* Nothing was taken over, lost or killed.                                  *)
Orderly == happened \subseteq {"clash"}

(* What anybody has was issued, so that the next credential is a new one.   *)
OnlyIssued ==
    /\ file # Broken => \A q \in Providers : file[q] <= issued
    /\ \A p \in Procs, q \in Providers : data[p][q] <= issued
    /\ \A c \in Calls, q \in Providers : call[c].seen[q] <= issued
    /\ \A c \in Calls : call[c].reply <= issued
    /\ spent \subseteq 1 .. issued
    /\ expired \subseteq 1 .. issued

(* A holder's call is about a credential, and its answer is a newer one     *)
(* than any it has read.  Only a holder can lose the lock.                  *)
AsksForOne ==
    \A c \in Calls :
        /\ ~Holding(c) => ~call[c].compromised
        /\ Holding(c) => call[c].seen[call[c].prov] # 0
        /\ call[c].at = "answered" => \A q \in Providers : call[c].seen[q] < call[c].reply

(* While a call holds the lock the file is what it has read.                *)
LockProtects ==
    Orderly => \A c \in Calls : Holding(c) => /\ lock = c
                                              /\ file = call[c].seen
                                              /\ ~call[c].compromised

(* A spent credential is only left in the file while its successor waits to *)
(* be written there, and no credential is in the file twice.                *)
SpentGoes ==
    Orderly =>
        /\ file # Broken => \A q \in Providers :
            /\ file[q] \in spent => \E c \in Calls : call[c].at = "answered" /\ call[c].prov = q
            /\ \A r \in Providers : file[q] = file[r] => q = r \/ file[q] = 0
        /\ \A c \in Calls : call[c].at = "answered" => call[c].reply \notin spent

Inv == TypeOK /\ OnlyIssued /\ AsksForOne /\ LockProtects /\ SpentGoes

-----------------------------------------------------------------------------
LEMMA TypeInit == Init => TypeOK
<1> SUFFICES ASSUME Init
             PROVE  TypeOK
  OBVIOUS
<1>1. NoData \in [Providers -> Tokens] /\ Idle \in CallStates
  BY BoundsAssumption DEF NoData, Idle, CallStates, Tokens
<1>2. issued \in Tokens
  BY BoundsAssumption DEF Init, Tokens
<1>3. \A c \in Calls : call[c].at = "idle"
  BY DEF Init, Idle
<1>4. QED
  BY <1>1, <1>2, <1>3 DEF Init, TypeOK, FaultKinds

(* A call that ends, or fails, has its locals forgotten.                    *)
LEMMA IdleIsTyped == Idle \in CallStates /\ Idle.at = "idle"
BY BoundsAssumption DEF Idle, CallStates, NoData, Tokens

(* What an orderly or forceful synchronous stretch leaves of the lock.      *)
LEMMA StretchTypes ==
  ASSUME TypeOK, Synchronous \/ SynchronousFails
  PROVE  lock' \in Calls \cup {Nil, Dead} /\ happened' \subseteq FaultKinds
BY DEF TypeOK, Synchronous, SynchronousFails, TakingOver, FaultKinds

LEMMA ReloadTypes ==
  ASSUME TypeOK, NEW p \in Procs, NEW memory \in [Providers -> Tokens], Reloads(p, memory)
  PROVE  /\ lock' \in Calls \cup {Nil, Dead} /\ happened' \subseteq FaultKinds
         /\ data' \in [Procs -> [Providers -> Tokens]]
         /\ loadError' \in [Procs -> BOOLEAN]
<1>1. Synchronous \/ SynchronousFails
  BY DEF Reloads
<1>2. (IF file = Broken THEN memory ELSE file) \in [Providers -> Tokens]
  BY DEF TypeOK
<1>3. data' \in [Procs -> [Providers -> Tokens]]
  BY <1>2 DEF Reloads, TypeOK
<1>4. loadError' \in [Procs -> BOOLEAN]
  BY Zenon DEF Reloads, TypeOK
<1>5. QED
  BY <1>1, <1>3, <1>4, StretchTypes

LEMMA ChangeTypes ==
  ASSUME TypeOK, NEW p \in Procs, NEW q \in Providers, NEW token \in Tokens, Change(p, q, token),
         issued' \in Tokens
  PROVE  TypeOK'
<1>1. lock' \in Calls \cup {Nil, Dead} /\ happened' \subseteq FaultKinds
  BY StretchTypes DEF Change, TypeOK
<1>2. file' \in [Providers -> Tokens] \cup {Broken}
  BY DEF Change, TypeOK
<1>3. data' \in [Procs -> [Providers -> Tokens]]
  BY DEF Change, TypeOK
<1>4. QED
  BY <1>1, <1>2, <1>3 DEF Change, TypeOK

(* A call that moves on keeps its locals.                                   *)
LEMMA MovesOn ==
  ASSUME NEW calls \in [Calls -> CallStates], NEW c \in Calls, NEW at \in {"asking", "answered"}
  PROVE  [calls EXCEPT ![c].at = at] \in [Calls -> CallStates]
<1>1. [calls[c] EXCEPT !.at = at] \in CallStates
  BY DEF CallStates
<1>2. QED
  BY <1>1

LEMMA TypeStep == TypeOK /\ [Next]_vars => TypeOK'
<1> SUFFICES ASSUME TypeOK, [Next]_vars
             PROVE  TypeOK'
  OBVIOUS
<1>0. \A c \in Calls : ProcOf(c) \in Procs
  BY DEF Calls, ProcOf
<1>1. ASSUME NEW p \in Procs, Start(p)
      PROVE  TypeOK'
  <2>1. NoData \in [Providers -> Tokens]
    BY BoundsAssumption DEF NoData, Tokens
  <2>2. QED
    BY <1>1, <2>1, ReloadTypes DEF Start, TypeOK, tokenVars
<1>2. ASSUME NEW p \in Procs, Reload(p)
      PROVE  TypeOK'
  <2>1. data[p] \in [Providers -> Tokens]
    BY DEF TypeOK
  <2>2. QED
    BY <1>2, <2>1, ReloadTypes DEF Reload, TypeOK, tokenVars
<1>3. ASSUME NEW p \in Procs, Crash(p)
      PROVE  TypeOK'
  <2> DEFINE mine == {c \in Calls : ProcOf(c) = p}
  <2>1. NoData \in [Providers -> Tokens]
    BY BoundsAssumption DEF NoData, Tokens
  <2>2. data' \in [Procs -> [Providers -> Tokens]] /\ loadError' \in [Procs -> BOOLEAN]
    BY <1>3, <2>1 DEF Crash, TypeOK
  <2>3. lock' \in Calls \cup {Nil, Dead} /\ file' \in [Providers -> Tokens] \cup {Broken}
    BY <1>3 DEF Crash, TypeOK
  <2>4. call' = [c \in Calls |-> IF c \in mine THEN Idle ELSE call[c]]
    BY <1>3 DEF Crash
  <2>5. call' \in [Calls -> CallStates] /\ \A c \in Calls : call'[c].at # "idle" => call'[c].prov \in Providers
    BY <2>4, IdleIsTyped DEF TypeOK
  <2>6. alive' \in [Procs -> BOOLEAN] /\ happened' \subseteq FaultKinds /\ UNCHANGED tokenVars
    BY <1>3 DEF Crash, TypeOK, FaultKinds
  <2>7. QED
    BY <2>2, <2>3, <2>5, <2>6 DEF TypeOK, tokenVars
<1>4. ASSUME NEW p \in Procs, NEW q \in Providers, Login(p, q)
      PROVE  TypeOK'
  <2>1. issued + 1 \in Tokens
    BY <1>4, BoundsAssumption DEF Login, TypeOK, Tokens
  <2>2. QED
    BY <1>4, <2>1, ChangeTypes DEF Login
<1>5. ASSUME NEW p \in Procs, NEW q \in Providers, Logout(p, q)
      PROVE  TypeOK'
  <2>1. 0 \in Tokens
    BY BoundsAssumption DEF Tokens
  <2>2. QED
    BY <1>5, <2>1, ChangeTypes DEF Logout, TypeOK
<1>6. ASSUME NEW c \in Calls, NEW q \in Providers, GetApiKey(c, q)
      PROVE  TypeOK'
  <2>1. [Idle EXCEPT !.at = "locking", !.prov = q] \in CallStates
    BY IdleIsTyped DEF CallStates, Idle
  <2>2. call' \in [Calls -> CallStates] /\ \A d \in Calls : call'[d].at # "idle" => call'[d].prov \in Providers
    BY <1>6, <2>1 DEF GetApiKey, TypeOK, Idle
  <2>3. QED
    BY <1>6, <2>2 DEF GetApiKey, TypeOK, tokenVars
<1>7. ASSUME NEW c \in Calls, Acquire(c)
      PROVE  TypeOK'
  <2>1. file \in [Providers -> Tokens] /\ happened' \subseteq FaultKinds
    BY <1>7 DEF Acquire, TypeOK, TakingOver, FaultKinds
  <2>2. data' \in [Procs -> [Providers -> Tokens]] /\ loadError' \in [Procs -> BOOLEAN]
    BY <1>0, <1>7, <2>1 DEF Acquire, TypeOK
  <2>3. CASE NeedsRefresh(c)
    <3>1. call' = [call EXCEPT ![c].at = "asking", ![c].seen = file]
      BY <1>7, <2>3 DEF Acquire, CurrentData
    <3>2. call' \in [Calls -> CallStates]
      <4> DEFINE asking == [call EXCEPT ![c].at = "asking"]
      <4>1. asking \in [Calls -> CallStates]
        BY MovesOn DEF TypeOK
      <4>2. call' = [asking EXCEPT ![c].seen = file]
        BY <3>1
      <4> HIDE DEF asking
      <4>3. QED
        BY <2>1, <4>1, <4>2 DEF CallStates
    <3>3. \A d \in Calls : call'[d].prov = call[d].prov /\ (call[d].at = "idle" => d # c)
      BY <1>7, <3>1 DEF TypeOK, CallStates, Acquire
    <3>4. \A d \in Calls : call'[d].at # "idle" => call'[d].prov \in Providers
      BY <1>7, <3>1, <3>3 DEF TypeOK, CallStates, Acquire
    <3>5. QED
      BY <1>7, <2>1, <2>2, <2>3, <3>2, <3>4 DEF Acquire, TypeOK, tokenVars
  <2>4. CASE ~NeedsRefresh(c)
    <3>1. call' \in [Calls -> CallStates] /\ \A d \in Calls : call'[d].at # "idle" => call'[d].prov \in Providers
      BY <1>7, <2>4, IdleIsTyped DEF Acquire, TypeOK
    <3>2. QED
      BY <1>7, <2>1, <2>2, <2>4, <3>1 DEF Acquire, TypeOK, tokenVars
  <2>5. QED
    BY <2>3, <2>4
<1>8. ASSUME NEW c \in Calls, Fail(c)
      PROVE  TypeOK'
  <2>1. CASE call[c].tries + 1 < MaxTries /\ call' = [call EXCEPT ![c].tries = call[c].tries + 1]
             /\ UNCHANGED <<lock, data, loadError, happened>>
    <3>1. call[c].tries + 1 \in 0 .. MaxTries - 1
      BY <2>1, BoundsAssumption DEF TypeOK, CallStates
    <3>2. call' \in [Calls -> CallStates]
      BY <2>1, <3>1 DEF TypeOK, CallStates
    <3>3. \A d \in Calls : call'[d].at # "idle" => call'[d].prov \in Providers
      BY <2>1 DEF TypeOK, CallStates
    <3>4. QED
      BY <1>8, <2>1, <3>2, <3>3 DEF Fail, TypeOK, tokenVars
  <2>2. CASE GivesUp(c, data[ProcOf(c)])
    <3>1. call' \in [Calls -> CallStates] /\ \A d \in Calls : call'[d].at # "idle" => call'[d].prov \in Providers
      BY <2>2, IdleIsTyped DEF GivesUp, TypeOK
    <3>2. data[ProcOf(c)] \in [Providers -> Tokens]
      BY <1>0 DEF TypeOK
    <3>3. QED
      BY <1>0, <1>8, <2>2, <3>1, <3>2, ReloadTypes DEF GivesUp, Fail, TypeOK, tokenVars
  <2>3. QED
    BY <1>8, <2>1, <2>2 DEF Fail
<1>9. ASSUME NEW c \in Calls, Write(c)
      PROVE  TypeOK'
  <2>1. Merged(c) \in [Providers -> Tokens]
    BY <1>9 DEF Write, Merged, TypeOK, CallStates
  <2>2. data' \in [Procs -> [Providers -> Tokens]] /\ loadError' \in [Procs -> BOOLEAN]
    BY <1>0, <1>9, <2>1 DEF Write, TypeOK
  <2>3. call' \in [Calls -> CallStates] /\ \A d \in Calls : call'[d].at # "idle" => call'[d].prov \in Providers
    BY <1>9, IdleIsTyped DEF Write, TypeOK
  <2>4. QED
    BY <1>9, <2>1, <2>2, <2>3 DEF Write, Released, TypeOK, tokenVars
<1>10. ASSUME NEW c \in Calls, WriteRefused(c)
       PROVE  TypeOK'
  <2>1. call' \in [Calls -> CallStates] /\ \A d \in Calls : call'[d].at # "idle" => call'[d].prov \in Providers
    BY <1>10, IdleIsTyped DEF WriteRefused, GivesUp, TypeOK
  <2>2. Merged(c) \in [Providers -> Tokens]
    BY <1>10 DEF WriteRefused, Merged, TypeOK, CallStates
  <2>3. QED
    BY <1>0, <1>10, <2>1, <2>2, ReloadTypes DEF WriteRefused, GivesUp, TypeOK, tokenVars
<1>11. ASSUME NEW c \in Calls, Exchange(c)
       PROVE  TypeOK'
  <2>1. issued + 1 \in Tokens
    BY <1>11, BoundsAssumption DEF Exchange, TypeOK, Tokens
  <2>2. call' \in [Calls -> CallStates]
    <3> DEFINE answered == [call EXCEPT ![c].at = "answered"]
    <3>1. answered \in [Calls -> CallStates]
      BY MovesOn DEF TypeOK
    <3>2. call' = [answered EXCEPT ![c].reply = issued + 1]
      BY <1>11 DEF Exchange
    <3> HIDE DEF answered
    <3>3. QED
      BY <2>1, <3>1, <3>2 DEF CallStates
  <2>3. \A d \in Calls : call'[d].at # "idle" => call'[d].prov \in Providers
    BY <1>11 DEF Exchange, TypeOK, CallStates
  <2>4. Refreshed(c) \in Tokens
    BY <1>11 DEF Exchange, Refreshed, TypeOK, CallStates
  <2>5. QED
    BY <1>11, <2>1, <2>2, <2>3, <2>4 DEF Exchange, TypeOK
<1>12. ASSUME NEW c \in Calls, RefreshFails(c)
       PROVE  TypeOK'
  <2>1. data' \in [Procs -> [Providers -> Tokens]] /\ loadError' \in [Procs -> BOOLEAN]
    <3>1. CASE loadError' = [loadError EXCEPT ![ProcOf(c)] = TRUE] /\ UNCHANGED data
      BY <3>1 DEF TypeOK
    <3>2. CASE /\ data' = [data EXCEPT ![ProcOf(c)] = IF file = Broken THEN @ ELSE file]
               /\ loadError' = [loadError EXCEPT ![ProcOf(c)] = file = Broken]
      <4>1. (IF file = Broken THEN data[ProcOf(c)] ELSE file) \in [Providers -> Tokens]
        BY <1>0 DEF TypeOK
      <4>2. loadError' \in [Procs -> BOOLEAN]
        BY <3>2, Zenon DEF TypeOK
      <4>3. QED
        BY <3>2, <4>1, <4>2 DEF TypeOK
    <3>3. QED
      BY <1>12, <3>1, <3>2 DEF RefreshFails
  <2>2. call' \in [Calls -> CallStates] /\ \A d \in Calls : call'[d].at # "idle" => call'[d].prov \in Providers
    BY <1>12, IdleIsTyped DEF RefreshFails, TypeOK
  <2>3. lock' \in Calls \cup {Nil, Dead} /\ happened' \subseteq FaultKinds
    BY <1>12 DEF RefreshFails, Released, TypeOK, FaultKinds
  <2>4. QED
    BY <1>12, <2>1, <2>2, <2>3 DEF RefreshFails, TypeOK, tokenVars
<1>13. ASSUME NEW c \in Calls, OnCompromised(c)
       PROVE  TypeOK'
  <2>1. call' \in [Calls -> CallStates] /\ \A d \in Calls : call'[d].at # "idle" => call'[d].prov \in Providers
    BY <1>13 DEF OnCompromised, TypeOK, CallStates
  <2>2. QED
    BY <1>13, <2>1 DEF OnCompromised, TypeOK, tokenVars, FaultKinds
<1>14. CASE LockExpires
  BY <1>14 DEF LockExpires, TypeOK, tokenVars
<1>15. ASSUME NEW token \in Tokens, Expire(token)
       PROVE  TypeOK'
  BY <1>15 DEF Expire, TypeOK
<1>16. CASE UNCHANGED vars
  BY <1>16 DEF vars, TypeOK
<1>17. QED
  BY <1>1, <1>2, <1>3, <1>4, <1>5, <1>6, <1>7, <1>8, <1>9, <1>10, <1>11, <1>12, <1>13, <1>14, <1>15, <1>16
     DEF Next, Work

(* The types of the variables, whatever the faults.                         *)
THEOREM TypeCorrect == Spec => []TypeOK
BY TypeInit, TypeStep, PTL DEF Spec

-----------------------------------------------------------------------------
(* What a step may make of a call.                                          *)
SameRequest(c) == /\ call'[c].at = call[c].at /\ call'[c].prov = call[c].prov
                  /\ call'[c].seen = call[c].seen /\ call'[c].reply = call[c].reply
Requested(c) == /\ call[c].at = "locking" /\ call'[c].at = "asking" /\ file # Broken
                /\ call'[c].seen = file /\ call'[c].reply = call[c].reply /\ call'[c].prov = call[c].prov
                /\ file[call[c].prov] \in expired /\ call'[c].compromised = call[c].compromised
                /\ lock' = c /\ file' = file
Exchanged(c) == /\ call[c].at = "asking" /\ call'[c].at = "answered" /\ call'[c].prov = call[c].prov
                /\ call'[c].seen = call[c].seen /\ call'[c].reply = issued + 1 /\ issued' = issued + 1
                /\ call'[c].compromised = call[c].compromised
LosesLock(c) == /\ call[c].at \in {"asking", "answered"} /\ SameRequest(c)
                /\ lock # c \/ "takeover" \in happened'

LEMMA CallStep ==
  ASSUME TypeOK, [Next]_vars, NEW c \in Calls
  PROVE  \/ call'[c] = call[c]
         \/ call'[c] = Idle
         \/ call'[c].at = "locking" /\ call'[c].seen = Idle.seen /\ call'[c].reply = 0 /\ call'[c].compromised = FALSE
         \/ call'[c].at = "locking" /\ SameRequest(c) /\ call'[c].compromised = call[c].compromised
         \/ Requested(c)
         \/ Exchanged(c)
         \/ LosesLock(c)
<1> DEFINE Goal == \/ call'[c] = call[c]
                   \/ call'[c] = Idle
                   \/ call'[c].at = "locking" /\ call'[c].seen = Idle.seen /\ call'[c].reply = 0 /\ call'[c].compromised = FALSE
                   \/ call'[c].at = "locking" /\ SameRequest(c) /\ call'[c].compromised = call[c].compromised
                   \/ Requested(c)
                   \/ Exchanged(c)
                   \/ LosesLock(c)
<1>0. call \in [Calls -> CallStates]
  BY DEF TypeOK
<1>1. CASE UNCHANGED call
  BY <1>1
<1>2. ASSUME NEW p \in Procs, Crash(p)
      PROVE  Goal
  BY <1>2 DEF Crash
<1>3. ASSUME NEW d \in Calls, NEW q \in Providers, GetApiKey(d, q)
      PROVE  Goal
  BY <1>0, <1>3 DEF GetApiKey, CallStates, Idle
<1>4. ASSUME NEW d \in Calls, Acquire(d)
      PROVE  Goal
  <2>1. CASE ~NeedsRefresh(d)
    BY <1>0, <1>4, <2>1 DEF Acquire
  <2>2. CASE NeedsRefresh(d)
    <3>1. call' = [call EXCEPT ![d].at = "asking", ![d].seen = file]
      BY <1>4, <2>2 DEF Acquire, CurrentData
    <3>2. c = d => Requested(c)
      BY <1>0, <1>4, <2>2, <3>1 DEF Acquire, NeedsRefresh, CurrentData, Requested, CallStates
    <3>3. c # d => call'[c] = call[c]
      BY <1>0, <3>1
    <3>4. QED
      BY <3>2, <3>3
  <2>3. QED
    BY <2>1, <2>2
<1>5. ASSUME NEW d \in Calls, Fail(d)
      PROVE  Goal
  <2>1. CASE GivesUp(d, data[ProcOf(d)])
    BY <1>0, <2>1 DEF GivesUp
  <2>2. CASE call' = [call EXCEPT ![d].tries = call[d].tries + 1]
    BY <1>0, <1>5, <2>2 DEF Fail, SameRequest, CallStates
  <2>3. QED
    BY <1>5, <2>1, <2>2 DEF Fail
<1>6. ASSUME NEW d \in Calls, Write(d) \/ WriteRefused(d) \/ RefreshFails(d)
      PROVE  Goal
  BY <1>0, <1>6 DEF Write, WriteRefused, GivesUp, RefreshFails
<1>7. ASSUME NEW d \in Calls, Exchange(d)
      PROVE  Goal
  <2>1. c = d => Exchanged(c)
    BY <1>0, <1>7 DEF Exchange, Exchanged, CallStates
  <2>2. c # d => call'[c] = call[c]
    BY <1>0, <1>7 DEF Exchange
  <2>3. QED
    BY <2>1, <2>2
<1>8. ASSUME NEW d \in Calls, OnCompromised(d)
      PROVE  Goal
  BY <1>0, <1>8 DEF OnCompromised, SameRequest, LosesLock, CallStates
<1>9. QED
  BY <1>1, <1>2, <1>3, <1>4, <1>5, <1>6, <1>7, <1>8
     DEF Next, Work, vars, Start, Reload, Login, Logout, Change, LockExpires, Expire

(* Every credential anybody has was issued.                                 *)
LEMMA IssuedStep == TypeOK /\ OnlyIssued /\ AsksForOne /\ [Next]_vars => OnlyIssued'
<1> SUFFICES ASSUME TypeOK, OnlyIssued, AsksForOne, [Next]_vars
             PROVE  OnlyIssued'
  OBVIOUS
<1>0. issued \in Nat /\ issued' \in Nat /\ issued <= issued'
  <2>1. issued' = issued \/ issued' = issued + 1
    BY DEF Next, vars, Start, Reload, Crash, Login, Logout, GetApiKey, Work, Acquire, Fail, Write, WriteRefused,
           Exchange, RefreshFails, OnCompromised, LockExpires, Expire, tokenVars
  <2>2. QED
    BY <2>1, BoundsAssumption DEF TypeOK, Tokens
<1>2. ASSUME NEW p \in Procs, NEW q \in Providers, NEW token \in 0 .. issued', Change(p, q, token)
      PROVE  /\ file' # Broken => \A x \in Providers : file'[x] <= issued'
             /\ \A r \in Procs, x \in Providers : data'[r][x] <= issued'
  <2>1. file' = file \/ (file # Broken /\ file' = [file EXCEPT ![q] = token])
    BY <1>2 DEF Change
  <2>2. data' = [data EXCEPT ![p][q] = token]
    BY <1>2 DEF Change
  <2>3. file # Broken => \A x \in Providers : file[x] \in Nat /\ file[x] <= issued'
    BY <1>0 DEF OnlyIssued, TypeOK, Tokens
  <2>4. \A r \in Procs, x \in Providers : data[r][x] \in Nat /\ data[r][x] <= issued'
    BY <1>0 DEF OnlyIssued, TypeOK, Tokens
  <2>5. file' # Broken => \A x \in Providers : file'[x] <= issued'
    BY <2>1, <2>3 DEF TypeOK
  <2>6. \A r \in Procs, x \in Providers : data'[r][x] <= issued'
    BY <2>2, <2>4 DEF TypeOK
  <2>7. QED
    BY <2>5, <2>6
<1>3. \A c \in Calls : ProcOf(c) \in Procs
  BY DEF Calls, ProcOf
<1>4. Idle.reply <= issued' /\ \A q \in Providers : NoData[q] <= issued' /\ Idle.seen[q] <= issued'
  <2>1. \A q \in Providers : NoData[q] = 0
    BY DEF NoData
  <2>2. Idle.seen = NoData /\ Idle.reply = 0
    BY DEF Idle
  <2>3. QED
    BY <1>0, <2>1, <2>2
<1> DEFINE FileIssued == file' # Broken => \A q \in Providers : file'[q] <= issued'
           DataIssued == \A p \in Procs, q \in Providers : data'[p][q] <= issued'
           CallIssued == \A c \in Calls : call'[c].reply <= issued' /\ \A q \in Providers : call'[c].seen[q] <= issued'
           SetsIssued == spent' \subseteq 1 .. issued' /\ expired' \subseteq 1 .. issued'
<1>5. SetsIssued
  <2>1. CASE UNCHANGED <<spent, expired>>
    BY <1>0, <2>1 DEF OnlyIssued
  <2>2. ASSUME NEW c \in Calls, Exchange(c)
        PROVE  SetsIssued
    <3>1. Refreshed(c) \in Nat /\ Refreshed(c) <= issued /\ Refreshed(c) # 0
      BY <2>2 DEF Exchange, Refreshed, OnlyIssued, AsksForOne, Holding, TypeOK, CallStates, Tokens
    <3>2. QED
      BY <1>0, <2>2, <3>1 DEF Exchange, OnlyIssued
  <2>3. ASSUME NEW token \in Tokens, Expire(token)
        PROVE  SetsIssued
    BY <2>3 DEF Expire, OnlyIssued
  <2>4. QED
    BY <2>1, <2>2, <2>3
       DEF Next, vars, Start, Reload, Crash, Login, Logout, Change, GetApiKey, Work, Acquire, Fail, Write, WriteRefused,
           RefreshFails, OnCompromised, LockExpires, tokenVars
<1>6. CallIssued
  <2> SUFFICES ASSUME NEW c \in Calls
               PROVE  call'[c].reply <= issued' /\ \A q \in Providers : call'[c].seen[q] <= issued'
    OBVIOUS
  <2>1. CASE call'[c] = Idle
    BY <1>4, <2>1
  <2>2. CASE call'[c].seen = call[c].seen /\ call'[c].reply = call[c].reply
    BY <1>0, <2>2 DEF OnlyIssued, TypeOK, CallStates, Tokens
  <2>3. CASE call'[c].seen = Idle.seen /\ call'[c].reply = 0
    BY <1>0, <1>4, <2>3
  <2>4. CASE Requested(c)
    BY <1>0, <2>4 DEF Requested, OnlyIssued, TypeOK, CallStates, Tokens
  <2>5. CASE Exchanged(c)
    BY <1>0, <2>5 DEF Exchanged, OnlyIssued, TypeOK, CallStates, Tokens
  <2>6. QED
    BY <2>1, <2>2, <2>3, <2>4, <2>5, CallStep DEF SameRequest, LosesLock
<1>7. FileIssued
  <2>1. CASE UNCHANGED file
    BY <1>0, <2>1 DEF OnlyIssued, TypeOK, Tokens
  <2>2. ASSUME NEW c \in Calls, Write(c)
        PROVE  FileIssued
    BY <1>0, <2>2 DEF Write, Merged, OnlyIssued, TypeOK, CallStates, Tokens
  <2>3. ASSUME NEW p \in Procs, NEW q \in Providers, Login(p, q) \/ Logout(p, q)
        PROVE  FileIssued
    BY <1>0, <1>2, <2>3 DEF Login, Logout
  <2>4. ASSUME NEW p \in Procs, Crash(p)
        PROVE  FileIssued
    <3>1. file' = file \/ file' = Broken
      BY <2>4 DEF Crash
    <3>2. QED
      BY <1>0, <3>1 DEF OnlyIssued, TypeOK, Tokens
  <2>5. QED
    BY <2>1, <2>2, <2>3, <2>4
       DEF Next, Work, vars, Start, Reload, GetApiKey, Acquire, Fail, WriteRefused, Exchange, RefreshFails,
           OnCompromised, LockExpires, Expire
<1>8. DataIssued
  <2>1. CASE UNCHANGED data
    BY <1>0, <2>1 DEF OnlyIssued, TypeOK, Tokens
  <2>2. ASSUME NEW p \in Procs, NEW new \in [Providers -> Nat], \A q \in Providers : new[q] <= issued',
               data' = [data EXCEPT ![p] = new]
        PROVE  DataIssued
    BY <1>0, <2>2 DEF OnlyIssued, TypeOK, Tokens
  <2>3. NoData \in [Providers -> Nat]
    BY DEF NoData
  <2>4. /\ file # Broken => file \in [Providers -> Nat] /\ \A q \in Providers : file[q] <= issued'
        /\ \A p \in Procs : data[p] \in [Providers -> Nat] /\ \A q \in Providers : data[p][q] <= issued'
    BY <1>0 DEF OnlyIssued, TypeOK, Tokens
  <2>5. ASSUME NEW p \in Procs, NEW memory \in [Providers -> Nat], \A q \in Providers : memory[q] <= issued',
               Reloads(p, memory)
        PROVE  DataIssued
    BY <2>2, <2>4, <2>5 DEF Reloads
  <2>6. ASSUME NEW p \in Procs, Start(p) \/ Reload(p) \/ Crash(p)
        PROVE  DataIssued
    <3>1. CASE Start(p)
      BY <1>4, <2>3, <2>5, <3>1 DEF Start
    <3>2. CASE Reload(p)
      BY <2>4, <2>5, <3>2 DEF Reload
    <3>3. CASE Crash(p)
      BY <1>4, <2>2, <2>3, <3>3 DEF Crash
    <3>4. QED
      BY <2>6, <3>1, <3>2, <3>3
  <2>7. ASSUME NEW p \in Procs, NEW q \in Providers, Login(p, q) \/ Logout(p, q)
        PROVE  DataIssued
    BY <1>0, <1>2, <2>7 DEF Login, Logout
  <2>8. ASSUME NEW c \in Calls, Acquire(c)
        PROVE  DataIssued
    BY <1>3, <2>2, <2>4, <2>8 DEF Acquire
  <2>9. ASSUME NEW c \in Calls, RefreshFails(c)
        PROVE  DataIssued
    <3>1. UNCHANGED data \/ data' = [data EXCEPT ![ProcOf(c)] = IF file = Broken THEN @ ELSE file]
      BY <2>9 DEF RefreshFails
    <3>2. UNCHANGED data \/ (file # Broken /\ data' = [data EXCEPT ![ProcOf(c)] = file])
      BY <3>1 DEF TypeOK
    <3>3. QED
      BY <1>3, <2>1, <2>2, <2>4, <3>2
  <2>10. ASSUME NEW c \in Calls, Write(c) \/ WriteRefused(c)
         PROVE  DataIssued
    <3>1. Merged(c) \in [Providers -> Nat] /\ \A q \in Providers : Merged(c)[q] <= issued'
      BY <1>0, <2>10 DEF Write, WriteRefused, Merged, OnlyIssued, TypeOK, CallStates, Tokens
    <3>2. QED
      BY <1>3, <2>2, <2>5, <2>10, <3>1 DEF Write, WriteRefused, GivesUp
  <2>11. ASSUME NEW c \in Calls, Fail(c)
         PROVE  DataIssued
    BY <1>3, <2>1, <2>4, <2>5, <2>11 DEF Fail, GivesUp
  <2>12. QED
    BY <2>1, <2>6, <2>7, <2>8, <2>9, <2>10, <2>11
       DEF Next, Work, vars, GetApiKey, Exchange, OnCompromised, LockExpires, Expire
<1>9. QED
  BY <1>5, <1>6, <1>7, <1>8 DEF OnlyIssued

LEMMA AsksStep == TypeOK /\ OnlyIssued /\ AsksForOne /\ [Next]_vars => AsksForOne'
<1> SUFFICES ASSUME TypeOK, OnlyIssued, AsksForOne, [Next]_vars, NEW c \in Calls
             PROVE  /\ ~Holding(c)' => ~call'[c].compromised
                    /\ Holding(c)' => call'[c].seen[call'[c].prov] # 0
                    /\ call'[c].at = "answered" => \A q \in Providers : call'[c].seen[q] < call'[c].reply
  BY DEF AsksForOne, Holding
<1>1. CASE call'[c] = call[c]
  BY <1>1 DEF AsksForOne, Holding
<1>2. CASE call'[c] = Idle
  BY <1>2 DEF Holding, Idle
<1>3. CASE call'[c].at = "locking" /\ call'[c].compromised = FALSE
  BY <1>3 DEF Holding
<1>4. CASE call'[c].at = "locking" /\ SameRequest(c) /\ call'[c].compromised = call[c].compromised
  BY <1>4 DEF Holding, SameRequest, AsksForOne
<1>5. CASE Requested(c)
  <2>1. 0 \notin expired
    BY DEF OnlyIssued
  <2>2. QED
    BY <1>5, <2>1 DEF Requested, Holding
<1>6. CASE Exchanged(c)
  <2>1. \A q \in Providers : call[c].seen[q] < issued + 1
    BY DEF OnlyIssued, TypeOK, CallStates, Tokens
  <2>2. QED
    BY <1>6, <2>1 DEF Exchanged, Holding, AsksForOne
<1>7. CASE LosesLock(c)
  BY <1>7 DEF LosesLock, SameRequest, Holding, AsksForOne
<1>8. QED
  BY <1>1, <1>2, <1>3, <1>4, <1>5, <1>6, <1>7, CallStep

-----------------------------------------------------------------------------
(* The lock.                                                                *)
LEMMA FaultsStay == TypeOK /\ [Next]_vars => happened \subseteq happened'
BY DEF Next, Work, vars, Start, Reload, Reloads, Login, Logout, Change, Synchronous, SynchronousFails, TakingOver,
       GetApiKey, Acquire, Fail, GivesUp, Write, WriteRefused, Exchange, RefreshFails, OnCompromised, LockExpires,
       Crash, Expire, tokenVars

(* While a call holds the lock nobody else gets a synchronous stretch, and  *)
(* nobody else gets the lock.                                               *)
LEMMA HeldLock ==
  ASSUME TypeOK, LockProtects, Orderly, NEW c \in Calls, Holding(c)
  PROVE  /\ lock = c /\ lock # Nil /\ lock # Dead
         /\ LockIsFree => "takeover" \in TakingOver
         /\ Synchronous => ~(happened' \subseteq {"clash"})
         /\ SynchronousFails => lock' = lock
         /\ \A d \in Calls : Holding(d) => d = c
<1>1. lock = c /\ \A d \in Calls : Holding(d) => lock = d
  BY DEF LockProtects
<1>2. lock # Nil /\ lock # Dead
  BY <1>1, NamesAssumption
<1>3. QED
  BY <1>1, <1>2 DEF LockIsFree, TakingOver, Synchronous, SynchronousFails

LEMMA LockStep == TypeOK /\ AsksForOne /\ LockProtects /\ [Next]_vars => LockProtects'
<1> SUFFICES ASSUME TypeOK, AsksForOne, LockProtects, [Next]_vars, happened' \subseteq {"clash"},
                    NEW c \in Calls, call'[c].at \in {"asking", "answered"}
             PROVE  lock' = c /\ file' = call'[c].seen /\ ~call'[c].compromised
  BY DEF LockProtects, Orderly, Holding
<1>1. Orderly
  BY FaultsStay DEF Orderly
<1>2. CASE Requested(c)
  BY <1>2 DEF Requested, AsksForOne, Holding
<1>3. CASE ~Requested(c)
  <2>1. Holding(c) /\ call'[c].seen = call[c].seen
        /\ (call'[c].compromised = call[c].compromised \/ lock # c \/ "takeover" \in happened')
    <3>1. call'[c] # Idle /\ call'[c].at # "locking"
      BY DEF Idle
    <3>2. CASE call'[c] = call[c]
      BY <3>2 DEF Holding
    <3>3. CASE Exchanged(c)
      BY <3>3 DEF Exchanged, Holding
    <3>4. CASE LosesLock(c)
      BY <3>4 DEF LosesLock, SameRequest, Holding
    <3>5. QED
      BY <1>3, <3>1, <3>2, <3>3, <3>4, CallStep
  <2>2. lock = c /\ file = call[c].seen /\ ~call[c].compromised
    BY <1>1, <2>1 DEF LockProtects
  <2>3. call'[c] # Idle
    BY DEF Idle
  <2>4. call \in [Calls -> CallStates]
    BY DEF TypeOK
  <2>5. Synchronous \/ SynchronousFails => lock' = lock /\ ~Synchronous
    BY <1>1, <2>1, HeldLock
  <2>6. ASSUME NEW p \in Procs, Start(p) \/ Reload(p)
        PROVE  lock' = lock /\ file' = file
    BY <2>5, <2>6 DEF Start, Reload, Reloads
  <2>7. ASSUME NEW p \in Procs, NEW q \in Providers, Login(p, q) \/ Logout(p, q)
        PROVE  lock' = lock /\ file' = file
    BY <2>5, <2>7 DEF Login, Logout, Change
  <2>8. ASSUME NEW d \in Calls, Acquire(d)
        PROVE  FALSE
    BY <1>1, <2>1, <2>8, HeldLock DEF Acquire
  <2>9. ASSUME NEW d \in Calls, Fail(d)
        PROVE  lock' = lock /\ file' = file
    BY <2>5, <2>9 DEF Fail, GivesUp, Reloads
  <2>10. ASSUME NEW d \in Calls, Write(d) \/ WriteRefused(d) \/ RefreshFails(d)
         PROVE  FALSE
    <3>1. Holding(d) /\ call'[d] = Idle
      BY <2>4, <2>10 DEF Write, WriteRefused, GivesUp, RefreshFails, Holding
    <3>2. QED
      BY <1>1, <2>1, <2>3, <3>1, HeldLock
  <2>11. ASSUME NEW p \in Procs, Crash(p)
         PROVE  FALSE
    BY <2>11 DEF Crash
  <2>12. ASSUME LockExpires
         PROVE  FALSE
    BY <1>1, <2>1, <2>12, HeldLock DEF LockExpires
  <2>13. ASSUME NEW d \in Calls, OnCompromised(d)
         PROVE  lock' = lock /\ file' = file
    BY <2>13 DEF OnCompromised
  <2>14. lock' = lock /\ file' = file
    <3>1. CASE UNCHANGED <<file, lock>>
      BY <3>1
    <3>2. CASE UNCHANGED vars
      BY <3>2 DEF vars
    <3>3. CASE Next
      BY <2>6, <2>7, <2>8, <2>9, <2>10, <2>11, <2>12, <2>13, <3>1, <3>3
         DEF Next, Work, GetApiKey, Exchange, Expire
    <3>4. QED
      BY <3>2, <3>3
  <2>15. QED
    BY <2>1, <2>2, <2>14
<1>4. QED
  BY <1>2, <1>3

-----------------------------------------------------------------------------
(* A refresh token goes to the provider once.                               *)
LEMMA AskedIsUnspent ==
  ASSUME TypeOK, LockProtects, SpentGoes, Orderly, NEW c \in Calls, call[c].at = "asking"
  PROVE  Refreshed(c) \notin spent
<1>1. Holding(c) /\ file = call[c].seen /\ file # Broken /\ call[c].prov \in Providers
  BY BrokenAssumption DEF Holding, LockProtects, TypeOK, CallStates, Tokens
<1>2. ASSUME file[call[c].prov] \in spent
      PROVE  FALSE
  <2>1. PICK d \in Calls : call[d].at = "answered"
    BY <1>1, <1>2 DEF SpentGoes
  <2>2. QED
    BY <1>1, <2>1, HeldLock DEF Holding
<1>3. QED
  BY <1>1, <1>2 DEF Refreshed

LEMMA SpentStep ==
  TypeOK /\ OnlyIssued /\ AsksForOne /\ LockProtects /\ SpentGoes /\ [Next]_vars => SpentGoes'
<1> SUFFICES ASSUME TypeOK, OnlyIssued, AsksForOne, LockProtects, SpentGoes, [Next]_vars,
                    happened' \subseteq {"clash"}
             PROVE  SpentGoes'
  BY DEF SpentGoes, Orderly
<1>1. Orderly
  BY FaultsStay DEF Orderly
<1> DEFINE Waiting(q) == \E c \in Calls : call'[c].at = "answered" /\ call'[c].prov = q
           Gone == file' # Broken => \A q \in Providers : file'[q] \in spent' => Waiting(q)
           Single == file' # Broken => \A q, r \in Providers : file'[q] = file'[r] => q = r \/ file'[q] = 0
           Fresh == \A c \in Calls : call'[c].at = "answered" => call'[c].reply \notin spent'
<1>2. file # Broken => file \in [Providers -> Nat] /\ \A q \in Providers : file[q] <= issued
  BY DEF TypeOK, OnlyIssued, Tokens
<1>3. call \in [Calls -> CallStates] /\ issued \in Nat
  BY DEF TypeOK, Tokens
<1>4. ASSUME NEW c \in Calls, Holding(c)
      PROVE  /\ lock = c /\ file = call[c].seen /\ file # Broken /\ ~call[c].compromised
             /\ call[c].prov \in Providers
             /\ \A d \in Calls : Holding(d) => d = c
  <2>1. lock = c /\ file = call[c].seen /\ ~call[c].compromised
    BY <1>1, <1>4 DEF LockProtects
  <2>2. file # Broken /\ call[c].prov \in Providers
    BY <1>4, <2>1, BrokenAssumption DEF Holding, TypeOK, CallStates, Tokens
  <2>3. QED
    BY <1>1, <1>4, <2>1, <2>2, HeldLock
<1>5. ASSUME NEW c \in Calls, Exchange(c)
      PROVE  Gone /\ Single /\ Fresh
  <2>1. Holding(c) /\ call[c].at = "asking" /\ Refreshed(c) = call[c].seen[call[c].prov]
    BY <1>5 DEF Exchange, Holding, Refreshed
  <2>2. /\ spent' = spent \cup {file[call[c].prov]} /\ file' = file
        /\ file[call[c].prov] # 0 /\ file[call[c].prov] <= issued
    BY <1>2, <1>4, <1>5, <2>1 DEF Exchange, AsksForOne
  <2>3. call' = [call EXCEPT ![c].at = "answered", ![c].reply = issued + 1]
    BY <1>5 DEF Exchange
  <2>4. /\ call'[c].at = "answered" /\ call'[c].prov = call[c].prov /\ call'[c].reply = issued + 1
        /\ \A d \in Calls : d # c => call'[d] = call[d]
    BY <1>3, <2>3 DEF CallStates
  <2>5. \A d \in Calls : call[d].at # "answered"
    BY <1>4, <2>1 DEF Holding
  <2>6. Gone
    <3> SUFFICES ASSUME file # Broken, NEW q \in Providers, file[q] \in spent'
                 PROVE  Waiting(q)
      BY <2>2
    <3>1. file[q] \notin spent
      BY <1>1, <2>5 DEF SpentGoes
    <3>2. file[q] = file[call[c].prov]
      BY <2>2, <3>1
    <3>3. q = call[c].prov
      BY <1>1, <1>4, <2>1, <2>2, <3>2 DEF SpentGoes
    <3>4. QED
      BY <2>4, <3>3
  <2>7. Single
    BY <1>1, <2>2 DEF SpentGoes
  <2>8. Fresh
    <3>1. issued + 1 \notin spent'
      BY <1>2, <1>3, <1>4, <2>1, <2>2 DEF OnlyIssued
    <3>2. QED
      BY <2>4, <2>5, <3>1
  <2>9. QED
    BY <2>6, <2>7, <2>8
<1>6. ASSUME NEW c \in Calls, Write(c)
      PROVE  Gone /\ Single /\ Fresh
  <2>1. Holding(c) /\ call[c].at = "answered"
    BY <1>6 DEF Write, Holding
  <2>2. spent' = spent /\ file' = [file EXCEPT ![call[c].prov] = call[c].reply]
    BY <1>4, <1>6, <2>1 DEF Write, Merged, tokenVars
  <2>3. \A d \in Calls : call'[d].at # "answered"
    BY <1>3, <1>4, <1>6, <2>1 DEF Write, Idle, Holding
  <2>4. call[c].reply \notin spent
    BY <1>1, <2>1 DEF SpentGoes
  <2>5. \A q \in Providers : file[q] < call[c].reply
    BY <1>4, <2>1 DEF AsksForOne
  <2>6. Gone
    <3> SUFFICES ASSUME NEW q \in Providers, q # call[c].prov, file[q] \in spent
                 PROVE  FALSE
      BY <1>2, <1>4, <2>1, <2>2, <2>4
    <3>1. PICK d \in Calls : call[d].at = "answered" /\ call[d].prov = q
      BY <1>1, <1>4, <2>1 DEF SpentGoes
    <3>2. QED
      BY <1>4, <2>1, <3>1 DEF Holding
  <2>7. Single
    <3> SUFFICES ASSUME NEW q \in Providers, NEW r \in Providers, file'[q] = file'[r], q # r
                 PROVE  file'[q] = 0
      OBVIOUS
    <3>1. q # call[c].prov /\ r # call[c].prov
      BY <1>2, <1>3, <1>4, <2>1, <2>2, <2>5 DEF CallStates, Tokens
    <3>2. QED
      BY <1>1, <1>2, <1>4, <2>1, <2>2, <3>1 DEF SpentGoes
  <2>8. QED
    BY <2>3, <2>6, <2>7
<1>7. ASSUME NEW p \in Procs, NEW q \in Providers, NEW token \in Nat, Change(p, q, token), token \notin spent,
             token = 0 \/ token > issued
      PROVE  Gone /\ Single /\ Fresh
  <2>1. call' = call /\ spent' = spent
    BY <1>7 DEF Change
  <2>2. file' = file \/ (file # Broken /\ file' = [file EXCEPT ![q] = token])
    BY <1>7 DEF Change
  <2>3. Fresh
    BY <1>1, <2>1 DEF SpentGoes
  <2>4. Gone
    BY <1>1, <1>2, <1>7, <2>1, <2>2 DEF SpentGoes
  <2>5. Single
    BY <1>1, <1>2, <1>3, <1>7, <2>2 DEF SpentGoes
  <2>6. QED
    BY <2>3, <2>4, <2>5
<1>8. ASSUME UNCHANGED <<file, spent>>,
             \A c \in Calls : call[c].at = "answered" => SameRequest(c),
             \A c \in Calls : call'[c].at = "answered" => SameRequest(c)
      PROVE  Gone /\ Single /\ Fresh
  <2>1. Gone
    BY <1>1, <1>8 DEF SpentGoes, SameRequest
  <2>2. Single
    BY <1>1, <1>8 DEF SpentGoes
  <2>3. Fresh
    BY <1>1, <1>8 DEF SpentGoes, SameRequest
  <2>4. QED
    BY <2>1, <2>2, <2>3
<1>9. ASSUME UNCHANGED <<file, spent, call>>
      PROVE  Gone /\ Single /\ Fresh
  BY <1>8, <1>9 DEF SameRequest
<1>10. ASSUME NEW c \in Calls, UNCHANGED <<file, spent>>,
              \A d \in Calls : d # c => call'[d] = call[d],
              call[c].at # "answered", call'[c].at # "answered"
       PROVE  Gone /\ Single /\ Fresh
  BY <1>8, <1>10 DEF SameRequest
<1>11. ASSUME NEW c \in Calls, \/ \E q \in Providers : GetApiKey(c, q)
                               \/ Acquire(c) \/ Fail(c) \/ WriteRefused(c) \/ RefreshFails(c) \/ OnCompromised(c)
       PROVE  Gone /\ Single /\ Fresh
  <2>1. ASSUME call[c].at = "answered"
        PROVE  FALSE
    <3>1. Holding(c)
      BY <2>1 DEF Holding
    <3>2. ~call[c].compromised /\ lock = c
      BY <1>4, <3>1
    <3>3. ~OnCompromised(c) /\ ~WriteRefused(c)
      BY <3>2 DEF OnCompromised, WriteRefused
    <3>4. ~RefreshFails(c)
      BY <2>1 DEF RefreshFails
    <3>5. QED
      BY <1>11, <2>1, <3>3, <3>4 DEF GetApiKey, Acquire, Fail
  <2>2. call'[c].at # "answered" \/ OnCompromised(c)
    <3>1. ASSUME call'[c] = Idle
          PROVE  call'[c].at # "answered"
      BY <3>1 DEF Idle
    <3>2. ASSUME NEW q \in Providers, GetApiKey(c, q)
          PROVE  call'[c].at # "answered"
      BY <1>3, <3>2 DEF GetApiKey, Idle
    <3>3. ASSUME Acquire(c)
          PROVE  call'[c].at # "answered"
      <4>1. CASE NeedsRefresh(c)
        <5>1. call' = [call EXCEPT ![c].at = "asking", ![c].seen = file]
          BY <3>3, <4>1 DEF Acquire, CurrentData
        <5>2. QED
          BY <1>3, <5>1 DEF CallStates
      <4>2. CASE ~NeedsRefresh(c)
        BY <1>3, <3>1, <3>3, <4>2 DEF Acquire
      <4>3. QED
        BY <4>1, <4>2
    <3>4. ASSUME Fail(c)
          PROVE  call'[c].at # "answered"
      <4>1. CASE GivesUp(c, data[ProcOf(c)])
        BY <1>3, <3>1, <4>1 DEF GivesUp
      <4>2. CASE call' = [call EXCEPT ![c].tries = call[c].tries + 1]
        BY <1>3, <3>4, <4>2 DEF Fail, CallStates
      <4>3. QED
        BY <3>4, <4>1, <4>2 DEF Fail
    <3>5. ASSUME WriteRefused(c) \/ RefreshFails(c)
          PROVE  call'[c].at # "answered"
      BY <1>3, <3>1, <3>5 DEF WriteRefused, GivesUp, RefreshFails
    <3>6. QED
      BY <1>11, <3>2, <3>3, <3>4, <3>5
  <2>3. OnCompromised(c) => call'[c].at = call[c].at
    BY <1>3 DEF OnCompromised, CallStates
  <2>4. UNCHANGED <<file, spent>> /\ \A d \in Calls : d # c => call'[d] = call[d]
    BY <1>3, <1>11 DEF GetApiKey, Acquire, Fail, GivesUp, WriteRefused, RefreshFails, OnCompromised, tokenVars
  <2>5. QED
    BY <1>10, <2>1, <2>2, <2>3, <2>4
<1>12. ASSUME NEW p \in Procs, NEW q \in Providers, Login(p, q) \/ Logout(p, q)
       PROVE  Gone /\ Single /\ Fresh
  <2>1. 0 \notin spent /\ issued + 1 \notin spent
    BY <1>3 DEF OnlyIssued
  <2>2. QED
    BY <1>3, <1>7, <1>12, <2>1 DEF Login, Logout
<1>13. ASSUME NEW p \in Procs, Crash(p)
       PROVE  FALSE
  BY <1>13 DEF Crash
<1>14. ASSUME Next
       PROVE  Gone /\ Single /\ Fresh
  BY <1>5, <1>6, <1>9, <1>11, <1>12, <1>13, <1>14 DEF Next, Work, Start, Reload, LockExpires, Expire, tokenVars
<1>15. ASSUME UNCHANGED vars
       PROVE  Gone /\ Single /\ Fresh
  BY <1>9, <1>15 DEF vars
<1>16. QED
  BY <1>14, <1>15 DEF SpentGoes

-----------------------------------------------------------------------------
LEMMA InvInit == Init => Inv
<1> SUFFICES ASSUME Init
             PROVE  Inv
  OBVIOUS
<1>1. \A c \in Calls : call[c] = Idle
  BY DEF Init
<1>2. /\ Idle.at = "idle" /\ Idle.seen = NoData /\ Idle.reply = 0 /\ Idle.compromised = FALSE
      /\ \A q \in Providers : NoData[q] = 0
  BY DEF Idle, NoData
<1>3. OnlyIssued
  BY <1>1, <1>2 DEF Init, OnlyIssued
<1>4. AsksForOne /\ LockProtects
  BY <1>1, <1>2 DEF AsksForOne, LockProtects, Holding
<1>5. SpentGoes
  BY <1>1, <1>2 DEF Init, SpentGoes
<1>6. QED
  BY <1>3, <1>4, <1>5, TypeInit DEF Inv

LEMMA InvStep == Inv /\ [Next]_vars => Inv'
BY TypeStep, IssuedStep, AsksStep, LockStep, SpentStep DEF Inv

THEOREM InvCorrect == Spec => []Inv
BY InvInit, InvStep, PTL DEF Spec

(* However many calls of however many processes find a credential expired,  *)
(* the provider sees its refresh token once.                                *)
THEOREM RefreshesOnce == Spec => []RefreshOnce
<1>1. Inv => RefreshOnce
  BY AskedIsUnspent DEF Inv, RefreshOnce, Orderly
<1>2. QED
  BY <1>1, InvCorrect, PTL

(* The write after a refresh changes the credential that was refreshed and  *)
(* nothing else in the file, whatever others have saved since the process   *)
(* read it first.                                                           *)
THEOREM OthersAreKept == Spec => RefreshKeepsOthers
<1>1. ASSUME Inv, NEW c \in Calls, Write(c), happened \subseteq {"clash"}
      PROVE  file[call[c].prov] = Refreshed(c) /\ \A q \in Providers \ {call[c].prov} : file'[q] = file[q]
  <2>1. file = call[c].seen
    BY <1>1 DEF Inv, LockProtects, Orderly, Holding, Write
  <2>2. file' = [file EXCEPT ![call[c].prov] = call[c].reply]
    BY <1>1, <2>1 DEF Write, Merged
  <2>3. file \in [Providers -> Tokens]
    BY <1>1, <2>1 DEF Inv, TypeOK, CallStates
  <2>4. QED
    BY <2>1, <2>2, <2>3 DEF Refreshed
<1>2. Inv => \A c \in Calls : Write(c) /\ happened \subseteq {"clash"} =>
        /\ file[call[c].prov] = Refreshed(c)
        /\ \A q \in Providers \ {call[c].prov} : file'[q] = file[q]
  BY <1>1
<1>3. QED
  BY <1>2, InvCorrect, PTL DEF RefreshKeepsOthers
=============================================================================
