------------------------------ MODULE WebProofs ------------------------------
(* Proofs about the models of MCWeb, for any browsers, documents and bounds:  *)
(* sessions and the cached answer agree with the password file; configuration *)
(* files, their backup, the editor and the runtime agree; the pages are true. *)
EXTENDS MCWeb, FiniteSetTheorems, SequenceTheorems, TLAPS

(* Every action of Next, named, so that each lemma has the same cases.        *)
Handler(b) ==
    \/ LoginBegins(b) \/ SetupBegins(b) \/ ChangeBegins(b) \/ FormRefused(b)
    \/ Logout(b) \/ Visit(b)
    \/ \E password \in Passwords :
         \/ LoginSucceeds(b, password) \/ LoginFails(b, password) \/ SetupEnds(b, password)
         \/ \E current \in Passwords : ChangeEnds(b, current, password)

(* ---------------------------- sessions ------------------------------------ *)
LEMMA SessionsStep == SessionsAreCurrent /\ [Next]_vars => SessionsAreCurrent'
<1>. SUFFICES ASSUME SessionsAreCurrent, [Next]_vars PROVE SessionsAreCurrent'
  OBVIOUS
<1>. USE DEF SessionsAreCurrent, login
<1>1. CASE ReaderReads \/ ReaderVerifies \/ ReaderStores \/ Tick \/ UNCHANGED vars
  BY <1>1 DEF ReaderReads, ReaderVerifies, ReaderStores, Tick, vars
<1>2. CASE SetFinishes
  <2>1. DOMAIN sessions' = {}
    BY <1>2 DEF SetFinishes, SessionsAfterSet
  <2>. QED
    BY <2>1
<1>3. ASSUME NEW password \in Passwords, CommandLineReset(password) PROVE SessionsAreCurrent'
  BY <1>3 DEF CommandLineReset
<1>4. ASSUME NEW b \in Browsers, Handler(b) PROVE SessionsAreCurrent'
  <2>1. CASE LoginBegins(b) \/ SetupBegins(b) \/ ChangeBegins(b) \/ FormRefused(b)
    BY <2>1 DEF LoginBegins, SetupBegins, ChangeBegins, FormRefused
  <2>2. CASE Logout(b) \/ Visit(b)
    BY <2>2 DEF Logout, Visit, Restrict
  <2>3. ASSUME NEW password \in Passwords, LoginSucceeds(b, password) PROVE SessionsAreCurrent'
    BY <2>3 DEF LoginSucceeds
  <2>4. ASSUME NEW password \in Passwords, LoginFails(b, password) PROVE SessionsAreCurrent'
    BY <2>4 DEF LoginFails
  <2>5. ASSUME NEW password \in Passwords, NEW handler, Sets(b, handler, password) PROVE SessionsAreCurrent'
    BY <2>5 DEF Sets
  <2>. QED
    BY <1>4, <2>1, <2>2, <2>3, <2>4, <2>5 DEF Handler, SetupEnds, ChangeEnds
<1>. QED
  BY <1>1, <1>2, <1>3, <1>4 DEF Next, Handler

(* A change of the password through the web ends every session opened before, *)
(* also one whose login awaited its form when the change began.               *)
THEOREM SessionsCurrent == Spec => []SessionsAreCurrent
<1>1. Init => SessionsAreCurrent
  BY DEF Init, SessionsAreCurrent
<1>. QED
  BY <1>1, SessionsStep, PTL DEF Spec

(* ------------------------------- cache ------------------------------------ *)
(* Whatever hash a page thread, the event loop or the cache holds is not newer*)
(* than the file's, and if it is the file's, so is what is known about it.    *)
CacheInv ==
    /\ stored.gen \in Nat /\ cache.gen \in Nat /\ reader.gen \in Nat /\ setting.gen \in Nat
    /\ cache.gen <= stored.gen /\ reader.gen <= stored.gen /\ setting.gen <= stored.gen
    /\ Configured => stored.gen > 0
    /\ CacheTruthful
    /\ reader.pc = "store" /\ reader.gen = stored.gen /\ Configured => reader.empty = (stored.pw = Empty)
    /\ setting.gen = stored.gen => setting.pw = stored.pw
    /\ reader \in [pc : {"idle", "verify", "store"}, gen : Nat, empty : BOOLEAN]
    /\ cache \in [gen : Nat, empty : BOOLEAN]

LEMMA CacheStep == CacheInv /\ [Next]_vars => CacheInv'
<1>. SUFFICES ASSUME CacheInv, [Next]_vars PROVE CacheInv'
  OBVIOUS
<1>. USE DEF CacheInv, CacheTruthful, Configured, login
<1>1. CASE ReaderReads
  <2>1. CASE ~Configured
    <3>1. cache' = [gen |-> 0, empty |-> FALSE] /\ UNCHANGED <<stored, reader, setting>>
      BY <1>1, <2>1 DEF ReaderReads
    <3>2. cache' \in [gen : Nat, empty : BOOLEAN] /\ cache'.gen = 0
      BY <3>1
    <3>. QED
      BY <2>1, <3>1, <3>2
  <2>2. CASE Configured
    <3>1. reader' = [pc |-> "verify", gen |-> stored.gen, empty |-> reader.empty]
      BY <1>1, <2>2 DEF ReaderReads
    <3>. QED
      BY <1>1, <2>2, <3>1 DEF ReaderReads
  <2>. QED
    BY <2>1, <2>2
<1>2. CASE ReaderVerifies
  BY <1>2 DEF ReaderVerifies, Verify
<1>3. CASE ReaderStores
  BY <1>3 DEF ReaderStores, CacheKey
<1>4. CASE SetFinishes
  BY <1>4 DEF SetFinishes, NoPassword
<1>5. CASE Tick \/ UNCHANGED vars
  BY <1>5 DEF Tick, vars
<1>6. ASSUME NEW password \in Passwords, Replace(password),
             UNCHANGED <<cache, reader>>, setting' \in {setting, stored'}
      PROVE  CacheInv'
  BY <1>6 DEF Replace, NoPassword
<1>7. ASSUME NEW password \in Passwords, CommandLineReset(password) PROVE CacheInv'
  BY <1>6, <1>7 DEF CommandLineReset
<1>8. ASSUME NEW b \in Browsers, Handler(b) PROVE CacheInv'
  <2>1. CASE LoginBegins(b) \/ SetupBegins(b) \/ ChangeBegins(b) \/ FormRefused(b)
             \/ Logout(b) \/ Visit(b)
    BY <2>1 DEF LoginBegins, SetupBegins, ChangeBegins, FormRefused, Logout, Visit
  <2>2. ASSUME NEW password \in Passwords, LoginSucceeds(b, password) \/ LoginFails(b, password) PROVE CacheInv'
    BY <2>2 DEF LoginSucceeds, LoginFails
  <2>3. ASSUME NEW password \in Passwords, NEW handler, Sets(b, handler, password) PROVE CacheInv'
    BY <1>6, <2>3 DEF Sets
  <2>. QED
    BY <1>8, <2>1, <2>2, <2>3 DEF Handler, SetupEnds, ChangeEnds
<1>. QED
  BY <1>1, <1>2, <1>3, <1>4, <1>5, <1>7, <1>8 DEF Next, Handler

(* The cached answer is never about another password than the file's, however *)
(* page threads, password changes and resets overlap.                         *)
THEOREM CacheIsTruthful == Spec => []CacheTruthful
<1>1. Init => CacheInv
  BY DEF Init, CacheInv, CacheTruthful, Configured, NoPassword
<1>2. CacheInv => CacheTruthful
  BY DEF CacheInv
<1>. QED
  BY <1>1, <1>2, CacheStep, PTL DEF Spec

(* -------------------------------- types ----------------------------------- *)
TypeInv ==
    /\ TypeOK /\ opened \in Nat /\ now \in Nat
    /\ cookie \in [Browsers -> Nat]
    /\ \A t \in DOMAIN sessions : t \in Nat /\ sessions[t].expires \in Nat
    /\ failures.count \in Nat /\ failures.until \in Nat

LEMMA TypeStep == TypeInv /\ [Next]_vars => TypeInv'
<1>. SUFFICES ASSUME TypeInv, [Next]_vars PROVE TypeInv'
  OBVIOUS
<1>. USE NumbersAssumption DEF TypeInv, TypeOK, login
<1>1. CASE ReaderReads \/ ReaderVerifies \/ ReaderStores \/ UNCHANGED vars
  BY <1>1 DEF ReaderReads, ReaderVerifies, ReaderStores, vars
<1>2. CASE SetFinishes
  <2>1. DOMAIN sessions' = {}
    BY <1>2 DEF SetFinishes, SessionsAfterSet
  <2>. QED
    BY <1>2, <2>1 DEF SetFinishes
<1>3. CASE Tick
  BY <1>3 DEF Tick
<1>4. ASSUME NEW password \in Passwords, CommandLineReset(password) PROVE TypeInv'
  BY <1>4 DEF CommandLineReset, Replace
<1>5. ASSUME NEW b \in Browsers, Handler(b) PROVE TypeInv'
  <2>1. CASE LoginBegins(b)
    BY <2>1 DEF LoginBegins, NoEntry
  <2>2. CASE SetupBegins(b) \/ ChangeBegins(b) \/ FormRefused(b)
    BY <2>2 DEF SetupBegins, ChangeBegins, FormRefused
  <2>3. CASE Logout(b) \/ Visit(b)
    BY <2>3 DEF Logout, Visit, Restrict
  <2>4. ASSUME NEW password \in Passwords, LoginSucceeds(b, password) PROVE TypeInv'
    BY <2>4 DEF LoginSucceeds, NoEntry
  <2>5. ASSUME NEW password \in Passwords, LoginFails(b, password) PROVE TypeInv'
    BY <2>5 DEF LoginFails, AfterFailure
  <2>6. ASSUME NEW password \in Passwords, NEW handler, Sets(b, handler, password) PROVE TypeInv'
    BY <2>6 DEF Sets, Replace
  <2>. QED
    BY <1>5, <2>1, <2>2, <2>3, <2>4, <2>5, <2>6 DEF Handler, SetupEnds, ChangeEnds
<1>. QED
  BY <1>1, <1>2, <1>3, <1>4, <1>5 DEF Next, Handler

(* Types, and that no session and no cooldown outlasts its length from now.   *)
THEOREM TypeCorrect == Spec => []TypeOK
<1>1. Init => TypeInv
  BY NumbersAssumption DEF Init, TypeInv, TypeOK, NoPassword, NoEntry
<1>2. TypeInv => TypeOK
  BY DEF TypeInv
<1>. QED
  BY <1>1, <1>2, TypeStep, PTL DEF Spec

(* The three together: nobody works under an earlier password.                 *)
THEOREM NoEarlierPassword == Spec => []AuthInv
<1>1. TypeOK /\ SessionsAreCurrent /\ CacheTruthful => AuthInv
  BY DEF AuthInv
<1>. QED
  BY <1>1, TypeCorrect, SessionsCurrent, CacheIsTruthful, PTL

(* ------------------------------- limiter ---------------------------------- *)
(* The failures the limiter does not count any more are no longer recent, and *)
(* an address is blocked until the cooldown after its last failure is over.   *)
LimitInv ==
    /\ now \in Nat /\ failed \in Seq(Nat)
    /\ \A i \in 1..Len(failed) : failed[i] <= now
    /\ \A i, j \in 1..Len(failed) : i <= j => failed[i] <= failed[j]
    /\ failures.count \in 0..Len(failed) /\ failures.until \in Nat
    /\ \A i \in 1..(Len(failed) - failures.count) : failed[i] + Cooldown <= now
    /\ failures.until # 0 => failures.count >= MaxFailures
    /\ failures.count >= MaxFailures => failures.until = failed[Len(failed)] + Cooldown

LEMMA Forgets ==
  ASSUME LimitInv, Expired
  PROVE  \A i \in 1..Len(failed) : failed[i] + Cooldown <= now
<1>. USE NumbersAssumption DEF LimitInv
<1>1. /\ Len(failed) \in Nat /\ Len(failed) >= 1
      /\ failures.until = failed[Len(failed)] + Cooldown /\ now >= failures.until
  BY DEF Expired
<1>2. \A i \in 1..Len(failed) : failed[i] \in Nat /\ failed[i] <= failed[Len(failed)]
  BY <1>1
<1>. QED
  BY <1>1, <1>2

LEMMA OneMoreFailure ==
  ASSUME NEW s \in Seq(Nat), NEW n \in Nat, NEW d \in Nat,
         \A i \in 1..Len(s) : s[i] <= n,
         \A i, j \in 1..Len(s) : i <= j => s[i] <= s[j],
         NEW t, t = Append(s, n)
  PROVE  /\ t \in Seq(Nat) /\ Len(t) = Len(s) + 1 /\ t[Len(t)] = n
         /\ \A i \in 1..Len(t) : t[i] <= n
         /\ \A i, j \in 1..Len(t) : i <= j => t[i] <= t[j]
         /\ \A c \in 0..Len(s) :
              (\A i \in 1..(Len(s) - c) : s[i] + d <= n) => \A i \in 1..(Len(t) - (c + 1)) : t[i] + d <= n
<1>1. /\ t \in Seq(Nat) /\ Len(s) \in Nat /\ Len(t) = Len(s) + 1 /\ t[Len(s) + 1] = n
      /\ \A i \in 1..Len(s) : t[i] = s[i]
  BY AppendProperties
<1>2. \A i \in 1..Len(t) : i \in 1..Len(s) \/ i = Len(s) + 1
  BY <1>1
<1>3. \A i \in 1..Len(t) : t[i] <= n
  BY <1>1, <1>2
<1>4. \A i, j \in 1..Len(t) : i <= j => t[i] <= t[j]
  BY <1>1, <1>2, <1>3
<1>5. ASSUME NEW c \in 0..Len(s), \A i \in 1..(Len(s) - c) : s[i] + d <= n
      PROVE  \A i \in 1..(Len(t) - (c + 1)) : t[i] + d <= n
  <2>1. \A i \in 1..(Len(t) - (c + 1)) : i \in 1..(Len(s) - c) /\ i \in 1..Len(s)
    BY <1>1
  <2>. QED
    BY <1>1, <1>5, <2>1
<1>. QED
  BY <1>1, <1>3, <1>4, <1>5

LEMMA LimitStep == LimitInv /\ [Next]_vars => LimitInv'
<1>. SUFFICES ASSUME LimitInv, [Next]_vars PROVE LimitInv'
  OBVIOUS
<1>. USE NumbersAssumption DEF login
<1>1. CASE UNCHANGED <<failures, failed, now>>
  BY <1>1 DEF LimitInv
<1>2. CASE Tick
  BY <1>2 DEF Tick, LimitInv
<1>3. CASE failures' = NoEntry /\ failed' = <<>> /\ now' = now
  BY <1>3 DEF LimitInv, NoEntry
<1>4. CASE Expired /\ failures' = NoEntry /\ UNCHANGED <<failed, now>>
  BY <1>4, Forgets DEF LimitInv, NoEntry
<1>5. CASE failures' = AfterFailure /\ failed' = Append(failed, now) /\ now' = now
  <2>. DEFINE count == IF Expired THEN 1 ELSE failures.count + 1
  <2>1. failures' = [count |-> count,
                     until |-> IF count >= MaxFailures THEN now + Cooldown
                               ELSE IF Expired THEN 0 ELSE failures.until]
    BY <1>5 DEF AfterFailure
  <2>2. \E c \in 0..Len(failed) :
           count = c + 1 /\ \A i \in 1..(Len(failed) - c) : failed[i] + Cooldown <= now
    BY Forgets DEF LimitInv
  <2>. HIDE DEF count
  <2>3. /\ failed' \in Seq(Nat) /\ Len(failed') = Len(failed) + 1 /\ failed'[Len(failed')] = now
        /\ \A i \in 1..Len(failed') : failed'[i] <= now
        /\ \A i, j \in 1..Len(failed') : i <= j => failed'[i] <= failed'[j]
        /\ \A i \in 1..(Len(failed') - count) : failed'[i] + Cooldown <= now
    BY <1>5, <2>2, OneMoreFailure DEF LimitInv
  <2>4. count < MaxFailures => Expired \/ failures.until = 0
    BY <2>2 DEF LimitInv, count
  <2>5. count \in 0..Len(failed') /\ failures'.count = count /\ failures'.until \in Nat
        /\ failures'.until = (IF count >= MaxFailures THEN now + Cooldown ELSE 0)
    BY <2>1, <2>2, <2>3, <2>4 DEF LimitInv
  <2>. QED
    BY <1>5, <2>3, <2>5 DEF LimitInv
<1>6. ASSUME NEW b \in Browsers, Handler(b)
      PROVE  \/ UNCHANGED <<failures, failed, now>>
             \/ failures' = NoEntry /\ failed' = <<>> /\ now' = now
             \/ Expired /\ failures' = NoEntry /\ UNCHANGED <<failed, now>>
             \/ failures' = AfterFailure /\ failed' = Append(failed, now) /\ now' = now
  BY <1>6 DEF Handler, LoginBegins, SetupBegins, ChangeBegins, FormRefused, Logout, Visit,
     LoginSucceeds, LoginFails, SetupEnds, ChangeEnds, Sets
<1>7. \/ UNCHANGED <<failures, failed, now>>
      \/ Tick \/ \E b \in Browsers : Handler(b)
  BY DEF Next, Handler, vars, ReaderReads, ReaderVerifies, ReaderStores, SetFinishes, CommandLineReset
<1>. QED
  BY <1>1, <1>2, <1>3, <1>4, <1>5, <1>6, <1>7

LEMMA LimitFollows == LimitInv => LimiterMatches
<1>. SUFFICES ASSUME LimitInv PROVE LimiterMatches
  OBVIOUS
<1>. DEFINE Recent == {i \in DOMAIN failed : failed[i] + Cooldown > now}
            Counted == (Len(failed) - failures.count + 1)..Len(failed)
<1>. USE NumbersAssumption
<1>1. /\ Len(failed) \in Nat /\ DOMAIN failed = 1..Len(failed) /\ failures.count \in 0..Len(failed)
      /\ \A i \in 1..Len(failed) : failed[i] \in Nat
  BY DEF LimitInv
<1>2. Recent \in SUBSET Counted
  <2>. SUFFICES ASSUME NEW i \in 1..Len(failed), failed[i] + Cooldown > now PROVE i \in Counted
    BY <1>1
  <2>1. now \in Nat /\ ~(failed[i] + Cooldown <= now)
    BY <1>1 DEF LimitInv
  <2>2. i \notin 1..(Len(failed) - failures.count)
    BY <2>1 DEF LimitInv
  <2>. QED
    BY <1>1, <2>2
<1>3. IsFiniteSet(Counted) /\ Cardinality(Counted) = failures.count
  <2>1. /\ Len(failed) - failures.count + 1 \in Int /\ Len(failed) \in Int
        /\ IF Len(failed) - failures.count + 1 > Len(failed) THEN failures.count = 0
           ELSE Len(failed) - (Len(failed) - failures.count + 1) + 1 = failures.count
    BY <1>1
  <2>. QED
    BY <2>1, FS_Interval
<1>4. IsFiniteSet(Recent) /\ Cardinality(Recent) \in Nat /\ Cardinality(Recent) <= failures.count
  BY <1>2, <1>3, FS_Subset, FS_CardinalityType
<1>5. Cardinality(Recent) > 0 <=> Recent # {}
  BY <1>4, FS_EmptySet
<1>6. RecentFailures = Cardinality(Recent)
  BY DEF RecentFailures
<1>. HIDE DEF Recent
<1>7. ASSUME RecentFailures >= MaxFailures PROVE Limited
  <2>1. failures.count >= MaxFailures /\ Recent # {}
    BY <1>1, <1>4, <1>5, <1>6, <1>7
  <2>2. PICK i \in 1..Len(failed) : failed[i] + Cooldown > now
    BY <1>1, <2>1 DEF Recent
  <2>3. failed[i] <= failed[Len(failed)] /\ failures.until = failed[Len(failed)] + Cooldown
    BY <1>1, <2>1, <2>2 DEF LimitInv
  <2>. QED
    BY <1>1, <2>1, <2>2, <2>3 DEF Limited, LimitInv
<1>8. ASSUME Limited PROVE RecentFailures > 0 /\ Len(failed) >= MaxFailures
  <2>1. Len(failed) >= 1 /\ failed[Len(failed)] + Cooldown > now
    BY <1>1, <1>8 DEF Limited, LimitInv
  <2>2. Len(failed) \in Recent
    BY <1>1, <2>1 DEF Recent
  <2>3. Len(failed) >= MaxFailures
    BY <1>1, <1>8 DEF Limited
  <2>. QED
    BY <1>5, <1>6, <2>2, <2>3
<1>. QED
  BY <1>7, <1>8 DEF LimiterMatches

(* However many browsers fail at the same time, and whenever a cooldown ends, *)
(* a login is refused when MaxFailures recent ones failed, and only when that *)
(* many failed since the last success, the last one within the cooldown: the  *)
(* count LoginRateLimiter keeps forgets only failures older than the cooldown.*)
THEOREM LimiterCounts == Spec => []LimiterMatches
<1>1. Init => LimitInv
  BY NumbersAssumption DEF Init, LimitInv, NoEntry
<1>. QED
  BY <1>1, LimitStep, LimitFollows, PTL DEF Spec

(* ------------------------- the files of the editor ------------------------ *)
(* The backup that a save needs when it replaces the local file.              *)
BackupOfLocal == IF file["local"] = Files!Missing THEN Files!Marker ELSE file["local"]
WithTemp == op.pc \in {"write", "replace"}

Operations ==
  [pc : {"idle", "copy", "copying", "create", "write", "replace"}, target : Files!Files, new : 0..MaxSaves]

FileTypes ==
  /\ file \in [Files!Files -> -2..MaxSaves] /\ lost \in [Files!Files -> SUBSET (-2..MaxSaves)]
  /\ op \in Operations
  /\ temps \in Nat /\ saves \in 0..MaxSaves /\ crashes \in Nat
  /\ held \in -2..MaxSaves /\ edited \in BOOLEAN

(* Neither the local file nor what a power failure may leave of it is torn;   *)
(* once a save writes it, its backup is complete.                             *)
SaveInv ==
  /\ file["local"] \in 0..MaxSaves /\ lost["local"] \subseteq 0..MaxSaves
  /\ ~edited => held = file["local"]
  /\ temps <= crashes + (IF WithTemp THEN 1 ELSE 0) /\ (WithTemp => temps >= 1)
  /\ op.pc \in {"copy", "copying"} => file["local"] # Files!Missing
  /\ op.pc \in {"create", "write", "replace"} =>
       IF op.target = "local" THEN file["bak"] = BackupOfLocal ELSE file["local"] = Files!Missing

FilesIInv == FileTypes /\ SaveInv

LEMMA IdleType == Files!Idle \in Operations /\ Files!Idle.pc = "idle"
  BY FilesAssumption DEF Files!Idle, Operations, Files!Files, Files!Missing

LEMMA FilesStep ==
  ASSUME FilesIInv, Files!Next \/ UNCHANGED filesVars
  PROVE  FilesIInv'
<1>. USE FilesAssumption DEF Files!Files
<1>1. FileTypes /\ SaveInv
  BY DEF FilesIInv
<1>2. CASE UNCHANGED filesVars
  BY <1>1, <1>2 DEF filesVars, FilesIInv, FileTypes, SaveInv, WithTemp, BackupOfLocal
<1>3. CASE Files!StartSave
  BY <1>1, <1>3 DEF Files!StartSave, FilesIInv, FileTypes, Operations, SaveInv, WithTemp, BackupOfLocal, Files!Missing
<1>4. CASE Files!CopyOpens
  <2>1. FileTypes'
    BY <1>1, <1>4 DEF Files!CopyOpens, FileTypes, Operations, Files!Torn
  <2>2. SaveInv'
    BY <1>1, <1>4 DEF Files!CopyOpens, FileTypes, Operations, SaveInv, WithTemp, Files!Missing
  <2>. QED
    BY <2>1, <2>2 DEF FilesIInv
<1>5. CASE Files!CopyEnds
  <2>1. FileTypes'
    BY <1>1, <1>5 DEF Files!CopyEnds, FileTypes, Operations, Files!AtLocal
  <2>2. SaveInv'
    BY <1>1, <1>5 DEF Files!CopyEnds, FileTypes, Operations, SaveInv, WithTemp, BackupOfLocal, Files!AtLocal, Files!Missing
  <2>. QED
    BY <2>1, <2>2 DEF FilesIInv
<1>6. CASE Files!Create \/ Files!Write
  BY <1>1, <1>6 DEF Files!Create, Files!Write, FilesIInv, FileTypes, Operations, SaveInv, WithTemp, BackupOfLocal
<1>7. CASE Files!Replace
  <2>1. CASE op.target = "bak"
    <3>1. /\ op.pc = "replace" /\ temps' = temps - 1 /\ op' = [op EXCEPT !.pc = "create", !.target = "local"]
          /\ file' = [file EXCEPT !["bak"] = Files!Marker]
          /\ lost' = [lost EXCEPT !["bak"] = @ \cup {file["bak"]}]
          /\ UNCHANGED <<held, edited, saves, crashes>>
      BY <1>7, <2>1 DEF Files!Replace, Files!AtLocal, Files!Undone
    <3>2. FileTypes'
      <4>1. file' \in [Files!Files -> -2..MaxSaves] /\ lost' \in [Files!Files -> SUBSET (-2..MaxSaves)]
        BY <1>1, <3>1 DEF FileTypes, Files!Marker
      <4>2. op' \in Operations
        BY <1>1, <3>1 DEF FileTypes, Operations
      <4>3. temps' \in Nat
        BY <1>1, <3>1 DEF FileTypes, SaveInv, WithTemp
      <4>. QED
        BY <1>1, <3>1, <4>1, <4>2, <4>3 DEF FileTypes
    <3>3. SaveInv'
      BY <1>1, <2>1, <3>1 DEF FileTypes, Operations, SaveInv, WithTemp, BackupOfLocal, Files!Missing
    <3>. QED
      BY <3>2, <3>3 DEF FilesIInv
  <2>2. CASE op.target = "local"
    <3>1. /\ op.pc = "replace" /\ temps' = temps - 1 /\ op' = Files!Idle
          /\ file' = [file EXCEPT !["local"] = op.new]
          /\ lost' = [lost EXCEPT !["local"] = @ \cup {file["local"]}]
          /\ held' = op.new /\ edited' = FALSE /\ UNCHANGED <<saves, crashes>>
      BY <1>7, <2>2 DEF Files!Replace, Files!Undone
    <3>2. FileTypes'
      <4>1. op.new \in -2..MaxSaves
        BY <1>1 DEF FileTypes, Operations
      <4>2. file' \in [Files!Files -> -2..MaxSaves] /\ lost' \in [Files!Files -> SUBSET (-2..MaxSaves)]
        BY <1>1, <3>1, <4>1 DEF FileTypes
      <4>3. temps' \in Nat
        BY <1>1, <3>1 DEF FileTypes, SaveInv, WithTemp
      <4>. QED
        BY <1>1, <3>1, <4>1, <4>2, <4>3, IdleType DEF FileTypes
    <3>3. SaveInv'
      BY <1>1, <3>1, IdleType DEF FileTypes, Operations, SaveInv, WithTemp
    <3>. QED
      BY <3>2, <3>3 DEF FilesIInv
  <2>. QED
    BY <1>1, <2>1, <2>2 DEF FileTypes, Operations
<1>8. CASE Files!Fails
  <2>1. FileTypes'
    BY <1>1, <1>8, IdleType DEF Files!Fails, Files!AfterError, Files!TempsAfterError, FileTypes, SaveInv, WithTemp
  <2>2. SaveInv'
    BY <1>1, <1>8 DEF Files!Fails, Files!AfterError, Files!TempsAfterError, FileTypes, SaveInv, WithTemp, Files!Idle
  <2>. QED
    BY <2>1, <2>2 DEF FilesIInv
<1>9. CASE Files!Crash
  <2>1. FileTypes'
    <3>1. /\ UNCHANGED <<file, lost, temps, saves>> /\ op' = Files!Idle /\ crashes' = crashes + 1
          /\ held' = file["local"] /\ edited' = FALSE
      BY <1>9 DEF Files!Crash, Files!Restarted
    <3>2. held' \in -2..MaxSaves
      BY <1>1, <3>1 DEF FileTypes
    <3>. QED
      <4>1. op' \in Operations
        BY <3>1, IdleType
      <4>2. crashes' \in Nat
        BY <1>1, <3>1 DEF FileTypes
      <4>4. edited' \in BOOLEAN
        BY <3>1, Zenon
      <4>3. temps' \in Nat /\ saves' \in 0..MaxSaves
        BY <1>1, <3>1 DEF FileTypes
      <4>. QED
        BY <1>1, <3>1, <3>2, <4>1, <4>2, <4>3, <4>4 DEF FileTypes
  <2>2. SaveInv'
    BY <1>1, <1>9 DEF Files!Crash, Files!Restarted, FileTypes, SaveInv, WithTemp, Files!Idle
  <2>. QED
    BY <2>1, <2>2 DEF FilesIInv
<1>10. CASE Files!PowerFails
  <2>1. PICK bak \in {file["bak"]} \cup lost["bak"], whole \in {file["local"]} \cup lost["local"] :
          file' = [file EXCEPT !["bak"] = bak, !["local"] = whole]
    BY <1>10 DEF Files!PowerFails
  <2>2. bak \in -2..MaxSaves /\ whole \in 0..MaxSaves
    BY <1>1, <2>1 DEF FileTypes, SaveInv
  <2>3. /\ lost' = [f \in Files!Files |-> {}] /\ crashes' = crashes + 1 /\ op' = Files!Idle
        /\ held' = file'["local"] /\ edited' = FALSE /\ UNCHANGED <<temps, saves>>
    BY <1>10 DEF Files!PowerFails, Files!Restarted
  <2>4. FileTypes'
    <3>1. file' \in [Files!Files -> -2..MaxSaves] /\ lost' \in [Files!Files -> SUBSET (-2..MaxSaves)]
      BY <1>1, <2>1, <2>2, <2>3 DEF FileTypes
    <3>2. held' \in -2..MaxSaves
      BY <2>3, <3>1
    <3>. QED
      <4>1. op' \in Operations
        BY <2>3, IdleType
      <4>2. crashes' \in Nat
        BY <1>1, <2>3 DEF FileTypes
      <4>4. edited' \in BOOLEAN
        BY <2>3, Zenon
      <4>3. temps' \in Nat /\ saves' \in 0..MaxSaves
        BY <1>1, <2>3 DEF FileTypes
      <4>. QED
        BY <1>1, <2>3, <3>1, <3>2, <4>1, <4>2, <4>3, <4>4 DEF FileTypes
  <2>5. SaveInv'
    BY <1>1, <2>1, <2>2, <2>3 DEF FileTypes, SaveInv, WithTemp, Files!Idle
  <2>. QED
    BY <2>4, <2>5 DEF FilesIInv
<1>11. CASE Files!Flush
  BY <1>1, <1>11 DEF Files!Flush, FilesIInv, FileTypes, SaveInv, WithTemp, BackupOfLocal
<1>12. CASE Files!HandEdit
  <2>1. FileTypes'
    BY <1>1, <1>12 DEF Files!HandEdit, FileTypes
  <2>2. SaveInv'
    BY <1>1, <1>12 DEF Files!HandEdit, FileTypes, SaveInv, WithTemp
  <2>. QED
    BY <2>1, <2>2 DEF FilesIInv
<1>. QED
  BY <1>2, <1>3, <1>4, <1>5, <1>6, <1>7, <1>8, <1>9, <1>10, <1>11, <1>12 DEF Files!Next

LEMMA FilesInvariant == MCSpec => []FilesIInv
<1>1. MCInit => FilesIInv
  <2>. SUFFICES ASSUME MCInit PROVE FilesIInv
    OBVIOUS
  <2>1. /\ file = [f \in Files!Files |-> 0] /\ lost = [f \in Files!Files |-> {}]
        /\ temps = 0 /\ op = Files!Idle /\ held = 0 /\ edited = FALSE /\ saves = 0 /\ crashes = 0
    BY DEF MCInit, Files!Init, Files!Missing
  <2>2. file \in [Files!Files -> -2..MaxSaves] /\ lost \in [Files!Files -> SUBSET (-2..MaxSaves)]
    BY <2>1, FilesAssumption
  <2>3. FileTypes
    <3>1. op \in Operations
      BY <2>1, IdleType
    <3>2. /\ 0 \in -2..MaxSaves /\ 0 \in 0..MaxSaves
      BY FilesAssumption
    <3>. QED
      BY <2>1, <2>2, <3>1, <3>2 DEF FileTypes
  <2>4. SaveInv
    BY <2>1, IdleType, FilesAssumption DEF SaveInv, WithTemp, Files!Files
  <2>. QED
    BY <2>3, <2>4 DEF FilesIInv
<1>2. [MCNext]_mcVars => Files!Next \/ UNCHANGED filesVars
  BY DEF MCNext, mcVars, filesVars
<1>. QED
  BY <1>1, <1>2, FilesStep, PTL DEF MCSpec

(* Whichever call of a save fails or is the last before the process dies or   *)
(* the power fails, config.local.yaml is whole, the editor holds what it says *)
(* and no error leaves a temporary file, for any number of saves, failures    *)
(* and crashes (save_patch, import_mapping, atomic_write_text).               *)
THEOREM FilesAreWhole == MCSpec => []FilesInv
<1>1. ASSUME FilesIInv PROVE FilesInv
  <2>1. FileTypes /\ SaveInv
    BY <1>1 DEF FilesIInv
  <2>2. Files!TypeOK
    BY <2>1 DEF FileTypes, Operations, Files!TypeOK
  <2>3. Files!LocalIsWhole
    BY <2>1, FilesAssumption DEF SaveInv, Files!LocalIsWhole, Files!Torn, Files!Marker
  <2>4. Files!EditorFollows /\ Files!TempsAreRemoved
    BY <2>1 DEF SaveInv, WithTemp, Files!EditorFollows, Files!TempsAreRemoved
  <2>. QED
    BY <2>2, <2>3, <2>4 DEF FilesInv, Files!FilesInv
<1>. QED
  BY <1>1, FilesInvariant, PTL

LEMMA BackupsHold == MCSpec => Files!ReplacedIsKept
<1>. DEFINE Kept == op.pc = "replace" /\ op.target = "local" /\ op' = Files!Idle /\ crashes' = crashes
                      /\ file'["local"] # file["local"]
                    => file["bak"] = IF file["local"] = Files!Missing THEN Files!Marker ELSE file["local"]
<1>1. FilesIInv => [Kept]_filesVars
  BY DEF FilesIInv, SaveInv, BackupOfLocal
<1>. QED
  BY <1>1, FilesInvariant, PTL DEF Files!ReplacedIsKept, Files!vars, filesVars

(* ---------------------------- configuration ------------------------------- *)
NoExtra(doc) == <<"extra">> \notin DOMAIN doc
HasType(doc) == <<"switcher">> \in DOMAIN doc
HasButtons(doc) == \A b \in Buttons : <<"button", b, "action">> \in DOMAIN doc

(* A configuration, as the editor and the runtime hold it, and what a page    *)
(* shows of it and sends back.                                                *)
Config(doc) == NoExtra(doc) /\ HasType(doc) /\ Slots(doc)
Form(doc) == Config(doc) /\ HasButtons(doc)

(* What is submitted is a form; what is applied was loaded from the files.    *)
FormInv ==
  /\ Slots(local)
  /\ editor = Store!Failed => runtime = Store!Failed
  /\ runtime = Store!Failed => applying = Store!Failed
  /\ editor # Store!Failed => Config(editor) /\ Store!CrossReferencesOk(editor)
  /\ runtime # Store!Failed => Store!CrossReferencesOk(runtime)
  /\ applying # Store!Failed => Config(applying) /\ Store!CrossReferencesOk(applying)
  /\ applying # Store!Failed => applying = Store!Load(local)
  /\ page = [t \in Tabs |-> page[t]] /\ \A t \in Tabs : Form(page[t])
  /\ ~newer /\ runtime # Store!Failed => runtime = Store!Load(local)
  /\ writes \in 0..MaxWrites /\ newer \in BOOLEAN /\ writer \in {"nobody", "form", "import", "hand"}

LEMMA MergeIs ==
  ASSUME NEW a, NEW b
  PROVE  /\ DOMAIN Store!DeepMerge(a, b) = DOMAIN a \cup DOMAIN b
         /\ \A p \in DOMAIN b : Store!DeepMerge(a, b)[p] = b[p]
         /\ \A p \in DOMAIN a : p \notin DOMAIN b => Store!DeepMerge(a, b)[p] = a[p]
  BY DEF Store!DeepMerge

LEMMA RestrictIs ==
  ASSUME NEW f, NEW S
  PROVE  DOMAIN Store!Restrict(f, S) = S /\ \A p \in S : Store!Restrict(f, S)[p] = f[p]
  BY DEF Store!Restrict

LEMMA EntryIs ==
  ASSUME NEW path, NEW value
  PROVE  DOMAIN Store!Entry(path, value) = {path} /\ Store!Entry(path, value)[path] = value
  BY DEF Store!Entry

LEMMA MergeSlots ==
  ASSUME NEW a, NEW b, Slots(a), Slots(b)
  PROVE  Slots(Store!DeepMerge(a, b))
<1>. DEFINE m == Store!DeepMerge(a, b)
<1>1. DOMAIN m = DOMAIN a \cup DOMAIN b
  BY MergeIs
<1>. HIDE DEF m
<1>2. Slots(m)
  BY <1>1 DEF Slots
<1>. QED
  BY <1>2 DEF m

(* The slots that a Deck's defaults add come with all their fields.           *)
LEMMA DefaultPaths ==
  /\ \A p \in DOMAIN Store!DeckDefaults :
       \/ \E c : p = <<"cam", c, "host">> /\ <<"cam", c, "enabled">> \in DOMAIN Store!DeckDefaults
       \/ \E c : p = <<"cam", c, "enabled">> /\ <<"cam", c, "host">> \in DOMAIN Store!DeckDefaults
       \/ \E c : p = <<"map", c>>
  BY DEF Store!DeckDefaults

Missing(doc) == {p \in DOMAIN Store!DeckDefaults : p[2] \notin Store!Ids(doc, p[1])}

LEMMA DefaultedIs ==
  ASSUME NEW doc, NEW fill \in BOOLEAN, Store!TypeOf(doc) = "deck"
  PROVE  LET d == Store!Defaulted(doc, fill)
         IN /\ DOMAIN d = DOMAIN doc \cup Missing(doc)
            /\ \A p \in Missing(doc) : d[p] = Store!DeckDefaults[p]
            /\ ~fill => \A p \in DOMAIN doc : p \notin Missing(doc) => d[p] = doc[p]
            /\ \E S : d = Store!DeepMerge(doc, Store!Restrict(Store!DeckDefaults, S))
<1>. DEFINE unmapped == {p \in DOMAIN Store!DeckDefaults \cap DOMAIN doc :
                           fill /\ p[1] = "map" /\ doc[p] = Store!Null}
            added == Missing(doc) \cup unmapped
            d == Store!Defaulted(doc, fill)
<1>1. d = Store!DeepMerge(doc, Store!Restrict(Store!DeckDefaults, added))
  BY DEF Store!Defaulted, Missing
<1>2. Missing(doc) \subseteq added /\ added \subseteq Missing(doc) \cup DOMAIN doc
      /\ (~fill => added = Missing(doc))
  OBVIOUS
<1>. HIDE DEF added, d
<1>. DEFINE r == Store!Restrict(Store!DeckDefaults, added)
<1>3. DOMAIN r = added /\ \A p \in added : r[p] = Store!DeckDefaults[p]
  BY RestrictIs
<1>4. d = Store!DeepMerge(doc, r)
  BY <1>1
<1>. HIDE DEF r
<1>5. /\ DOMAIN d = DOMAIN doc \cup added
      /\ \A p \in added : d[p] = Store!DeckDefaults[p]
      /\ \A p \in DOMAIN doc : p \notin added => d[p] = doc[p]
  <2>1. /\ DOMAIN d = DOMAIN doc \cup DOMAIN r
        /\ \A p \in DOMAIN r : d[p] = r[p]
        /\ \A p \in DOMAIN doc : p \notin DOMAIN r => d[p] = doc[p]
    BY <1>4 DEF Store!DeepMerge
  <2>. QED
    BY <1>3, <2>1
<1>6. /\ DOMAIN d = DOMAIN doc \cup Missing(doc)
      /\ \A p \in Missing(doc) : d[p] = Store!DeckDefaults[p]
      /\ ~fill => \A p \in DOMAIN doc : p \notin Missing(doc) => d[p] = doc[p]
  BY <1>2, <1>5
<1>. QED
  BY <1>1, <1>6 DEF d

LEMMA DefaultedKeeps ==
  ASSUME NEW doc, NEW fill \in BOOLEAN, HasType(doc), Slots(doc)
  PROVE  HasType(Store!Defaulted(doc, fill)) /\ Slots(Store!Defaulted(doc, fill))
<1>1. CASE Store!TypeOf(doc) # "deck"
  BY <1>1 DEF Store!Defaulted
<1>2. CASE Store!TypeOf(doc) = "deck"
  <2>. DEFINE d == Store!Defaulted(doc, fill)
  <2>1. DOMAIN d = DOMAIN doc \cup Missing(doc)
    BY <1>2, DefaultedIs
  <2>. HIDE DEF d
  <2>2. ASSUME NEW p \in DOMAIN d
        PROVE  /\ p[1] = "cam" => <<"cam", p[2], "host">> \in DOMAIN d /\ <<"cam", p[2], "enabled">> \in DOMAIN d
               /\ p[1] = "map" => <<"map", p[2]>> \in DOMAIN d
    <3>1. CASE p \in DOMAIN doc
      BY <2>1, <3>1 DEF Slots
    <3>2. CASE p \in Missing(doc)
      <4>1. p \in DOMAIN Store!DeckDefaults /\ p[2] \notin Store!Ids(doc, p[1])
        BY <3>2 DEF Missing
      <4>2. ASSUME NEW c, NEW q \in DOMAIN Store!DeckDefaults, q[1] = p[1], q[2] = p[2]
            PROVE  q \in DOMAIN d
        BY <2>1, <4>1, <4>2 DEF Missing
      <4>3. ASSUME NEW c, p = <<"cam", c, "host">>, <<"cam", c, "enabled">> \in DOMAIN Store!DeckDefaults
            PROVE  p[1] = "cam" /\ p[2] = c /\ <<"cam", c, "enabled">> \in DOMAIN d
        <5>1. p[1] = "cam" /\ p[2] = c /\ <<"cam", c, "enabled">>[1] = "cam" /\ <<"cam", c, "enabled">>[2] = c
          BY <4>3
        <5>. QED
          BY <4>2, <4>3, <5>1
      <4>4. ASSUME NEW c, p = <<"cam", c, "enabled">>, <<"cam", c, "host">> \in DOMAIN Store!DeckDefaults
            PROVE  p[1] = "cam" /\ p[2] = c /\ <<"cam", c, "host">> \in DOMAIN d
        <5>1. p[1] = "cam" /\ p[2] = c /\ <<"cam", c, "host">>[1] = "cam" /\ <<"cam", c, "host">>[2] = c
          BY <4>4
        <5>. QED
          BY <4>2, <4>4, <5>1
      <4>5. ASSUME NEW c, p = <<"map", c>>
            PROVE  p[1] = "map" /\ p[2] = c
        BY <4>5
      <4>. QED
        BY <2>2, <4>1, <4>3, <4>4, <4>5, DefaultPaths
    <3>. QED
      BY <2>1, <2>2, <3>1, <3>2
  <2>. QED
    BY <2>1, <2>2 DEF d, Slots, HasType
<1>. QED
  BY <1>1, <1>2

LEMMA ParseGives ==
  ASSUME NEW doc, HasType(doc), Slots(doc), Store!Parse(doc) # Store!Failed
  PROVE  Config(Store!Parse(doc)) /\ Store!CrossReferencesOk(Store!Parse(doc))
<1>. DEFINE full == Store!Defaulted(doc, FALSE)
            config == Store!Parse(doc)
<1>1. HasType(full) /\ Slots(full)
  BY DefaultedKeeps
<1>2. Store!CrossReferencesOk(full) /\ config = Store!Without(full, "extra")
  BY DEF Store!Parse
<1>. HIDE DEF full, config
<1>3. /\ DOMAIN config = {p \in DOMAIN full : p[1] # "extra"}
      /\ \A p \in DOMAIN config : config[p] = full[p]
  BY <1>2, RestrictIs DEF Store!Without
<1>4. Config(config)
  BY <1>1, <1>3 DEF Config, NoExtra, HasType, Slots
<1>5. /\ \A kind \in {"cam", "map", "button"} : Store!Ids(config, kind) = Store!Ids(full, kind)
      /\ Store!TypeOf(config) = Store!TypeOf(full)
      /\ \A b, f : Store!Get(config, <<"button", b, f>>) = Store!Get(full, <<"button", b, f>>)
      /\ \A c : Store!Get(config, <<"map", c>>) = Store!Get(full, <<"map", c>>)
  BY <1>1, <1>3 DEF Store!Ids, Store!TypeOf, Store!Get, HasType
<1>6. \A s \in Store!Ids(config, "map") : config[<<"map", s>>] = full[<<"map", s>>]
  BY <1>3, <1>4 DEF Store!Ids, Config, Slots
<1>7. Store!CrossReferencesOk(config)
  BY <1>2, <1>5, <1>6 DEF Store!CrossReferencesOk, Store!ButtonsOk, Store!ButtonOk
<1>. QED
  BY <1>4, <1>7 DEF config

LEMMA LoadGives ==
  ASSUME NEW f, Slots(f), Store!Load(f) # Store!Failed
  PROVE  Config(Store!Load(f)) /\ Store!CrossReferencesOk(Store!Load(f))
<1>1. Slots(Example) /\ HasType(Example)
  BY StoreAssumption DEF HasType
<1>2. \A g : HasType(g) /\ Slots(g) => HasType(Store!DeepMerge(g, f)) /\ Slots(Store!DeepMerge(g, f))
  BY MergeIs, MergeSlots DEF HasType
<1>. DEFINE type == Store!TypeOf(Store!DeepMerge(Example, f))
            typed == Store!DeepMerge(Example, Store!Entry(<<"switcher">>, type))
            base == Store!Defaulted(typed, TRUE)
<1>3. HasType(typed) /\ Slots(typed)
  <2>1. Slots(Store!Entry(<<"switcher">>, type))
    BY DEF Slots, Store!Entry
  <2>2. DOMAIN typed = DOMAIN Example \cup {<<"switcher">>}
    BY DEF Store!Entry, Store!DeepMerge
  <2>. QED
    BY <1>1, <2>1, <2>2, MergeSlots DEF HasType
<1>. HIDE DEF typed
<1>4. HasType(base) /\ Slots(base)
  BY <1>3, DefaultedKeeps
<1>. HIDE DEF base
<1>. DEFINE doc == Store!DeepMerge(IF type = "deck" THEN base ELSE Example, f)
<1>5. HasType(doc) /\ Slots(doc)
  BY <1>1, <1>2, <1>4
<1>6. Store!Load(f) = Store!Parse(doc)
  BY DEF Store!Load, base, typed
<1>. HIDE DEF doc
<1>. QED
  BY <1>5, <1>6, ParseGives

LEMMA PayloadGives ==
  ASSUME NEW config, Config(config)
  PROVE  Form(Store!Payload(config))
<1>. DEFINE p == Store!Payload(config)
<1>1. DOMAIN p = DOMAIN config \cup {<<"button", b, "action">> : b \in Buttons}
  BY DEF Store!Payload
<1>. HIDE DEF p
<1>2. Form(p)
  BY <1>1 DEF Form, Config, NoExtra, HasType, HasButtons, Slots
<1>. QED
  BY <1>2 DEF p

LEMMA EditedIsForm ==
  ASSUME NEW p, Form(p), NEW q \in Store!Edited(p)
  PROVE  Form(q)
<1>1. ASSUME DOMAIN q = DOMAIN p PROVE Form(q)
  BY <1>1 DEF Form, Config, NoExtra, HasType, HasButtons, Slots
<1>2. CASE q = p \/ \E t \in {"vmix", "deck"} : q = [p EXCEPT ![<<"switcher">>] = t]
  BY <1>1, <1>2
<1>3. CASE \E s \in Store!Ids(p, "map"), c \in Store!Ids(p, "cam") \cup {Store!Null} : q = [p EXCEPT ![<<"map", s>>] = c]
  BY <1>1, <1>3
<1>4. ASSUME NEW c \in Store!Ids(p, "cam"), NEW h, NEW e, q = Store!DeepMerge(p, Store!CameraFields(c, h, e))
      PROVE  Form(q)
  <2>1. DOMAIN Store!CameraFields(c, h, e) = {<<"cam", c, "host">>, <<"cam", c, "enabled">>}
    BY DEF Store!CameraFields, Store!Entry, Store!DeepMerge
  <2>2. {<<"cam", c, "host">>, <<"cam", c, "enabled">>} \subseteq DOMAIN p
    BY DEF Store!Ids, Form, Config, Slots
  <2>3. DOMAIN q = DOMAIN p
    BY <1>4, <2>1, <2>2 DEF Store!DeepMerge
  <2>. QED
    BY <1>1, <2>3
<1>5. ASSUME NEW b \in Buttons, NEW e \in Store!ButtonEntries(b), q = Store!DeepMerge(Store!ClearButton(p, b), e)
      PROVE  Form(q)
  <2>1. /\ <<"button", b, "action">> \in DOMAIN e
        /\ \A x \in DOMAIN e : \E f : x = <<"button", b, f>>
    <3>1. PICK action, field, value : e = Store!ButtonEntry(b, action, field, value)
      BY DEF Store!ButtonEntries
    <3>. DEFINE first == IF field = "" THEN Store!NoFile ELSE Store!Entry(<<"button", b, field>>, value)
    <3>2. e = Store!DeepMerge(first, Store!Entry(<<"button", b, "action">>, action))
      BY <3>1 DEF Store!ButtonEntry
    <3>3. DOMAIN first \subseteq {<<"button", b, field>>}
      <4>1. CASE field = ""
        <5>1. DOMAIN Store!NoFile = {}
          BY DEF Store!NoFile
        <5>. QED
          BY <4>1, <5>1
      <4>2. CASE field # ""
        BY <4>2 DEF Store!Entry
      <4>. QED
        BY <4>1, <4>2
    <3>. HIDE DEF first
    <3>4. DOMAIN e = DOMAIN first \cup {<<"button", b, "action">>}
      BY <3>2 DEF Store!Entry, Store!DeepMerge
    <3>. QED
      BY <3>3, <3>4
  <2>2. DOMAIN Store!ClearButton(p, b) = {x \in DOMAIN p : ~(x[1] = "button" /\ x[2] = b)}
    BY RestrictIs DEF Store!ClearButton
  <2>3. DOMAIN q = {x \in DOMAIN p : ~(x[1] = "button" /\ x[2] = b)} \cup DOMAIN e
    BY <1>5, <2>2 DEF Store!DeepMerge
  <2>4. \A x \in DOMAIN q : x \in DOMAIN p \/ x[1] = "button"
    BY <2>1, <2>3
  <2>5. \A x \in DOMAIN p : x[1] # "button" => x \in DOMAIN q
    BY <2>3
  <2>6. HasButtons(q)
    BY <2>1, <2>3 DEF HasButtons, Form
  <2>7. NoExtra(q) /\ HasType(q)
    BY <2>4, <2>5 DEF NoExtra, HasType, Form, Config
  <2>8. Slots(q)
    <3>. SUFFICES ASSUME NEW x \in DOMAIN q
                  PROVE  /\ x[1] = "cam" => {<<"cam", x[2], "host">>, <<"cam", x[2], "enabled">>} \subseteq DOMAIN q
                         /\ x[1] = "map" => <<"map", x[2]>> \in DOMAIN q
      BY DEF Slots
    <3>1. x[1] = "cam" => {<<"cam", x[2], "host">>, <<"cam", x[2], "enabled">>} \subseteq DOMAIN p
      BY <2>4 DEF Form, Config, Slots
    <3>2. x[1] = "map" => <<"map", x[2]>> \in DOMAIN p
      BY <2>4 DEF Form, Config, Slots
    <3>. QED
      BY <2>5, <3>1, <3>2
  <2>. QED
    BY <2>6, <2>7, <2>8 DEF Form, Config
<1>6. \/ q = p \/ q \in Store!TypeEdits(p) \/ q \in Store!CameraEdits(p)
      \/ q \in Store!MappingEdits(p) \/ q \in Store!ButtonEdits(p)
  BY DEF Store!Edited
<1>7. q \in Store!ButtonEdits(p) =>
        \E b \in Buttons : \E e \in Store!ButtonEntries(b) : q = Store!DeepMerge(Store!ClearButton(p, b), e)
  BY Zenon DEF Store!ButtonEdits
<1>8. CASE \E c \in Store!Ids(p, "cam"), h \in Hosts \cup {Store!Null}, e \in {"on", "off"} :
             q = Store!DeepMerge(p, Store!CameraFields(c, h, e))
  BY <1>4, <1>8
<1>9. CASE \E b \in Buttons : \E e \in Store!ButtonEntries(b) : q = Store!DeepMerge(Store!ClearButton(p, b), e)
  BY <1>5, <1>9
<1>10. /\ q \in Store!TypeEdits(p) => \E t \in {"vmix", "deck"} : q = [p EXCEPT ![<<"switcher">>] = t]
       /\ q \in Store!MappingEdits(p) =>
            \E s \in Store!Ids(p, "map"), c \in Store!Ids(p, "cam") \cup {Store!Null} : q = [p EXCEPT ![<<"map", s>>] = c]
  BY DEF Store!TypeEdits, Store!MappingEdits
<1>11. q \in Store!CameraEdits(p) =>
         \E c \in Store!Ids(p, "cam"), h \in Hosts \cup {Store!Null}, e \in {"on", "off"} :
            q = Store!DeepMerge(p, Store!CameraFields(c, h, e))
  BY DEF Store!CameraEdits
<1>. QED
  BY <1>2, <1>3, <1>6, <1>7, <1>8, <1>9, <1>10, <1>11

LEMMA FormPayloadIsForm ==
  ASSUME NEW p, Form(p), Config(editor)
  PROVE  Form(Store!FormPayload(p))
<1>. DEFINE unseen == {q \in DOMAIN editor : q[1] \in {"cam", "map"} /\ q \notin DOMAIN p}
            seen == {q \in DOMAIN p : q[1] \in {"cam", "map"} => q \in DOMAIN editor}
            own == [q \in unseen |-> IF q[Len(q)] = "enabled" THEN "off" ELSE editor[q]]
            d == Store!FormPayload(p)
<1>1. d = Store!DeepMerge(own, Store!Restrict(p, seen))
  BY DEF Store!FormPayload
<1>2. DOMAIN own = unseen
  OBVIOUS
<1>. HIDE DEF own, d
<1>3. DOMAIN d = unseen \cup seen
  <2>. HIDE DEF seen, unseen
  <2>. QED
    BY <1>1, <1>2 DEF Store!DeepMerge, Store!Restrict
<1>4. /\ \A q \in DOMAIN d : q[1] \in {"cam", "map"} => q \in DOMAIN editor
      /\ \A q \in DOMAIN editor : q[1] \in {"cam", "map"} => q \in DOMAIN d
      /\ \A q \in DOMAIN p : q[1] \notin {"cam", "map"} => q \in DOMAIN d
      /\ \A q \in DOMAIN d : q \in DOMAIN editor \/ q \in DOMAIN p
  BY <1>3
<1>5. NoExtra(d) /\ HasType(d) /\ HasButtons(d)
  BY <1>4 DEF Form, Config, NoExtra, HasType, HasButtons
<1>6. Slots(d)
  BY <1>4 DEF Config, Slots
<1>. QED
  BY <1>5, <1>6 DEF Form, Config, d

(* No button of the example needs a source or a preset number.                *)
PlainButtons ==
  \A p \in DOMAIN Example : p[1] = "button" => \E b \in Buttons : p = <<"button", b, "action">>

LEMMA MergedIs ==
  ASSUME NEW patch, Form(patch), Slots(local), NEW doc, doc = Store!Merged(patch)
  PROVE  /\ HasType(doc) /\ Slots(doc)
         /\ doc = [p \in DOMAIN doc |-> doc[p]]
         /\ PlainButtons => DOMAIN Example \subseteq DOMAIN doc
         /\ Store!Get(doc, <<"extra">>) = Store!Get(Store!DeepMerge(Example, local), <<"extra">>)
<1>. DEFINE files == Store!DeepMerge(Example, local)
            deep == Store!DeepMerge(files, patch)
            first == Store!Only(patch, "button")
            rest == Store!Without(deep, "button")
<1>1. doc = Store!DeepMerge(first, rest)
  BY DEF Store!Merged
<1>2. DOMAIN files = DOMAIN Example \cup DOMAIN local
  BY DEF Store!DeepMerge
<1>. HIDE DEF files
<1>3. DOMAIN deep = DOMAIN files \cup DOMAIN patch /\ \A p \in DOMAIN files : p \notin DOMAIN patch => deep[p] = files[p]
  BY DEF Store!DeepMerge
<1>. HIDE DEF deep
<1>4. /\ DOMAIN first = {p \in DOMAIN patch : p[1] = "button"}
      /\ DOMAIN rest = {p \in DOMAIN deep : p[1] # "button"}
      /\ \A p \in DOMAIN rest : rest[p] = deep[p]
  BY DEF Store!Only, Store!Without, Store!Restrict
<1>. HIDE DEF first, rest
<1>5. /\ DOMAIN doc = DOMAIN first \cup DOMAIN rest
      /\ \A p \in DOMAIN rest : doc[p] = rest[p]
      /\ doc = [p \in DOMAIN doc |-> doc[p]]
  BY <1>1 DEF Store!DeepMerge
<1>6. /\ \A p \in DOMAIN doc : p \in DOMAIN Example \/ p \in DOMAIN local \/ p \in DOMAIN patch
      /\ \A p : p[1] # "button" /\ (p \in DOMAIN Example \/ p \in DOMAIN local \/ p \in DOMAIN patch) => p \in DOMAIN doc
      /\ \A p \in DOMAIN patch : p[1] = "button" => p \in DOMAIN doc
  BY <1>2, <1>3, <1>4, <1>5
<1>7. HasType(doc)
  BY <1>6 DEF HasType, Form, Config
<1>8. Slots(doc)
  BY <1>6, StoreAssumption DEF Form, Config, Slots
<1>9. PlainButtons => DOMAIN Example \subseteq DOMAIN doc
  BY <1>6 DEF PlainButtons, Form, HasButtons
<1>10. Store!Get(doc, <<"extra">>) = Store!Get(files, <<"extra">>)
  <2>1. <<"extra">>[1] = "extra" /\ <<"extra">> \notin DOMAIN patch
    BY DEF Form, Config, NoExtra
  <2>2. <<"extra">> \in DOMAIN files <=> <<"extra">> \in DOMAIN doc
    BY <1>3, <1>4, <1>5, <2>1
  <2>3. <<"extra">> \in DOMAIN files => doc[<<"extra">>] = files[<<"extra">>]
    BY <1>3, <1>4, <1>5, <2>1
  <2>. QED
    BY <2>2, <2>3 DEF Store!Get
<1>. QED
  BY <1>5, <1>7, <1>8, <1>9, <1>10 DEF files

(* The files that a save has written load as what the editor parsed.          *)
LEMMA LoadIsParse ==
  ASSUME NEW doc, doc = [p \in DOMAIN doc |-> doc[p]], DOMAIN Example \subseteq DOMAIN doc,
         HasType(doc), Slots(doc)
  PROVE  Store!Load(doc) = Store!Parse(doc)
<1>1. Store!DeepMerge(Example, doc) = doc
  BY DEF Store!DeepMerge
<1>2. CASE Store!TypeOf(doc) # "deck"
  BY <1>1, <1>2 DEF Store!Load
<1>3. CASE Store!TypeOf(doc) = "deck"
  <2>. DEFINE typed == Store!DeepMerge(Example, Store!Entry(<<"switcher">>, "deck"))
              base == Store!Defaulted(typed, TRUE)
              loaded == Store!DeepMerge(base, doc)
              left == Store!Defaulted(loaded, FALSE)
              right == Store!Defaulted(doc, FALSE)
  <2>1. Store!Load(doc) = Store!Parse(loaded)
    BY <1>1, <1>3 DEF Store!Load
  <2>2. DOMAIN typed \subseteq DOMAIN doc /\ DOMAIN Example \subseteq DOMAIN typed
        /\ typed[<<"switcher">>] = "deck"
    BY DEF Store!DeepMerge, Store!Entry, HasType
  <2>3. Store!TypeOf(typed) = "deck"
    BY <2>2 DEF Store!TypeOf
  <2>. HIDE DEF typed
  <2>4. DOMAIN base = DOMAIN typed \cup Missing(typed) /\ \A p \in Missing(typed) : base[p] = Store!DeckDefaults[p]
    BY <2>3, DefaultedIs
  <2>. HIDE DEF base
  <2>5. /\ DOMAIN loaded = DOMAIN base \cup DOMAIN doc
        /\ \A p \in DOMAIN doc : loaded[p] = doc[p]
        /\ \A p \in DOMAIN base : p \notin DOMAIN doc => loaded[p] = base[p]
    BY DEF Store!DeepMerge
  <2>6. Store!TypeOf(loaded) = "deck"
    BY <1>3, <2>5 DEF HasType, Store!TypeOf
  <2>. HIDE DEF loaded
  <2>7. /\ DOMAIN left = DOMAIN loaded \cup Missing(loaded)
        /\ \A p \in Missing(loaded) : left[p] = Store!DeckDefaults[p]
        /\ \A p \in DOMAIN loaded : p \notin Missing(loaded) => left[p] = loaded[p]
        /\ left = [p \in DOMAIN left |-> left[p]]
    BY <2>6, DefaultedIs DEF Store!DeepMerge
  <2>8. /\ DOMAIN right = DOMAIN doc \cup Missing(doc)
        /\ \A p \in Missing(doc) : right[p] = Store!DeckDefaults[p]
        /\ \A p \in DOMAIN doc : p \notin Missing(doc) => right[p] = doc[p]
        /\ right = [p \in DOMAIN right |-> right[p]]
    BY <1>3, DefaultedIs DEF Store!DeepMerge
  <2>. HIDE DEF left, right
  <2>9. \A p \in Missing(doc) : p \in Missing(typed) /\ p \notin DOMAIN doc
    BY <2>2 DEF Missing, Store!Ids
  <2>10. \A p \in Missing(typed) : p \in DOMAIN doc \/ p \in Missing(doc)
    <3>. SUFFICES ASSUME NEW p \in DOMAIN Store!DeckDefaults, p \notin Missing(doc) PROVE p \in DOMAIN doc
      BY DEF Missing
    <3>1. PICK q \in DOMAIN doc : q[1] = p[1] /\ q[2] = p[2]
      BY DEF Missing, Store!Ids
    <3>2. /\ q[1] = "cam" => <<"cam", q[2], "host">> \in DOMAIN doc /\ <<"cam", q[2], "enabled">> \in DOMAIN doc
          /\ q[1] = "map" => <<"map", q[2]>> \in DOMAIN doc
      BY <3>1 DEF Slots
    <3>3. ASSUME NEW c, p = <<"cam", c, "host">> \/ p = <<"cam", c, "enabled">> PROVE p \in DOMAIN doc
      BY <3>1, <3>2, <3>3
    <3>4. ASSUME NEW c, p = <<"map", c>> PROVE p \in DOMAIN doc
      BY <3>1, <3>2, <3>4
    <3>. QED
      BY <3>3, <3>4, DefaultPaths
  <2>11. Missing(loaded) \subseteq Missing(doc)
    BY <2>5 DEF Missing, Store!Ids
  <2>12. DOMAIN left = DOMAIN right
    BY <2>2, <2>4, <2>5, <2>7, <2>8, <2>9, <2>10, <2>11
  <2>13. \A p \in DOMAIN left : left[p] = right[p]
    BY <2>2, <2>4, <2>5, <2>7, <2>8, <2>9, <2>10, <2>11
  <2>14. left = right
    BY <2>7, <2>8, <2>12, <2>13
  <2>. QED
    BY <2>1, <2>14 DEF Store!Parse, left, right
<1>. QED
  BY <1>2, <1>3

LEMMA OneMoreWrite ==
  ASSUME NEW w \in 0..MaxWrites, w < MaxWrites
  PROVE  w + 1 \in 0..MaxWrites
<1>1. MaxWrites \in Nat
  BY StoreAssumption
<1>. QED
  BY <1>1

(* What a save does to the files, the editor and the process.                 *)
LEMMA SaveKeepsForm ==
  ASSUME FormInv, NEW t \in Tabs, NEW patch, NEW b \in BOOLEAN, Form(patch), Store!Save(t, patch, b)
  PROVE  /\ FormInv'
         /\ writes' # writes => Store!Get(local', <<"extra">>) = Store!Get(Store!DeepMerge(Example, local), <<"extra">>)
         /\ \/ local' = local /\ editor' = editor /\ writer' = writer
            \/ PlainButtons => Store!Load(local') = editor'
<1>1. runtime # Store!Failed /\ applying = Store!Failed /\ editor # Store!Failed /\ Config(editor) /\ runtime' = runtime
  BY DEF Store!Save, Store!WebIdle, FormInv
<1>2. page' = [page EXCEPT ![t] = Store!Payload(editor')]
  BY DEF Store!Save
<1>3. Config(editor') => page' = [x \in Tabs |-> page'[x]] /\ \A x \in Tabs : Form(page'[x])
  <2>. SUFFICES ASSUME Config(editor') PROVE page' = [x \in Tabs |-> page'[x]] /\ \A x \in Tabs : Form(page'[x])
    OBVIOUS
  <2>1. Form(Store!Payload(editor'))
    BY PayloadGives
  <2>. QED
    BY <1>2, <2>1 DEF FormInv
<1>4. CASE ~(Store!PatchOk(patch) /\ Store!Parse(Store!Merged(patch)) # Store!Failed)
  <2>1. UNCHANGED <<local, editor, applying, newer, writer, writes>>
    BY <1>4 DEF Store!Save
  <2>. QED
    BY <1>1, <1>3, <2>1 DEF FormInv
<1>5. CASE Store!PatchOk(patch) /\ Store!Parse(Store!Merged(patch)) # Store!Failed
  <2>. DEFINE doc == Store!Merged(patch)
  <2>1. /\ local' = doc /\ newer' = TRUE /\ writer' = "form" /\ writes < MaxWrites /\ writes' = writes + 1
        /\ editor' = Store!Parse(doc) /\ editor' # Store!Failed
        /\ applying' \in {Store!Failed, Store!LoadForApply(doc)}
    BY <1>5 DEF Store!Save, Store!Write
  <2>2. Slots(local)
    BY DEF FormInv
  <2>3. /\ HasType(doc) /\ Slots(doc)
        /\ doc = [p \in DOMAIN doc |-> doc[p]]
        /\ PlainButtons => DOMAIN Example \subseteq DOMAIN doc
        /\ Store!Get(doc, <<"extra">>) = Store!Get(Store!DeepMerge(Example, local), <<"extra">>)
    BY <2>2, MergedIs
  <2>. HIDE DEF doc
  <2>4. Config(editor') /\ Store!CrossReferencesOk(editor')
    BY <2>1, <2>3, ParseGives
  <2>5. applying' # Store!Failed =>
          applying' = Store!Load(local') /\ Config(applying') /\ Store!CrossReferencesOk(applying')
    <3>1. applying' # Store!Failed => applying' = Store!Load(doc)
      BY <2>1 DEF Store!LoadForApply
    <3>. QED
      BY <2>1, <2>3, <3>1, LoadGives
  <2>6. PlainButtons => Store!Load(local') = editor'
    BY <2>1, <2>3, LoadIsParse
  <2>7. Slots(local')
    BY <2>1, <2>3
  <2>8. writes' \in 0..MaxWrites
    BY <2>1, OneMoreWrite DEF FormInv
  <2>9. FormInv'
    BY <1>1, <1>3, <2>1, <2>4, <2>5, <2>7, <2>8 DEF FormInv
  <2>. QED
    BY <2>1, <2>3, <2>6, <2>9
<1>. QED
  BY <1>4, <1>5


(* What a save has written loads as what the editor shows.                    *)
SavedLoads == writer = "form" /\ runtime # Store!Failed => Store!Load(local) = editor

ExtraKept ==
  writer' = "form" /\ writes' # writes =>
    Store!Get(local', <<"extra">>) = Store!Get(Store!DeepMerge(Example, local), <<"extra">>)

LEMMA StoreStep ==
  ASSUME FormInv, Store!Next \/ UNCHANGED storeVars
  PROVE  FormInv' /\ ExtraKept /\ (PlainButtons /\ SavedLoads => SavedLoads')
<1>. DEFINE Result == FormInv' /\ ExtraKept /\ (PlainButtons /\ SavedLoads => SavedLoads')
<1>1. CASE UNCHANGED storeVars
  BY <1>1 DEF FormInv, ExtraKept, SavedLoads, storeVars
<1>2. ASSUME NEW t \in Tabs, Store!OpenPage(t) PROVE Result
  <2>1. UNCHANGED <<local, editor, runtime, applying, newer, writer, writes>>
    BY <1>2 DEF Store!OpenPage
  <2>2. Config(editor)
    BY <1>2 DEF Store!OpenPage, Store!WebIdle, FormInv
  <2>3. Form(Store!Payload(editor))
    BY <2>2, PayloadGives
  <2>4. page' = [x \in Tabs |-> page'[x]] /\ \A x \in Tabs : Form(page'[x])
    BY <1>2, <2>3 DEF Store!OpenPage, FormInv
  <2>. QED
    BY <2>1, <2>4 DEF FormInv, ExtraKept, SavedLoads
<1>3. ASSUME NEW t \in Tabs, NEW patch, NEW b \in BOOLEAN, Form(patch), Store!Save(t, patch, b) PROVE Result
  <2>1. runtime' = runtime
    BY <1>3 DEF Store!Save
  <2>. QED
    BY <1>3, <2>1, SaveKeepsForm DEF ExtraKept, SavedLoads
<1>4. ASSUME NEW t \in Tabs, Store!SaveForm(t) \/ Store!SaveRaw(t) PROVE Result
  <2>1. ASSUME NEW p \in Store!Edited(page[t]), NEW b \in BOOLEAN, Store!Save(t, Store!FormPayload(p), b) PROVE Result
    <3>1. runtime # Store!Failed
      BY <2>1 DEF Store!Save, Store!WebIdle
    <3>2. Form(p) /\ Config(editor)
      BY <3>1, EditedIsForm DEF FormInv
    <3>3. Form(Store!FormPayload(p))
      BY <3>2, FormPayloadIsForm
    <3>. QED
      BY <1>3, <2>1, <3>3
  <2>2. ASSUME NEW p \in Store!Edited(page[t]), Store!Save(t, p, FALSE) PROVE Result
    <3>1. Form(p)
      BY EditedIsForm DEF FormInv
    <3>. QED
      BY <1>3, <2>2, <3>1
  <2>. QED
    BY <1>4, <2>1, <2>2 DEF Store!SaveForm, Store!SaveRaw
<1>5. ASSUME NEW doc \in Imports, NEW b \in BOOLEAN, Store!Import(doc, b) PROVE Result
  <2>1. /\ local' = doc /\ newer' = TRUE /\ writer' = "import" /\ writes < MaxWrites /\ writes' = writes + 1
        /\ editor' = Store!Parse(doc) /\ editor' # Store!Failed
        /\ applying' \in {Store!Failed, Store!LoadForApply(doc)}
        /\ UNCHANGED <<runtime, page>> /\ runtime # Store!Failed
    BY <1>5 DEF Store!Import, Store!Write, Store!WebIdle
  <2>2. Slots(doc) /\ HasType(doc)
    BY StoreAssumption DEF HasType
  <2>3. Config(editor') /\ Store!CrossReferencesOk(editor')
    BY <2>1, <2>2, ParseGives
  <2>4. applying' # Store!Failed =>
          applying' = Store!Load(local') /\ Config(applying') /\ Store!CrossReferencesOk(applying')
    <3>1. applying' # Store!Failed => applying' = Store!Load(doc)
      BY <2>1 DEF Store!LoadForApply
    <3>. QED
      BY <2>1, <2>2, <3>1, LoadGives
  <2>5. writes' \in 0..MaxWrites
    BY <2>1, OneMoreWrite DEF FormInv
  <2>6. FormInv'
    BY <2>1, <2>2, <2>3, <2>4, <2>5 DEF FormInv
  <2>. QED
    BY <2>1, <2>6 DEF ExtraKept, SavedLoads
<1>6. CASE Store!Apply
  <2>1. /\ UNCHANGED <<local, editor, runtime, newer, page, writer, writes>>
        /\ applying' = Store!LoadForApply(local) /\ runtime # Store!Failed
    BY <1>6 DEF Store!Apply, Store!WebIdle
  <2>2. applying' # Store!Failed =>
          applying' = Store!Load(local') /\ Config(applying') /\ Store!CrossReferencesOk(applying')
    <3>1. applying' # Store!Failed => applying' = Store!Load(local)
      BY <2>1 DEF Store!LoadForApply
    <3>2. Slots(local)
      BY DEF FormInv
    <3>. QED
      BY <2>1, <3>1, <3>2, LoadGives
  <2>. QED
    BY <2>1, <2>2 DEF FormInv, ExtraKept, SavedLoads
<1>7. ASSUME NEW success \in BOOLEAN, Store!ApplyEnds(success) PROVE Result
  <2>1. /\ applying # Store!Failed /\ runtime' \in IF success THEN {applying} ELSE {runtime, applying}
        /\ newer' = (newer /\ ~success) /\ editor' = (IF success THEN applying ELSE editor)
        /\ applying' = Store!Failed /\ UNCHANGED <<local, page, writer, writes>>
    BY <1>7 DEF Store!ApplyEnds, Store!NewerAfter
  <2>2. /\ Config(applying) /\ Store!CrossReferencesOk(applying) /\ applying = Store!Load(local)
        /\ runtime # Store!Failed /\ editor # Store!Failed
    BY <2>1 DEF FormInv
  <2>. QED
    BY <2>1, <2>2 DEF FormInv, ExtraKept, SavedLoads
<1>8. ASSUME NEW doc \in HandWritten, Store!HandEdit(doc) PROVE Result
  <2>1. /\ local' = doc /\ newer' = TRUE /\ writer' = "hand" /\ writes < MaxWrites /\ writes' = writes + 1
        /\ UNCHANGED <<editor, runtime, applying, page>> /\ applying = Store!Failed
    BY <1>8 DEF Store!HandEdit, Store!Write
  <2>2. Slots(doc)
    BY StoreAssumption
  <2>3. writes' \in 0..MaxWrites
    BY <2>1, OneMoreWrite DEF FormInv
  <2>. QED
    BY <2>1, <2>2, <2>3 DEF FormInv, ExtraKept, SavedLoads
<1>9. CASE Store!Restart
  <2>1. /\ runtime' = Store!Load(local) /\ editor' = runtime' /\ applying' = Store!Failed /\ newer' = FALSE
        /\ UNCHANGED <<local, page, writer, writes>>
    BY <1>9 DEF Store!Restart
  <2>2. runtime' # Store!Failed => Config(runtime') /\ Store!CrossReferencesOk(runtime')
    <3>1. Slots(local)
      BY DEF FormInv
    <3>. QED
      BY <2>1, <3>1, LoadGives
  <2>. QED
    BY <2>1, <2>2 DEF FormInv, ExtraKept, SavedLoads
<1>. QED
  BY <1>1, <1>2, <1>4, <1>5, <1>6, <1>7, <1>8, <1>9 DEF Store!Next

LEMMA StoreInit == MCInit => FormInv /\ SavedLoads
<1>. SUFFICES ASSUME MCInit PROVE FormInv /\ SavedLoads
  OBVIOUS
<1>1. /\ local = Store!NoFile /\ runtime = Store!Load(local) /\ editor = runtime
      /\ applying = Store!Failed /\ newer = FALSE /\ page = [t \in Tabs |-> Store!Payload(editor)]
      /\ writer = "nobody" /\ writes = 0
  BY DEF MCInit, Store!Init
<1>2. runtime # Store!Failed /\ MaxWrites \in Nat
  BY <1>1, StoreAssumption
<1>3. Slots(local)
  BY <1>1 DEF Slots, Store!NoFile
<1>4. Config(runtime) /\ Store!CrossReferencesOk(runtime)
  BY <1>1, <1>2, <1>3, LoadGives
<1>5. Form(Store!Payload(editor))
  BY <1>1, <1>4, PayloadGives
<1>6. page = [t \in Tabs |-> page[t]] /\ \A t \in Tabs : Form(page[t])
  BY <1>1, <1>5
<1>7. Config(editor) /\ Store!CrossReferencesOk(editor)
  BY <1>1, <1>4
<1>8. writes \in 0..MaxWrites /\ newer \in BOOLEAN /\ writer = "nobody"
  <2>1. MaxWrites \in Nat
    BY StoreAssumption
  <2>2. 0 \in 0..MaxWrites
    BY <2>1
  <2>3. writes = 0 /\ newer = FALSE /\ writer = "nobody"
    BY <1>1
  <2>. QED
    BY <2>2, <2>3
<1>9. FormInv
  BY <1>1, <1>2, <1>3, <1>4, <1>6, <1>7, <1>8 DEF FormInv
<1>. QED
  BY <1>8, <1>9 DEF SavedLoads

LEMMA FormInvariant == MCSpec => []FormInv
<1>1. MCInit => FormInv
  BY StoreInit
<1>2. [MCNext]_mcVars => Store!Next \/ UNCHANGED storeVars
  BY DEF MCNext, mcVars, storeVars
<1>. QED
  BY <1>1, <1>2, StoreStep, PTL DEF MCSpec

(* Whatever is written, imported, edited by hand, applied or started, in any  *)
(* order: the runtime and the editor hold configurations whose references     *)
(* resolve, and while no change is shown as pending the runtime works with    *)
(* what the files say (load_config, apply_runtime_config, status.loaded_at).  *)
THEOREM FilesAndRuntimeAgree == MCSpec => [](Store!TypeOK /\ Store!PendingIsHonest)
<1>1. FormInv => Store!TypeOK /\ Store!PendingIsHonest
  BY DEF FormInv, Store!TypeOK, Store!PendingIsHonest, Store!WebIdle
<1>. QED
  BY <1>1, FormInvariant, PTL

(* And what a save has written loads as what the editor shows after it, if no *)
(* button of the example needs a source or a preset number: a button that     *)
(* does keeps its source under the one that was saved (save_patch, load_config).*)
THEOREM StoreHolds == PlainButtons /\ MCSpec => []StoreInv
<1>. SUFFICES ASSUME PlainButtons PROVE MCSpec => []StoreInv
  OBVIOUS
<1>1. MCInit => SavedLoads
  BY StoreInit
<1>2. FormInv /\ SavedLoads /\ [MCNext]_mcVars => SavedLoads'
  <2>1. [MCNext]_mcVars => Store!Next \/ UNCHANGED storeVars
    BY DEF MCNext, mcVars, storeVars
  <2>. QED
    BY <2>1, StoreStep
<1>3. SavedLoads /\ Store!TypeOK /\ Store!PendingIsHonest => StoreInv
  BY DEF SavedLoads, StoreInv, Store!StoreInv, Store!LoadsWhatWasSaved
<1>. QED
  BY <1>1, <1>2, <1>3, FormInvariant, FilesAndRuntimeAgree, PTL DEF MCSpec

(* A save of the configuration keeps the sections the form does not control,  *)
(* and what it replaces is whole in config.local.yaml.bak at that moment, for *)
(* any documents, cameras, and failures and crashes of earlier saves          *)
(* (save_patch, _backup_local_config).                                        *)
THEOREM NothingIsLost == MCSpec => NothingLost
<1>1. FormInv /\ [MCNext]_mcVars => [ExtraKept]_storeVars
  <2>1. [MCNext]_mcVars => Store!Next \/ UNCHANGED storeVars
    BY DEF MCNext, mcVars, storeVars
  <2>. QED
    BY <2>1, StoreStep
<1>2. MCSpec => Store!UnrelatedKept
  BY <1>1, FormInvariant, PTL DEF MCSpec, Store!UnrelatedKept, ExtraKept, Store!vars, storeVars
<1>. QED
  BY <1>2, BackupsHold DEF NothingLost


(* -------------------------------- status ---------------------------------- *)
(* What is left of the delivery of an event. *)
Inserts(todo) == {h \in Status!Histories : \E i \in DOMAIN todo : todo[i] = Status!Insertion(h)}
Trims(todo) == {h \in Status!Histories : \E i \in DOMAIN todo : todo[i] = Status!Trimming(h)}
I(h) == Status!Insertion(h)
T(h) == Status!Trimming(h)
Rest7 == <<Status!Handling, I("recent"), T("recent"), I("diagnostic"), T("diagnostic"), I("actions"), T("actions")>>
Rest6 == <<I("recent"), T("recent"), I("diagnostic"), T("diagnostic"), I("actions"), T("actions")>>
Rest5 == <<T("recent"), I("diagnostic"), T("diagnostic"), I("actions"), T("actions")>>
Rest4 == <<I("diagnostic"), T("diagnostic"), I("actions"), T("actions")>>
Rest3 == <<T("diagnostic"), I("actions"), T("actions")>>
Rest2 == <<I("actions"), T("actions")>>
Rest1 == <<T("actions")>>
Other4 == <<I("recent"), T("recent"), I("diagnostic"), T("diagnostic")>>
Other3 == <<T("recent"), I("diagnostic"), T("diagnostic")>>
Other2 == <<I("diagnostic"), T("diagnostic")>>
Other1 == <<T("diagnostic")>>
Rests(kind) ==
  IF kind = "other" THEN {Other4, Other3, Other2, Other1}
  ELSE {Rest6, Rest5, Rest4, Rest3, Rest2, Rest1} \cup IF kind = "request" THEN {Rest7} ELSE {}

(* What the operation at the head of a delivery leaves of it. *)
HeadFits(s) ==
  LET h == s[1].into IN
  /\ s # <<>> /\ s[1] \in Status!Operations
  /\ Tail(s) # <<>> => Tail(s)[1].do # "stop"
  /\ s[1].do = "stop" =>
       Tail(s) # <<>> /\ Inserts(s) = Status!Histories /\ Inserts(Tail(s)) = Inserts(s) /\ Trims(Tail(s)) = Trims(s)
  /\ s[1].do = "insert" =>
       /\ Tail(s) # <<>> /\ h \in Inserts(s)
       /\ Inserts(Tail(s)) = Inserts(s) \ {h} /\ Trims(Tail(s)) = Trims(s) /\ h \in Trims(s)
  /\ s[1].do = "trim" =>
       /\ h \in Status!Histories /\ h \notin Inserts(s)
       /\ Inserts(Tail(s)) = Inserts(s) /\ Trims(Tail(s)) = Trims(s) \ {h}

LEMMA Tails ==
  /\ Rest7 # <<>> /\ Tail(Rest7) = Rest6
  /\ Rest6 # <<>> /\ Tail(Rest6) = Rest5
  /\ Rest5 # <<>> /\ Tail(Rest5) = Rest4
  /\ Rest4 # <<>> /\ Tail(Rest4) = Rest3
  /\ Rest3 # <<>> /\ Tail(Rest3) = Rest2
  /\ Rest2 # <<>> /\ Tail(Rest2) = Rest1
  /\ Rest1 # <<>> /\ Tail(Rest1) = <<>>
  /\ Other4 # <<>> /\ Tail(Other4) = Other3
  /\ Other3 # <<>> /\ Tail(Other3) = Other2
  /\ Other2 # <<>> /\ Tail(Other2) = Other1
  /\ Other1 # <<>> /\ Tail(Other1) = <<>>
  BY DEF Rest7, Rest6, Rest5, Rest4, Rest3, Rest2, Rest1, Other4, Other3, Other2, Other1

LEMMA InsertsAre ==
  /\ Inserts(Rest7) = Status!Histories
  /\ Inserts(Rest6) = Status!Histories
  /\ Inserts(Rest5) = {"diagnostic", "actions"}
  /\ Inserts(Rest4) = {"diagnostic", "actions"}
  /\ Inserts(Rest3) = {"actions"}
  /\ Inserts(Rest2) = {"actions"}
  /\ Inserts(Rest1) = {}
  /\ Inserts(Other4) = {"recent", "diagnostic"}
  /\ Inserts(Other3) = {"diagnostic"}
  /\ Inserts(Other2) = {"diagnostic"}
  /\ Inserts(Other1) = {}
  /\ Inserts(<<>>) = {}
<1>. USE DEF Inserts, I, T, Status!Insertion, Status!Trimming, Status!Handling, Status!Histories
<1>1. Inserts(Rest7) = Status!Histories
  BY DEF Rest7
<1>2. Inserts(Rest6) = Status!Histories
  BY DEF Rest6
<1>3. Inserts(Rest5) = {"diagnostic", "actions"}
  BY DEF Rest5
<1>4. Inserts(Rest4) = {"diagnostic", "actions"}
  BY DEF Rest4
<1>5. Inserts(Rest3) = {"actions"} /\ Inserts(Rest2) = {"actions"} /\ Inserts(Rest1) = {}
  BY DEF Rest3, Rest2, Rest1
<1>6. Inserts(Other4) = {"recent", "diagnostic"}
  BY DEF Other4
<1>7. Inserts(Other3) = {"diagnostic"} /\ Inserts(Other2) = {"diagnostic"} /\ Inserts(Other1) = {}
  BY DEF Other3, Other2, Other1
<1>8. Inserts(<<>>) = {}
  <2>1. DOMAIN <<>> = {}
    OBVIOUS
  <2>. QED
    BY <2>1
<1>. QED
  BY <1>1, <1>2, <1>3, <1>4, <1>5, <1>6, <1>7, <1>8

LEMMA TrimsAre ==
  /\ Trims(Rest7) = Status!Histories
  /\ Trims(Rest6) = Status!Histories
  /\ Trims(Rest5) = Status!Histories
  /\ Trims(Rest4) = {"diagnostic", "actions"}
  /\ Trims(Rest3) = {"diagnostic", "actions"}
  /\ Trims(Rest2) = {"actions"}
  /\ Trims(Rest1) = {"actions"}
  /\ Trims(Other4) = {"recent", "diagnostic"}
  /\ Trims(Other3) = {"recent", "diagnostic"}
  /\ Trims(Other2) = {"diagnostic"}
  /\ Trims(Other1) = {"diagnostic"}
  /\ Trims(<<>>) = {}
<1>. USE DEF Trims, I, T, Status!Insertion, Status!Trimming, Status!Handling, Status!Histories
<1>1. Trims(Rest7) = Status!Histories
  BY DEF Rest7
<1>2. Trims(Rest6) = Status!Histories
  BY DEF Rest6
<1>3. Trims(Rest5) = Status!Histories
  BY DEF Rest5
<1>4. Trims(Rest4) = {"diagnostic", "actions"}
  BY DEF Rest4
<1>5. Trims(Rest3) = {"diagnostic", "actions"} /\ Trims(Rest2) = {"actions"} /\ Trims(Rest1) = {"actions"}
  BY DEF Rest3, Rest2, Rest1
<1>6. Trims(Other4) = {"recent", "diagnostic"}
  BY DEF Other4
<1>7. Trims(Other3) = {"recent", "diagnostic"} /\ Trims(Other2) = {"diagnostic"} /\ Trims(Other1) = {"diagnostic"}
  BY DEF Other3, Other2, Other1
<1>8. Trims(<<>>) = {}
  <2>1. DOMAIN <<>> = {}
    OBVIOUS
  <2>. QED
    BY <2>1
<1>. QED
  BY <1>1, <1>2, <1>3, <1>4, <1>5, <1>6, <1>7, <1>8

LEMMA Heads ==
  /\ Rest7[1] = Status!Handling
  /\ Rest6[1] = I("recent") /\ Other4[1] = I("recent")
  /\ Rest5[1] = T("recent") /\ Other3[1] = T("recent")
  /\ Rest4[1] = I("diagnostic") /\ Other2[1] = I("diagnostic")
  /\ Rest3[1] = T("diagnostic") /\ Other1[1] = T("diagnostic")
  /\ Rest2[1] = I("actions") /\ Rest1[1] = T("actions")
  BY DEF Rest7, Rest6, Rest5, Rest4, Rest3, Rest2, Rest1, Other4, Other3, Other2, Other1

LEMMA InsertHeads ==
  ASSUME NEW s, NEW r, NEW h \in Status!Histories, Tail(s) = r, s # <<>>, r # <<>>,
         s[1] = I(h), r[1] = T(h), h \in Inserts(s), h \in Trims(s), Inserts(r) = Inserts(s) \ {h}, Trims(r) = Trims(s)
  PROVE  HeadFits(s)
<1>1. I(h).do = "insert" /\ I(h).into = h /\ I(h) \in Status!Operations /\ T(h).do = "trim"
  BY DEF I, T, Status!Insertion, Status!Trimming, Status!Operations
<1>. QED
  BY <1>1 DEF HeadFits

LEMMA TrimHeads ==
  ASSUME NEW s, NEW r, NEW h \in Status!Histories, Tail(s) = r, s # <<>>,
         s[1] = T(h), r = <<>> \/ \E g : r[1] = I(g),
         h \notin Inserts(s), Inserts(r) = Inserts(s), Trims(r) = Trims(s) \ {h}
  PROVE  HeadFits(s)
<1>1. T(h).do = "trim" /\ T(h).into = h /\ T(h) \in Status!Operations /\ \A g : I(g).do = "insert"
  BY DEF I, T, Status!Insertion, Status!Trimming, Status!Operations
<1>. QED
  BY <1>1 DEF HeadFits

LEMMA RestStep ==
  ASSUME NEW kind, NEW s \in Rests(kind)
  PROVE  HeadFits(s) /\ (Tail(s) # <<>> => Tail(s) \in Rests(kind))
<1>1. "recent" \in Status!Histories /\ "diagnostic" \in Status!Histories /\ "actions" \in Status!Histories
      /\ Status!Histories \ {"recent"} = {"diagnostic", "actions"}
  BY DEF Status!Histories
<1>2. Tail(s) # <<>> => Tail(s) \in Rests(kind)
  BY Tails DEF Rests
<1>3. HeadFits(Rest7)
  <2>1. /\ Status!Handling.do = "stop" /\ Status!Handling \in Status!Operations /\ I("recent").do = "insert"
    BY DEF Status!Handling, Status!Operations, I, Status!Insertion
  <2>. QED
    BY <2>1, Tails, Heads, InsertsAre, TrimsAre DEF HeadFits
<1>4. HeadFits(Rest6)
  <2>1. /\ Rest6 # <<>> /\ Rest5 # <<>> /\ Tail(Rest6) = Rest5 /\ Rest6[1] = I("recent") /\ Rest5[1] = T("recent")
    BY Tails, Heads
  <2>2. "recent" \in Inserts(Rest6) /\ Inserts(Rest5) = Inserts(Rest6) \ {"recent"}
    BY <1>1, InsertsAre
  <2>3. "recent" \in Trims(Rest6) /\ Trims(Rest5) = Trims(Rest6)
    BY <1>1, TrimsAre
  <2>. QED
    BY <1>1, <2>1, <2>2, <2>3, InsertHeads
<1>5. HeadFits(Rest5)
  <2>1. Rest5 # <<>> /\ Tail(Rest5) = Rest4 /\ Rest5[1] = T("recent") /\ Rest4[1] = I("diagnostic")
    BY Tails, Heads
  <2>2. "recent" \notin Inserts(Rest5) /\ Inserts(Rest4) = Inserts(Rest5)
    BY InsertsAre
  <2>3. Trims(Rest4) = Trims(Rest5) \ {"recent"}
    BY <1>1, TrimsAre
  <2>. QED
    BY <1>1, <2>1, <2>2, <2>3, TrimHeads
<1>6. HeadFits(Rest4)
  <2>1. /\ Rest4 # <<>> /\ Rest3 # <<>> /\ Tail(Rest4) = Rest3 /\ Rest4[1] = I("diagnostic") /\ Rest3[1] = T("diagnostic")
    BY Tails, Heads
  <2>2. "diagnostic" \in Inserts(Rest4) /\ Inserts(Rest3) = Inserts(Rest4) \ {"diagnostic"}
    BY <1>1, InsertsAre
  <2>3. "diagnostic" \in Trims(Rest4) /\ Trims(Rest3) = Trims(Rest4)
    BY <1>1, TrimsAre
  <2>. QED
    BY <1>1, <2>1, <2>2, <2>3, InsertHeads
<1>7. HeadFits(Rest3)
  <2>1. Rest3 # <<>> /\ Tail(Rest3) = Rest2 /\ Rest3[1] = T("diagnostic") /\ Rest2[1] = I("actions")
    BY Tails, Heads
  <2>2. "diagnostic" \notin Inserts(Rest3) /\ Inserts(Rest2) = Inserts(Rest3)
    BY InsertsAre
  <2>3. Trims(Rest2) = Trims(Rest3) \ {"diagnostic"}
    BY <1>1, TrimsAre
  <2>. QED
    BY <1>1, <2>1, <2>2, <2>3, TrimHeads
<1>8. HeadFits(Rest2)
  <2>1. /\ Rest2 # <<>> /\ Rest1 # <<>> /\ Tail(Rest2) = Rest1 /\ Rest2[1] = I("actions") /\ Rest1[1] = T("actions")
    BY Tails, Heads
  <2>2. "actions" \in Inserts(Rest2) /\ Inserts(Rest1) = Inserts(Rest2) \ {"actions"}
    BY <1>1, InsertsAre
  <2>3. "actions" \in Trims(Rest2) /\ Trims(Rest1) = Trims(Rest2)
    BY <1>1, TrimsAre
  <2>. QED
    BY <1>1, <2>1, <2>2, <2>3, InsertHeads
<1>9. HeadFits(Rest1)
  <2>1. Rest1 # <<>> /\ Tail(Rest1) = <<>> /\ Rest1[1] = T("actions")
    BY Tails, Heads
  <2>2. "actions" \notin Inserts(Rest1) /\ Inserts(<<>>) = Inserts(Rest1)
    BY InsertsAre
  <2>3. Trims(<<>>) = Trims(Rest1) \ {"actions"}
    BY <1>1, TrimsAre
  <2>. QED
    BY <1>1, <2>1, <2>2, <2>3, TrimHeads
<1>10. HeadFits(Other4)
  <2>1. /\ Other4 # <<>> /\ Other3 # <<>> /\ Tail(Other4) = Other3 /\ Other4[1] = I("recent") /\ Other3[1] = T("recent")
    BY Tails, Heads
  <2>2. "recent" \in Inserts(Other4) /\ Inserts(Other3) = Inserts(Other4) \ {"recent"}
    BY <1>1, InsertsAre
  <2>3. "recent" \in Trims(Other4) /\ Trims(Other3) = Trims(Other4)
    BY <1>1, TrimsAre
  <2>. QED
    BY <1>1, <2>1, <2>2, <2>3, InsertHeads
<1>11. HeadFits(Other3)
  <2>1. Other3 # <<>> /\ Tail(Other3) = Other2 /\ Other3[1] = T("recent") /\ Other2[1] = I("diagnostic")
    BY Tails, Heads
  <2>2. "recent" \notin Inserts(Other3) /\ Inserts(Other2) = Inserts(Other3)
    BY InsertsAre
  <2>3. Trims(Other2) = Trims(Other3) \ {"recent"}
    BY <1>1, TrimsAre
  <2>. QED
    BY <1>1, <2>1, <2>2, <2>3, TrimHeads
<1>12. HeadFits(Other2)
  <2>1. /\ Other2 # <<>> /\ Other1 # <<>> /\ Tail(Other2) = Other1 /\ Other2[1] = I("diagnostic") /\ Other1[1] = T("diagnostic")
    BY Tails, Heads
  <2>2. "diagnostic" \in Inserts(Other2) /\ Inserts(Other1) = Inserts(Other2) \ {"diagnostic"}
    BY <1>1, InsertsAre
  <2>3. "diagnostic" \in Trims(Other2) /\ Trims(Other1) = Trims(Other2)
    BY <1>1, TrimsAre
  <2>. QED
    BY <1>1, <2>1, <2>2, <2>3, InsertHeads
<1>13. HeadFits(Other1)
  <2>1. Other1 # <<>> /\ Tail(Other1) = <<>> /\ Other1[1] = T("diagnostic")
    BY Tails, Heads
  <2>2. "diagnostic" \notin Inserts(Other1) /\ Inserts(<<>>) = Inserts(Other1)
    BY InsertsAre
  <2>3. Trims(<<>>) = Trims(Other1) \ {"diagnostic"}
    BY <1>1, TrimsAre
  <2>. QED
    BY <1>1, <2>1, <2>2, <2>3, TrimHeads
<1>. QED
  BY <1>2, <1>3, <1>4, <1>5, <1>6, <1>7, <1>8, <1>9, <1>10, <1>11, <1>12, <1>13 DEF Rests

LEMMA ConcatIs ==
  ASSUME NEW S, NEW x \in Seq(S), NEW y \in Seq(S), NEW z \in Seq(S), Len(z) = Len(x) + Len(y),
         \A i \in 1 .. Len(z) : z[i] = IF i <= Len(x) THEN x[i] ELSE y[i - Len(x)]
  PROVE  x \o y = z
<1>1. /\ x \o y \in Seq(S) /\ Len(x \o y) = Len(z)
      /\ \A i \in 1 .. Len(z) : (x \o y)[i] = IF i <= Len(x) THEN x[i] ELSE y[i - Len(x)]
  BY ConcatProperties
<1>. QED
  BY <1>1, SeqEqual

LEMMA RestsAreSequences ==
  ASSUME NEW kind, NEW s \in Rests(kind)
  PROVE  s \in Seq(Status!Operations) \ {<<>>}
<1>1. \A h \in Status!Histories : I(h) \in Status!Operations /\ T(h) \in Status!Operations
  BY DEF I, T, Status!Operations
<1>2. Status!Handling \in Status!Operations
  BY DEF Status!Operations
<1>3. I("recent") \in Status!Operations /\ T("recent") \in Status!Operations /\ I("diagnostic") \in Status!Operations
      /\ T("diagnostic") \in Status!Operations /\ I("actions") \in Status!Operations /\ T("actions") \in Status!Operations
  BY <1>1 DEF Status!Histories
<1>4. /\ {Rest7, Rest6, Rest5, Rest4} \subseteq Seq(Status!Operations)
      /\ {Rest3, Rest2, Rest1} \subseteq Seq(Status!Operations)
      /\ {Other4, Other3, Other2, Other1} \subseteq Seq(Status!Operations)
  BY <1>2, <1>3 DEF Rest7, Rest6, Rest5, Rest4, Rest3, Rest2, Rest1, Other4, Other3, Other2, Other1
<1>. QED
  BY <1>4, RestStep DEF Rests, HeadFits

(* The whole delivery of an event. *)
LEMMA DeliveryIs ==
  ASSUME NEW e, e.kind \in Status!Kinds
  PROVE  /\ Status!Delivery(e) \in Rests(e.kind) /\ Status!Delivery(e) # <<>>
         /\ \A h \in Status!Histories : Status!BelongsTo(e, h) => h \in Inserts(Status!Delivery(e))
<1>. DEFINE S == {Status!Handling} \cup {I(h) : h \in Status!Histories} \cup {T(h) : h \in Status!Histories}
<1>1. <<I("actions"), T("actions")>> = Rest2 /\ <<I("recent"), T("recent"), I("diagnostic"), T("diagnostic")>> = Other4
  BY DEF Rest2, Other4
<1>2. Other4 \in Seq(S) /\ Rest2 \in Seq(S) /\ Rest6 \in Seq(S) /\ Rest7 \in Seq(S) /\ <<Status!Handling>> \in Seq(S)
  BY DEF Other4, Rest2, Rest6, Rest7, Status!Histories
<1>3. Other4 \o Rest2 = Rest6
  <2>1. /\ Len(Other4) = 4 /\ Len(Rest2) = 2 /\ Len(Rest6) = 6
        /\ Rest6[1] = Other4[1] /\ Rest6[2] = Other4[2] /\ Rest6[3] = Other4[3] /\ Rest6[4] = Other4[4]
        /\ Rest6[5] = Rest2[1] /\ Rest6[6] = Rest2[2]
    BY DEF Other4, Rest2, Rest6
  <2>2. \A i \in 1 .. 6 : i \in {1, 2, 3, 4, 5, 6}
    OBVIOUS
  <2>. HIDE DEF S
  <2>3. \A i \in 1 .. Len(Rest6) : Rest6[i] = IF i <= Len(Other4) THEN Other4[i] ELSE Rest2[i - Len(Other4)]
    BY <2>1, <2>2
  <2>4. Len(Rest6) = Len(Other4) + Len(Rest2)
    BY <2>1
  <2>. QED
    BY <1>2, <2>3, <2>4, ConcatIs
<1>4. <<Status!Handling>> \o Rest6 = Rest7
  <2>1. /\ Len(<<Status!Handling>>) = 1 /\ Len(Rest6) = 6 /\ Len(Rest7) = 7
        /\ Rest7[1] = <<Status!Handling>>[1] /\ Rest7[2] = Rest6[1] /\ Rest7[3] = Rest6[2] /\ Rest7[4] = Rest6[3]
        /\ Rest7[5] = Rest6[4] /\ Rest7[6] = Rest6[5] /\ Rest7[7] = Rest6[6]
    BY DEF Rest6, Rest7
  <2>2. \A i \in 1 .. 7 : i \in {1, 2, 3, 4, 5, 6, 7}
    OBVIOUS
  <2>. HIDE DEF S
  <2>3. \A i \in 1 .. Len(Rest7) : Rest7[i] = IF i <= Len(<<Status!Handling>>) THEN <<Status!Handling>>[i] ELSE Rest6[i - Len(<<Status!Handling>>)]
    BY <2>1, <2>2
  <2>. DEFINE x == <<Status!Handling>>
  <2>4. Len(Rest7) = Len(x) + Len(Rest6)
    BY <2>1
  <2>5. x \in Seq(S) /\ \A i \in 1 .. Len(Rest7) : Rest7[i] = IF i <= Len(x) THEN x[i] ELSE Rest6[i - Len(x)]
    BY <1>2, <2>3
  <2>. HIDE DEF x
  <2>6. x \o Rest6 = Rest7
    BY <1>2, <2>4, <2>5, ConcatIs
  <2>. QED
    BY <2>6 DEF x
<1>. HIDE DEF S
<1>5. Other4 \o <<>> = Other4 /\ <<>> \o Other4 = Other4 /\ <<>> \o Rest6 = Rest6
  BY <1>2, ConcatEmptySeq
<1>6. /\ e.kind = "other" => Status!Delivery(e) = Other4
      /\ e.kind = "ptz" => Status!Delivery(e) = Rest6
      /\ e.kind = "request" => Status!Delivery(e) = Rest7
  <2>1. Status!Recording(e) = Other4 \o (IF e.kind = "other" THEN <<>> ELSE Rest2)
    BY <1>1 DEF Status!Recording, I, T
  <2>2. e.kind = "other" => Status!Recording(e) = Other4
    BY <2>1, <1>5
  <2>3. e.kind # "other" => Status!Recording(e) = Rest6
    BY <2>1, <1>3
  <2>. QED
    BY <1>4, <1>5, <2>2, <2>3 DEF Status!Delivery
<1>. QED
  BY <1>6, InsertsAre, Tails DEF Rests, Status!Kinds, Status!BelongsTo, Status!Histories

(* ----- the calls that are open ----- *)
Open(c) == \E t \in Status!Threads : \E i \in DOMAIN calls[t] : c = calls[t][i]

CallOk(c) ==
  /\ c = [event |-> c.event, todo |-> c.todo]
  /\ c.event \in Status!Events /\ c.event.number <= created
  /\ c.todo \in Rests(c.event.kind)

(* A call inside another has no handler to run, and the other has run it. *)
StackOk(t) ==
  \/ calls[t] = <<>>
  \/ \E c : calls[t] = <<c>> /\ CallOk(c)
  \/ \E c, d : /\ calls[t] = <<c, d>> /\ CallOk(c) /\ CallOk(d)
               /\ c.todo[1].do # "stop" /\ d.todo[1].do # "stop"

StacksInv ==
  /\ calls = [t \in Status!Threads |-> calls[t]] /\ \A t \in Status!Threads : StackOk(t)
  /\ \A t, u \in Status!Threads : \A i \in DOMAIN calls[t], j \in DOMAIN calls[u] :
       calls[t][i].event.number = calls[u][j].event.number => t = u /\ i = j

(* The thread's call c is replaced by what follows it. *)
After(c) == [event |-> c.event, todo |-> Tail(c.todo)]

LEMMA OpenCalls ==
  ASSUME StacksInv
  PROVE  /\ \A c : Open(c) => CallOk(c)
         /\ \A c, d : Open(c) /\ Open(d) /\ c.event.number = d.event.number => c = d
<1>1. ASSUME NEW t \in Status!Threads, NEW i \in DOMAIN calls[t] PROVE CallOk(calls[t][i])
  <2>1. StackOk(t)
    BY DEF StacksInv
  <2>2. CASE calls[t] = <<>>
    BY <2>2
  <2>3. ASSUME NEW c, calls[t] = <<c>>, CallOk(c) PROVE CallOk(calls[t][i])
    BY <2>3
  <2>4. ASSUME NEW c, NEW d, calls[t] = <<c, d>>, CallOk(c), CallOk(d) PROVE CallOk(calls[t][i])
    <3>1. i \in {1, 2} /\ calls[t][1] = c /\ calls[t][2] = d
      BY <2>4
    <3>. QED
      BY <2>4, <3>1
  <2>. QED
    BY <2>1, <2>2, <2>3, <2>4 DEF StackOk
<1>2. \A c, d : Open(c) /\ Open(d) /\ c.event.number = d.event.number => c = d
  BY DEF Open, StacksInv
<1>. QED
  BY <1>1, <1>2 DEF Open

(* A new call opens on a thread that has none. *)
LEMMA NewCall ==
  ASSUME StacksInv, created \in Nat, NEW t \in Status!Threads, calls[t] = <<>>, NEW n,
         n = [event |-> n.event, todo |-> n.todo], n.event \in Status!Events, n.event.number = created + 1,
         n.todo \in Rests(n.event.kind), calls' = [calls EXCEPT ![t] = <<n>>], created' = created + 1
  PROVE  StacksInv' /\ \A d : Open(d)' <=> Open(d) \/ d = n
<1>1. /\ calls'[t] = <<n>> /\ DOMAIN calls'[t] = {1} /\ calls'[t][1] = n
      /\ \A u \in Status!Threads : u # t => calls'[u] = calls[u]
      /\ calls' = [u \in Status!Threads |-> calls'[u]]
  <2>1. calls' = [u \in Status!Threads |-> IF u = t THEN <<n>> ELSE calls[u]]
    BY DEF StacksInv
  <2>2. DOMAIN <<n>> = {1} /\ <<n>>[1] = n
    OBVIOUS
  <2>. QED
    BY <2>1, <2>2
<1>2. \A d : Open(d)' <=> Open(d) \/ d = n
  BY <1>1 DEF Open
<1>3. \A c : Open(c) => CallOk(c) /\ c.event.number < created + 1
  BY OpenCalls DEF CallOk, Status!Events
<1>4. \A c : CallOk(c) => CallOk(c)'
  BY DEF CallOk, Status!Events
<1>5. CallOk(n)'
  BY DEF CallOk
<1>6. ASSUME NEW u \in Status!Threads PROVE StackOk(u)'
  <2>1. CASE u = t
    BY <1>1, <1>5, <2>1 DEF StackOk
  <2>2. CASE u # t
    <3>1. calls'[u] = calls[u]
      BY <1>1, <2>2
    <3>2. StackOk(u)
      BY DEF StacksInv
    <3>. QED
      BY <1>4, <3>1, <3>2 DEF StackOk
  <2>. QED
    BY <2>1, <2>2
<1>7. ASSUME NEW u \in Status!Threads, NEW w \in Status!Threads, NEW i \in DOMAIN calls'[u], NEW j \in DOMAIN calls'[w],
             calls'[u][i].event.number = calls'[w][j].event.number
      PROVE  u = w /\ i = j
  <2>1. CASE u = t /\ w = t
    BY <1>1, <2>1
  <2>2. CASE u # t /\ w # t
    BY <1>1, <1>7, <2>2 DEF StacksInv
  <2>3. CASE u = t /\ w # t
    <3>1. Open(calls[w][j])
      BY <1>1, <2>3 DEF Open
    <3>. QED
      BY <1>1, <1>3, <1>7, <2>3, <3>1
  <2>4. CASE u # t /\ w = t
    <3>1. Open(calls[u][i])
      BY <1>1, <2>4 DEF Open
    <3>. QED
      BY <1>1, <1>3, <1>7, <2>4, <3>1
  <2>. QED
    BY <2>1, <2>2, <2>3, <2>4
<1>. QED
  BY <1>1, <1>2, <1>6, <1>7 DEF StacksInv

(* The stack of a thread with a call at work, and what it becomes. *)
LEMMA StackAtWork ==
  ASSUME StacksInv, NEW t \in Status!Threads, calls[t] # <<>>
  PROVE  LET c == calls[t][1]
             rest == Status!Advanced(t)
         IN /\ CallOk(c) /\ Open(c) /\ Status!Current(t) = c /\ HeadFits(c.todo)
            /\ Tail(c.todo) # <<>> => CallOk(After(c)) /\ After(c).todo[1].do # "stop"
            /\ \/ /\ calls[t] = <<c>>
                  /\ rest = IF Tail(c.todo) = <<>> THEN <<>> ELSE <<After(c)>>
               \/ \E d : /\ calls[t] = <<c, d>> /\ CallOk(d) /\ c.todo[1].do # "stop" /\ d.todo[1].do # "stop"
                         /\ rest = IF Tail(c.todo) = <<>> THEN <<d>> ELSE <<After(c), d>>
<1>. DEFINE c == calls[t][1]
<1>1. StackOk(t)
  BY DEF StacksInv
<1>2. \/ calls[t] = <<c>> /\ CallOk(c)
      \/ \E d : calls[t] = <<c, d>> /\ CallOk(c) /\ CallOk(d) /\ c.todo[1].do # "stop" /\ d.todo[1].do # "stop"
  BY <1>1 DEF StackOk
<1>3. Open(c) /\ CallOk(c)
  BY <1>2 DEF Open
<1>4. Status!Current(t) = c /\ Head(calls[t]) = c
  BY <1>2 DEF Status!Current
<1>. HIDE DEF c
<1>5. HeadFits(c.todo) /\ (Tail(c.todo) # <<>> => Tail(c.todo) \in Rests(c.event.kind) /\ Tail(c.todo)[1].do # "stop")
  BY <1>3, RestStep DEF CallOk, HeadFits
<1>6. Tail(c.todo) # <<>> => CallOk(After(c)) /\ After(c).todo[1].do # "stop"
  BY <1>3, <1>5 DEF CallOk, After
<1>8. c = [event |-> c.event, todo |-> c.todo]
  BY <1>3 DEF CallOk
<1>9. CASE calls[t] = <<c>>
  <2>1. Tail(calls[t]) = <<>> /\ [calls[t] EXCEPT ![1] = After(c)] = <<After(c)>>
    BY <1>9
  <2>. QED
    BY <1>3, <1>4, <1>5, <1>6, <1>9, <2>1 DEF Status!Advanced, After, c
<1>10. ASSUME NEW d, calls[t] = <<c, d>>, CallOk(d), c.todo[1].do # "stop", d.todo[1].do # "stop"
       PROVE  Status!Advanced(t) = IF Tail(c.todo) = <<>> THEN <<d>> ELSE <<After(c), d>>
  <2>1. Tail(calls[t]) = <<d>> /\ [calls[t] EXCEPT ![1] = After(c)] = <<After(c), d>>
    BY <1>10
  <2>. QED
    BY <1>4, <2>1 DEF Status!Advanced, After
<1>. QED
  BY <1>2, <1>3, <1>4, <1>5, <1>6, <1>9, <1>10 DEF c

(* Calls of one thread alone change: no number is taken from another thread. *)
LEMMA StackChanges ==
  ASSUME StacksInv, created \in Nat, NEW t \in Status!Threads, NEW s,
         calls' = [calls EXCEPT ![t] = s], created' = created \/ created' = created + 1, StackOk(t)',
         \A j \in DOMAIN s : \/ \E i \in DOMAIN calls[t] : s[j].event.number = calls[t][i].event.number
                             \/ s[j].event.number = created + 1,
         \A i, j \in DOMAIN s : s[i].event.number = s[j].event.number => i = j
  PROVE  /\ StacksInv'
         /\ \A d : Open(d)' <=> \/ \E u \in Status!Threads \ {t} : \E i \in DOMAIN calls[u] : d = calls[u][i]
                                \/ \E i \in DOMAIN s : d = s[i]
<1>1. /\ calls'[t] = s
      /\ \A u \in Status!Threads : u # t => calls'[u] = calls[u]
      /\ calls' = [u \in Status!Threads |-> calls'[u]]
  BY DEF StacksInv
<1>2. \A d : Open(d)' <=> \/ \E u \in Status!Threads \ {t} : \E i \in DOMAIN calls[u] : d = calls[u][i]
                          \/ \E i \in DOMAIN s : d = s[i]
  BY <1>1 DEF Open
<1>3. \A u \in Status!Threads : \A i \in DOMAIN calls[u] : calls[u][i].event.number < created + 1
  <2>. SUFFICES ASSUME NEW u \in Status!Threads, NEW i \in DOMAIN calls[u]
                PROVE  calls[u][i].event.number < created + 1
    OBVIOUS
  <2>1. Open(calls[u][i])
    BY DEF Open
  <2>. QED
    BY <2>1, OpenCalls DEF CallOk, Status!Events
<1>4. \A c : CallOk(c) => CallOk(c)'
  BY DEF CallOk, Status!Events
<1>5. ASSUME NEW u \in Status!Threads PROVE StackOk(u)'
  <2>1. CASE u = t
    BY <2>1
  <2>2. CASE u # t
    <3>1. StackOk(u) /\ calls'[u] = calls[u]
      BY <1>1, <2>2 DEF StacksInv
    <3>. QED
      BY <1>4, <3>1 DEF StackOk
  <2>. QED
    BY <2>1, <2>2
<1>6. ASSUME NEW w \in Status!Threads \ {t}, NEW i \in DOMAIN s, NEW j \in DOMAIN calls[w]
      PROVE  s[i].event.number # calls[w][j].event.number
  <2>1. \A k \in DOMAIN calls[t] : calls[t][k].event.number # calls[w][j].event.number
    BY DEF StacksInv
  <2>2. calls[w][j].event.number # created + 1
    BY <1>3
  <2>. QED
    BY <2>1, <2>2
<1>7. ASSUME NEW u \in Status!Threads, NEW w \in Status!Threads, NEW i \in DOMAIN calls'[u], NEW j \in DOMAIN calls'[w],
             calls'[u][i].event.number = calls'[w][j].event.number
      PROVE  u = w /\ i = j
  <2>1. CASE u = t /\ w = t
    BY <1>1, <1>7, <2>1
  <2>2. CASE u # t /\ w # t
    BY <1>1, <1>7, <2>2 DEF StacksInv
  <2>3. CASE (u = t /\ w # t) \/ (u # t /\ w = t)
    BY <1>1, <1>6, <1>7, <2>3
  <2>. QED
    BY <2>1, <2>2, <2>3
<1>8. StacksInv'
  BY <1>1, <1>5, <1>7 DEF StacksInv
<1>. QED
  BY <1>2, <1>8

(* The calls besides c, the one at work. *)
Others(c, d) == Open(d) /\ d.event.number # c.event.number

LEMMA CallAdvances ==
  ASSUME StacksInv, created \in Nat, NEW t \in Status!Threads, calls[t] # <<>>,
         calls' = [calls EXCEPT ![t] = Status!Advanced(t)], created' = created,
         NEW c, c = calls[t][1]
  PROVE  /\ StacksInv'
         /\ \A d : Open(d)' <=> Others(c, d) \/ (d = After(c) /\ Tail(c.todo) # <<>>)
<1>. DEFINE s == Status!Advanced(t)
<1>1. /\ CallOk(c) /\ Open(c)
      /\ Tail(c.todo) # <<>> => CallOk(After(c)) /\ After(c).todo[1].do # "stop"
      /\ \/ calls[t] = <<c>> /\ s = IF Tail(c.todo) = <<>> THEN <<>> ELSE <<After(c)>>
         \/ \E d : /\ calls[t] = <<c, d>> /\ CallOk(d) /\ c.todo[1].do # "stop" /\ d.todo[1].do # "stop"
                   /\ s = IF Tail(c.todo) = <<>> THEN <<d>> ELSE <<After(c), d>>
  BY StackAtWork
<1>2. calls'[t] = s /\ \A x : CallOk(x)' <=> CallOk(x)
  BY DEF StacksInv, CallOk
<1>3. After(c).event = c.event /\ calls' = [calls EXCEPT ![t] = s]
  BY DEF After
<1>. HIDE DEF s
<1>4. \A u \in Status!Threads \ {t} : \A i \in DOMAIN calls[u] : calls[u][i].event.number # c.event.number
  <2>1. 1 \in DOMAIN calls[t]
    BY <1>1
  <2>. QED
    BY <2>1 DEF StacksInv
<1>5. CASE calls[t] = <<c>> /\ s = IF Tail(c.todo) = <<>> THEN <<>> ELSE <<After(c)>>
  <2>1. StackOk(t)'
    BY <1>1, <1>2, <1>5 DEF StackOk
  <2>2. \A j \in DOMAIN s : j = 1 /\ s[j] = After(c) /\ Tail(c.todo) # <<>>
    <3>1. CASE Tail(c.todo) = <<>>
      <4>1. DOMAIN s = {}
        BY <1>5, <3>1
      <4>. QED
        BY <4>1
    <3>2. CASE Tail(c.todo) # <<>>
      BY <1>5, <3>2
    <3>. QED
      BY <3>1, <3>2
  <2>3. DOMAIN calls[t] = {1} /\ calls[t][1] = c
    BY <1>5
  <2>4. StacksInv' /\ \A d : Open(d)' <=> \/ \E u \in Status!Threads \ {t} : \E i \in DOMAIN calls[u] : d = calls[u][i]
                                          \/ \E i \in DOMAIN s : d = s[i]
    <3>1. \A i, j \in DOMAIN s : s[i].event.number = s[j].event.number => i = j
      BY <2>2
    <3>2. \A j \in DOMAIN s : \/ \E i \in DOMAIN calls[t] : s[j].event.number = calls[t][i].event.number
                              \/ s[j].event.number = created + 1
      BY <1>3, <2>2, <2>3
    <3>. QED
      BY <1>3, <2>1, <3>1, <3>2, StackChanges
  <2>5. \A d : (\E i \in DOMAIN s : d = s[i]) <=> d = After(c) /\ Tail(c.todo) # <<>>
    BY <1>5
  <2>6. \A d : (\E u \in Status!Threads \ {t} : \E i \in DOMAIN calls[u] : d = calls[u][i]) <=> Others(c, d)
    BY <1>4, <2>3 DEF Others, Open
  <2>. QED
    BY <2>4, <2>5, <2>6
<1>6. ASSUME NEW e, calls[t] = <<c, e>>, CallOk(e), e.todo[1].do # "stop",
             s = IF Tail(c.todo) = <<>> THEN <<e>> ELSE <<After(c), e>>
      PROVE  /\ StacksInv'
             /\ \A d : Open(d)' <=> Others(c, d) \/ (d = After(c) /\ Tail(c.todo) # <<>>)
  <2>1. StackOk(t)'
    BY <1>1, <1>2, <1>6 DEF StackOk
  <2>2. DOMAIN calls[t] = {1, 2} /\ calls[t][1] = c /\ calls[t][2] = e
    BY <1>6
  <2>3. c.event.number # e.event.number
    BY <2>2 DEF StacksInv
  <2>4. \A j \in DOMAIN s : \/ s[j] = After(c) /\ j = 1 /\ Tail(c.todo) # <<>>
                            \/ s[j] = e /\ (Tail(c.todo) = <<>> => j = 1) /\ (Tail(c.todo) # <<>> => j = 2)
    <3>1. CASE Tail(c.todo) = <<>>
      <4>1. DOMAIN s = {1} /\ s[1] = e
        BY <1>6, <3>1
      <4>. QED
        BY <3>1, <4>1
    <3>2. CASE Tail(c.todo) # <<>>
      <4>1. DOMAIN s = {1, 2} /\ s[1] = After(c) /\ s[2] = e
        BY <1>6, <3>2
      <4>. QED
        BY <3>2, <4>1
    <3>. QED
      BY <3>1, <3>2
  <2>5. StacksInv' /\ \A d : Open(d)' <=> \/ \E u \in Status!Threads \ {t} : \E i \in DOMAIN calls[u] : d = calls[u][i]
                                          \/ \E i \in DOMAIN s : d = s[i]
    <3>1. \A i, j \in DOMAIN s : s[i].event.number = s[j].event.number => i = j
      BY <1>3, <2>3, <2>4
    <3>2. \A j \in DOMAIN s : \/ \E i \in DOMAIN calls[t] : s[j].event.number = calls[t][i].event.number
                              \/ s[j].event.number = created + 1
      BY <1>3, <2>2, <2>4
    <3>. QED
      BY <1>3, <2>1, <3>1, <3>2, StackChanges
  <2>6. \A d : (\E i \in DOMAIN s : d = s[i]) <=> d = e \/ (d = After(c) /\ Tail(c.todo) # <<>>)
    BY <1>6
  <2>7. \A d : (\E u \in Status!Threads \ {t} : \E i \in DOMAIN calls[u] : d = calls[u][i]) \/ d = e <=> Others(c, d)
    BY <1>4, <2>2, <2>3 DEF Others, Open
  <2>. QED
    BY <2>5, <2>6, <2>7
<1>. QED
  BY <1>1, <1>5, <1>6

LEMMA PairIs ==
  ASSUME NEW a, NEW b
  PROVE  <<a>> \o <<b>> = <<a, b>>
<1>. DEFINE S == {a, b}
            x == <<a>>
            y == <<b>>
            z == <<a, b>>
<1>1. /\ x \in Seq(S) /\ y \in Seq(S) /\ z \in Seq(S) /\ Len(x) = 1 /\ Len(y) = 1 /\ Len(z) = 2
      /\ z[1] = x[1] /\ z[2] = y[1]
  OBVIOUS
<1>2. \A i \in 1 .. 2 : i \in {1, 2}
  OBVIOUS
<1>. HIDE DEF S, x, y, z
<1>3. Len(z) = Len(x) + Len(y) /\ \A i \in 1 .. Len(z) : z[i] = IF i <= Len(x) THEN x[i] ELSE y[i - Len(x)]
  BY <1>1, <1>2
<1>4. x \o y = z
  BY <1>1, <1>3, ConcatIs
<1>. QED
  BY <1>4 DEF x, y, z

(* The router publishes inside the handler of a stop request. *)
LEMMA CallNests ==
  ASSUME StacksInv, created \in Nat, NEW t \in Status!Threads, calls[t] # <<>>, NEW n,
         n = [event |-> n.event, todo |-> n.todo], n.event \in Status!Events, n.event.number = created + 1,
         n.todo \in Rests(n.event.kind), n.todo[1].do # "stop",
         NEW c, c = calls[t][1], c.todo[1].do = "stop",
         calls' = [calls EXCEPT ![t] = <<n, After(c)>>], created' = created + 1
  PROVE  /\ StacksInv'
         /\ \A d : Open(d)' <=> Others(c, d) \/ d = After(c) \/ d = n
<1>1. /\ CallOk(c) /\ Open(c) /\ calls[t] = <<c>>
      /\ CallOk(After(c)) /\ After(c).todo[1].do # "stop"
  BY StackAtWork DEF HeadFits
<1>. DEFINE s == <<n, After(c)>>
<1>2. /\ DOMAIN s = {1, 2} /\ s[1] = n /\ s[2] = After(c) /\ After(c).event = c.event
      /\ DOMAIN calls[t] = {1} /\ calls[t][1] = c
  BY <1>1 DEF After
<1>3. calls' = [calls EXCEPT ![t] = s] /\ calls'[t] = s
  BY DEF StacksInv
<1>4. StackOk(t)'
  <2>1. CallOk(n)' /\ CallOk(After(c))'
    BY <1>1 DEF CallOk, Status!Events
  <2>. QED
    BY <1>1, <1>3, <2>1 DEF StackOk
<1>5. c.event.number < created + 1 /\ c.event.number \in Nat
  BY <1>1 DEF CallOk, Status!Events
<1>. HIDE DEF s
<1>6. StacksInv' /\ \A d : Open(d)' <=> \/ \E u \in Status!Threads \ {t} : \E i \in DOMAIN calls[u] : d = calls[u][i]
                                        \/ \E i \in DOMAIN s : d = s[i]
  <2>1. \A i, j \in DOMAIN s : s[i].event.number = s[j].event.number => i = j
    BY <1>2, <1>5
  <2>2. \A j \in DOMAIN s : \/ \E i \in DOMAIN calls[t] : s[j].event.number = calls[t][i].event.number
                            \/ s[j].event.number = created + 1
    BY <1>2
  <2>3. created' = created \/ created' = created + 1
    OBVIOUS
  <2>4. calls' = [calls EXCEPT ![t] = s] /\ StackOk(t)'
    BY <1>3, <1>4
  <2>. QED
    BY <2>1, <2>2, <2>3, <2>4, StackChanges
<1>7. \A u \in Status!Threads \ {t} : \A i \in DOMAIN calls[u] : calls[u][i].event.number # c.event.number
  BY <1>2 DEF StacksInv
<1>8. ASSUME NEW d PROVE Open(d)' <=> Others(c, d) \/ d = After(c) \/ d = n
  <2>1. Open(d)' <=> \/ \E u \in Status!Threads \ {t} : \E i \in DOMAIN calls[u] : d = calls[u][i]
                     \/ \E i \in DOMAIN s : d = s[i]
    BY <1>6
  <2>2. (\E u \in Status!Threads \ {t} : \E i \in DOMAIN calls[u] : d = calls[u][i]) <=> Others(c, d)
    BY <1>2, <1>7 DEF Others, Open
  <2>3. (\E i \in DOMAIN s : d = s[i]) <=> d = After(c) \/ d = n
    BY <1>2
  <2>. QED
    BY <2>1, <2>2, <2>3
<1>. QED
  BY <1>6, <1>8

(* The handler of a stop request raises: the publish ends with nothing recorded. *)
LEMMA CallEnds ==
  ASSUME StacksInv, created \in Nat, NEW t \in Status!Threads, calls[t] # <<>>,
         calls' = [calls EXCEPT ![t] = <<>>], created' = created,
         NEW c, c = calls[t][1], c.todo[1].do = "stop"
  PROVE  StacksInv' /\ \A d : Open(d)' <=> Others(c, d)
<1>1. Open(c) /\ calls[t] = <<c>>
  BY StackAtWork
<1>2. DOMAIN calls[t] = {1} /\ calls[t][1] = c
  BY <1>1
<1>3. DOMAIN <<>> = {} /\ StackOk(t)'
  BY DEF StackOk, StacksInv
<1>4. StacksInv' /\ \A d : Open(d)' <=> \E u \in Status!Threads \ {t} : \E i \in DOMAIN calls[u] : d = calls[u][i]
  <2>. DEFINE s == <<>>
  <2>1. DOMAIN s = {} /\ calls' = [calls EXCEPT ![t] = s] /\ StackOk(t)'
    BY <1>3
  <2>. HIDE DEF s
  <2>2. StacksInv' /\ \A d : Open(d)' <=> \/ \E u \in Status!Threads \ {t} : \E i \in DOMAIN calls[u] : d = calls[u][i]
                                          \/ \E i \in DOMAIN s : d = s[i]
    BY <2>1, StackChanges
  <2>. QED
    BY <2>1, <2>2
<1>5. \A u \in Status!Threads \ {t} : \A i \in DOMAIN calls[u] : calls[u][i].event.number # c.event.number
  BY <1>2 DEF StacksInv
<1>6. \A d : (\E u \in Status!Threads \ {t} : \E i \in DOMAIN calls[u] : d = calls[u][i]) <=> Others(c, d)
  BY <1>2, <1>5 DEF Others, Open
<1>. QED
  BY <1>4, <1>6

(* ----- what the histories show, and what open calls will still add ----- *)
Shows(e, h) == \E i \in DOMAIN history[h] : history[h][i] = e
Full(h) == Len(history[h]) >= Size[h]
WillShow(e, h) == \E c : Open(c) /\ c.event = e /\ h \in Inserts(c.todo)
WillCut(h) == \E c : Open(c) /\ h \in Trims(c.todo) /\ h \notin Inserts(c.todo)

(* Each open call has inserted its event in the histories it has passed,      *)
(* where the event still is unless that one is full.                          *)
DeliveryInv ==
  \A c : Open(c) =>
    \A h \in Status!Histories :
      /\ h \in Inserts(c.todo) => ~Shows(c.event, h)
      /\ Status!BelongsTo(c.event, h) => h \in Inserts(c.todo) \/ Shows(c.event, h) \/ Full(h)

SizeInv == \A h \in Status!Histories : Len(history[h]) > Size[h] => WillCut(h)

AgreeInv ==
  \A g, h \in Status!Histories : \A e :
    Shows(e, g) /\ Status!BelongsTo(e, h) => Shows(e, h) \/ Full(h) \/ WillShow(e, h)

ShownInv ==
  /\ history = [h \in Status!Histories |-> history[h]]
  /\ \A h \in Status!Histories : history[h] \in Seq(Status!Events)
  /\ \A h \in Status!Histories : \A e : Shows(e, h) => e.number <= created

RecordInv == StacksInv /\ ShownInv /\ DeliveryInv /\ SizeInv /\ AgreeInv

LEMMA AfterIs ==
  ASSUME NEW c
  PROVE  After(c).event = c.event /\ After(c).todo = Tail(c.todo)
  BY DEF After

(* A step that leaves the histories, and adds calls that have recorded nothing. *)
LEMMA CallsAlone ==
  ASSUME RecordInv, created \in Nat, UNCHANGED history, created' = created \/ created' = created + 1,
         StacksInv', NEW N,
         \A d : Open(d) => \E e : Open(e)' /\ e.event = d.event /\ Inserts(e.todo) = Inserts(d.todo) /\ Trims(e.todo) = Trims(d.todo),
         \A e : Open(e)' => \/ \E d : Open(d) /\ e.event = d.event /\ Inserts(e.todo) = Inserts(d.todo)
                            \/ e \in N,
         \A n \in N : /\ n.event.number = created + 1
                      /\ \A h \in Status!Histories : Status!BelongsTo(n.event, h) => h \in Inserts(n.todo)
  PROVE  RecordInv'
<1>1. \A e, h : Shows(e, h)' <=> Shows(e, h)
  BY DEF Shows
<1>2. \A h : Full(h)' <=> Full(h)
  BY DEF Full
<1>3. ShownInv'
  <2>1. \A h \in Status!Histories : history[h] \in Seq(Status!Events)
    BY DEF RecordInv, ShownInv
  <2>2. ASSUME NEW h \in Status!Histories, NEW e, Shows(e, h) PROVE e.number <= created'
    <3>1. e \in Status!Events /\ e.number <= created
      BY <2>1, <2>2 DEF Shows, RecordInv, ShownInv
    <3>2. e.number \in Nat
      BY <3>1 DEF Status!Events
    <3>. QED
      BY <3>1, <3>2
  <2>. QED
    BY <1>1, <2>1, <2>2 DEF RecordInv, ShownInv
<1>4. DeliveryInv'
  <2>. SUFFICES ASSUME NEW e, Open(e)', NEW h \in Status!Histories
                PROVE  /\ h \in Inserts(e.todo) => ~Shows(e.event, h)
                       /\ Status!BelongsTo(e.event, h) => h \in Inserts(e.todo) \/ Shows(e.event, h) \/ Full(h)
    BY <1>1, <1>2 DEF DeliveryInv
  <2>1. CASE \E d : Open(d) /\ e.event = d.event /\ Inserts(e.todo) = Inserts(d.todo)
    BY <2>1 DEF RecordInv, DeliveryInv
  <2>2. CASE e \in N
    <3>1. ~Shows(e.event, h)
      <4>. SUFFICES ASSUME Shows(e.event, h) PROVE FALSE
        OBVIOUS
      <4>1. e.event.number <= created /\ e.event.number = created + 1
        BY <2>2 DEF RecordInv, ShownInv
      <4>. QED
        BY <4>1
    <3>. QED
      BY <2>2, <3>1
  <2>. QED
    BY <2>1, <2>2
<1>5. SizeInv'
  <2>1. \A h : WillCut(h) => WillCut(h)'
    BY DEF WillCut
  <2>. QED
    BY <2>1 DEF RecordInv, SizeInv
<1>6. AgreeInv'
  <2>1. \A e, h : WillShow(e, h) => WillShow(e, h)'
    BY DEF WillShow
  <2>. QED
    BY <1>1, <1>2, <2>1 DEF RecordInv, AgreeInv
<1>. QED
  BY <1>3, <1>4, <1>5, <1>6 DEF RecordInv

(* A publish that ends with nothing recorded takes nothing with it. *)
LEMMA CallEndsAlone ==
  ASSUME RecordInv, UNCHANGED <<history, created>>, StacksInv', NEW c, Open(c), Inserts(c.todo) = Status!Histories,
         \A d : Open(d)' <=> Others(c, d)
  PROVE  RecordInv'
<1>1. (\A e, h : Shows(e, h)' <=> Shows(e, h)) /\ (\A h : Full(h)' <=> Full(h))
  BY DEF Shows, Full
<1>2. \A d : Open(d)' => Open(d)
  BY DEF Others
<1>3. \A d : Open(d) => Open(d)' \/ d = c
  BY OpenCalls DEF RecordInv, Others
<1>4. ShownInv'
  BY <1>1 DEF RecordInv, ShownInv
<1>5. DeliveryInv'
  BY <1>1, <1>2 DEF RecordInv, DeliveryInv
<1>6. SizeInv'
  <2>1. \A h \in Status!Histories : WillCut(h) => WillCut(h)'
    BY <1>3 DEF WillCut
  <2>. QED
    BY <2>1 DEF RecordInv, SizeInv
<1>7. AgreeInv'
  <2>. SUFFICES ASSUME NEW g \in Status!Histories, NEW h \in Status!Histories, NEW e,
                       Shows(e, g), Status!BelongsTo(e, h)
                PROVE  Shows(e, h) \/ Full(h) \/ WillShow(e, h)'
    BY <1>1 DEF AgreeInv
  <2>1. Shows(e, h) \/ Full(h) \/ WillShow(e, h)
    BY DEF RecordInv, AgreeInv
  <2>2. e # c.event
    BY DEF RecordInv, DeliveryInv
  <2>3. WillShow(e, h) => WillShow(e, h)'
    BY <1>3, <2>2 DEF WillShow
  <2>. QED
    BY <2>1, <2>3
<1>. QED
  BY <1>4, <1>5, <1>6, <1>7 DEF RecordInv

LEMMA ConsIs ==
  ASSUME NEW S, NEW s \in Seq(S), NEW e \in S
  PROVE  /\ <<e>> \o s \in Seq(S) /\ Len(<<e>> \o s) = Len(s) + 1
         /\ \A i \in 1 .. Len(s) : (<<e>> \o s)[i + 1] = s[i]
         /\ (<<e>> \o s)[1] = e
         /\ \A j \in 1 .. Len(s) + 1 : j = 1 \/ (<<e>> \o s)[j] = s[j - 1]
<1>. DEFINE x == <<e>>
<1>1. x \in Seq(S) /\ Len(x) = 1 /\ x[1] = e /\ Len(s) \in Nat
  OBVIOUS
<1>. HIDE DEF x
<1>2. /\ x \o s \in Seq(S) /\ Len(x \o s) = Len(s) + 1
      /\ \A i \in 1 .. Len(s) + 1 : (x \o s)[i] = IF i <= 1 THEN x[i] ELSE s[i - 1]
  <2>1. /\ x \o s \in Seq(S) /\ Len(x \o s) = Len(x) + Len(s)
        /\ \A i \in 1 .. Len(x) + Len(s) : (x \o s)[i] = IF i <= Len(x) THEN x[i] ELSE s[i - Len(x)]
    BY <1>1, ConcatProperties
  <2>. QED
    BY <1>1, <2>1
<1>. DEFINE w == x \o s
<1>. HIDE DEF w
<1>3. w \in Seq(S) /\ Len(w) = Len(s) + 1 /\ \A i \in 1 .. Len(s) + 1 : w[i] = IF i <= 1 THEN x[i] ELSE s[i - 1]
  BY <1>2 DEF w
<1>4. (\A i \in 1 .. Len(s) : w[i + 1] = s[i]) /\ w[1] = e /\ \A j \in 1 .. Len(s) + 1 : j = 1 \/ w[j] = s[j - 1]
  BY <1>1, <1>3
<1>. QED
  BY <1>3, <1>4 DEF w, x

LEMMA CutIs ==
  ASSUME NEW S, NEW s \in Seq(S), NEW n \in Nat
  PROVE  LET r == Status!Trimmed(s, n)
         IN /\ r \in Seq(S) /\ Len(r) <= n
            /\ Len(s) > n => Len(r) = n
            /\ Len(s) <= n => r = s
            /\ \A i \in DOMAIN r : i \in DOMAIN s /\ r[i] = s[i]
<1>1. CASE Len(s) <= n
  BY <1>1 DEF Status!Trimmed
<1>2. CASE Len(s) > n
  <2>. DEFINE r == SubSeq(s, 1, n)
  <2>1. \A i \in 1 .. n : s[i] \in S /\ i \in DOMAIN s
    BY <1>2
  <2>2. r \in Seq(S) /\ Len(r) = n /\ \A i \in 1 .. n : r[i] = s[i]
    <3>1. /\ r \in Seq(S) /\ Len(r) = IF 1 <= n THEN n - 1 + 1 ELSE 0
          /\ \A i \in 1 .. n - 1 + 1 : r[i] = s[1 + i - 1]
      BY <2>1, SubSeqProperties
    <3>. HIDE DEF r
    <3>. QED
      BY <3>1
  <2>3. Status!Trimmed(s, n) = r
    BY <1>2 DEF Status!Trimmed
  <2>. HIDE DEF r
  <2>. QED
    BY <1>2, <2>1, <2>2, <2>3
<1>. QED
  BY <1>1, <1>2

(* An event is inserted at the head of a history. *)
LEMMA CallInserts ==
  ASSUME RecordInv, created' = created, StacksInv', NEW c, Open(c), NEW h \in Status!Histories, HeadFits(c.todo),
         c.todo[1].do = "insert", h = c.todo[1].into, history' = [history EXCEPT ![h] = <<c.event>> \o @],
         \A d : Open(d)' <=> Others(c, d) \/ (d = After(c) /\ Tail(c.todo) # <<>>)
  PROVE  RecordInv'
<1>1. /\ Open(After(c))' /\ After(c).event = c.event
      /\ h \in Inserts(c.todo) /\ h \in Trims(c.todo)
      /\ Inserts(After(c).todo) = Inserts(c.todo) \ {h} /\ Trims(After(c).todo) = Trims(c.todo)
  BY AfterIs DEF HeadFits
<1>2. c.event \in Status!Events /\ c.event.number <= created /\ history[h] \in Seq(Status!Events)
  BY OpenCalls DEF RecordInv, CallOk, ShownInv
<1>3. /\ \A g \in Status!Histories : g # h => history'[g] = history[g]
      /\ history'[h] = <<c.event>> \o history[h] /\ history' = [g \in Status!Histories |-> history'[g]]
  BY DEF RecordInv, ShownInv
<1>4. /\ history'[h] \in Seq(Status!Events) /\ Len(history'[h]) = Len(history[h]) + 1
      /\ \A i \in 1 .. Len(history[h]) : history'[h][i + 1] = history[h][i]
      /\ history'[h][1] = c.event
      /\ \A j \in 1 .. Len(history[h]) + 1 : j = 1 \/ history'[h][j] = history[h][j - 1]
  <2>. DEFINE s == history[h]
              e == c.event
              w == <<e>> \o s
  <2>1. history'[h] = w /\ s \in Seq(Status!Events) /\ e \in Status!Events
    BY <1>2, <1>3
  <2>2. /\ w \in Seq(Status!Events) /\ Len(w) = Len(s) + 1
        /\ \A i \in 1 .. Len(s) : w[i + 1] = s[i]
        /\ w[1] = e
        /\ \A j \in 1 .. Len(s) + 1 : j = 1 \/ w[j] = s[j - 1]
    <3>. HIDE DEF s, e
    <3>. QED
      BY <2>1, ConsIs
  <2>. HIDE DEF w
  <2>. QED
    BY <2>1, <2>2
<1>5. \A g \in Status!Histories : \A e : Shows(e, g)' <=> Shows(e, g) \/ (g = h /\ e = c.event)
  <2>1. \A g \in Status!Histories \ {h} : \A e : Shows(e, g)' <=> Shows(e, g)
    BY <1>3 DEF Shows
  <2>2. DOMAIN history[h] = 1 .. Len(history[h]) /\ DOMAIN history'[h] = 1 .. Len(history[h]) + 1 /\ Len(history[h]) \in Nat
    BY <1>2, <1>4
  <2>3. ASSUME NEW e PROVE Shows(e, h)' => Shows(e, h) \/ e = c.event
    <3>. SUFFICES ASSUME NEW j \in 1 .. Len(history[h]) + 1, history'[h][j] = e, e # c.event PROVE Shows(e, h)
      BY <2>2 DEF Shows
    <3>1. j # 1 /\ history[h][j - 1] = e
      BY <1>4
    <3>2. j - 1 \in 1 .. Len(history[h])
      BY <2>2, <3>1
    <3>. QED
      BY <2>2, <3>1, <3>2 DEF Shows
  <2>4. ASSUME NEW e, Shows(e, h) PROVE Shows(e, h)'
    <3>1. PICK i \in 1 .. Len(history[h]) : history[h][i] = e
      BY <2>2, <2>4 DEF Shows
    <3>2. i + 1 \in 1 .. Len(history[h]) + 1 /\ history'[h][i + 1] = e
      BY <1>4, <2>2, <3>1
    <3>. QED
      BY <2>2, <3>2 DEF Shows
  <2>5. Shows(c.event, h)'
    <3>1. 1 \in DOMAIN history'[h]
      BY <2>2
    <3>. QED
      BY <1>4, <3>1 DEF Shows
  <2>. QED
    BY <2>1, <2>3, <2>4, <2>5
<1>6. \A g \in Status!Histories : Full(g) => Full(g)'
  <2>1. Len(history[h]) \in Nat /\ Size[h] \in Nat
    BY <1>2, StatusAssumption
  <2>2. Full(h) => Full(h)'
    <3>1. Len(history'[h]) = Len(history[h]) + 1
      BY <1>4
    <3>. QED
      BY <2>1, <3>1 DEF Full
  <2>3. \A g \in Status!Histories \ {h} : Full(g) => Full(g)'
    BY <1>3 DEF Full
  <2>. QED
    BY <2>2, <2>3
<1>7. \A d : Open(d) => d = c \/ (Open(d)' /\ d.event # c.event)
  BY OpenCalls DEF RecordInv, Others
<1>8. \A d : Open(d)' => d = After(c) \/ (Open(d) /\ d.event # c.event)
  BY DEF Others
<1>9. ShownInv'
  <2>1. \A g \in Status!Histories : history'[g] \in Seq(Status!Events)
    BY <1>3, <1>4 DEF RecordInv, ShownInv
  <2>2. \A g \in Status!Histories : \A e : Shows(e, g)' => e.number <= created
    BY <1>2, <1>5 DEF RecordInv, ShownInv
  <2>. QED
    BY <1>3, <2>1, <2>2 DEF ShownInv
<1>10. DeliveryInv'
  <2>. SUFFICES ASSUME NEW d, Open(d)', NEW g \in Status!Histories
                PROVE  /\ g \in Inserts(d.todo) => ~Shows(d.event, g)'
                       /\ Status!BelongsTo(d.event, g) => g \in Inserts(d.todo) \/ Shows(d.event, g)' \/ Full(g)'
    BY DEF DeliveryInv
  <2>1. CASE d = After(c)
    BY <1>1, <1>5, <1>6, <2>1 DEF RecordInv, DeliveryInv
  <2>2. CASE Open(d) /\ d.event # c.event
    BY <1>5, <1>6, <2>2 DEF RecordInv, DeliveryInv
  <2>. QED
    BY <1>8, <2>1, <2>2
<1>11. SizeInv'
  <2>1. \A g \in Status!Histories : WillCut(g) => WillCut(g)'
    BY <1>1, <1>7 DEF WillCut
  <2>2. WillCut(h)'
    BY <1>1 DEF WillCut
  <2>3. \A g \in Status!Histories \ {h} : Len(history'[g]) > Size[g] => WillCut(g)'
    BY <1>3, <2>1 DEF RecordInv, SizeInv
  <2>. QED
    BY <2>2, <2>3 DEF SizeInv
<1>12. AgreeInv'
  <2>1. \A g \in Status!Histories : \A e : WillShow(e, g) => WillShow(e, g)' \/ (g = h /\ e = c.event)
    <3>. SUFFICES ASSUME NEW g \in Status!Histories, NEW e, NEW d, Open(d), d.event = e, g \in Inserts(d.todo)
                  PROVE  WillShow(e, g)' \/ (g = h /\ e = c.event)
      BY DEF WillShow
    <3>1. CASE d = c
      BY <1>1, <3>1 DEF WillShow
    <3>2. CASE d # c
      BY <1>7, <3>2 DEF WillShow
    <3>. QED
      BY <3>1, <3>2
  <2>2. \A g \in Status!Histories : Status!BelongsTo(c.event, g) => Shows(c.event, g)' \/ Full(g)' \/ WillShow(c.event, g)'
    BY <1>1, <1>10 DEF DeliveryInv, WillShow
  <2>. SUFFICES ASSUME NEW g \in Status!Histories, NEW f \in Status!Histories, NEW e,
                       Shows(e, g)', Status!BelongsTo(e, f)
                PROVE  Shows(e, f)' \/ Full(f)' \/ WillShow(e, f)'
    BY DEF AgreeInv
  <2>3. CASE Shows(e, g)
    BY <1>5, <1>6, <2>1, <2>3 DEF RecordInv, AgreeInv
  <2>4. CASE e = c.event
    BY <2>2, <2>4
  <2>. QED
    BY <1>5, <2>3, <2>4
<1>. QED
  BY <1>9, <1>10, <1>11, <1>12 DEF RecordInv

(* A history is cut to its size. *)
LEMMA CallTrims ==
  ASSUME RecordInv, created' = created, StacksInv', NEW c, Open(c), NEW h \in Status!Histories, HeadFits(c.todo),
         c.todo[1].do = "trim", h = c.todo[1].into, history' = [history EXCEPT ![h] = Status!Trimmed(@, Size[h])],
         \A d : Open(d)' <=> Others(c, d) \/ (d = After(c) /\ Tail(c.todo) # <<>>)
  PROVE  RecordInv'
<1>1. /\ Tail(c.todo) # <<>> => Open(After(c))'
      /\ After(c).event = c.event /\ After(c).todo = Tail(c.todo) /\ h \notin Inserts(c.todo)
      /\ Inserts(After(c).todo) = Inserts(c.todo) /\ Trims(After(c).todo) = Trims(c.todo) \ {h}
  BY AfterIs DEF HeadFits
<1>2. Tail(c.todo) = <<>> => Inserts(c.todo) = {} /\ Trims(c.todo) \ {h} = {}
  BY <1>1, InsertsAre, TrimsAre
<1>3. history[h] \in Seq(Status!Events) /\ Size[h] \in Nat /\ Len(history[h]) \in Nat
  BY StatusAssumption DEF RecordInv, ShownInv
<1>4. /\ \A g \in Status!Histories : g # h => history'[g] = history[g]
      /\ history'[h] = Status!Trimmed(history[h], Size[h]) /\ history' = [g \in Status!Histories |-> history'[g]]
  BY DEF RecordInv, ShownInv
<1>5. /\ history'[h] \in Seq(Status!Events) /\ Len(history'[h]) <= Size[h]
      /\ Len(history[h]) > Size[h] => Len(history'[h]) = Size[h]
      /\ Len(history[h]) <= Size[h] => history'[h] = history[h]
      /\ \A i \in DOMAIN history'[h] : i \in DOMAIN history[h] /\ history'[h][i] = history[h][i]
  <2>. DEFINE s == history[h]
              n == Size[h]
              r == Status!Trimmed(s, n)
  <2>1. history'[h] = r /\ s \in Seq(Status!Events) /\ n \in Nat
    BY <1>3, <1>4
  <2>2. /\ r \in Seq(Status!Events) /\ Len(r) <= n
        /\ Len(s) > n => Len(r) = n
        /\ Len(s) <= n => r = s
        /\ \A i \in DOMAIN r : i \in DOMAIN s /\ r[i] = s[i]
    <3>. HIDE DEF s, n
    <3>. QED
      BY <2>1, CutIs
  <2>. HIDE DEF r
  <2>. QED
    BY <2>1, <2>2
<1>6. \A g \in Status!Histories : \A e : Shows(e, g)' => Shows(e, g)
  <2>1. \A e : Shows(e, h)' => Shows(e, h)
    BY <1>5 DEF Shows
  <2>2. \A g \in Status!Histories \ {h} : \A e : Shows(e, g)' => Shows(e, g)
    BY <1>4 DEF Shows
  <2>. QED
    BY <2>1, <2>2
<1>7. \A g \in Status!Histories : Full(g) => Full(g)'
  <2>1. Full(h) => Full(h)'
    BY <1>3, <1>5 DEF Full
  <2>2. \A g \in Status!Histories \ {h} : Full(g) => Full(g)'
    BY <1>4 DEF Full
  <2>. QED
    BY <2>1, <2>2
<1>8. \A g \in Status!Histories : \A e : Shows(e, g) => Shows(e, g)' \/ Full(g)'
  <2>1. \A e : Shows(e, h) => Shows(e, h)' \/ Full(h)'
    <3>. /\ Len(history[h]) > Size[h] => Len(history'[h]) = Size[h]
         /\ Len(history[h]) <= Size[h] => history'[h] = history[h]
      BY <1>5
    <3>1. CASE Len(history[h]) > Size[h]
      <4>1. Len(history'[h]) = Size[h]
        BY <3>1
      <4>. QED
        BY <1>3, <4>1 DEF Full
    <3>2. CASE Len(history[h]) <= Size[h]
      <4>1. history'[h] = history[h]
        BY <3>2
      <4>. QED
        BY <4>1 DEF Shows
    <3>. QED
      BY <1>3, <3>1, <3>2
  <2>2. \A g \in Status!Histories \ {h} : \A e : Shows(e, g) => Shows(e, g)'
    BY <1>4 DEF Shows
  <2>. QED
    BY <2>1, <2>2
<1>9. \A d : Open(d) => d = c \/ Open(d)'
  BY OpenCalls DEF RecordInv, Others
<1>10. \A d : Open(d)' => d = After(c) \/ Open(d)
  BY DEF Others
<1>11. ShownInv'
  <2>1. \A g \in Status!Histories : history'[g] \in Seq(Status!Events)
    BY <1>4, <1>5 DEF RecordInv, ShownInv
  <2>. QED
    BY <1>4, <1>6, <2>1 DEF RecordInv, ShownInv
<1>12. DeliveryInv'
  <2>. SUFFICES ASSUME NEW d, Open(d)', NEW g \in Status!Histories
                PROVE  /\ g \in Inserts(d.todo) => ~Shows(d.event, g)'
                       /\ Status!BelongsTo(d.event, g) => g \in Inserts(d.todo) \/ Shows(d.event, g)' \/ Full(g)'
    BY DEF DeliveryInv
  <2>1. CASE d = After(c)
    BY <1>1, <1>6, <1>7, <1>8, <2>1 DEF RecordInv, DeliveryInv
  <2>2. CASE Open(d)
    BY <1>6, <1>7, <1>8, <2>2 DEF RecordInv, DeliveryInv
  <2>. QED
    BY <1>10, <2>1, <2>2
<1>13. SizeInv'
  <2>1. \A g \in Status!Histories \ {h} : WillCut(g) => WillCut(g)'
    <3>. SUFFICES ASSUME NEW g \in Status!Histories \ {h}, NEW d, Open(d), g \in Trims(d.todo), g \notin Inserts(d.todo)
                  PROVE  WillCut(g)'
      BY DEF WillCut
    <3>1. CASE d = c
      BY <1>1, <1>2, <3>1 DEF WillCut
    <3>2. CASE d # c
      BY <1>9, <3>2 DEF WillCut
    <3>. QED
      BY <3>1, <3>2
  <2>2. ~(Len(history'[h]) > Size[h])
    <3>1. Len(history'[h]) \in Nat
      BY <1>5
    <3>. QED
      BY <1>3, <1>5, <3>1
  <2>3. \A g \in Status!Histories \ {h} : Len(history'[g]) > Size[g] => WillCut(g)'
    BY <1>4, <2>1 DEF RecordInv, SizeInv
  <2>. QED
    BY <2>2, <2>3 DEF SizeInv
<1>14. AgreeInv'
  <2>1. \A g \in Status!Histories : \A e : WillShow(e, g) => WillShow(e, g)'
    <3>. SUFFICES ASSUME NEW g \in Status!Histories, NEW e, NEW d, Open(d), d.event = e, g \in Inserts(d.todo)
                  PROVE  WillShow(e, g)'
      BY DEF WillShow
    <3>1. CASE d = c
      BY <1>1, <1>2, <3>1 DEF WillShow
    <3>2. CASE d # c
      <4>1. Open(d)'
        BY <1>9, <3>2
      <4>. QED
        BY <4>1 DEF WillShow
    <3>. QED
      BY <3>1, <3>2
  <2>. QED
    BY <1>6, <1>7, <1>8, <2>1 DEF RecordInv, AgreeInv
<1>. QED
  BY <1>11, <1>12, <1>13, <1>14 DEF RecordInv

(* What a web page needs besides: counters in range, and the switcher object. *)
ControlInv ==
  /\ created \in 0 .. MaxEvents
  /\ apply \in {"idle", "applying"} /\ result \in {"none", "ok", "error"}
  /\ bridgeSw \in Status!Switchers /\ shownSw \in 0 .. bridgeSw
  /\ Status!AppliedIsShown

StatusIInv == RecordInv /\ ControlInv

LEMMA ControlStep ==
  ASSUME ControlInv, Status!Next \/ UNCHANGED statusVars
  PROVE  ControlInv'
<1>1. created' \in 0 .. MaxEvents
  <2>1. created' = created \/ (created < MaxEvents /\ created' = created + 1)
    BY DEF Status!Next, Status!Publish, Status!NothingToStop, Status!StopPublishes, Status!StopRaises, Status!Insert,
       Status!Trim, Status!ReplaceSwitcher, Status!ApplyEnds, statusVars
  <2>2. created \in 0 .. MaxEvents /\ MaxEvents \in Nat
    BY StatusAssumption DEF ControlInv
  <2>3. created < MaxEvents => created + 1 \in 0 .. MaxEvents
    BY <2>2
  <2>. QED
    BY <2>1, <2>2, <2>3
<1>2. CASE UNCHANGED <<apply, result, bridgeSw, shownSw>>
  BY <1>1, <1>2 DEF ControlInv, Status!AppliedIsShown
<1>3. CASE \E t \in Status!Threads : Status!StopRaises(t)
  <2>1. UNCHANGED <<bridgeSw, shownSw>> /\ (UNCHANGED <<apply, result>> \/ (apply' = "idle" /\ result' = "error"))
    BY <1>3 DEF Status!StopRaises
  <2>. QED
    BY <1>1, <2>1 DEF ControlInv, Status!AppliedIsShown
<1>4. CASE Status!ReplaceSwitcher
  <2>1. /\ bridgeSw' = bridgeSw \/ (bridgeSw < MaxApplies /\ bridgeSw' = bridgeSw + 1)
        /\ UNCHANGED <<result, shownSw>> /\ apply' = "applying"
    BY <1>4 DEF Status!ReplaceSwitcher
  <2>2. bridgeSw \in 0 .. MaxApplies /\ shownSw \in 0 .. bridgeSw /\ MaxApplies \in Nat
    BY StatusAssumption DEF ControlInv, Status!Switchers
  <2>3. shownSw \in 0 .. (bridgeSw + 1) /\ (bridgeSw < MaxApplies => bridgeSw + 1 \in 0 .. MaxApplies)
    BY <2>2
  <2>4. bridgeSw' \in Status!Switchers /\ shownSw' \in 0 .. bridgeSw'
    BY <2>1, <2>2, <2>3 DEF Status!Switchers
  <2>. QED
    BY <1>1, <2>1, <2>4 DEF ControlInv, Status!AppliedIsShown
<1>5. CASE Status!ApplyEnds
  <2>1. bridgeSw \in 0 .. bridgeSw
    BY StatusAssumption DEF ControlInv, Status!Switchers
  <2>2. shownSw' = bridgeSw /\ apply' = "idle" /\ result' = "ok" /\ bridgeSw' = bridgeSw
    BY <1>5 DEF Status!ApplyEnds
  <2>. QED
    BY <1>1, <2>1, <2>2 DEF ControlInv, Status!AppliedIsShown
<1>. QED
  BY <1>2, <1>3, <1>4, <1>5 DEF Status!Next, Status!Publish, Status!NothingToStop, Status!StopPublishes, Status!Insert,
     Status!Trim, statusVars

(* The call that a publish opens. *)
LEMMA CallIs ==
  ASSUME NEW kind \in Status!Kinds, created \in 0 .. MaxEvents, created < MaxEvents
  PROVE  LET n == Status!Call(kind)
         IN /\ n = [event |-> n.event, todo |-> n.todo] /\ n.event \in Status!Events /\ n.event.number = created + 1
            /\ n.event.kind = kind /\ n.todo \in Rests(kind) /\ n.todo # <<>>
            /\ \A h \in Status!Histories : Status!BelongsTo(n.event, h) => h \in Inserts(n.todo)
            /\ kind = "ptz" => n.todo[1].do # "stop"
<1>. DEFINE e == [number |-> created + 1, kind |-> kind]
            n == Status!Call(kind)
<1>1. n = [event |-> e, todo |-> Status!Delivery(e)] /\ e.kind = kind /\ e.number = created + 1
  BY DEF Status!Call
<1>2. MaxEvents \in Nat
  BY StatusAssumption
<1>3. created + 1 \in 1 .. MaxEvents
  BY <1>2
<1>4. e \in Status!Events
  BY <1>3 DEF Status!Events
<1>. HIDE DEF e, n
<1>5. /\ Status!Delivery(e) \in Rests(kind) /\ Status!Delivery(e) # <<>>
      /\ \A h \in Status!Histories : Status!BelongsTo(e, h) => h \in Inserts(Status!Delivery(e))
  BY <1>1, DeliveryIs
<1>6. \A s \in Rests("ptz") : s[1].do # "stop"
  <2>1. \A h : I(h).do = "insert" /\ T(h).do = "trim"
    BY DEF I, T, Status!Insertion, Status!Trimming
  <2>. QED
    BY <2>1, Heads DEF Rests
<1>7. n.event = e /\ n.todo = Status!Delivery(e)
  BY <1>1
<1>. QED
  BY <1>1, <1>4, <1>5, <1>6, <1>7 DEF n

LEMMA RecordStep ==
  ASSUME StatusIInv, Status!Next \/ UNCHANGED statusVars
  PROVE  RecordInv'
<1>1. RecordInv /\ StacksInv /\ created \in 0 .. MaxEvents /\ created \in Nat
  BY StatusAssumption DEF StatusIInv, RecordInv, ControlInv
<1>2. CASE UNCHANGED <<created, calls, history>>
  BY <1>1, <1>2 DEF RecordInv, StacksInv, StackOk, CallOk, ShownInv, DeliveryInv, SizeInv, AgreeInv,
     Open, Shows, Full, WillShow, WillCut
<1>3. ASSUME NEW t \in Status!Threads, NEW kind \in Status!Kinds, calls[t] = <<>>, created < MaxEvents,
             calls' = [calls EXCEPT ![t] = <<Status!Call(kind)>>], created' = created + 1, UNCHANGED history
      PROVE  RecordInv'
  <2>. DEFINE n == Status!Call(kind)
  <2>1. /\ n = [event |-> n.event, todo |-> n.todo] /\ n.event \in Status!Events /\ n.event.number = created + 1
        /\ n.todo \in Rests(n.event.kind)
        /\ \A h \in Status!Histories : Status!BelongsTo(n.event, h) => h \in Inserts(n.todo)
    BY <1>1, <1>3, CallIs
  <2>. HIDE DEF n
  <2>2. StacksInv' /\ \A d : Open(d)' <=> Open(d) \/ d = n
    BY <1>1, <1>3, <2>1, NewCall DEF n
  <2>3. /\ \A d : Open(d) => \E e : Open(e)' /\ e.event = d.event /\ Inserts(e.todo) = Inserts(d.todo) /\ Trims(e.todo) = Trims(d.todo)
        /\ \A e : Open(e)' => \/ \E d : Open(d) /\ e.event = d.event /\ Inserts(e.todo) = Inserts(d.todo)
                              \/ e \in {n}
    BY <2>2
  <2>. DEFINE N == {n}
  <2>4. /\ \A e : Open(e)' => \/ \E d : Open(d) /\ e.event = d.event /\ Inserts(e.todo) = Inserts(d.todo)
                             \/ e \in N
        /\ \A x \in N : /\ x.event.number = created + 1
                        /\ \A h \in Status!Histories : Status!BelongsTo(x.event, h) => h \in Inserts(x.todo)
    BY <2>1, <2>3
  <2>5. UNCHANGED history /\ (created' = created \/ created' = created + 1)
    BY <1>3
  <2>. HIDE DEF N
  <2>. QED
    BY <1>1, <2>2, <2>3, <2>4, <2>5, CallsAlone
<1>4. ASSUME NEW t \in Status!Threads, NEW c, calls[t] # <<>>, c = calls[t][1]
      PROVE  /\ Open(c) /\ CallOk(c) /\ HeadFits(c.todo) /\ Status!Current(t) = c /\ Head(calls[t]) = c
             /\ After(c).event = c.event /\ After(c).todo = Tail(c.todo)
             /\ \A d : Open(d) => Others(c, d) \/ d = c
             /\ \A d : Others(c, d) => Open(d)
  BY <1>1, <1>4, StackAtWork, AfterIs, OpenCalls DEF Others, Status!Current
<1>5. ASSUME NEW t \in Status!Threads, Status!NothingToStop(t) PROVE RecordInv'
  <2>. DEFINE c == calls[t][1]
  <2>1. calls[t] # <<>> /\ calls' = [calls EXCEPT ![t] = Status!Advanced(t)] /\ UNCHANGED <<created, history>>
    BY <1>5 DEF Status!NothingToStop, Status!Due, Status!Idle
  <2>2. /\ Open(c) /\ HeadFits(c.todo) /\ Head(calls[t]) = c /\ After(c).event = c.event /\ After(c).todo = Tail(c.todo)
        /\ \A d : Open(d) => Others(c, d) \/ d = c
        /\ \A d : Others(c, d) => Open(d)
    BY <1>4, <2>1
  <2>3. StacksInv' /\ \A d : Open(d)' <=> Others(c, d) \/ (d = After(c) /\ Tail(c.todo) # <<>>)
    BY <1>1, <2>1, CallAdvances
  <2>4. c.todo[1].do = "stop"
    BY <1>5, <2>2 DEF Status!NothingToStop, Status!Due
  <2>. HIDE DEF c
  <2>5. Tail(c.todo) # <<>> /\ Inserts(After(c).todo) = Inserts(c.todo) /\ Trims(After(c).todo) = Trims(c.todo)
    BY <2>2, <2>4 DEF HeadFits
  <2>6. /\ \A d : Open(d) => \E e : Open(e)' /\ e.event = d.event /\ Inserts(e.todo) = Inserts(d.todo) /\ Trims(e.todo) = Trims(d.todo)
        /\ \A e : Open(e)' => \E d : Open(d) /\ e.event = d.event /\ Inserts(e.todo) = Inserts(d.todo)
    BY <2>2, <2>3, <2>5
  <2>. DEFINE N == {}
  <2>7. /\ \A e : Open(e)' => \/ \E d : Open(d) /\ e.event = d.event /\ Inserts(e.todo) = Inserts(d.todo)
                             \/ e \in N
        /\ \A x \in N : /\ x.event.number = created + 1
                        /\ \A h \in Status!Histories : Status!BelongsTo(x.event, h) => h \in Inserts(x.todo)
    BY <2>6
  <2>8. UNCHANGED history /\ (created' = created \/ created' = created + 1)
    BY <2>1
  <2>. HIDE DEF N
  <2>. QED
    BY <1>1, <2>3, <2>6, <2>7, <2>8, CallsAlone
<1>6. ASSUME NEW t \in Status!Threads, Status!StopPublishes(t) PROVE RecordInv'
  <2>. DEFINE c == calls[t][1]
              n == Status!Call("ptz")
  <2>1. /\ calls[t] # <<>> /\ calls' = [calls EXCEPT ![t] = <<n>> \o Status!Advanced(t)] /\ UNCHANGED history
        /\ created' = created + 1 /\ created < MaxEvents
    BY <1>6 DEF Status!StopPublishes, Status!Due, Status!Idle
  <2>2. /\ Open(c) /\ HeadFits(c.todo) /\ Head(calls[t]) = c /\ After(c).event = c.event /\ After(c).todo = Tail(c.todo)
        /\ \A d : Open(d) => Others(c, d) \/ d = c
        /\ \A d : Others(c, d) => Open(d)
    BY <1>4, <2>1
  <2>3. c.todo[1].do = "stop"
    BY <1>6, <2>2 DEF Status!StopPublishes, Status!Due
  <2>4. /\ n = [event |-> n.event, todo |-> n.todo] /\ n.event \in Status!Events /\ n.event.number = created + 1
        /\ n.todo \in Rests(n.event.kind) /\ n.todo[1].do # "stop"
        /\ \A h \in Status!Histories : Status!BelongsTo(n.event, h) => h \in Inserts(n.todo)
    <3>1. "ptz" \in Status!Kinds
      BY DEF Status!Kinds
    <3>. QED
      BY <1>1, <2>1, <3>1, CallIs
  <2>. HIDE DEF n
  <2>5. StacksInv' /\ \A d : Open(d)' <=> Others(c, d) \/ d = After(c) \/ d = n
    <3>1. c = calls[t][1]
      OBVIOUS
    <3>2. calls' = [calls EXCEPT ![t] = <<n>> \o Status!Advanced(t)] /\ created' = created + 1 /\ calls[t] # <<>>
      BY <2>1
    <3>. HIDE DEF c
    <3>3. /\ StacksInv /\ created \in Nat
          /\ n = [event |-> n.event, todo |-> n.todo] /\ n.event \in Status!Events /\ n.event.number = created + 1
          /\ n.todo \in Rests(n.event.kind) /\ n.todo[1].do # "stop" /\ c.todo[1].do = "stop"
      BY <1>1, <2>3, <2>4
    <3>4. Status!Advanced(t) = <<After(c)>>
      BY <1>1, <2>1, <2>2, <2>3, StackAtWork DEF HeadFits
    <3>5. calls' = [calls EXCEPT ![t] = <<n, After(c)>>]
      BY <3>2, <3>4, PairIs
    <3>6. created' = created + 1 /\ calls[t] # <<>>
      BY <3>2
    <3>. QED
      BY <3>1, <3>3, <3>5, <3>6, CallNests DEF n, c
  <2>. HIDE DEF c
  <2>6. Inserts(After(c).todo) = Inserts(c.todo) /\ Trims(After(c).todo) = Trims(c.todo)
    BY <2>2, <2>3 DEF HeadFits
  <2>7. /\ \A d : Open(d) => \E e : Open(e)' /\ e.event = d.event /\ Inserts(e.todo) = Inserts(d.todo) /\ Trims(e.todo) = Trims(d.todo)
        /\ \A e : Open(e)' => \/ \E d : Open(d) /\ e.event = d.event /\ Inserts(e.todo) = Inserts(d.todo)
                              \/ e \in {n}
    BY <2>2, <2>5, <2>6
  <2>. DEFINE N == {n}
  <2>8. /\ \A e : Open(e)' => \/ \E d : Open(d) /\ e.event = d.event /\ Inserts(e.todo) = Inserts(d.todo)
                             \/ e \in N
        /\ \A x \in N : /\ x.event.number = created + 1
                        /\ \A h \in Status!Histories : Status!BelongsTo(x.event, h) => h \in Inserts(x.todo)
    BY <2>4, <2>7
  <2>9. UNCHANGED history /\ (created' = created \/ created' = created + 1)
    BY <2>1
  <2>. HIDE DEF N
  <2>. QED
    BY <1>1, <2>5, <2>7, <2>8, <2>9, CallsAlone
<1>7. ASSUME NEW t \in Status!Threads, Status!StopRaises(t) PROVE RecordInv'
  <2>. DEFINE c == calls[t][1]
  <2>1. calls[t] # <<>> /\ calls' = [calls EXCEPT ![t] = <<>>] /\ UNCHANGED <<created, history>>
    BY <1>7 DEF Status!StopRaises, Status!Due, Status!Idle
  <2>2. Open(c) /\ HeadFits(c.todo) /\ Head(calls[t]) = c
    BY <1>4, <2>1
  <2>3. c.todo[1].do = "stop"
    BY <1>7, <2>2 DEF Status!StopRaises, Status!Due
  <2>4. StacksInv' /\ \A d : Open(d)' <=> Others(c, d)
    BY <1>1, <2>1, <2>3, CallEnds
  <2>. HIDE DEF c
  <2>5. Inserts(c.todo) = Status!Histories
    BY <2>2, <2>3 DEF HeadFits
  <2>. QED
    BY <1>1, <2>1, <2>2, <2>4, <2>5, CallEndsAlone
<1>8. ASSUME NEW t \in Status!Threads, Status!Insert(t) PROVE RecordInv'
  <2>. DEFINE c == calls[t][1]
              h == c.todo[1].into
  <2>1. calls[t] # <<>> /\ calls' = [calls EXCEPT ![t] = Status!Advanced(t)] /\ created' = created
    BY <1>8 DEF Status!Insert, Status!Due, Status!Idle
  <2>2. Open(c) /\ HeadFits(c.todo) /\ Head(calls[t]) = c /\ Status!Current(t) = c
    BY <1>4, <2>1
  <2>3. c.todo[1].do = "insert" /\ history' = [history EXCEPT ![h] = <<c.event>> \o @]
    BY <1>8, <2>2 DEF Status!Insert, Status!Due
  <2>4. StacksInv' /\ \A d : Open(d)' <=> Others(c, d) \/ (d = After(c) /\ Tail(c.todo) # <<>>)
    BY <1>1, <2>1, CallAdvances
  <2>5. h \in Status!Histories
    BY <2>2, <2>3 DEF HeadFits, Inserts
  <2>. HIDE DEF c
  <2>. QED
    BY <1>1, <2>1, <2>2, <2>3, <2>4, <2>5, CallInserts
<1>9. ASSUME NEW t \in Status!Threads, Status!Trim(t) PROVE RecordInv'
  <2>. DEFINE c == calls[t][1]
              h == c.todo[1].into
  <2>1. calls[t] # <<>> /\ calls' = [calls EXCEPT ![t] = Status!Advanced(t)] /\ created' = created
    BY <1>9 DEF Status!Trim, Status!Due, Status!Idle
  <2>2. Open(c) /\ HeadFits(c.todo) /\ Head(calls[t]) = c /\ Status!Current(t) = c
    BY <1>4, <2>1
  <2>3. c.todo[1].do = "trim" /\ history' = [history EXCEPT ![h] = Status!Trimmed(@, Size[h])]
    BY <1>9, <2>2 DEF Status!Trim, Status!Due
  <2>4. StacksInv' /\ \A d : Open(d)' <=> Others(c, d) \/ (d = After(c) /\ Tail(c.todo) # <<>>)
    BY <1>1, <2>1, CallAdvances
  <2>5. h \in Status!Histories
    BY <2>2, <2>3 DEF HeadFits
  <2>. HIDE DEF c
  <2>. QED
    BY <1>1, <2>1, <2>2, <2>3, <2>4, <2>5, CallTrims
<1>10. ASSUME NEW t \in Status!Threads, Status!Publish(t) PROVE RecordInv'
  BY <1>3, <1>10 DEF Status!Publish, Status!Idle
<1>11. CASE Status!ApplyEnds
  <2>1. "web" \in Status!Threads /\ "other" \in Status!Kinds
    BY DEF Status!Threads, Status!Kinds
  <2>. QED
    BY <1>3, <1>11, <2>1 DEF Status!ApplyEnds, Status!Idle
<1>. QED
  BY <1>2, <1>5, <1>6, <1>7, <1>8, <1>9, <1>10, <1>11 DEF Status!Next, Status!ReplaceSwitcher, statusVars

LEMMA StatusInvariant == MCSpec => []StatusIInv
<1>1. MCInit => StatusIInv
  <2>. SUFFICES ASSUME MCInit PROVE StatusIInv
    OBVIOUS
  <2>1. /\ created = 0 /\ calls = [t \in Status!Threads |-> <<>>] /\ history = [h \in Status!Histories |-> <<>>]
        /\ apply = "idle" /\ result = "none" /\ bridgeSw = 0 /\ shownSw = 0
    BY DEF MCInit, Status!Init
  <2>2. DOMAIN <<>> = {} /\ Len(<<>>) = 0 /\ <<>> \in Seq(Status!Events)
    OBVIOUS
  <2>3. \A d : ~Open(d)
    BY <2>1, <2>2 DEF Open
  <2>4. \A e : \A h \in Status!Histories : ~Shows(e, h)
    BY <2>1, <2>2 DEF Shows
  <2>5. StacksInv
    BY <2>1, <2>2 DEF StacksInv, StackOk
  <2>6. ShownInv
    BY <2>1, <2>2, <2>4 DEF ShownInv
  <2>7. DeliveryInv /\ AgreeInv
    BY <2>3, <2>4 DEF DeliveryInv, AgreeInv
  <2>8. SizeInv
    <3>1. \A h \in Status!Histories : Len(history[h]) = 0 /\ Size[h] \in Nat
      BY <2>1, <2>2, StatusAssumption
    <3>. QED
      BY <3>1 DEF SizeInv
  <2>9. ControlInv
    <3>1. MaxEvents \in Nat /\ MaxApplies \in Nat
      BY StatusAssumption
    <3>. QED
      BY <2>1, <3>1 DEF ControlInv, Status!Switchers, Status!AppliedIsShown
  <2>. QED
    BY <2>5, <2>6, <2>7, <2>8, <2>9 DEF StatusIInv, RecordInv
<1>2. StatusIInv /\ [MCNext]_mcVars => StatusIInv'
  <2>1. [MCNext]_mcVars => Status!Next \/ UNCHANGED statusVars
    BY DEF MCNext, mcVars, statusVars
  <2>. QED
    BY <2>1, RecordStep, ControlStep DEF StatusIInv
<1>. QED
  BY <1>1, <1>2, PTL DEF MCSpec

(* When nobody publishes, the histories are within their sizes, and an event  *)
(* that one of them shows is in every other it belongs to unless that one is  *)
(* full; what is reported as applied is what the pages read; for any sizes,   *)
(* events and interleaving of the two threads' inserts, cuts and handlers     *)
(* that raise (record_event, EventBus.publish, apply_loaded_config).          *)
THEOREM PagesAreTrue == MCSpec => []ViewInv
<1>1. ASSUME StatusIInv PROVE ViewInv
  <2>1. /\ StacksInv /\ ShownInv /\ SizeInv /\ AgreeInv /\ ControlInv
    BY <1>1 DEF StatusIInv, RecordInv
  <2>2. \A t \in Status!Threads : /\ Len(calls[t]) <= 2
          /\ \A i \in DOMAIN calls[t] : /\ calls[t][i].event \in Status!Events
                                        /\ calls[t][i].todo \in Seq(Status!Operations) \ {<<>>}
    <3>1. ASSUME NEW t \in Status!Threads PROVE Len(calls[t]) <= 2
      <4>1. StackOk(t)
        BY <2>1 DEF StacksInv
      <4>2. \A c, d : Len(<<>>) = 0 /\ Len(<<c>>) = 1 /\ Len(<<c, d>>) = 2
        OBVIOUS
      <4>3. Len(calls[t]) = 0 \/ Len(calls[t]) = 1 \/ Len(calls[t]) = 2
        BY <4>1, <4>2 DEF StackOk
      <4>. DEFINE m == Len(calls[t])
      <4>4. m = 0 \/ m = 1 \/ m = 2
        BY <4>3
      <4>. HIDE DEF m
      <4>5. m <= 2
        BY <4>4
      <4>. QED
        BY <4>5 DEF m
    <3>2. ASSUME NEW t \in Status!Threads, NEW i \in DOMAIN calls[t]
          PROVE  calls[t][i].event \in Status!Events /\ calls[t][i].todo \in Seq(Status!Operations) \ {<<>>}
      <4>1. CallOk(calls[t][i])
        BY <2>1, OpenCalls DEF Open
      <4>. QED
        BY <4>1, RestsAreSequences DEF CallOk
    <3>. QED
      BY <3>1, <3>2
  <2>3. Status!TypeOK
    BY <2>1, <2>2 DEF Status!TypeOK, ShownInv, ControlInv
  <2>4. ASSUME Status!Quiet, NEW h \in Status!Histories PROVE Len(history[h]) <= Size[h]
    <3>1. \A d : ~Open(d)
      <4>1. \A t \in Status!Threads : DOMAIN calls[t] = {}
        BY <2>4 DEF Status!Quiet, Status!Idle
      <4>. QED
        BY <4>1 DEF Open
    <3>2. Len(history[h]) \in Nat /\ Size[h] \in Nat /\ ~(Len(history[h]) > Size[h])
      BY <2>1, <3>1, StatusAssumption DEF ShownInv, SizeInv, WillCut
    <3>. QED
      BY <3>2
  <2>5. ASSUME Status!Quiet, NEW g \in Status!Histories, NEW h \in Status!Histories,
               NEW e \in Status!ToSet(history[g]), Status!BelongsTo(e, h)
        PROVE  e \in Status!ToSet(history[h]) \/ Len(history[h]) = Size[h]
    <3>1. \A d : ~Open(d)
      <4>1. \A t \in Status!Threads : DOMAIN calls[t] = {}
        BY <2>5 DEF Status!Quiet, Status!Idle
      <4>. QED
        BY <4>1 DEF Open
    <3>2. Shows(e, g)
      BY <2>5 DEF Status!ToSet, Shows
    <3>3. Shows(e, h) \/ Full(h)
      BY <2>1, <2>5, <3>1, <3>2 DEF AgreeInv, WillShow
    <3>4. Shows(e, h) => e \in Status!ToSet(history[h])
      BY DEF Status!ToSet, Shows
    <3>5. Full(h) => Len(history[h]) = Size[h]
      <4>1. Len(history[h]) \in Nat /\ Size[h] \in Nat
        BY <2>1, StatusAssumption DEF ShownInv
      <4>. QED
        BY <2>4, <2>5, <4>1 DEF Full
    <3>. QED
      BY <3>3, <3>4, <3>5
  <2>6. Status!HistoriesAgree
    BY <2>4, <2>5 DEF Status!HistoriesAgree
  <2>. QED
    BY <2>1, <2>3, <2>6 DEF ViewInv, Status!ViewInv, ControlInv
<1>. QED
  BY <1>1, StatusInvariant, PTL
==============================================================================
