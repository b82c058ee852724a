--------------------------- MODULE LogPrefixProofs ---------------------------
(* Proofs about LogPrefix: the life of the vector of providers, for any    *)
(* providers, any static objects and any order of their construction.      *)
EXTENDS LogPrefix, SequenceTheorems, TLAPS

(* The inductive invariant behind ProvidersInPlace.  Nobody logs before    *)
(* the providers are installed; a worker logs only while its object is     *)
(* there; what is alive is still to be destroyed.  A program that          *)
(* registers a provider constructs the vector before any object, and so    *)
(* destroys it when all objects are gone.                                  *)
LogTypeOK ==
  /\ registered \subseteq Providers
  /\ phase \in {"constructors", "main", "exit", "ended", "aborted"}
  /\ providers \in Seq(Providers)
  /\ vector \in {"absent", "alive", "destroyed"}
  /\ object \in [Objects -> {"none", "constructing", "alive", "destroying", "gone"}]
  /\ built \in Seq(Objects \cup {Vector})
  /\ pc \in [Loggers -> {"idle", "iterate"}]

InstalledBeforeUse ==
  phase # "constructors" \/ (\E o \in Objects : object[o] # "none") \/ Iterating =>
    Installed = registered

WorkersHaveObjects == \A o \in Objects : pc[o] = "iterate" => Working(o)

AllConstructed ==
  phase \in {"main", "exit", "ended"} =>
    \A o \in Objects : object[o] \in {"alive", "destroying", "gone"}

AliveIsBuilt == \A o \in Objects : object[o] = "alive" => \E k \in 1..Len(built) : built[k] = o

VectorIsOldest ==
  CASE vector = "absent" -> built = <<>> /\ providers = <<>>
    [] vector = "alive" -> /\ Len(built) > 0 /\ built[1] = Vector
                           /\ \A k \in 2..Len(built) : built[k] \in Objects
    [] OTHER -> /\ phase \in {"exit", "ended"} /\ ~Iterating /\ built = <<>>
                /\ \A o \in Objects : object[o] = "gone"

LogInv ==
  /\ LogTypeOK /\ ProvidersInPlace
  /\ InstalledBeforeUse /\ WorkersHaveObjects /\ AllConstructed /\ AliveIsBuilt
  /\ registered # {} => VectorIsOldest

(* What is still to be destroyed, after one more object is constructed and *)
(* after the last one has been taken off.                                  *)
LEMMA OneMore ==
  ASSUME NEW S, NEW s \in Seq(S), NEW e \in S
  PROVE  /\ Append(s, e) \in Seq(S) /\ Len(s) \in Nat
         /\ Len(Append(s, e)) = Len(s) + 1
         /\ Append(s, e)[Len(s) + 1] = e
         /\ \A k \in 1..Len(s) : Append(s, e)[k] = s[k]
BY AppendProperties, LenProperties

LEMMA OneLess ==
  ASSUME NEW S, NEW s \in Seq(S), s # <<>>
  PROVE  /\ Front(s) \in Seq(S) /\ Len(s) \in Nat \ {0}
         /\ Len(Front(s)) = Len(s) - 1
         /\ \A k \in 1..Len(s) - 1 : Front(s)[k] = s[k]
         /\ Last(s) = s[Len(s)]
<1>1. Len(s) \in Nat \ {0}
  BY EmptySeq, LenProperties
<1>2. PICK n : n = Len(s) - 1
  OBVIOUS
<1>3. /\ SubSeq(s, 1, n) \in Seq(S)
      /\ Len(SubSeq(s, 1, n)) = n
      /\ \A k \in 1..n : SubSeq(s, 1, n)[k] = s[k]
  <2>1. n \in 0..Len(s)
    BY <1>1, <1>2
  <2> QED
    BY <2>1, SMT
<1> QED
  BY <1>1, <1>2, <1>3 DEF Front, Last

(* A program that has installed all it registers has a vector.             *)
LEMMA InstalledInVector ==
  ASSUME LogInv, registered # {}, Installed = registered
  PROVE  vector # "absent"
<1>1. providers = <<>> => Installed = {}
  BY DEF Installed, ToSet
<1> QED
  BY <1>1 DEF LogInv, VectorIsOldest

(* Whoever can log finds the providers installed and, if there are any,    *)
(* the vector alive.                                                       *)
LEMMA LoggersFindVector ==
  ASSUME LogInv, NEW l \in Loggers, CanLog(l)
  PROVE  Installed = registered /\ (registered # {} => vector = "alive")
<1>1. \/ phase = "main"
      \/ \E o \in Objects : Working(o)
  BY DEF CanLog, Working, Loggers
<1>2. Installed = registered
  BY <1>1 DEF LogInv, InstalledBeforeUse, Working
<1>3. registered # {} => vector # "destroyed"
  BY <1>1 DEF LogInv, VectorIsOldest, Working
<1>4. registered # {} => vector # "absent"
  BY <1>2, InstalledInVector
<1> QED
  BY <1>2, <1>3, <1>4 DEF LogInv, LogTypeOK

(* Every step keeps the invariant.                                         *)
LEMMA InstallKeeps ==
  ASSUME LogInv, NEW p \in Providers, Install(p)
  PROVE  LogInv'
<1>1. /\ phase = "constructors" /\ p \in registered \ Installed /\ p \in Providers
      /\ providers' = Append(providers, p) /\ GetProviders
      /\ fault' = IF Iterating THEN "race" ELSE fault
      /\ UNCHANGED <<registered, phase, object, pc>>
  BY DEF Install, InstallPrefixProvider, objVars, lineVars
<1>2. ~Iterating /\ \A o \in Objects : object[o] = "none"
  BY <1>1 DEF LogInv, InstalledBeforeUse
<1>3. ~Iterating' /\ fault' = fault
  BY <1>1, <1>2 DEF Iterating
<1>4. \/ vector = "absent" /\ built = <<>>
      \/ vector = "alive" /\ UNCHANGED <<vector, built>>
  <2>1. VectorIsOldest /\ vector \in {"absent", "alive", "destroyed"}
    BY <1>1 DEF LogInv, LogTypeOK
  <2>2. vector = "absent" => built = <<>>
    BY <2>1 DEF VectorIsOldest
  <2>3. vector # "destroyed"
    BY <1>1, <2>1 DEF VectorIsOldest
  <2>4. vector = "alive" => UNCHANGED <<vector, built>>
    BY <1>1 DEF GetProviders
  <2> QED
    BY <2>1, <2>2, <2>3, <2>4
<1>5. providers' \in Seq(Providers) /\ built \in Seq(Objects \cup {Vector})
  BY <1>1, AppendProperties DEF LogInv, LogTypeOK
<1>6. LogTypeOK' /\ (registered # {} => VectorIsOldest')
  <2>1. CASE vector = "absent" /\ built = <<>>
    <3>1. vector' = "alive" /\ built' = Append(<<>>, Vector)
      BY <1>1, <2>1 DEF GetProviders
    <3>2. /\ built' \in Seq(Objects \cup {Vector}) /\ Len(built') = 1 /\ built'[1] = Vector
      BY <3>1, EmptySeq, AppendProperties
    <3> QED
      BY <1>1, <1>5, <3>1, <3>2 DEF LogInv, LogTypeOK, VectorIsOldest
  <2>2. CASE vector = "alive" /\ UNCHANGED <<vector, built>>
    BY <1>1, <1>5, <2>2 DEF LogInv, LogTypeOK, VectorIsOldest
  <2> QED
    BY <1>4, <2>1, <2>2
<1> QED
  BY <1>1, <1>2, <1>3, <1>6 DEF LogInv, ProvidersInPlace, InstalledBeforeUse, WorkersHaveObjects,
     AllConstructed, AliveIsBuilt, Working, Loggers

LEMMA FormatLogKeeps ==
  ASSUME LogInv, NEW l \in Loggers, NEW isFatal, FormatLog(l, isFatal)
  PROVE  LogInv'
<1>1. /\ CanLog(l) /\ GetProviders
      /\ pc' = [pc EXCEPT ![l] = "iterate"]
      /\ fault' = IF vector = "destroyed" THEN "destroyed" ELSE fault
      /\ UNCHANGED <<registered, phase, object, providers>>
  BY DEF FormatLog, objVars
<1>2. Installed = registered /\ (registered # {} => vector = "alive")
  BY <1>1, LoggersFindVector
<1>3. Installed' = registered'
  BY <1>1, <1>2 DEF Installed
<1>4. /\ built' \in Seq(Objects \cup {Vector}) /\ vector' \in {"absent", "alive", "destroyed"}
      /\ Len(built) \in Nat /\ Len(built') \in Nat /\ Len(built) <= Len(built')
      /\ \A k \in 1..Len(built) : built'[k] = built[k]
  <2>1. built \in Seq(Objects \cup {Vector}) /\ vector \in {"absent", "alive", "destroyed"}
    BY DEF LogInv, LogTypeOK
  <2>2. CASE vector = "absent"
    <3>1. built' = Append(built, Vector) /\ vector' = "alive"
      BY <1>1, <2>2 DEF GetProviders
    <3>2. Vector \in Objects \cup {Vector}
      OBVIOUS
    <3>3. /\ Append(built, Vector) \in Seq(Objects \cup {Vector}) /\ Len(built) \in Nat
          /\ Len(Append(built, Vector)) = Len(built) + 1
          /\ \A k \in 1..Len(built) : Append(built, Vector)[k] = built[k]
      BY <2>1, <3>2, OneMore
    <3> QED
      BY <3>1, <3>3
  <2>3. CASE vector # "absent"
    BY <1>1, <2>1, <2>3, LenProperties DEF GetProviders
  <2> QED
    BY <2>2, <2>3
<1>5. LogTypeOK'
  BY <1>1, <1>4 DEF LogInv, LogTypeOK
<1>6. registered # {} => VectorIsOldest'
  <2> SUFFICES ASSUME registered # {} PROVE VectorIsOldest'
    OBVIOUS
  <2>1. vector = "alive" /\ UNCHANGED <<vector, built>>
    BY <1>1, <1>2 DEF GetProviders
  <2> QED
    BY <2>1 DEF LogInv, VectorIsOldest
<1>7. ProvidersInPlace' /\ InstalledBeforeUse' /\ AllConstructed'
  BY <1>1, <1>2, <1>3 DEF LogInv, ProvidersInPlace, InstalledBeforeUse, AllConstructed
<1>8. WorkersHaveObjects'
  BY <1>1 DEF LogInv, LogTypeOK, WorkersHaveObjects, CanLog, Working, Loggers
<1>9. AliveIsBuilt'
  <2>1. ASSUME NEW o \in Objects, object'[o] = "alive" PROVE \E k \in 1..Len(built') : built'[k] = o
    <3>1. PICK k \in 1..Len(built) : built[k] = o
      BY <1>1, <2>1 DEF LogInv, AliveIsBuilt
    <3> QED
      BY <1>4, <3>1
  <2> QED
    BY <2>1 DEF AliveIsBuilt
<1> QED
  BY <1>1, <1>5, <1>6, <1>7, <1>8, <1>9 DEF LogInv

LEMMA EndLineKeeps ==
  ASSUME LogInv, NEW l \in Loggers, EndLine(l)
  PROVE  LogInv'
<1>1. /\ pc[l] = "iterate" /\ pc' = [pc EXCEPT ![l] = "idle"]
      /\ phase' \in {phase, "aborted"}
      /\ UNCHANGED <<registered, object, providers, vector, built, fault>>
  BY DEF EndLine, Writing, AfterLine, vecVars
<1>2. Iterating /\ Installed = registered
  BY <1>1 DEF Iterating, LogInv, InstalledBeforeUse
<1>3. Installed' = registered'
  BY <1>1, <1>2 DEF Installed
<1>4. LogTypeOK'
  BY <1>1 DEF LogInv, LogTypeOK
<1>5. registered # {} => VectorIsOldest'
  BY <1>1, <1>2 DEF LogInv, VectorIsOldest
<1>6. ProvidersInPlace' /\ InstalledBeforeUse' /\ AllConstructed' /\ AliveIsBuilt'
  BY <1>1, <1>3 DEF LogInv, ProvidersInPlace, InstalledBeforeUse, AllConstructed, AliveIsBuilt
<1>7. WorkersHaveObjects'
  BY <1>1 DEF LogInv, LogTypeOK, WorkersHaveObjects, Working, Loggers
<1> QED
  BY <1>1, <1>4, <1>5, <1>6, <1>7 DEF LogInv

LEMMA ConstructKeeps ==
  ASSUME LogInv, NEW o \in Objects, Construct(o)
  PROVE  LogInv'
<1>1. /\ phase = "constructors" /\ Installed = registered
      /\ object[o] = "none" /\ object' = [object EXCEPT ![o] = "constructing"]
      /\ UNCHANGED <<registered, phase, providers, vector, built, pc, fault>>
  BY DEF Construct, InstallersFirst, Becomes, vecVars, lineVars
<1>2. Installed' = registered'
  BY <1>1 DEF Installed
<1>3. LogTypeOK' /\ WorkersHaveObjects' /\ AliveIsBuilt'
  BY <1>1 DEF LogInv, LogTypeOK, WorkersHaveObjects, AliveIsBuilt, Working
<1>4. registered # {} => VectorIsOldest'
  BY <1>1 DEF LogInv, VectorIsOldest, Iterating
<1> QED
  BY <1>1, <1>2, <1>3, <1>4 DEF LogInv, ProvidersInPlace, InstalledBeforeUse, AllConstructed

LEMMA ConstructedKeeps ==
  ASSUME LogInv, NEW o \in Objects, Constructed(o)
  PROVE  LogInv'
<1>1. /\ phase = "constructors"
      /\ object[o] = "constructing" /\ object' = [object EXCEPT ![o] = "alive"]
      /\ built' = Append(built, o)
      /\ UNCHANGED <<registered, phase, providers, vector, pc, fault>>
  BY DEF Constructed, Becomes, lineVars
<1>2. Installed = registered /\ Installed' = registered'
  BY <1>1 DEF LogInv, InstalledBeforeUse, Installed
<1>3. /\ built' \in Seq(Objects \cup {Vector}) /\ Len(built) \in Nat /\ Len(built') = Len(built) + 1
      /\ built'[Len(built) + 1] = o
      /\ \A k \in 1..Len(built) : built'[k] = built[k]
  <2>1. built \in Seq(Objects \cup {Vector}) /\ o \in Objects \cup {Vector}
    BY DEF LogInv, LogTypeOK
  <2> QED
    BY <1>1, <2>1, OneMore
<1>4. LogTypeOK' /\ WorkersHaveObjects'
  BY <1>1, <1>3 DEF LogInv, LogTypeOK, WorkersHaveObjects, Working
<1>5. AliveIsBuilt'
  <2>1. ASSUME NEW u \in Objects, object'[u] = "alive" PROVE \E k \in 1..Len(built') : built'[k] = u
    <3>1. CASE u = o
      BY <1>3, <3>1
    <3>2. CASE u # o
      <4>1. PICK k \in 1..Len(built) : built[k] = u
        BY <1>1, <2>1, <3>2 DEF LogInv, LogTypeOK, AliveIsBuilt
      <4> QED
        BY <1>3, <4>1
    <3> QED
      BY <3>1, <3>2
  <2> QED
    BY <2>1 DEF AliveIsBuilt
<1>6. registered # {} => VectorIsOldest'
  <2> SUFFICES ASSUME registered # {} PROVE VectorIsOldest'
    OBVIOUS
  <2>1. vector # "absent"
    BY <1>2, InstalledInVector
  <2>2. vector = "alive" /\ Len(built) > 0 /\ built[1] = Vector /\ \A k \in 2..Len(built) : built[k] \in Objects
    BY <1>1, <2>1 DEF LogInv, LogTypeOK, VectorIsOldest
  <2>3. \A k \in 2..Len(built') : built'[k] \in Objects
    BY <1>3, <2>2
  <2> QED
    BY <1>1, <1>3, <2>2, <2>3 DEF VectorIsOldest
<1> QED
  BY <1>1, <1>2, <1>4, <1>5, <1>6 DEF LogInv, ProvidersInPlace, InstalledBeforeUse, AllConstructed

(* The main thread takes the last object off, while no destructor runs.    *)
LEMMA LastIsTaken ==
  ASSUME LogInv, NEW o \in Objects \cup {Vector}, DestroyNext(o)
  PROVE  /\ phase = "exit" /\ pc[Main] = "idle"
         /\ \A u \in Objects : object[u] \in {"alive", "gone"}
         /\ Len(built) \in Nat \ {0} /\ built[Len(built)] = o
         /\ built' \in Seq(Objects \cup {Vector}) /\ Len(built') = Len(built) - 1
         /\ \A k \in 1..Len(built) - 1 : built'[k] = built[k]
<1>1. /\ phase = "exit" /\ pc[Main] = "idle" /\ \A u \in Objects : object[u] # "destroying"
      /\ built # <<>> /\ Last(built) = o /\ built' = Front(built)
  BY DEF DestroyNext, MainIsFree
<1>2. built \in Seq(Objects \cup {Vector})
  BY DEF LogInv, LogTypeOK
<1>3. \A u \in Objects : object[u] \in {"alive", "gone"}
  BY <1>1 DEF LogInv, AllConstructed
<1> QED
  BY <1>1, <1>2, <1>3, OneLess

LEMMA DestroyKeeps ==
  ASSUME LogInv, NEW o \in Objects, Destroy(o)
  PROVE  LogInv'
<1> USE LogAssumption
<1>1. /\ DestroyNext(o)
      /\ object[o] = "alive" /\ object' = [object EXCEPT ![o] = "destroying"]
      /\ UNCHANGED <<registered, phase, providers, vector, pc, fault>>
  BY DEF Destroy, Becomes, lineVars
<1>2. /\ phase = "exit"
      /\ Len(built) \in Nat \ {0} /\ built[Len(built)] = o
      /\ built' \in Seq(Objects \cup {Vector}) /\ Len(built') = Len(built) - 1
      /\ \A k \in 1..Len(built) - 1 : built'[k] = built[k]
  BY <1>1, LastIsTaken
<1>3. LogTypeOK' /\ WorkersHaveObjects' /\ AllConstructed'
  BY <1>1, <1>2 DEF LogInv, LogTypeOK, WorkersHaveObjects, AllConstructed, Working
<1>4. InstalledBeforeUse'
  BY <1>1, <1>2 DEF LogInv, InstalledBeforeUse, Installed
<1>5. AliveIsBuilt'
  <2>1. ASSUME NEW u \in Objects, object'[u] = "alive" PROVE \E k \in 1..Len(built') : built'[k] = u
    <3>1. u # o /\ object[u] = "alive"
      BY <1>1, <2>1 DEF LogInv, LogTypeOK
    <3>2. PICK k \in 1..Len(built) : built[k] = u
      BY <3>1 DEF LogInv, AliveIsBuilt
    <3>3. k \in 1..Len(built) - 1
      BY <1>2, <3>1, <3>2
    <3> QED
      BY <1>2, <3>2, <3>3
  <2> QED
    BY <2>1 DEF AliveIsBuilt
<1>6. registered # {} => VectorIsOldest'
  <2> SUFFICES ASSUME registered # {} PROVE VectorIsOldest'
    OBVIOUS
  <2>1. vector = "alive" /\ built[1] = Vector /\ \A k \in 2..Len(built) : built[k] \in Objects
    <3>1. built # <<>>
      BY <1>2, EmptySeq
    <3> QED
      BY <3>1 DEF LogInv, LogTypeOK, VectorIsOldest
  <2>2. Len(built) > 1
    BY <1>2, <2>1
  <2>3. Len(built') > 0 /\ built'[1] = Vector /\ \A k \in 2..Len(built') : built'[k] \in Objects
    BY <1>2, <2>1, <2>2
  <2> QED
    BY <1>1, <2>1, <2>3 DEF VectorIsOldest
<1> QED
  BY <1>1, <1>3, <1>4, <1>5, <1>6 DEF LogInv, ProvidersInPlace

LEMMA DestroyedKeeps ==
  ASSUME LogInv, NEW o \in Objects, Destroyed(o)
  PROVE  LogInv'
<1>1. /\ phase = "exit" /\ pc[o] = "idle"
      /\ object[o] = "destroying" /\ object' = [object EXCEPT ![o] = "gone"]
      /\ UNCHANGED <<registered, phase, providers, vector, built, pc, fault>>
  BY DEF Destroyed, Becomes, vecVars, lineVars
<1>2. LogTypeOK' /\ WorkersHaveObjects' /\ AllConstructed' /\ AliveIsBuilt'
  BY <1>1 DEF LogInv, LogTypeOK, WorkersHaveObjects, AllConstructed, AliveIsBuilt, Working
<1>3. InstalledBeforeUse'
  BY <1>1 DEF LogInv, InstalledBeforeUse, Installed
<1>4. registered # {} => VectorIsOldest'
  BY <1>1 DEF LogInv, VectorIsOldest
<1> QED
  BY <1>1, <1>2, <1>3, <1>4 DEF LogInv, ProvidersInPlace

LEMMA DestroyVectorKeeps ==
  ASSUME LogInv, DestroyVector
  PROVE  LogInv'
<1> USE LogAssumption
<1>1. /\ DestroyNext(Vector) /\ vector' = "destroyed"
      /\ fault' = IF Iterating THEN "destroyed" ELSE fault
      /\ UNCHANGED <<registered, phase, object, providers, pc>>
  BY DEF DestroyVector, objVars, lineVars
<1>2. /\ phase = "exit" /\ pc[Main] = "idle" /\ \A u \in Objects : object[u] \in {"alive", "gone"}
      /\ Len(built) \in Nat \ {0} /\ built[Len(built)] = Vector
      /\ built' \in Seq(Objects \cup {Vector}) /\ Len(built') = Len(built) - 1
      /\ \A k \in 1..Len(built) - 1 : built'[k] = built[k]
  BY <1>1, LastIsTaken
<1>3. LogTypeOK' /\ WorkersHaveObjects' /\ AllConstructed'
  BY <1>1, <1>2 DEF LogInv, LogTypeOK, WorkersHaveObjects, AllConstructed, Working
<1>4. InstalledBeforeUse'
  BY <1>1, <1>2 DEF LogInv, InstalledBeforeUse, Installed
<1>5. AliveIsBuilt'
  <2>1. ASSUME NEW u \in Objects, object'[u] = "alive" PROVE \E k \in 1..Len(built') : built'[k] = u
    <3>1. PICK k \in 1..Len(built) : built[k] = u
      BY <1>1, <2>1 DEF LogInv, AliveIsBuilt
    <3>2. k \in 1..Len(built) - 1
      BY <1>2, <3>1
    <3> QED
      BY <1>2, <3>1, <3>2
  <2> QED
    BY <2>1 DEF AliveIsBuilt
<1>6. ASSUME registered # {} PROVE VectorIsOldest' /\ ~Iterating
  <2>1. built[1] = Vector /\ \A k \in 2..Len(built) : built[k] \in Objects
    <3>1. built # <<>>
      BY <1>2, EmptySeq
    <3> QED
      BY <1>6, <3>1 DEF LogInv, LogTypeOK, VectorIsOldest
  <2>2. Len(built) = 1
    BY <1>2, <2>1
  <2>3. built' = <<>>
    BY <1>2, <2>2, EmptySeq
  <2>4. \A u \in Objects : object[u] = "gone"
    BY <1>2, <2>1, <2>2 DEF LogInv, AliveIsBuilt
  <2>5. ~Iterating
    BY <1>2, <2>4 DEF LogInv, WorkersHaveObjects, Working, Iterating, Loggers
  <2>6. ~Iterating'
    BY <1>1, <2>5 DEF Iterating
  <2> QED
    BY <1>1, <1>2, <2>3, <2>4, <2>5, <2>6 DEF VectorIsOldest
<1>7. ProvidersInPlace'
  BY <1>1, <1>6 DEF LogInv, ProvidersInPlace
<1> QED
  BY <1>1, <1>3, <1>4, <1>5, <1>6, <1>7 DEF LogInv

LEMMA NextPhaseKeeps ==
  ASSUME LogInv, NextPhase
  PROVE  LogInv'
<1>1. /\ \/ phase = "constructors" /\ phase' = "main" /\ \A o \in Objects : object[o] = "alive"
         \/ phase = "main" /\ phase' = "exit"
         \/ phase = "exit" /\ phase' = "ended"
      /\ phase = "constructors" => Installed = registered
      /\ UNCHANGED <<registered, providers, vector, object, built, pc, fault>>
  BY DEF NextPhase, vecVars, lineVars
<1>2. LogTypeOK' /\ WorkersHaveObjects' /\ AllConstructed' /\ AliveIsBuilt'
  BY <1>1 DEF LogInv, LogTypeOK, WorkersHaveObjects, AllConstructed, AliveIsBuilt, Working
<1>3. InstalledBeforeUse'
  BY <1>1 DEF LogInv, InstalledBeforeUse, Installed
<1>4. registered # {} => VectorIsOldest'
  BY <1>1 DEF LogInv, VectorIsOldest, Iterating
<1> QED
  BY <1>1, <1>2, <1>3, <1>4 DEF LogInv, ProvidersInPlace

(* The vector's life and who may log when, in every reachable state.       *)
THEOREM LogInvariant == Spec => []LogInv
<1>1. Init => LogInv
  <2> SUFFICES ASSUME Init PROVE LogInv
    OBVIOUS
  <2>1. <<>> \in Seq(Providers) /\ <<>> \in Seq(Objects \cup {Vector})
    BY EmptySeq
  <2>2. LogTypeOK
    BY <2>1 DEF Init, LogTypeOK
  <2> QED
    BY <2>2 DEF Init, LogInv, ProvidersInPlace, InstalledBeforeUse, WorkersHaveObjects,
       AllConstructed, AliveIsBuilt, VectorIsOldest, Iterating, Loggers
<1>2. LogInv /\ [Next]_vars => LogInv'
  <2> SUFFICES ASSUME LogInv, [Next]_vars PROVE LogInv'
    OBVIOUS
  <2>1. ASSUME UNCHANGED <<registered, phase, providers, vector, object, built, pc, fault>> PROVE LogInv'
    BY <2>1 DEF LogInv, LogTypeOK, ProvidersInPlace, InstalledBeforeUse, WorkersHaveObjects,
       AllConstructed, AliveIsBuilt, VectorIsOldest, Iterating, Installed, Working
  <2>2. ASSUME NEW l \in Loggers, WritePrefixTo(l) PROVE LogInv'
    BY <2>1, <2>2 DEF WritePrefixTo, objVars, vecVars
  <2>3. CASE UNCHANGED vars
    BY <2>1, <2>3 DEF vars
  <2>4. ASSUME NEW l \in Loggers, Log(l) \/ CheckFails(l) PROVE LogInv'
    BY <2>4, FormatLogKeeps DEF Log, CheckFails
  <2> QED
    BY <2>2, <2>3, <2>4, InstallKeeps, EndLineKeeps, ConstructKeeps, ConstructedKeeps, DestroyKeeps,
       DestroyedKeeps, DestroyVectorKeeps, NextPhaseKeeps DEF Next, InLine
<1> QED
  BY <1>1, <1>2, PTL DEF Spec

(* Whatever providers a program registers and whatever static objects it   *)
(* has: the vector of logging.cc does not grow under a thread that writes  *)
(* a line and, if it holds a provider, outlives all who log.  The          *)
(* priorities of the installers alone make it the first static object.     *)
THEOREM ProvidersStayInPlace == Spec => []ProvidersInPlace
<1>1. LogInv => ProvidersInPlace
  BY DEF LogInv
<1> QED
  BY <1>1, LogInvariant, PTL
-----------------------------------------------------------------------------
(* The inductive invariant behind PrefixComplete, relative to LogInv.  The *)
(* installers put the providers into the vector in the order of their      *)
(* priorities, and a line holds the outputs of providers that its writer   *)
(* has passed, in that order.                                              *)
InstalledAscend ==
  /\ Installed \subseteq registered
  /\ \A p \in Installed, q \in registered : q < p => q \in Installed
  /\ \A j, k \in 1..Len(providers) : j < k => providers[j] < providers[k]

LineTypeOK ==
  /\ idx \in [Loggers -> Nat]
  /\ to \in [Loggers -> Seq(Providers \cup {Space})]
  /\ wrote \in [Loggers -> SUBSET Providers]

LinesAscend ==
  \A l \in Loggers :
    pc[l] = "iterate" =>
      /\ idx[l] \in 1..Len(providers) + 1
      /\ InPriorityOrder(to[l], wrote[l])
      /\ \A p \in wrote[l] : \E k \in 1..idx[l] - 1 : providers[k] = p

PrefixInv == LineTypeOK /\ (fault = "none" => InstalledAscend /\ LinesAscend)

(* One more output at the end of a line.                                   *)
LEMMA LineGrows ==
  ASSUME NEW line \in Seq(Providers \cup {Space}), NEW shown \in SUBSET Providers,
         InPriorityOrder(line, shown),
         NEW p \in Providers, \A q \in shown : q < p
  PROVE  /\ line \o <<p, Space>> \in Seq(Providers \cup {Space})
         /\ InPriorityOrder(line \o <<p, Space>>, shown \cup {p})
<1> DEFINE longer == line \o <<p, Space>>
<1>1. /\ Len(line) \in Nat /\ Len(line) % 2 = 0
      /\ {line[k] : k \in Outputs(line)} = shown
      /\ \A k \in Outputs(line) : line[k + 1] = Space
      /\ \A j, k \in Outputs(line) : j < k => line[j] < line[k]
  BY LenProperties DEF InPriorityOrder
<1>2. /\ longer \in Seq(Providers \cup {Space}) /\ Len(longer) = Len(line) + 2
      /\ \A k \in 1..Len(line) : longer[k] = line[k]
      /\ longer[Len(line) + 1] = p /\ longer[Len(line) + 2] = Space
  <2>1. /\ <<p, Space>> \in Seq(Providers \cup {Space}) /\ Len(<<p, Space>>) = 2
        /\ <<p, Space>>[1] = p /\ <<p, Space>>[2] = Space
    OBVIOUS
  <2> QED
    BY <1>1, <2>1, ConcatProperties
<1> HIDE DEF longer
<1>3. /\ Outputs(longer) = Outputs(line) \cup {Len(line) + 1}
      /\ \A k \in Outputs(line) : k \in 1..Len(line) /\ k + 1 \in 1..Len(line)
  BY <1>1, <1>2 DEF Outputs
<1>4. \A k \in Outputs(line) : longer[k] = line[k] /\ longer[k + 1] = line[k + 1]
  BY <1>2, <1>3
<1>5. {longer[k] : k \in Outputs(longer)} = shown \cup {p}
  BY <1>1, <1>2, <1>3, <1>4
<1>6. \A k \in Outputs(longer) : longer[k + 1] = Space
  BY <1>1, <1>2, <1>3, <1>4
<1>7. \A j, k \in Outputs(longer) : j < k => longer[j] < longer[k]
  <2>1. ASSUME NEW j \in Outputs(line), NEW k \in Outputs(longer), j < k
        PROVE  longer[j] < longer[k]
    <3>1. CASE k \in Outputs(line)
      BY <1>1, <1>4, <2>1, <3>1
    <3>2. CASE k = Len(line) + 1
      <4>1. line[j] \in shown
        BY <1>1
      <4> QED
        BY <1>2, <1>4, <3>2, <4>1
    <3> QED
      BY <1>3, <3>1, <3>2
  <2>2. ASSUME NEW k \in Outputs(longer) PROVE ~(Len(line) + 1 < k)
    BY <1>1, <1>2 DEF Outputs
  <2> QED
    BY <1>3, <2>1, <2>2
<1>8. Len(longer) % 2 = 0
  BY <1>1, <1>2
<1> QED
  BY <1>2, <1>5, <1>6, <1>7, <1>8 DEF InPriorityOrder, longer

(* One more provider behind the others.                                    *)
LEMMA InstallAscends ==
  ASSUME LogInv, fault = "none", InstalledAscend, NEW p \in Providers, Install(p)
  PROVE  InstalledAscend'
<1> USE LogAssumption
<1>1. /\ p \in registered \ Installed
      /\ \A q \in registered : q < p => q \in Installed
      /\ providers' = Append(providers, p) /\ UNCHANGED registered
  BY DEF Install, InstallPrefixProvider
<1>2. /\ providers \in Seq(Providers) /\ registered \subseteq Providers
  BY DEF LogInv, LogTypeOK
<1>3. /\ Len(providers) \in Nat /\ Len(providers') = Len(providers) + 1
      /\ providers'[Len(providers) + 1] = p
      /\ \A k \in 1..Len(providers) : providers'[k] = providers[k]
  BY <1>1, <1>2, OneMore
<1>4. /\ Installed = {providers[k] : k \in 1..Len(providers)}
      /\ Installed' = {providers'[k] : k \in 1..Len(providers')}
  <2>1. DOMAIN providers = 1..Len(providers)
    BY <1>2, LenProperties
  <2>2. DOMAIN providers' = 1..Len(providers')
    BY <1>1, <1>2, AppendProperties, LenProperties
  <2> QED
    BY <2>1, <2>2 DEF Installed, ToSet
<1>5. Installed' = Installed \cup {p}
  BY <1>3, <1>4
<1>6. \A q \in Installed : q < p
  BY <1>1, <1>2 DEF InstalledAscend
<1>7. ASSUME NEW j \in 1..Len(providers'), NEW k \in 1..Len(providers'), j < k
      PROVE  providers'[j] < providers'[k]
  <2>1. j \in 1..Len(providers) /\ providers'[j] = providers[j] /\ providers[j] \in Installed
    BY <1>3, <1>4, <1>7
  <2>2. CASE k \in 1..Len(providers)
    BY <1>3, <1>7, <2>1, <2>2 DEF InstalledAscend
  <2>3. CASE k = Len(providers) + 1
    BY <1>3, <1>6, <2>1, <2>3
  <2> QED
    BY <1>3, <2>2, <2>3
<1> QED
  BY <1>1, <1>2, <1>5, <1>6, <1>7 DEF InstalledAscend

(* One provider's turn.                                                    *)
LEMMA WritePrefixToAscends ==
  ASSUME LogInv, PrefixInv, NEW l \in Loggers, WritePrefixTo(l)
  PROVE  PrefixInv'
<1> USE LogAssumption
<1>1. /\ fault = "none" /\ pc[l] = "iterate" /\ idx[l] <= Len(providers)
      /\ LET p == providers[idx[l]] IN
           \/ /\ to' = [to EXCEPT ![l] = @ \o <<p, Space>>]
              /\ wrote' = [wrote EXCEPT ![l] = @ \cup {p}]
           \/ to' = [to EXCEPT ![l] = @] /\ UNCHANGED wrote
      /\ idx' = [idx EXCEPT ![l] = @ + 1]
      /\ UNCHANGED <<registered, providers, pc, fault>>
  BY DEF WritePrefixTo, Writing, NothingWritten, vecVars
<1>2. /\ LineTypeOK /\ InstalledAscend /\ LinesAscend
  BY <1>1 DEF PrefixInv
<1>3. /\ providers \in Seq(Providers) /\ Len(providers) \in Nat
      /\ \A k \in 1..Len(providers) : providers[k] \in Providers
  BY LenProperties, ElementOfSeq DEF LogInv, LogTypeOK
<1>4. /\ idx[l] \in 1..Len(providers) /\ InPriorityOrder(to[l], wrote[l])
      /\ \A q \in wrote[l] : \E k \in 1..idx[l] - 1 : providers[k] = q
      /\ to[l] \in Seq(Providers \cup {Space}) /\ wrote[l] \in SUBSET Providers
  BY <1>1, <1>2, <1>3 DEF LinesAscend, LineTypeOK
<1>5. PICK p \in Providers : p = providers[idx[l]]
  BY <1>3, <1>4
<1>6. \A q \in wrote[l] : q < p
  <2>1. ASSUME NEW q \in wrote[l] PROVE q < p
    <3>1. PICK k \in 1..idx[l] - 1 : providers[k] = q
      BY <1>4
    <3> QED
      BY <1>2, <1>3, <1>4, <1>5, <3>1 DEF InstalledAscend
  <2> QED
    BY <2>1
<1>7. /\ to[l] \o <<p, Space>> \in Seq(Providers \cup {Space})
      /\ InPriorityOrder(to[l] \o <<p, Space>>, wrote[l] \cup {p})
  BY <1>4, <1>6, LineGrows
<1>8. /\ \/ to'[l] = to[l] \o <<p, Space>> /\ wrote'[l] = wrote[l] \cup {p}
         \/ to'[l] = to[l] /\ wrote'[l] = wrote[l]
      /\ idx'[l] = idx[l] + 1
      /\ \A m \in Loggers : m # l => to'[m] = to[m] /\ wrote'[m] = wrote[m] /\ idx'[m] = idx[m]
  BY <1>1, <1>2, <1>5 DEF LineTypeOK
<1>9. LineTypeOK'
  <2>1. to' \in [Loggers -> Seq(Providers \cup {Space})]
    BY <1>1, <1>2, <1>4, <1>5, <1>7 DEF LineTypeOK
  <2>2. idx' \in [Loggers -> Nat]
    BY <1>1, <1>2 DEF LineTypeOK
  <2>3. wrote' = wrote \/ wrote' = [wrote EXCEPT ![l] = @ \cup {p}]
    BY <1>1, <1>5
  <2>4. wrote' \in [Loggers -> SUBSET Providers]
    BY <1>2, <1>4, <1>5, <2>3 DEF LineTypeOK
  <2> QED
    BY <2>1, <2>2, <2>4 DEF LineTypeOK
<1>10. InstalledAscend'
  BY <1>1, <1>2 DEF InstalledAscend, Installed
<1>11. LinesAscend'
  <2>0. idx'[l] \in 1..Len(providers) + 1
    BY <1>3, <1>4, <1>8
  <2>1. InPriorityOrder(to'[l], wrote'[l])
    BY <1>4, <1>7, <1>8, Zenon
  <2>2. ASSUME NEW q \in wrote'[l] PROVE \E k \in 1..idx'[l] - 1 : providers[k] = q
    <3>1. CASE q \in wrote[l]
      <4>1. PICK k \in 1..idx[l] - 1 : providers[k] = q
        BY <1>4, <3>1
      <4> QED
        BY <1>4, <1>8, <4>1
    <3>2. CASE q = p
      <4>1. idx[l] \in 1..idx'[l] - 1
        BY <1>4, <1>8
      <4> QED
        BY <1>5, <3>2, <4>1
    <3> QED
      BY <1>8, <2>2, <3>1, <3>2
  <2>3. ASSUME NEW m \in Loggers, m # l, pc'[m] = "iterate"
        PROVE  /\ idx'[m] \in 1..Len(providers) + 1
               /\ InPriorityOrder(to'[m], wrote'[m])
               /\ \A q \in wrote'[m] : \E k \in 1..idx'[m] - 1 : providers[k] = q
    BY <1>1, <1>2, <1>8, <2>3 DEF LinesAscend
  <2> QED
    BY <1>1, <2>0, <2>1, <2>2, <2>3 DEF LinesAscend
<1> QED
  BY <1>9, <1>10, <1>11 DEF PrefixInv

LEMMA FormatLogAscends ==
  ASSUME LogInv, PrefixInv, NEW l \in Loggers, NEW isFatal, FormatLog(l, isFatal)
  PROVE  PrefixInv'
<1>1. /\ fault = "none"
      /\ pc' = [pc EXCEPT ![l] = "iterate"] /\ idx' = [idx EXCEPT ![l] = 1]
      /\ to' = [to EXCEPT ![l] = <<>>] /\ wrote' = [wrote EXCEPT ![l] = {}]
      /\ UNCHANGED <<registered, providers>>
  BY DEF FormatLog, CanLog
<1>2. LineTypeOK /\ InstalledAscend /\ LinesAscend /\ pc \in [Loggers -> {"idle", "iterate"}]
  BY <1>1 DEF PrefixInv, LogInv, LogTypeOK
<1>3. Len(providers) \in Nat
  BY LenProperties DEF LogInv, LogTypeOK
<1>4. /\ idx'[l] = 1 /\ to'[l] = <<>> /\ wrote'[l] = {}
      /\ \A m \in Loggers : m # l => to'[m] = to[m] /\ wrote'[m] = wrote[m] /\ idx'[m] = idx[m] /\ pc'[m] = pc[m]
  BY <1>1, <1>2 DEF LineTypeOK
<1>5. LineTypeOK'
  <2>1. <<>> \in Seq(Providers \cup {Space})
    BY EmptySeq
  <2> QED
    BY <1>1, <1>2, <2>1 DEF LineTypeOK
<1>6. InstalledAscend'
  BY <1>1, <1>2 DEF InstalledAscend, Installed
<1>7. InPriorityOrder(<<>>, {})
  <2>1. Len(<<>>) = 0 /\ Outputs(<<>>) = {}
    BY DEF Outputs
  <2> QED
    BY <2>1 DEF InPriorityOrder
<1>8. LinesAscend'
  <2>1. /\ idx'[l] \in 1..Len(providers) + 1
        /\ \A p \in wrote'[l] : \E k \in 1..idx'[l] - 1 : providers[k] = p
    BY <1>3, <1>4
  <2>2. InPriorityOrder(to'[l], wrote'[l])
    BY <1>4, <1>7, Zenon
  <2>3. ASSUME NEW m \in Loggers, m # l, pc'[m] = "iterate"
        PROVE  /\ idx'[m] \in 1..Len(providers) + 1
               /\ InPriorityOrder(to'[m], wrote'[m])
               /\ \A p \in wrote'[m] : \E k \in 1..idx'[m] - 1 : providers[k] = p
    BY <1>2, <1>4, <2>3 DEF LinesAscend
  <2> QED
    BY <1>1, <2>1, <2>2, <2>3 DEF LinesAscend
<1> QED
  BY <1>5, <1>6, <1>8 DEF PrefixInv

(* The providers do not change while somebody writes a line.               *)
LEMMA NextKeepsPrefix == LogInv /\ LogInv' /\ PrefixInv /\ [Next]_vars => PrefixInv'
<1> SUFFICES ASSUME LogInv, LogInv', PrefixInv, [Next]_vars PROVE PrefixInv'
  OBVIOUS
<1>1. ASSUME \A l \in Loggers : pc'[l] = "iterate" => pc[l] = "iterate",
             fault = "none",
             UNCHANGED <<registered, providers, idx, to, wrote>>
      PROVE  PrefixInv'
  BY <1>1 DEF PrefixInv, LineTypeOK, LinesAscend, InstalledAscend, Installed
<1>2. ASSUME NEW p \in Providers, Install(p) PROVE PrefixInv'
  <2>1. /\ fault = "none" /\ p \in registered \ Installed
        /\ UNCHANGED <<idx, to, wrote, pc>>
    BY <1>2 DEF Install, InstallPrefixProvider, lineVars
  <2>2. ~Iterating
    BY <2>1 DEF LogInv, InstalledBeforeUse
  <2>3. LineTypeOK' /\ LinesAscend'
    BY <2>1, <2>2 DEF PrefixInv, LineTypeOK, LinesAscend, Iterating
  <2> QED
    BY <1>2, <2>1, <2>3, InstallAscends DEF PrefixInv
<1>3. ASSUME NEW l \in Loggers, Log(l) \/ CheckFails(l) PROVE PrefixInv'
  BY <1>3, FormatLogAscends DEF Log, CheckFails
<1>4. ASSUME NEW l \in Loggers, InLine(l) PROVE PrefixInv'
  <2>1. ASSUME EndLine(l) PROVE PrefixInv'
    <3>1. /\ fault = "none" /\ pc' = [pc EXCEPT ![l] = "idle"]
          /\ UNCHANGED <<registered, providers, idx, to, wrote>>
      BY <2>1 DEF EndLine, Writing, vecVars
    <3>2. \A m \in Loggers : pc'[m] = "iterate" => pc[m] = "iterate"
      BY <3>1 DEF LogInv, LogTypeOK
    <3> QED
      BY <1>1, <3>1, <3>2
  <2> QED
    BY <1>4, <2>1, WritePrefixToAscends DEF InLine
<1>5. ASSUME NEW o \in Objects, Construct(o) \/ Constructed(o) \/ Destroy(o) \/ Destroyed(o)
      PROVE  PrefixInv'
  BY <1>1, <1>5 DEF Construct, Constructed, Destroy, Destroyed, DestroyNext, MainIsFree, vecVars, lineVars
<1>6. CASE NextPhase \/ DestroyVector
  BY <1>1, <1>6 DEF NextPhase, DestroyVector, DestroyNext, MainIsFree, vecVars, lineVars
<1>7. CASE UNCHANGED vars
  BY <1>7 DEF vars, PrefixInv, LineTypeOK, LinesAscend, InstalledAscend, Installed
<1> QED
  BY <1>2, <1>3, <1>4, <1>5, <1>6, <1>7 DEF Next

(* Every line has asked all registered providers and shows their outputs   *)
(* in the order of their priorities, each with a space behind it, whoever  *)
(* writes it, from whichever thread and however early: the constructor     *)
(* attribute orders the installers, and nobody logs before they have run.  *)
THEOREM PrefixesAreComplete == Spec => []PrefixComplete
<1>1. Init => PrefixInv
  <2> SUFFICES ASSUME Init PROVE PrefixInv
    OBVIOUS
  <2>1. <<>> \in Seq(Providers \cup {Space})
    BY EmptySeq
  <2>2. LineTypeOK /\ LinesAscend
    BY <2>1 DEF Init, LineTypeOK, LinesAscend
  <2>3. Installed = {} /\ Len(providers) = 0
    BY DEF Init, Installed, ToSet
  <2>4. InstalledAscend
    BY <2>3 DEF InstalledAscend
  <2> QED
    BY <2>2, <2>4 DEF PrefixInv
<1>2. LogInv /\ PrefixInv => PrefixComplete
  <2> SUFFICES ASSUME LogInv, PrefixInv, NEW l \in Loggers, fault = "none", pc[l] = "iterate"
               PROVE  Installed = registered /\ InPriorityOrder(to[l], wrote[l])
    BY DEF PrefixComplete
  <2> QED
    BY DEF LogInv, InstalledBeforeUse, Iterating, PrefixInv, LinesAscend
<1> QED
  BY <1>1, <1>2, LogInvariant, NextKeepsPrefix, PTL DEF Spec
=============================================================================
