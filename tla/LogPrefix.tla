----------------------------- MODULE LogPrefix -----------------------------
(***************************************************************************)
(* The prefix providers of a log line and the life of the vector that      *)
(* holds them (agrpc/base/logging.{h,cc}).                                 *)
(*                                                                         *)
(* REGISTER_PREFIX_PROVIDER installs a provider in a function with the     *)
(* attribute constructor(priority + 101): those run in the order of their  *)
(* priorities, before any static object of the program is constructed.     *)
(* The vector is static inside GetProviders: its first use constructs it,  *)
(* and it is destroyed, with the other static objects, one after the other *)
(* in the reverse order of construction.  Static objects, and worker       *)
(* threads that they start and join (as the coarse clock's object does),   *)
(* log whenever they like; so does main.                                   *)
(*                                                                         *)
(* A provider is named by its priority.  The text of a line is left out.   *)
(***************************************************************************)
EXTENDS Naturals, Sequences, SequencesExt

CONSTANTS
  Providers,     \* the providers that may be registered
  Objects,       \* the static objects of the program, each with a worker
  Main,          \* the main thread
  Vector,        \* the vector of providers, as one of the static objects
  Space          \* what is put behind a provider's output
ASSUME LogAssumption ==
  Providers \subseteq Nat /\ Main \notin Objects /\ Vector \notin Objects

Loggers == Objects \cup {Main}

VARIABLES
  registered,    \* the providers this program registers
  phase,         \* constructors, main, exit, ended or aborted
  providers,     \* the vector's elements
  vector,        \* absent, alive or destroyed
  object,        \* the state of each static object
  built,         \* what is still to be destroyed at exit, the last one first
  pc,            \* idle, or iterate: inside FormatLog
  fatal,         \* the line is that of a failed CHECK
  idx,           \* the provider to call next
  to,            \* the line
  wrote,         \* the providers that appended something to it
  fault          \* how the vector was misused, or "none"

lineVars == <<pc, fatal, idx, to, wrote>>
objVars == <<phase, object>>
vecVars == <<providers, vector, built>>
vars == <<registered, phase, providers, vector, object, built, pc, fatal, idx,
          to, wrote, fault>>

Init ==
  /\ registered \in SUBSET Providers
  /\ phase = "constructors"
  /\ providers = <<>> /\ vector = "absent"
  /\ object = [o \in Objects |-> "none"]
  /\ built = <<>>
  /\ pc = [l \in Loggers |-> "idle"]
  /\ fatal = [l \in Loggers |-> FALSE]
  /\ idx = [l \in Loggers |-> 1]
  /\ to = [l \in Loggers |-> <<>>]
  /\ wrote = [l \in Loggers |-> {}]
  /\ fault = "none"

Iterating == \E l \in Loggers : pc[l] = "iterate"
Installed == ToSet(providers)

(* The first call constructs the vector.                                   *)
GetProviders ==
  /\ vector' = IF vector = "absent" THEN "alive" ELSE vector
  /\ built' = IF vector = "absent" THEN Append(built, Vector) ELSE built

(* push_back may move the elements while a thread iterates over them.      *)
InstallPrefixProvider(p) ==
  /\ phase = "constructors" /\ fault = "none"
  /\ p \in registered \ Installed
  /\ GetProviders
  /\ providers' = Append(providers, p)
  /\ fault' = IF Iterating THEN "race" ELSE fault
  /\ UNCHANGED <<registered, objVars, lineVars>>

Install(p) ==
  /\ \A q \in registered : q < p => q \in Installed
  /\ InstallPrefixProvider(p)

(* Whether static objects may be constructed yet, and a mutant: the        *)
(* installers have no priority over them.                                  *)
NoPriority == TRUE
InstallersFirst == Installed = registered

-----------------------------------------------------------------------------
(* One line.                                                               *)

(* A worker runs while its object does not have ended; the main thread     *)
(* runs constructors, main and destructors.                                *)
Working(o) == object[o] \in {"constructing", "alive", "destroying"}

CanLog(l) ==
  /\ fault = "none" /\ phase # "aborted"
  /\ pc[l] = "idle"
  /\ IF l \in Objects
       THEN Working(l)
       ELSE phase = "main" \/ \E o \in Objects : object[o] \in {"constructing", "destroying"}

(* A macro that has something to say calls FormatLog, which calls          *)
(* WritePrefixTo on an empty line.                                         *)
FormatLog(l, isFatal) ==
  /\ CanLog(l)
  /\ GetProviders
  /\ pc' = [pc EXCEPT ![l] = "iterate"]
  /\ fatal' = [fatal EXCEPT ![l] = isFatal]
  /\ idx' = [idx EXCEPT ![l] = 1]
  /\ to' = [to EXCEPT ![l] = <<>>]
  /\ wrote' = [wrote EXCEPT ![l] = {}]
  /\ fault' = IF vector = "destroyed" THEN "destroyed" ELSE fault
  /\ UNCHANGED <<registered, objVars, providers>>

(* A line of any severity.  The forms with a condition or a limit, the     *)
(* verbose ones and those for debugging only decide whether there is one.  *)
Log(l) == \E isFatal \in BOOLEAN : FormatLog(l, isFatal)

(* A CHECK whose condition does not hold; one that holds does nothing.     *)
CheckFails(l) == FormatLog(l, TRUE)

Writing(l) == fault = "none" /\ phase # "aborted" /\ pc[l] = "iterate"

(* What a provider that appends nothing leaves behind, and a mutant: the   *)
(* space is put there in any case.                                         *)
SpaceInAnyCase(line) == Append(line, Space)
NothingWritten(line) == line

(* One turn of the loop: the provider appends something, and a space is    *)
(* put behind it, or it appends nothing.                                   *)
WritePrefixTo(l) ==
  /\ Writing(l) /\ idx[l] <= Len(providers)
  /\ LET p == providers[idx[l]] IN
       \/ /\ to' = [to EXCEPT ![l] = @ \o <<p, Space>>]
          /\ wrote' = [wrote EXCEPT ![l] = @ \cup {p}]
       \/ to' = [to EXCEPT ![l] = NothingWritten(@)] /\ UNCHANGED wrote
  /\ idx' = [idx EXCEPT ![l] = @ + 1]
  /\ UNCHANGED <<registered, objVars, vecVars, pc, fatal, fault>>

(* What a line means for the process, and a mutant: a failed CHECK reports *)
(* and goes on.  Formatting may throw, which is FATAL as well.             *)
ReportAndGoOn(isFatal) == {phase}
AfterLine(isFatal) == IF isFatal THEN {"aborted"} ELSE {phase, "aborted"}

(* The text is appended and the line goes to glog.                         *)
EndLine(l) ==
  /\ Writing(l) /\ idx[l] > Len(providers)
  /\ pc' = [pc EXCEPT ![l] = "idle"]
  /\ phase' \in AfterLine(fatal[l])
  /\ UNCHANGED <<registered, object, vecVars, fatal, idx, to, wrote, fault>>

-----------------------------------------------------------------------------
(* The life of the program.                                                *)
MainIsFree == fault = "none" /\ pc[Main] = "idle"
Becomes(o, from, into) == object[o] = from /\ object' = [object EXCEPT ![o] = into]

Construct(o) ==
  /\ MainIsFree /\ phase = "constructors"
  /\ InstallersFirst
  /\ \A u \in Objects : object[u] # "constructing"
  /\ Becomes(o, "none", "constructing")
  /\ UNCHANGED <<registered, phase, vecVars, lineVars, fault>>

Constructed(o) ==
  /\ MainIsFree /\ phase = "constructors"
  /\ Becomes(o, "constructing", "alive")
  /\ built' = Append(built, o)
  /\ UNCHANGED <<registered, phase, providers, vector, lineVars, fault>>

(* At exit the main thread takes the next object, when no destructor is    *)
(* under way.                                                              *)
DestroyNext(o) ==
  /\ MainIsFree /\ phase = "exit"
  /\ \A u \in Objects : object[u] # "destroying"
  /\ built # <<>> /\ Last(built) = o
  /\ built' = Front(built)

(* A destructor starts, and ends when it has joined its worker.            *)
Destroy(o) ==
  /\ DestroyNext(o)
  /\ Becomes(o, "alive", "destroying")
  /\ UNCHANGED <<registered, phase, providers, vector, lineVars, fault>>

Destroyed(o) ==
  /\ MainIsFree /\ phase = "exit"
  /\ pc[o] = "idle"
  /\ Becomes(o, "destroying", "gone")
  /\ UNCHANGED <<registered, phase, vecVars, lineVars, fault>>

DestroyVector ==
  /\ DestroyNext(Vector)
  /\ vector' = "destroyed"
  /\ fault' = IF Iterating THEN "destroyed" ELSE fault
  /\ UNCHANGED <<registered, objVars, providers, lineVars>>

(* main is entered, returns, and the process ends.                         *)
NextPhase ==
  /\ MainIsFree
  /\ \/ /\ phase = "constructors" /\ phase' = "main"
        /\ Installed = registered /\ \A o \in Objects : object[o] = "alive"
     \/ phase = "main" /\ phase' = "exit"
     \/ /\ phase = "exit" /\ phase' = "ended"
        /\ built = <<>> /\ \A o \in Objects : object[o] # "destroying"
  /\ UNCHANGED <<registered, object, vecVars, lineVars, fault>>

InLine(l) == WritePrefixTo(l) \/ EndLine(l)

Next ==
  \/ \E p \in Providers : Install(p)
  \/ \E l \in Loggers : Log(l) \/ CheckFails(l) \/ InLine(l)
  \/ \E o \in Objects : Construct(o) \/ Constructed(o) \/ Destroy(o) \/ Destroyed(o)
  \/ NextPhase \/ DestroyVector

Spec == Init /\ [][Next]_vars

(* A thread that writes a line gets through with it.                       *)
FairSpec == Spec /\ \A l \in Loggers : WF_vars(InLine(l))

-----------------------------------------------------------------------------
(* What the line looks like: the outputs in the order of the priorities,   *)
(* each with a space behind it.                                            *)
Outputs(line) == {k \in 1..Len(line) : k % 2 = 1}

InPriorityOrder(line, shown) ==
  /\ Len(line) % 2 = 0
  /\ {line[k] : k \in Outputs(line)} = shown
  /\ \A k \in Outputs(line) : line[k + 1] = Space
  /\ \A j, k \in Outputs(line) : j < k => line[j] < line[k]

(* Every line, also one written before main or by a static object's worker *)
(* thread, has asked every provider the program registers, and holds what  *)
(* they wrote in the order of their priorities.                            *)
PrefixComplete ==
  \A l \in Loggers :
    fault = "none" /\ pc[l] = "iterate" /\ idx[l] > Len(providers) =>
      /\ Installed = registered
      /\ InPriorityOrder(to[l], wrote[l])

(* Whoever iterates over the providers finds them in place: the vector,    *)
(* which has no lock, never grows under a thread that writes a line, and   *)
(* it outlives all who log.  A line written during or after its            *)
(* destruction, from a destructor or a worker, is only possible in a       *)
(* program that registers no provider, where the vector is empty and may   *)
(* be younger than the objects that log.                                   *)
ProvidersInPlace == fault # "race" /\ (fault = "destroyed" => registered = {})

(* A failed CHECK ends the process, also in a destructor at exit and with  *)
(* other threads logging.                                                  *)
FailedCheckAborts ==
  \A l \in Loggers :
    (pc[l] = "iterate" /\ fatal[l]) ~> (phase = "aborted" \/ fault # "none")
=============================================================================
