--------------------------- MODULE ComponentManager ---------------------------
(***************************************************************************)
(* Qappa's ComponentManager (src/Qappa/ComponentManager.cpp): requests to *)
(* create an object from a QML file, a QML source text or a component;    *)
(* file and source components are created once, cached, and may load     *)
(* asynchronously; incubators create the objects.  finishCreation keeps   *)
(* every incubator in the vector `incubators` and wraps the caller's      *)
(* callback so that, when the incubator finishes, the element at the     *)
(* index the vector had when the incubator was added is erased.           *)
(* Incubators finish in any order: the incubation controller advances     *)
(* them as the event loop allows.  Erasing an element destroys its        *)
(* incubator, and a destroyed incubator never finishes.                   *)
(***************************************************************************)
EXTENDS Naturals, Sequences, SequencesExt

CONSTANT Requests    \* createObject calls, each with its own callback

\* the two caches createObject fills: fileCache (one QML file) and
\* sourceCache (one QML source text)
Comps == {"file", "source"}

VARIABLES
    engineAlive,    \* engine is not null (its destroyed signal clears it)
    cached,         \* each cache holds its component
    compStatus,     \* each cached component's status
    waiting,        \* each component: requests connected to its statusChanged
    incubators,     \* the vector: records [req, index, finished]
    phase,          \* each request: "idle", "requested"
    calls,          \* times each request's callback has run
    outOfRange      \* an erase was given an index at or past the end

vars == <<engineAlive, cached, compStatus, waiting, incubators, phase, calls,
          outOfRange>>

Statuses == {"Null", "Loading", "Ready", "Error"}

\* Mutant of FinishCreation: no return after calling back for a component
\* in error.
FinishCreationNoReturn(c, r, inc, cl) ==
    IF compStatus'[c] = "Error"
    THEN [inc |-> Append(inc, [req |-> r, index |-> Len(inc), finished |-> FALSE]),
          calls |-> [cl EXCEPT ![r] = @ + 1]]
    ELSE [inc |-> Append(inc, [req |-> r, index |-> Len(inc), finished |-> FALSE]),
          calls |-> cl]

\* finishCreation for request r once component c is not loading: an
\* error calls back with null; otherwise a new incubator is pushed,
\* capturing the vector's size as its index
FinishCreation(c, r, inc, cl) ==
    IF compStatus'[c] = "Error"
    THEN [inc |-> inc, calls |-> [cl EXCEPT ![r] = @ + 1]]
    ELSE [inc |-> Append(inc, [req |-> r, index |-> Len(inc), finished |-> FALSE]),
          calls |-> cl]

\* finishCreation for each request of a sequence, in connection order
RECURSIVE FinishAll(_, _, _, _)
FinishAll(c, rs, inc, cl) ==
    IF rs = <<>> THEN [inc |-> inc, calls |-> cl]
    ELSE LET f == FinishCreation(c, Head(rs), inc, cl)
         IN FinishAll(c, Tail(rs), f.inc, f.calls)

\* beginCreation(component c) for request r, with c's status already
\* primed: wait for a loading component, or finish creation now
BeginCreation(c, r) ==
    IF compStatus'[c] = "Loading"
    THEN /\ waiting' = [waiting EXCEPT ![c] = Append(@, r)]
         /\ UNCHANGED <<incubators, calls>>
    ELSE LET f == FinishCreation(c, r, incubators, calls)
         IN /\ incubators' = f.inc
            /\ calls' = f.calls
            /\ UNCHANGED waiting

\* checkEngine failed: the callback gets null
NoEngine(r) ==
    /\ calls' = [calls EXCEPT ![r] = @ + 1]
    /\ UNCHANGED <<cached, compStatus, waiting, incubators>>

\* createObject(fileLocation, callback): without an engine, call back with
\* null; otherwise take the cached component or start loading it
\* asynchronously, then beginCreation
CreateObject(r) ==
    /\ phase[r] = "idle"
    /\ phase' = [phase EXCEPT ![r] = "requested"]
    /\ IF ~engineAlive
       THEN NoEngine(r)
       ELSE /\ cached' = [cached EXCEPT !["file"] = TRUE]
            /\ compStatus' = IF cached["file"] THEN compStatus
                             ELSE [compStatus EXCEPT !["file"] = "Loading"]
            /\ BeginCreation("file", r)
    /\ UNCHANGED <<engineAlive, outOfRange>>

\* createObject(component, callback): a null component calls back with
\* null, as does a missing engine; otherwise beginCreation.  QML passes
\* null or a component it obtained from one of the caches.
CreateObjectFromComponent(r, c) ==
    /\ phase[r] = "idle"
    /\ c # "null" => cached[c]
    /\ phase' = [phase EXCEPT ![r] = "requested"]
    /\ IF c = "null" \/ ~engineAlive
       THEN NoEngine(r)
       ELSE /\ UNCHANGED <<cached, compStatus>>
            /\ BeginCreation(c, r)
    /\ UNCHANGED <<engineAlive, outOfRange>>

\* createObject(qmlSource, virtualLocation, callback): without an engine,
\* call back with null; otherwise take the cached component or create one
\* and setData, which compiles it at once unless it imports remote
\* modules, then beginCreation
CreateObjectFromSource(r) ==
    /\ phase[r] = "idle"
    /\ phase' = [phase EXCEPT ![r] = "requested"]
    /\ IF ~engineAlive
       THEN NoEngine(r)
       ELSE /\ cached' = [cached EXCEPT !["source"] = TRUE]
            /\ IF cached["source"] THEN UNCHANGED compStatus
               ELSE \E st \in {"Ready", "Error", "Loading"} :
                        compStatus' = [compStatus EXCEPT !["source"] = st]
            /\ BeginCreation("source", r)
    /\ UNCHANGED <<engineAlive, outOfRange>>

\* Component c finishes loading, ready or in error, and emits
\* statusChanged: every waiting request runs finishCreation.  The
\* connections stay, but the component never changes status again.
ComponentLoaded(c) ==
    /\ compStatus[c] = "Loading"
    /\ \E st \in {"Ready", "Error"} : compStatus' = [compStatus EXCEPT ![c] = st]
    /\ LET f == FinishAll(c, waiting[c], incubators, calls)
       IN /\ incubators' = f.inc
          /\ calls' = f.calls
    /\ waiting' = [waiting EXCEPT ![c] = <<>>]
    /\ UNCHANGED <<engineAlive, cached, phase, outOfRange>>

\* Mutant of IncubatorFinished: a finished incubator is not marked, so
\* its status can change again.
IncubatorFinishedUnmarked(i) ==
    /\ ~incubators[i].finished
    /\ LET k == incubators[i].index + 1
       IN /\ calls' = [calls EXCEPT ![incubators[i].req] = @ + 1]
          /\ IF k <= Len(incubators)
             THEN /\ incubators' = RemoveAt(incubators, k)
                  /\ UNCHANGED outOfRange
             ELSE /\ incubators' \in {incubators, SubSeq(incubators, 1, Len(incubators) - 1)}
                  /\ outOfRange' = TRUE
    /\ UNCHANGED <<engineAlive, cached, compStatus, waiting, phase>>

\* Incubator i finishes, with the object or with an error; statusChanged
\* runs the wrapped callback: the caller's callback, then the erase of the
\* captured index.  An index at or past the end is undefined behaviour:
\* the build either destroys the last element or leaves the vector as is.
IncubatorFinished(i) ==
    /\ ~incubators[i].finished
    /\ LET inc == [incubators EXCEPT ![i].finished = TRUE]
           k == incubators[i].index + 1
       IN /\ calls' = [calls EXCEPT ![incubators[i].req] = @ + 1]
          /\ IF k <= Len(inc)
             THEN /\ incubators' = RemoveAt(inc, k)
                  /\ UNCHANGED outOfRange
             ELSE /\ incubators' \in {inc, SubSeq(inc, 1, Len(inc) - 1)}
                  /\ outOfRange' = TRUE
    /\ UNCHANGED <<engineAlive, cached, compStatus, waiting, phase>>

\* The QML engine is destroyed; its destroyed signal clears the pointer.
EngineDestroyed ==
    /\ engineAlive
    /\ engineAlive' = FALSE
    /\ UNCHANGED <<cached, compStatus, waiting, incubators, phase, calls, outOfRange>>

Init ==
    /\ engineAlive = TRUE
    /\ cached = [c \in Comps |-> FALSE]
    /\ compStatus = [c \in Comps |-> "Null"]
    /\ waiting = [c \in Comps |-> <<>>]
    /\ incubators = <<>>
    /\ phase = [r \in Requests |-> "idle"]
    /\ calls = [r \in Requests |-> 0]
    /\ outOfRange = FALSE

Next ==
    \/ \E r \in Requests : CreateObject(r)
    \/ \E r \in Requests, c \in Comps \cup {"null"} : CreateObjectFromComponent(r, c)
    \/ \E r \in Requests : CreateObjectFromSource(r)
    \/ \E c \in Comps : ComponentLoaded(c)
    \/ \E i \in 1..Len(incubators) : IncubatorFinished(i)
    \/ EngineDestroyed

Spec == Init /\ [][Next]_vars

\* The component loader and the incubation controller are driven by the
\* event loop: a loading component finishes loading and a live incubator
\* finishes incubating.
FairSpec ==
    /\ Spec
    /\ \A c \in Comps : WF_vars(ComponentLoaded(c))
    /\ WF_vars(\E i \in 1..Len(incubators) : IncubatorFinished(i))

(* ---------------------------------------------------------------------- *)
(* Properties                                                              *)
(* ---------------------------------------------------------------------- *)

TypeOK ==
    /\ engineAlive \in BOOLEAN
    /\ cached \in [Comps -> BOOLEAN]
    /\ compStatus \in [Comps -> Statuses]
    /\ \A c \in Comps : waiting[c] \in Seq(Requests)
    /\ \A i \in 1..Len(incubators) :
         incubators[i].req \in Requests /\ incubators[i].finished \in BOOLEAN
    /\ phase \in [Requests -> {"idle", "requested"}]
    /\ calls \in [Requests -> 0..2]
    /\ outOfRange \in BOOLEAN

\* Every callback runs at most once: the wrapped callback is called once
\* per incubator, and finishCreation returns after calling back with null
\* for a component in error.
CallbackAtMostOnce == \A r \in Requests : calls[r] <= 1

\* The index an incubator erases is inside the vector (the wrapper's
\* erase of incubators.begin() + index).
EraseInRange == ~outOfRange

\* Every createObject call eventually runs its callback, with the object
\* or with null (ComponentManager.hpp: the callback receives the object).
CreationCallsBack ==
    \A r \in Requests : phase[r] = "requested" ~> calls[r] > 0
=============================================================================
