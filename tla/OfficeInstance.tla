--------------------------- MODULE OfficeInstance ---------------------------
(***************************************************************************)
(* office_instance.cc and the part of office_client.cc that waits for it:  *)
(* LibreOfficeKit is started once per process on the thread pool, clients  *)
(* on other threads ask to be told, loads that come too early wait for     *)
(* that, and the process may drop the office at any time.  instance_ is    *)
(* not protected by a lock, so every read or write of it is a step.        *)
(***************************************************************************)
EXTENDS Naturals, FiniteSets

CONSTANT Clients    \* the OfficeClients, which are the OfficeLoadObservers

ASSUME ClientsAssumption == IsFiniteSet(Clients)

VARIABLES
    once,               \* Create's flag
    initializer,        \* where the Initialize task is
    instance,           \* instance_: whether there is an office
    features,           \* external: setOptionalFeatures was called on it
    unset,              \* unset_
    unsetting,          \* where Unset is: not called, called, returned
    loaded_observers,   \* loaded_observers_
    notifications,      \* OnLoaded tasks that Notify posted
    client,             \* what each client is doing
    told,               \* how often OnLoaded ran for each client: 0, 1, 2 or more
    load                \* the load request of each client

vars == <<once, initializer, instance, features, unset, unsetting, loaded_observers,
          notifications, client, told, load>>

Init ==
    /\ once = FALSE /\ initializer = "none"
    /\ instance = FALSE /\ features = FALSE
    /\ unset = FALSE /\ unsetting = "no"
    /\ loaded_observers = {} /\ notifications = {}
    /\ client = [c \in Clients |-> "none"]
    /\ told = [c \in Clients |-> 0]
    /\ load = [c \in Clients |-> "none"]
-----------------------------------------------------------------------------
(* Starting and dropping the office. *)

Create ==
    /\ ~once
    /\ once' = TRUE
    /\ initializer' = "check"
    /\ UNCHANGED <<instance, features, unset, unsetting, loaded_observers,
                   notifications, client, told, load>>

\* Initialize reads unset_ before each of its three steps; lok_cpp_init takes
\* long, and its result is stored whatever happened meanwhile.
InitializeCheck ==
    /\ initializer = "check"
    /\ initializer' = IF unset THEN "features" ELSE "load"
    /\ UNCHANGED <<once, instance, features, unset, unsetting, loaded_observers,
                   notifications, client, told, load>>

InitializeLoad ==
    /\ initializer = "load"
    /\ instance' = TRUE
    /\ initializer' = "features"
    /\ UNCHANGED <<once, features, unset, unsetting, loaded_observers,
                   notifications, client, told, load>>

InitializeFeatures ==
    /\ initializer = "features"
    /\ features' = (features \/ ~unset)
    /\ initializer' = "notify"
    /\ UNCHANGED <<once, instance, unset, unsetting, loaded_observers,
                   notifications, client, told, load>>

\* A faulty InitializeNotify that forgets the observers.
InitializeForgets ==
    /\ initializer = "notify"
    /\ initializer' = "done"
    /\ UNCHANGED <<once, instance, features, unset, unsetting, loaded_observers,
                   notifications, client, told, load>>

\* Notify posts OnLoaded to the observers that are in the list now.
InitializeNotify ==
    /\ initializer = "notify"
    /\ notifications' = IF unset THEN notifications ELSE loaded_observers
    /\ initializer' = "done"
    /\ UNCHANGED <<once, instance, features, unset, unsetting, loaded_observers,
                   client, told, load>>

UnsetFlag ==
    /\ unsetting = "no"
    /\ unset' = TRUE
    /\ unsetting' = "called"
    /\ UNCHANGED <<once, initializer, instance, features, loaded_observers,
                   notifications, client, told, load>>

UnsetReset ==
    /\ unsetting = "called"
    /\ instance' = FALSE
    /\ unsetting' = "returned"
    /\ UNCHANGED <<once, initializer, features, unset, loaded_observers,
                   notifications, client, told, load>>
-----------------------------------------------------------------------------
(* The clients. *)

\* OnLoaded signals loaded_, which posts the loads that wait for it.
OnLoaded(c) ==
    /\ told' = [told EXCEPT ![c] = IF @ = 0 THEN 1 ELSE 2]
    /\ load' = [load EXCEPT ![c] = IF @ = "deferred" THEN "posted" ELSE @]

\* The constructor calls AddLoadObserver, which reads instance_ ...
AddLoadObserverLoaded(c) ==
    /\ client[c] = "none"
    /\ instance
    /\ OnLoaded(c)
    /\ client' = [client EXCEPT ![c] = "ready"]
    /\ UNCHANGED <<once, initializer, instance, features, unset, unsetting,
                   loaded_observers, notifications>>

AddLoadObserverEarly(c) ==
    /\ client[c] = "none"
    /\ ~instance
    /\ client' = [client EXCEPT ![c] = "adding"]
    /\ UNCHANGED <<once, initializer, instance, features, unset, unsetting,
                   loaded_observers, notifications, told, load>>

\* A faulty AddObserver that also tells the observer.
AddObserverTells(c) ==
    /\ client[c] = "adding"
    /\ loaded_observers' = loaded_observers \cup {c}
    /\ client' = [client EXCEPT ![c] = "ready"]
    /\ OnLoaded(c)
    /\ UNCHANGED <<once, initializer, instance, features, unset, unsetting, notifications>>

\* ... and then adds to the list.
AddObserver(c) ==
    /\ client[c] = "adding"
    /\ loaded_observers' = loaded_observers \cup {c}
    /\ client' = [client EXCEPT ![c] = "ready"]
    /\ UNCHANGED <<once, initializer, instance, features, unset, unsetting,
                   notifications, told, load>>

\* A posted OnLoaded runs on the client's thread if the client is still in
\* the list.
Deliver(c) ==
    /\ c \in notifications
    /\ notifications' = notifications \ {c}
    /\ OnLoaded(c)
    /\ UNCHANGED <<once, initializer, instance, features, unset, unsetting,
                   loaded_observers, client>>

\* LoadDocumentAsync and LoadDocumentFromArrayBuffer: at once, or when
\* loaded_ is signalled.
LoadDocument(c) ==
    /\ client[c] = "ready"
    /\ load[c] = "none"
    /\ load' = [load EXCEPT ![c] = IF told[c] > 0 THEN "posted" ELSE "deferred"]
    /\ UNCHANGED <<once, initializer, instance, features, unset, unsetting,
                   loaded_observers, notifications, client, told>>

\* The posted load runs and its promise is settled.
ResolveLoad(c) ==
    /\ load[c] = "posted"
    /\ load' = [load EXCEPT ![c] = "done"]
    /\ UNCHANGED <<once, initializer, instance, features, unset, unsetting,
                   loaded_observers, notifications, client, told>>

\* ~OfficeClient: RemoveLoadObserver, which also drops a posted OnLoaded;
\* the loads that wait in loaded_ go with the client.
DestroyClient(c) ==
    /\ client[c] = "ready"
    /\ client' = [client EXCEPT ![c] = "gone"]
    /\ load' = [load EXCEPT ![c] = "done"]
    /\ loaded_observers' = loaded_observers \ {c}
    /\ notifications' = notifications \ {c}
    /\ UNCHANGED <<once, initializer, instance, features, unset, unsetting, told>>
-----------------------------------------------------------------------------
Initialize ==
    \/ InitializeCheck \/ InitializeLoad \/ InitializeFeatures \/ InitializeNotify

Next ==
    \/ Create \/ Initialize
    \/ UnsetFlag \/ UnsetReset
    \/ \E c \in Clients :
          \/ AddLoadObserverLoaded(c) \/ AddLoadObserverEarly(c) \/ AddObserver(c)
          \/ Deliver(c) \/ LoadDocument(c) \/ ResolveLoad(c) \/ DestroyClient(c)

Spec == Init /\ [][Next]_vars

\* Posted tasks run and calls return; nobody has to create, unset, load or
\* destroy anything.
Fairness ==
    /\ WF_vars(Initialize)
    /\ WF_vars(UnsetReset)
    /\ \A c \in Clients : WF_vars(AddObserver(c)) /\ WF_vars(Deliver(c))
                          /\ WF_vars(ResolveLoad(c))

FairSpec == Spec /\ Fairness
-----------------------------------------------------------------------------
\* A client hears OnLoaded at most once, and never after it is destroyed or
\* before there has been an office: the direct call of AddLoadObserver and
\* the notification exclude each other.
ToldOnce ==
    \A c \in Clients :
        /\ told[c] <= 1
        /\ told[c] = 1 => c \notin notifications
        /\ c \in notifications => client[c] = "ready" /\ initializer = "done"
        /\ told[c] = 1 => client[c] # "adding" /\ initializer \in {"features", "notify", "done"}

\* A load that waits on a client that was in the list before Initialize came
\* to notify is settled, unless the office is dropped.
LoadIsRegistered(c) ==
    load[c] = "deferred" /\ c \in loaded_observers /\ initializer = "notify"
LoadIsSettled(c) == load[c] = "done" \/ unset

\* office_instance_unittest.cc, WithCreate: "expect that LOK does not
\* timeout".  A client added once the office was created is told, unless it
\* is destroyed or the office is dropped.
AddedObserversAreTold ==
    \A c \in Clients :
        (client[c] = "adding" /\ once) ~> (told[c] > 0 \/ client[c] = "gone" \/ unset)
=============================================================================
