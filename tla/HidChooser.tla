------------------------------ MODULE HidChooser ------------------------------
(***************************************************************************)
(* hid/hid_chooser_context.cc, hid_chooser_controller.cc and               *)
(* electron_hid_delegate.cc: a page asks for a HID device, JavaScript      *)
(* chooses among those the controller shows, and the context keeps which   *)
(* devices the page may use.  The device service reports devices over one  *)
(* ordered pipe while the choice is pending, and may crash.  A physical    *)
(* device can have several interfaces, each a device of its own; one item  *)
(* is shown for all of them.  Permissions that persist go to the           *)
(* permission manager; here are the ones that last as long as the device.  *)
(***************************************************************************)
EXTENDS Naturals, Sequences

CONSTANTS Guids,        \* devices; a device that is plugged in again has a new guid
          Composite,    \* those that are interfaces of one physical device
          Choosers,     \* calls of requestDevice, 1..n in order
          MaxPipe       \* bound: reports on their way

VARIABLES
    plugged,        \* external: "no", "yes" or "gone", for each device
    suitable,       \* external: devices that DisplayDevice would accept
    hid_manager,    \* hid_manager_ is bound
    hid_pipe,       \* external: messages of the device service, in order
    hid_devices,    \* devices_ of the context, and whether each is suitable
    removing,       \* devices_ has lost it, its permission is still there
    ephemeral,      \* ephemeral_devices_ of the page's origin
    controller,     \* the chooser whose controller the frame has, or 0
    observing,      \* observation_ of the controller
    device_map,     \* device_map_, whose keys are items_
    chooser,        \* callback_ of each: "new", "listing", "selecting", "done"
    can_choose,     \* JavaScript has not yet run the callback of the controller
    hid_lost,       \* history: the connection to the device service was lost
    hid_undefined   \* a device was updated that is not in the list, or the set
                    \* of permissions was used after it was erased

hidVars == <<plugged, suitable, hid_manager, hid_pipe, hid_devices, removing, ephemeral,
             controller, observing, device_map, chooser, can_choose, hid_lost, hid_undefined>>

NoController == 0
NoItems == [id \in {} |-> {}]
PhysicalDeviceId(g) == IF g \in Composite THEN 0 ELSE g

Init ==
    /\ plugged = [g \in Guids |-> "no"] /\ suitable = {}
    /\ hid_manager = FALSE /\ hid_pipe = <<>>
    /\ hid_devices = [g \in {} |-> TRUE] /\ removing = {} /\ ephemeral = {}
    /\ controller = NoController /\ observing = FALSE /\ device_map = NoItems
    /\ chooser = [r \in Choosers |-> "new"] /\ can_choose = FALSE
    /\ hid_lost = FALSE /\ hid_undefined = FALSE

Shown(map) == UNION { map[id] : id \in DOMAIN map }
Items(guids) == [id \in { PhysicalDeviceId(g) : g \in guids } |->
                    { g \in guids : PhysicalDeviceId(g) = id }]
Present == { g \in Guids : plugged[g] = "yes" }

\* The messages of the service.
Device(type, g) == [type |-> type, guid |-> g, ok |-> g \in suitable, list |-> <<>>, for |-> 0]
List(type, r) ==
    [type |-> type, guid |-> 0, ok |-> FALSE,
     list |-> [g \in Present |-> g \in suitable], for |-> r]

\* RunCallback, which does nothing the second time.
RunCallback(r) == [chooser EXCEPT ![r] = "done"]

\* Everything runs on one thread: while a removal is told, only JavaScript does.
Idle == ~hid_undefined /\ removing = {}
-----------------------------------------------------------------------------
\* RunChooser, GetHidManager and the constructor of the controller.  An older
\* controller of the frame is deleted, and answers its request.
RunChooser(r) ==
    /\ Idle /\ chooser[r] = "new" /\ \A q \in Choosers : q < r => chooser[q] # "new"
    /\ Len(hid_pipe) + (IF hid_manager THEN 1 ELSE 2) <= MaxPipe
    /\ controller' = r
    /\ chooser' = [q \in Choosers |-> CASE q = r                            -> "listing"
                                         [] q # r /\ q = controller         -> "done"
                                         [] OTHER                           -> chooser[q]]
    /\ observing' = FALSE /\ device_map' = NoItems /\ can_choose' = FALSE
    /\ hid_manager' = TRUE
    /\ hid_pipe' = Append(IF hid_manager THEN hid_pipe
                          ELSE Append(hid_pipe, List("InitDeviceList", 0)),
                          List("OnGotDevices", r))
    /\ UNCHANGED <<plugged, suitable, hid_devices, removing, ephemeral, hid_lost, hid_undefined>>

\* RenderFrameDeleted: the controller goes, and answers.
RenderFrameDeleted ==
    /\ Idle /\ controller # NoController
    /\ chooser' = RunCallback(controller)
    /\ controller' = NoController /\ observing' = FALSE /\ device_map' = NoItems
    /\ can_choose' = FALSE
    /\ UNCHANGED <<plugged, suitable, hid_manager, hid_pipe, hid_devices, removing, ephemeral,
                   hid_lost, hid_undefined>>

\* The controller is emitting hid-device-removed.
RemovalIsTold == observing /\ \E g \in removing : PhysicalDeviceId(g) \in DOMAIN device_map

\* OnDeviceChosen of JavaScript, from an event of the controller or later.  The
\* callback of select-hid-device works once, as long as the controller is there;
\* it grants the permission even when the default was not prevented and the page
\* has its answer, and while the removal of the device is told.
Choices == { PhysicalDeviceId(g) : g \in Guids }
Chosen(map, choice) == IF choice \in DOMAIN map THEN map[choice] ELSE {}
Choose(choice) ==
    /\ ~hid_undefined /\ controller # NoController /\ can_choose /\ can_choose' = FALSE
    /\ removing = {} \/ RemovalIsTold
    /\ chooser' = RunCallback(controller)
    /\ ephemeral' = ephemeral \cup Chosen(device_map, choice)
    /\ UNCHANGED <<plugged, suitable, hid_manager, hid_pipe, hid_devices, removing, controller,
                   observing, device_map, hid_lost, hid_undefined>>

\* RevokeDevicePermission of the page, that forgets a device.  When no other
\* device is left, ephemeral_devices_.erase takes away the set that the loop is
\* over; and devices_[guid] makes a null entry of a device it does not have.
RevokeDevicePermission(g) ==
    LET kept == { h \in ephemeral : PhysicalDeviceId(h) # PhysicalDeviceId(g) }
    IN  /\ Idle /\ plugged[g] # "no" /\ ephemeral # {}
        /\ ephemeral' = kept
        /\ hid_undefined' = (kept = {} \/ ~(ephemeral \subseteq DOMAIN hid_devices))
        /\ UNCHANGED <<plugged, suitable, hid_manager, hid_pipe, hid_devices, removing, controller,
                       observing, device_map, chooser, can_choose, hid_lost>>
-----------------------------------------------------------------------------
(* The messages of the service. *)

Message == Head(hid_pipe)
Receives(type) == Idle /\ hid_pipe # <<>> /\ Message.type = type
                  /\ hid_pipe' = Tail(hid_pipe)

InitDeviceList ==
    /\ Receives("InitDeviceList")
    /\ hid_devices' = [g \in DOMAIN hid_devices \cup DOMAIN Message.list |->
                          IF g \in DOMAIN hid_devices THEN hid_devices[g] ELSE Message.list[g]]
    /\ UNCHANGED <<plugged, suitable, hid_manager, removing, ephemeral, controller, observing,
                   device_map, chooser, can_choose, hid_lost, hid_undefined>>

\* A faulty OnGotDevices that a reply for a deleted controller reaches too.
OnGotDevicesOfAny(prevented) ==
    /\ Receives("OnGotDevices")
    /\ IF controller = NoController THEN UNCHANGED <<device_map, observing, chooser, can_choose>>
       ELSE /\ device_map' = Items({ g \in DOMAIN Message.list : Message.list[g] })
            /\ observing' = TRUE /\ can_choose' = TRUE
            /\ chooser' = IF prevented THEN [chooser EXCEPT ![controller] = "selecting"]
                          ELSE RunCallback(controller)
    /\ UNCHANGED <<plugged, suitable, hid_manager, hid_devices, removing, ephemeral, controller,
                   hid_lost, hid_undefined>>

\* OnGotDevices, if the controller is still there: select-hid-device, whose
\* handler may prevent the default, which is to choose nothing.
OnGotDevices(prevented) ==
    /\ Receives("OnGotDevices")
    /\ IF Message.for # controller THEN UNCHANGED <<device_map, observing, chooser, can_choose>>
       ELSE /\ device_map' = Items({ g \in DOMAIN Message.list : Message.list[g] })
            /\ observing' = TRUE /\ can_choose' = TRUE
            /\ chooser' = IF prevented THEN [chooser EXCEPT ![controller] = "selecting"]
                          ELSE RunCallback(controller)
    /\ UNCHANGED <<plugged, suitable, hid_manager, hid_devices, removing, ephemeral, controller,
                   hid_lost, hid_undefined>>

Known == [ g \in DOMAIN hid_devices \cup {Message.guid} |->
              IF g = Message.guid THEN Message.ok ELSE hid_devices[g] ]
With(g) == Items(Shown(device_map) \cup {g})
Without(g) == Items(Shown(device_map) \ {g})

\* DeviceAdded of the context and OnDeviceAdded of the controller.
DeviceAdded ==
    /\ Receives("DeviceAdded")
    /\ hid_devices' = Known
    /\ device_map' = IF observing /\ Message.ok THEN With(Message.guid) ELSE device_map
    /\ UNCHANGED <<plugged, suitable, hid_manager, removing, ephemeral, controller, observing,
                   chooser, can_choose, hid_lost, hid_undefined>>

\* DeviceRemoved, until the observers are told: the device is forgotten.  The
\* controller emits hid-device-removed if it shows the device, and what
\* JavaScript does then comes before DeviceRevoked.
DeviceRemoved ==
    /\ Receives("DeviceRemoved")
    /\ hid_devices' = [h \in DOMAIN hid_devices \ {Message.guid} |-> hid_devices[h]]
    /\ removing' = {Message.guid}
    /\ UNCHANGED <<plugged, suitable, hid_manager, ephemeral, controller, observing, device_map,
                   chooser, can_choose, hid_lost, hid_undefined>>

\* A faulty end of DeviceRemoved: what the controller shows is not revoked.
DeviceRevokedUnlessShown ==
    /\ ~hid_undefined /\ removing # {} /\ removing' = {}
    /\ device_map' = IF observing THEN Items(Shown(device_map) \ removing) ELSE device_map
    /\ ephemeral' = IF RemovalIsTold THEN ephemeral ELSE ephemeral \ removing
    /\ UNCHANGED <<plugged, suitable, hid_manager, hid_pipe, hid_devices, controller, observing,
                   chooser, can_choose, hid_lost, hid_undefined>>

\* The rest of DeviceRemoved: RemoveDeviceInfo takes the device out of the
\* controller's list, then the context revokes its permission.
DeviceRevoked ==
    /\ ~hid_undefined /\ removing # {} /\ removing' = {}
    /\ device_map' = IF observing THEN Items(Shown(device_map) \ removing) ELSE device_map
    /\ ephemeral' = ephemeral \ removing
    /\ UNCHANGED <<plugged, suitable, hid_manager, hid_pipe, hid_devices, controller, observing,
                   chooser, can_choose, hid_lost, hid_undefined>>

\* A faulty OnDeviceChanged that does not take a device out of the list.
DeviceChangedKeeps ==
    /\ Receives("DeviceChanged")
    /\ hid_devices' = Known
    /\ device_map' = IF observing /\ Message.ok THEN With(Message.guid) ELSE device_map
    /\ UNCHANGED <<plugged, suitable, hid_manager, removing, ephemeral, controller, observing,
                   chooser, can_choose, hid_lost, hid_undefined>>

\* DeviceChanged and OnDeviceChanged: it looks for the item of the physical
\* device, then UpdateDeviceInfo takes for granted that this interface is in it.
DeviceChanged ==
    /\ Receives("DeviceChanged")
    /\ hid_devices' = Known
    /\ LET g == Message.guid
           has_item == PhysicalDeviceId(g) \in DOMAIN device_map
       IN  /\ device_map' = CASE observing /\ ~Message.ok            -> Without(g)
                              [] observing /\ Message.ok /\ ~has_item -> With(g)
                              [] OTHER                                -> device_map
           /\ hid_undefined' = (observing /\ Message.ok /\ has_item /\ g \notin Shown(device_map))
    /\ UNCHANGED <<plugged, suitable, hid_manager, removing, ephemeral, controller, observing,
                   chooser, can_choose, hid_lost>>

\* The device service goes away: OnHidManagerConnectionError, of the context and
\* of the controller.  What it has not sent is lost, and so are its replies.
OnHidManagerConnectionError ==
    /\ Idle /\ hid_manager /\ hid_manager' = FALSE
    /\ hid_pipe' = <<>>
    /\ hid_devices' = [g \in {} |-> TRUE] /\ ephemeral' = {}
    /\ observing' = FALSE /\ hid_lost' = TRUE
    /\ UNCHANGED <<plugged, suitable, removing, controller, device_map, chooser, can_choose,
                   hid_undefined>>
-----------------------------------------------------------------------------
\* External: devices come, change and go; a connected service reports it.
Reports(message) ==
    /\ ~hid_undefined /\ Len(hid_pipe) < MaxPipe
    /\ hid_pipe' = IF hid_manager THEN Append(hid_pipe, message) ELSE hid_pipe
    /\ UNCHANGED <<hid_manager, hid_devices, removing, ephemeral, controller, observing,
                   device_map, chooser, can_choose, hid_lost, hid_undefined>>

PlugIn(g, ok) ==
    /\ plugged[g] = "no" /\ plugged' = [plugged EXCEPT ![g] = "yes"]
    /\ suitable' = IF ok THEN suitable \cup {g} ELSE suitable
    /\ Reports([Device("DeviceAdded", g) EXCEPT !.ok = ok])
Unplug(g) ==
    /\ plugged[g] = "yes" /\ plugged' = [plugged EXCEPT ![g] = "gone"]
    /\ Reports(Device("DeviceRemoved", g)) /\ UNCHANGED suitable
Change(g) ==
    /\ plugged[g] = "yes"
    /\ suitable' = (suitable \cup {g}) \ (suitable \cap {g})
    /\ Reports([Device("DeviceChanged", g) EXCEPT !.ok = ~@]) /\ UNCHANGED plugged
-----------------------------------------------------------------------------
Receive ==
    \/ InitDeviceList \/ DeviceAdded \/ DeviceChanged \/ DeviceRemoved \/ DeviceRevoked
    \/ \E prevented \in BOOLEAN : OnGotDevices(prevented)
Chooses == \E choice \in Choices : Choose(choice)

Next ==
    \/ \E r \in Choosers : RunChooser(r)
    \/ Receive \/ Chooses
    \/ RenderFrameDeleted \/ OnHidManagerConnectionError
    \/ \E g \in Guids : RevokeDevicePermission(g)
    \/ \E g \in Guids : (\E ok \in BOOLEAN : PlugIn(g, ok)) \/ Unplug(g) \/ Change(g)

\* Messages are received, and JavaScript that prevents the default chooses.
ChoosesForPage == Chooses /\ chooser[controller] = "selecting"
Fairness == WF_hidVars(Receive) /\ WF_hidVars(ChoosesForPage)
NoStep == UNCHANGED hidVars
Spec == Init /\ [][Next]_hidVars /\ Fairness
-----------------------------------------------------------------------------
\* Types.
TypeOK ==
    /\ plugged \in [Guids -> {"no", "yes", "gone"}]
    /\ {hid_manager, observing, can_choose, hid_lost, hid_undefined} \subseteq BOOLEAN
    /\ DOMAIN hid_devices \subseteq Guids /\ removing \cup ephemeral \subseteq Guids
    /\ controller \in Choosers \cup {NoController}
    /\ chooser \in [Choosers -> {"new", "listing", "selecting", "done"}]

\* The calls of requestDevice, for RequestService.
Status == [r \in Choosers |->
    CASE chooser[r] = "new"                     -> "new"
      [] chooser[r] \in {"listing", "selecting"} -> "pending"
      [] chooser[r] = "done"                    -> "answered"]

\* While a chooser observes the devices, it shows exactly the suitable ones
\* that the context knows, and a permission lasts as long as its device; both
\* except for the one device whose removal is told, which is still shown and
\* may be chosen then although it is gone (the DCHECK of GrantDevicePermission
\* fails), and is taken back when the removal is done.  The other exceptions:
\* undefined behaviour, when another interface of a shown device becomes
\* suitable or a page forgets its last device, and a lost connection, after
\* which the old list can still be chosen from.
ChoicesAreThere ==
    ~hid_undefined =>
        /\ observing => Shown(device_map) \ removing = { g \in DOMAIN hid_devices : hid_devices[g] }
        /\ hid_lost \/ ephemeral \subseteq DOMAIN hid_devices \cup removing
==============================================================================
