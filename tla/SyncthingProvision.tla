------------------------- MODULE SyncthingProvision -------------------------
(***************************************************************************)
(* The provisioning of the Syncthing node on ugreen from the configuration *)
(* of the hub on the NAS (cmd/provision-syncthing/main.go).  It runs on    *)
(* every deployment and works on configurations it has read before, while  *)
(* people change the hub in its web interface.                             *)
(***************************************************************************)
EXTENDS NoValue, FiniteSets

CONSTANTS
  Others,      \* devices that are neither nas nor ugreen
  Folders,     \* folders of the hub, by id
  Archive,     \* newArchiveFolders
  Excluded     \* folders with an excluded label

Devices == Others \cup {"nas", "ugreen"}

VARIABLES
  hub, node,   \* the configurations: [devices, folders]; a folder is the set
               \* of devices it is shared with
  step,        \* what the program is about to do
  snapshot,    \* the configuration of the hub it has read
  known,       \* the folders or devices of the node it has read
  edited       \* folders changed in the hub since the first reading

syncVars == <<hub, node, step, snapshot, known, edited>>

NoFolders == [f \in Folders |-> None]
There(config) == {f \in Folders : config.folders[f] # None}

\* The hub has run for years with folders of its own; the node is new.
SyncInit ==
  /\ hub = [devices |-> {"nas"},
            folders |-> [f \in Folders |-> IF f \in Archive THEN None ELSE {"nas"}]]
  /\ node = [devices |-> {"ugreen"}, folders |-> NoFolders]
  /\ step = "idle" /\ snapshot = None /\ known = None /\ edited = {}

\* Both configurations and states can be read.
StartSync ==
  /\ step = "idle"
  /\ step' = "device" /\ snapshot' = hub /\ edited' = {}
  /\ UNCHANGED <<hub, node, known>>

\* 1. Register ugreen with the hub.
RegisterNode ==
  /\ step = "device"
  /\ hub' = [hub EXCEPT !.devices = @ \cup ({"ugreen"} \ snapshot.devices)]
  /\ known' = There(snapshot)
  /\ step' = "archive"
  /\ UNCHANGED <<node, snapshot, edited>>

\* 2. Create the archive folders that were missing.  Here and below `known`
\* is what needs no call any more.
CreateArchive ==
  /\ step = "archive"
  /\ IF Archive \subseteq known
     THEN step' = "share" /\ UNCHANGED <<hub, known>>
     ELSE \E f \in Archive \ known :
            /\ hub' = [hub EXCEPT !.folders[f] = {"nas", "ugreen"}]
            /\ known' = known \cup {f}
            /\ UNCHANGED step
  /\ UNCHANGED <<node, snapshot, edited>>

WithNodeOnly(f) == {"nas", "ugreen"}   \* mutant: the others are left out
\* The folder as it was read, and ugreen.
WithNode(f) == snapshot.folders[f] \cup {"ugreen"}

\* 3. Add ugreen to each folder that was there: the whole folder is sent back
\* as it was read.
ToShare == {f \in There(snapshot) \ Excluded : "ugreen" \notin snapshot.folders[f]}
Share ==
  /\ step = "share"
  /\ IF ToShare = {} THEN step' = "reread" /\ UNCHANGED <<hub, snapshot>>
     ELSE \E f \in ToShare :
            /\ hub' = [hub EXCEPT !.folders[f] = WithNode(f)]
            /\ snapshot' = [snapshot EXCEPT !.folders[f] = WithNode(f)]
            /\ UNCHANGED step
  /\ UNCHANGED <<node, known, edited>>

OldSnapshot == snapshot   \* mutant: the hub is not read again
HubNow == hub
Reread ==
  /\ step = "reread"
  /\ snapshot' = HubNow
  /\ known' = node.devices   \* ugreen itself is among them
  /\ step' = "devices"
  /\ UNCHANGED <<hub, node, edited>>

\* 4. Register every device of the hub with the node.
RegisterDevices ==
  /\ step = "devices"
  /\ IF snapshot.devices \subseteq known
     THEN step' = "accept" /\ UNCHANGED <<node, known>>
     ELSE \E d \in snapshot.devices \ known :
            /\ node' = [node EXCEPT !.devices = @ \cup {d}]
            /\ known' = known \cup {d}
            /\ UNCHANGED step
  /\ UNCHANGED <<hub, snapshot, edited>>

\* 5. Accept every folder that is shared with ugreen and not there yet, with
\* the devices it has on the hub.
ToAccept ==
  {f \in There(snapshot) \ (Excluded \cup There(node)) : "ugreen" \in snapshot.folders[f]}
Accept ==
  /\ step = "accept"
  /\ IF ToAccept = {} THEN step' = "done" /\ UNCHANGED node
     ELSE /\ \E f \in ToAccept :
               node' = [node EXCEPT !.folders[f] = snapshot.folders[f]]
          /\ UNCHANGED step
  /\ UNCHANGED <<hub, snapshot, known, edited>>

\* The run is over, or a call fails, after its effect or before it: the next
\* deployment begins anew.
End ==
  /\ step # "idle"
  /\ step' = "idle" /\ snapshot' = None /\ known' = None /\ edited' = {}
  /\ UNCHANGED <<hub, node>>

\* Someone shares a folder with a device, or no longer, or adds a device.
Edit ==
  /\ \/ \E f \in There(hub), d \in Others \cap hub.devices :
          /\ hub' = [hub EXCEPT !.folders[f] = IF d \in @ THEN @ \ {d} ELSE @ \cup {d}]
          /\ edited' = edited \cup {f}
     \/ \E d \in Others :
          /\ hub' = [hub EXCEPT !.devices = @ \cup {d}]
          /\ UNCHANGED edited
  /\ UNCHANGED <<node, step, snapshot, known>>

SyncNext ==
  \/ StartSync
  \/ RegisterNode
  \/ CreateArchive
  \/ Share
  \/ Reread
  \/ RegisterDevices
  \/ Accept
  \/ End
  \/ Edit

SyncSpec == SyncInit /\ [][SyncNext]_syncVars
-----------------------------------------------------------------------------
\* "Never removes a device or folder": what a step of the program sends keeps
\* every share the folder has, unless the folder was edited after the program
\* had read it; then the edit is lost.
SharesAreKept ==
  [][hub # hub' /\ edited' = edited =>
       \A f \in There(hub) \ edited : hub.folders[f] \subseteq hub'.folders[f]]_syncVars

\* A run that comes to its end has put every folder of the hub on the node,
\* the archive folders it has only just created among them, and every device
\* they are shared with.
EndMirrors ==
  step = "done" =>
    /\ There(hub) \ Excluded \subseteq There(node)
    /\ Archive \ Excluded \subseteq There(node)
    /\ \A f \in There(node) : node.folders[f] \subseteq node.devices
=============================================================================
