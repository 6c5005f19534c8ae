-------------------------------- MODULE Cuse --------------------------------
(***************************************************************************)
(* Character devices in user space: a server opens /dev/cuse, answers the  *)
(* INIT request with the name and number of a device, which then exists    *)
(* until the channel is closed.  From old/fuse/cuse.c.                     *)
(*                                                                         *)
(* A channel and the cuse_conn its open allocates have one name.  The      *)
(* region of device numbers, the device and the cdev are external.         *)
(***************************************************************************)
EXTENDS Naturals, Sequences, FiniteSets

CONSTANTS
    Channels,   \* open files of /dev/cuse
    Clients,    \* open files of the devices
    Devts,      \* device numbers
    Names,      \* device names
    MaxPairs,   \* bound: pairs in the device information
    None

VARIABLES
    chan,       \* "closed", "open", "leaked", "unlisted", "removed", "released"
    cc,         \* struct cuse_conn
    reply,      \* INIT: "none", "sent", "region", "ended"
    chosen,     \* the device number and name the reply asks for
    region,     \* chrdev region: the channel that has the number
    client,     \* "closed", "opening", "open"
    conn        \* connection of the client's fuse_file

cvars == <<chan, cc, reply, chosen, region, client, conn>>

NoConn == [alive |-> FALSE, count |-> 0, connected |-> FALSE, listed |-> FALSE,
           dev |-> FALSE]

Init ==
    /\ chan = [c \in Channels |-> "closed"]
    /\ cc = [c \in Channels |-> NoConn]
    /\ reply = [c \in Channels |-> "none"]
    /\ chosen = [c \in Channels |-> None]
    /\ region = [d \in Devts |-> None]
    /\ client = [u \in Clients |-> "closed"]
    /\ conn = [u \in Clients |-> None]

Put(c) == IF c.count > 1 THEN [c EXCEPT !.count = @ - 1]
          ELSE [c EXCEPT !.count = 0, !.alive = FALSE]

(***************************************************************************)
(* The channel.                                                            *)
(***************************************************************************)

(* The base reference and the one of fud.  When cuse_send_init fails,      *)
(* fuse_dev_free puts the second only.                                     *)
cuse_channel_open(c) ==
    /\ chan[c] = "closed"
    /\ \/ /\ chan' = [chan EXCEPT ![c] = "open"]
          /\ cc' = [cc EXCEPT ![c] = [NoConn EXCEPT !.alive = TRUE, !.count = 2, !.connected = TRUE]]
          /\ reply' = [reply EXCEPT ![c] = "sent"]
       \/ /\ chan' = [chan EXCEPT ![c] = "leaked"]
          /\ cc' = [cc EXCEPT ![c] = Put([NoConn EXCEPT !.alive = TRUE, !.count = 2, !.connected = TRUE])]
          /\ UNCHANGED reply
    /\ UNCHANGED <<chosen, region, client, conn>>

(* Pairs of the device information up to an error: the last DEVNAME counts.*)
Pairs == {<<k, v>> : k \in {"DEVNAME", "other", ""}, v \in Names \cup {""}}
cuse_parse_devinfo(info) ==
    LET at == {i \in DOMAIN info : info[i][1] = "DEVNAME"}
        name == IF at = {} THEN "" ELSE info[CHOOSE i \in at : \A j \in at : j <= i][2]
    IN  IF name = "" \/ \E i \in DOMAIN info : info[i][1] = "" THEN None ELSE name

(* The reply is an error, cannot be parsed, or the number is taken: abort. *)
reply_fails(c) ==
    /\ reply' = [reply EXCEPT ![c] = "ended"]
    /\ cc' = [cc EXCEPT ![c].connected = FALSE]
    /\ UNCHANGED <<chosen, region>>

reply_region(c, d, info) ==
    LET name == cuse_parse_devinfo(info)
    IN  IF name = None \/ region[d] # None THEN reply_fails(c)
        ELSE /\ region' = [region EXCEPT ![d] = c]
             /\ chosen' = [chosen EXCEPT ![c] = <<d, name>>]
             /\ reply' = [reply EXCEPT ![c] = "region"]
             /\ UNCHANGED cc

cuse_process_init_reply(c) ==
    /\ chan[c] = "open" /\ reply[c] = "sent" /\ cc[c].connected
    /\ \/ reply_fails(c)
       \/ \E d \in Devts, n \in 0..MaxPairs : \E info \in [1..n -> Pairs] : reply_region(c, d, info)
    /\ UNCHANGED <<chan, client, conn>>

Taken(name) == \E e \in Channels : cc[e].listed /\ chosen[e][2] = name

(* In cuse_lock: the name is unique, the device and the cdev can be added. *)
reply_add(c) ==
    /\ reply[c] = "region"
    /\ ~Taken(chosen[c][2])
    /\ cc' = [cc EXCEPT ![c] = [@ EXCEPT !.dev = TRUE, !.listed = TRUE]]
    /\ reply' = [reply EXCEPT ![c] = "ended"]
    /\ UNCHANGED <<chan, chosen, region, client, conn>>

(* The labels err_cdev, err_unlock and err_region.  (When the cdev fails   *)
(* the device is put without device_del.)                                  *)
reply_undo(c) ==
    /\ reply[c] = "region"
    /\ region' = [region EXCEPT ![chosen[c][1]] = None]
    /\ cc' = [cc EXCEPT ![c].connected = FALSE]
    /\ reply' = [reply EXCEPT ![c] = "ended"]
    /\ UNCHANGED <<chan, chosen, client, conn>>

cuse_class_abort_store(c) ==
    /\ cc[c].dev /\ cc[c].connected
    /\ cc' = [cc EXCEPT ![c].connected = FALSE]
    /\ UNCHANGED <<chan, reply, chosen, region, client, conn>>

(* cuse_channel_release, when the writer of the reply is gone: list_del,   *)
cuse_channel_release(c) ==
    /\ chan[c] = "open" /\ reply[c] # "region"
    /\ chan' = [chan EXCEPT ![c] = "unlisted"]
    /\ cc' = [cc EXCEPT ![c].listed = FALSE]
    /\ UNCHANGED <<reply, chosen, region, client, conn>>

(* the device and its number,                                              *)
channel_unregister(c) ==
    /\ chan[c] = "unlisted"
    /\ chan' = [chan EXCEPT ![c] = "removed"]
    /\ cc' = [cc EXCEPT ![c].dev = FALSE]
    /\ region' = IF cc[c].dev THEN [region EXCEPT ![chosen[c][1]] = None] ELSE region
    /\ UNCHANGED <<reply, chosen, client, conn>>

(* and the two references, with the abort of fuse_dev_release between: it  *)
(* ends INIT.                                                              *)
channel_put_once(c) ==
    /\ chan[c] = "removed"
    /\ chan' = [chan EXCEPT ![c] = "released"]
    /\ cc' = [cc EXCEPT ![c] = Put([@ EXCEPT !.connected = FALSE])]
    /\ reply' = [reply EXCEPT ![c] = "ended"]
    /\ UNCHANGED <<chosen, region, client, conn>>
channel_put(c) ==
    /\ chan[c] = "removed"
    /\ chan' = [chan EXCEPT ![c] = "released"]
    /\ cc' = [cc EXCEPT ![c] = Put(Put([@ EXCEPT !.connected = FALSE]))]
    /\ reply' = [reply EXCEPT ![c] = "ended"]
    /\ UNCHANGED <<chosen, region, client, conn>>

(***************************************************************************)
(* The device.                                                             *)
(***************************************************************************)
cuse_open(u) ==
    /\ client[u] = "closed"
    /\ \E c \in Channels :
        /\ cc[c].listed
        /\ cc' = [cc EXCEPT ![c].count = @ + 1]
        /\ conn' = [conn EXCEPT ![u] = c]
    /\ client' = [client EXCEPT ![u] = "opening"]
    /\ UNCHANGED <<chan, reply, chosen, region>>

(* OPEN is answered, or fails, after an abort for certain.                 *)
open_done(u) ==
    /\ client[u] = "opening"
    /\ \/ /\ cc[conn[u]].connected
          /\ client' = [client EXCEPT ![u] = "open"]
          /\ UNCHANGED <<cc, conn>>
       \/ /\ client' = [client EXCEPT ![u] = "closed"]
          /\ cc' = [cc EXCEPT ![conn[u]] = Put(@)]
          /\ conn' = [conn EXCEPT ![u] = None]
    /\ UNCHANGED <<chan, reply, chosen, region>>

cuse_release(u) ==
    /\ client[u] = "open"
    /\ client' = [client EXCEPT ![u] = "closed"]
    /\ cc' = [cc EXCEPT ![conn[u]] = Put(@)]
    /\ conn' = [conn EXCEPT ![u] = None]
    /\ UNCHANGED <<chan, reply, chosen, region>>

Next ==
    \/ \E c \in Channels :
        \/ cuse_channel_open(c) \/ cuse_process_init_reply(c) \/ reply_add(c)
        \/ reply_undo(c) \/ cuse_class_abort_store(c) \/ cuse_channel_release(c)
        \/ channel_unregister(c) \/ channel_put(c)
    \/ \E u \in Clients : cuse_open(u) \/ open_done(u) \/ cuse_release(u)

Spec == Init /\ [][Next]_cvars

(***************************************************************************)
(* Properties.                                                             *)
(***************************************************************************)

(* fuse_conn_get and fuse_conn_put of CUSE: a connection has the references*)
(* of its channel and of the device files opened on it, and it is freed    *)
(* with the last, whichever of server and clients goes first.  (One whose  *)
(* open failed keeps the base reference for ever.)                         *)
CuseRefs ==
    \A c \in Channels :
        LET refs == (IF chan[c] \in {"open", "unlisted", "removed"} THEN 2
                     ELSE IF chan[c] = "leaked" THEN 1 ELSE 0)
                    + Cardinality({u \in Clients : conn[u] = c})
        IN  cc[c].count = refs /\ (cc[c].alive <=> refs > 0)

(* cuse_conntbl: a connection that cuse_open can find has an open channel, *)
(* a device and its number, and no other one has its name.                 *)
TableUnique ==
    \A c \in Channels : cc[c].listed =>
        /\ chan[c] = "open" /\ cc[c].dev /\ region[chosen[c][1]] = c
        /\ \A e \in Channels \ {c} : cc[e].listed => chosen[e][2] # chosen[c][2]

(* The error labels of cuse_process_init_reply and cuse_channel_release: a *)
(* device number is reserved only for a device that exists or is about to. *)
RegionReturned ==
    \A d \in Devts : region[d] # None =>
        /\ chosen[region[d]][1] = d
        /\ cc[region[d]].dev \/ reply[region[d]] = "region"

(* The life of a CUSE device (cuse_process_init_reply, cuse_open,          *)
(* cuse_channel_release): connection, table entry and device number come   *)
(* and go together, whatever fails and whoever leaves first.               *)
CuseBalanced == CuseRefs /\ TableUnique /\ RegionReturned

=============================================================================
