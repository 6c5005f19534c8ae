------------------------------ MODULE FuseMount ------------------------------
(***************************************************************************)
(* Who keeps a FUSE connection alive: the super block that mounts it, the  *)
(* device files attached to it, the control files that use it, and how     *)
(* mount, its failures, unmount, close, clone, abort, the INIT exchange    *)
(* and the daemon's notifications interleave.  From old/fuse/inode.c,      *)
(* control.c and dev.c.                                                    *)
(*                                                                         *)
(* A mount and the connection its fuse_fill_super allocates have one name. *)
(* fuse_mutex is held within single actions, except by a thread that dies  *)
(* in them: it stays locked for ever.  kfree_rcu frees at once: the model  *)
(* keeps no pointer that is only protected by RCU.                         *)
(***************************************************************************)
EXTENDS Naturals, FiniteSets

CONSTANTS
    Mounts,     \* attempts to mount: super blocks
    Files,      \* opened files of /dev/fuse
    Users,      \* processes that use the control file system
    None

VARIABLES
    mpc,        \* where the mount or unmount of a super block is
    bdev,       \* the file system type is fuseblk
    fs_info,    \* sb->s_fs_info is set
    fc,         \* struct fuse_conn
    mfile,      \* the file fuse_fill_super has a reference to
    init,       \* the INIT request: "none", "queued", "read", "ended"
    initdev,    \* the device file that read it
    uopen,      \* the daemon has the file open
    priv,       \* connection of file->private_data
    notify,     \* connection whose killsb a write of this file holds for reading
    ctlsb,      \* fuse_control_sb is set
    user,       \* connection a control file operation has a reference to
    registered, \* what the module has registered
    dead        \* threads that died: "kill_sb", "init_reply", "ctl"

mvars == <<mpc, bdev, fs_info, fc, mfile, init, initdev, uopen, priv, notify, ctlsb,
           user, registered, dead>>

NoConn == [alive |-> FALSE, count |-> 0, dev_count |-> 0, connected |-> FALSE,
           initialized |-> FALSE, conn_init |-> FALSE, sb |-> FALSE, bdi |-> FALSE,
           listed |-> FALSE, ctl |-> FALSE, destroy |-> "none"]
fuse_conn_init == [NoConn EXCEPT !.alive = TRUE, !.count = 1, !.dev_count = 1,
                                 !.connected = TRUE]

Init ==
    /\ mpc = [m \in Mounts |-> "idle"]
    /\ bdev \in [Mounts -> BOOLEAN]
    /\ fs_info = [m \in Mounts |-> FALSE]
    /\ fc = [m \in Mounts |-> NoConn]
    /\ mfile = [m \in Mounts |-> None]
    /\ init = [m \in Mounts |-> "none"] /\ initdev = [m \in Mounts |-> None]
    /\ uopen = [f \in Files |-> FALSE]
    /\ priv = [f \in Files |-> None] /\ notify = [f \in Files |-> None]
    /\ ctlsb = FALSE /\ user = [u \in Users |-> None]
    /\ registered = {} /\ dead = {}

(***************************************************************************)
(* The module.                                                             *)
(***************************************************************************)
Stages == <<"inode_cache", "fuseblk", "fuse", "req_cache", "miscdev", "kobj",
            "mount_point", "fusectl">>
Done(k) == {Stages[i] : i \in 1..k}
Loaded == registered = Done(8)
mutex_free == "ctl" \notin dead

fuse_fs_cleanup(r) == r \ {"fuse", "fuseblk", "inode_cache"}
fuse_dev_cleanup(r) == r \ {"miscdev", "req_cache"}
fuse_sysfs_cleanup(r) == r \ {"mount_point", "kobj"}

(* What is left when registration k fails, k = 9: none does.  The init     *)
(* function of each part undoes its own, the labels of fuse_init the parts *)
(* before it.                                                              *)
Unregister(k) ==
    LET r == Done(k - 1) IN
    CASE k \in 1..3 -> r \ Done(3)
      [] k \in 4..5 -> fuse_fs_cleanup(r \ {"req_cache"})
      [] k \in 6..7 -> fuse_fs_cleanup(fuse_dev_cleanup(r \ {"kobj"}))
      [] k = 8 -> fuse_fs_cleanup(fuse_dev_cleanup(fuse_sysfs_cleanup(r)))
      [] OTHER -> Done(8)

fuse_init(k) ==
    /\ registered = {}
    /\ registered' = Unregister(k)
    /\ UNCHANGED <<mpc, bdev, fs_info, fc, mfile, init, initdev, uopen, priv, notify,
                   ctlsb, user, dead>>

(* Super blocks and open files hold references to the module.              *)
fuse_exit ==
    /\ Loaded /\ ~ctlsb /\ dead = {}
    /\ \A m \in Mounts : mpc[m] \in {"idle", "gone"}
    /\ \A f \in Files : ~uopen[f] /\ priv[f] = None
    /\ registered' = fuse_dev_cleanup(fuse_fs_cleanup(fuse_sysfs_cleanup(
                        registered \ {"fusectl"})))
    /\ UNCHANGED <<mpc, bdev, fs_info, fc, mfile, init, initdev, uopen, priv, notify,
                   ctlsb, user, dead>>

(***************************************************************************)
(* The connection.                                                         *)
(***************************************************************************)
Get(c) == [c EXCEPT !.count = @ + 1]
fuse_conn_put(c) ==
    IF c.count > 1 THEN [c EXCEPT !.count = @ - 1]
    ELSE [c EXCEPT !.count = 0, !.alive = FALSE, !.destroy = "none"]

(* process_init_reply when INIT failed.                                    *)
init_error(c) == [c EXCEPT !.initialized = TRUE]

InFlight(m) == init[m] \in {"queued", "read"}

(* Ends INIT and DESTROY as well.                                          *)
fuse_abort_conn(m) ==
    IF fc[m].connected
    THEN /\ fc' = [fc EXCEPT ![m] =
                    LET c == [fc[m] EXCEPT !.connected = FALSE, !.initialized = TRUE,
                                !.destroy = IF fc[m].destroy = "sent" THEN "answered"
                                            ELSE fc[m].destroy]
                    IN  IF InFlight(m) THEN init_error(c) ELSE c]
         /\ init' = [init EXCEPT ![m] = IF InFlight(m) THEN "ended" ELSE @]
         /\ initdev' = [initdev EXCEPT ![m] = None]
    ELSE UNCHANGED <<fc, init, initdev>>

(***************************************************************************)
(* fuse_fill_super.                                                        *)
(***************************************************************************)

(* Up to fget: bad options or a bad descriptor leave nothing behind.       *)
fuse_mount(m) ==
    /\ Loaded /\ mpc[m] = "idle"
    /\ \/ /\ mpc' = [mpc EXCEPT ![m] = "failed"] /\ UNCHANGED mfile
       \/ \E f \in Files : /\ uopen[f]
                           /\ mfile' = [mfile EXCEPT ![m] = f]
                           /\ mpc' = [mpc EXCEPT ![m] = "setup"]
    /\ UNCHANGED <<bdev, fs_info, fc, init, initdev, uopen, priv, notify, ctlsb, user,
                   registered, dead>>

(* The labels err_dev_free and err_put_conn.                               *)
unwind_no_dev_free(c) == fuse_conn_put([c EXCEPT !.bdi = FALSE])
unwind(c) == fuse_conn_put([fuse_conn_put(c) EXCEPT !.bdi = FALSE])

(* The connection with its device, after bdi_init.                         *)
NewConn == [Get(fuse_conn_init) EXCEPT !.sb = TRUE, !.bdi = TRUE]

(* Everything up to mutex_lock is private to the mount.  It fails at an    *)
(* allocation, at bdi_init or with the root inode; s_fs_info is not taken  *)
(* back.                                                                   *)
fill_super_setup(m) ==
    /\ mpc[m] = "setup"
    /\ \/ /\ mpc' = [mpc EXCEPT ![m] = "publish"]
          /\ fc' = [fc EXCEPT ![m] = [NewConn EXCEPT !.destroy = IF bdev[m] THEN "alloc" ELSE "none"]]
          /\ fs_info' = [fs_info EXCEPT ![m] = TRUE]
          /\ UNCHANGED mfile
       \/ /\ mpc' = [mpc EXCEPT ![m] = "failed"]
          /\ mfile' = [mfile EXCEPT ![m] = None]
          /\ \/ UNCHANGED <<fc, fs_info>>
             \/ /\ fc' = [fc EXCEPT ![m] = fuse_conn_put(fuse_conn_init)]
                /\ UNCHANGED fs_info
             \/ /\ fc' = [fc EXCEPT ![m] = unwind(NewConn)]
                /\ fs_info' \in {[fs_info EXCEPT ![m] = b] : b \in BOOLEAN}
    /\ UNCHANGED <<bdev, init, initdev, uopen, priv, notify, ctlsb, user, registered, dead>>

(* The part under fuse_mutex.                                              *)
fill_super_publish(m) ==
    /\ mpc[m] = "publish" /\ mutex_free
    /\ priv[mfile[m]] = None
    /\ fc' = [fc EXCEPT ![m] = [@ EXCEPT !.listed = TRUE, !.ctl = ctlsb]]
    /\ priv' = [priv EXCEPT ![mfile[m]] = m]
    /\ mpc' = [mpc EXCEPT ![m] = "fput"]
    /\ UNCHANGED <<bdev, fs_info, mfile, init, initdev, uopen, notify, ctlsb, user,
                   registered, dead>>

(* The file has a connection already, or fuse_ctl_add_conn fails.          *)
fill_super_unlock(m) ==
    /\ mpc[m] = "publish" /\ mutex_free
    /\ priv[mfile[m]] # None \/ ctlsb
    /\ fc' = [fc EXCEPT ![m] = unwind(@)]
    /\ mfile' = [mfile EXCEPT ![m] = None]
    /\ mpc' = [mpc EXCEPT ![m] = "failed"]
    /\ UNCHANGED <<bdev, fs_info, init, initdev, uopen, priv, notify, ctlsb, user,
                   registered, dead>>

(* fuse_ctl_add_dentry counts a dentry before it has an inode: when        *)
(* new_inode fails fuse_ctl_remove_conn follows a null pointer, in         *)
(* fuse_mutex.                                                             *)
ctl_add_dies ==
    /\ mutex_free
    /\ \/ ctlsb /\ \E m \in Mounts : mpc[m] = "publish" /\ priv[mfile[m]] = None
       \/ ~ctlsb /\ Loaded /\ \E m \in Mounts : fc[m].listed
    /\ dead' = dead \cup {"ctl"}
    /\ UNCHANGED <<mpc, bdev, fs_info, fc, mfile, init, initdev, uopen, priv, notify,
                   ctlsb, user, registered>>

fill_super_fput(m) ==
    /\ mpc[m] = "fput"
    /\ mfile' = [mfile EXCEPT ![m] = None]
    /\ mpc' = [mpc EXCEPT ![m] = "send_init"]
    /\ UNCHANGED <<bdev, fs_info, fc, init, initdev, uopen, priv, notify, ctlsb, user,
                   registered, dead>>

(* A background request: it fails at once when the connection is gone.     *)
fuse_send_init(m) ==
    /\ mpc[m] = "send_init"
    /\ mpc' = [mpc EXCEPT ![m] = "mounted"]
    /\ IF fc[m].connected
       THEN init' = [init EXCEPT ![m] = "queued"] /\ UNCHANGED fc
       ELSE /\ init' = [init EXCEPT ![m] = "ended"]
            /\ fc' = [fc EXCEPT ![m] = init_error(@)]
    /\ UNCHANGED <<bdev, fs_info, mfile, initdev, uopen, priv, notify, ctlsb, user,
                   registered, dead>>

(***************************************************************************)
(* The daemon.                                                             *)
(***************************************************************************)
dev_open(f) ==
    /\ Loaded /\ ~uopen[f] /\ priv[f] = None
    /\ \A m \in Mounts : mfile[m] # f
    /\ uopen' = [uopen EXCEPT ![f] = TRUE]
    /\ UNCHANGED <<mpc, bdev, fs_info, fc, mfile, init, initdev, priv, notify, ctlsb,
                   user, registered, dead>>

close(f) ==
    /\ uopen[f]
    /\ uopen' = [uopen EXCEPT ![f] = FALSE]
    /\ UNCHANGED <<mpc, bdev, fs_info, fc, mfile, init, initdev, priv, notify, ctlsb,
                   user, registered, dead>>

(* The last reference to the file is gone.  The requests read through this *)
(* device end, an abort ends the others, fuse_dev_free puts the connection.*)
fuse_dev_release(f) ==
    LET m == priv[f]
        c == fc[m]
        d(read) == [c EXCEPT !.dev_count = c.dev_count - 1,
                       !.connected = c.connected /\ c.dev_count # 1,
                       !.initialized = c.initialized \/ (c.connected /\ c.dev_count = 1),
                       !.destroy = IF c.destroy = "sent" /\ (read \/ c.dev_count = 1)
                                   THEN "answered" ELSE c.destroy]
        ends == InFlight(m) /\ (initdev[m] = f \/ c.dev_count = 1)
    IN  /\ ~uopen[f] /\ m # None /\ notify[f] = None
        /\ \A n \in Mounts : mfile[n] # f
        /\ \E read \in BOOLEAN :     \* DESTROY was read through this device
            fc' = [fc EXCEPT ![m] = fuse_conn_put(IF ends THEN init_error(d(read)) ELSE d(read))]
        /\ init' = [init EXCEPT ![m] = IF ends THEN "ended" ELSE @]
        /\ initdev' = [initdev EXCEPT ![m] = IF ends THEN None ELSE @]
        /\ priv' = [priv EXCEPT ![f] = None]
        /\ UNCHANGED <<mpc, bdev, fs_info, mfile, uopen, notify, ctlsb, user, registered,
                       dead>>

fuse_device_clone_uncounted(old, f) ==
    /\ uopen[old] /\ uopen[f] /\ mutex_free
    /\ priv[old] # None /\ priv[f] = None
    /\ priv' = [priv EXCEPT ![f] = priv[old]]
    /\ fc' = [fc EXCEPT ![priv[old]] = Get(@)]
    /\ UNCHANGED <<mpc, bdev, fs_info, mfile, init, initdev, uopen, notify, ctlsb, user,
                   registered, dead>>
fuse_device_clone(old, f) ==
    /\ uopen[old] /\ uopen[f] /\ mutex_free
    /\ priv[old] # None /\ priv[f] = None
    /\ priv' = [priv EXCEPT ![f] = priv[old]]
    /\ LET m == priv[old]
       IN  fc' = [fc EXCEPT ![m] = [Get(fc[m]) EXCEPT !.dev_count = fc[m].dev_count + 1]]
    /\ UNCHANGED <<mpc, bdev, fs_info, mfile, init, initdev, uopen, notify, ctlsb, user,
                   registered, dead>>

read_init(f) ==
    LET m == priv[f]
    IN  /\ uopen[f] /\ m # None
        /\ init[m] = "queued"
        /\ init' = [init EXCEPT ![m] = "read"]
        /\ initdev' = [initdev EXCEPT ![m] = f]
        /\ UNCHANGED <<mpc, bdev, fs_info, fc, mfile, uopen, priv, notify, ctlsb, user,
                       registered, dead>>

(* An error, a reply that leaves the super block alone, or one that sets   *)
(* its time granularity or handlers: fc->sb is not tested.                 *)
process_init_reply(f) ==
    LET m == priv[f]
    IN  /\ uopen[f] /\ m # None
        /\ init[m] = "read" /\ initdev[m] = f
        /\ init' = [init EXCEPT ![m] = "ended"]
        /\ initdev' = [initdev EXCEPT ![m] = None]
        /\ \/ fc' = [fc EXCEPT ![m] = init_error(@)] /\ UNCHANGED dead
           \/ /\ fc' = [fc EXCEPT ![m] = [init_error(@) EXCEPT !.conn_init = TRUE]]
              /\ UNCHANGED dead
           \/ ~fc[m].sb /\ dead' = dead \cup {"init_reply"} /\ UNCHANGED fc
        /\ UNCHANGED <<mpc, bdev, fs_info, mfile, uopen, priv, notify, ctlsb, user,
                       registered>>

answer_destroy(f) ==
    LET m == priv[f]
    IN  /\ uopen[f] /\ m # None
        /\ fc[m].destroy = "sent" /\ fc[m].connected
        /\ fc' = [fc EXCEPT ![m].destroy = "answered"]
        /\ UNCHANGED <<mpc, bdev, fs_info, mfile, init, initdev, uopen, priv, notify,
                       ctlsb, user, registered, dead>>

(* fuse_notify_inval_inode, inval_entry, delete, store and retrieve: use   *)
(* fc->sb between down_read and up_read of killsb.                         *)
fuse_notify(f) ==
    LET m == priv[f]
    IN  /\ uopen[f] /\ m # None /\ notify[f] = None
        /\ fc[m].sb
        /\ notify' = [notify EXCEPT ![f] = m]
        /\ UNCHANGED <<mpc, bdev, fs_info, fc, mfile, init, initdev, uopen, priv, ctlsb,
                       user, registered, dead>>

(* Retrieve may wait for INIT in fuse_get_req before, with killsb held.    *)
fuse_notify_end(f) ==
    /\ notify[f] # None
    /\ notify' = [notify EXCEPT ![f] = None]
    /\ UNCHANGED <<mpc, bdev, fs_info, fc, mfile, init, initdev, uopen, priv, ctlsb, user,
                   registered, dead>>

(***************************************************************************)
(* Unmount.                                                                *)
(***************************************************************************)
fuse_umount_begin(m) ==
    /\ mpc[m] = "mounted"
    /\ fc[m].connected
    /\ fuse_abort_conn(m)
    /\ UNCHANGED <<mpc, bdev, fs_info, mfile, uopen, priv, notify, ctlsb, user, registered,
                   dead>>

(* Also after a fuse_fill_super that failed, when it has freed what        *)
(* s_fs_info points to: the write to the freed connection is lost.         *)
fuse_kill_sb_unlocked(m) ==
    /\ mpc[m] \in {"mounted", "failed"}
    /\ fc' = IF fs_info[m] THEN [fc EXCEPT ![m].sb = FALSE] ELSE fc
    /\ dead' = IF fs_info[m] /\ ~fc[m].alive THEN dead \cup {"kill_sb"} ELSE dead
    /\ mpc' = [mpc EXCEPT ![m] = IF @ = "mounted" THEN "put_super" ELSE "gone"]
    /\ UNCHANGED <<bdev, fs_info, mfile, init, initdev, uopen, priv, notify, ctlsb, user,
                   registered>>
fuse_kill_sb(m) ==
    /\ mpc[m] \in {"mounted", "failed"}
    /\ fs_info[m] => \A f \in Files : notify[f] # m
    /\ fc' = IF fs_info[m] THEN [fc EXCEPT ![m].sb = FALSE] ELSE fc
    /\ dead' = IF fs_info[m] /\ ~fc[m].alive THEN dead \cup {"kill_sb"} ELSE dead
    /\ mpc' = [mpc EXCEPT ![m] = IF @ = "mounted" THEN "put_super" ELSE "gone"]
    /\ UNCHANGED <<bdev, fs_info, mfile, init, initdev, uopen, priv, notify, ctlsb, user,
                   registered>>

fuse_send_destroy(m) ==
    /\ mpc[m] = "put_super"
    /\ IF fc[m].destroy = "alloc" /\ fc[m].conn_init
       THEN /\ fc' = [fc EXCEPT ![m].destroy =
                        IF fc[m].connected THEN "sent" ELSE "answered"]
            /\ mpc' = [mpc EXCEPT ![m] = "destroy"]
       ELSE mpc' = [mpc EXCEPT ![m] = "abort"] /\ UNCHANGED fc
    /\ UNCHANGED <<bdev, fs_info, mfile, init, initdev, uopen, priv, notify, ctlsb, user,
                   registered, dead>>

destroy_answered(m) ==
    /\ mpc[m] = "destroy" /\ fc[m].destroy = "answered"
    /\ fc' = [fc EXCEPT ![m].destroy = "none"]
    /\ mpc' = [mpc EXCEPT ![m] = "abort"]
    /\ UNCHANGED <<bdev, fs_info, mfile, init, initdev, uopen, priv, notify, ctlsb, user,
                   registered, dead>>

put_super_abort(m) ==
    /\ mpc[m] = "abort"
    /\ fuse_abort_conn(m)
    /\ mpc' = [mpc EXCEPT ![m] = "remove"]
    /\ UNCHANGED <<bdev, fs_info, mfile, uopen, priv, notify, ctlsb, user, registered, dead>>

(* list_del and fuse_ctl_remove_conn in fuse_mutex, then the reference.    *)
fuse_put_super(m) ==
    /\ mpc[m] = "remove" /\ mutex_free
    /\ fc' = [fc EXCEPT ![m] =
                fuse_conn_put([@ EXCEPT !.listed = FALSE, !.bdi = FALSE, !.ctl = FALSE])]
    /\ mpc' = [mpc EXCEPT ![m] = "gone"]
    /\ UNCHANGED <<bdev, fs_info, mfile, init, initdev, uopen, priv, notify, ctlsb, user,
                   registered, dead>>

(***************************************************************************)
(* The control file system.                                                *)
(***************************************************************************)

(* When fuse_ctl_add_conn fails for a connection, all of it is undone.     *)
fuse_ctl_fill_super ==
    /\ Loaded /\ ~ctlsb /\ mutex_free
    /\ ctlsb' = TRUE
    /\ fc' = [m \in Mounts |-> [fc[m] EXCEPT !.ctl = fc[m].listed]]
    /\ UNCHANGED <<mpc, bdev, fs_info, mfile, init, initdev, uopen, priv, notify, user,
                   registered, dead>>

(* Files that are in use keep the super block.                             *)
fuse_ctl_kill_sb ==
    /\ ctlsb /\ mutex_free
    /\ \A u \in Users : user[u] = None
    /\ ctlsb' = FALSE
    /\ fc' = [m \in Mounts |-> [fc[m] EXCEPT !.ctl = FALSE]]
    /\ UNCHANGED <<mpc, bdev, fs_info, mfile, init, initdev, uopen, priv, notify, user,
                   registered, dead>>

fuse_ctl_file_conn_get(u, m) ==
    /\ mutex_free /\ user[u] = None
    /\ ctlsb /\ fc[m].ctl
    /\ user' = [user EXCEPT ![u] = m]
    /\ fc' = [fc EXCEPT ![m] = Get(@)]
    /\ UNCHANGED <<mpc, bdev, fs_info, mfile, init, initdev, uopen, priv, notify, ctlsb,
                   registered, dead>>

fuse_conn_abort_write(u) ==
    /\ user[u] # None
    /\ fc[user[u]].connected
    /\ fuse_abort_conn(user[u])
    /\ UNCHANGED <<mpc, bdev, fs_info, mfile, uopen, priv, notify, ctlsb, user, registered,
                   dead>>

(* The end of every operation of a control file.                           *)
ctl_put(u) ==
    /\ user[u] # None
    /\ fc' = [fc EXCEPT ![user[u]] = fuse_conn_put(@)]
    /\ user' = [user EXCEPT ![u] = None]
    /\ UNCHANGED <<mpc, bdev, fs_info, mfile, init, initdev, uopen, priv, notify, ctlsb,
                   registered, dead>>

Next ==
    \/ \E k \in 1..9 : fuse_init(k)
    \/ fuse_exit
    \/ \E m \in Mounts :
        \/ fuse_mount(m) \/ fill_super_setup(m) \/ fill_super_publish(m)
        \/ fill_super_unlock(m) \/ fill_super_fput(m) \/ fuse_send_init(m)
        \/ fuse_umount_begin(m) \/ fuse_kill_sb(m) \/ fuse_send_destroy(m)
        \/ destroy_answered(m) \/ put_super_abort(m) \/ fuse_put_super(m)
    \/ \E f \in Files :
        \/ dev_open(f) \/ close(f) \/ fuse_dev_release(f) \/ read_init(f)
        \/ process_init_reply(f) \/ answer_destroy(f) \/ fuse_notify(f) \/ fuse_notify_end(f)
        \/ \E old \in Files : fuse_device_clone(old, f)
    \/ fuse_ctl_fill_super \/ fuse_ctl_kill_sb \/ ctl_add_dies
    \/ \E u \in Users :
        \/ fuse_conn_abort_write(u) \/ ctl_put(u)
        \/ \E m \in Mounts : fuse_ctl_file_conn_get(u, m)

Spec == Init /\ [][Next]_mvars

(***************************************************************************)
(* Properties.                                                             *)
(***************************************************************************)

(* The super block's reference and the one of a device not yet attached.   *)
OwnRefs(m) ==
    CASE mpc[m] = "publish" -> 2
      [] mpc[m] \in {"fput", "send_init", "mounted", "put_super", "destroy", "abort",
                     "remove"} -> 1
      [] OTHER -> 0

(* fuse_conn_get, fuse_conn_put and every error label of fuse_fill_super:  *)
(* fc->count is the number of super blocks, device files and control file  *)
(* operations that use the connection, and it is freed exactly when none   *)
(* does.                                                                   *)
ConnRefs ==
    \A m \in Mounts :
        LET refs == OwnRefs(m) + Cardinality({f \in Files : priv[f] = m})
                               + Cardinality({u \in Users : user[u] = m})
        IN  fc[m].count = refs /\ (fc[m].alive <=> refs > 0)

(* fc->dev_count, fuse_device_clone and fuse_dev_release: a mounted        *)
(* connection counts its device files, and is aborted once the last one is *)
(* closed, since nobody can answer its requests any more.                  *)
LastCloseAborts ==
    \A m \in Mounts : mpc[m] \in {"fput", "send_init", "mounted"} =>
        LET devices == {f \in Files : priv[f] = m}
        IN  /\ fc[m].dev_count = Cardinality(devices)
            /\ fc[m].connected => devices # {}

(* killsb: the super block that a notification uses has not been given up  *)
(* by its unmount (dev.c, inode.c).                                        *)
SbLive ==
    \A f \in Files : notify[f] # None => mpc[notify[f]] \in {"fput", "send_init", "mounted"}

(* process_init_reply: once the INIT request of a mount has ended, by a    *)
(* reply, an abort or the close of the device that read it, nobody waits   *)
(* for initialized any more.                                               *)
InitReleases ==
    \A m \in Mounts : mpc[m] = "mounted" /\ init[m] = "ended" =>
        fc[m].initialized

(* fuse_ctl_remove_conn: no control file leads to a connection that was    *)
(* freed, nor to one whose mount is over.                                  *)
CtlValid == \A m \in Mounts : fc[m].ctl => ctlsb /\ fc[m].alive /\ mpc[m] # "gone"

(* fuse_init and fuse_exit: the module has all of its registrations or     *)
(* none, and none is gone while a mount or a device file uses it.          *)
ModuleBalanced ==
    /\ registered \in {{}, Done(8)}
    /\ registered = {} => /\ \A f \in Files : ~uopen[f] /\ priv[f] = None
                          /\ \A m \in Mounts : mpc[m] \in {"idle", "gone"}

(* The life of a connection (fuse_fill_super, fuse_put_super, control.c,   *)
(* fuse_dev_free): references are exact, control files lead to live        *)
(* connections only, and the module is there as long as one is in use.     *)
ConnSafe == ConnRefs /\ CtlValid /\ ModuleBalanced

(* Waiting for a mounted file system ends: someone can still answer, or    *)
(* the connection was aborted, and INIT lets the waiters go however it     *)
(* ends (fuse_dev_release, process_init_reply, fuse_abort_conn).           *)
Served == LastCloseAborts /\ InitReleases

(* fuse_i.h: the connection is there until the device is closed and the    *)
(* file system unmounted; fuse_kill_sb_anon and fuse_kill_sb_blk never     *)
(* take the killsb of a connection that was freed.                         *)
KillLive == "kill_sb" \notin dead

=============================================================================
